\* Malformed datagrams.
SPECIFICATION Spec
CONSTANTS
    Letters <- OneLetter
    Messages = {}
    Controls = {}
    Replies = {}
    Junk <- OneLetter
    MaxAPDU = 1476
    MaxDatagram = 1476
PROPERTIES
    BadDatagramsSkipped
CHECK_DEADLOCK FALSE
