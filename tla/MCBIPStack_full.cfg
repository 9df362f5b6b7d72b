\* An answer of the size the client announces.
SPECIFICATION Spec
CONSTANTS
    Letters <- FullLetters
    Messages = {}
    Controls = {}
    Replies = {}
    Junk = {}
    MaxAPDU = 1476
    MaxDatagram = 1476
PROPERTIES
    GoodDatagramsKeepRun
CHECK_DEADLOCK FALSE
