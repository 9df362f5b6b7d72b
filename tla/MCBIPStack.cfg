\* The sizes of a client as built: 1476 octets announced and 1476 received.
SPECIFICATION Spec
CONSTANTS
    Letters <- MCLetters
    Messages <- MCMessages
    Controls <- MCControls
    Replies <- MCReplies
    Junk <- MCJunk
    MaxAPDU = 1476
    MaxDatagram = 1476
INVARIANTS
    EndToEnd
    AnswerFindsSender
    Canonical
    MessagesSurvive
PROPERTIES
    FramesKeepRun
    RunStops
CHECK_DEADLOCK FALSE
