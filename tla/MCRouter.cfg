CONSTANTS
    Ports = {1, 2, 3}
    Networks = {1, 2}
    TTLs = {0, 3}
    LearnTTL = 1
    Packets <- MCPackets
    ForwardGlobalBroadcast = TRUE
    MaxTime = 2
SPECIFICATION Spec
INVARIANTS
    ForwardsLive
    BestDeterministic
    ReplyPath
    Accounted
PROPERTIES
    NoEcho
