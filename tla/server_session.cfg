SPECIFICATION FairSession
INVARIANTS
    WordIsTheMessage
    OnlyLeavingEarlyKills
    MapMovesLate
PROPERTIES
    ImplementsAnswerLog
    SignalDrains
    WorkerIsFreed
CHECK_DEADLOCK FALSE
CONSTANTS
    Workers = {w1}
    w1 = w1
    Messages = 6
    Slots = 6
    NodeSlots = 2
    MapPlaces = 5
    NoEntry = NoEntry
    MAX_MSG_LENGTH = 3
    CAN_LINEBREAK = TRUE
    Characters = {a, NL, NUL}
    a = a
    NL = NL
    NUL = NUL
    Removable = {NL}
    Garbage = Garbage
    Clients = 2
    Bytes = 3
