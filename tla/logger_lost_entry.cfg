SPECIFICATION Spec
INVARIANTS
    NoAnswerLost
CONSTANTS
    Workers = {w1, w2}
    w1 = w1
    w2 = w2
    Messages = 1
    Slots = 3
    NodeSlots = 6
    MapPlaces = 8
    NoEntry = NoEntry
