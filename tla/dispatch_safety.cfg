SPECIFICATION Spec
INVARIANTS
    TakeIsDefined
    ClientPlacedOnce
    NoWorkerSleepsThroughClient
SYMMETRY Symmetry
CONSTANTS
    Workers = {w1, w2, w3}
    w1 = w1
    w2 = w2
    w3 = w3
    Sockets = {s1, s2, s3, s4}
    s1 = s1
    s2 = s2
    s3 = s3
    s4 = s4
    MaxWorkerQueueSize = 2
    Priorities = {1, 2}
    SpuriousWakeups = TRUE
    Nobody = Nobody
    Main = Main
