SPECIFICATION FairSpec
INVARIANTS
    MainSleepsOnlyWhenFull
PROPERTIES
    ImplementsService
    QueuedClientIsServed
CONSTANTS
    Workers = {w1, w2}
    w1 = w1
    w2 = w2
    Sockets = {s1, s2, s3, s4}
    s1 = s1
    s2 = s2
    s3 = s3
    s4 = s4
    MaxWorkerQueueSize = 3
    Priorities = {1, 2}
    SpuriousWakeups = FALSE
    Nobody = Nobody
    Main = Main
