SPECIFICATION FairSpec
INVARIANTS
    EverySignalAccounted
    BatchesAreFull
    NeverAllAsleep
PROPERTIES
    TerminateEndsLogger
CHECK_DEADLOCK FALSE
CONSTANTS
    r1 = r1
    r2 = r2
    r3 = r3
    SIGUSR1 = SIGUSR1
    SIGUSR2 = SIGUSR2
    Logger = Logger
    Nobody = Nobody
    Receivers = {r1, r2, r3}
    Assigned <- TwoAndOne
    Capacity = 2
    CountLimit = 3
    TIME_TRIAL = FALSE
    Sends = 2
    SpuriousWakeups = TRUE
