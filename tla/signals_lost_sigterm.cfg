SPECIFICATION FairSpec
PROPERTIES
    LoggerIsReleased
CHECK_DEADLOCK FALSE
CONSTANTS
    r1 = r1
    r2 = r2
    r3 = r3
    SIGUSR1 = SIGUSR1
    SIGUSR2 = SIGUSR2
    Logger = Logger
    Nobody = Nobody
    Receivers = {r1, r2}
    Assigned <- OneAndOne
    Capacity = 2
    CountLimit = 0
    TIME_TRIAL = TRUE
    Sends = 1
    SpuriousWakeups = FALSE
