SPECIFICATION Spec
INVARIANTS
    HandlersOnReceivers
PROPERTIES
    EndedOnlyWhileUnready
CHECK_DEADLOCK FALSE
CONSTANTS
    SIGUSR1 = SIGUSR1
    SIGUSR2 = SIGUSR2
    Garbage = Garbage
    Main = Main
