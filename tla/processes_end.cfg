SPECIFICATION FairSpec
INVARIANTS
    ClosedPeacefully
PROPERTIES
    ProgramEnds
CHECK_DEADLOCK FALSE
CONSTANTS
    Main = Main
    Handler = Handler
    Gen0 = Gen0
    Gen1 = Gen1
    ForkMayFail = TRUE
