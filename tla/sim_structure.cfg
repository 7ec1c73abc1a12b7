SPECIFICATION StatSpec
INVARIANTS
    EventsAhead
    ComponentsConsistent
    MaximumLagsByOne
    ThroughputsAddUp
    BusyTimeMatchesJobs
PROPERTIES
    JobsConserved
    OnlyCpuRunsLate
    SimulationEnds
CHECK_DEADLOCK FALSE
CONSTANTS
    INIT_TIME = 0
    FIN_TIME = 5
    ARRIVE_MIN = 2
    ARRIVE_MAX = 2
    CPU_MIN = 1
    CPU_MAX = 2
    DISK1_MIN = 1
    DISK1_MAX = 1
    DISK2_MIN = 2
    DISK2_MAX = 2
    NETWORK_MIN = 1
    NETWORK_MAX = 1
    QUIT_PROB = 20
    NETWORK_PROB = 30
    Leftovers = {0, 2}
