CONSTANTS
    NUM_PAGES = 16
    PAGE_SIZE = 4
    HEADER = 1
    SIZE_MOD = 64
    PCB_SIZE = 3
    STACK_SIZE = 4
    Priorities = {1}
    Statuses = {0}
    MAX_PID = 5
    LOW_MEMORY = 99
    Calls <- MCSysCalls
SPECIFICATION FairSpec
INVARIANTS ResumesOwnFrame NoDanglingPCB
PROPERTY EveryReadyProcessRuns
