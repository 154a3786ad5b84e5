CONSTANTS
    NUM_PAGES = 16
    PAGE_SIZE = 4
    HEADER = 1
    SIZE_MOD = 64
    PCB_SIZE = 3
    STACK_SIZE = 4
    Priorities = {1, 2}
    Statuses = {0, 42}
    MAX_PID = 5
    LOW_MEMORY = 99
    Calls <- AllCalls
SPECIFICATION Spec
INVARIANTS TypeOK QueueDiscipline NoLostWakeup WokenFindsZombie WaitTellsTheTruth OwnStacks
PROPERTIES DispatchesFirst NoOvertaking
