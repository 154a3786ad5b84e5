CONSTANTS
    NUM_PAGES = 16
    PAGE_SIZE = 4
    HEADER = 1
    SIZE_MOD = 64
    PCB_SIZE = 3
    STACK_SIZE = 4
    Priorities = {1}
    Statuses = {42}
    MAX_PID = 3
    LOW_MEMORY = 99
    Calls <- MCForking
    KERNEL_STACK_FRAMES = 4
    CLI_FRAMES = 2
SPECIFICATION SwitchSpec
INVARIANT ForkResultKept
