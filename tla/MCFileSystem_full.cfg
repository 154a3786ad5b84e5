CONSTANTS
    MAX_FILES = 2
    BLOCK_COUNT = 2
    MAX_BLOCKS_PER_FILE = 2
    BLOCK_SIZE = 2
    COUNT_MOD = 3
    Names = {n1, n2}
    NoName = NoName
    Bytes = {0, 1}
    Buffers <- MCData
    ReadSizes <- MCRead
    Permissions = {}
SYMMETRY NameSymmetry
SPECIFICATION Spec
INVARIANTS BlocksAccounted NoHoles
PROPERTY ImplementsFileStore
