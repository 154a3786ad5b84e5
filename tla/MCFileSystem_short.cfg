CONSTANTS
    MAX_FILES = 2
    BLOCK_COUNT = 4
    MAX_BLOCKS_PER_FILE = 2
    BLOCK_SIZE = 2
    COUNT_MOD = 16
    Names = {n1, n2}
    NoName = NoName
    Bytes = {0}
    Buffers <- MCZeroes
    ReadSizes <- MCRead
    Permissions <- MCPermissions
SYMMETRY NameSymmetry
SPECIFICATION Spec
PROPERTY StoredInFull
