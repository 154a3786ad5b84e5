CONSTANTS
    NUM_PAGES = 7
    PAGE_SIZE = 4
    HEADER = 1
    SIZE_MOD = 64
    Sizes <- MCSizes
SPECIFICATION Spec
INVARIANTS TypeOK NoOverlap TagsMatchBlocks OrphansAtTheBottom
PROPERTY KfreeExact
