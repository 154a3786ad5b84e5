CONSTANTS
    BUFFER_SIZE = 4
    MAX_INPUT_LENGTH = 3
    VGA_WIDTH = 2
    VGA_HEIGHT = 2
    LetterKeys = {a}
    OtherKeys = {}
    MAX_LINES = 2
SPECIFICATION FairSpec
INVARIANTS TypeOK QuietLineIntact NothingOlderShows CursorOnScreen WritesNearScreen
PROPERTY ReadyLineTaken
