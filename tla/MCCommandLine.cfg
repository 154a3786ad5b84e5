CONSTANTS
    MAX_INPUT_LENGTH = 10
    MAX_FILENAME_LEN = 10
    UINT16_MOD = 16
    Programs = {"dummy1"}
    Lines <- MCLines
    Garbage = {"f", " "}
SPECIFICATION Spec
INVARIANTS CallMeansLine StrtokInLine NamesKeptApart
