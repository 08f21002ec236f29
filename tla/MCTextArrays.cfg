SPECIFICATION TextSpec
CONSTANTS
    Inputs <- MCInputs
    Untils <- MCUntils
    BufferSize = 2
    Counts = {0, 1, 3, 5}
    ElsLimit = 4
    UntilLimit = 3
    Thrown = Thrown
    NUMBER_MAX_DIGITS = 4
    MAX_LENGTH_OF_KEYVALUE_STRING = 9
    MAX_JSON_DEPTH = 1
    MAX_LENGTH_OF_JSON_STRING_KEYS = 4
    MAX_LENGTH_OF_JSON_STRING_VALUES = 4
    Subjects <- JsonSubjects
INVARIANT WholeArraysParse
CHECK_DEADLOCK FALSE
