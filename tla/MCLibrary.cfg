SPECIFICATION MCSpec
CONSTANTS
    MemorySize = 23
    BlockWord = 16
    ArgWord = 32
    Sizes <- MCSizes
    Callers = {c1, c2}
    NoFile = NoFile
    Width = 2
    FirstKeys = {0, 8, 14}
    AsIntegers = TRUE
    MaxKeys = 5
    MaxCrashes = 2
    Elements = {1, 2, 3}
    Junk = Junk
    InitialCaps <- MCCaps
    SwapSlack = 5
    MaxAdded = 2
    MaxSize = 5
    Inputs <- MCInputs
    Untils <- MCUntils
    BufferSize = 2
    Counts = {0, 1, 3, 5}
    ElsLimit = 4
    UntilLimit = 3
    Thrown = Thrown
    NUMBER_MAX_DIGITS = 4
    MAX_LENGTH_OF_KEYVALUE_STRING = 9
    MAX_JSON_DEPTH = 1
    MAX_LENGTH_OF_JSON_STRING_KEYS = 4
    MAX_LENGTH_OF_JSON_STRING_VALUES = 4
    Subjects <- MCSubjects
INVARIANTS
    MemoryPartitioned HeldDisjoint
    StringKeysUnique
    BufferSuffices SortedIsInOrder
    ReadsUpToMatch TasksReadTheirPart NumbersReadDigits
    DocumentsParseBack MappedByType
    FormattedAsWritten DatesReadBack RecordsReadBack
PROPERTIES
    BestFit FlushedKeysNotReissued ImplementsList
    ImplementsCursor CallsEnd
CHECK_DEADLOCK FALSE
