SPECIFICATION KeySpec
CONSTANTS
    Callers = {c1, c2}
    NoFile = NoFile
    Width = 2
    FirstKeys = {0, 8, 14}
    AsIntegers = TRUE
    MaxKeys = 3
    MaxCrashes = 0
INVARIANT IntegerKeysUnique
CHECK_DEADLOCK FALSE
