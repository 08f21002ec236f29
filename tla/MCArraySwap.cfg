SPECIFICATION ArraySpec
CONSTANTS
    Elements = {1, 2, 3}
    Junk = Junk
    InitialCaps <- MCCaps
    SwapSlack = 5
    MaxAdded = 2
    MaxSize = 5
INVARIANT SwapSpaceSuffices
CHECK_DEADLOCK FALSE
