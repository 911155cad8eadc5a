SPECIFICATION ScreenSpec
CHECK_DEADLOCK FALSE
CONSTANTS
    MaxTx = 2
    MaxKeys = 0
    Caps = {1, 2}
    Services = {s1, s2}
    WhitelistLen = 1
    MaxRuns = 1
    MaxFlows = 1
    None = None
    MayFail = TRUE
INVARIANTS ShownAndSent
PROPERTIES PolicySettles
