SPECIFICATION Spec
CHECK_DEADLOCK FALSE
CONSTANTS
    MaxTx = 2
    MaxKeys = 1
    Caps = {1}
    Services = {s1}
    WhitelistLen = 1
    MaxRuns = 2
    MaxFlows = 2
    MaxStarts = 2
    SetUp = {0, 1, 2, 4, 6}
    None = None
INVARIANTS KeysSaved ChainAsReported RerunsRepeatNothing
PROPERTIES EverythingSettles
