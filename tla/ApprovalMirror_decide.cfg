SPECIFICATION Spec
CONSTANTS
    Keys = {k1}
    None = None
    Shapes = {s1}
    Workers = {w1, w2}
    VaultIndexed = TRUE
    InOrder = TRUE
    MaxReplays = 0
    MaxDirect = 1
    MaxOwner = 1
    MaxFaults = 0
CHECK_DEADLOCK FALSE
PROPERTIES DecisionStands
