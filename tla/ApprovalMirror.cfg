SPECIFICATION FairSpec
CONSTANTS
    Keys = {k1}
    None = None
    Shapes = {s1}
    Workers = {w1, w2}
    VaultIndexed = FALSE
    InOrder = FALSE
    MaxReplays = 1
    MaxDirect = 1
    MaxOwner = 1
    MaxFaults = 1
CHECK_DEADLOCK FALSE
INVARIANTS RowsMatchRequests RejectionsExact ApprovalsBacked
PROPERTIES NeverReopened RequestsSurface
