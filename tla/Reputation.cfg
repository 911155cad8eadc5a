CONSTANTS
    SlotsPerDay = 1
    MaxU16 = 2
    MaxU32 = 3
    MaxU64 = 3
    Agents = {a1, k1}
    Services = {s1, k1}
    Owners = {o1, s1}
    Receipts = {r1, r2}
    Amounts = {1}
    Values <- FeedbackValues
    RateLimit = 1
    MaxSlot = 1
SPECIFICATION Spec
SYMMETRY ReceiptSymmetry
INVARIANTS FeedbackCounted PaymentsReconcile RatingsSpaced RatingsEarned
