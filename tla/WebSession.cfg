SPECIFICATION Spec
CONSTANTS
    Wallets = {w1, w2}
    Indexed = {w1}
    MaxAttempts = 2
    MaxFetches = 2
    None = None
CHECK_DEADLOCK FALSE
INVARIANTS MintedOnce SignedByOwner ListsByOwner
PROPERTIES SessionFollowsWallet
