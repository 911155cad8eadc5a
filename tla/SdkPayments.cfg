SPECIFICATION Spec
CONSTANTS
    Owner = Owner
    Vault = Vault
    Services = {s1}
    DefaultKey = DefaultKey
    Supply = 4
    Amounts = {2}
    Policies <- TightPolicies
    WhitelistLen = 2
    SlotsPerHour = 1
    MaxU64 = 9
    FirstSlot = 0
    MaxSlot = 1
    Callers = {c1, c2}
    MaxCalls = 2
    MaxTx = 3
    MaxOwner = 2
    None = None
SYMMETRY CallerSymmetry
CHECK_DEADLOCK FALSE
INVARIANTS LadderAgrees ErrorNamesCause RequestOwnsNonce RetriesRepeatNothing
