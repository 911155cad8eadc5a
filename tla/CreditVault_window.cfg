CONSTANTS
    Owner = Owner
    Vault = Vault
    Services = {s1}
    DefaultKey = DefaultKey
    Supply = 5
    Amounts = {1, 5}
    Policies <- WindowPolicies
    WhitelistLen = 1
    SlotsPerHour = 3
    MaxU64 = 5
    FirstSlot = 0
    MaxSlot = 5
    MaxRequests = 0
    MaxWithdrawn = 0
SPECIFICATION Spec
CONSTRAINT Bounded
INVARIANTS
    HourlyBound
