CONSTANTS
    Owner = Owner
    Vault = Vault
    Services = {s1}
    DefaultKey = DefaultKey
    Supply = 2
    Amounts = {0, 1, 2}
    Policies <- LedgerPolicies
    WhitelistLen = 2
    SlotsPerHour = 1
    MaxU64 = 3
    FirstSlot = 0
    MaxSlot = 0
    MaxRequests = 2
    MaxWithdrawn = 1
SPECIFICATION Spec
CONSTRAINT Bounded
INVARIANTS TypeOK Conservation RequestsAccounted ShownBudgetBinds
PROPERTIES OverLimitNeedsApproval PaymentsWhitelisted ImplementsEscrow
