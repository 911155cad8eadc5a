CONSTANTS
    Capacity = 1
    WireCap = 1
    IdleTicks = 1
    MaxFrames = 3
    MaxFaults = 1
SPECIFICATION Spec
INVARIANTS OneChain
PROPERTIES StreamFaithful NoSocketAfterClose HalfOpenReaped Reconnects
