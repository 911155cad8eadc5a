SPECIFICATION FeedSpec
CONSTANTS
    Agents = {a1, a2}
    Visited = {a1}
    TicksPerDay = 2
    RangeDays = {2, 3}
    DefaultDays = 3
    PerAgentLimit = 1
    MaxEvents = 3
    Times = {1, 7}
    MaxSubs = 1
    MaxSamples = 2
    MaxBuffered = 2
    MaxTicker = 1
    PageLimit = 1
    None = None
CHECK_DEADLOCK FALSE
INVARIANTS RowsInPlace NewestShown SpendsCounted
