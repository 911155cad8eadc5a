CONSTANTS
    SlotsPerDay = 4
    MaxU16 = 65535
    MaxU32 = 200
    MaxU64 = 200
    Transactions = {0, 1, 2, 8, 9, 10, 11, 98, 99, 100, 101}
    ServiceCounts = {0, 1, 3, 4, 5}
    Streaks = {0, 1, 14, 15, 16}
    FeedbackTotals = {0, 1, 2, 3, 4, 7}
    Tenures = {0, 3, 4, 27, 28, 119, 120, 121}
SPECIFICATION ScoreSpec
CHECK_DEADLOCK FALSE
PROPERTIES ScoreFollowsConduct
