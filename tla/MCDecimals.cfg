\* Amounts of every fraction of a place: just below, at and just above a half, by less
\* than a tenth.
SPECIFICATION DecimalsSpec
CONSTANTS
    Place = 20
    Grain = 80
    Asked = {9, 10, 11, 20, 30, 45}
    Paid = {1, 2, 5}
    MaxStakes = 3
    MaxRewards = 2
    Opening = 3
INVARIANTS DecimalsTypeOK BucketsCoverRows FundsAreBacked RoundingNeverTakes RoundingGivesOnlyHalves RewardsTrackPayments
CHECK_DEADLOCK FALSE
