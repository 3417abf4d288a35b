\* A retry of CreateStake beside the first attempt, no faults at all.
SPECIFICATION Spec
CONSTANTS
    Accounts = {acct}
    Keys = {k1}
    Amounts = {1}
    MaxStakes = 2
    Handlers = {h1, h2}
    Pollers = {p1}
    PollLimit = 2
    NoAccount = NoAccount
    NoKey = NoKey
    Faults = {}
    Provider = "mock"
    RewardRate = 0
    MaxDay = 1
    Deposits = {}
    MaxVersion = 0
    Seeded = {acct}
    Opening = 2
SYMMETRY Symmetry
INVARIANTS RetryHoldsOnce
