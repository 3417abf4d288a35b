\* Requests and the poller write one balance, no faults at all.
SPECIFICATION Spec
CONSTANTS
    Accounts = {acct}
    Keys = {k1, k2}
    Amounts = {1}
    MaxStakes = 2
    Handlers = {h1}
    Pollers = {p1}
    PollLimit = 2
    NoAccount = NoAccount
    NoKey = NoKey
    Faults = {}
    Provider = "mock"
    RewardRate = 1
    MaxDay = 1
    Deposits = {}
    MaxVersion = 0
    Seeded = {acct}
    Opening = 2
SYMMETRY Symmetry
INVARIANTS NothingIsHalfDone
