\* Two first deposits of one customer, no faults at all.
SPECIFICATION Spec
CONSTANTS
    Accounts = {acct}
    Keys = {k1}
    Amounts = {1}
    MaxStakes = 1
    Handlers = {h1, h2}
    Pollers = {p1}
    PollLimit = 2
    NoAccount = NoAccount
    NoKey = NoKey
    Faults = {}
    Provider = "port"
    RewardRate = 0
    MaxDay = 1
    Deposits = {1}
    MaxVersion = 1
    Seeded = {}
    Opening = 2
SYMMETRY Symmetry
INVARIANTS FundsAccounted
