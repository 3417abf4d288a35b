\* Two concurrent requests and two pollers, as of two replicas, no faults: every
\* interleaving of the four with each other, with conflicts on both tables.
SPECIFICATION Spec
CONSTANTS
    Accounts = {acct}
    Keys = {k1, k2}
    Amounts = {1}
    MaxStakes = 2
    Handlers = {h1, h2}
    Pollers = {p1, p2}
    PollLimit = 2
    NoAccount = NoAccount
    NoKey = NoKey
    Faults = {}
    Provider = "port"
    RewardRate = 0
    MaxDay = 1
    Deposits = {}
    MaxVersion = 0
    Seeded = {acct}
    Opening = 2
SYMMETRY Symmetry
INVARIANTS FundsAccounted MovesFollowState AuditFollowsFunds AuditFollowsRows
PROPERTIES LifecycleRefined LedgerRefined
