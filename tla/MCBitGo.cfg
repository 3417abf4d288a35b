\* The BitGo adapter, which answers for the wallet and not for the stake, over
\* two days, with a network that refuses and loses answers.  The first balance
\* is made by a request.
SPECIFICATION Spec
CONSTANTS
    Accounts = {acct}
    Keys = {k1, k2}
    Amounts = {1}
    MaxStakes = 2
    Handlers = {h1}
    Pollers = {p1}
    PollLimit = 2
    NoAccount = NoAccount
    NoKey = NoKey
    Faults = {"provider"}
    Provider = "bitgo"
    RewardRate = 1
    MaxDay = 2
    Deposits = {2}
    MaxVersion = 1
    Seeded = {}
    Opening = 0
SYMMETRY Symmetry
INVARIANTS MovesFollowState FundsAccounted CumulativeIsTotal
PROPERTIES LedgerRefined
