\* A request cancelled after the stake row is inserted.
SPECIFICATION FairSpec
CONSTANTS
    Accounts = {acct}
    Keys = {k1}
    Amounts = {1}
    MaxStakes = 1
    Handlers = {h1}
    Pollers = {p1}
    PollLimit = 2
    NoAccount = NoAccount
    NoKey = NoKey
    Faults = {"cancel"}
    Provider = "port"
    RewardRate = 0
    MaxDay = 1
    Deposits = {}
    MaxVersion = 0
    Seeded = {acct}
    Opening = 2
PROPERTIES PendingIsReconciled
