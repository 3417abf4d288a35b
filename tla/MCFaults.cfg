\* Everything may fail: statements, provider calls with or without effect,
\* stakes at the provider; requests and polls are abandoned at any call, the
\* process crashes at any point.  All requests have one idempotency key.
SPECIFICATION Spec
CONSTANTS
    Accounts = {acct}
    Keys = {k1}
    Amounts = {1}
    MaxStakes = 2
    Handlers = {h1, h2}
    Pollers = {p1}
    PollLimit = 2
    NoAccount = NoAccount
    NoKey = NoKey
    Faults = {"db", "provider", "slash", "cancel", "crash"}
    Provider = "port"
    RewardRate = 0
    MaxDay = 1
    Deposits = {}
    MaxVersion = 0
    Seeded = {acct}
    Opening = 2
SYMMETRY Symmetry
INVARIANTS OneProviderStakePerKey MovesFollowState RowsFollowProvider AuditIsTrue
PROPERTIES LedgerRefined
