\* The mock adapter of a development run, restarted at any point, a database any
\* of whose statements may fail, and requests that overwrite the balance.
SPECIFICATION Spec
CONSTANTS
    Accounts = {acct}
    Keys = {k1}
    Amounts = {1}
    MaxStakes = 2
    Handlers = {h1, h2}
    Pollers = {p1}
    PollLimit = 2
    NoAccount = NoAccount
    NoKey = NoKey
    Faults = {"db", "crash"}
    Provider = "mock"
    RewardRate = 1
    MaxDay = 1
    Deposits = {1}
    MaxVersion = 3
    Seeded = {acct}
    Opening = 2
SYMMETRY Symmetry
INVARIANTS TypeOK FundsAccounted
PROPERTIES LedgerRefined
