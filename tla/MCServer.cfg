\* Two customers with an account each and one key that both may send, and a
\* server that is told to stop once, with requests in progress, and may be
\* started again.  No symmetry: the properties are temporal.
SPECIFICATION FairApiSpec
CONSTANTS
    alice = alice
    bob = bob
    hers = hers
    his = his
    Customers = {alice, bob}
    Nobody = Nobody
    Owner <- AliceOwns
    Transports = {"grpc"}
    DefaultPage = 2
    MaxPage = 1
    MaxStops = 1
    Accounts = {hers, his}
    Keys = {k1}
    Amounts = {1}
    MaxStakes = 1
    Handlers = {h1, h2}
    Pollers = {p1}
    PollLimit = 1
    NoAccount = NoAccount
    NoKey = NoKey
    Faults = {"slash"}
    Provider = "port"
    RewardRate = 1
    MaxDay = 1
    Deposits = {}
    MaxVersion = 0
    Seeded = {hers, his}
    Opening = 2
INVARIANTS OnlyKeysExpose
PROPERTIES StakesSettle ShutdownCompletes
CHECK_DEADLOCK FALSE
