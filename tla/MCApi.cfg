\* Clients of one customer, through the gateway, of a server that is told to
\* stop, or dies, at any point.  The first balance is made by a request.
SPECIFICATION ApiSpec
CONSTANTS
    alice = alice
    bob = bob
    hers = hers
    his = his
    Customers = {alice}
    Nobody = Nobody
    Owner <- AliceOwns
    Transports = {"http"}
    DefaultPage = 1
    MaxPage = 1
    MaxStops = 1
    Accounts = {hers}
    Keys = {k1}
    Amounts = {1, 2}
    MaxStakes = 1
    Handlers = {h1, h2}
    Pollers = {p1}
    PollLimit = 2
    NoAccount = NoAccount
    NoKey = NoKey
    Faults = {"cancel", "crash"}
    Provider = "port"
    RewardRate = 0
    MaxDay = 1
    Deposits = {1}
    MaxVersion = 2
    Seeded = {}
    Opening = 2
SYMMETRY Symmetry
INVARIANTS ApiTypeOK RefusalsLeaveNoTrace OkIsDone
PROPERTIES SystemImplemented
CHECK_DEADLOCK FALSE
