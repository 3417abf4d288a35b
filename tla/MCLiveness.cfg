\* Polls that list one stake at a time, a provider that settles what it has
\* accepted and may fail what it has confirmed, and no other fault.  No symmetry:
\* the properties are temporal.
SPECIFICATION FairApiSpec
CONSTANTS
    alice = alice
    bob = bob
    hers = hers
    his = his
    Customers = {alice}
    Nobody = Nobody
    Owner <- AliceOwns
    Transports = {"grpc"}
    DefaultPage = 2
    MaxPage = 1
    MaxStops = 0
    Accounts = {hers}
    Keys = {k1, k2}
    Amounts = {1}
    MaxStakes = 2
    Handlers = {h1}
    Pollers = {p1}
    PollLimit = 1
    NoAccount = NoAccount
    NoKey = NoKey
    Faults = {"slash"}
    Provider = "port"
    RewardRate = 1
    MaxDay = 1
    Deposits = {}
    MaxVersion = 0
    Seeded = {hers}
    Opening = 2
PROPERTIES StakesSettle FirstStakesRecorded
CHECK_DEADLOCK FALSE
