SPECIFICATION ProxySpec
CONSTANTS
    web = web
    api = api
    lo4 = lo4
    lo6 = lo6
    h1 = h1
    c1 = c1
    http1 = http1
    tcp1 = tcp1
    Services = {web, api}
    Configured = {web}
    Addresses = {lo4, lo6}
    Loopback6 = lo6
    Loopback4 = lo4
    StaticOf <- MCStaticOf
    Hosts = {h1}
    HostService <- MCHostService
    Containers = {c1}
    LabelOf <- MCLabelOf
    AddressOf <- MCAddressOf
    Invalid = {}
    MaxChanges = 1
    MaxRestarts = 1
    HttpSessions = {http1}
    TcpSessions = {tcp1}
    ServiceOf <- MCServiceOf
    TlsNames = {h1}
    Retries = 2
INVARIANTS
    RegistryTypeOK
    TableMatchesRound
    GapLastsOneRound
PROPERTIES
    NoGapWithoutLoss
    TableConverges
    AttemptsFollowTheTable
    SessionsEnd
