SPECIFICATION ActorSpec
CONSTANTS
    i1 = i1
    i2 = i2
    h1 = h1
    h2 = h2
    Ips = {i1, i2}
    Observed = i1
    Configs <- MCConfigs
    CapacityOf <- MCCapacityOf
    U16Max = 3
    TicksPerSec = 1
    MaxClock = 2
    MaxPause = 0
    MaxRequests = 2
    Handlers = {h1, h2}
    IpOf <- MCIpOf
    Buffer = 1
    MaxSends = 2
CHECK_DEADLOCK FALSE
INVARIANTS
    ResponseMatchesVerdict
PROPERTIES
    HandlersAreAnswered
    SentProbesAreCounted
