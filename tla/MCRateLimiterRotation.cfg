SPECIFICATION Spec
CONSTANTS
    i1 = i1
    i2 = i2
    i3 = i3
    Ips = {i1, i2}
    Observed = i1
    Configs <- MCRotationConfigs
    CapacityOf <- MCCapacityOf
    U16Max = 3
    TicksPerSec = 1
    MaxClock = 8
    MaxPause = 1
    MaxRequests = 6
PROPERTIES
    CurrentBecomesPrevious
