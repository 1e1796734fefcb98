SPECIFICATION Spec
CONSTANTS
    i1 = i1
    i2 = i2
    i3 = i3
    Ips = {i1, i2, i3}
    Observed = i1
    Configs <- MCAllConfigs
    CapacityOf <- MCCapacityOf
    U16Max = 3
    TicksPerSec = 2
    MaxClock = 8
    MaxPause = 2
    MaxRequests = 5
CONSTRAINT MCBound
INVARIANTS
    TypeOK
    AdmittedPerWindow
    BluePhase
    AdmittedInAnyPeriod
    NoSpuriousRejection
    BucketsBounded
    KnownClientsAreServed
