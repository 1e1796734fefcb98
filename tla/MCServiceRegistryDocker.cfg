SPECIFICATION FairRegistrySpec
CONSTANTS
    web = web
    api = api
    a1 = a1
    lo4 = lo4
    lo6 = lo6
    h1 = h1
    c1 = c1
    Services = {web, api}
    Configured = {web}
    Addresses = {lo4, lo6, a1}
    Loopback6 = lo6
    Loopback4 = lo4
    StaticOf <- MCStaticOf
    Hosts = {h1}
    HostService <- MCHostService
    Containers = {c1}
    LabelOf <- MCLabelOf
    AddressOf <- MCAddressOf
    Invalid = {}
    MaxChanges = 0
    MaxRestarts = 1
PROPERTIES
    ContainersAreDiscovered
