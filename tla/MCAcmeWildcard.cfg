SPECIFICATION AcmeSpec
CONSTANTS
    shop = shop
    blog = blog
    wild = wild
    Domains = {shop, blog}
    Operator = {wild}
    Matches <- MCMatches
    Folders <- Plain
    MaxStops = 1
    MaxFailures = 0
    Retries = 2
    MaxRenewals = 0
INVARIANT
    DefaultIsTheLastResort
CHECK_DEADLOCK FALSE
