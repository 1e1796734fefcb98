SPECIFICATION FairAcmeSpec
CONSTANTS
    shop = shop
    blog = blog
    wild = wild
    Domains = {shop, blog}
    Operator = {wild}
    Matches <- MCMatches
    Folders <- MCFolders
    MaxStops = 1
    MaxFailures = 2
    Retries = 2
    MaxRenewals = 1
INVARIANTS
    AcmeTypeOK
    CompleteSavesLoad
    SavedIsServed
    ChallengeIsTheOrders
PROPERTY
    DomainsGetCertificates
CHECK_DEADLOCK FALSE
