SPECIFICATION CaptchaSpec
CONSTANTS
    t1 = t1
    t2 = t2
    home = home
    mobile = mobile
    Tabs = {t1, t2}
    ClientIds = {home, mobile}
    MaxKeys = 2
    ChallengeTtl = 2
    VerifiedTtl = 2
    Drift = 1
    Margin = 1
    MaxSkew = 1
    MaxNow = 5
    MaxChallenges = 7
    MaxCrashes = 1
    MaxMoves = 1
SYMMETRY TabSymmetry
CONSTRAINT MCBound
INVARIANTS
    CaptchaTypeOK
    AcceptedHasSolved
    SolvedByItsClient
    LiveCookieIsAccepted
    SigningKeyIsDurable
CHECK_DEADLOCK FALSE
