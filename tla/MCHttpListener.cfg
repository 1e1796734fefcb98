SPECIFICATION HttpSpec
CONSTANTS
    RuleSets <- MCRuleSets
    NumServices = 2
INVARIANTS
    HttpTypeOK
    AnsweredAsConfigured
