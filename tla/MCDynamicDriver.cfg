SPECIFICATION Spec
CONSTANTS
    Accepts = {}
    MaxDepth = 3
    Guids <- NoGuids
    SpanSize = 2
    TopScopes = {"thread", "process", "file"}
    RuleSets <- MCRuleSets
    Files <- MCFiles
    Globals <- MCGlobals
INVARIANTS
    MatchesMeanTheRules
    DocumentExplains
