SPECIFICATION Spec
CONSTANTS
    SpanSize = 2
    NoAddress = 0
    RuleSets <- MCRuleSets
    Rule <- MCRule
    Call <- MCCall
    Threads <- MCThreads
    Global <- MCGlobal
    MatchesOf <- MCNames
    Fails <- MCFails
    DepsOf <- MCDepsOf
INVARIANTS LiveUnion RecordsStarts
