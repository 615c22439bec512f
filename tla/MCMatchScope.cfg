CONSTANTS
    Rule <- MCRule
    Addr = {1}
    FeatureSets <- MCFeatureSets
    RuleLists <- MCRuleLists
    Inputs <- MCInputs
    Eval <- MCEval
    FullEval <- MCFullEval
    Always <- MCAlways
    Alts <- MCAlts
    Opens <- MCOpens
    Published <- MCPublished
SPECIFICATION Spec
INVARIANTS MatchesLikeLinear FailsLikeLinear
