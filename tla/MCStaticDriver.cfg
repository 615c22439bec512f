SPECIFICATION Spec
CONSTANTS
    Accepts <- MCAccepts
    MaxDepth = 3
    Guids <- NoGuids
    RuleSets <- MCRuleSets
    Files <- MCFiles
    Globals <- MCGlobals
INVARIANTS
    MatchesMeanTheRules
    EvidenceIgnoresHashOrder
    SameAsSerial
    DocumentExplains
