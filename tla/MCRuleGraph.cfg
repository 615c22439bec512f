SPECIFICATION FairSpec
CONSTANTS
    Name <- MCName
    NoName <- MCNoName
    Parent <- MCParent
    RuleLists <- MCRuleLists
INVARIANTS
    DependencyFirst
    OrdersEveryRule
    CycleIsReal
PROPERTIES
    Terminates
