SPECIFICATION Spec
CONSTANTS
    Accepts = {}
    MaxDepth = 3
    Guids <- MCGuids
    RuleLists <- MCRuleLists
INVARIANTS
    OnlyRootSubscopes
    ListsAreDependencyFirst
    LoadOrderIrrelevant
