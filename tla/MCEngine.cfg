CONSTANTS
    Addr = {1, 2}
    Feature <- MCFeature
    Accepts <- MCAccepts
    Trees <- MCTrees
    MaxEntries = 2
    MaxDepth = 2
SPECIFICATION Spec
INVARIANTS PassesAgree OptimizerPreservesOutcome IndexIsSound OutcomeIgnoresInsertionOrder
CHECK_DEADLOCK FALSE
