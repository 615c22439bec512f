CONSTANTS
    Addr = {1, 2}
    Feature <- MCFeature
    Accepts <- MCAccepts
    Trees <- MCTrees
    MaxEntries = 2
    MaxDepth = 2
SPECIFICATION Spec
INVARIANT FullPassAgrees
CHECK_DEADLOCK FALSE
