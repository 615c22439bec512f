SPECIFICATION Spec
CONSTANTS
    None = None
    Top = 15
    Width = 2
    MaxInsns = 6
    MaxSteps = 8
    MaxPaths = 2
    MaxCandidates = 4
    TableMinLen = 2
    MinPadding = 1
    MaxThunks = 2
    MaxCases = 3
    MaxDispatch = 4
    MaxFunctions = 4
    MaxPasses = 3
    Images <- MCImages
INVARIANTS
    CallGraphIsClosed
    NothingIsLost
    CutCallsMatchTheSet
    NativeBlocksAreSound
    NobodyIsLeftWaiting
    TypedLocationsAreDisjoint
PROPERTIES
    DecisionsAreFinal
    Terminates
