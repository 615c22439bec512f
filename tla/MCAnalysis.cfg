SPECIFICATION MCSpec
CONSTANTS
    Callers = {c1, c2}
    Requests <- SomeRequests
    Bundles <- SomeBundles
    Disks <- SomeDisks
    BadDatabase = BadDatabase
    MaxEdits = 1
    None = None
    Slices <- AnySlice
    MaxRun = 3
INVARIANTS
    LoadedBytesAreTheFile
    SeedsAreSound
    ElfEvidenceIsFound
    EmulatorIsSound
    LibraryNamesAreJustified
    SameAsAlone
PROPERTY
    EveryAnalysisEnds
