SPECIFICATION MCSpec
CONSTANTS
    Callers = {c1, c2}
    Requests <- SomeRequests
    Bundles <- SomeBundles
    Disks <- SomeDisks
    BadDatabase = BadDatabase
    MaxEdits = 1
    None = None
    Slices <- EitherSlice
    MaxRun = 3
INVARIANT
    SeedsAreSound
