CONSTANTS
    MaxJobs = 3
    MaxItems = 4
    Outcomes = {"ok", "err", "panic"}
SPECIFICATION FairSpec
INVARIANTS ResultIsSerial ExactlyOnce
PROPERTIES Terminates ImplementsContract
