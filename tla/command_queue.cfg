SPECIFICATION FairSpec
CONSTANTS
    r1 = r1
    r2 = r2
    r3 = r3
    h1 = h1
    h2 = h2
    Requests = {r1, r2, r3}
    Check = Check
    Fatal = {r2, r3}
    Handlers = {h1, h2}
    None = None
    MaxChecks = 2
    MaxCrashes = 1
INVARIANTS
    TypeOK
    AcknowledgedOnce
    StopsDrained
    NothingLostAtExit
PROPERTIES
    ImplementsLifecycle
    CommandsTaken
    ShutdownEnds
