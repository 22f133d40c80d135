SPECIFICATION Spec
CONSTANTS
    docs = docs
    code = code
    h1 = h1
    h2 = h2
    closer = closer
    Handlers = {h1, h2}
    Closer = closer
    ConfigFiles <- MCConfigFiles
    Changes <- MCChanges
    IsOrg = TRUE
    MaxPushes = 2
    MaxVotes = 3
    MaxFaults = 1
SYMMETRY Symmetry
INVARIANTS
    TypeOK
    VerdictStands
    NoWayRound
    NotHeldUp
