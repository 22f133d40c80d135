SPECIFICATION FairSpec
CONSTANTS
    alice = alice
    bob = bob
    carol = carol
    r1 = r1
    Users = {alice, bob, carol}
    Ignored = {}
    AutoClosers = {r1}
    Voters = {alice, bob, carol}
    TeamMembers = {carol}
    Collaborators = {alice, bob, carol}
    cfg <- VotesCast
    Possible <- SomeReactions
    MaxFaults = 1
    MaxChanges = 1
INVARIANTS
    TypeOK
    EarlyInv
    EarlyCloseStands
PROPERTIES
    VerdictStays
    ClosesEarly
