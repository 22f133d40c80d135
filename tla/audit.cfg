SPECIFICATION FairSpec
CONSTANTS
    p1 = p1
    p2 = p2
    v1 = v1
    v2 = v2
    alice = alice
    capitals = capitals
    bob = bob
    None = None
    Pages = {p1, p2}
    Votes = {v1, v2}
    Names = {alice, capitals, bob}
    Files <- MCFiles
    FirstFiles <- MCFirstFiles
    Year <- MCYear
    Voted <- MCVoted
    Pending <- MCPending
    NonBinding <- MCNonBinding
    AccountOf <- MCAccountOf
    Ttl = 1
    MaxTime = 1
    MaxChanges = 2
    MaxFaults = 1
INVARIANTS
    AuditInv
    ParticipationAddsUp
PROPERTIES
    FreshAnswers
    PagesAnswered
