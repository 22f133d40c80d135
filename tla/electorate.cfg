SPECIFICATION Spec
CONSTANTS
    alice = alice
    bob = bob
    carol = carol
    core = core
    docs = docs
    Accounts = {alice, bob, carol}
    Spellings = {"capitals"}
    Teams = {core, docs}
    Members <- MCMembers
    Maintainers <- MCMaintainers
    Collaborators = {alice, carol}
    Sections <- MCSections
INVARIANTS
    ElectorateInv
    AsConfigured
    LoginKept
