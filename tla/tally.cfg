SPECIFICATION Spec
CONSTANTS
    alice = alice
    bob = bob
    Users = {alice, bob}
    Ignored = {"heart"}
    MaxLen = 4
    Lists <- ShortLists
    Electorates <- AnyElectorate
    Choices <- SomeChoices
SYMMETRY Symmetry
INVARIANTS
    TallyInv
    ResultsCorrect
    ResultsAddUp
