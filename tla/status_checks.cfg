SPECIFICATION Spec
CONSTANTS
    h1 = h1
    h2 = h2
    Handlers = {h1, h2}
    Day = 2
    Hour = 1
    Interval = 2
    EndsAt = 6
    Never = Never
    MaxTime = 6
    MaxManual = 2
    MaxFaults = 2
SYMMETRY Symmetry
INVARIANTS
    ChecksInv
PROPERTIES
    EachHandlerOncePerDay
