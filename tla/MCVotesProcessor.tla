-------------------------- MODULE MCVotesProcessor --------------------------
(* Instances of VotesProcessor small enough for TLC.                       *)
EXTENDS VotesProcessor, TLC

CONSTANTS v1, v2, v3, i1, i2, h1, h2, c1, c2

(* Workers, and the votes that can be calculated, are interchangeable.     *)
Symmetry == Permutations(Handlers) \cup Permutations(Closers)
                \cup Permutations(Votes \ (Poisoned \cup Malformed))

LimitOf(create, cancel, fault, crash) ==
    [k \in EventKinds |-> CASE k = "create" -> create
                            [] k = "cancel" -> cancel
                            [] k = "fault" -> fault
                            [] k = "crash" -> crash]

SafetyLimit == LimitOf(2, 1, 1, 1)
LiveLimit == LimitOf(2, 1, 1, 1)
FaultlessLimit == LimitOf(2, 1, 0, 0)
PacedLimit == LimitOf(3, 1, 1, 0)
=============================================================================
