------------------------- MODULE MCPullRequestChecks -------------------------
(* The repository has a file that starts no vote, its owner one that does. *)
EXTENDS PullRequestChecks, TLC

CONSTANTS docs, code, h1, h2, closer

(* The handlers are interchangeable.                                       *)
Symmetry == Permutations(Handlers)

Rule(files, bad) == [matches |-> files, invalid |-> bad]
Profile(threshold, teams) == [passThreshold |-> threshold, teams |-> teams]

MCConfigFiles ==
    << [is |-> "parsed", audit |-> FALSE, automation |-> << Rule({docs}, FALSE) >>,
        profiles |-> [default |-> Profile(100, {}), other |-> Profile(0, {})]],
       Absent,
       [is |-> "parsed", audit |-> TRUE, automation |-> << Rule({code}, FALSE) >>,
        profiles |-> [other |-> Profile(50, {code})]] >>

MCChanges == {{docs}, {code}}
=============================================================================
