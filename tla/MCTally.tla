------------------------------ MODULE MCTally ------------------------------
(* Tally over every list of at most MaxLen reactions of two users.         *)
EXTENDS Tally, TLC

CONSTANTS alice, bob, MaxLen

ListsUpTo(n) ==
    UNION {{s \in [1 .. k -> Reactions] : \A i, j \in 1 .. k : s[i] = s[j] => i = j} :
           k \in 0 .. n}

ShortLists == ListsUpTo(MaxLen)
AnyElectorate == SUBSET Users

(* A bare majority, a tie and two thirds.                                  *)
SomeChoices == [pass_threshold : {5000, 5001, 6667}, pass_threshold_base : Bases]

Symmetry == Permutations(Users)
=============================================================================
