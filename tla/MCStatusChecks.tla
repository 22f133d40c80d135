-------------------------- MODULE MCStatusChecks --------------------------
(* StatusChecks with two handlers and a day of two runs of the checker.    *)
EXTENDS StatusChecks, TLC

CONSTANTS h1, h2

Symmetry == Permutations(Handlers)
=============================================================================
