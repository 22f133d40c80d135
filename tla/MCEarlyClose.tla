---------------------------- MODULE MCEarlyClose ----------------------------
(* EarlyClose with three allowed voters, one of them from a team.          *)
EXTENDS EarlyClose

CONSTANTS alice, bob, carol, r1

(* The base that a low turnout decides.                                    *)
VotesCast == [pass_threshold |-> 5001, pass_threshold_base |-> "votes_cast_excluding_abstentions"]

(* Two users who may vote either way, or both ways, and one in favor.      *)
SomeReactions ==
    [user : {bob, carol}, content : {"+1", "-1"}] \cup [user : {alice}, content : {"+1"}]
=============================================================================
