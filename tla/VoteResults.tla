---------------------------- MODULE VoteResults ----------------------------
(***************************************************************************)
(* The results of a vote, as functions of the reactions to its comment and *)
(* of the users whose votes are binding.  A member of Users is a GitHub    *)
(* account: the spelling of its name, which the code compares ignoring the *)
(* case, is not part of it.  Pass thresholds, which the profile gives as a *)
(* percentage, are in hundredths of a percent, so that 50.01% is 5001.     *)
(***************************************************************************)
EXTENDS Naturals, FiniteSets

CONSTANTS
    Users,      \* GitHub accounts
    Ignored     \* contents of the reactions that are not votes

Supported == {"+1", "-1", "eyes"}
Contents == Supported \cup Ignored

ASSUME ResultsAssumption == Ignored \cap Supported = {} /\ Ignored \subseteq STRING

Options == {"in_favor", "against", "abstain"}

(* VoteOption::from_reaction, for the reactions supported.                 *)
OptionOf == [c \in Supported |-> CASE c = "+1" -> "in_favor"
                                   [] c = "-1" -> "against"
                                   [] c = "eyes" -> "abstain"]

(* GitHub keeps at most one reaction of a kind by each user.               *)
Reactions == [user : Users, content : Contents]

(* The map of votes; "none" stands for a user who is not in it.            *)
Ballots == [Users -> Options \cup {"none"}]

(* What a user voted for; one who voted for several options counts for none. *)
Cast(R, u) == {OptionOf[r.content] : r \in {q \in R : q.user = u /\ q.content \in Supported}}

VotesOf(R) ==
    [u \in Users |-> IF \E o \in Options : Cast(R, u) = {o}
                     THEN CHOOSE o \in Options : Cast(R, u) = {o}
                     ELSE "none"]

(* The bases a profile may choose to calculate the percentages over.  Its  *)
(* threshold was validated to be a percentage in (0, 100].                 *)
Bases == {"allowed_voters", "votes_cast", "votes_cast_excluding_abstentions"}
Thresholds == 1 .. 10000
Profiles == [pass_threshold : Thresholds, pass_threshold_base : Bases]

(* threshold_reached: compared without dividing.                           *)
ThresholdReached(in_favor, pass_threshold, base) ==
    base > 0 /\ in_favor * 10000 >= pass_threshold * base

(* The number of binding votes for option o.                               *)
Count(votes, allowed, o) == Cardinality({u \in allowed : votes[u] = o})

Binding(votes, allowed) == {u \in allowed : votes[u] # "none"}

Base(votes, allowed, cfg) ==
    CASE cfg.pass_threshold_base = "allowed_voters" -> Cardinality(allowed)
      [] cfg.pass_threshold_base = "votes_cast" -> Cardinality(Binding(votes, allowed))
      [] OTHER -> Count(votes, allowed, "in_favor") + Count(votes, allowed, "against")

Passed(votes, allowed, cfg) ==
    ThresholdReached(Count(votes, allowed, "in_favor"), cfg.pass_threshold,
                     Base(votes, allowed, cfg))

(* VoteResults::passes_with_all_allowed_voters.                            *)
PassesWithAllAllowedVoters(votes, allowed, cfg) ==
    ThresholdReached(Count(votes, allowed, "in_favor"), cfg.pass_threshold,
                     Cardinality(allowed))

(* pending_voters: who voted for several options has not voted either.     *)
Pending(votes, allowed) == {u \in allowed : votes[u] = "none"}

(* Between two readings of the reactions nobody withdrew or changed a vote. *)
OnlyFirstVotes(before, after) ==
    \A u \in Users : before[u] # "none" => after[u] = before[u]
=============================================================================
