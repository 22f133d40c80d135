------------------------------- MODULE Tally -------------------------------
(***************************************************************************)
(* calculate: the loops that turn the reactions to a vote's comment, in    *)
(* the order GitHub lists them, into the results of the vote.  What they   *)
(* compute is compared with VoteResults, which does not know any order.    *)
(***************************************************************************)
EXTENDS VoteResults, Sequences

CONSTANTS
    Lists,      \* the lists of reactions considered
    Electorates,\* the sets of allowed voters considered
    Choices     \* the profiles considered

ASSUME TallyAssumption ==
    /\ Lists \subseteq Seq(Reactions)
    /\ \A s \in Lists : \A i, j \in DOMAIN s : s[i] = s[j] => i = j
    /\ \A A \in Electorates : A \subseteq Users /\ IsFiniteSet(A)
    /\ Choices \subseteq Profiles

VARIABLES
    reactions,  \* the list
    allowed,    \* the allowed voters
    cfg,        \* the profile of the vote
    at,         \* position in the list of the reaction examined next
    votes,      \* votes tracked
    multiple,   \* multiple_options_voters
    counted,    \* users whose vote was counted
    tally,      \* counters
    results     \* <<>> until the results are known

inputs == <<reactions, allowed, cfg>>
vars == <<inputs, at, votes, multiple, counted, tally, results>>

NoVotes == [u \in Users |-> "none"]
Zero == [in_favor |-> 0, against |-> 0, abstain |-> 0, binding |-> 0, non_binding |-> 0]

Init ==
    /\ reactions \in Lists
    /\ allowed \in Electorates
    /\ cfg \in Choices
    /\ at = 1
    /\ votes = NoVotes
    /\ multiple = {}
    /\ counted = {}
    /\ tally = Zero
    /\ results = <<>>

----------------------------------------------------------------------------
(* The first loop: one reaction.                                           *)

Examining == at <= Len(reactions)
Reaction == reactions[at]

Unsupported ==
    /\ Reaction.content \notin Supported
    /\ UNCHANGED <<votes, multiple>>

(* Already known to have voted for several options.                        *)
ManyOptions ==
    /\ Reaction.content \in Supported
    /\ Reaction.user \in multiple
    /\ UNCHANGED <<votes, multiple>>

(* Mutant: the vote is dropped but the user is not remembered.             *)
SecondForgotten ==
    /\ Reaction.content \in Supported
    /\ Reaction.user \notin multiple
    /\ votes[Reaction.user] # "none"
    /\ votes' = [votes EXCEPT ![Reaction.user] = "none"]
    /\ UNCHANGED multiple

SecondOption ==
    /\ Reaction.content \in Supported
    /\ Reaction.user \notin multiple
    /\ votes[Reaction.user] # "none"
    /\ votes' = [votes EXCEPT ![Reaction.user] = "none"]
    /\ multiple' = multiple \cup {Reaction.user}

FirstOption ==
    /\ Reaction.content \in Supported
    /\ Reaction.user \notin multiple
    /\ votes[Reaction.user] = "none"
    /\ votes' = [votes EXCEPT ![Reaction.user] = OptionOf[Reaction.content]]
    /\ UNCHANGED multiple

Examine ==
    /\ Examining
    /\ Unsupported \/ ManyOptions \/ SecondOption \/ FirstOption
    /\ at' = at + 1
    /\ UNCHANGED <<inputs, counted, tally, results>>

----------------------------------------------------------------------------
(* The second loop, over the votes tracked in no particular order.         *)

Uncounted == {u \in Users \ counted : votes[u] # "none"}

(* Mutant: an abstention is not a binding vote.                            *)
CountCast(u) ==
    /\ tally' = IF u \notin allowed THEN [tally EXCEPT !.non_binding = @ + 1]
                ELSE IF votes[u] = "abstain" THEN [tally EXCEPT !.abstain = @ + 1]
                ELSE [tally EXCEPT ![votes[u]] = @ + 1, !.binding = @ + 1]

CountVote(u) ==
    /\ tally' = IF u \in allowed
                THEN [tally EXCEPT ![votes[u]] = @ + 1, !.binding = @ + 1]
                ELSE [tally EXCEPT !.non_binding = @ + 1]

CountOne(u) ==
    /\ ~Examining
    /\ u \in Uncounted
    /\ CountVote(u)
    /\ counted' = counted \cup {u}
    /\ UNCHANGED <<inputs, at, votes, multiple, results>>

----------------------------------------------------------------------------

ThresholdBase ==
    CASE cfg.pass_threshold_base = "allowed_voters" -> Cardinality(allowed)
      [] cfg.pass_threshold_base = "votes_cast" -> tally.binding
      [] OTHER -> tally.in_favor + tally.against

Results == [passed |-> ThresholdReached(tally.in_favor, cfg.pass_threshold, ThresholdBase),
            tally |-> tally,
            not_voted |-> Cardinality(Pending(votes, allowed)),
            allowed_voters |-> Cardinality(allowed)]

Finish ==
    /\ ~Examining
    /\ Uncounted = {}
    /\ results = <<>>
    /\ results' = <<Results>>
    /\ UNCHANGED <<inputs, at, votes, multiple, counted, tally>>

Done == results # <<>> /\ UNCHANGED vars

Next ==
    \/ Examine
    \/ \E u \in Users : CountOne(u)
    \/ Finish
    \/ Done

Spec == Init /\ [][Next]_vars

----------------------------------------------------------------------------
(* The reactions examined so far.                                          *)
Seen == {reactions[k] : k \in 1 .. (at - 1)}

(* What the loops know of the reactions and of the votes seen so far: a    *)
(* vote is tracked exactly when its user left one supported reaction, and  *)
(* the counters agree with the votes counted.                              *)
TallyInv ==
    /\ at \in 1 .. (Len(reactions) + 1)
    /\ votes \in Ballots
    /\ multiple \in SUBSET Users
    /\ \A u \in Users :
          /\ u \in multiple => votes[u] = "none"
                                 /\ \E o, p \in Cast(Seen, u) : o # p
          /\ u \notin multiple /\ votes[u] = "none" => Cast(Seen, u) = {}
          /\ votes[u] # "none" => Cast(Seen, u) = {votes[u]}
    /\ counted \subseteq {u \in Users : votes[u] # "none"}
    /\ counted # {} \/ results # <<>> => ~Examining
    /\ IsFiniteSet(counted)
    /\ tally \in [DOMAIN Zero -> Nat]
    /\ \A o \in Options : tally[o] = Count(votes, allowed \cap counted, o)
    /\ tally.binding = Cardinality(counted \cap allowed)
    /\ tally.non_binding = Cardinality(counted \ allowed)
    /\ results # <<>> => results = <<Results>> /\ Uncounted = {}

(* The outcome does not depend on the order of the reactions: a user's     *)
(* vote counts exactly when it is for one option only, and the vote passes *)
(* by the votes so determined.                                             *)
ResultsCorrect ==
    results # <<>> =>
        LET ballots == VotesOf({reactions[k] : k \in DOMAIN reactions}) IN
        /\ votes = ballots
        /\ results[1].passed = Passed(ballots, allowed, cfg)

(* The counters shown in the comments and on the audit page add up, over   *)
(* the options, the allowed voters and the users who reacted, and no vote  *)
(* passes without a vote in favor.                                         *)
ResultsAddUp ==
    results # <<>> =>
        LET r == results[1] IN
        /\ r.tally.in_favor + r.tally.against + r.tally.abstain = r.tally.binding
        /\ r.tally.binding + r.not_voted = r.allowed_voters
        /\ r.passed => r.tally.in_favor > 0
=============================================================================
