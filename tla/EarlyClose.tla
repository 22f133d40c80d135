----------------------------- MODULE EarlyClose -----------------------------
(***************************************************************************)
(* One open vote whose profile sets close_on_passing, while its users vote *)
(* and change their votes: the auto closers of the replicas bring its end  *)
(* forward, and the closer that finds it finished calculates the results   *)
(* again, later, from other readings of the reactions and of the allowed   *)
(* voters.  What may happen to the vote otherwise (cancellation, other     *)
(* closers) is in VotesProcessor: the closer here is the one that holds    *)
(* the row lock.                                                           *)
(***************************************************************************)
EXTENDS VoteResults

CONSTANTS
    AutoClosers,        \* the votes auto closer of each replica
    Voters,             \* allowed voters found in the profile's teams and users
    TeamMembers,        \* those of them who are only in a team
    Collaborators,      \* collaborators of the repository
    cfg,                \* the profile of the vote
    Possible,           \* bound: the reactions considered
    MaxFaults,          \* how many calls may fail
    MaxChanges          \* how many votes may be withdrawn

ASSUME EarlyCloseAssumption ==
    /\ Voters \subseteq Users /\ IsFiniteSet(Voters)
    /\ TeamMembers \subseteq Voters
    /\ Collaborators \subseteq Users /\ IsFiniteSet(Collaborators)
    /\ cfg \in Profiles
    /\ Possible \subseteq Reactions
    /\ MaxFaults \in Nat /\ MaxChanges \in Nat

VARIABLES
    reactions,  \* the reactions to the vote's comment
    status,     \* "open" or "closed"
    due,        \* current_timestamp > ends_at
    waited,     \* close_on_passing_min_wait is over
    auto,       \* what each auto closer is doing, and what it has read
    closer,     \* what the closer is doing, and what it has read
    passed,     \* the results stored
    grounds,    \* what the auto closers that brought the end forward had read
    faults,     \* calls failed so far
    changes     \* votes withdrawn so far

vars == <<reactions, status, due, waited, auto, closer, passed, grounds, faults, changes>>

(* What is read of a vote: who voted for what, and who was allowed to.     *)
Readings == [votes : Ballots, allowed : SUBSET Users]
NoVotes == [u \in Users |-> "none"]
NothingRead == [votes |-> NoVotes, allowed |-> {}]

AutoSteps == {"asleep", "reactions", "voters", "update", "ended"}
CloserSteps == {"asleep", "reactions", "voters", "store"}

Asleep == [at |-> "asleep", read |-> NothingRead]
Ended == [at |-> "ended", read |-> NothingRead]

TypeOK ==
    /\ reactions \in SUBSET Reactions
    /\ status \in {"open", "closed"}
    /\ due \in BOOLEAN /\ waited \in BOOLEAN /\ passed \in BOOLEAN
    /\ auto \in [AutoClosers -> [at : AutoSteps, read : Readings]]
    /\ closer \in [at : CloserSteps, read : Readings]
    /\ grounds \in SUBSET Readings
    /\ faults \in Nat /\ changes \in Nat

Init ==
    /\ reactions = {}
    /\ status = "open"
    /\ due = FALSE
    /\ waited = FALSE
    /\ auto = [a \in AutoClosers |-> Asleep]
    /\ closer = Asleep
    /\ passed = FALSE
    /\ grounds = {}
    /\ faults = 0
    /\ changes = 0

Fault ==
    /\ faults < MaxFaults
    /\ faults' = faults + 1

----------------------------------------------------------------------------
(* The users, who may go on reacting once the vote is closed.              *)

React(r) ==
    /\ r \notin reactions
    /\ reactions' = reactions \cup {r}
    /\ UNCHANGED <<status, due, waited, auto, closer, passed, grounds, faults, changes>>

Unreact(r) ==
    /\ r \in reactions
    /\ changes < MaxChanges
    /\ changes' = changes + 1
    /\ reactions' = reactions \ {r}
    /\ UNCHANGED <<status, due, waited, auto, closer, passed, grounds, faults>>

----------------------------------------------------------------------------
(* get_allowed_voters: the error of a team whose members cannot be listed  *)
(* is ignored, and when that leaves nobody the collaborators may vote.     *)
AllowedVoters(voters) == IF voters = {} THEN Collaborators ELSE voters

GetAllowedVoters(voters) ==
    \/ /\ voters = AllowedVoters(Voters)
       /\ UNCHANGED faults
    \/ /\ Fault
       /\ \E lost \in SUBSET TeamMembers : voters = AllowedVoters(Voters \ lost)

----------------------------------------------------------------------------
(* VotesAutoCloser::run.                                                   *)

(* get_open_votes_with_close_on_passing returns the vote.                  *)
AutoFind(a) ==
    /\ auto[a] = Asleep
    /\ status = "open"
    /\ waited
    /\ auto' = [auto EXCEPT ![a] = [at |-> "reactions", read |-> NothingRead]]
    /\ UNCHANGED <<reactions, status, due, waited, closer, passed, grounds, faults, changes>>

AutoReactions(a) ==
    /\ auto[a].at = "reactions"
    /\ auto' = [auto EXCEPT ![a] = [at |-> "voters",
                                    read |-> [votes |-> VotesOf(reactions), allowed |-> {}]]]
    /\ UNCHANGED <<reactions, status, due, waited, closer, passed, grounds, faults, changes>>

(* Mutant: a vote is closed early as soon as it passes.                    *)
Passes(votes, allowed) == Passed(votes, allowed, cfg)

ClosesOnPassing(votes, allowed) == PassesWithAllAllowedVoters(votes, allowed, cfg)

AutoDecide(a) ==
    /\ auto[a].at = "voters"
    /\ \E A \in SUBSET Users :
        /\ GetAllowedVoters(A)
        /\ auto' = [auto EXCEPT ![a] =
                      IF ClosesOnPassing(auto[a].read.votes, A)
                      THEN [at |-> "update", read |-> [auto[a].read EXCEPT !.allowed = A]]
                      ELSE Asleep]
    /\ UNCHANGED <<reactions, status, due, waited, closer, passed, grounds, changes>>

(* update_vote_ends_at waits for the closer's row lock; it does not look   *)
(* whether the vote has been closed meanwhile.                             *)
AutoUpdate(a) ==
    /\ auto[a].at = "update"
    /\ closer.at = "asleep"
    /\ due' = TRUE
    /\ grounds' = IF status = "open" THEN grounds \cup {auto[a].read} ELSE grounds
    /\ auto' = [auto EXCEPT ![a] = Asleep]
    /\ UNCHANGED <<reactions, status, waited, closer, passed, faults, changes>>

(* Mutant: the auto closer stops at an error.                              *)
AutoGivesUp(a) ==
    /\ auto[a].at # "asleep"
    /\ Fault
    /\ auto' = [auto EXCEPT ![a] = [at |-> "stopped", read |-> NothingRead]]
    /\ UNCHANGED <<reactions, status, due, waited, closer, passed, grounds, changes>>

(* An error is logged, and the vote is tried again at the next run.        *)
AutoFails(a) ==
    /\ auto[a].at \notin {"asleep", "ended"}
    /\ Fault
    /\ auto' = [auto EXCEPT ![a] = Asleep]
    /\ UNCHANGED <<reactions, status, due, waited, closer, passed, grounds, changes>>

(* The results of another vote it looks at cannot be calculated, because   *)
(* GitHub sent a time that cannot be parsed: the panic ends its task, and  *)
(* nothing starts it again.                                                *)
AutoPanics(a) ==
    /\ auto[a] = Asleep
    /\ auto' = [auto EXCEPT ![a] = Ended]
    /\ UNCHANGED <<reactions, status, due, waited, closer, passed, grounds, faults, changes>>

----------------------------------------------------------------------------
(* The closer, in DB::close_finished_vote.                                 *)

(* Mutant: a vote whose time is up is picked even if it was closed.        *)
PickAnyDue ==
    /\ closer.at = "asleep"
    /\ due
    /\ closer' = [at |-> "reactions", read |-> NothingRead]
    /\ UNCHANGED <<reactions, status, due, waited, auto, passed, grounds, faults, changes>>

(* get_pending_finished_vote.                                              *)
Pick ==
    /\ closer.at = "asleep"
    /\ status = "open"
    /\ due
    /\ closer' = [at |-> "reactions", read |-> NothingRead]
    /\ UNCHANGED <<reactions, status, due, waited, auto, passed, grounds, faults, changes>>

CloserReactions ==
    /\ closer.at = "reactions"
    /\ closer' = [at |-> "voters", read |-> [votes |-> VotesOf(reactions), allowed |-> {}]]
    /\ UNCHANGED <<reactions, status, due, waited, auto, passed, grounds, faults, changes>>

CloserVoters ==
    /\ closer.at = "voters"
    /\ \E A \in SUBSET Users :
        /\ GetAllowedVoters(A)
        /\ closer' = [at |-> "store", read |-> [closer.read EXCEPT !.allowed = A]]
    /\ UNCHANGED <<reactions, status, due, waited, auto, passed, grounds, changes>>

StoreResults ==
    /\ closer.at = "store"
    /\ status' = "closed"
    /\ passed' = Passed(closer.read.votes, closer.read.allowed, cfg)
    /\ closer' = [closer EXCEPT !.at = "asleep"]
    /\ UNCHANGED <<reactions, due, waited, auto, grounds, faults, changes>>

(* An error rolls the transaction back: the vote stays open and due.       *)
CloserFails ==
    /\ closer.at # "asleep"
    /\ Fault
    /\ closer' = Asleep
    /\ UNCHANGED <<reactions, status, due, waited, auto, passed, grounds, changes>>

----------------------------------------------------------------------------

TimeUp ==
    /\ status = "open"
    /\ due' = TRUE
    /\ UNCHANGED <<reactions, status, waited, auto, closer, passed, grounds, faults, changes>>

WaitOver ==
    /\ ~waited
    /\ waited' = TRUE
    /\ UNCHANGED <<reactions, status, due, auto, closer, passed, grounds, faults, changes>>

AutoStep(a) ==
    AutoFind(a) \/ AutoReactions(a) \/ AutoDecide(a) \/ AutoUpdate(a) \/ AutoFails(a)

CloserStep == Pick \/ CloserReactions \/ CloserVoters \/ StoreResults \/ CloserFails

Rest == status = "closed" /\ UNCHANGED vars

Next ==
    \/ \E r \in Possible : React(r)
    \/ \E r \in reactions : Unreact(r)
    \/ \E a \in AutoClosers : AutoStep(a) \/ AutoPanics(a)
    \/ CloserStep
    \/ TimeUp
    \/ WaitOver
    \/ Rest

Spec == Init /\ [][Next]_vars

(* Workers go on, the wait ends; but the vote may be due only because an   *)
(* auto closer says so.                                                    *)
Fairness ==
    /\ WF_vars(WaitOver)
    /\ WF_vars(CloserStep)
    /\ \A a \in AutoClosers : WF_vars(AutoStep(a))

FairSpec == Spec /\ Fairness

----------------------------------------------------------------------------
(* A vote closed early stands: what the closer counts once the end was     *)
(* brought forward makes the vote pass, whoever votes meanwhile for the    *)
(* first time, unless a vote already cast was changed or the list of       *)
(* allowed voters was not the same.                                        *)
EarlyCloseStands ==
    status = "closed" =>
        \A g \in grounds :
            OnlyFirstVotes(g.votes, closer.read.votes) /\ closer.read.allowed = g.allowed
                => passed

(* A closed vote is not counted again: a slow auto closer may still move   *)
(* its end, and users may still react, but its results stay.               *)
VerdictStays == [][status = "closed" => UNCHANGED <<status, passed>>]_vars

(* What makes a closing stand: it is only brought forward by readings      *)
(* that pass over all the allowed voters read, whoever has voted since,    *)
(* and what was stored are the results of what the closer read.            *)
EarlyInv ==
    /\ \A g \in grounds : PassesWithAllAllowedVoters(g.votes, g.allowed, cfg)
    /\ \A a \in AutoClosers : auto[a].at = "update" =>
          PassesWithAllAllowedVoters(auto[a].read.votes, auto[a].read.allowed, cfg)
    /\ \A g \in grounds : IsFiniteSet(g.allowed)
    /\ \A a \in AutoClosers : IsFiniteSet(auto[a].read.allowed)
    /\ closer.at = "store" => IsFiniteSet(closer.read.allowed)
    /\ status = "closed" =>
          /\ closer.at = "asleep"
          /\ passed = Passed(closer.read.votes, closer.read.allowed, cfg)

(* A vote that passes over all the allowed voters, and goes on doing so,   *)
(* is closed, even if its time is never up and some calls fail, unless     *)
(* other votes ended every auto closer first.                              *)
PassesNow ==
    \E votes \in {VotesOf(reactions)} :
        PassesWithAllAllowedVoters(votes, AllowedVoters(Voters), cfg)
AutoClosersEnded == \A a \in AutoClosers : auto[a] = Ended
ClosesEarly == <>[]PassesNow => <>(status = "closed" \/ AutoClosersEnded)
=============================================================================
