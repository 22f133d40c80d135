--------------------------- MODULE VoteLifecycle ---------------------------
(***************************************************************************)
(* What GitVote promises about every vote, without the workers, the row    *)
(* locks and the GitHub calls that bring it about: a vote is opened once,  *)
(* ends in exactly one of two ways (closed with a verdict, or cancelled),  *)
(* the verdict never changes afterwards, and it is published at most once  *)
(* and only for a vote that was closed.                                    *)
(***************************************************************************)
EXTENDS Naturals

CONSTANT Votes  \* the votes there may be

VARIABLES
    phase,      \* phase[v]: where vote v is in its life
    verdict,    \* verdict[v]: the results recorded when v was closed
    published   \* published[v]: how many result comments were posted for v

vars == <<phase, verdict, published>>

(* "missing" is a vote closed without results: its comment was gone.       *)
Verdicts == {"passed", "failed", "missing"}

Init ==
    /\ phase = [v \in Votes |-> "absent"]
    /\ verdict = [v \in Votes |-> "none"]
    /\ published = [v \in Votes |-> 0]

Open(v) ==
    /\ phase[v] = "absent"
    /\ phase' = [phase EXCEPT ![v] = "open"]
    /\ UNCHANGED <<verdict, published>>

Close(v, r) ==
    /\ phase[v] = "open"
    /\ phase' = [phase EXCEPT ![v] = "closed"]
    /\ verdict' = [verdict EXCEPT ![v] = r]
    /\ UNCHANGED published

(* One cancellation may end several votes: it cancels what is open.        *)
Cancel(S) ==
    /\ \A v \in S : phase[v] = "open"
    /\ phase' = [v \in Votes |-> IF v \in S THEN "cancelled" ELSE phase[v]]
    /\ UNCHANGED <<verdict, published>>

Publish(v) ==
    /\ phase[v] = "closed"
    /\ verdict[v] # "missing"
    /\ published[v] = 0
    /\ published' = [published EXCEPT ![v] = 1]
    /\ UNCHANGED <<phase, verdict>>

Next ==
    \/ \E v \in Votes : Open(v) \/ Publish(v)
    \/ \E v \in Votes, r \in Verdicts : Close(v, r)
    \/ \E S \in SUBSET Votes : Cancel(S)

Spec == Init /\ [][Next]_vars
=============================================================================
