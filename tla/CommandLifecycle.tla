-------------------------- MODULE CommandLifecycle --------------------------
(***************************************************************************)
(* What GitVote promises about the command of every webhook request,       *)
(* without the channel, the server and the status checker: a command that  *)
(* was acknowledged is executed once or takes the task that executes it    *)
(* with it; only a crash loses it.  A request that waits for its answer is *)
(* only refused when no task is left or in a crash, and the service only   *)
(* exits with acknowledged commands behind when no task is left to execute *)
(* them.                                                                   *)
(***************************************************************************)
CONSTANTS
    Requests,  \* webhook requests with a command
    Handlers   \* tasks that execute commands

VARIABLES
    phase,     \* phase[r]: where the command of request r is in its life
    alive,     \* tasks that have not panicked
    up         \* the service has not exited

vars == <<phase, alive, up>>

Init ==
    /\ phase = [r \in Requests |-> "none"]
    /\ alive = Handlers
    /\ up = TRUE

Becomes(r, p) == phase' = [phase EXCEPT ![r] = p]

(* The service exits with a step only if it leaves nothing behind that a   *)
(* task could still do.                                                    *)
MayExit ==
    up' \/ \A r \in Requests : /\ phase'[r] # "handling"
                               /\ alive' # {} => phase'[r] # "queued"

Arrive(r) ==
    /\ phase[r] = "none" /\ Becomes(r, "handling")
    /\ UNCHANGED <<alive, up>>

GiveUp(r) ==
    /\ phase[r] = "handling" /\ Becomes(r, "gone")
    /\ UNCHANGED <<alive, up>>

Acknowledge(r) ==
    /\ phase[r] = "handling" /\ Becomes(r, "queued")
    /\ alive # {}
    /\ UNCHANGED <<alive, up>>

Refuse(r) ==
    /\ phase[r] = "handling" /\ Becomes(r, "aborted")
    /\ alive = {}
    /\ UNCHANGED <<alive, up>>

Execute(r) ==
    /\ phase[r] = "queued" /\ Becomes(r, "executed")
    /\ alive # {}
    /\ UNCHANGED <<alive, up>>

(* A task panics, on the command of a request or on another.               *)
Panic(h) ==
    /\ h \in alive /\ alive' = alive \ {h}
    /\ \/ UNCHANGED phase
       \/ \E r \in Requests : phase[r] = "queued" /\ Becomes(r, "panicked")
    /\ up' \in BOOLEAN /\ MayExit

Exit ==
    /\ up' = FALSE
    /\ UNCHANGED <<phase, alive>>
    /\ MayExit

(* What is acknowledged and not yet executed is lost, all at once; what is *)
(* not yet acknowledged never will be.                                     *)
Crash ==
    /\ phase' = [r \in Requests |-> CASE phase[r] = "handling" -> "aborted"
                                      [] phase[r] = "queued" -> "lost"
                                      [] OTHER -> phase[r]]
    /\ alive' = Handlers
    /\ UNCHANGED up

Next ==
    /\ up
    /\ \/ \E r \in Requests : Arrive(r) \/ GiveUp(r) \/ Acknowledge(r) \/ Refuse(r) \/ Execute(r)
       \/ \E h \in Handlers : Panic(h)
       \/ Exit
       \/ Crash

Spec == Init /\ [][Next]_vars
=============================================================================
