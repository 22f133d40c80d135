---------------------------- MODULE CommandQueue ----------------------------
(***************************************************************************)
(* The channel of commands: the webhook requests and the status checker    *)
(* that fill it, the handlers that drain it, the orderly shutdown of the   *)
(* service, and its crashes.  What a command does is in VotesProcessor and *)
(* in StatusChecks; here it ends, with or without an error, or it makes    *)
(* the task of its handler panic, which nothing restarts.                  *)
(***************************************************************************)
EXTENDS Naturals, Sequences

CONSTANTS
    Requests,   \* webhook requests with a command, which bears their name
    Check,      \* a CheckVote command of the status checker
    Fatal,      \* commands that make the handler's task panic
    Handlers,   \* command handler workers
    None,       \* no command
    MaxChecks,  \* bound: checks found pending by the status checker
    MaxCrashes  \* bound: crashes of the service

Commands == Requests \cup {Check}

ASSUME QueueAssumption ==
    /\ Check \notin Requests /\ None \notin Commands
    /\ Fatal \subseteq Commands
    /\ MaxChecks \in Nat /\ MaxCrashes \in Nat

VARIABLES
    server,     \* the HTTP server
    request,    \* what each request was answered
    queue,      \* the channel
    worker,     \* what each handler is doing
    command,    \* the command each handler executes
    fate,       \* what became of the command of each request
    checker,    \* what the status checker is doing
    toSend,     \* checks it has still to send in this run
    checks,     \* checks found pending so far
    crashes     \* crashes so far

workerVars == <<worker, command, fate>>
checkerVars == <<checker, toSend, checks>>
vars == <<server, request, queue, workerVars, checkerVars, crashes>>

Answers == {"none", "handling", "queued", "aborted", "gone"}
Fates == {"none", "executed", "panicked", "lost"}

TypeOK ==
    /\ server \in {"serving", "draining", "stopped"}
    /\ request \in [Requests -> Answers]
    /\ queue \in Seq(Commands)
    /\ worker \in [Handlers -> {"waiting", "executing", "stopped", "panicked"}]
    /\ command \in [Handlers -> Commands \cup {None}]
    /\ fate \in [Requests -> Fates]
    /\ checker \in {"querying", "sending", "sleeping", "stopped"}
    /\ toSend \in Nat /\ checks \in Nat /\ crashes \in Nat

Init ==
    /\ server = "serving"
    /\ request = [r \in Requests |-> "none"]
    /\ queue = <<>>
    /\ worker = [h \in Handlers |-> "waiting"]
    /\ command = [h \in Handlers |-> None]
    /\ fate = [r \in Requests |-> "none"]
    /\ checker = "querying"
    /\ toSend = 0
    /\ checks = 0
    /\ crashes = 0

(* main cancels the workers' token as soon as the server has stopped.      *)
Cancelled == server = "stopped"

(* Each handler holds a receiver, and nothing else does.                   *)
Closed == \A h \in Handlers : worker[h] \in {"stopped", "panicked"}

----------------------------------------------------------------------------
(* The webhook endpoint and the server.                                    *)

Arrive(r) ==
    /\ server = "serving"
    /\ request[r] = "none"
    /\ request' = [request EXCEPT ![r] = "handling"]
    /\ UNCHANGED <<server, queue, workerVars, checkerVars, crashes>>

(* The client goes away while GitHub is asked which command it is: the     *)
(* request is dropped, and nothing was sent.                               *)
GiveUp(r) ==
    /\ request[r] = "handling"
    /\ request' = [request EXCEPT ![r] = "gone"]
    /\ UNCHANGED <<server, queue, workerVars, checkerVars, crashes>>

(* Mutant: a bounded channel, and a command that does not fit is dropped.  *)
SendIfRoom(r) ==
    /\ request[r] = "handling"
    /\ request' = [request EXCEPT ![r] = "queued"]
    /\ queue' = IF Len(queue) < 1 THEN Append(queue, r) ELSE queue
    /\ UNCHANGED <<server, workerVars, checkerVars, crashes>>

(* "command queued"; with the channel closed the request panics instead.   *)
Send(r) ==
    /\ request[r] = "handling"
    /\ IF Closed
       THEN /\ request' = [request EXCEPT ![r] = "aborted"]
            /\ UNCHANGED queue
       ELSE /\ request' = [request EXCEPT ![r] = "queued"]
            /\ queue' = Append(queue, r)
    /\ UNCHANGED <<server, workerVars, checkerVars, crashes>>

(* shutdown_signal: no request is accepted any more.                       *)
Terminate ==
    /\ server = "serving"
    /\ server' = "draining"
    /\ UNCHANGED <<request, queue, workerVars, checkerVars, crashes>>

(* Mutant: the server stops under the requests it is handling.             *)
ServerStopsAtOnce ==
    /\ server = "draining"
    /\ server' = "stopped"
    /\ UNCHANGED <<request, queue, workerVars, checkerVars, crashes>>

(* The graceful shutdown: it waits for the requests it is handling.        *)
ServerStops ==
    /\ server = "draining"
    /\ \A r \in Requests : request[r] # "handling"
    /\ server' = "stopped"
    /\ UNCHANGED <<request, queue, workerVars, checkerVars, crashes>>

----------------------------------------------------------------------------
(* CommandsHandler::run.                                                   *)

(* Mutant: once the token is cancelled nothing more is received.           *)
ReceiveUntilCancelled(h) ==
    /\ worker[h] = "waiting"
    /\ queue # <<>> /\ ~Cancelled
    /\ queue' = Tail(queue)
    /\ worker' = [worker EXCEPT ![h] = "executing"]
    /\ command' = [command EXCEPT ![h] = Head(queue)]
    /\ UNCHANGED <<server, request, fate, checkerVars, crashes>>

Receive(h) ==
    /\ worker[h] = "waiting"
    /\ queue # <<>>
    /\ queue' = Tail(queue)
    /\ worker' = [worker EXCEPT ![h] = "executing"]
    /\ command' = [command EXCEPT ![h] = Head(queue)]
    /\ UNCHANGED <<server, request, fate, checkerVars, crashes>>

(* The command ends; its error, if any, is only logged.                    *)
Finish(h) ==
    /\ worker[h] = "executing"
    /\ LET end == IF command[h] \in Fatal THEN "panicked" ELSE "executed" IN
        /\ worker' = [worker EXCEPT ![h] = IF end = "executed" THEN "waiting" ELSE end]
        /\ fate' = [r \in Requests |-> IF r = command[h] THEN end ELSE fate[r]]
    /\ command' = [command EXCEPT ![h] = None]
    /\ UNCHANGED <<server, request, queue, checkerVars, crashes>>

(* Mutant: the select is not biased.                                       *)
StopAtOnce(h) ==
    /\ worker[h] = "waiting"
    /\ Cancelled
    /\ worker' = [worker EXCEPT ![h] = "stopped"]
    /\ UNCHANGED <<server, request, queue, command, fate, checkerVars, crashes>>

(* The select is biased: a handler only stops when nothing is queued.      *)
Stop(h) ==
    /\ worker[h] = "waiting"
    /\ Cancelled
    /\ queue = <<>>
    /\ worker' = [worker EXCEPT ![h] = "stopped"]
    /\ UNCHANGED <<server, request, queue, command, fate, checkerVars, crashes>>

----------------------------------------------------------------------------
(* StatusChecker::run.                                                     *)

CheckerQuery ==
    /\ checker = "querying"
    /\ \E n \in 0 .. MaxChecks :
        /\ checks + n <= MaxChecks
        /\ toSend' = n
        /\ checks' = checks + n
    /\ checker' = "sending"
    /\ UNCHANGED <<server, request, queue, workerVars, crashes>>

(* Mutant: one check more than there are.                                  *)
CheckerSendsMore ==
    /\ checker = "sending"
    /\ toSend' = toSend - 1
    /\ queue' = IF Closed THEN queue ELSE Append(queue, Check)
    /\ UNCHANGED <<server, request, workerVars, checker, checks, crashes>>

(* With the channel closed the error is ignored.                           *)
CheckerSends ==
    /\ checker = "sending"
    /\ toSend > 0
    /\ toSend' = toSend - 1
    /\ queue' = IF Closed THEN queue ELSE Append(queue, Check)
    /\ UNCHANGED <<server, request, workerVars, checker, checks, crashes>>

CheckerSleeps ==
    /\ checker = "sending"
    /\ toSend = 0
    /\ checker' = "sleeping"
    /\ UNCHANGED <<server, request, queue, workerVars, toSend, checks, crashes>>

CheckerWakes ==
    /\ checker = "sleeping"
    /\ checker' = "querying"
    /\ UNCHANGED <<server, request, queue, workerVars, toSend, checks, crashes>>

(* Mutant: the status checker waits until what it sent has been received.  *)
CheckerStopsLast ==
    /\ checker = "sleeping"
    /\ Cancelled
    /\ queue = <<>>
    /\ checker' = "stopped"
    /\ UNCHANGED <<server, request, queue, workerVars, toSend, checks, crashes>>

CheckerStops ==
    /\ checker = "sleeping"
    /\ Cancelled
    /\ checker' = "stopped"
    /\ UNCHANGED <<server, request, queue, workerVars, toSend, checks, crashes>>

----------------------------------------------------------------------------
(* The tasks that main waits for have ended, as far as they touch the      *)
(* channel.  It also waits for the votes closer and the auto closer, which *)
(* end by themselves: at the token, or before it, by a panic.              *)
Exited == Cancelled /\ Closed /\ checker = "stopped"

(* The service is killed and started again.  A request that was not        *)
(* answered is known to have failed; a command queued is not.              *)
Crash ==
    /\ ~Exited
    /\ crashes < MaxCrashes
    /\ crashes' = crashes + 1
    /\ server' = "serving"
    /\ request' = [r \in Requests |-> IF request[r] = "handling" THEN "aborted" ELSE request[r]]
    /\ queue' = <<>>
    /\ worker' = [h \in Handlers |-> "waiting"]
    /\ command' = [h \in Handlers |-> None]
    /\ fate' = [r \in Requests |-> IF request[r] = "queued" /\ fate[r] = "none"
                                   THEN "lost" ELSE fate[r]]
    /\ checker' = "querying"
    /\ toSend' = 0
    /\ UNCHANGED checks

Rest == Exited /\ UNCHANGED vars

HandlerStep(h) == Receive(h) \/ Finish(h) \/ Stop(h)
CheckerStep == CheckerQuery \/ CheckerSends \/ CheckerSleeps \/ CheckerWakes \/ CheckerStops

Next ==
    \/ \E r \in Requests : Arrive(r) \/ GiveUp(r) \/ Send(r)
    \/ Terminate \/ ServerStops
    \/ \E h \in Handlers : HandlerStep(h)
    \/ CheckerStep
    \/ Crash
    \/ Rest

Spec == Init /\ [][Next]_vars

(* Requests and workers go on; the pause of the status checker is so long  *)
(* that a cancelled token ends it sooner or later.  No signal need come.   *)
Fairness ==
    /\ \A r \in Requests : WF_vars(Send(r))
    /\ WF_vars(ServerStops)
    /\ \A h \in Handlers : WF_vars(HandlerStep(h))
    /\ WF_vars(CheckerStep) /\ SF_vars(CheckerStops)

FairSpec == Spec /\ Fairness

----------------------------------------------------------------------------
Queued(r) == \E i \in 1 .. Len(queue) : queue[i] = r
Executing(r) == \E h \in Handlers : command[h] = r

(* A command answered "command queued" is in exactly one place until its   *)
(* fate is known: once in the channel or with one handler.  None is        *)
(* executed twice, and none that was not acknowledged is executed.         *)
AcknowledgedOnce ==
    /\ \A r \in Requests :
          /\ Queued(r) \/ Executing(r) => request[r] = "queued" /\ fate[r] = "none"
          /\ request[r] = "queued" /\ fate[r] = "none" => Queued(r) \/ Executing(r)
          /\ ~ (Queued(r) /\ Executing(r))
          /\ fate[r] # "none" => request[r] = "queued"
    /\ \A i, j \in 1 .. Len(queue) : queue[i] = queue[j] /\ queue[i] # Check => i = j
    /\ \A g, h \in Handlers : command[g] = command[h] /\ command[g] \in Requests => g = h
    /\ \A h \in Handlers : command[h] # None <=> worker[h] = "executing"

(* From the moment one handler has stopped the channel holds no command of *)
(* a request, and none is still to come: only the status checker may send  *)
(* after that.                                                             *)
StopsDrained ==
    /\ (\E h \in Handlers : worker[h] = "stopped") =>
          Cancelled /\ \A r \in Requests : ~Queued(r)
    /\ Cancelled => \A r \in Requests : request[r] # "handling"

(* An orderly shutdown loses no command answered "command queued": unless  *)
(* every handler has panicked, each has run to its end when the service    *)
(* exits, however the status checker goes on filling the channel.          *)
NothingLostAtExit ==
    Exited /\ (\E h \in Handlers : worker[h] # "panicked") =>
        \A r \in Requests : request[r] = "queued" => fate[r] # "none"

(* Whatever the workers, the shutdown and crashes interleave, the command  *)
(* of every request lives as CommandLifecycle says: the channel, the       *)
(* server and the status checker are hidden, and what is left is the       *)
(* answer of the request until the fate of its command is known.           *)
Phase == [r \in Requests |-> IF fate[r] = "none" THEN request[r] ELSE fate[r]]
Alive == {h \in Handlers : worker[h] # "panicked"}

Lifecycle == INSTANCE CommandLifecycle WITH phase <- Phase, alive <- Alive, up <- ~Exited

(* Every step of the queue and its workers is a step of the commands' life *)
(* or none: no command is executed twice or without being acknowledged, no *)
(* request is refused while a handler is there, and no exit of the service *)
(* leaves a command to handlers that could have executed it.               *)
ImplementsLifecycle == Lifecycle!Spec

(* Every command acknowledged is executed, lost in a crash, or left by     *)
(* handlers all of which have panicked.                                    *)
CommandsTaken == \A r \in Requests : request[r] = "queued" ~> fate[r] # "none" \/ Closed

(* A service asked to stop exits, unless it crashes and starts again.      *)
ShutdownEnds == server # "serving" ~> Exited \/ server = "serving"
=============================================================================
