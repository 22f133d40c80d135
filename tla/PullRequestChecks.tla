-------------------------- MODULE PullRequestChecks --------------------------
(***************************************************************************)
(* The GitVote check of one pull request, when its base branch may require *)
(* it to merge.  Three kinds of actors write it, each by reading the head  *)
(* of the pull request and then creating a check run on that commit: the   *)
(* webhook requests, one for each push, which say "no vote found"; the     *)
(* handlers of the commands, several at a time; and the votes closer.      *)
(*                                                                         *)
(* Commands in comments reach any handler at any time.  Labels, locks and  *)
(* other closers are in VotesProcessor.  Events of a pull request other    *)
(* than opened and synchronize do nothing.                                 *)
(***************************************************************************)
EXTENDS RepoConfig, Sequences

CONSTANTS
    Handlers,     \* command handler workers
    Closer,       \* the votes closer
    ConfigFiles,  \* the configuration file at each location
    IsOrg,        \* the owner of the repository is an organization
    Changes,      \* the sets of files the pull request may change
    MaxPushes,    \* bound: commits pushed
    MaxVotes,     \* bound: votes that handlers begin to create
    MaxFaults     \* bound: calls that fail and crashes

ASSUME ChecksAssumption ==
    /\ MaxPushes \in Nat \ {0} /\ MaxVotes \in Nat /\ MaxFaults \in Nat
    /\ IsOrg \in BOOLEAN
    /\ Closer \notin Handlers

VARIABLES
    required,  \* the base branch requires the check
    head,      \* commits pushed; the last is the head, 0 before the opening
    check,     \* latest GitVote check run of each commit
    open,      \* number of open votes stored
    ended,     \* what became of the vote that ended last
    kept,      \* a closed vote is stored: rows of cancelled votes are not
    request,   \* what the webhook request of each push is doing
    task,      \* what the handlers and the closer are doing
    votes,     \* votes begun so far
    faults,    \* faults so far
    (* history *)
    since,     \* head when the latest vote was stored
    base,      \* commit of the last check run created by a worker
    raced,     \* a vote was stored under a request bound to say there is none
    crossed    \* a vote was stored or ended under a worker still to report, or
               \* stored beside an open one

bounds == <<votes, faults>>
history == <<since, base, raced, crossed>>
voteVars == <<open, ended, kept>>
vars == <<required, head, check, voteVars, request, task, bounds, history>>

Commits == 1 .. MaxPushes
Workers == Handlers \cup {Closer}
Checks == {"none", "in_progress", "success", "failure"}
Results == {"passed", "failed", "missing"}
Answered == {"done", "queued"}
Calls == {"automation", "required", "has_vote", "read_head", "create_check"}

TypeOK ==
    /\ required \in BOOLEAN
    /\ head \in 0 .. MaxPushes
    /\ check \in [Commits -> Checks]
    /\ open \in Nat
    /\ ended \in {"none", "cancelled"} \cup Results
    /\ kept \in BOOLEAN
    /\ request \in [Commits -> [at : {"none", "sent"} \cup Calls \cup Answered,
                                sha : 0 .. MaxPushes]]
    /\ task \in [Workers -> [at : {"idle", "store_vote", "read_head", "create_check"},
                             check : Checks, sha : 0 .. MaxPushes]]
    /\ votes \in Nat /\ faults \in Nat
    /\ since \in 0 .. MaxPushes /\ base \in 0 .. MaxPushes
    /\ raced \in BOOLEAN /\ crossed \in BOOLEAN

Idle == [at |-> "idle", check |-> "none", sha |-> 0]

Init ==
    /\ required \in BOOLEAN
    /\ head = 0
    /\ check = [n \in Commits |-> "none"]
    /\ open = 0 /\ ended = "none" /\ kept = FALSE
    /\ request = [n \in Commits |-> [at |-> "none", sha |-> 0]]
    /\ task = [w \in Workers |-> Idle]
    /\ votes = 0 /\ faults = 0
    /\ since = 0 /\ base = 0 /\ raced = FALSE /\ crossed = FALSE

Fault == faults < MaxFaults /\ faults' = faults + 1

(* The next step of a request, and the next check run of a worker.         *)
Goes(n, step) == request' = [request EXCEPT ![n] = [at |-> step, sha |-> 0]]
Reports(w, c) == task' = [task EXCEPT ![w] = [at |-> "read_head", check |-> c, sha |-> 0]]

(* Mutant: only a vote that is open counts.                                *)
HasVoteOpen == open > 0
(* Mutant: nothing asks the database.                                      *)
NeverHasVote == FALSE

(* DB::has_vote: any row for the pull request, closed or not.              *)
HasVote == open > 0 \/ kept

(* Requests that will say there is no vote whatever happens meanwhile: the *)
(* one for the opening never asks, the others asked already.               *)
Bound(n) ==
    \/ request[n].at \in {"read_head", "create_check"}
    \/ n = 1 /\ request[n].at \notin Answered

(* Workers that still have to say what became of a vote.                   *)
Reporting(w) == task[w].at \in {"read_head", "create_check"}
Reported == \A w \in Workers : ~Reporting(w)

----------------------------------------------------------------------------
(* Pushes, and handlers::event with set_check_status.                      *)

(* The first push opens the pull request.  Each is a commit of its own.    *)
Push ==
    /\ head < MaxPushes
    /\ head' = head + 1
    /\ Goes(head + 1, "sent")
    /\ UNCHANGED <<required, check, voteVars, task, bounds, history>>

(* from_event: only the event for the opening may carry a command; it is   *)
(* queued and nothing sets the check.                                      *)
Receive(n) ==
    /\ request[n].at = "sent"
    /\ \/ n = 1 /\ Goes(n, "queued")
       \/ Goes(n, IF n = 1 THEN "automation" ELSE "required")
    /\ UNCHANGED <<required, head, check, voteVars, task, bounds, history>>

(* from_event_automatic: its errors are only logged.                       *)
FindAutomatic(n) ==
    /\ request[n].at = "automation"
    /\ \E unanswered \in SUBSET Locations, changed \in Changes \cup {{}} :
        /\ IF unanswered = {} /\ changed \in Changes THEN UNCHANGED faults ELSE Fault
        /\ Goes(n, IF StartsVote(GetConfigFile(ConfigFiles, unanswered), changed)
                   THEN "queued" ELSE "required")
    /\ UNCHANGED <<required, head, check, voteVars, task, votes, history>>

IsCheckRequired(n) ==
    /\ request[n].at = "required"
    /\ Goes(n, IF ~required THEN "done" ELSE IF n = 1 THEN "read_head" ELSE "has_vote")
    /\ UNCHANGED <<required, head, check, voteVars, task, bounds, history>>

AskHasVote(n) ==
    /\ request[n].at = "has_vote"
    /\ Goes(n, IF HasVote THEN "done" ELSE "read_head")
    /\ UNCHANGED <<required, head, check, voteVars, task, bounds, history>>

(* create_check_run, the same as for a worker below.                       *)
RequestReadsHead(n) ==
    /\ request[n].at = "read_head"
    /\ request' = [request EXCEPT ![n] = [at |-> "create_check", sha |-> head]]
    /\ UNCHANGED <<required, head, check, voteVars, task, bounds, history>>

SetSuccess(n) ==
    /\ request[n].at = "create_check"
    /\ check' = [check EXCEPT ![request[n].sha] = "success"]
    /\ Goes(n, "done")
    /\ UNCHANGED <<required, head, voteVars, task, bounds, history>>

(* The event is not delivered, or a call fails: nothing tries again.       *)
RequestFails(n) ==
    /\ request[n].at \in {"sent", "required", "has_vote", "read_head", "create_check"}
    /\ Fault
    /\ Goes(n, "done")
    /\ UNCHANGED <<required, head, check, voteVars, task, votes, history>>

----------------------------------------------------------------------------
(* CommandsHandler::create_vote and cancel_vote.                           *)

(* A CreateVote command that names a valid profile, from a collaborator:   *)
(* any other is refused with a comment.  So is one while a vote is open.   *)
StartVote(h) ==
    /\ task[h] = Idle
    /\ head > 0 /\ votes < MaxVotes
    /\ \E name \in {"default", "other"} : HasProfile(GetConfigFile(ConfigFiles, {}), name, IsOrg)
    /\ open = 0
    /\ votes' = votes + 1
    /\ task' = [task EXCEPT ![h].at = "store_vote"]
    /\ UNCHANGED <<required, head, check, voteVars, request, faults, history>>

(* The answer may be lost, after which nothing reports the vote.           *)
StoreVote(h) ==
    /\ task[h].at = "store_vote"
    /\ open' = open + 1
    /\ since' = head
    /\ raced' = (raced \/ \E n \in Commits : Bound(n))
    /\ crossed' = (crossed \/ open > 0 \/ ~Reported)
    /\ \/ Reports(h, "in_progress") /\ UNCHANGED faults
       \/ Fault /\ task' = [task EXCEPT ![h] = Idle]
    /\ UNCHANGED <<required, head, check, ended, kept, request, votes, base>>

(* A vote ends: how many are left open, and whether that crosses a report. *)
Ends(left, what) ==
    /\ open > 0
    /\ open' = left
    /\ ended' = what
    /\ crossed' = (crossed \/ ~Reported)

(* Mutant: the check is left as it is.                                     *)
CancelSilently(h) ==
    /\ task[h] = Idle
    /\ Ends(0, "cancelled")
    /\ UNCHANGED <<required, head, check, kept, request, task, bounds, since, base, raced>>

(* A CancelVote command from a collaborator.  Every open vote is deleted,  *)
(* but with more than one the answer is an error, and nothing is reported. *)
CancelVote(h) ==
    /\ task[h] = Idle
    /\ Ends(0, "cancelled")
    /\ \/ open = 1 /\ Reports(h, "success") /\ UNCHANGED faults
       \/ open = 1 /\ Fault /\ UNCHANGED task
       \/ open > 1 /\ UNCHANGED <<task, faults>>
    /\ UNCHANGED <<required, head, check, kept, request, votes, since, base, raced>>

----------------------------------------------------------------------------
(* VotesCloser::close_finished_vote, and the check run of every worker.    *)

(* Mutant: a vote without results is reported as neutral.                  *)
NeutralConclusion(r) ==
    CASE r = "failed" -> "failure" [] r = "passed" -> "success" [] OTHER -> "neutral"

(* A vote whose comment was removed is reported as cancelled.              *)
Conclusion(r) == IF r = "failed" THEN "failure" ELSE "success"

CloseVote ==
    /\ task[Closer] = Idle
    /\ \E r \in Results :
        /\ Ends(open - 1, r)
        /\ \/ Reports(Closer, Conclusion(r)) /\ UNCHANGED faults
           \/ Fault /\ UNCHANGED task
    /\ kept' = TRUE
    /\ UNCHANGED <<required, head, check, request, votes, since, base, raced>>

ReadHead(w) ==
    /\ task[w].at = "read_head"
    /\ task' = [task EXCEPT ![w].at = "create_check", ![w].sha = head]
    /\ UNCHANGED <<required, head, check, voteVars, request, bounds, history>>

CreateCheckRun(w) ==
    /\ task[w].at = "create_check"
    /\ check' = [check EXCEPT ![task[w].sha] = task[w].check]
    /\ base' = task[w].sha
    /\ task' = [task EXCEPT ![w] = Idle]
    /\ UNCHANGED <<required, head, voteVars, request, bounds, since, raced, crossed>>

WorkerFails(w) ==
    /\ task[w] # Idle
    /\ Fault
    /\ task' = [task EXCEPT ![w] = Idle]
    /\ UNCHANGED <<required, head, check, voteVars, request, votes, history>>

----------------------------------------------------------------------------
(* The service stops and starts again: what was under way is forgotten.    *)
Crash ==
    /\ Fault
    /\ request' = [n \in Commits |-> IF request[n].at \in Calls
                                     THEN [at |-> "done", sha |-> 0] ELSE request[n]]
    /\ task' = [w \in Workers |-> Idle]
    /\ UNCHANGED <<required, head, check, voteVars, votes, history>>

Quiet == Reported /\ \A n \in 1 .. head : request[n].at \in Answered

RequestStep(n) ==
    \/ Receive(n) \/ FindAutomatic(n) \/ IsCheckRequired(n) \/ AskHasVote(n)
    \/ RequestReadsHead(n) \/ SetSuccess(n) \/ RequestFails(n)

HandlerStep(h) == StartVote(h) \/ StoreVote(h) \/ CancelVote(h)

Next ==
    \/ Push
    \/ \E n \in Commits : RequestStep(n)
    \/ \E h \in Handlers : HandlerStep(h)
    \/ CloseVote
    \/ \E w \in Workers : ReadHead(w) \/ CreateCheckRun(w) \/ WorkerFails(w)
    \/ Crash
    \/ Quiet /\ UNCHANGED vars

Spec == Init /\ [][Next]_vars

----------------------------------------------------------------------------
(* What the check of a commit is to say: that a vote is open, or else what *)
(* became of the one that ended last.                                      *)
Verdict == IF open > 0 THEN "in_progress" ELSE Conclusion(ended)

(* A check run created for a vote is not undone, whatever is pushed while  *)
(* the vote is open and after it closed: without faults, races and crossed *)
(* reports, once the workers have reported, the commit they reported on    *)
(* shows what became of the vote and no later commit shows anything.       *)
VerdictStands ==
    /\ ~raced /\ ~crossed /\ faults = 0
    /\ Reported /\ (open > 0 \/ ended \in Results)
    => /\ base > 0 /\ check[base] = Verdict
       /\ \A n \in Commits : n > base => check[n] = "none"

(* Pushing more commits does not get round a vote that is open or was lost *)
(* even when calls fail, answers are lost or the service restarts: unless  *)
(* a request raced with the storing or workers crossed, no commit pushed   *)
(* since the vote was stored shows success.                                *)
NoWayRound ==
    ~raced /\ ~crossed /\ (open > 0 \/ ended = "failed") =>
        \A n \in Commits : n > since => check[n] # "success"

(* A pull request nobody votes on can be merged, and so can one whose vote *)
(* was cancelled, whatever requests raced: unless the event for its        *)
(* opening was taken as a command and nothing was pushed after it, its     *)
(* head ends up with a success.  Excepted are workers that crossed: a      *)
(* handler that stored a vote which another one cancels before it reports  *)
(* it says last that the vote is in progress.                              *)
NotHeldUp ==
    /\ required /\ faults = 0 /\ ~crossed /\ Quiet
    /\ open = 0 /\ ended \in {"none", "cancelled"} /\ ~kept
    /\ head > 1 \/ (head = 1 /\ request[1].at # "queued") \/ ended = "cancelled"
    => check[head] = "success"
=============================================================================
