-------------------------- MODULE VotesProcessor --------------------------
(***************************************************************************)
(* The votes processor of GitVote: the command handler workers that create *)
(* and cancel votes, and the votes closers that close the finished ones,   *)
(* interleaved at every await on the database or on the GitHub API.        *)
(*                                                                         *)
(* A member of Votes stands for a vote's identity: the "vote created"      *)
(* comment posted on GitHub and the row stored for it.  Commands reach a   *)
(* worker in any order: the channel they wait in, and the webhook before   *)
(* it, only delay them.  Replies that change nothing but the conversation  *)
(* (configuration errors, "there is already a vote in progress") are left  *)
(* out; so are the commands that end in one before reading the database.   *)
(***************************************************************************)
EXTENDS Naturals, FiniteSets

CONSTANTS
    Votes,          \* the votes there may be
    Issues,         \* issues and pull requests
    PullRequests,   \* the members of Issues that are pull requests
    Handlers,       \* command handler workers
    Closers,        \* votes closers: one in each replica of the service
    Poisoned,       \* votes whose calculation may return an error each time
    Malformed,      \* votes whose calculation may panic each time
    Limit,          \* Limit[k]: how many events of kind k may happen
    None            \* no vote, no issue, no lock holder

EventKinds == {"create", "cancel", "fault", "crash"}

ASSUME ProcessorAssumption ==
    /\ None \notin Votes \cup Issues \cup Closers
    /\ Handlers \cap Closers = {}
    /\ PullRequests \subseteq Issues
    /\ Poisoned \cup Malformed \subseteq Votes
    /\ Limit \in [EventKinds -> Nat]

VARIABLES
    (* the database: table vote, one row per open or closed vote *)
    status,     \* "posted": comment only; "cancelled": the row was deleted
    issueOf,    \* columns repository_full_name and issue_number
    due,        \* current_timestamp > ends_at
    result,     \* column results; "missing" is the stored JSON null
    lock,       \* closer whose transaction holds the row lock
    (* GitHub *)
    labels,     \* labels of each issue
    check,      \* latest GitVote check run of each pull request
    published,  \* number of "vote closed" comments posted for each vote
    announced,  \* votes announced in a discussion
    notified,   \* votes whose cancellation was commented
    (* the service *)
    task,       \* what each command handler is doing
    job,        \* what each votes closer is doing
    (* bounds *)
    spent       \* spent[k]: events of kind k so far

dbVars == <<status, issueOf, due, result, lock>>
ghVars == <<labels, check, published, announced, notified>>
vars == <<dbVars, ghVars, task, job, spent>>

----------------------------------------------------------------------------

Statuses == {"none", "posted", "open", "closed", "cancelled"}
Outcomes == {"passed", "failed", "missing"}
Labels == {"gitvote", "open", "closed", "passed", "failed"}
Checks == {"none", "in_progress", "success", "failure"}

(* Where a command handler is: the call it makes next.                     *)
CreateSteps == {"has_vote_open", "post_created", "store_vote", "create_check",
                "remove_closed", "remove_passed", "remove_failed", "add_labels"}
CancelSteps == {"cancel_vote", "post_cancelled", "cancel_check", "cancel_unlabel"}

(* Where a closer is.  Its transaction is open in TxSteps; the vote has    *)
(* been closed, and is only being reported, in ReportSteps.                *)
TxSteps == {"calculate", "store_results"}
ReportSteps == {"post_closed", "close_check", "close_unlabel", "close_label"}

TaskSteps == CreateSteps \cup CancelSteps \cup {"idle"}
JobSteps == TxSteps \cup ReportSteps \cup {"resting", "dead"}

Tasks == [at : TaskSteps, issue : Issues \cup {None}, vote : Votes \cup {None}]
Jobs == [at : JobSteps, vote : Votes \cup {None}, outcome : Outcomes \cup {"none"}]

Idle == [at |-> "idle", issue |-> None, vote |-> None]
Resting == [at |-> "resting", vote |-> None, outcome |-> "none"]
(* The closer's task panicked: the process goes on without it.             *)
Dead == [at |-> "dead", vote |-> None, outcome |-> "none"]
Off == {Resting, Dead}

TypeOK ==
    /\ status \in [Votes -> Statuses]
    /\ issueOf \in [Votes -> Issues \cup {None}]
    /\ due \in [Votes -> BOOLEAN]
    /\ result \in [Votes -> Outcomes \cup {"none"}]
    /\ lock \in [Votes -> Closers \cup {None}]
    /\ labels \in [Issues -> SUBSET Labels]
    /\ check \in [Issues -> Checks]
    /\ published \in [Votes -> Nat]
    /\ announced \in SUBSET Votes
    /\ notified \in SUBSET Votes
    /\ task \in [Handlers -> Tasks]
    /\ job \in [Closers -> Jobs]
    /\ spent \in [EventKinds -> Nat]

Init ==
    /\ status = [v \in Votes |-> "none"]
    /\ issueOf = [v \in Votes |-> None]
    /\ due = [v \in Votes |-> FALSE]
    /\ result = [v \in Votes |-> "none"]
    /\ lock = [v \in Votes |-> None]
    /\ labels = [i \in Issues |-> {}]
    /\ check = [i \in Issues |-> "none"]
    /\ published = [v \in Votes |-> 0]
    /\ announced = {}
    /\ notified = {}
    /\ task = [h \in Handlers |-> Idle]
    /\ job = [c \in Closers |-> Resting]
    /\ spent = [k \in EventKinds |-> 0]

----------------------------------------------------------------------------
(* Helpers.                                                                *)

Spend(k) ==
    /\ spent[k] < Limit[k]
    /\ spent' = [spent EXCEPT ![k] = @ + 1]

(* The handler goes on to step s with a vote to work on.                   *)
Taking(h, s, v) == [at |-> s, issue |-> task[h].issue, vote |-> v]

(* A call whose error the handler returns: it goes on to step s, or the    *)
(* call took effect but its answer was lost and the handler gives up.      *)
Answered(h, s) ==
    \/ /\ task' = [task EXCEPT ![h].at = s]
       /\ UNCHANGED spent
    \/ /\ Spend("fault")
       /\ task' = [task EXCEPT ![h] = Idle]

(* The same for a closer; it sleeps and looks for another vote later.      *)
Reported(c, s) ==
    \/ /\ job' = [job EXCEPT ![c].at = s]
       /\ UNCHANGED spent
    \/ /\ Spend("fault")
       /\ job' = [job EXCEPT ![c] = Resting]

(* remove_label: removing an absent label is no error, and the callers     *)
(* ignore every other error.                                               *)
RemoveLabel(i, l) ==
    \/ /\ labels' = [labels EXCEPT ![i] = @ \ {l}]
       /\ UNCHANGED spent
    \/ /\ Spend("fault")
       /\ UNCHANGED labels

(* Mutant: the statements forget "closed = false".                         *)
RowsOf(i) == {v \in Votes : status[v] \in {"open", "closed"} /\ issueOf[v] = i}

OpenVotesOn(i) == {v \in Votes : status[v] = "open" /\ issueOf[v] = i}

(* Mutants: no "for update"; a fixed order in which a poisoned vote is first. *)
Finished == {v \in Votes : status[v] = "open" /\ due[v]}
PoisonedFirst ==
    IF Finished \cap Poisoned = {} THEN Finished ELSE Finished \cap Poisoned

(* get_pending_finished_vote: the rows its query may return.  The order is *)
(* random and the rows locked by other transactions are skipped.           *)
PendingFinished == {v \in Votes : status[v] = "open" /\ due[v] /\ lock[v] = None}

----------------------------------------------------------------------------
(* CommandsHandler::create_vote, one action per await.                     *)

(* A CreateVote command with a valid profile, from a collaborator.         *)
ReceiveCreate(h, i) ==
    /\ task[h] = Idle
    /\ Spend("create")
    /\ task' = [task EXCEPT ![h] = [at |-> "has_vote_open", issue |-> i, vote |-> None]]
    /\ UNCHANGED <<dbVars, ghVars, job>>

(* Mutant: nothing asks has_vote_open.                                     *)
CreateUnasked(h) ==
    /\ task[h].at = "has_vote_open"
    /\ task' = [task EXCEPT ![h].at = "post_created"]
    /\ UNCHANGED <<dbVars, ghVars, job, spent>>

(* With a vote open on the issue the command is refused.                   *)
HasVoteOpen(h) ==
    /\ task[h].at = "has_vote_open"
    /\ task' = [task EXCEPT ![h] = IF OpenVotesOn(@.issue) # {}
                                   THEN Idle
                                   ELSE [@ EXCEPT !.at = "post_created"]]
    /\ UNCHANGED <<dbVars, ghVars, job, spent>>

PostCreated(h) ==
    /\ task[h].at = "post_created"
    /\ \E v \in Votes :
        /\ status[v] = "none"
        /\ status' = [status EXCEPT ![v] = "posted"]
        /\ issueOf' = [issueOf EXCEPT ![v] = task[h].issue]
        /\ \/ /\ task' = [task EXCEPT ![h] = Taking(h, "store_vote", v)]
              /\ UNCHANGED spent
           \/ /\ Spend("fault")
              /\ task' = [task EXCEPT ![h] = Idle]
    /\ UNCHANGED <<due, result, lock, ghVars, job>>

(* insert into vote: nothing in the schema rejects a second open row.      *)
StoreVote(h) ==
    /\ task[h].at = "store_vote"
    /\ status' = [status EXCEPT ![task[h].vote] = "open"]
    /\ Answered(h, IF task[h].issue \in PullRequests
                   THEN "create_check" ELSE "remove_closed")
    /\ UNCHANGED <<issueOf, due, result, lock, ghVars, job>>

CreateCheck(h) ==
    /\ task[h].at = "create_check"
    /\ check' = [check EXCEPT ![task[h].issue] = "in_progress"]
    /\ Answered(h, "remove_closed")
    /\ UNCHANGED <<dbVars, labels, published, announced, notified, job>>

(* Labels left from a previous vote are removed one call at a time.        *)
RemoveOldLabel(h, s, l, next) ==
    /\ task[h].at = s
    /\ RemoveLabel(task[h].issue, l)
    /\ task' = [task EXCEPT ![h].at = next]
    /\ UNCHANGED <<dbVars, check, published, announced, notified, job>>

RemoveOldLabels(h) ==
    \/ RemoveOldLabel(h, "remove_closed", "closed", "remove_passed")
    \/ RemoveOldLabel(h, "remove_passed", "passed", "remove_failed")
    \/ RemoveOldLabel(h, "remove_failed", "failed", "add_labels")

AddOpenLabels(h) ==
    /\ task[h].at = "add_labels"
    /\ labels' = [labels EXCEPT ![task[h].issue] = @ \cup {"gitvote", "open"}]
    /\ task' = [task EXCEPT ![h] = Idle]
    /\ UNCHANGED <<dbVars, check, published, announced, notified, job, spent>>

----------------------------------------------------------------------------
(* CommandsHandler::cancel_vote.                                           *)

(* A CancelVote command from a collaborator.                               *)
ReceiveCancel(h, i) ==
    /\ task[h] = Idle
    /\ Spend("cancel")
    /\ task' = [task EXCEPT ![h] = [at |-> "cancel_vote", issue |-> i, vote |-> None]]
    /\ UNCHANGED <<dbVars, ghVars, job>>

(* delete from vote ... returning vote_id.  It waits for the rows a closer *)
(* has locked and evaluates its condition on them again.  query_opt fails  *)
(* when more than one row is returned, after the statement has committed.  *)
CancelVote(h) ==
    /\ task[h].at = "cancel_vote"
    /\ LET open == OpenVotesOn(task[h].issue) IN
        /\ \A v \in open : lock[v] = None
        /\ status' = [v \in Votes |-> IF v \in open THEN "cancelled" ELSE status[v]]
        /\ \/ /\ Cardinality(open) # 1
              /\ task' = [task EXCEPT ![h] = Idle]
              /\ UNCHANGED spent
           \/ \E v \in Votes :
              /\ open = {v}
              /\ \/ /\ task' = [task EXCEPT ![h] = Taking(h, "post_cancelled", v)]
                    /\ UNCHANGED spent
                 \/ /\ Spend("fault")
                    /\ task' = [task EXCEPT ![h] = Idle]
    /\ UNCHANGED <<issueOf, due, result, lock, ghVars, job>>

PostCancelled(h) ==
    /\ task[h].at = "post_cancelled"
    /\ notified' = notified \cup {task[h].vote}
    /\ Answered(h, IF task[h].issue \in PullRequests
                   THEN "cancel_check" ELSE "cancel_unlabel")
    /\ UNCHANGED <<dbVars, labels, check, published, announced, job>>

CancelCheck(h) ==
    /\ task[h].at = "cancel_check"
    /\ check' = [check EXCEPT ![task[h].issue] = "success"]
    /\ Answered(h, "cancel_unlabel")
    /\ UNCHANGED <<dbVars, labels, published, announced, notified, job>>

CancelUnlabel(h) ==
    /\ task[h].at = "cancel_unlabel"
    /\ RemoveLabel(task[h].issue, "open")
    /\ task' = [task EXCEPT ![h] = Idle]
    /\ UNCHANGED <<dbVars, check, published, announced, notified, job>>

(* A call of a handler fails without effect, and its error is returned.    *)
(* Only the errors of the remove_label calls are ignored.                  *)
HandlerCallFails(h) ==
    /\ task[h].at \in {"has_vote_open", "post_created", "store_vote", "create_check",
                       "add_labels", "cancel_vote", "post_cancelled", "cancel_check"}
    /\ Spend("fault")
    /\ task' = [task EXCEPT ![h] = Idle]
    /\ UNCHANGED <<dbVars, ghVars, job>>

----------------------------------------------------------------------------
(* VotesCloser::close_finished_vote and DB::close_finished_vote.           *)

(* Begin a transaction and lock one finished vote in it.                   *)
Pick(c, v) ==
    /\ job[c] = Resting
    /\ v \in PendingFinished
    /\ lock' = [lock EXCEPT ![v] = c]
    /\ job' = [job EXCEPT ![c] = [at |-> "calculate", vote |-> v, outcome |-> "none"]]
    /\ UNCHANGED <<status, issueOf, due, result, ghVars, task, spent>>

(* Mutant: the transaction of a failed calculation is not rolled back.     *)
CalculateLeaksLock(c) ==
    /\ job[c].at = "calculate"
    /\ \/ /\ job[c].vote \notin Poisoned \cup Malformed
          /\ \E o \in Outcomes :
                job' = [job EXCEPT ![c].at = "store_results", ![c].outcome = o]
       \/ job[c].vote \in Poisoned /\ job' = [job EXCEPT ![c] = Resting]
       \/ job[c].vote \in Malformed /\ job' = [job EXCEPT ![c] = Dead]
    /\ UNCHANGED <<dbVars, ghVars, task, spent>>

(* A "Not Found" answer closes the vote without results.  Any other error  *)
(* drops the transaction, which rolls it back.  So does a timestamp that   *)
(* cannot be parsed, but that one is a panic and ends the closer's task.   *)
(* A vote may meet both: errors are returned before anything is counted.   *)
Calculate(c) ==
    /\ job[c].at = "calculate"
    /\ \/ /\ job[c].vote \notin Poisoned \cup Malformed
          /\ \E o \in Outcomes :
                job' = [job EXCEPT ![c].at = "store_results", ![c].outcome = o]
          /\ UNCHANGED lock
       \/ /\ \/ job[c].vote \in Poisoned /\ job' = [job EXCEPT ![c] = Resting]
             \/ job[c].vote \in Malformed /\ job' = [job EXCEPT ![c] = Dead]
          /\ lock' = [lock EXCEPT ![job[c].vote] = None]
    /\ UNCHANGED <<status, issueOf, due, result, ghVars, task, spent>>

AfterPost(v) == IF issueOf[v] \in PullRequests THEN "close_check" ELSE "close_unlabel"

(* Mutant: a vote on a pull request only gets its check run.               *)
ReportCheckOnly(c) ==
    /\ job[c].at = "store_results"
    /\ LET v == job[c].vote IN
        /\ status' = [status EXCEPT ![v] = "closed"]
        /\ result' = [result EXCEPT ![v] = job[c].outcome]
        /\ lock' = [lock EXCEPT ![v] = None]
        /\ Reported(c, AfterPost(v))
    /\ UNCHANGED <<issueOf, due, ghVars, task>>

(* store_vote_results and commit: the row is closed and unlocked.          *)
StoreResults(c) ==
    /\ job[c].at = "store_results"
    /\ LET v == job[c].vote IN
        /\ status' = [status EXCEPT ![v] = "closed"]
        /\ result' = [result EXCEPT ![v] = job[c].outcome]
        /\ lock' = [lock EXCEPT ![v] = None]
        /\ Reported(c, IF job[c].outcome = "missing" THEN AfterPost(v) ELSE "post_closed")
    /\ UNCHANGED <<issueOf, due, ghVars, task>>

(* Post the results and, if the profile asks for it, the announcement,     *)
(* whose errors are only logged.                                           *)
PostClosed(c) ==
    /\ job[c].at = "post_closed"
    /\ LET v == job[c].vote IN
        /\ published' = [published EXCEPT ![v] = @ + 1]
        /\ Reported(c, AfterPost(v))
        /\ \/ UNCHANGED announced
           \/ /\ spent' = spent
              /\ announced' = announced \cup {v}
    /\ UNCHANGED <<dbVars, labels, check, notified, task>>

CloseCheck(c) ==
    /\ job[c].at = "close_check"
    /\ check' = [check EXCEPT ![issueOf[job[c].vote]] =
                    IF job[c].outcome = "failed" THEN "failure" ELSE "success"]
    /\ Reported(c, "close_unlabel")
    /\ UNCHANGED <<dbVars, labels, published, announced, notified, task>>

(* Mutant: the label "vote open" stays.                                    *)
CloseKeepsLabel(c) ==
    /\ job[c].at = "close_unlabel"
    /\ job' = [job EXCEPT ![c].at = "close_label"]
    /\ UNCHANGED <<dbVars, ghVars, task, spent>>

CloseUnlabel(c) ==
    /\ job[c].at = "close_unlabel"
    /\ RemoveLabel(issueOf[job[c].vote], "open")
    /\ job' = [job EXCEPT ![c].at = "close_label"]
    /\ UNCHANGED <<dbVars, check, published, announced, notified, task>>

(* Mutant: a vote closed without results is labelled too.                  *)
LabelOutcome(c) ==
    /\ job[c].at = "close_label"
    /\ labels' = [labels EXCEPT ![issueOf[job[c].vote]] = @ \cup {"closed", job[c].outcome}]
    /\ job' = [job EXCEPT ![c] = Resting]
    /\ UNCHANGED <<dbVars, check, published, announced, notified, task, spent>>

CloseLabel(c) ==
    /\ job[c].at = "close_label"
    /\ labels' = [labels EXCEPT ![issueOf[job[c].vote]] =
                    @ \cup {"closed"} \cup ({job[c].outcome} \ {"missing"})]
    /\ job' = [job EXCEPT ![c] = Resting]
    /\ UNCHANGED <<dbVars, check, published, announced, notified, task, spent>>

(* Mutant: an error posting the results is logged, and the report goes on. *)
PostErrorLogged(c) ==
    /\ job[c].at \in TxSteps \cup (ReportSteps \ {"close_unlabel"})
    /\ Spend("fault")
    /\ IF job[c].at = "post_closed"
       THEN job' = [job EXCEPT ![c].at = AfterPost(job[c].vote)]
       ELSE job' = [job EXCEPT ![c] = Resting]
    /\ lock' = [v \in Votes |-> IF lock[v] = c THEN None ELSE lock[v]]
    /\ UNCHANGED <<status, issueOf, due, result, ghVars, task>>

(* A call of a closer fails without effect.  Inside the transaction that   *)
(* leaves the vote open; after it, the rest of the report is abandoned.    *)
CloserCallFails(c) ==
    /\ job[c].at \in TxSteps \cup (ReportSteps \ {"close_unlabel"})
    /\ Spend("fault")
    /\ job' = [job EXCEPT ![c] = Resting]
    /\ lock' = [v \in Votes |-> IF lock[v] = c THEN None ELSE lock[v]]
    /\ UNCHANGED <<status, issueOf, due, result, ghVars, task>>

----------------------------------------------------------------------------
(* The environment.                                                        *)

(* The ending timestamp of an open vote is reached.                        *)
TimeUp(v) ==
    /\ status[v] = "open"
    /\ ~due[v]
    /\ due' = [due EXCEPT ![v] = TRUE]
    /\ UNCHANGED <<status, issueOf, result, lock, ghVars, task, job, spent>>

(* The service is killed and started again: what the workers were doing is *)
(* lost, the database rolls their transactions back, and closers that had  *)
(* panicked run again.                                                     *)
Crash ==
    /\ Spend("crash")
    /\ task' = [h \in Handlers |-> Idle]
    /\ job' = [c \in Closers |-> Resting]
    /\ lock' = [v \in Votes |-> None]
    /\ UNCHANGED <<status, issueOf, due, result, ghVars>>

Quiescent ==
    /\ \A h \in Handlers : task[h] = Idle
    /\ \A c \in Closers : job[c] \in Off

(* The handlers wait for a command and the closers sleep or are gone.      *)
Rest == Quiescent /\ UNCHANGED vars

----------------------------------------------------------------------------

HandlerStep(h) ==
    \/ HasVoteOpen(h) \/ PostCreated(h) \/ StoreVote(h) \/ CreateCheck(h)
    \/ RemoveOldLabels(h) \/ AddOpenLabels(h)
    \/ CancelVote(h) \/ PostCancelled(h) \/ CancelCheck(h) \/ CancelUnlabel(h)
    \/ HandlerCallFails(h)

CloserStep(c) ==
    \/ Calculate(c) \/ StoreResults(c) \/ PostClosed(c)
    \/ CloseCheck(c) \/ CloseUnlabel(c) \/ CloseLabel(c)
    \/ CloserCallFails(c)

Next ==
    \/ \E h \in Handlers, i \in Issues : ReceiveCreate(h, i) \/ ReceiveCancel(h, i)
    \/ \E h \in Handlers : HandlerStep(h)
    \/ \E c \in Closers, v \in Votes : Pick(c, v)
    \/ \E c \in Closers : CloserStep(c)
    \/ \E v \in Votes : TimeUp(v)
    \/ Crash
    \/ Rest

Spec == Init /\ [][Next]_vars

----------------------------------------------------------------------------
(* Fairness.  A worker never stops in the middle of a command or of a      *)
(* closing: each await returns, with an answer or an error, or the closer  *)
(* panics.  A delete that waits for a row lock is queued before the        *)
(* closers, which skip the rows locked.  Time passes.  A closer that lives *)
(* looks for a vote again and again, and the random order of its query     *)
(* gives every candidate a turn.                                           *)
Fairness ==
    /\ \A h \in Handlers : WF_vars(HandlerStep(h)) /\ SF_vars(CancelVote(h))
    /\ \A c \in Closers : WF_vars(CloserStep(c))
    /\ \A v \in Votes : WF_vars(TimeUp(v)) /\ SF_vars(\E c \in Closers : Pick(c, v))

FairSpec == Spec /\ Fairness

(* The processor at the pace of its users: while a worker is busy with an  *)
(* issue no other one is.  Work on different issues still interleaves.     *)
BusyWith(i) ==
    {h \in Handlers : task[h].issue = i}
        \cup {c \in Closers : job[c] \notin Off /\ issueOf[job[c].vote] = i}

AtMostOneBusy == \A i \in Issues : \A x, y \in BusyWith(i) : x = y

PacedSpec == Init /\ [][Next /\ AtMostOneBusy']_vars

----------------------------------------------------------------------------
(* Safety.                                                                 *)

(* A row lock is held by exactly the closer whose transaction took it, and *)
(* only on a vote that is open and whose time is up: a vote cannot be      *)
(* cancelled, or picked by another replica, while it is being closed.      *)
LocksHeld ==
    /\ \A v \in Votes, c \in Closers :
          lock[v] = c <=> job[c].at \in TxSteps /\ job[c].vote = v
    /\ \A v \in Votes : lock[v] # None => status[v] = "open" /\ due[v]

(* What a closer reports is what the database says of the vote, and no two *)
(* closers report the same vote.                                           *)
ReportsCommitted ==
    /\ \A c \in Closers : job[c].at \in ReportSteps =>
          /\ status[job[c].vote] = "closed"
          /\ result[job[c].vote] = job[c].outcome
    /\ \A c, d \in Closers :
          job[c].vote \in Votes /\ job[c].vote = job[d].vote => c = d

(* The results of a vote are posted at most once, by the closer that       *)
(* closed it; they are announced only once posted.                         *)
PostedOnce ==
    /\ \A c \in Closers : job[c].at = "post_closed" => published[job[c].vote] = 0
    /\ \A v \in Votes :
          /\ published[v] > 0 => published[v] = 1 /\ result[v] \in {"passed", "failed"}
          /\ v \in announced => published[v] = 1

(* A vote is stored for the issue its comment is on, and by one worker.    *)
StoredAsPosted ==
    /\ \A v \in Votes : status[v] # "none" => issueOf[v] \in Issues
    /\ \A h \in Handlers : task[h].at = "store_vote" =>
          status[task[h].vote] = "posted" /\ issueOf[task[h].vote] = task[h].issue
    /\ \A g, h \in Handlers :
          task[g].at = "store_vote" /\ task[h].at = "store_vote"
              /\ task[g].vote = task[h].vote => g = h

(* A vote has a result exactly when it is closed.                          *)
ClosedWithResult == \A v \in Votes : status[v] = "closed" <=> result[v] # "none"

(* Who is told that a vote was cancelled is told the truth: it was, and it *)
(* has not been closed since.                                              *)
CancelledTold ==
    /\ \A h \in Handlers : task[h].at = "post_cancelled" => status[task[h].vote] = "cancelled"
    /\ \A v \in notified : status[v] = "cancelled"

(* What a worker knows of its vote at each of its steps.                   *)
TaskOK(t) ==
    /\ t.at = "idle" => t = Idle
    /\ t.at # "idle" => t.issue \in Issues
    /\ t.at \in {"store_vote", "post_cancelled"} => t.vote \in Votes

JobOK(j) ==
    /\ j.at = "resting" => j = Resting
    /\ j.at = "dead" => j = Dead
    /\ j.at \in TxSteps \cup ReportSteps => j.vote \in Votes
    /\ j.at \in ReportSteps \cup {"store_results"} => j.outcome \in Outcomes
    /\ j.at = "post_closed" => j.outcome # "missing"

WorkersWellFormed ==
    /\ \A h \in Handlers : TaskOK(task[h])
    /\ \A c \in Closers : JobOK(job[c])

(* Together these are inductive: what the workers remember between two     *)
(* awaits still agrees with the database.                                  *)
ProcessorInv ==
    /\ LocksHeld
    /\ ReportsCommitted
    /\ PostedOnce
    /\ StoredAsPosted
    /\ ClosedWithResult
    /\ CancelledTold
    /\ WorkersWellFormed

(* The calls of a report are made in order, and one that fails ends it:    *)
(* what comes after the comment with the results comes after it is posted. *)
ReportsInOrder ==
    \A c \in Closers :
        job[c].at \in ReportSteps \ {"post_closed"} /\ job[c].outcome # "missing" =>
            published[job[c].vote] = 1

(* A vote on issue i was closed with result r, and its results are posted. *)
VerdictPosted(i, r) ==
    \E v \in Votes :
        issueOf[v] = i /\ status[v] = "closed" /\ result[v] = r /\ published[v] = 1

(* A verdict that an issue shows, by its labels or its check run, is that  *)
(* of a vote held on it and closed, whose results were posted there: so it *)
(* is when calls fail, answers are lost and reports are abandoned by a     *)
(* crash, whichever workers write the issue meanwhile.                     *)
VerdictsPublished ==
    \A i \in Issues :
        /\ \A r \in {"passed", "failed"} : r \in labels[i] => VerdictPosted(i, r)
        /\ check[i] = "failure" => VerdictPosted(i, "failed")

(* Whatever the workers interleave, every vote lives as VoteLifecycle says: *)
(* a comment without a row is not a vote yet.                              *)
Phase == [v \in Votes |-> IF status[v] \in {"none", "posted"} THEN "absent" ELSE status[v]]

Lifecycle == INSTANCE VoteLifecycle WITH phase <- Phase, verdict <- result

(* Every step of the processor is a step of the votes' life or none: a vote *)
(* is closed or cancelled once, not both, its results never change, and    *)
(* they are published at most once and only after they were stored.        *)
ImplementsLifecycle == Lifecycle!Spec

(* There is at most one open vote per issue: create_vote asks              *)
(* has_vote_open before it stores a vote.                                  *)
OneOpenVote == \A i \in Issues : \A v, w \in OpenVotesOn(i) : v = w

(* When nobody works on an issue, and no call failed, its labels and check *)
(* run are those of its open vote; without an open vote nothing says that  *)
(* there is one, and the label and the check tell the same verdict.        *)
OutwardState ==
    spent["fault"] = 0 /\ spent["crash"] = 0 =>
        \A i \in Issues : BusyWith(i) = {} =>
            /\ OpenVotesOn(i) # {} =>
                  /\ labels[i] = {"gitvote", "open"}
                  /\ i \in PullRequests => check[i] = "in_progress"
            /\ OpenVotesOn(i) = {} =>
                  /\ "open" \notin labels[i]
                  /\ check[i] # "in_progress"
                  /\ ~ ({"passed", "failed"} \subseteq labels[i])
                  /\ i \in PullRequests => ("failed" \in labels[i] <=> check[i] = "failure")

----------------------------------------------------------------------------
(* Liveness.                                                               *)

(* Every command is finished: no row lock is waited for forever.           *)
CommandsFinish == \A h \in Handlers : task[h] # Idle ~> task[h] = Idle

ClosersDead == \A c \in Closers : job[c] = Dead

(* Every open vote is eventually closed or cancelled, even when another    *)
(* one fails each time it is picked, unless every closer has panicked on a *)
(* malformed vote, for good: nothing short of a restart brings them back.  *)
VotesSettle ==
    \A v \in Votes \ (Poisoned \cup Malformed) :
        status[v] = "open" ~> status[v] \in {"closed", "cancelled"} \/ []ClosersDead

(* The results of every vote closed with results are published, unless a   *)
(* call fails or the service crashes.                                      *)
ResultsPublishedUnlessLost ==
    \A v \in Votes :
        result[v] \in {"passed", "failed"} ~>
            published[v] = 1 \/ spent["fault"] > 0 \/ spent["crash"] > 0
=============================================================================
