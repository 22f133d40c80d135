---------------------------- MODULE StatusChecks ----------------------------
(***************************************************************************)
(* The status checks of one vote: /check-vote commands and those that the  *)
(* status checker adds to the same queue, executed by concurrent handlers, *)
(* and the limit of one check a day.  Time is counted in runs of the       *)
(* status checker.  The vote may end (closed or cancelled) at any moment;  *)
(* its other columns do not matter here.                                   *)
(***************************************************************************)
EXTENDS Naturals, Sequences

CONSTANTS
    Handlers,   \* command handler workers
    Day,        \* MAX_VOTE_CHECK_FREQUENCY
    Hour,       \* what the status checker leaves before the end
    Interval,   \* periodic_status_check of the profile
    EndsAt,     \* ends_at
    Never,      \* a timestamp that is null
    MaxTime,    \* bound: the last instant considered
    MaxManual,  \* bound: /check-vote comments
    MaxFaults   \* bound: failed calls and crashes

ASSUME ChecksAssumption ==
    /\ Day \in Nat \ {0} /\ Hour \in Nat /\ EndsAt \in Nat
    /\ Interval \in Nat
    /\ Never \notin Nat
    /\ MaxTime \in Nat /\ MaxManual \in Nat /\ MaxFaults \in Nat

VARIABLES
    now,
    open,       \* the vote is in the database and open
    checkedAt,  \* column checked_at
    queue,      \* CheckVote commands in the channel, and who sent them
    lastRun,    \* when the status checker ran last
    task,       \* what each handler is doing
    lastPost,   \* when each handler posted a status comment last
    manual,     \* /check-vote comments so far
    faults,     \* failed calls and crashes so far
    (* history *)
    forgotten   \* handlers whose last post was not recorded in checked_at

vars == <<now, open, checkedAt, queue, lastRun, task, lastPost, manual, faults, forgotten>>

Senders == {"user", "checker"}
Steps == {"idle", "get_open_vote", "post_recently", "calculate", "post_status", "update"}
Times == Nat \cup {Never}

TypeOK ==
    /\ now \in Nat
    /\ open \in BOOLEAN
    /\ checkedAt \in Times
    /\ queue \in Seq(Senders)
    /\ lastRun \in Times
    /\ task \in [Handlers -> Steps]
    /\ lastPost \in [Handlers -> Times]
    /\ manual \in Nat /\ faults \in Nat
    /\ forgotten \subseteq Handlers

(* The vote was created at instant 0.                                      *)
Init ==
    /\ now = 0
    /\ open = TRUE
    /\ checkedAt = Never
    /\ queue = <<>>
    /\ lastRun = Never
    /\ task = [h \in Handlers |-> "idle"]
    /\ lastPost = [h \in Handlers |-> Never]
    /\ manual = 0
    /\ faults = 0
    /\ forgotten = {}

Fault ==
    /\ faults < MaxFaults
    /\ faults' = faults + 1

(* At least d has passed since t.                                          *)
Elapsed(t, d) == t = Never \/ now >= t + d

----------------------------------------------------------------------------
Tick ==
    /\ now < MaxTime
    /\ now' = now + 1
    /\ UNCHANGED <<open, checkedAt, queue, lastRun, task, lastPost, manual, faults, forgotten>>

VoteEnds ==
    /\ open
    /\ open' = FALSE
    /\ UNCHANGED <<now, checkedAt, queue, lastRun, task, lastPost, manual, faults, forgotten>>

(* The webhook handler queues the command of a /check-vote comment.        *)
CheckCommand ==
    /\ manual < MaxManual
    /\ manual' = manual + 1
    /\ queue' = Append(queue, "user")
    /\ UNCHANGED <<now, open, checkedAt, lastRun, task, lastPost, faults, forgotten>>

(* get_pending_status_checks, whose comparisons of timestamps are strict.  *)
Pending ==
    /\ open
    /\ Interval >= Day
    /\ now > Interval
    /\ checkedAt # Never => now > checkedAt + Interval
    /\ EndsAt > now + Hour

StatusCheckerRun ==
    /\ lastRun # Never => now > lastRun
    /\ lastRun' = now
    /\ queue' = IF Pending THEN Append(queue, "checker") ELSE queue
    /\ UNCHANGED <<now, open, checkedAt, task, lastPost, manual, faults, forgotten>>

----------------------------------------------------------------------------
(* CommandsHandler::check_vote, one action per await.                      *)

Receive(h) ==
    /\ task[h] = "idle"
    /\ queue # <<>>
    /\ queue' = Tail(queue)
    /\ task' = [task EXCEPT ![h] = "get_open_vote"]
    /\ UNCHANGED <<now, open, checkedAt, lastRun, lastPost, manual, faults, forgotten>>

(* Mutant: a check is allowed after a day less one instant.                *)
GetOpenVoteEarly(h) ==
    /\ task[h] = "get_open_vote"
    /\ task' = [task EXCEPT ![h] = CASE ~open -> "idle"
                                     [] open /\ Elapsed(checkedAt, Day - 1) -> "calculate"
                                     [] OTHER -> "post_recently"]
    /\ UNCHANGED <<now, open, checkedAt, queue, lastRun, lastPost, manual, faults, forgotten>>

GetOpenVote(h) ==
    /\ task[h] = "get_open_vote"
    /\ task' = [task EXCEPT ![h] = CASE ~open -> "idle"
                                     [] open /\ Elapsed(checkedAt, Day) -> "calculate"
                                     [] OTHER -> "post_recently"]
    /\ UNCHANGED <<now, open, checkedAt, queue, lastRun, lastPost, manual, faults, forgotten>>

PostRecently(h) ==
    /\ task[h] = "post_recently"
    /\ task' = [task EXCEPT ![h] = "idle"]
    /\ UNCHANGED <<now, open, checkedAt, queue, lastRun, lastPost, manual, faults, forgotten>>

Calculate(h) ==
    /\ task[h] = "calculate"
    /\ task' = [task EXCEPT ![h] = "post_status"]
    /\ UNCHANGED <<now, open, checkedAt, queue, lastRun, lastPost, manual, faults, forgotten>>

(* Mutant: what was posted is not recorded in checked_at.                  *)
PostStatusOnly(h) ==
    /\ task[h] = "post_status"
    /\ lastPost' = [lastPost EXCEPT ![h] = now]
    /\ task' = [task EXCEPT ![h] = "idle"]
    /\ UNCHANGED <<now, open, checkedAt, queue, lastRun, manual, faults, forgotten>>

(* The comment is posted, whether the answer arrives or not.               *)
PostStatus(h) ==
    /\ task[h] = "post_status"
    /\ lastPost' = [lastPost EXCEPT ![h] = now]
    /\ \/ /\ task' = [task EXCEPT ![h] = "update"]
          /\ UNCHANGED <<faults, forgotten>>
       \/ /\ Fault
          /\ task' = [task EXCEPT ![h] = "idle"]
          /\ forgotten' = forgotten \cup {h}
    /\ UNCHANGED <<now, open, checkedAt, queue, lastRun, manual>>

(* update_vote_last_check does not ask whether the vote is still open; on  *)
(* one that has ended nothing reads checked_at any more.                   *)
UpdateLastCheck(h) ==
    /\ task[h] = "update"
    /\ checkedAt' = now
    /\ forgotten' = forgotten \ {h}
    /\ task' = [task EXCEPT ![h] = "idle"]
    /\ UNCHANGED <<now, open, queue, lastRun, lastPost, manual, faults>>

CallFails(h) ==
    /\ task[h] # "idle"
    /\ Fault
    /\ task' = [task EXCEPT ![h] = "idle"]
    /\ forgotten' = forgotten \cup {x \in {h} : task[x] = "update"}
    /\ UNCHANGED <<now, open, checkedAt, queue, lastRun, lastPost, manual>>

(* The service restarts: the queue and what was being executed are lost,   *)
(* and the status checker runs at once.                                    *)
Crash ==
    /\ Fault
    /\ queue' = <<>>
    /\ task' = [h \in Handlers |-> "idle"]
    /\ lastRun' = Never
    /\ forgotten' = forgotten \cup {h \in Handlers : task[h] = "update"}
    /\ UNCHANGED <<now, open, checkedAt, lastPost, manual>>

----------------------------------------------------------------------------
HandlerStep(h) ==
    \/ Receive(h) \/ GetOpenVote(h) \/ PostRecently(h) \/ Calculate(h)
    \/ PostStatus(h) \/ UpdateLastCheck(h) \/ CallFails(h)

(* The bound on time reached, nothing is left to do.                       *)
Rest ==
    /\ now = MaxTime
    /\ queue = <<>>
    /\ \A h \in Handlers : task[h] = "idle"
    /\ UNCHANGED vars

Next ==
    \/ Tick \/ VoteEnds
    \/ CheckCommand \/ StatusCheckerRun
    \/ \E h \in Handlers : HandlerStep(h)
    \/ Crash
    \/ Rest

Spec == Init /\ [][Next]_vars

----------------------------------------------------------------------------
(* A handler that goes on to post has not posted for a day, because what   *)
(* it posted before is in checked_at by then, unless it was not recorded.  *)
ChecksInv ==
    /\ checkedAt # Never => checkedAt <= now
    /\ \A h \in Handlers : lastPost[h] # Never => lastPost[h] <= now
    /\ \A h \in Handlers \ forgotten :
          /\ task[h] \in {"calculate", "post_status"} => Elapsed(lastPost[h], Day)
          /\ lastPost[h] # Never /\ task[h] # "update" =>
                checkedAt # Never /\ lastPost[h] <= checkedAt

(* What the limit amounts to with several handlers: each of them posts the *)
(* status of a vote at most once a day, so that in any day there are at    *)
(* most as many status comments as handlers.  Whatever failed, excepted is *)
(* only a handler whose last post was not recorded.                        *)
EachHandlerOncePerDay ==
    [][\A h \in Handlers \ forgotten :
          task[h] = "post_status" /\ task'[h] # "post_status"
              => Elapsed(lastPost[h], Day)]_vars
=============================================================================
