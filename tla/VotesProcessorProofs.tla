------------------------ MODULE VotesProcessorProofs ------------------------
(***************************************************************************)
(* Theorems about the votes processor, for every number of votes, issues,  *)
(* handlers, closers, failed calls and crashes.                            *)
(***************************************************************************)
EXTENDS VotesProcessor, FiniteSetTheorems, TLAPS

----------------------------------------------------------------------------
(* What the helpers do to the types.                                       *)

(* The steps named in the actions are steps of the workers.                *)
LEMMA StepsNamed ==
    /\ {"idle", "has_vote_open", "post_created", "store_vote", "create_check",
        "remove_closed", "remove_passed", "remove_failed", "add_labels",
        "cancel_vote", "post_cancelled", "cancel_check", "cancel_unlabel"} \subseteq TaskSteps
    /\ {"resting", "dead", "calculate", "store_results",
        "post_closed", "close_check", "close_unlabel", "close_label"} \subseteq JobSteps
    /\ {"create", "cancel", "fault", "crash"} = EventKinds
    /\ Outcomes = {"passed", "failed", "missing"}
  BY DEF TaskSteps, CreateSteps, CancelSteps, JobSteps, TxSteps, ReportSteps, EventKinds, Outcomes

(* A resting worker is a well-typed one.                                   *)
LEMMA RestTypes == Idle \in Tasks /\ Off \subseteq Jobs /\ Resting \in Off /\ Dead \in Off
  BY StepsNamed DEF Idle, Off, Resting, Dead, Tasks, Jobs

(* Counting an event keeps the counters natural numbers.                   *)
LEMMA SpendTypes ==
    ASSUME spent \in [EventKinds -> Nat], NEW k \in EventKinds, Spend(k)
    PROVE  spent' \in [EventKinds -> Nat]
  BY DEF Spend

(* A handler that moves to another step is well typed.                     *)
LEMMA TaskMoves ==
    ASSUME task \in [Handlers -> Tasks], NEW h \in Handlers, NEW s \in TaskSteps
    PROVE  [task EXCEPT ![h].at = s] \in [Handlers -> Tasks]
  BY DEF Tasks

(* So is a closer.                                                         *)
LEMMA JobMoves ==
    ASSUME job \in [Closers -> Jobs], NEW c \in Closers, NEW s \in JobSteps
    PROVE  [job EXCEPT ![c].at = s] \in [Closers -> Jobs]
  BY DEF Jobs

(* A handler that moves and takes a vote is well typed, and keeps its      *)
(* issue.                                                                  *)
LEMMA TaskTakes ==
    ASSUME task \in [Handlers -> Tasks], NEW h \in Handlers, NEW s \in TaskSteps,
           NEW v \in Votes, task' = [task EXCEPT ![h] = Taking(h, s, v)]
    PROVE  /\ task' \in [Handlers -> Tasks]
           /\ \A g \in Handlers \ {h} : task'[g] = task[g]
           /\ task'[h].at = s /\ task'[h].vote = v /\ task'[h].issue = task[h].issue
  BY DEF Taking, Tasks

(* A closer that has the results of its vote.                              *)
LEMMA JobTakes ==
    ASSUME job \in [Closers -> Jobs], NEW c \in Closers, NEW s \in JobSteps,
           NEW o \in Outcomes, job' = [job EXCEPT ![c].at = s, ![c].outcome = o]
    PROVE  /\ job' \in [Closers -> Jobs]
           /\ \A d \in Closers \ {c} : job'[d] = job[d]
           /\ job'[c].at = s /\ job'[c].outcome = o /\ job'[c].vote = job[c].vote
<1>1. job[c] \in Jobs
  OBVIOUS
<1>2. job'[c] = [[job[c] EXCEPT !.at = s] EXCEPT !.outcome = o]
  OBVIOUS
<1>3. [job[c] EXCEPT !.at = s] \in Jobs
  BY <1>1 DEF Jobs
<1>4. /\ job'[c] \in Jobs
      /\ job'[c].at = s /\ job'[c].outcome = o /\ job'[c].vote = job[c].vote
  BY <1>1, <1>2, <1>3 DEF Jobs
<1>5. \A d \in Closers \ {c} : job'[d] = job[d]
  OBVIOUS
<1>6. job' \in [Closers -> Jobs]
  BY <1>4, <1>5
<1> QED
  BY <1>4, <1>5, <1>6

(* Whether its call is answered or not, one handler moves, and is well     *)
(* typed.                                                                  *)
LEMMA AnsweredMoves ==
    ASSUME TypeOK, NEW h \in Handlers, NEW s \in TaskSteps, Answered(h, s)
    PROVE  /\ task' \in [Handlers -> Tasks] /\ spent' \in [EventKinds -> Nat]
           /\ \A g \in Handlers \ {h} : task'[g] = task[g]
           /\ task'[h] \in {Idle, [task[h] EXCEPT !.at = s]}
  BY TaskMoves, RestTypes, SpendTypes, StepsNamed DEF Answered, TypeOK

(* It is idle, or at the next step of the same command.                    *)
LEMMA AnsweredAt ==
    ASSUME TypeOK, NEW h \in Handlers, NEW s \in TaskSteps, Answered(h, s)
    PROVE  \/ task'[h] = Idle
           \/ /\ task'[h].at = s
              /\ task'[h].issue = task[h].issue /\ task'[h].vote = task[h].vote
<1>1. task[h] \in Tasks
  BY DEF TypeOK
<1>2. CASE task' = [task EXCEPT ![h].at = s]
  BY <1>1, <1>2 DEF TypeOK, Tasks
<1>3. CASE task' = [task EXCEPT ![h] = Idle]
  BY <1>3 DEF TypeOK
<1> QED
  BY <1>2, <1>3 DEF Answered

(* The same for a closer.                                                  *)
LEMMA ReportedMoves ==
    ASSUME TypeOK, NEW c \in Closers, NEW s \in JobSteps, Reported(c, s)
    PROVE  /\ job' \in [Closers -> Jobs] /\ spent' \in [EventKinds -> Nat]
           /\ \A d \in Closers \ {c} : job'[d] = job[d]
           /\ job'[c] \in {Resting, [job[c] EXCEPT !.at = s]}
  BY JobMoves, RestTypes, SpendTypes, StepsNamed DEF Reported, TypeOK

(* It rests, or is at the next step with the same vote and outcome.        *)
LEMMA ReportedAt ==
    ASSUME TypeOK, NEW c \in Closers, NEW s \in JobSteps, Reported(c, s)
    PROVE  \/ job'[c] = Resting
           \/ /\ job'[c].at = s
              /\ job'[c].vote = job[c].vote /\ job'[c].outcome = job[c].outcome
<1>1. job[c] \in Jobs
  BY DEF TypeOK
<1>2. CASE job' = [job EXCEPT ![c].at = s]
  BY <1>1, <1>2 DEF TypeOK, Jobs
<1>3. CASE job' = [job EXCEPT ![c] = Resting]
  BY <1>3 DEF TypeOK
<1> QED
  BY <1>2, <1>3 DEF Reported

(* Removing a label leaves labels of GitVote.                              *)
LEMMA RemoveLabelTypes ==
    ASSUME TypeOK, NEW i, NEW l, RemoveLabel(i, l)
    PROVE  labels' \in [Issues -> SUBSET Labels] /\ spent' \in [EventKinds -> Nat]
  BY SpendTypes, StepsNamed DEF RemoveLabel, TypeOK

----------------------------------------------------------------------------
(* The types hold together with what each worker knows of its vote.        *)
TypeInv == TypeOK /\ WorkersWellFormed

(* A handler that ends its command, or goes on without taking a vote.      *)
LEMMA HandlerGoesOn ==
    ASSUME TypeOK, WorkersWellFormed, NEW h \in Handlers, job' = job,
           \A g \in Handlers \ {h} : task'[g] = task[g],
           \/ task'[h] = Idle
           \/ /\ task[h].at # "idle"
              /\ task'[h].at \notin {"idle", "store_vote", "post_cancelled"}
              /\ task'[h].issue = task[h].issue
    PROVE  WorkersWellFormed'
<1>1. TaskOK(task[h])
  BY DEF WorkersWellFormed
<1>2. TaskOK(task'[h])
  BY <1>1 DEF TaskOK, Idle
<1> QED
  BY <1>2 DEF WorkersWellFormed

(* A closer that rests, or goes on reporting its vote.                     *)
LEMMA CloserGoesOn ==
    ASSUME TypeOK, WorkersWellFormed, NEW c \in Closers, task' = task,
           \A d \in Closers \ {c} : job'[d] = job[d],
           \/ job'[c] = Resting
           \/ /\ job[c].at \in ReportSteps \cup {"store_results"}
              /\ job'[c].at \in ReportSteps
              /\ job'[c].vote = job[c].vote /\ job'[c].outcome = job[c].outcome
              /\ job'[c].at = "post_closed" => job[c].outcome # "missing"
    PROVE  WorkersWellFormed'
<1>1. job[c] \in Jobs /\ JobOK(job[c])
  BY DEF TypeOK, WorkersWellFormed
<1>2. JobOK(job'[c])
  BY <1>1 DEF JobOK, Jobs, Resting, TxSteps, ReportSteps
<1> QED
  BY <1>2 DEF WorkersWellFormed

(* Every action keeps the types, and hands the workers what their next     *)
(* step needs.                                                             *)
LEMMA TypeInvStep == TypeInv /\ [Next]_vars => TypeInv'
<1> SUFFICES ASSUME TypeInv, [Next]_vars PROVE TypeOK' /\ WorkersWellFormed'
  BY DEF TypeInv
<1> USE ProcessorAssumption, StepsNamed, RestTypes, SpendTypes
    DEF TypeInv, TypeOK, vars, dbVars, ghVars
<1>1. ASSUME NEW h \in Handlers, NEW i \in Issues, ReceiveCreate(h, i) PROVE TypeOK' /\ WorkersWellFormed'
  <2>1. TypeOK'
    BY <1>1 DEF ReceiveCreate, Tasks
  <2>2. WorkersWellFormed'
    BY <1>1 DEF ReceiveCreate, WorkersWellFormed, TaskOK
  <2> QED
    BY <2>1, <2>2
<1>2. ASSUME NEW h \in Handlers, NEW i \in Issues, ReceiveCancel(h, i) PROVE TypeOK' /\ WorkersWellFormed'
  <2>1. TypeOK'
    BY <1>2 DEF ReceiveCancel, Tasks
  <2>2. WorkersWellFormed'
    BY <1>2 DEF ReceiveCancel, WorkersWellFormed, TaskOK
  <2> QED
    BY <2>1, <2>2
<1>3. ASSUME NEW h \in Handlers, HasVoteOpen(h) PROVE TypeOK' /\ WorkersWellFormed'
  <2>1. TypeOK'
    BY <1>3 DEF HasVoteOpen, Tasks
  <2>2. WorkersWellFormed'
    BY <1>3, HandlerGoesOn DEF HasVoteOpen
  <2> QED
    BY <2>1, <2>2
<1>4. ASSUME NEW h \in Handlers, PostCreated(h) PROVE TypeOK' /\ WorkersWellFormed'
  <2>1. PICK v \in Votes :
            /\ status' = [status EXCEPT ![v] = "posted"]
            /\ issueOf' = [issueOf EXCEPT ![v] = task[h].issue]
            /\ \/ task' = [task EXCEPT ![h] = Taking(h, "store_vote", v)] /\ UNCHANGED spent
               \/ Spend("fault") /\ task' = [task EXCEPT ![h] = Idle]
    BY <1>4 DEF PostCreated
  <2>2. task[h].at = "post_created" /\ UNCHANGED <<due, result, lock, ghVars, job>>
    BY <1>4 DEF PostCreated
  <2>3. TypeOK'
    <3>1. task' \in [Handlers -> Tasks]
      BY <2>1 DEF Taking, Tasks
    <3>2. /\ status' \in [Votes -> Statuses]
          /\ issueOf' \in [Votes -> Issues \cup {None}]
      BY <2>1, <2>2 DEF Statuses, Tasks
    <3> QED
      BY <2>1, <2>2, <3>1, <3>2
  <2>4. CASE task' = [task EXCEPT ![h] = Taking(h, "store_vote", v)]
    <3>1. /\ task'[h].at = "store_vote" /\ task'[h].vote = v /\ task'[h].issue = task[h].issue
          /\ \A g \in Handlers \ {h} : task'[g] = task[g]
      BY <2>4, TaskTakes
    <3>2. TaskOK(task[h])'
      BY <2>2, <3>1 DEF WorkersWellFormed, TaskOK
    <3> QED
      BY <2>2, <2>3, <3>1, <3>2 DEF WorkersWellFormed, TaskOK, JobOK
  <2>5. CASE task' = [task EXCEPT ![h] = Idle]
    BY <2>2, <2>3, <2>5 DEF WorkersWellFormed, TaskOK, JobOK, Idle
  <2> QED
    BY <2>1, <2>3, <2>4, <2>5
<1>5. ASSUME NEW h \in Handlers, StoreVote(h) PROVE TypeOK' /\ WorkersWellFormed'
  <2>1. TypeOK'
    BY <1>5, AnsweredMoves DEF StoreVote, Statuses
  <2>2. PICK s \in {"create_check", "remove_closed"} : Answered(h, s)
    BY <1>5 DEF StoreVote
  <2>3. task[h].at # "idle" /\ UNCHANGED job
    BY <1>5 DEF StoreVote
  <2>4. WorkersWellFormed'
    BY <2>2, <2>3, AnsweredMoves, AnsweredAt, HandlerGoesOn
  <2> QED
    BY <2>1, <2>4
<1>6. ASSUME NEW h \in Handlers, CreateCheck(h) PROVE TypeOK' /\ WorkersWellFormed'
  <2>1. TypeOK'
    BY <1>6, AnsweredMoves DEF CreateCheck, Checks
  <2>2. PICK s \in {"remove_closed"} : Answered(h, s)
    BY <1>6 DEF CreateCheck
  <2>3. task[h].at # "idle" /\ UNCHANGED job
    BY <1>6 DEF CreateCheck
  <2>4. WorkersWellFormed'
    BY <2>2, <2>3, AnsweredMoves, AnsweredAt, HandlerGoesOn
  <2> QED
    BY <2>1, <2>4
<1>7. ASSUME NEW h \in Handlers, RemoveOldLabels(h) PROVE TypeOK' /\ WorkersWellFormed'
  <2>1. TypeOK'
    BY <1>7, RemoveLabelTypes, TaskMoves DEF RemoveOldLabels, RemoveOldLabel
  <2>2. /\ task[h].at \in {"remove_closed", "remove_passed", "remove_failed"}
        /\ \E s \in {"remove_passed", "remove_failed", "add_labels"} :
              task' = [task EXCEPT ![h].at = s]
        /\ UNCHANGED job
    BY <1>7 DEF RemoveOldLabels, RemoveOldLabel
  <2>3. /\ task'[h].at \in {"remove_passed", "remove_failed", "add_labels"}
        /\ task'[h].issue = task[h].issue
        /\ \A g \in Handlers \ {h} : task'[g] = task[g]
    BY <2>2 DEF Tasks
  <2>4. WorkersWellFormed'
    BY <2>2, <2>3, HandlerGoesOn
  <2> QED
    BY <2>1, <2>4
<1>8. ASSUME NEW h \in Handlers, AddOpenLabels(h) PROVE TypeOK' /\ WorkersWellFormed'
  <2>1. TypeOK'
    BY <1>8 DEF AddOpenLabels, Labels
  <2>2. WorkersWellFormed'
    BY <1>8, HandlerGoesOn DEF AddOpenLabels
  <2> QED
    BY <2>1, <2>2
<1>9. ASSUME NEW h \in Handlers, CancelVote(h) PROVE TypeOK' /\ WorkersWellFormed'
  <2>1. /\ status' = [v \in Votes |-> IF v \in OpenVotesOn(task[h].issue)
                                       THEN "cancelled" ELSE status[v]]
        /\ UNCHANGED <<issueOf, due, result, lock, ghVars, job>>
        /\ task[h].at = "cancel_vote"
    BY <1>9 DEF CancelVote
  <2>2. /\ \/ task' = [task EXCEPT ![h] = Idle]
           \/ \E v \in Votes :
                 task' = [task EXCEPT ![h] = Taking(h, "post_cancelled", v)]
        /\ UNCHANGED spent \/ Spend("fault")
    BY <1>9 DEF CancelVote
  <2>3. status' \in [Votes -> Statuses] /\ spent' \in [EventKinds -> Nat]
    BY <2>1, <2>2 DEF Statuses
  <2>4. CASE task' = [task EXCEPT ![h] = Idle]
    BY <2>1, <2>3, <2>4 DEF WorkersWellFormed, TaskOK, JobOK, Idle
  <2>5. ASSUME NEW v \in Votes, task' = [task EXCEPT ![h] = Taking(h, "post_cancelled", v)]
        PROVE TypeOK' /\ WorkersWellFormed'
    <3>1. /\ task' \in [Handlers -> Tasks]
          /\ task'[h].at = "post_cancelled" /\ task'[h].vote = v
          /\ task'[h].issue = task[h].issue
          /\ \A g \in Handlers \ {h} : task'[g] = task[g]
      BY <2>5, TaskTakes
    <3>2. TaskOK(task[h])'
      BY <2>1, <3>1 DEF WorkersWellFormed, TaskOK
    <3> QED
      BY <2>1, <2>3, <3>1, <3>2 DEF WorkersWellFormed, TaskOK, JobOK
  <2> QED
    BY <2>2, <2>4, <2>5
<1>10. ASSUME NEW h \in Handlers, PostCancelled(h) PROVE TypeOK' /\ WorkersWellFormed'
  <2>1. TypeOK'
    BY <1>10, AnsweredMoves DEF PostCancelled, Tasks, WorkersWellFormed, TaskOK
  <2>2. PICK s \in {"cancel_check", "cancel_unlabel"} : Answered(h, s)
    BY <1>10 DEF PostCancelled
  <2>3. task[h].at = "post_cancelled" /\ UNCHANGED job
    BY <1>10 DEF PostCancelled
  <2>4. WorkersWellFormed'
    BY <2>2, <2>3, AnsweredMoves, AnsweredAt, HandlerGoesOn
  <2> QED
    BY <2>1, <2>4
<1>11. ASSUME NEW h \in Handlers, CancelCheck(h) PROVE TypeOK' /\ WorkersWellFormed'
  <2>1. TypeOK'
    BY <1>11, AnsweredMoves DEF CancelCheck, Checks
  <2>2. PICK s \in {"cancel_unlabel"} : Answered(h, s)
    BY <1>11 DEF CancelCheck
  <2>3. task[h].at # "idle" /\ UNCHANGED job
    BY <1>11 DEF CancelCheck
  <2>4. WorkersWellFormed'
    BY <2>2, <2>3, AnsweredMoves, AnsweredAt, HandlerGoesOn
  <2> QED
    BY <2>1, <2>4
<1>12. ASSUME NEW h \in Handlers, CancelUnlabel(h) PROVE TypeOK' /\ WorkersWellFormed'
  <2>1. TypeOK'
    BY <1>12, RemoveLabelTypes DEF CancelUnlabel
  <2>2. WorkersWellFormed'
    BY <1>12, HandlerGoesOn DEF CancelUnlabel
  <2> QED
    BY <2>1, <2>2
<1>13. ASSUME NEW h \in Handlers, HandlerCallFails(h) PROVE TypeOK' /\ WorkersWellFormed'
  <2>1. TypeOK'
    BY <1>13 DEF HandlerCallFails
  <2>2. WorkersWellFormed'
    BY <1>13, HandlerGoesOn DEF HandlerCallFails
  <2> QED
    BY <2>1, <2>2
<1>14. ASSUME NEW c \in Closers, NEW v \in Votes, Pick(c, v) PROVE TypeOK' /\ WorkersWellFormed'
  <2>1. TypeOK'
    BY <1>14 DEF Pick, Jobs
  <2>2. WorkersWellFormed'
    BY <1>14 DEF Pick, WorkersWellFormed, JobOK, ReportSteps
  <2> QED
    BY <2>1, <2>2
<1>15. ASSUME NEW c \in Closers, Calculate(c) PROVE TypeOK' /\ WorkersWellFormed'
  <2>1. /\ \/ \E o \in Outcomes :
                 /\ job' = [job EXCEPT ![c].at = "store_results", ![c].outcome = o]
                 /\ UNCHANGED lock
           \/ /\ \E off \in Off : job' = [job EXCEPT ![c] = off]
              /\ lock' = [lock EXCEPT ![job[c].vote] = None]
        /\ UNCHANGED <<status, issueOf, due, result, ghVars, task, spent>>
        /\ job[c].at = "calculate"
    BY <1>15 DEF Calculate, Off
  <2>2. lock' \in [Votes -> Closers \cup {None}]
    BY <2>1
  <2>3. ASSUME NEW off \in Off, job' = [job EXCEPT ![c] = off]
        PROVE TypeOK' /\ WorkersWellFormed'
    <3>1. JobOK(off) /\ off \in Jobs
      BY RestTypes, StepsNamed DEF JobOK, Off, Resting, Dead, TxSteps, ReportSteps
    <3> QED
      BY <2>1, <2>2, <2>3, <3>1 DEF WorkersWellFormed, TaskOK, JobOK
  <2>4. ASSUME NEW o \in Outcomes, job' = [job EXCEPT ![c].at = "store_results", ![c].outcome = o]
        PROVE TypeOK' /\ WorkersWellFormed'
    <3>1. /\ job' \in [Closers -> Jobs]
          /\ job'[c].at = "store_results" /\ job'[c].outcome = o
          /\ job'[c].vote = job[c].vote
          /\ \A d \in Closers \ {c} : job'[d] = job[d]
      BY <2>4, JobTakes
    <3>2. JobOK(job[c])'
      BY <2>1, <3>1 DEF WorkersWellFormed, JobOK, TxSteps, ReportSteps
    <3> QED
      BY <2>1, <2>2, <3>1, <3>2 DEF WorkersWellFormed, TaskOK, JobOK
  <2> QED
    BY <2>1, <2>3, <2>4
<1>16. ASSUME NEW c \in Closers, StoreResults(c) PROVE TypeOK' /\ WorkersWellFormed'
  <2>1. TypeOK'
    BY <1>16, ReportedMoves DEF StoreResults, AfterPost, Statuses, Jobs
  <2>2. PICK s \in {"post_closed", "close_check", "close_unlabel"} :
            /\ Reported(c, s)
            /\ s = "post_closed" => job[c].outcome # "missing"
    BY <1>16 DEF StoreResults, AfterPost
  <2>3. job[c].at \in ReportSteps \cup {"store_results"} /\ UNCHANGED task
    BY <1>16 DEF StoreResults, ReportSteps
  <2>4. WorkersWellFormed'
    BY <2>2, <2>3, ReportedMoves, ReportedAt, CloserGoesOn DEF ReportSteps
  <2> QED
    BY <2>1, <2>4
<1>17. ASSUME NEW c \in Closers, PostClosed(c) PROVE TypeOK' /\ WorkersWellFormed'
  <2>1. TypeOK'
    BY <1>17, ReportedMoves DEF PostClosed, AfterPost, WorkersWellFormed, JobOK, TxSteps, ReportSteps
  <2>2. PICK s \in {"close_check", "close_unlabel"} : Reported(c, s)
    BY <1>17 DEF PostClosed, AfterPost
  <2>3. job[c].at \in ReportSteps \cup {"store_results"} /\ UNCHANGED task
    BY <1>17 DEF PostClosed, ReportSteps
  <2>4. WorkersWellFormed'
    BY <2>2, <2>3, ReportedMoves, ReportedAt, CloserGoesOn DEF ReportSteps
  <2> QED
    BY <2>1, <2>4
<1>18. ASSUME NEW c \in Closers, CloseCheck(c) PROVE TypeOK' /\ WorkersWellFormed'
  <2>1. TypeOK'
    BY <1>18, ReportedMoves DEF CloseCheck, Checks
  <2>2. Reported(c, "close_unlabel") /\ job[c].at \in ReportSteps /\ UNCHANGED task
    BY <1>18 DEF CloseCheck, ReportSteps
  <2>3. WorkersWellFormed'
    BY <2>2, ReportedMoves, ReportedAt, CloserGoesOn DEF ReportSteps
  <2> QED
    BY <2>1, <2>3
<1>19. ASSUME NEW c \in Closers, CloseUnlabel(c) PROVE TypeOK' /\ WorkersWellFormed'
  <2>1. TypeOK'
    BY <1>19, RemoveLabelTypes, JobMoves DEF CloseUnlabel
  <2>2. WorkersWellFormed'
    BY <1>19, CloserGoesOn DEF CloseUnlabel, ReportSteps
  <2> QED
    BY <2>1, <2>2
<1>20. ASSUME NEW c \in Closers, CloseLabel(c) PROVE TypeOK' /\ WorkersWellFormed'
  <2>1. TypeOK'
    BY <1>20 DEF CloseLabel, Labels, WorkersWellFormed, JobOK, ReportSteps
  <2>2. WorkersWellFormed'
    BY <1>20, CloserGoesOn DEF CloseLabel
  <2> QED
    BY <2>1, <2>2
<1>21. ASSUME NEW c \in Closers, CloserCallFails(c) PROVE TypeOK' /\ WorkersWellFormed'
  <2>1. TypeOK'
    BY <1>21 DEF CloserCallFails
  <2>2. WorkersWellFormed'
    BY <1>21, CloserGoesOn DEF CloserCallFails
  <2> QED
    BY <2>1, <2>2
<1>22. ASSUME NEW v \in Votes, TimeUp(v) PROVE TypeOK' /\ WorkersWellFormed'
  <2>1. TypeOK'
    BY <1>22 DEF TimeUp
  <2>2. WorkersWellFormed'
    BY <1>22 DEF TimeUp, WorkersWellFormed
  <2> QED
    BY <2>1, <2>2
<1>23. CASE Crash
  BY <1>23 DEF Crash, WorkersWellFormed, TaskOK, JobOK, Idle, Resting, TxSteps, ReportSteps
<1>24. CASE UNCHANGED vars
  BY <1>24 DEF WorkersWellFormed, TaskOK, JobOK
<1> QED
  BY <1>1, <1>2, <1>3, <1>4, <1>5, <1>6, <1>7, <1>8, <1>9, <1>10, <1>11, <1>12, <1>13, <1>14, <1>15, <1>16, <1>17, <1>18, <1>19, <1>20, <1>21, <1>22, <1>23, <1>24
  DEF Next, HandlerStep, CloserStep, Rest


----------------------------------------------------------------------------
(* What the workers remember agrees with the database.                     *)

(* The parts of ProcessorInv besides the workers' own shape.               *)
AgreeInv ==
    LocksHeld /\ ReportsCommitted /\ PostedOnce /\ StoredAsPosted /\ ClosedWithResult

(* A handler that changes neither the database nor what is published.      *)
LEMMA HandlerFrame ==
    ASSUME AgreeInv, NEW h \in Handlers,
           UNCHANGED <<dbVars, published, announced, job>>,
           \A g \in Handlers \ {h} : task'[g] = task[g],
           task'[h].at # "store_vote"
    PROVE  AgreeInv'
<1>1. LocksHeld' /\ ReportsCommitted' /\ PostedOnce' /\ ClosedWithResult'
  BY DEF AgreeInv, LocksHeld, ReportsCommitted, PostedOnce, ClosedWithResult, dbVars
<1>2. StoredAsPosted'
  BY DEF AgreeInv, StoredAsPosted, dbVars
<1> QED
  BY <1>1, <1>2 DEF AgreeInv

(* A closer that goes on with, or ends, the report of its vote.            *)
LEMMA ReportFrame ==
    ASSUME AgreeInv, NEW c \in Closers,
           UNCHANGED <<dbVars, published, announced, task>>,
           job[c].at \in ReportSteps,
           \A d \in Closers \ {c} : job'[d] = job[d],
           \/ job'[c] = Resting
           \/ /\ job'[c].at \in ReportSteps \ {"post_closed"}
              /\ job'[c].vote = job[c].vote /\ job'[c].outcome = job[c].outcome
    PROVE  AgreeInv'
<1>1. LocksHeld'
  BY DEF AgreeInv, LocksHeld, dbVars, TxSteps, ReportSteps, Resting
<1>2. ReportsCommitted'
  BY ProcessorAssumption DEF AgreeInv, ReportsCommitted, dbVars, ReportSteps, Resting
<1>3. PostedOnce' /\ StoredAsPosted' /\ ClosedWithResult'
  BY DEF AgreeInv, PostedOnce, StoredAsPosted, ClosedWithResult, dbVars, Resting
<1> QED
  BY <1>1, <1>2, <1>3 DEF AgreeInv

(* A comment without a row disturbs nothing: its vote is a new one.        *)
LEMMA PostCreatedAgrees ==
    ASSUME TypeInv, AgreeInv, NEW h \in Handlers, PostCreated(h)
    PROVE  AgreeInv'
<1>1. PICK v \in Votes :
          /\ status[v] = "none"
          /\ status' = [status EXCEPT ![v] = "posted"]
          /\ issueOf' = [issueOf EXCEPT ![v] = task[h].issue]
          /\ \/ task' = [task EXCEPT ![h] = Taking(h, "store_vote", v)]
             \/ task' = [task EXCEPT ![h] = Idle]
  BY DEF PostCreated
<1>2. task[h].at = "post_created" /\ UNCHANGED <<due, result, lock, ghVars, job>>
  BY DEF PostCreated
<1>3. task[h].issue \in Issues
  BY <1>2 DEF TypeInv, WorkersWellFormed, TaskOK
<1> USE <1>1, <1>2, <1>3 DEF TypeInv, TypeOK, AgreeInv, ghVars
<1>4. LocksHeld'
  BY DEF LocksHeld
<1>5. ReportsCommitted'
  BY DEF ReportsCommitted, WorkersWellFormed, JobOK, ReportSteps
<1>6. PostedOnce' /\ ClosedWithResult'
  BY DEF PostedOnce, ClosedWithResult
<1>7. StoredAsPosted'
  BY DEF StoredAsPosted, Taking, Idle, WorkersWellFormed, TaskOK
<1> QED
  BY <1>4, <1>5, <1>6, <1>7

(* The row stored is the one of the comment the handler posted.            *)
LEMMA StoreVoteAgrees ==
    ASSUME TypeInv, AgreeInv, NEW h \in Handlers, StoreVote(h)
    PROVE  AgreeInv'
<1>1. /\ task[h].at = "store_vote"
      /\ status' = [status EXCEPT ![task[h].vote] = "open"]
      /\ UNCHANGED <<issueOf, due, result, lock, ghVars, job>>
  BY DEF StoreVote
<1>2. task[h].vote \in Votes /\ status[task[h].vote] = "posted"
  BY <1>1 DEF TypeInv, WorkersWellFormed, TaskOK, AgreeInv, StoredAsPosted
<1>3. PICK s \in {"create_check", "remove_closed"} : Answered(h, s)
  BY DEF StoreVote
<1>4. /\ \A g \in Handlers \ {h} : task'[g] = task[g]
      /\ task'[h] \in {Idle, [task[h] EXCEPT !.at = s]}
  BY <1>3, AnsweredMoves, StepsNamed DEF TypeInv
<1>5. task'[h].at # "store_vote"
  BY <1>4 DEF Idle, TypeInv, TypeOK, Tasks
<1> USE <1>1, <1>2 DEF TypeInv, TypeOK, AgreeInv, ghVars
<1>6. LocksHeld'
  BY DEF LocksHeld
<1>7. ReportsCommitted'
  BY DEF ReportsCommitted, WorkersWellFormed, JobOK, ReportSteps
<1>8. PostedOnce' /\ ClosedWithResult'
  BY DEF PostedOnce, ClosedWithResult
<1>9. StoredAsPosted'
  BY <1>4, <1>5 DEF StoredAsPosted, WorkersWellFormed, TaskOK
<1> QED
  BY <1>6, <1>7, <1>8, <1>9

(* The rows deleted are open and unlocked: no closer works on them.        *)
LEMMA CancelVoteAgrees ==
    ASSUME TypeInv, AgreeInv, NEW h \in Handlers, CancelVote(h)
    PROVE  AgreeInv'
<1> DEFINE S == OpenVotesOn(task[h].issue)
<1>1. /\ \A v \in S : lock[v] = None /\ status[v] = "open"
      /\ status' = [v \in Votes |-> IF v \in S THEN "cancelled" ELSE status[v]]
      /\ UNCHANGED <<issueOf, due, result, lock, ghVars, job>>
      /\ \/ task' = [task EXCEPT ![h] = Idle]
         \/ \E v \in Votes : task' = [task EXCEPT ![h] = Taking(h, "post_cancelled", v)]
  BY DEF CancelVote, OpenVotesOn
<1>2. /\ \A g \in Handlers \ {h} : task'[g] = task[g]
      /\ task'[h].at # "store_vote"
  BY <1>1 DEF TypeInv, TypeOK, Idle, Taking
<1> HIDE DEF S
<1> USE <1>1 DEF TypeInv, TypeOK, AgreeInv, ghVars
<1>3. LocksHeld'
  BY DEF LocksHeld
<1>4. ReportsCommitted'
  BY DEF ReportsCommitted, WorkersWellFormed, JobOK, ReportSteps
<1>5. PostedOnce' /\ ClosedWithResult'
  BY DEF PostedOnce, ClosedWithResult
<1>6. StoredAsPosted'
  BY <1>2 DEF StoredAsPosted, WorkersWellFormed, TaskOK
<1> QED
  BY <1>3, <1>4, <1>5, <1>6

(* The vote picked is open and unlocked: no other closer works on it.      *)
LEMMA PickAgrees ==
    ASSUME TypeInv, AgreeInv, NEW c \in Closers, NEW v \in Votes, Pick(c, v)
    PROVE  AgreeInv'
<1> USE DEF TypeInv, TypeOK, AgreeInv, ghVars
<1>1. /\ job[c] = Resting
      /\ status[v] = "open" /\ due[v] /\ lock[v] = None
      /\ lock' = [lock EXCEPT ![v] = c]
      /\ job' = [job EXCEPT ![c] = [at |-> "calculate", vote |-> v, outcome |-> "none"]]
      /\ UNCHANGED <<status, issueOf, due, result, ghVars, task>>
  BY DEF Pick, PendingFinished
<1>2. \A d \in Closers : job[d].vote # v
  <2> SUFFICES ASSUME NEW d \in Closers, job[d].vote = v PROVE FALSE
    OBVIOUS
  <2>1. job[d].at \in TxSteps \cup ReportSteps
    BY ProcessorAssumption DEF WorkersWellFormed, JobOK, Jobs, JobSteps, Resting, Dead
  <2>2. CASE job[d].at \in TxSteps
    BY <1>1, <2>2, ProcessorAssumption DEF LocksHeld
  <2>3. CASE job[d].at \in ReportSteps
    BY <1>1, <2>3 DEF ReportsCommitted
  <2> QED
    BY <2>1, <2>2, <2>3
<1>3. LocksHeld'
  BY <1>1, ProcessorAssumption DEF LocksHeld, TxSteps, Resting
<1>4. ReportsCommitted'
  BY <1>1, <1>2 DEF ReportsCommitted, ReportSteps
<1>5. PostedOnce' /\ ClosedWithResult' /\ StoredAsPosted'
  BY <1>1 DEF PostedOnce, ClosedWithResult, StoredAsPosted
<1> QED
  BY <1>3, <1>4, <1>5

(* A closer that has the results keeps its lock; one that failed to        *)
(* calculate them holds none.                                              *)
LEMMA CalculateAgrees ==
    ASSUME TypeInv, AgreeInv, NEW c \in Closers, Calculate(c)
    PROVE  AgreeInv'
<1> USE DEF TypeInv, TypeOK, AgreeInv, ghVars
<1>1. /\ job[c].at = "calculate" /\ job[c] # Resting
      /\ UNCHANGED <<status, issueOf, due, result, ghVars, task>>
  BY DEF Calculate, Resting
<1>2. job[c].vote \in Votes
  BY <1>1 DEF WorkersWellFormed, JobOK, TxSteps, ReportSteps
<1>3. CASE lock' = lock /\ \E o \in Outcomes :
              job' = [job EXCEPT ![c].at = "store_results", ![c].outcome = o]
  <2>1. /\ job'[c].at = "store_results" /\ job'[c].vote = job[c].vote
        /\ \A d \in Closers \ {c} : job'[d] = job[d]
    <3>1. PICK o \in Outcomes :
              job' = [job EXCEPT ![c].at = "store_results", ![c].outcome = o]
      BY <1>3
    <3> QED
      BY <3>1, JobTakes, StepsNamed
  <2>2. LocksHeld'
    BY <1>1, <1>3, <2>1 DEF LocksHeld, TxSteps
  <2>3. ReportsCommitted'
    BY <1>1, <2>1 DEF ReportsCommitted, ReportSteps, Resting
  <2>4. PostedOnce' /\ ClosedWithResult' /\ StoredAsPosted'
    BY <1>1, <2>1 DEF PostedOnce, ClosedWithResult, StoredAsPosted
  <2> QED
    BY <2>2, <2>3, <2>4
<1>4. ASSUME NEW off \in Off, job' = [job EXCEPT ![c] = off],
             lock' = [lock EXCEPT ![job[c].vote] = None]
      PROVE  AgreeInv'
  <2>1. off.at \in {"resting", "dead"} /\ off.vote = None
    BY DEF Off, Resting, Dead
  <2>2. LocksHeld'
    BY <1>1, <1>2, <1>4, <2>1, ProcessorAssumption DEF LocksHeld, TxSteps
  <2>3. ReportsCommitted'
    BY <1>1, <1>4, <2>1, ProcessorAssumption DEF ReportsCommitted, ReportSteps
  <2>4. PostedOnce' /\ ClosedWithResult' /\ StoredAsPosted'
    BY <1>1, <1>4, <2>1 DEF PostedOnce, ClosedWithResult, StoredAsPosted
  <2> QED
    BY <2>2, <2>3, <2>4
<1> QED
  BY <1>3, <1>4, RestTypes DEF Calculate

(* The results committed are those the closer goes on to report, and they  *)
(* have not been posted: the vote was open until now.                      *)
LEMMA StoreResultsAgrees ==
    ASSUME TypeInv, AgreeInv, NEW c \in Closers, StoreResults(c)
    PROVE  AgreeInv'
<1> USE DEF TypeInv, TypeOK, AgreeInv, ghVars
<1> DEFINE v == job[c].vote
<1>1. /\ job[c].at = "store_results" /\ job[c] # Resting
      /\ status' = [status EXCEPT ![v] = "closed"]
      /\ result' = [result EXCEPT ![v] = job[c].outcome]
      /\ lock' = [lock EXCEPT ![v] = None]
      /\ UNCHANGED <<issueOf, due, ghVars, task>>
  BY DEF StoreResults, Resting
<1>2. v \in Votes /\ job[c].outcome \in Outcomes
  BY <1>1 DEF WorkersWellFormed, JobOK, TxSteps, ReportSteps
<1>3. lock[v] = c /\ status[v] = "open"
  BY <1>1, <1>2, ProcessorAssumption DEF LocksHeld, TxSteps
<1>4. PICK s \in {"post_closed", "close_check", "close_unlabel"} :
          /\ Reported(c, s)
          /\ s = "post_closed" => job[c].outcome # "missing"
  BY DEF StoreResults, AfterPost
<1>5. /\ \A d \in Closers \ {c} : job'[d] = job[d]
      /\ job'[c] \in {Resting, [job[c] EXCEPT !.at = s]}
  BY <1>4, ReportedMoves, StepsNamed
<1>6. \/ job'[c] = Resting
      \/ job'[c].at = s /\ job'[c].vote = v /\ job'[c].outcome = job[c].outcome
  BY <1>5 DEF Jobs
<1>7. \A d \in Closers \ {c} : job[d].vote # v
  BY <1>1, <1>2 DEF ReportsCommitted
<1>8. published[v] = 0 /\ v \notin announced
  BY <1>2, <1>3 DEF PostedOnce, ClosedWithResult
<1> HIDE DEF v
<1>9. LocksHeld'
  <2>1. job'[c].at \notin TxSteps
    BY <1>6 DEF TxSteps, Resting
  <2>2. \A d \in Closers \ {c} : job[d].at \in TxSteps => job[d] # Resting
    BY DEF TxSteps, Resting
  <2> QED
    BY <1>1, <1>2, <1>3, <1>5, <1>7, <2>1, <2>2, ProcessorAssumption DEF LocksHeld, v
<1>10. ReportsCommitted'
  <2>1. \A d \in Closers : job'[d].at \in ReportSteps =>
            status'[job'[d].vote] = "closed" /\ result'[job'[d].vote] = job'[d].outcome
    <3>1. job'[c].at \in ReportSteps =>
              status'[job'[c].vote] = "closed" /\ result'[job'[c].vote] = job'[c].outcome
      BY <1>1, <1>2, <1>6 DEF ReportSteps, Resting
    <3>2. \A d \in Closers \ {c} : job[d].at \in ReportSteps =>
              job[d].vote \in Votes /\ job[d].vote # v
      BY <1>7 DEF ReportSteps, Resting, WorkersWellFormed, JobOK
    <3> QED
      BY <1>1, <1>5, <3>1, <3>2 DEF ReportsCommitted
  <2>2. \A d, e \in Closers :
            job'[d].vote \in Votes /\ job'[d].vote = job'[e].vote => d = e
    BY <1>2, <1>5, <1>6, <1>7, ProcessorAssumption DEF ReportsCommitted, Resting
  <2> QED
    BY <2>1, <2>2 DEF ReportsCommitted
<1>11. PostedOnce'
  BY <1>1, <1>2, <1>5, <1>6, <1>8 DEF PostedOnce, Resting
<1>12. StoredAsPosted' /\ ClosedWithResult'
  BY <1>1, <1>2, <1>3, StepsNamed DEF StoredAsPosted, ClosedWithResult, WorkersWellFormed, TaskOK
<1> QED
  BY <1>9, <1>10, <1>11, <1>12

(* The comment is the first with these results.                            *)
LEMMA PostClosedAgrees ==
    ASSUME TypeInv, AgreeInv, NEW c \in Closers, PostClosed(c)
    PROVE  AgreeInv'
<1> USE DEF TypeInv, TypeOK, AgreeInv, ghVars
<1> DEFINE v == job[c].vote
<1>1. /\ job[c].at = "post_closed" /\ job[c] # Resting
      /\ published' = [published EXCEPT ![v] = @ + 1]
      /\ announced' \in {announced, announced \cup {v}}
      /\ UNCHANGED <<dbVars, task>>
  BY DEF PostClosed, Resting
<1>2. v \in Votes /\ job[c].outcome \in {"passed", "failed"}
  BY <1>1, StepsNamed DEF WorkersWellFormed, JobOK, ReportSteps
<1>3. published[v] = 0 /\ result[v] = job[c].outcome
  BY <1>1 DEF PostedOnce, ReportsCommitted, ReportSteps
<1>4. PICK s \in {"close_check", "close_unlabel"} : Reported(c, s)
  BY DEF PostClosed, AfterPost
<1>5. /\ \A d \in Closers \ {c} : job'[d] = job[d]
      /\ job'[c] \in {Resting, [job[c] EXCEPT !.at = s]}
  BY <1>4, ReportedMoves, StepsNamed
<1>6. \/ job'[c] = Resting
      \/ job'[c].at = s /\ job'[c].vote = v /\ job'[c].outcome = job[c].outcome
  BY <1>5 DEF Jobs
<1>7. \A d \in Closers \ {c} : job[d].vote # v
  BY <1>1, <1>2 DEF ReportsCommitted
<1> HIDE DEF v
<1>8. LocksHeld'
  BY <1>1, <1>5, <1>6 DEF LocksHeld, TxSteps, Resting, dbVars
<1>9. ReportsCommitted'
  BY <1>1, <1>2, <1>5, <1>6, <1>7, ProcessorAssumption DEF ReportsCommitted, ReportSteps, Resting, dbVars, v
<1>10. PostedOnce'
  <2>1. \A d \in Closers \ {c} : job[d].at = "post_closed" =>
            job[d].vote \in Votes /\ job[d].vote # v
    BY <1>7 DEF WorkersWellFormed, JobOK, TxSteps, ReportSteps
  <2> QED
    BY <1>1, <1>2, <1>3, <1>5, <1>6, <2>1 DEF PostedOnce, Resting, dbVars
<1>11. StoredAsPosted' /\ ClosedWithResult'
  BY <1>1 DEF StoredAsPosted, ClosedWithResult, dbVars
<1> QED
  BY <1>8, <1>9, <1>10, <1>11

(* A closer whose call fails leaves no lock behind.                        *)
LEMMA CloserCallFailsAgrees ==
    ASSUME TypeInv, AgreeInv, NEW c \in Closers, CloserCallFails(c)
    PROVE  AgreeInv'
<1> USE DEF TypeInv, TypeOK, AgreeInv, ghVars
<1>1. /\ job' = [job EXCEPT ![c] = Resting]
      /\ lock' = [v \in Votes |-> IF lock[v] = c THEN None ELSE lock[v]]
      /\ UNCHANGED <<status, issueOf, due, result, ghVars, task>>
  BY DEF CloserCallFails
<1>2. LocksHeld'
  BY <1>1, ProcessorAssumption DEF LocksHeld, TxSteps, Resting
<1>3. ReportsCommitted'
  BY <1>1, ProcessorAssumption DEF ReportsCommitted, ReportSteps, Resting
<1>4. PostedOnce' /\ StoredAsPosted' /\ ClosedWithResult'
  BY <1>1 DEF PostedOnce, StoredAsPosted, ClosedWithResult, Resting
<1> QED
  BY <1>2, <1>3, <1>4

(* A closer that only reports: its check run and its labels.               *)
LEMMA ReportAgrees ==
    ASSUME TypeInv, AgreeInv, NEW c \in Closers,
           CloseCheck(c) \/ CloseUnlabel(c) \/ CloseLabel(c)
    PROVE  AgreeInv'
<1>1. job[c].at \in ReportSteps /\ UNCHANGED <<dbVars, published, announced, task>>
  BY DEF CloseCheck, CloseUnlabel, CloseLabel, ReportSteps
<1>2. /\ \A d \in Closers \ {c} : job'[d] = job[d]
      /\ \/ job'[c] = Resting
         \/ \E s \in {"close_unlabel", "close_label"} : job'[c] = [job[c] EXCEPT !.at = s]
  <2>1. CASE CloseCheck(c)
    BY <2>1, ReportedMoves, StepsNamed DEF CloseCheck, TypeInv
  <2>2. CASE CloseUnlabel(c)
    BY <2>2 DEF CloseUnlabel, TypeInv, TypeOK
  <2>3. CASE CloseLabel(c)
    BY <2>3 DEF CloseLabel, TypeInv, TypeOK
  <2> QED
    BY <2>1, <2>2, <2>3
<1>3. \/ job'[c] = Resting
      \/ /\ job'[c].at \in ReportSteps \ {"post_closed"}
         /\ job'[c].vote = job[c].vote /\ job'[c].outcome = job[c].outcome
  BY <1>2 DEF TypeInv, TypeOK, Jobs, ReportSteps
<1> QED
  BY <1>1, <1>2, <1>3, ReportFrame

(* A handler that only reads the database or only calls GitHub.            *)
LEMMA HandlerAgrees ==
    ASSUME TypeInv, AgreeInv, NEW h \in Handlers,
           \/ \E i \in Issues : ReceiveCreate(h, i) \/ ReceiveCancel(h, i)
           \/ HasVoteOpen(h) \/ CreateCheck(h) \/ RemoveOldLabels(h) \/ AddOpenLabels(h)
           \/ PostCancelled(h) \/ CancelCheck(h) \/ CancelUnlabel(h) \/ HandlerCallFails(h)
    PROVE  AgreeInv'
<1> USE StepsNamed DEF TypeInv, TypeOK, ghVars
<1> DEFINE Quiet == /\ UNCHANGED <<dbVars, published, announced, job>>
                    /\ \A g \in Handlers \ {h} : task'[g] = task[g]
                    /\ task'[h].at # "store_vote"
<1>1. ASSUME NEW i \in Issues, ReceiveCreate(h, i) \/ ReceiveCancel(h, i) PROVE Quiet
  BY <1>1 DEF ReceiveCreate, ReceiveCancel
<1>2. CASE HasVoteOpen(h)
  BY <1>2, HandlerFrame DEF HasVoteOpen, Tasks, Idle
<1>3. CASE CreateCheck(h)
  BY <1>3, AnsweredMoves, HandlerFrame DEF CreateCheck, Tasks, Idle
<1>4. CASE RemoveOldLabels(h)
  <2>1. \E s \in {"remove_passed", "remove_failed", "add_labels"} :
            task' = [task EXCEPT ![h].at = s]
    BY <1>4 DEF RemoveOldLabels, RemoveOldLabel
  <2>2. UNCHANGED <<dbVars, published, announced, job>>
    BY <1>4 DEF RemoveOldLabels, RemoveOldLabel
  <2> QED
    BY <2>1, <2>2, HandlerFrame DEF Tasks
<1>5. CASE AddOpenLabels(h) \/ HandlerCallFails(h) \/ CancelUnlabel(h)
  BY <1>5, HandlerFrame DEF AddOpenLabels, HandlerCallFails, CancelUnlabel, Idle
<1>6. CASE PostCancelled(h)
  <2>1. PICK s \in {"cancel_check", "cancel_unlabel"} : Answered(h, s)
    BY <1>6 DEF PostCancelled
  <2>2. UNCHANGED <<dbVars, published, announced, job>>
    BY <1>6 DEF PostCancelled
  <2> QED
    BY <2>1, <2>2, AnsweredMoves, HandlerFrame DEF Tasks, Idle
<1>7. CASE CancelCheck(h)
  BY <1>7, AnsweredMoves, HandlerFrame DEF CancelCheck, Tasks, Idle
<1> QED
  BY <1>1, <1>2, <1>3, <1>4, <1>5, <1>6, <1>7, HandlerFrame

(* Every step keeps the workers and the database in agreement.             *)
LEMMA AgreeInvStep == TypeInv /\ AgreeInv /\ [Next]_vars => AgreeInv'
<1> SUFFICES ASSUME TypeInv, AgreeInv, [Next]_vars PROVE AgreeInv'
  OBVIOUS
<1>1. ASSUME NEW h \in Handlers, NEW i \in Issues, ReceiveCreate(h, i) \/ ReceiveCancel(h, i)
      PROVE AgreeInv'
  BY <1>1, HandlerAgrees
<1>2. ASSUME NEW h \in Handlers, HandlerStep(h) PROVE AgreeInv'
  BY <1>2, HandlerAgrees, PostCreatedAgrees, StoreVoteAgrees, CancelVoteAgrees DEF HandlerStep
<1>3. ASSUME NEW c \in Closers, NEW v \in Votes, Pick(c, v) PROVE AgreeInv'
  BY <1>3, PickAgrees
<1>4. ASSUME NEW c \in Closers, CloserStep(c) PROVE AgreeInv'
  BY <1>4, CalculateAgrees, StoreResultsAgrees, PostClosedAgrees, ReportAgrees,
     CloserCallFailsAgrees DEF CloserStep
<1> USE DEF AgreeInv, LocksHeld, ReportsCommitted, PostedOnce, StoredAsPosted,
            ClosedWithResult
<1>5. ASSUME NEW v \in Votes, TimeUp(v) PROVE AgreeInv'
  BY <1>5 DEF TimeUp, ghVars, TypeInv, TypeOK
<1>6. CASE Crash
  BY <1>6, ProcessorAssumption DEF Crash, ghVars, Idle, Resting, TxSteps, ReportSteps
<1>7. CASE UNCHANGED vars
  BY <1>7 DEF vars, dbVars, ghVars
<1> QED
  BY <1>1, <1>2, <1>3, <1>4, <1>5, <1>6, <1>7 DEF Next, Rest

(* It holds when the service starts with an empty database.                *)
LEMMA InitInv == Init => TypeInv /\ AgreeInv
<1>1. Init => TypeInv
  BY ProcessorAssumption, StepsNamed, RestTypes
  DEF Init, TypeInv, TypeOK, WorkersWellFormed, TaskOK, JobOK, Statuses, Labels, Checks,
      Idle, Resting, TxSteps, ReportSteps
<1>2. Init => AgreeInv
  BY ProcessorAssumption
  DEF Init, AgreeInv, LocksHeld, ReportsCommitted, PostedOnce, StoredAsPosted,
      ClosedWithResult, Idle, Resting, TxSteps, ReportSteps
<1> QED
  BY <1>1, <1>2

(* The whole inductive invariant, in every state.                          *)
LEMMA ProcessorInvariants == Spec => [](TypeInv /\ AgreeInv)
  BY InitInv, TypeInvStep, AgreeInvStep, PTL DEF Spec

(* A vote once cancelled stays so: only open votes are closed or cancelled, *)
(* and only posted ones are opened.                                        *)
LEMMA CancelledForGood ==
    ASSUME TypeInv, AgreeInv, [Next]_vars, NEW v \in Votes, status[v] = "cancelled"
    PROVE  status'[v] = "cancelled"
<1> USE DEF TypeInv, TypeOK
<1>1. ASSUME NEW h \in Handlers, HandlerStep(h) PROVE status'[v] = "cancelled"
  <2>1. CASE StoreVote(h)
    BY <2>1 DEF StoreVote, AgreeInv, StoredAsPosted
  <2>2. CASE PostCreated(h)
    BY <2>2 DEF PostCreated
  <2>3. CASE CancelVote(h)
    BY <2>3 DEF CancelVote, OpenVotesOn
  <2> QED
    BY <1>1, <2>1, <2>2, <2>3
    DEF HandlerStep, HasVoteOpen, CreateCheck, RemoveOldLabels, RemoveOldLabel, AddOpenLabels,
        PostCancelled, CancelCheck, CancelUnlabel, HandlerCallFails, dbVars
<1>2. ASSUME NEW c \in Closers, CloserStep(c) PROVE status'[v] = "cancelled"
  <2>1. CASE StoreResults(c)
    <3>1. job[c].at = "store_results" /\ job[c].vote \in Votes
      BY <2>1 DEF StoreResults, WorkersWellFormed, JobOK, TxSteps, ReportSteps
    <3>2. status[job[c].vote] = "open"
      BY <3>1, ProcessorAssumption DEF AgreeInv, LocksHeld, TxSteps
    <3> QED
      BY <2>1, <3>2 DEF StoreResults
  <2> QED
    BY <1>2, <2>1 DEF CloserStep, Calculate, PostClosed, CloseCheck, CloseUnlabel, CloseLabel,
                      CloserCallFails, dbVars
<1> QED
  BY <1>1, <1>2 DEF Next, ReceiveCreate, ReceiveCancel, Pick, TimeUp, Crash, Rest, vars, dbVars

(* A handler that goes on to comment a cancellation has just cancelled the *)
(* vote it comments, and takes no other vote up.                           *)
LEMMA CancelledToldStep ==
    TypeInv /\ AgreeInv /\ CancelledTold /\ [Next]_vars => CancelledTold'
<1> SUFFICES ASSUME TypeInv, AgreeInv, CancelledTold, [Next]_vars PROVE CancelledTold'
  OBVIOUS
<1> USE DEF TypeInv, TypeOK
<1> DEFINE Kept(h) == task'[h].at = "post_cancelled" => task'[h] = task[h]
<1>1. \A v \in Votes : status[v] = "cancelled" => status'[v] = "cancelled"
  BY CancelledForGood
<1>2. \A h \in Handlers : task[h].at = "post_cancelled" => task[h].vote \in Votes
  BY DEF WorkersWellFormed, TaskOK
<1>3. ASSUME notified' = notified, \A h \in Handlers : Kept(h) PROVE CancelledTold'
  BY <1>1, <1>2, <1>3 DEF CancelledTold
<1>4. ASSUME NEW h \in Handlers, CancelVote(h) PROVE CancelledTold'
  <2>1. /\ notified' = notified
        /\ \A g \in Handlers \ {h} : task'[g] = task[g]
        /\ \/ task'[h] = Idle
           \/ \E v \in Votes : task'[h].vote = v /\ status'[v] = "cancelled"
    BY <1>4 DEF CancelVote, Taking, ghVars
  <2> QED
    BY <1>1, <1>2, <2>1 DEF CancelledTold, Idle
<1>5. ASSUME NEW h \in Handlers, PostCancelled(h) PROVE CancelledTold'
  <2>1. /\ task[h].at = "post_cancelled"
        /\ notified' = notified \cup {task[h].vote}
        /\ \E s \in {"cancel_check", "cancel_unlabel"} : Answered(h, s)
    BY <1>5 DEF PostCancelled
  <2>2. \A g \in Handlers : Kept(g)
    BY <2>1, AnsweredMoves, StepsNamed DEF Tasks, Idle
  <2> QED
    BY <1>1, <1>2, <2>1, <2>2 DEF CancelledTold
<1>6. ASSUME NEW h \in Handlers, HandlerStep(h) PROVE CancelledTold'
  <2>1. CASE StoreVote(h) \/ CreateCheck(h) \/ CancelCheck(h)
    <3>1. \E s \in {"create_check", "remove_closed", "cancel_unlabel"} : Answered(h, s)
      BY <2>1 DEF StoreVote, CreateCheck, CancelCheck
    <3>2. \A g \in Handlers : Kept(g)
      BY <3>1, AnsweredMoves, StepsNamed DEF Tasks, Idle
    <3> QED
      BY <1>3, <2>1, <3>2 DEF StoreVote, CreateCheck, CancelCheck, ghVars
  <2>2. CASE HasVoteOpen(h) \/ PostCreated(h) \/ RemoveOldLabels(h) \/ AddOpenLabels(h)
             \/ CancelUnlabel(h) \/ HandlerCallFails(h)
    <3>1. \A g \in Handlers \ {h} : task'[g] = task[g]
      BY <2>2 DEF HasVoteOpen, PostCreated, RemoveOldLabels, RemoveOldLabel, AddOpenLabels,
                  CancelUnlabel, HandlerCallFails
    <3>2. task'[h].at # "post_cancelled"
      BY <2>2 DEF HasVoteOpen, PostCreated, Taking, RemoveOldLabels, RemoveOldLabel,
                  AddOpenLabels, CancelUnlabel, HandlerCallFails, Idle, Tasks
    <3>3. notified' = notified
      BY <2>2 DEF HasVoteOpen, PostCreated, RemoveOldLabels, RemoveOldLabel, AddOpenLabels,
                  CancelUnlabel, HandlerCallFails, ghVars
    <3> QED
      BY <1>3, <3>1, <3>2, <3>3
  <2> QED
    BY <1>4, <1>5, <1>6, <2>1, <2>2 DEF HandlerStep
<1>7. ASSUME NEW c \in Closers, CloserStep(c) PROVE CancelledTold'
  <2>1. task' = task /\ notified' = notified
    BY <1>7 DEF CloserStep, Calculate, StoreResults, PostClosed, CloseCheck, CloseUnlabel,
                CloseLabel, CloserCallFails, ghVars
  <2> QED
    BY <1>3, <2>1
<1>8. ASSUME NEW h \in Handlers, NEW i \in Issues, ReceiveCreate(h, i) \/ ReceiveCancel(h, i)
      PROVE  CancelledTold'
  BY <1>3, <1>8 DEF ReceiveCreate, ReceiveCancel, ghVars
<1>9. CASE Crash
  BY <1>3, <1>9 DEF Crash, Idle, ghVars
<1>10. CASE UNCHANGED vars
  BY <1>3, <1>10 DEF vars, ghVars
<1>11. ASSUME NEW v \in Votes, TimeUp(v) PROVE CancelledTold'
  BY <1>3, <1>11 DEF TimeUp, ghVars
<1>12. ASSUME NEW c \in Closers, NEW v \in Votes, Pick(c, v) PROVE CancelledTold'
  BY <1>3, <1>12 DEF Pick, ghVars
<1> QED
  BY <1>6, <1>7, <1>8, <1>9, <1>10, <1>11, <1>12 DEF Next, Rest

(* The state of the processor keeps its types.                             *)
THEOREM TypeCorrect == Spec => []TypeOK
<1>1. TypeInv => TypeOK
  BY DEF TypeInv
<1> QED
  BY <1>1, ProcessorInvariants, PTL

(* Row locks are exclusive and kept while a vote is being closed; what is  *)
(* reported of a vote is what was committed for it, once and by one        *)
(* closer; a row is stored for the issue its comment is on; only cancelled *)
(* votes are said to be cancelled.                                         *)
THEOREM ProcessorCorrect == Spec => []ProcessorInv
<1>1. Init => CancelledTold
  BY DEF Init, CancelledTold, Idle
<1>2. TypeInv /\ AgreeInv /\ CancelledTold => ProcessorInv
  BY DEF TypeInv, AgreeInv, ProcessorInv
<1> QED
  BY <1>1, <1>2, ProcessorInvariants, CancelledToldStep, PTL DEF Spec

----------------------------------------------------------------------------
(* The processor implements VoteLifecycle.                                 *)

(* Storing the row of a comment is when a vote begins.                     *)
LEMMA StoreVoteOpens ==
    ASSUME TypeInv, AgreeInv, NEW h \in Handlers, StoreVote(h)
    PROVE  Lifecycle!Next
<1> DEFINE v == task[h].vote
<1>1. v \in Votes /\ status[v] = "posted"
  BY DEF StoreVote, TypeInv, WorkersWellFormed, TaskOK, AgreeInv, StoredAsPosted
<1>2. status' = [status EXCEPT ![v] = "open"] /\ UNCHANGED <<result, published>>
  BY DEF StoreVote, ghVars
<1> HIDE DEF v
<1>3. Phase[v] = "absent" /\ Phase' = [Phase EXCEPT ![v] = "open"]
  BY <1>1, <1>2 DEF Phase, TypeInv, TypeOK
<1> QED
  BY <1>1, <1>2, <1>3 DEF Lifecycle!Next, Lifecycle!Open

(* Deleting the open rows of an issue cancels those votes.                 *)
LEMMA CancelVoteCancels ==
    ASSUME TypeInv, NEW h \in Handlers, CancelVote(h)
    PROVE  Lifecycle!Next
<1> DEFINE S == OpenVotesOn(task[h].issue)
<1>1. /\ S \in SUBSET Votes /\ \A v \in S : status[v] = "open"
      /\ status' = [v \in Votes |-> IF v \in S THEN "cancelled" ELSE status[v]]
      /\ UNCHANGED <<result, published>>
  BY DEF CancelVote, OpenVotesOn, ghVars
<1> HIDE DEF S
<1>2. /\ \A v \in S : Phase[v] = "open"
      /\ Phase' = [v \in Votes |-> IF v \in S THEN "cancelled" ELSE Phase[v]]
  BY <1>1 DEF Phase
<1>3. Lifecycle!Cancel(S)
  BY <1>1, <1>2 DEF Lifecycle!Cancel
<1> QED
  BY <1>1, <1>3 DEF Lifecycle!Next

(* Committing the results closes the vote with them.                       *)
LEMMA StoreResultsCloses ==
    ASSUME TypeInv, AgreeInv, NEW c \in Closers, StoreResults(c)
    PROVE  Lifecycle!Next
<1> DEFINE v == job[c].vote
           r == job[c].outcome
<1>1. job[c].at = "store_results" /\ v \in Votes /\ r \in Outcomes
  BY DEF StoreResults, TypeInv, WorkersWellFormed, JobOK, TxSteps, ReportSteps
<1>2. status[v] = "open"
  BY <1>1, ProcessorAssumption DEF AgreeInv, LocksHeld, TxSteps
<1>3. /\ status' = [status EXCEPT ![v] = "closed"]
      /\ result' = [result EXCEPT ![v] = r]
      /\ published' = published
  BY DEF StoreResults, ghVars
<1> HIDE DEF v, r
<1>4. Phase[v] = "open" /\ Phase' = [Phase EXCEPT ![v] = "closed"]
  BY <1>1, <1>2, <1>3 DEF Phase, TypeInv, TypeOK
<1>5. r \in Lifecycle!Verdicts
  BY <1>1 DEF Outcomes, Lifecycle!Verdicts
<1>6. Lifecycle!Close(v, r)
  BY <1>3, <1>4 DEF Lifecycle!Close
<1> QED
  BY <1>1, <1>5, <1>6 DEF Lifecycle!Next

(* Posting the results publishes them for the first time.                  *)
LEMMA PostClosedPublishes ==
    ASSUME TypeInv, AgreeInv, NEW c \in Closers, PostClosed(c)
    PROVE  Lifecycle!Next
<1> DEFINE v == job[c].vote
<1>1. job[c].at = "post_closed"
  BY DEF PostClosed
<1>2. v \in Votes /\ job[c].outcome # "missing"
  BY <1>1 DEF TypeInv, WorkersWellFormed, JobOK, TxSteps, ReportSteps
<1>3. status[v] = "closed" /\ result[v] # "missing" /\ published[v] = 0
  BY <1>1, <1>2 DEF AgreeInv, ReportsCommitted, PostedOnce, ReportSteps
<1>4. published' = [published EXCEPT ![v] = 1] /\ UNCHANGED <<status, result>>
  BY <1>3 DEF PostClosed, dbVars
<1> HIDE DEF v
<1>5. Phase[v] = "closed" /\ Phase' = Phase
  BY <1>2, <1>3, <1>4 DEF Phase
<1> QED
  BY <1>2, <1>3, <1>4, <1>5 DEF Lifecycle!Next, Lifecycle!Publish

(* A comment whose row is not stored yet is no vote.                       *)
LEMMA PostCreatedStutters ==
    ASSUME TypeInv, NEW h \in Handlers, PostCreated(h)
    PROVE  UNCHANGED Lifecycle!vars
<1>1. PICK v \in Votes : status[v] = "none" /\ status' = [status EXCEPT ![v] = "posted"]
  BY DEF PostCreated
<1>2. Phase' = Phase
  BY <1>1 DEF Phase, TypeInv, TypeOK
<1> QED
  BY <1>2 DEF PostCreated, Lifecycle!vars, ghVars

(* Every step of the processor is a step of the life of the votes, or none *)
(* of it.                                                                  *)
LEMMA LifecycleStep ==
    TypeInv /\ AgreeInv /\ [Next]_vars => [Lifecycle!Next]_(Lifecycle!vars)
<1> SUFFICES ASSUME TypeInv, AgreeInv, [Next]_vars
             PROVE  Lifecycle!Next \/ UNCHANGED Lifecycle!vars
  OBVIOUS
<1>1. UNCHANGED <<status, result, published>> => UNCHANGED Lifecycle!vars
  BY DEF Lifecycle!vars, Phase
<1>2. ASSUME NEW h \in Handlers, NEW i \in Issues, ReceiveCreate(h, i) \/ ReceiveCancel(h, i)
      PROVE  UNCHANGED <<status, result, published>>
  BY <1>2 DEF ReceiveCreate, ReceiveCancel, dbVars, ghVars
<1>3. ASSUME NEW h \in Handlers, HandlerStep(h)
      PROVE  Lifecycle!Next \/ UNCHANGED Lifecycle!vars
  <2>1. \/ HasVoteOpen(h) \/ CreateCheck(h) \/ RemoveOldLabels(h) \/ AddOpenLabels(h)
        \/ PostCancelled(h) \/ CancelCheck(h) \/ CancelUnlabel(h) \/ HandlerCallFails(h)
        => UNCHANGED <<status, result, published>>
    BY DEF HasVoteOpen, CreateCheck, RemoveOldLabels, RemoveOldLabel, AddOpenLabels,
           PostCancelled, CancelCheck, CancelUnlabel, HandlerCallFails, dbVars, ghVars
  <2> QED
    BY <1>1, <1>3, <2>1, PostCreatedStutters, StoreVoteOpens, CancelVoteCancels
    DEF HandlerStep
<1>4. ASSUME NEW c \in Closers, CloserStep(c)
      PROVE  Lifecycle!Next \/ UNCHANGED Lifecycle!vars
  <2>1. \/ Calculate(c) \/ CloseCheck(c) \/ CloseUnlabel(c) \/ CloseLabel(c)
        \/ CloserCallFails(c)
        => UNCHANGED <<status, result, published>>
    BY DEF Calculate, CloseCheck, CloseUnlabel, CloseLabel, CloserCallFails, dbVars, ghVars
  <2> QED
    BY <1>1, <1>4, <2>1, StoreResultsCloses, PostClosedPublishes DEF CloserStep
<1>5. ASSUME NEW c \in Closers, NEW v \in Votes, Pick(c, v)
      PROVE  UNCHANGED <<status, result, published>>
  BY <1>5 DEF Pick, ghVars
<1>6. ASSUME NEW v \in Votes, TimeUp(v) PROVE UNCHANGED <<status, result, published>>
  BY <1>6 DEF TimeUp, ghVars
<1>7. CASE Crash
  BY <1>1, <1>7 DEF Crash, ghVars
<1>8. CASE UNCHANGED vars
  BY <1>1, <1>8 DEF vars, dbVars, ghVars
<1> QED
  BY <1>1, <1>2, <1>3, <1>4, <1>5, <1>6, <1>7, <1>8 DEF Next, Rest

(* However many workers interleave, fail or crash, each vote is opened     *)
(* once, then closed or cancelled but not both, keeps its results and has  *)
(* them published at most once.                                            *)
THEOREM LifecycleImplemented == Spec => ImplementsLifecycle
<1>1. Init => Lifecycle!Init
  BY DEF Init, Lifecycle!Init, Phase
<1>2. Spec => [](TypeInv /\ AgreeInv)
  BY ProcessorInvariants
<1> QED
  BY <1>1, <1>2, LifecycleStep, PTL DEF Spec, ImplementsLifecycle, Lifecycle!Spec

(* No step of VoteLifecycle reopens a vote, changes its verdict or takes   *)
(* its results back, ...                                                   *)
LEMMA LifecycleStays ==
    ASSUME TypeInv, [Lifecycle!Next]_(Lifecycle!vars), NEW v \in Votes
    PROVE  /\ Phase[v] \in {"closed", "cancelled"} =>
                 Phase'[v] = Phase[v] /\ result'[v] = result[v]
           /\ published[v] = 1 => published'[v] = 1
<1> DEFINE Stays == /\ Phase[v] \in {"closed", "cancelled"} =>
                          Phase'[v] = Phase[v] /\ result'[v] = result[v]
                    /\ published[v] = 1 => published'[v] = 1
<1> USE DEF TypeInv, TypeOK
<1>1. DOMAIN Phase = Votes /\ Phase = [x \in Votes |-> Phase[x]]
  BY DEF Phase
<1>2. ASSUME NEW w \in Votes, Lifecycle!Open(w) PROVE Stays
  BY <1>1, <1>2 DEF Lifecycle!Open
<1>3. ASSUME NEW w \in Votes, Lifecycle!Publish(w) PROVE Stays
  <2>1. Phase' = Phase /\ result' = result /\ published' = [published EXCEPT ![w] = 1]
    BY <1>3 DEF Lifecycle!Publish
  <2> HIDE DEF Phase
  <2> QED
    BY <2>1
<1>4. ASSUME NEW w \in Votes, NEW r, Lifecycle!Close(w, r) PROVE Stays
  BY <1>1, <1>4 DEF Lifecycle!Close
<1>5. ASSUME NEW S \in SUBSET Votes, Lifecycle!Cancel(S) PROVE Stays
  BY <1>5 DEF Lifecycle!Cancel, Phase
<1>6. CASE UNCHANGED Lifecycle!vars
  BY <1>6 DEF Lifecycle!vars
<1> QED
  BY <1>2, <1>3, <1>4, <1>5, <1>6 DEF Lifecycle!Next

(* ... and so no step of the processor does.                               *)
LEMMA FinalStep ==
    ASSUME TypeInv, AgreeInv, [Next]_vars, NEW v \in Votes
    PROVE  /\ status[v] \in {"closed", "cancelled"} =>
                 status'[v] = status[v] /\ result'[v] = result[v]
           /\ published[v] = 1 => published'[v] = 1
  BY LifecycleStep, LifecycleStays DEF Phase

(* A vote that was closed or cancelled stays so with the verdict it has,   *)
(* and its results are not taken back: whichever handlers and closers are  *)
(* still busy with it, fail, crash or start again.                         *)
THEOREM VerdictsAreFinal ==
    Spec => [][\A v \in Votes :
                  /\ status[v] \in {"closed", "cancelled"} =>
                        status'[v] = status[v] /\ result'[v] = result[v]
                  /\ published[v] = 1 => published'[v] = 1]_vars
<1> DEFINE Final == \A v \in Votes :
                       /\ status[v] \in {"closed", "cancelled"} =>
                             status'[v] = status[v] /\ result'[v] = result[v]
                       /\ published[v] = 1 => published'[v] = 1
<1>1. TypeInv /\ AgreeInv /\ [Next]_vars => [Final]_vars
  BY FinalStep
<1> QED
  BY <1>1, ProcessorInvariants, PTL DEF Spec

----------------------------------------------------------------------------
(* What an issue shows of a verdict was posted.                            *)

PublishedInv == ReportsInOrder /\ VerdictsPublished

(* A vote stays on the issue its comment is on.                            *)
LEMMA IssueKept ==
    ASSUME TypeInv, [Next]_vars, NEW v \in Votes, status[v] # "none"
    PROVE  issueOf'[v] = issueOf[v]
  BY DEF TypeInv, TypeOK, Next, HandlerStep, CloserStep, ReceiveCreate, ReceiveCancel,
         HasVoteOpen, PostCreated, StoreVote, CreateCheck, RemoveOldLabels, RemoveOldLabel,
         AddOpenLabels, CancelVote, PostCancelled, CancelCheck, CancelUnlabel,
         HandlerCallFails, Pick, Calculate, StoreResults, PostClosed, CloseCheck,
         CloseUnlabel, CloseLabel, CloserCallFails, TimeUp, Crash, Rest, vars, dbVars

(* What was posted of a verdict stays posted.                              *)
LEMMA PostedForGood ==
    ASSUME TypeInv, AgreeInv, [Next]_vars, NEW i, NEW r, VerdictPosted(i, r)
    PROVE  VerdictPosted(i, r)'
<1>1. PICK v \in Votes :
          issueOf[v] = i /\ status[v] = "closed" /\ result[v] = r /\ published[v] = 1
  BY DEF VerdictPosted
<1>2. issueOf'[v] = i /\ status'[v] = "closed" /\ result'[v] = r /\ published'[v] = 1
  BY <1>1, FinalStep, IssueKept
<1> QED
  BY <1>2 DEF VerdictPosted

(* A step that shows no verdict but posted ones, and lets a closer go on   *)
(* reporting one only once it is posted.                                   *)
LEMMA PublishedFrame ==
    ASSUME TypeInv, AgreeInv, PublishedInv, [Next]_vars,
           \A i \in Issues :
               /\ \A r \in {"passed", "failed"} :
                     r \in labels'[i] => r \in labels[i] \/ VerdictPosted(i, r)
               /\ check'[i] = "failure" => check[i] = "failure" \/ VerdictPosted(i, "failed"),
           \A c \in Closers :
               \/ job'[c] = job[c]
               \/ job'[c].at \in ReportSteps \ {"post_closed"} /\ job'[c].outcome # "missing"
                     => published'[job'[c].vote] = 1
    PROVE  PublishedInv'
<1>1. VerdictsPublished'
  BY PostedForGood DEF PublishedInv, VerdictsPublished
<1>2. \A c \in Closers : job[c].at \in ReportSteps => job[c].vote \in Votes
  BY DEF TypeInv, WorkersWellFormed, JobOK
<1>3. ReportsInOrder'
  BY <1>2, FinalStep DEF PublishedInv, ReportsInOrder
<1> QED
  BY <1>1, <1>3 DEF PublishedInv

(* The vote a closer still reports on after the comment.                   *)
LEMMA ReportedPosted ==
    ASSUME TypeInv, AgreeInv, PublishedInv, NEW c \in Closers,
           job[c].at \in ReportSteps \ {"post_closed"}, job[c].outcome # "missing"
    PROVE  VerdictPosted(issueOf[job[c].vote], job[c].outcome)
<1>1. job[c].vote \in Votes
  BY DEF TypeInv, WorkersWellFormed, JobOK
<1>2. status[job[c].vote] = "closed" /\ result[job[c].vote] = job[c].outcome
  BY DEF AgreeInv, ReportsCommitted
<1>3. published[job[c].vote] = 1
  BY DEF PublishedInv, ReportsInOrder
<1> QED
  BY <1>1, <1>2, <1>3 DEF VerdictPosted

(* No handler writes a verdict.                                            *)
LEMMA HandlerPublished ==
    ASSUME TypeInv, AgreeInv, PublishedInv, Next, NEW h \in Handlers, HandlerStep(h)
    PROVE  PublishedInv'
<1> USE DEF TypeInv, TypeOK
<1>1. job' = job
  BY DEF HandlerStep, HasVoteOpen, PostCreated, StoreVote, CreateCheck, RemoveOldLabels,
         RemoveOldLabel, AddOpenLabels, CancelVote, PostCancelled, CancelCheck,
         CancelUnlabel, HandlerCallFails
<1>2. \A i \in Issues : labels'[i] \subseteq labels[i] \cup {"gitvote", "open"}
  BY DEF HandlerStep, HasVoteOpen, PostCreated, StoreVote, CreateCheck, RemoveOldLabels,
         RemoveOldLabel, RemoveLabel, AddOpenLabels, CancelVote, PostCancelled, CancelCheck,
         CancelUnlabel, HandlerCallFails, ghVars
<1>3. \A i \in Issues : check'[i] \in {check[i], "in_progress", "success"}
  BY DEF HandlerStep, HasVoteOpen, PostCreated, StoreVote, CreateCheck, RemoveOldLabels,
         RemoveOldLabel, AddOpenLabels, CancelVote, PostCancelled, CancelCheck,
         CancelUnlabel, HandlerCallFails, ghVars
<1> QED
  BY <1>1, <1>2, <1>3, PublishedFrame

(* A closer writes the verdict it has posted.                              *)
LEMMA CloserPublished ==
    ASSUME TypeInv, AgreeInv, PublishedInv, Next, NEW c \in Closers, CloserStep(c)
    PROVE  PublishedInv'
<1> DEFINE v == job[c].vote
           o == job[c].outcome
<1> USE DEF TypeInv, TypeOK
<1>1. CASE Calculate(c) \/ CloserCallFails(c)
  <2>1. labels' = labels /\ check' = check /\ \A d \in Closers \ {c} : job'[d] = job[d]
    BY <1>1 DEF Calculate, CloserCallFails, ghVars
  <2>2. job'[c].at \notin ReportSteps
    <3>1. ASSUME NEW r \in Outcomes,
                 job' = [job EXCEPT ![c].at = "store_results", ![c].outcome = r]
          PROVE  job'[c].at = "store_results"
      BY <3>1, JobTakes, StepsNamed
    <3>2. job' \in {[job EXCEPT ![c] = off] : off \in Off} => job'[c] \in Off
      OBVIOUS
    <3> QED
      BY <1>1, <3>1, <3>2, RestTypes
      DEF Calculate, CloserCallFails, ReportSteps, Off, Resting, Dead
  <2> QED
    BY <2>1, <2>2, PublishedFrame
<1>2. CASE StoreResults(c)
  <2>1. PICK s \in {"post_closed", "close_check", "close_unlabel"} :
            Reported(c, s) /\ (s # "post_closed" => o = "missing")
    BY <1>2 DEF StoreResults, AfterPost
  <2> QED
    BY <1>2, <2>1, ReportedAt, ReportedMoves, StepsNamed, PublishedFrame
    DEF StoreResults, ghVars, Resting, ReportSteps
<1>3. CASE PostClosed(c)
  <2>1. v \in Votes /\ published'[v] = 1
    BY <1>3 DEF PostClosed, WorkersWellFormed, JobOK, ReportSteps, AgreeInv, PostedOnce
  <2>2. PICK s \in {"close_check", "close_unlabel"} : Reported(c, s)
    BY <1>3 DEF PostClosed, AfterPost
  <2> QED
    BY <1>3, <2>1, <2>2, ReportedAt, ReportedMoves, StepsNamed, PublishedFrame
    DEF PostClosed, Resting, ReportSteps
<1>4. CASE CloseCheck(c)
  <2>1. /\ \A i \in Issues : check'[i] = "failure" =>
               check[i] = "failure" \/ (i = issueOf[v] /\ o = "failed")
        /\ labels' = labels /\ published' = published
        /\ job[c].at = "close_check" /\ Reported(c, "close_unlabel")
    BY <1>4 DEF CloseCheck
  <2>2. o = "failed" => VerdictPosted(issueOf[v], "failed")
    BY <2>1, ReportedPosted DEF ReportSteps
  <2>3. o # "missing" => published[v] = 1
    BY <2>1 DEF PublishedInv, ReportsInOrder, ReportSteps
  <2> QED
    BY <2>1, <2>2, <2>3, ReportedAt, ReportedMoves, StepsNamed, PublishedFrame
    DEF Resting, ReportSteps
<1>5. CASE CloseUnlabel(c)
  <2>1. /\ \A i \in Issues : labels'[i] \subseteq labels[i]
        /\ check' = check /\ published' = published
        /\ job[c].at = "close_unlabel" /\ job' = [job EXCEPT ![c].at = "close_label"]
    BY <1>5 DEF CloseUnlabel, RemoveLabel
  <2>2. job'[c].vote = v /\ job'[c].outcome = o /\ \A d \in Closers \ {c} : job'[d] = job[d]
    BY <2>1 DEF Jobs
  <2>3. o # "missing" => published[v] = 1
    BY <2>1 DEF PublishedInv, ReportsInOrder, ReportSteps
  <2> QED
    BY <2>1, <2>2, <2>3, PublishedFrame
<1>6. CASE CloseLabel(c)
  <2>1. /\ \A i \in Issues : \A r \in labels'[i] :
               r \in labels[i] \/ r = "closed" \/ (i = issueOf[v] /\ r = o /\ o # "missing")
        /\ check' = check
        /\ job[c].at = "close_label" /\ job' = [job EXCEPT ![c] = Resting]
    BY <1>6 DEF CloseLabel
  <2>2. o # "missing" => VerdictPosted(issueOf[v], o)
    BY <2>1, ReportedPosted DEF ReportSteps
  <2>3. \A d \in Closers : job'[d] = job[d] \/ job'[d].at = "resting"
    BY <2>1 DEF Resting
  <2> QED
    BY <2>1, <2>2, <2>3, PublishedFrame DEF ReportSteps
<1> QED
  BY <1>1, <1>2, <1>3, <1>4, <1>5, <1>6 DEF CloserStep

(* Every step keeps it.                                                    *)
LEMMA PublishedStep == TypeInv /\ AgreeInv /\ PublishedInv /\ [Next]_vars => PublishedInv'
<1> SUFFICES ASSUME TypeInv, AgreeInv, PublishedInv, [Next]_vars PROVE PublishedInv'
  OBVIOUS
<1>1. ASSUME labels' = labels, check' = check,
             \A c \in Closers : job'[c] = job[c] \/ job'[c].at \in {"resting", "calculate"}
      PROVE  PublishedInv'
  BY <1>1, PublishedFrame DEF ReportSteps
<1>2. ASSUME NEW h \in Handlers, NEW i \in Issues, ReceiveCreate(h, i) \/ ReceiveCancel(h, i)
      PROVE PublishedInv'
  BY <1>1, <1>2 DEF ReceiveCreate, ReceiveCancel, ghVars
<1>3. ASSUME NEW c \in Closers, NEW v \in Votes, Pick(c, v) PROVE PublishedInv'
  BY <1>1, <1>3 DEF Pick, ghVars, TypeInv, TypeOK
<1>4. ASSUME NEW v \in Votes, TimeUp(v) PROVE PublishedInv'
  BY <1>1, <1>4 DEF TimeUp, ghVars
<1>5. CASE Crash
  BY <1>1, <1>5 DEF Crash, ghVars, Resting
<1>6. CASE UNCHANGED vars
  BY <1>1, <1>6 DEF vars, ghVars
<1> QED
  BY <1>2, <1>3, <1>4, <1>5, <1>6, HandlerPublished, CloserPublished DEF Next, Rest

(* Whatever calls fail, however often the service crashes and whoever else *)
(* writes the issue, the verdict that its labels or its check run show is  *)
(* that of a vote closed on it whose results were posted.                  *)
THEOREM VerdictsArePublished == Spec => []VerdictsPublished
<1>1. Init => PublishedInv
  BY DEF Init, PublishedInv, ReportsInOrder, VerdictsPublished, Resting, ReportSteps
<1>2. PublishedInv => VerdictsPublished
  BY DEF PublishedInv
<1> QED
  BY <1>1, <1>2, PublishedStep, ProcessorInvariants, PTL DEF Spec

----------------------------------------------------------------------------
(* One open vote per issue, at the pace of the users.                      *)

(* What has_vote_open answered is still true when the vote is stored.      *)
AnswerHolds ==
    \A h \in Handlers : task[h].at \in {"post_created", "store_vote"} =>
        OpenVotesOn(task[h].issue) = {}

PacedInv == AtMostOneBusy /\ OneOpenVote /\ AnswerHolds

(* A step that opens no vote keeps PacedInv, if only the handler that      *)
(* asked has_vote_open goes on to post.                                    *)
LEMMA NoneOpened ==
    ASSUME TypeInv, PacedInv,
           \A v \in Votes : status'[v] = "open" => status[v] = "open" /\ issueOf'[v] = issueOf[v],
           \A h \in Handlers : task'[h].at \in {"post_created", "store_vote"} =>
               /\ OpenVotesOn(task'[h].issue) = {}
    PROVE  OneOpenVote' /\ AnswerHolds'
  BY DEF PacedInv, OneOpenVote, AnswerHolds, OpenVotesOn

(* Storing a vote keeps it too: nobody else is about to store one on the   *)
(* issue.                                                                  *)
LEMMA StoreVotePaced ==
    ASSUME TypeInv, AgreeInv, PacedInv, NEW h \in Handlers, StoreVote(h)
    PROVE  OneOpenVote' /\ AnswerHolds'
<1> DEFINE v == task[h].vote
<1>1. /\ task[h].at = "store_vote" /\ task[h].issue \in Issues
      /\ v \in Votes /\ issueOf[v] = task[h].issue
      /\ status' = [status EXCEPT ![v] = "open"] /\ issueOf' = issueOf
  BY DEF StoreVote, TypeInv, WorkersWellFormed, TaskOK, AgreeInv, StoredAsPosted
<1>2. OpenVotesOn(issueOf[v]) = {}
  BY <1>1 DEF PacedInv, AnswerHolds
<1>3. PICK s \in {"create_check", "remove_closed"} : Answered(h, s)
  BY DEF StoreVote
<1>4. /\ \A g \in Handlers \ {h} : task'[g] = task[g]
      /\ task'[h].at \notin {"post_created", "store_vote"}
  BY <1>3, AnsweredMoves, StepsNamed DEF TypeInv, TypeOK, Idle, Tasks
<1>5. \A g \in Handlers \ {h} : task[g].issue # issueOf[v]
  BY <1>1 DEF PacedInv, AtMostOneBusy, BusyWith
<1> HIDE DEF v
<1>6. OneOpenVote'
  BY <1>1, <1>2 DEF PacedInv, OneOpenVote, OpenVotesOn, TypeInv, TypeOK
<1>7. AnswerHolds'
  BY <1>1, <1>4, <1>5 DEF PacedInv, AnswerHolds, OpenVotesOn, TypeInv, TypeOK
<1> QED
  BY <1>6, <1>7

(* Every other step opens no vote.                                         *)
LEMMA PacedStep ==
    TypeInv /\ AgreeInv /\ PacedInv /\ [Next /\ AtMostOneBusy']_vars => PacedInv'
<1> SUFFICES ASSUME TypeInv, AgreeInv, PacedInv, [Next /\ AtMostOneBusy']_vars
             PROVE  OneOpenVote' /\ AnswerHolds' /\ AtMostOneBusy'
  BY DEF PacedInv
<1>1. AtMostOneBusy'
  BY DEF PacedInv, AtMostOneBusy, BusyWith, vars, dbVars
<1> DEFINE Same == UNCHANGED <<status, issueOf>>
           Asked(h) == /\ \A g \in Handlers \ {h} : task'[g] = task[g]
                       /\ task'[h].at \notin {"post_created", "store_vote"}
<1>2. Same => \A v \in Votes :
          status'[v] = "open" => status[v] = "open" /\ issueOf'[v] = issueOf[v]
  OBVIOUS
<1>3. ASSUME NEW h \in Handlers, Same, Asked(h) PROVE OneOpenVote' /\ AnswerHolds'
  BY <1>2, <1>3, NoneOpened DEF PacedInv, AnswerHolds
<1>4. ASSUME Same, task' = task PROVE OneOpenVote' /\ AnswerHolds'
  BY <1>2, <1>4, NoneOpened DEF PacedInv, AnswerHolds
<1>5. ASSUME NEW h \in Handlers, NEW i \in Issues, ReceiveCreate(h, i) \/ ReceiveCancel(h, i)
      PROVE OneOpenVote' /\ AnswerHolds'
  <2>1. Same /\ Asked(h)
    BY <1>5 DEF ReceiveCreate, ReceiveCancel, dbVars, TypeInv, TypeOK
  <2> QED
    BY <1>3, <2>1
<1>6. ASSUME NEW h \in Handlers, HasVoteOpen(h) PROVE OneOpenVote' /\ AnswerHolds'
  <2>1. /\ Same
        /\ \A g \in Handlers \ {h} : task'[g] = task[g]
        /\ \/ task'[h] = Idle
           \/ task'[h].issue = task[h].issue /\ OpenVotesOn(task[h].issue) = {}
    BY <1>6 DEF HasVoteOpen, dbVars, TypeInv, TypeOK, Tasks
  <2> QED
    BY <1>2, <2>1, NoneOpened DEF PacedInv, AnswerHolds, Idle
<1>7. ASSUME NEW h \in Handlers, PostCreated(h) PROVE OneOpenVote' /\ AnswerHolds'
  <2>1. PICK v \in Votes :
            /\ status[v] = "none" /\ status' = [status EXCEPT ![v] = "posted"]
            /\ issueOf' = [issueOf EXCEPT ![v] = task[h].issue]
            /\ \/ task' = [task EXCEPT ![h] = Taking(h, "store_vote", v)]
               \/ task' = [task EXCEPT ![h] = Idle]
    BY <1>7 DEF PostCreated
  <2>2. \A w \in Votes : status'[w] = "open" => status[w] = "open" /\ issueOf'[w] = issueOf[w]
    BY <2>1 DEF TypeInv, TypeOK
  <2>3. /\ \A g \in Handlers \ {h} : task'[g] = task[g]
        /\ task'[h].issue = task[h].issue \/ task'[h] = Idle
    BY <2>1 DEF Taking, TypeInv, TypeOK
  <2>4. OpenVotesOn(task[h].issue) = {}
    BY <1>7 DEF PostCreated, PacedInv, AnswerHolds
  <2> QED
    BY <2>2, <2>3, <2>4, NoneOpened DEF PacedInv, AnswerHolds, Idle
<1>8. ASSUME NEW h \in Handlers, CancelVote(h) PROVE OneOpenVote' /\ AnswerHolds'
  <2>1. \A w \in Votes : status'[w] = "open" => status[w] = "open" /\ issueOf'[w] = issueOf[w]
    BY <1>8 DEF CancelVote
  <2>2. Asked(h)
    BY <1>8 DEF CancelVote, Taking, Idle, TypeInv, TypeOK
  <2> QED
    BY <2>1, <2>2, NoneOpened DEF PacedInv, AnswerHolds
<1>9. ASSUME NEW h \in Handlers,
             \/ CreateCheck(h) \/ PostCancelled(h) \/ CancelCheck(h)
      PROVE OneOpenVote' /\ AnswerHolds'
  <2>1. \E s \in {"remove_closed", "cancel_check", "cancel_unlabel"} : Answered(h, s)
    BY <1>9 DEF CreateCheck, PostCancelled, CancelCheck
  <2>2. Same /\ Asked(h)
    BY <1>9, <2>1, AnsweredMoves, StepsNamed
    DEF CreateCheck, PostCancelled, CancelCheck, dbVars, TypeInv, TypeOK, Tasks, Idle
  <2> QED
    BY <1>3, <2>2
<1>10. ASSUME NEW h \in Handlers,
              \/ RemoveOldLabels(h) \/ AddOpenLabels(h) \/ CancelUnlabel(h)
              \/ HandlerCallFails(h)
       PROVE OneOpenVote' /\ AnswerHolds'
  <2>1. Same
    BY <1>10 DEF RemoveOldLabels, RemoveOldLabel, AddOpenLabels, CancelUnlabel,
                 HandlerCallFails, dbVars
  <2>2. \/ task' = [task EXCEPT ![h] = Idle]
        \/ \E s \in {"remove_passed", "remove_failed", "add_labels"} :
              task' = [task EXCEPT ![h].at = s]
    BY <1>10 DEF RemoveOldLabels, RemoveOldLabel, AddOpenLabels, CancelUnlabel,
                 HandlerCallFails
  <2>3. Asked(h)
    BY <2>2 DEF TypeInv, TypeOK, Tasks, Idle
  <2> QED
    BY <1>3, <2>1, <2>3
<1>11. ASSUME NEW c \in Closers, NEW v \in Votes, Pick(c, v)
       PROVE OneOpenVote' /\ AnswerHolds'
  BY <1>4, <1>11 DEF Pick
<1>12. ASSUME NEW c \in Closers, StoreResults(c) PROVE OneOpenVote' /\ AnswerHolds'
  <2>1. \A w \in Votes : status'[w] = "open" => status[w] = "open" /\ issueOf'[w] = issueOf[w]
    BY <1>12 DEF StoreResults, TypeInv, TypeOK
  <2> QED
    BY <1>12, <2>1, NoneOpened DEF StoreResults, PacedInv, AnswerHolds
<1>13. ASSUME NEW c \in Closers,
              \/ Calculate(c) \/ PostClosed(c) \/ CloseCheck(c) \/ CloseUnlabel(c)
              \/ CloseLabel(c) \/ CloserCallFails(c)
       PROVE OneOpenVote' /\ AnswerHolds'
  BY <1>4, <1>13 DEF Calculate, PostClosed, CloseCheck, CloseUnlabel, CloseLabel,
                     CloserCallFails, dbVars
<1>14. ASSUME NEW v \in Votes, TimeUp(v) PROVE OneOpenVote' /\ AnswerHolds'
  BY <1>4, <1>14 DEF TimeUp
<1>15. CASE Crash
  <2>1. Same /\ \A h \in Handlers : task'[h].at = "idle"
    BY <1>15 DEF Crash, Idle
  <2> QED
    BY <1>1, <1>2, <2>1, NoneOpened
<1>16. CASE UNCHANGED vars
  BY <1>1, <1>4, <1>16 DEF vars, dbVars
<1>17. ASSUME NEW h \in Handlers, HandlerStep(h) PROVE OneOpenVote' /\ AnswerHolds'
  BY <1>6, <1>7, <1>8, <1>9, <1>10, <1>17, StoreVotePaced DEF HandlerStep
<1>18. ASSUME NEW c \in Closers, CloserStep(c) PROVE OneOpenVote' /\ AnswerHolds'
  BY <1>12, <1>13, <1>18 DEF CloserStep
<1> QED
  BY <1>1, <1>5, <1>11, <1>14, <1>15, <1>16, <1>17, <1>18 DEF Next, Rest

(* As long as no two workers are busy with the same issue, has_vote_open   *)
(* is enough to have one open vote per issue, whatever fails or crashes.   *)
THEOREM OneOpenVotePaced == PacedSpec => []OneOpenVote
<1>1. Init => TypeInv /\ AgreeInv
  BY InitInv
<1>2. Init => PacedInv
  BY ProcessorAssumption
  DEF Init, PacedInv, AtMostOneBusy, BusyWith, OneOpenVote, OpenVotesOn, AnswerHolds,
      Idle, Off, Resting
<1>3. TypeInv /\ AgreeInv /\ [Next /\ AtMostOneBusy']_vars => TypeInv' /\ AgreeInv'
  BY TypeInvStep, AgreeInvStep
<1>4. PacedInv => OneOpenVote
  BY DEF PacedInv
<1> QED
  BY <1>1, <1>2, <1>3, <1>4, PacedStep, PTL DEF PacedSpec

----------------------------------------------------------------------------
(* Labels and check run tell the state of the votes, at the pace of the    *)
(* users.                                                                  *)

Faultless == spent["fault"] = 0 /\ spent["crash"] = 0

(* What an issue shows while a vote is open on it, and while none is.      *)
ShowsOpen(i) ==
    /\ labels[i] = {"gitvote", "open"}
    /\ i \in PullRequests => check[i] = "in_progress"

ShowsNone(i) ==
    /\ "open" \notin labels[i]
    /\ check[i] # "in_progress"
    /\ ~ ({"passed", "failed"} \subseteq labels[i])
    /\ i \in PullRequests => ("failed" \in labels[i] <=> check[i] = "failure")

Outward(i) == IF OpenVotesOn(i) # {} THEN ShowsOpen(i) ELSE ShowsNone(i)

(* What it shows while a handler is at a step of a command, ...            *)
HandlerShows(h) ==
    LET i == task[h].issue  at == task[h].at IN
    /\ at \in {"has_vote_open", "post_created", "store_vote", "cancel_vote"} => Outward(i)
    /\ at \in {"create_check", "remove_closed", "remove_passed", "remove_failed", "add_labels"} =>
          OpenVotesOn(i) # {} /\ "open" \notin labels[i]
    /\ at \in {"remove_closed", "remove_passed", "remove_failed", "add_labels"} =>
          (i \in PullRequests => check[i] = "in_progress")
    /\ at \in {"remove_passed", "remove_failed", "add_labels"} => "closed" \notin labels[i]
    /\ at \in {"remove_failed", "add_labels"} => "passed" \notin labels[i]
    /\ at = "add_labels" => "failed" \notin labels[i]
    /\ at \in {"post_cancelled", "cancel_check"} => OpenVotesOn(i) = {} /\ ShowsOpen(i)
    /\ at = "cancel_unlabel" =>
          /\ OpenVotesOn(i) = {} /\ labels[i] = {"gitvote", "open"}
          /\ i \in PullRequests => check[i] = "success"
    /\ at \in {"create_check", "cancel_check"} => i \in PullRequests

(* ... and a closer at a step of its vote.                                 *)
CloserShows(c) ==
    LET i == issueOf[job[c].vote]  at == job[c].at IN
    /\ at \in TxSteps => Outward(i)
    /\ at \in ReportSteps => OpenVotesOn(i) = {}
    /\ at \in {"post_closed", "close_check"} => ShowsOpen(i)
    /\ at = "close_check" => i \in PullRequests
    /\ at \in {"close_unlabel", "close_label"} =>
          /\ labels[i] = IF at = "close_unlabel" THEN {"gitvote", "open"} ELSE {"gitvote"}
          /\ i \in PullRequests =>
                check[i] = IF job[c].outcome = "failed" THEN "failure" ELSE "success"

ViewInv ==
    Faultless =>
        /\ \A i \in Issues \ PullRequests : check[i] = "none"
        /\ \A i \in Issues : BusyWith(i) = {} => Outward(i)
        /\ \A h \in Handlers : HandlerShows(h)
        /\ \A c \in Closers : CloserShows(c)

(* What a step of a worker on one issue leaves alone of another issue.     *)
Untouched(i) ==
    labels'[i] = labels[i] /\ check'[i] = check[i] /\ OpenVotesOn(i)' = OpenVotesOn(i)

(* A step that spends a fault or a crash ends what ViewInv speaks of.      *)
LEMMA FaultShows ==
    ASSUME TypeOK, Spend("fault") \/ Spend("crash")
    PROVE  ~Faultless'
  BY StepsNamed DEF Spend, Faultless, TypeOK

(* Without one, a call is answered, ...                                    *)
LEMMA AnsweredFaultless ==
    ASSUME TypeOK, Faultless', NEW h \in Handlers, NEW s, Answered(h, s)
    PROVE  task' = [task EXCEPT ![h].at = s] /\ Faultless
  BY FaultShows DEF Answered, Faultless

(* ... also a closer's, ...                                                *)
LEMMA ReportedFaultless ==
    ASSUME TypeOK, Faultless', NEW c \in Closers, NEW s, Reported(c, s)
    PROVE  job' = [job EXCEPT ![c].at = s] /\ Faultless
  BY FaultShows DEF Reported, Faultless

(* ... and a label is removed.                                             *)
LEMMA RemoveLabelFaultless ==
    ASSUME TypeOK, Faultless', NEW i, NEW l, RemoveLabel(i, l)
    PROVE  labels' = [labels EXCEPT ![i] = @ \ {l}] /\ Faultless
  BY FaultShows DEF RemoveLabel, Faultless

(* The issue of a vote that a closer is busy with.                         *)
LEMMA CloserIssue ==
    ASSUME TypeInv, AgreeInv, NEW c \in Closers, job[c].at \notin {"resting", "dead"}
    PROVE  /\ job[c] \notin Off /\ job[c].vote \in Votes
           /\ issueOf[job[c].vote] \in Issues
           /\ status[job[c].vote] \in {"open", "closed"}
           /\ job[c].at \in TxSteps => status[job[c].vote] = "open"
<1>1. job[c] \in Jobs /\ JobOK(job[c])
  BY DEF TypeInv, TypeOK, WorkersWellFormed
<1>2. job[c].vote \in Votes /\ job[c].at \in TxSteps \cup ReportSteps /\ job[c] \notin Off
  BY <1>1 DEF JobOK, Jobs, JobSteps, Off, Resting, Dead
<1>3. job[c].at \in TxSteps => status[job[c].vote] = "open"
  BY <1>2, ProcessorAssumption DEF AgreeInv, LocksHeld
<1>4. job[c].at \in ReportSteps => status[job[c].vote] = "closed"
  BY DEF AgreeInv, ReportsCommitted
<1>5. issueOf[job[c].vote] \in Issues
  BY <1>2, <1>3, <1>4 DEF AgreeInv, StoredAsPosted
<1> QED
  BY <1>2, <1>3, <1>4, <1>5

(* What an untouched issue shows goes on being right.                      *)
LEMMA UntouchedShows ==
    ASSUME NEW i, Untouched(i)
    PROVE  /\ Outward(i)' = Outward(i)
           /\ ShowsOpen(i)' = ShowsOpen(i)
  BY DEF Untouched, Outward, ShowsOpen, ShowsNone

(* A handler whose issue is untouched, and that does not move.             *)
LEMMA HandlerStays ==
    ASSUME TypeInv, NEW g \in Handlers, task'[g] = task[g],
           task[g].at # "idle" => Untouched(task[g].issue),
           HandlerShows(g)
    PROVE  HandlerShows(g)'
<1>1. CASE task[g].at = "idle"
  BY <1>1 DEF HandlerShows
<1>2. CASE task[g].at # "idle"
  <2>1. Untouched(task[g].issue)
    BY <1>2
  <2>2. /\ Outward(task[g].issue)' = Outward(task[g].issue)
        /\ ShowsOpen(task[g].issue)' = ShowsOpen(task[g].issue)
    BY <2>1 DEF Untouched, Outward, ShowsOpen, ShowsNone
  <2> QED
    BY <2>1, <2>2 DEF HandlerShows, Untouched
<1> QED
  BY <1>1, <1>2

(* The same for a closer.                                                  *)
LEMMA CloserStays ==
    ASSUME TypeInv, NEW d \in Closers, job'[d] = job[d],
           job[d].at \notin {"resting", "dead"} =>
               /\ issueOf'[job[d].vote] = issueOf[job[d].vote]
               /\ Untouched(issueOf[job[d].vote]),
           CloserShows(d)
    PROVE  CloserShows(d)'
<1>1. CASE job[d].at \in {"resting", "dead"}
  BY <1>1 DEF CloserShows, TxSteps, ReportSteps
<1>2. CASE job[d].at \notin {"resting", "dead"}
  <2> DEFINE i == issueOf[job[d].vote]
  <2>1. Untouched(i) /\ issueOf'[job'[d].vote] = i
    BY <1>2
  <2>2. Outward(i)' = Outward(i) /\ ShowsOpen(i)' = ShowsOpen(i)
    BY <2>1 DEF Untouched, Outward, ShowsOpen, ShowsNone
  <2> QED
    BY <2>1, <2>2 DEF CloserShows, Untouched
<1> QED
  BY <1>1, <1>2

(* A handler that works on issue k leaves everybody else's view as it was. *)
LEMMA HandlerActs ==
    ASSUME TypeInv, AgreeInv, PacedInv, ViewInv, Faultless,
           NEW h \in Handlers, NEW k \in Issues, task[h].issue = k,
           UNCHANGED job,
           \A g \in Handlers \ {h} : task'[g] = task[g],
           \A c \in Closers : job[c].at \notin {"resting", "dead"} =>
               issueOf'[job[c].vote] = issueOf[job[c].vote],
           \A i \in Issues \ {k} : Untouched(i),
           task'[h] = Idle => Outward(k)',
           task'[h] # Idle => task'[h].issue = k /\ HandlerShows(h)',
           k \notin PullRequests => check'[k] = "none"
    PROVE  ViewInv'
<1>1. /\ \A g \in Handlers \ {h} : task[g].issue # k
      /\ \A c \in Closers : job[c].at \notin {"resting", "dead"} => issueOf[job[c].vote] # k
  BY CloserIssue, ProcessorAssumption DEF PacedInv, AtMostOneBusy, BusyWith
<1>2. \A g \in Handlers \ {h} : HandlerShows(g)'
  <2> TAKE g \in Handlers \ {h}
  <2>1. task[g].at # "idle" => task[g].issue \in Issues \ {k}
    BY <1>1 DEF TypeInv, WorkersWellFormed, TaskOK
  <2>2. HandlerShows(g)
    BY DEF ViewInv
  <2>3. task'[g] = task[g] /\ (task[g].at # "idle" => Untouched(task[g].issue))
    BY <2>1
  <2> QED
    BY <2>2, <2>3, HandlerStays
<1>3. HandlerShows(h)'
  <2>1. CASE task'[h] = Idle
    BY <2>1 DEF HandlerShows, Idle
  <2> QED
    BY <2>1
<1>4. \A d \in Closers : CloserShows(d)'
  <2> TAKE d \in Closers
  <2>1. CloserShows(d)
    BY DEF ViewInv
  <2>2. job[d].at \notin {"resting", "dead"} => issueOf[job[d].vote] \in Issues \ {k}
    BY <1>1, CloserIssue
  <2>3. /\ job'[d] = job[d]
        /\ job[d].at \notin {"resting", "dead"} =>
              /\ issueOf'[job[d].vote] = issueOf[job[d].vote]
              /\ Untouched(issueOf[job[d].vote])
    BY <2>2
  <2> QED
    BY <2>1, <2>3, CloserStays
<1>5. ASSUME NEW i \in Issues, BusyWith(i)' = {} PROVE Outward(i)'
  <2>1. CASE i = k
    BY <1>5, <2>1 DEF BusyWith
  <2>2. CASE i # k
    <3>1. Untouched(i)
      BY <2>2
    <3>2. \A g \in Handlers : task[g].issue # i
      BY <1>5, <2>2 DEF BusyWith
    <3>3. \A c \in Closers : job[c] \notin Off => issueOf[job[c].vote] # i
      <4> TAKE c \in Closers
      <4>1. job[c] \notin Off => job[c].at \notin {"resting", "dead"}
        BY DEF TypeInv, WorkersWellFormed, JobOK, Off, TxSteps, ReportSteps
      <4> QED
        BY <1>5, <4>1 DEF BusyWith
    <3>4. BusyWith(i) = {}
      BY <3>2, <3>3 DEF BusyWith
    <3> QED
      BY <3>1, <3>4, UntouchedShows DEF ViewInv
  <2> QED
    BY <2>1, <2>2
<1>6. \A i \in Issues \ PullRequests : check'[i] = "none"
  BY DEF ViewInv, Untouched
<1> QED
  BY <1>2, <1>3, <1>4, <1>5, <1>6 DEF ViewInv

(* So does a closer that works on a vote on issue k.                       *)
LEMMA CloserActs ==
    ASSUME TypeInv, AgreeInv, PacedInv, ViewInv, Faultless,
           NEW c \in Closers, NEW k \in Issues,
           job[c].at \notin {"resting", "dead"}, issueOf[job[c].vote] = k,
           UNCHANGED <<task, issueOf>>,
           \A d \in Closers \ {c} : job'[d] = job[d],
           \A i \in Issues \ {k} : Untouched(i),
           job'[c] \in Off => Outward(k)',
           job'[c] \notin Off => job'[c].vote = job[c].vote /\ CloserShows(c)',
           k \notin PullRequests => check'[k] = "none"
    PROVE  ViewInv'
<1>1. /\ \A h \in Handlers : task[h].issue # k
      /\ \A d \in Closers \ {c} : job[d].at \notin {"resting", "dead"} => issueOf[job[d].vote] # k
  BY CloserIssue, ProcessorAssumption DEF PacedInv, AtMostOneBusy, BusyWith
<1>2. \A h \in Handlers : HandlerShows(h)'
  <2> TAKE h \in Handlers
  <2>1. task[h].at # "idle" => task[h].issue \in Issues \ {k}
    BY <1>1 DEF TypeInv, WorkersWellFormed, TaskOK
  <2>2. HandlerShows(h)
    BY DEF ViewInv
  <2>3. task'[h] = task[h] /\ (task[h].at # "idle" => Untouched(task[h].issue))
    BY <2>1
  <2> QED
    BY <2>2, <2>3, HandlerStays
<1>3. CloserShows(c)'
  <2>1. CASE job'[c] \in Off
    BY <2>1 DEF CloserShows, Off, Resting, Dead, TxSteps, ReportSteps
  <2> QED
    BY <2>1
<1>4. \A d \in Closers \ {c} : CloserShows(d)'
  <2> TAKE d \in Closers \ {c}
  <2>1. CloserShows(d)
    BY DEF ViewInv
  <2>2. job[d].at \notin {"resting", "dead"} => issueOf[job[d].vote] \in Issues \ {k}
    BY <1>1, CloserIssue
  <2>3. /\ job'[d] = job[d]
        /\ job[d].at \notin {"resting", "dead"} =>
              /\ issueOf'[job[d].vote] = issueOf[job[d].vote]
              /\ Untouched(issueOf[job[d].vote])
    BY <2>2
  <2> QED
    BY <2>1, <2>3, CloserStays
<1>5. ASSUME NEW i \in Issues, BusyWith(i)' = {} PROVE Outward(i)'
  <2>1. CASE i = k
    BY <1>5, <2>1 DEF BusyWith
  <2>2. CASE i # k
    <3>1. Untouched(i)
      BY <2>2
    <3>2. BusyWith(i) = {}
      BY <1>5, <2>2 DEF BusyWith
    <3> QED
      BY <3>1, <3>2, UntouchedShows DEF ViewInv
  <2> QED
    BY <2>1, <2>2
<1>6. \A i \in Issues \ PullRequests : check'[i] = "none"
  BY DEF ViewInv, Untouched
<1> QED
  BY <1>2, <1>3, <1>4, <1>5, <1>6 DEF ViewInv

(* A command is only taken when nobody is busy with its issue.             *)
LEMMA ReceiveShows ==
    ASSUME TypeInv, AgreeInv, ViewInv, Faultless', AtMostOneBusy',
           NEW h \in Handlers, NEW i \in Issues, ReceiveCreate(h, i) \/ ReceiveCancel(h, i)
    PROVE  ViewInv'
<1>1. PICK s \in {"has_vote_open", "cancel_vote"} :
          task' = [task EXCEPT ![h] = [at |-> s, issue |-> i, vote |-> None]]
  BY DEF ReceiveCreate, ReceiveCancel
<1>2. task[h] = Idle /\ UNCHANGED <<dbVars, ghVars, job>>
  BY DEF ReceiveCreate, ReceiveCancel
<1>3. /\ task'[h].at = s /\ task'[h].issue = i
      /\ \A g \in Handlers \ {h} : task'[g] = task[g]
      /\ UNCHANGED <<status, issueOf, labels, check, job>>
  BY <1>1, <1>2 DEF TypeInv, TypeOK, dbVars, ghVars
<1>4. Faultless
  BY StepsNamed DEF ReceiveCreate, ReceiveCancel, Spend, Faultless, TypeInv, TypeOK
<1>5. \A j : Untouched(j)
  BY <1>3 DEF Untouched, OpenVotesOn
<1>6. \A j \in Issues : BusyWith(j) \subseteq BusyWith(j)' \ {h}
  BY <1>2, <1>3, ProcessorAssumption DEF BusyWith, Idle
<1>7. h \in BusyWith(i)'
  BY <1>3 DEF BusyWith
<1>8. BusyWith(i) = {}
  BY <1>6, <1>7 DEF AtMostOneBusy
<1>9. Outward(i)'
  BY <1>4, <1>5, <1>8, UntouchedShows DEF ViewInv
<1>10. HandlerShows(h)'
  BY <1>3, <1>9 DEF HandlerShows
<1>11. \A g \in Handlers \ {h} : HandlerShows(g)'
  BY <1>3, <1>4, <1>5, HandlerStays DEF ViewInv
<1>12. \A c \in Closers : CloserShows(c)'
  BY <1>3, <1>4, <1>5, CloserStays DEF ViewInv
<1>13. \A j \in Issues : BusyWith(j)' = {} => Outward(j)'
  BY <1>4, <1>5, <1>6, UntouchedShows DEF ViewInv
<1> QED
  BY <1>3, <1>4, <1>10, <1>11, <1>12, <1>13 DEF ViewInv

(* Nor is a vote picked while somebody is.                                 *)
LEMMA PickShows ==
    ASSUME TypeInv, AgreeInv, ViewInv, Faultless', AtMostOneBusy',
           NEW c \in Closers, NEW v \in Votes, Pick(c, v)
    PROVE  ViewInv'
<1>1. /\ job[c] = Resting /\ status[v] = "open"
      /\ job' = [job EXCEPT ![c] = [at |-> "calculate", vote |-> v, outcome |-> "none"]]
      /\ UNCHANGED <<status, issueOf, labels, check, task, spent>>
  BY DEF Pick, PendingFinished, ghVars
<1>2. /\ job'[c].at = "calculate" /\ job'[c].vote = v /\ job'[c] \notin Off
      /\ \A d \in Closers \ {c} : job'[d] = job[d]
  BY <1>1 DEF TypeInv, TypeOK, Off, Resting, Dead
<1>3. PICK i \in Issues : i = issueOf[v]
  BY <1>1 DEF AgreeInv, StoredAsPosted
<1>4. Faultless
  BY <1>1 DEF Faultless
<1>5. \A j : Untouched(j)
  BY <1>1 DEF Untouched, OpenVotesOn
<1>6. \A j \in Issues : BusyWith(j) \subseteq BusyWith(j)' \ {c}
  BY <1>1, <1>2, ProcessorAssumption DEF BusyWith, Off
<1>7. c \in BusyWith(i)'
  BY <1>1, <1>2, <1>3 DEF BusyWith
<1>8. BusyWith(i) = {}
  BY <1>3, <1>6, <1>7 DEF AtMostOneBusy
<1>9. Outward(i)'
  BY <1>3, <1>4, <1>5, <1>8, UntouchedShows DEF ViewInv
<1>10. CloserShows(c)'
  <2>1. Outward(issueOf[job[c].vote])'
    BY <1>1, <1>2, <1>3, <1>9
  <2> QED
    BY <1>2, <2>1 DEF CloserShows, TxSteps, ReportSteps
<1>11. \A d \in Closers \ {c} : CloserShows(d)'
  BY <1>1, <1>2, <1>4, <1>5, CloserStays DEF ViewInv
<1>12. \A h \in Handlers : HandlerShows(h)'
  BY <1>1, <1>4, <1>5, HandlerStays DEF ViewInv
<1>13. \A j \in Issues : BusyWith(j)' = {} => Outward(j)'
  BY <1>4, <1>5, <1>6, UntouchedShows DEF ViewInv
<1> QED
  BY <1>1, <1>4, <1>10, <1>11, <1>12, <1>13 DEF ViewInv

(* Where a handler is, its vote and its issue when it is not idle.         *)
LEMMA HandlerIssue ==
    ASSUME TypeInv, NEW h \in Handlers, task[h].at # "idle"
    PROVE  task[h].issue \in Issues /\ task[h] \in Tasks /\ task[h] # Idle
  BY DEF TypeInv, TypeOK, WorkersWellFormed, TaskOK, Idle

(* A handler that goes on to a step, or ends, and does not write to the    *)
(* database.                                                               *)
LEMMA HandlerGoes ==
    ASSUME TypeInv, AgreeInv, PacedInv, ViewInv, Faultless,
           NEW h \in Handlers, NEW k \in Issues, task[h].issue = k,
           UNCHANGED <<status, issueOf, job>>,
           \A i \in Issues \ {k} : labels'[i] = labels[i] /\ check'[i] = check[i],
           \A g \in Handlers \ {h} : task'[g] = task[g],
           task'[h] = Idle => Outward(k)',
           task'[h] # Idle => task'[h].issue = k /\ HandlerShows(h)',
           k \notin PullRequests => check'[k] = "none"
    PROVE  ViewInv'
<1>1. \A i \in Issues \ {k} : Untouched(i)
  BY DEF Untouched, OpenVotesOn
<1> QED
  BY <1>1, HandlerActs

(* A handler that moves to a step.                                         *)
LEMMA HandlerMoved ==
    ASSUME TypeInv, NEW h \in Handlers, NEW s, task' = [task EXCEPT ![h].at = s]
    PROVE  /\ task'[h].at = s /\ task'[h].issue = task[h].issue
           /\ \A g \in Handlers \ {h} : task'[g] = task[g]
  BY DEF TypeInv, TypeOK, Tasks

(* One that ends its command.                                              *)
LEMMA HandlerEnded ==
    ASSUME TypeInv, NEW h \in Handlers, task' = [task EXCEPT ![h] = Idle]
    PROVE  task'[h] = Idle /\ \A g \in Handlers \ {h} : task'[g] = task[g]
  BY DEF TypeInv, TypeOK

(* The question whether a vote is open changes nothing that is shown.      *)
LEMMA HasVoteOpenShows ==
    ASSUME TypeInv, AgreeInv, PacedInv, ViewInv, Faultless', NEW h \in Handlers, HasVoteOpen(h)
    PROVE  ViewInv'
<1>1. /\ task[h].at = "has_vote_open"
      /\ UNCHANGED <<status, issueOf, labels, check, job, spent>>
  BY DEF HasVoteOpen, dbVars, ghVars
<1>2. PICK k \in Issues : k = task[h].issue
  BY <1>1, HandlerIssue
<1>3. Faultless /\ Outward(k) /\ (k \notin PullRequests => check[k] = "none")
  BY <1>1, <1>2 DEF Faultless, ViewInv, HandlerShows
<1>4. Outward(k)'
  BY <1>1, <1>3, UntouchedShows DEF Untouched, OpenVotesOn
<1>5. /\ task'[h] = Idle \/ (task'[h].at = "post_created" /\ task'[h].issue = k)
      /\ \A g \in Handlers \ {h} : task'[g] = task[g]
  BY <1>2 DEF HasVoteOpen, Tasks, TypeInv, TypeOK
<1>6. task'[h] # Idle => HandlerShows(h)'
  BY <1>4, <1>5 DEF HandlerShows
<1> QED
  BY <1>1, <1>2, <1>3, <1>4, <1>5, <1>6, HandlerGoes

(* A posted comment is not an open vote.                                   *)
LEMMA PostCreatedShows ==
    ASSUME TypeInv, AgreeInv, PacedInv, ViewInv, Faultless', NEW h \in Handlers, PostCreated(h)
    PROVE  ViewInv'
<1>1. PICK v \in Votes :
          /\ status[v] = "none" /\ status' = [status EXCEPT ![v] = "posted"]
          /\ issueOf' = [issueOf EXCEPT ![v] = task[h].issue]
          /\ \/ task' = [task EXCEPT ![h] = Taking(h, "store_vote", v)] /\ UNCHANGED spent
             \/ Spend("fault") /\ task' = [task EXCEPT ![h] = Idle]
  BY DEF PostCreated
<1>2. task[h].at = "post_created" /\ UNCHANGED <<labels, check, job>>
  BY DEF PostCreated, ghVars
<1>3. PICK k \in Issues : k = task[h].issue
  BY <1>2, HandlerIssue
<1>4. task' = [task EXCEPT ![h] = Taking(h, "store_vote", v)] /\ UNCHANGED spent
  BY <1>1, FaultShows DEF TypeInv
<1>5. /\ task'[h].at = "store_vote" /\ task'[h].issue = k
      /\ \A g \in Handlers \ {h} : task'[g] = task[g]
  BY <1>3, <1>4, StepsNamed, TaskTakes DEF TypeInv, TypeOK
<1>6. \A i : Untouched(i)
  BY <1>1, <1>2 DEF Untouched, OpenVotesOn, TypeInv, TypeOK
<1>7. Faultless /\ Outward(k) /\ (k \notin PullRequests => check[k] = "none")
  BY <1>2, <1>3, <1>4 DEF Faultless, ViewInv, HandlerShows
<1>8. Outward(k)'
  BY <1>6, <1>7, UntouchedShows
<1>9. HandlerShows(h)'
  BY <1>5, <1>8 DEF HandlerShows
<1>10. \A c \in Closers : job[c].at \notin {"resting", "dead"} => issueOf'[job[c].vote] = issueOf[job[c].vote]
  BY <1>1, CloserIssue DEF TypeInv, TypeOK
<1> QED
  BY <1>2, <1>3, <1>5, <1>6, <1>7, <1>8, <1>9, <1>10, HandlerActs

(* The vote that is stored is open; the issue does not show it yet.        *)
LEMMA StoreVoteShows ==
    ASSUME TypeInv, AgreeInv, PacedInv, ViewInv, Faultless', NEW h \in Handlers, StoreVote(h)
    PROVE  ViewInv'
<1>1. /\ task[h].at = "store_vote" /\ task[h].vote \in Votes
      /\ issueOf[task[h].vote] = task[h].issue /\ status[task[h].vote] # "closed"
      /\ status' = [status EXCEPT ![task[h].vote] = "open"]
      /\ UNCHANGED <<issueOf, labels, check, job>>
  BY DEF StoreVote, ghVars, TypeInv, WorkersWellFormed, TaskOK, AgreeInv, StoredAsPosted
<1>2. PICK v \in Votes, k \in Issues : v = task[h].vote /\ k = task[h].issue
  BY <1>1, HandlerIssue
<1>3. PICK s : s = (IF k \in PullRequests THEN "create_check" ELSE "remove_closed")
  OBVIOUS
<1>4. task' = [task EXCEPT ![h].at = s] /\ Faultless
  <2>1. Answered(h, s)
    BY <1>2, <1>3 DEF StoreVote
  <2> QED
    BY <2>1, AnsweredFaultless DEF TypeInv
<1>5. /\ task'[h].at = s /\ task'[h].issue = k
      /\ \A g \in Handlers \ {h} : task'[g] = task[g]
  BY <1>2, <1>4, HandlerMoved
<1>6. \A i \in Issues \ {k} : Untouched(i)
  BY <1>1, <1>2 DEF Untouched, OpenVotesOn, TypeInv, TypeOK
<1>7. OpenVotesOn(k) = {} /\ v \in OpenVotesOn(k)'
  BY <1>1, <1>2 DEF PacedInv, AnswerHolds, OpenVotesOn, TypeInv, TypeOK
<1>8. ShowsNone(k) /\ (k \notin PullRequests => check[k] = "none")
  BY <1>1, <1>2, <1>4, <1>7 DEF ViewInv, HandlerShows, Outward
<1>9. HandlerShows(h)'
  BY <1>1, <1>3, <1>5, <1>7, <1>8 DEF HandlerShows, ShowsNone
<1>10. task'[h] # Idle
  BY <1>3, <1>5 DEF Idle
<1> QED
  BY <1>1, <1>2, <1>4, <1>5, <1>6, <1>8, <1>9, <1>10, HandlerActs

(* The check run of the new vote.                                          *)
LEMMA CreateCheckShows ==
    ASSUME TypeInv, AgreeInv, PacedInv, ViewInv, Faultless', NEW h \in Handlers, CreateCheck(h)
    PROVE  ViewInv'
<1>1. /\ task[h].at = "create_check"
      /\ check' = [check EXCEPT ![task[h].issue] = "in_progress"]
      /\ UNCHANGED <<status, issueOf, labels, job>>
  BY DEF CreateCheck, dbVars
<1>2. PICK k \in Issues : k = task[h].issue
  BY <1>1, HandlerIssue
<1>3. task' = [task EXCEPT ![h].at = "remove_closed"] /\ Faultless
  BY AnsweredFaultless DEF CreateCheck, TypeInv
<1>4. /\ task'[h].at = "remove_closed" /\ task'[h].issue = k
      /\ \A g \in Handlers \ {h} : task'[g] = task[g]
  BY <1>2, <1>3, HandlerMoved
<1>5. OpenVotesOn(k)' # {} /\ "open" \notin labels'[k] /\ k \in PullRequests
  BY <1>1, <1>2, <1>3 DEF ViewInv, HandlerShows, OpenVotesOn
<1>6. /\ check'[k] = "in_progress"
      /\ \A i \in Issues \ {k} : check'[i] = check[i]
  BY <1>1, <1>2 DEF TypeInv, TypeOK
<1>7. HandlerShows(h)'
  BY <1>4, <1>5, <1>6 DEF HandlerShows
<1>8. task'[h] # Idle
  BY <1>4 DEF Idle
<1> QED
  BY <1>1, <1>2, <1>3, <1>4, <1>5, <1>6, <1>7, <1>8, HandlerGoes

(* The old labels go one by one.                                           *)
LEMMA RemoveOldLabelShows ==
    ASSUME TypeInv, AgreeInv, PacedInv, ViewInv, Faultless', NEW h \in Handlers,
           NEW s, NEW l, NEW next, RemoveOldLabel(h, s, l, next),
           <<s, l, next>> \in {<<"remove_closed", "closed", "remove_passed">>,
                               <<"remove_passed", "passed", "remove_failed">>,
                               <<"remove_failed", "failed", "add_labels">>}
    PROVE  ViewInv'
<1>1. /\ task[h].at = s /\ task' = [task EXCEPT ![h].at = next]
      /\ UNCHANGED <<status, issueOf, check, job>>
  BY DEF RemoveOldLabel, dbVars
<1>2. PICK k \in Issues : k = task[h].issue
  BY <1>1, HandlerIssue
<1>3. labels' = [labels EXCEPT ![k] = @ \ {l}] /\ Faultless
  BY <1>2, RemoveLabelFaultless DEF RemoveOldLabel, TypeInv
<1>4. /\ task'[h].at = next /\ task'[h].issue = k
      /\ \A g \in Handlers \ {h} : task'[g] = task[g]
  BY <1>1, <1>2, HandlerMoved
<1>5. /\ labels'[k] = labels[k] \ {l}
      /\ \A i \in Issues \ {k} : labels'[i] = labels[i]
  BY <1>3 DEF TypeInv, TypeOK
<1>6. HandlerShows(h) /\ (k \notin PullRequests => check'[k] = "none")
  BY <1>1, <1>3 DEF ViewInv
<1>7. OpenVotesOn(k)' = OpenVotesOn(k)
  BY <1>1 DEF OpenVotesOn
<1>8. HandlerShows(h)'
  BY <1>1, <1>2, <1>4, <1>5, <1>6, <1>7 DEF HandlerShows
<1>9. task'[h] # Idle
  BY <1>4 DEF Idle
<1> QED
  BY <1>1, <1>2, <1>3, <1>4, <1>5, <1>6, <1>8, <1>9, HandlerGoes

(* With the new labels the issue shows its vote.                           *)
LEMMA AddOpenLabelsShows ==
    ASSUME TypeInv, AgreeInv, PacedInv, ViewInv, Faultless', NEW h \in Handlers, AddOpenLabels(h)
    PROVE  ViewInv'
<1>1. /\ task[h].at = "add_labels" /\ task' = [task EXCEPT ![h] = Idle]
      /\ labels' = [labels EXCEPT ![task[h].issue] = @ \cup {"gitvote", "open"}]
      /\ UNCHANGED <<status, issueOf, check, job, spent>>
  BY DEF AddOpenLabels, dbVars
<1>2. PICK k \in Issues : k = task[h].issue
  BY <1>1, HandlerIssue
<1>3. Faultless
  BY <1>1 DEF Faultless
<1>4. task'[h] = Idle /\ \A g \in Handlers \ {h} : task'[g] = task[g]
  BY <1>1, HandlerEnded
<1>5. /\ labels'[k] = labels[k] \cup {"gitvote", "open"}
      /\ \A i \in Issues \ {k} : labels'[i] = labels[i]
      /\ labels[k] \subseteq Labels
  BY <1>1, <1>2 DEF TypeInv, TypeOK
<1>6. /\ OpenVotesOn(k)' # {} /\ (k \in PullRequests => check'[k] = "in_progress")
      /\ labels[k] \cap {"closed", "passed", "failed", "open"} = {}
      /\ k \notin PullRequests => check'[k] = "none"
  BY <1>1, <1>2, <1>3 DEF ViewInv, HandlerShows, OpenVotesOn
<1>7. labels'[k] = {"gitvote", "open"}
  BY <1>5, <1>6 DEF Labels
<1>8. Outward(k)'
  BY <1>6, <1>7 DEF Outward, ShowsOpen
<1> QED
  BY <1>1, <1>2, <1>3, <1>4, <1>5, <1>6, <1>8, HandlerGoes

(* Cancelling deletes the one open vote of the issue, if there is one.     *)
LEMMA CancelVoteShows ==
    ASSUME TypeInv, AgreeInv, PacedInv, ViewInv, Faultless', NEW h \in Handlers, CancelVote(h)
    PROVE  ViewInv'
<1>1. /\ task[h].at = "cancel_vote" /\ UNCHANGED <<issueOf, labels, check, job>>
      /\ status' = [v \in Votes |-> IF v \in OpenVotesOn(task[h].issue)
                                    THEN "cancelled" ELSE status[v]]
  BY DEF CancelVote, ghVars
<1>2. PICK k \in Issues : k = task[h].issue
  BY <1>1, HandlerIssue
<1>3. \/ /\ Cardinality(OpenVotesOn(k)) # 1 /\ UNCHANGED spent
         /\ task' = [task EXCEPT ![h] = Idle]
      \/ \E v \in Votes :
            /\ OpenVotesOn(k) = {v} /\ UNCHANGED spent
            /\ task' = [task EXCEPT ![h] = Taking(h, "post_cancelled", v)]
  BY <1>2, FaultShows DEF CancelVote, TypeInv
<1>4. Faultless /\ Outward(k) /\ (k \notin PullRequests => check[k] = "none")
  BY <1>1, <1>2, <1>3 DEF Faultless, ViewInv, HandlerShows
<1>5. \A i \in Issues \ {k} : Untouched(i)
  BY <1>1, <1>2 DEF Untouched, OpenVotesOn
<1>6. OpenVotesOn(k)' = {}
  BY <1>1, <1>2 DEF OpenVotesOn
<1>7. CASE /\ Cardinality(OpenVotesOn(k)) # 1
           /\ task' = [task EXCEPT ![h] = Idle]
  <2>1. OpenVotesOn(k) = {}
    <3> SUFFICES ASSUME NEW v \in OpenVotesOn(k) PROVE FALSE
      OBVIOUS
    <3>1. OpenVotesOn(k) = {v}
      BY DEF PacedInv, OneOpenVote
    <3> QED
      BY <1>7, <3>1, FS_Singleton
  <2>2. Outward(k)'
    BY <1>1, <1>4, <1>6, <2>1 DEF Outward, ShowsNone
  <2>3. task'[h] = Idle /\ \A g \in Handlers \ {h} : task'[g] = task[g]
    BY <1>7, HandlerEnded
  <2> QED
    BY <1>1, <1>2, <1>4, <1>5, <2>2, <2>3, HandlerActs
<1>8. ASSUME NEW v \in Votes, OpenVotesOn(k) = {v},
             task' = [task EXCEPT ![h] = Taking(h, "post_cancelled", v)]
      PROVE  ViewInv'
  <2>1. /\ task'[h].at = "post_cancelled" /\ task'[h].issue = k
        /\ \A g \in Handlers \ {h} : task'[g] = task[g]
    BY <1>2, <1>8, StepsNamed, TaskTakes DEF TypeInv, TypeOK
  <2>2. ShowsOpen(k)'
    BY <1>1, <1>4, <1>8 DEF Outward, ShowsOpen
  <2>3. HandlerShows(h)' /\ task'[h] # Idle
    BY <1>6, <2>1, <2>2 DEF HandlerShows, Idle
  <2> QED
    BY <1>1, <1>2, <1>4, <1>5, <2>1, <2>3, HandlerActs
<1> QED
  BY <1>3, <1>7, <1>8

(* Whoever cancelled the vote is told.                                     *)
LEMMA PostCancelledShows ==
    ASSUME TypeInv, AgreeInv, PacedInv, ViewInv, Faultless', NEW h \in Handlers, PostCancelled(h)
    PROVE  ViewInv'
<1>1. task[h].at = "post_cancelled" /\ UNCHANGED <<status, issueOf, labels, check, job>>
  BY DEF PostCancelled, dbVars
<1>2. PICK k \in Issues : k = task[h].issue
  BY <1>1, HandlerIssue
<1>3. PICK s : s = (IF k \in PullRequests THEN "cancel_check" ELSE "cancel_unlabel")
  OBVIOUS
<1>4. task' = [task EXCEPT ![h].at = s] /\ Faultless
  <2>1. Answered(h, s)
    BY <1>2, <1>3 DEF PostCancelled
  <2> QED
    BY <2>1, AnsweredFaultless DEF TypeInv
<1>5. /\ task'[h].at = s /\ task'[h].issue = k
      /\ \A g \in Handlers \ {h} : task'[g] = task[g]
  BY <1>2, <1>4, HandlerMoved
<1>6. /\ OpenVotesOn(k)' = {} /\ ShowsOpen(k) /\ ShowsOpen(k)'
      /\ k \notin PullRequests => check'[k] = "none"
  BY <1>1, <1>2, <1>4 DEF ViewInv, HandlerShows, OpenVotesOn, ShowsOpen
<1>7. HandlerShows(h)' /\ task'[h] # Idle
  BY <1>1, <1>3, <1>5, <1>6 DEF HandlerShows, ShowsOpen, Idle
<1> QED
  BY <1>1, <1>2, <1>4, <1>5, <1>6, <1>7, HandlerGoes

(* The check run of a cancelled vote succeeds ...                          *)
LEMMA CancelCheckShows ==
    ASSUME TypeInv, AgreeInv, PacedInv, ViewInv, Faultless', NEW h \in Handlers, CancelCheck(h)
    PROVE  ViewInv'
<1>1. /\ task[h].at = "cancel_check"
      /\ check' = [check EXCEPT ![task[h].issue] = "success"]
      /\ UNCHANGED <<status, issueOf, labels, job>>
  BY DEF CancelCheck, dbVars
<1>2. PICK k \in Issues : k = task[h].issue
  BY <1>1, HandlerIssue
<1>3. task' = [task EXCEPT ![h].at = "cancel_unlabel"] /\ Faultless
  BY AnsweredFaultless DEF CancelCheck, TypeInv
<1>4. /\ task'[h].at = "cancel_unlabel" /\ task'[h].issue = k
      /\ \A g \in Handlers \ {h} : task'[g] = task[g]
  BY <1>2, <1>3, HandlerMoved
<1>5. OpenVotesOn(k)' = {} /\ labels'[k] = {"gitvote", "open"} /\ k \in PullRequests
  BY <1>1, <1>2, <1>3 DEF ViewInv, HandlerShows, OpenVotesOn, ShowsOpen
<1>6. check'[k] = "success" /\ \A i \in Issues \ {k} : check'[i] = check[i]
  BY <1>1, <1>2 DEF TypeInv, TypeOK
<1>7. HandlerShows(h)' /\ task'[h] # Idle
  BY <1>4, <1>5, <1>6 DEF HandlerShows, Idle
<1> QED
  BY <1>1, <1>2, <1>3, <1>4, <1>5, <1>6, <1>7, HandlerGoes

(* ... and the label goes.                                                 *)
LEMMA CancelUnlabelShows ==
    ASSUME TypeInv, AgreeInv, PacedInv, ViewInv, Faultless', NEW h \in Handlers, CancelUnlabel(h)
    PROVE  ViewInv'
<1>1. /\ task[h].at = "cancel_unlabel" /\ task' = [task EXCEPT ![h] = Idle]
      /\ UNCHANGED <<status, issueOf, check, job>>
  BY DEF CancelUnlabel, dbVars
<1>2. PICK k \in Issues : k = task[h].issue
  BY <1>1, HandlerIssue
<1>3. labels' = [labels EXCEPT ![k] = @ \ {"open"}] /\ Faultless
  BY <1>2, RemoveLabelFaultless DEF CancelUnlabel, TypeInv
<1>4. task'[h] = Idle /\ \A g \in Handlers \ {h} : task'[g] = task[g]
  BY <1>1, HandlerEnded
<1>5. /\ labels'[k] = labels[k] \ {"open"}
      /\ \A i \in Issues \ {k} : labels'[i] = labels[i]
  BY <1>3 DEF TypeInv, TypeOK
<1>6. /\ OpenVotesOn(k)' = {} /\ labels[k] = {"gitvote", "open"}
      /\ check'[k] = IF k \in PullRequests THEN "success" ELSE "none"
  BY <1>1, <1>2, <1>3 DEF ViewInv, HandlerShows, OpenVotesOn
<1>7. Outward(k)'
  BY <1>5, <1>6 DEF Outward, ShowsNone
<1> QED
  BY <1>1, <1>2, <1>3, <1>4, <1>5, <1>6, <1>7, HandlerGoes

(* A closer that goes on to a step, or rests, and does not write to the    *)
(* votes.                                                                  *)
LEMMA CloserGoes ==
    ASSUME TypeInv, AgreeInv, PacedInv, ViewInv, Faultless,
           NEW c \in Closers, NEW k \in Issues,
           job[c].at \notin {"resting", "dead"}, issueOf[job[c].vote] = k,
           UNCHANGED <<status, issueOf, task>>,
           \A i \in Issues \ {k} : labels'[i] = labels[i] /\ check'[i] = check[i],
           \A d \in Closers \ {c} : job'[d] = job[d],
           job'[c] \in Off => Outward(k)',
           job'[c] \notin Off => job'[c].vote = job[c].vote /\ CloserShows(c)',
           k \notin PullRequests => check'[k] = "none"
    PROVE  ViewInv'
<1>1. \A i \in Issues \ {k} : Untouched(i)
  BY DEF Untouched, OpenVotesOn
<1> QED
  BY <1>1, CloserActs

(* A closer that moves to a step.                                          *)
LEMMA CloserMoved ==
    ASSUME TypeInv, NEW c \in Closers, NEW s, job' = [job EXCEPT ![c].at = s]
    PROVE  /\ job'[c].at = s /\ job'[c].vote = job[c].vote /\ job'[c].outcome = job[c].outcome
           /\ \A d \in Closers \ {c} : job'[d] = job[d]
  BY DEF TypeInv, TypeOK, Jobs

(* One that stops.                                                        *)
LEMMA CloserRests ==
    ASSUME TypeInv, NEW c \in Closers, NEW off \in Off, job' = [job EXCEPT ![c] = off]
    PROVE  job'[c] \in Off /\ \A d \in Closers \ {c} : job'[d] = job[d]
  BY DEF TypeInv, TypeOK

(* Calculating the results shows nothing.                                  *)
LEMMA CalculateShows ==
    ASSUME TypeInv, AgreeInv, PacedInv, ViewInv, Faultless', NEW c \in Closers, Calculate(c)
    PROVE  ViewInv'
<1>1. /\ job[c].at = "calculate"
      /\ UNCHANGED <<status, issueOf, labels, check, task, spent>>
  BY DEF Calculate, ghVars
<1>2. PICK k \in Issues : k = issueOf[job[c].vote]
  BY <1>1, CloserIssue
<1>3. Faultless /\ Outward(k) /\ (k \notin PullRequests => check[k] = "none")
  BY <1>1, <1>2 DEF Faultless, ViewInv, CloserShows, TxSteps
<1>4. Outward(k)'
  BY <1>1, <1>3, UntouchedShows DEF Untouched, OpenVotesOn
<1>5. /\ \/ job'[c] \in Off
         \/ job'[c].at = "store_results" /\ job'[c].vote = job[c].vote
      /\ \A d \in Closers \ {c} : job'[d] = job[d]
  <2>1. ASSUME NEW o \in Outcomes,
               job' = [job EXCEPT ![c].at = "store_results", ![c].outcome = o]
        PROVE  /\ job'[c].at = "store_results" /\ job'[c].vote = job[c].vote
               /\ \A d \in Closers \ {c} : job'[d] = job[d]
    BY <2>1, JobTakes, StepsNamed DEF TypeInv, TypeOK
  <2> QED
    BY <2>1, CloserRests, RestTypes DEF Calculate
<1>6. job'[c] \notin Off => job'[c].vote = job[c].vote /\ CloserShows(c)'
  BY <1>1, <1>2, <1>4, <1>5 DEF CloserShows, ReportSteps
<1> QED
  BY <1>1, <1>2, <1>3, <1>4, <1>5, <1>6, CloserGoes

(* Closing the vote closes the only open one of its issue.                 *)
LEMMA StoreResultsShows ==
    ASSUME TypeInv, AgreeInv, PacedInv, ViewInv, Faultless', NEW c \in Closers, StoreResults(c)
    PROVE  ViewInv'
<1>1. /\ job[c].at = "store_results"
      /\ status' = [status EXCEPT ![job[c].vote] = "closed"]
      /\ UNCHANGED <<issueOf, labels, check, task>>
  BY DEF StoreResults, ghVars
<1>2. PICK v \in Votes, k \in Issues :
          v = job[c].vote /\ k = issueOf[v] /\ status[v] = "open"
  BY <1>1, CloserIssue DEF TxSteps
<1>3. PICK s : s = (IF job[c].outcome = "missing" THEN AfterPost(v) ELSE "post_closed")
  OBVIOUS
<1>4. job' = [job EXCEPT ![c].at = s] /\ Faultless
  <2>1. Reported(c, s)
    BY <1>2, <1>3 DEF StoreResults
  <2> QED
    BY <2>1, ReportedFaultless DEF TypeInv
<1>5. /\ job'[c].at = s /\ job'[c].vote = v
      /\ \A d \in Closers \ {c} : job'[d] = job[d]
  BY <1>2, <1>4, CloserMoved
<1>6. \A i \in Issues \ {k} : Untouched(i)
  BY <1>1, <1>2 DEF Untouched, OpenVotesOn, TypeInv, TypeOK
<1>7. v \in OpenVotesOn(k) /\ OpenVotesOn(k)' = {}
  BY <1>1, <1>2 DEF PacedInv, OneOpenVote, OpenVotesOn, TypeInv, TypeOK
<1>8. ShowsOpen(k) /\ ShowsOpen(k)' /\ (k \notin PullRequests => check[k] = "none")
  BY <1>1, <1>2, <1>4, <1>7 DEF ViewInv, CloserShows, TxSteps, Outward, ShowsOpen
<1>9. s \in {"post_closed"} \cup {IF k \in PullRequests THEN "close_check" ELSE "close_unlabel"}
  BY <1>2, <1>3 DEF AfterPost
<1>10. CloserShows(c)'
  BY <1>1, <1>2, <1>5, <1>7, <1>8, <1>9 DEF CloserShows, ShowsOpen, TxSteps
<1>11. job'[c] \notin Off
  BY <1>5, <1>9 DEF Off, Resting, Dead
<1> QED
  BY <1>1, <1>2, <1>4, <1>5, <1>6, <1>8, <1>10, <1>11, CloserActs

(* What is posted does not show.                                           *)
LEMMA PostClosedShows ==
    ASSUME TypeInv, AgreeInv, PacedInv, ViewInv, Faultless', NEW c \in Closers, PostClosed(c)
    PROVE  ViewInv'
<1>1. job[c].at = "post_closed" /\ UNCHANGED <<status, issueOf, labels, check, task>>
  BY DEF PostClosed, dbVars
<1>2. PICK v \in Votes, k \in Issues : v = job[c].vote /\ k = issueOf[v]
  BY <1>1, CloserIssue
<1>3. PICK s : s = (IF k \in PullRequests THEN "close_check" ELSE "close_unlabel")
  OBVIOUS
<1>4. job' = [job EXCEPT ![c].at = s] /\ Faultless
  <2>1. Reported(c, s)
    BY <1>2, <1>3 DEF PostClosed, AfterPost
  <2> QED
    BY <2>1, ReportedFaultless DEF TypeInv
<1>5. /\ job'[c].at = s /\ job'[c].vote = v
      /\ \A d \in Closers \ {c} : job'[d] = job[d]
  BY <1>2, <1>4, CloserMoved
<1>6. OpenVotesOn(k)' = {} /\ ShowsOpen(k) /\ (k \notin PullRequests => check[k] = "none")
  BY <1>1, <1>2, <1>4 DEF ViewInv, CloserShows, ReportSteps, OpenVotesOn
<1>7. CloserShows(c)' /\ job'[c] \notin Off
  BY <1>1, <1>2, <1>3, <1>5, <1>6 DEF CloserShows, ShowsOpen, TxSteps, Off, Resting, Dead
<1> QED
  BY <1>1, <1>2, <1>4, <1>5, <1>6, <1>7, CloserGoes

(* The check run tells the outcome, ...                                    *)
LEMMA CloseCheckShows ==
    ASSUME TypeInv, AgreeInv, PacedInv, ViewInv, Faultless', NEW c \in Closers, CloseCheck(c)
    PROVE  ViewInv'
<1>1. /\ job[c].at = "close_check" /\ UNCHANGED <<status, issueOf, labels, task>>
      /\ check' = [check EXCEPT ![issueOf[job[c].vote]] =
                      IF job[c].outcome = "failed" THEN "failure" ELSE "success"]
  BY DEF CloseCheck, dbVars
<1>2. PICK v \in Votes, k \in Issues : v = job[c].vote /\ k = issueOf[v]
  BY <1>1, CloserIssue
<1>3. job' = [job EXCEPT ![c].at = "close_unlabel"] /\ Faultless
  BY ReportedFaultless DEF CloseCheck, TypeInv
<1>4. /\ job'[c].at = "close_unlabel" /\ job'[c].vote = v /\ job'[c].outcome = job[c].outcome
      /\ \A d \in Closers \ {c} : job'[d] = job[d]
  BY <1>2, <1>3, CloserMoved
<1>5. OpenVotesOn(k)' = {} /\ labels'[k] = {"gitvote", "open"} /\ k \in PullRequests
  BY <1>1, <1>2, <1>3 DEF ViewInv, CloserShows, ReportSteps, OpenVotesOn, ShowsOpen
<1>6. /\ check'[k] = IF job[c].outcome = "failed" THEN "failure" ELSE "success"
      /\ \A i \in Issues \ {k} : check'[i] = check[i]
  BY <1>1, <1>2 DEF TypeInv, TypeOK
<1>7. CloserShows(c)' /\ job'[c] \notin Off
  BY <1>1, <1>2, <1>4, <1>5, <1>6 DEF CloserShows, TxSteps, Off, Resting, Dead
<1> QED
  BY <1>1, <1>2, <1>3, <1>4, <1>5, <1>6, <1>7, CloserGoes

(* ... the label "open" goes ...                                           *)
LEMMA CloseUnlabelShows ==
    ASSUME TypeInv, AgreeInv, PacedInv, ViewInv, Faultless', NEW c \in Closers, CloseUnlabel(c)
    PROVE  ViewInv'
<1>1. /\ job[c].at = "close_unlabel" /\ UNCHANGED <<status, issueOf, check, task>>
      /\ job' = [job EXCEPT ![c].at = "close_label"]
  BY DEF CloseUnlabel, dbVars
<1>2. PICK v \in Votes, k \in Issues : v = job[c].vote /\ k = issueOf[v]
  BY <1>1, CloserIssue
<1>3. labels' = [labels EXCEPT ![k] = @ \ {"open"}] /\ Faultless
  BY <1>2, RemoveLabelFaultless DEF CloseUnlabel, TypeInv
<1>4. /\ job'[c].at = "close_label" /\ job'[c].vote = v /\ job'[c].outcome = job[c].outcome
      /\ \A d \in Closers \ {c} : job'[d] = job[d]
  BY <1>1, <1>2, CloserMoved
<1>5. /\ OpenVotesOn(k)' = {} /\ labels[k] = {"gitvote", "open"}
      /\ k \in PullRequests =>
            check'[k] = IF job[c].outcome = "failed" THEN "failure" ELSE "success"
      /\ k \notin PullRequests => check'[k] = "none"
  BY <1>1, <1>2, <1>3 DEF ViewInv, CloserShows, ReportSteps, OpenVotesOn
<1>6. /\ labels'[k] = {"gitvote"}
      /\ \A i \in Issues \ {k} : labels'[i] = labels[i]
  <2>1. /\ labels'[k] = labels[k] \ {"open"}
        /\ \A i \in Issues \ {k} : labels'[i] = labels[i]
    BY <1>3 DEF TypeInv, TypeOK
  <2> QED
    BY <1>5, <2>1
<1>7. CloserShows(c)' /\ job'[c] \notin Off
  BY <1>1, <1>2, <1>4, <1>5, <1>6 DEF CloserShows, TxSteps, Off, Resting, Dead
<1> QED
  BY <1>1, <1>2, <1>3, <1>4, <1>5, <1>6, <1>7, CloserGoes

(* ... and the labels tell the same outcome.                               *)
LEMMA CloseLabelShows ==
    ASSUME TypeInv, AgreeInv, PacedInv, ViewInv, Faultless', NEW c \in Closers, CloseLabel(c)
    PROVE  ViewInv'
<1>1. /\ job[c].at = "close_label" /\ UNCHANGED <<status, issueOf, check, task, spent>>
      /\ job' = [job EXCEPT ![c] = Resting]
      /\ labels' = [labels EXCEPT ![issueOf[job[c].vote]] =
                       @ \cup {"closed"} \cup ({job[c].outcome} \ {"missing"})]
  BY DEF CloseLabel, dbVars
<1>2. PICK v \in Votes, k \in Issues : v = job[c].vote /\ k = issueOf[v]
  BY <1>1, CloserIssue
<1>3. Faultless /\ job[c].outcome \in {"passed", "failed", "missing"}
  BY <1>1, StepsNamed DEF Faultless, TypeInv, WorkersWellFormed, JobOK, ReportSteps
<1>4. job'[c] \in Off /\ \A d \in Closers \ {c} : job'[d] = job[d]
  BY <1>1, CloserRests, RestTypes
<1>5. /\ labels'[k] = labels[k] \cup {"closed"} \cup ({job[c].outcome} \ {"missing"})
      /\ \A i \in Issues \ {k} : labels'[i] = labels[i]
  BY <1>1, <1>2 DEF TypeInv, TypeOK
<1>6. /\ OpenVotesOn(k)' = {} /\ labels[k] = {"gitvote"}
      /\ k \in PullRequests =>
            check'[k] = IF job[c].outcome = "failed" THEN "failure" ELSE "success"
      /\ k \notin PullRequests => check'[k] = "none"
  BY <1>1, <1>2, <1>3 DEF ViewInv, CloserShows, ReportSteps, OpenVotesOn
<1>7. Outward(k)'
  BY <1>3, <1>5, <1>6 DEF Outward, ShowsNone
<1> QED
  BY <1>1, <1>2, <1>3, <1>4, <1>5, <1>6, <1>7, CloserGoes

(* Every other step leaves what the issues show, and who works on them.    *)
LEMMA NothingShows ==
    ASSUME TypeInv, AgreeInv, ViewInv,
           UNCHANGED <<status, issueOf, labels, check, task, job, spent>>
    PROVE  ViewInv'
<1>1. \A i : Untouched(i)
  BY DEF Untouched, OpenVotesOn
<1>2. \A i : BusyWith(i)' = BusyWith(i) /\ Outward(i)' = Outward(i)
  BY <1>1, UntouchedShows DEF BusyWith
<1>3. ASSUME Faultless
      PROVE  /\ \A h \in Handlers : HandlerShows(h)'
             /\ \A c \in Closers : CloserShows(c)'
  BY <1>1, <1>3, HandlerStays, CloserStays DEF ViewInv
<1> QED
  BY <1>2, <1>3 DEF ViewInv, Faultless

(* What the issues show goes on being right.                               *)
LEMMA ViewStep ==
    TypeInv /\ AgreeInv /\ PacedInv /\ ViewInv /\ [Next /\ AtMostOneBusy']_vars => ViewInv'
<1> SUFFICES ASSUME TypeInv, AgreeInv, PacedInv, ViewInv, [Next /\ AtMostOneBusy']_vars,
                    Faultless'
             PROVE  ViewInv'
  BY DEF ViewInv
<1>1. ASSUME NEW h \in Handlers, HandlerStep(h) PROVE ViewInv'
  <2>1. CASE HandlerCallFails(h)
    BY <2>1, FaultShows DEF HandlerCallFails, TypeInv
  <2>2. CASE RemoveOldLabels(h)
    BY <2>2, RemoveOldLabelShows DEF RemoveOldLabels
  <2> QED
    BY <1>1, <2>1, <2>2, HasVoteOpenShows, PostCreatedShows, StoreVoteShows, CreateCheckShows,
       AddOpenLabelsShows, CancelVoteShows, PostCancelledShows, CancelCheckShows,
       CancelUnlabelShows DEF HandlerStep
<1>2. ASSUME NEW c \in Closers, CloserStep(c) PROVE ViewInv'
  <2>1. CASE CloserCallFails(c)
    BY <2>1, FaultShows DEF CloserCallFails, TypeInv
  <2> QED
    BY <1>2, <2>1, CalculateShows, StoreResultsShows, PostClosedShows, CloseCheckShows,
       CloseUnlabelShows, CloseLabelShows DEF CloserStep
<1>3. ASSUME NEW v \in Votes, TimeUp(v) PROVE ViewInv'
  BY <1>3, NothingShows DEF TimeUp, ghVars
<1>4. CASE Crash
  BY <1>4, FaultShows DEF Crash, TypeInv
<1>5. CASE UNCHANGED vars
  BY <1>5, NothingShows DEF vars, dbVars, ghVars
<1>6. CASE Next /\ AtMostOneBusy'
  BY <1>1, <1>2, <1>3, <1>4, <1>5, <1>6, ReceiveShows, PickShows DEF Next, Rest
<1> QED
  BY <1>5, <1>6

(* As long as no two workers are busy with the same issue and no call      *)
(* fails, an issue nobody works on shows, in its labels and its check run, *)
(* the open vote it has, or that it has none and how the last one ended.   *)
THEOREM OutwardStatePaced == PacedSpec => []OutwardState
<1>1. Init => TypeInv /\ AgreeInv
  BY InitInv
<1>2. Init => PacedInv
  BY ProcessorAssumption
  DEF Init, PacedInv, AtMostOneBusy, BusyWith, OneOpenVote, OpenVotesOn, AnswerHolds,
      Idle, Off, Resting
<1>3. Init => ViewInv
  BY DEF Init, ViewInv, Outward, ShowsNone, OpenVotesOn, HandlerShows, CloserShows,
         TxSteps, ReportSteps, Idle, Off, Resting
<1>4. TypeInv /\ AgreeInv /\ [Next /\ AtMostOneBusy']_vars => TypeInv' /\ AgreeInv'
  BY TypeInvStep, AgreeInvStep
<1>5. ViewInv => OutwardState
  BY DEF ViewInv, Faultless, Outward, ShowsOpen, ShowsNone, OutwardState
<1> QED
  BY <1>1, <1>2, <1>3, <1>4, <1>5, PacedStep, ViewStep, PTL DEF PacedSpec
=============================================================================
