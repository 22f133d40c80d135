------------------------- MODULE StatusChecksProofs -------------------------
(* The status checks keep their types and the recorded posts of each       *)
(* handler apart by a day, whatever fails, for any number of handlers and  *)
(* any intervals.                                                          *)
EXTENDS StatusChecks, TLAPS

(* Every variable keeps its type at every step.                            *)
LEMMA TypesPreserved == TypeOK /\ [Next]_vars => TypeOK'
<1> SUFFICES ASSUME TypeOK, [Next]_vars PROVE TypeOK'
  OBVIOUS
<1> USE ChecksAssumption DEF TypeOK, Steps, Senders, Times, Fault
<1>1. CASE Tick
  BY <1>1 DEF Tick
<1>2. CASE VoteEnds
  BY <1>2 DEF VoteEnds
<1>3. CASE CheckCommand
  BY <1>3 DEF CheckCommand
<1>4. CASE StatusCheckerRun
  BY <1>4 DEF StatusCheckerRun
<1>5. ASSUME NEW h \in Handlers, HandlerStep(h) PROVE TypeOK'
  <2>1. CASE Receive(h)
    BY <2>1 DEF Receive
  <2>2. CASE GetOpenVote(h)
    BY <2>2 DEF GetOpenVote
  <2>3. CASE PostRecently(h)
    BY <2>3 DEF PostRecently
  <2>4. CASE Calculate(h)
    BY <2>4 DEF Calculate
  <2>5. CASE PostStatus(h)
    BY <2>5 DEF PostStatus
  <2>6. CASE UpdateLastCheck(h)
    BY <2>6 DEF UpdateLastCheck
  <2>7. CASE CallFails(h)
    BY <2>7 DEF CallFails
  <2> QED BY <1>5, <2>1, <2>2, <2>3, <2>4, <2>5, <2>6, <2>7 DEF HandlerStep
<1>6. CASE Crash
  BY <1>6 DEF Crash
<1>7. CASE Rest \/ UNCHANGED vars
  BY <1>7 DEF Rest, vars
<1> QED BY <1>1, <1>2, <1>3, <1>4, <1>5, <1>6, <1>7 DEF Next

(* The variables of a check hold values of their types in every behaviour. *)
THEOREM ChecksTypeCorrect == Spec => []TypeOK
<1>1. Init => TypeOK
  BY ChecksAssumption DEF Init, TypeOK, Steps, Senders, Times
<1>2. TypeOK /\ [Next]_vars => TypeOK'
  BY TypesPreserved
<1> QED BY <1>1, <1>2, PTL DEF Spec

(* ChecksInv is inductive: what a handler read before its calls is still   *)
(* old enough after them, since only time passes and checked_at only grows. *)
LEMMA ChecksInvPreserved == TypeOK /\ ChecksInv /\ [Next]_vars => ChecksInv'
<1> SUFFICES ASSUME TypeOK, ChecksInv, [Next]_vars
             PROVE  ChecksInv'
  OBVIOUS
<1> USE ChecksAssumption DEF TypeOK, Times, Elapsed, Fault
<1>1. CASE Tick
  BY <1>1 DEF Tick, ChecksInv
<1>2. CASE VoteEnds \/ CheckCommand \/ StatusCheckerRun \/ Rest \/ UNCHANGED vars
  BY <1>2 DEF VoteEnds, CheckCommand, StatusCheckerRun, Rest, vars, ChecksInv
<1>3. ASSUME NEW h \in Handlers, HandlerStep(h) PROVE ChecksInv'
  <2>1. CASE Receive(h) \/ PostRecently(h) \/ Calculate(h)
    BY <2>1 DEF Receive, PostRecently, Calculate, ChecksInv, Steps
  <2>2. CASE GetOpenVote(h)
    BY SMTT(30), <2>2 DEF GetOpenVote, ChecksInv, Steps
  <2>3. CASE PostStatus(h)
    BY <2>3 DEF PostStatus, ChecksInv, Steps
  <2>4. CASE UpdateLastCheck(h)
    BY <2>4 DEF UpdateLastCheck, ChecksInv, Steps
  <2>5. CASE CallFails(h)
    BY <2>5 DEF CallFails, ChecksInv, Steps
  <2> QED BY <1>3, <2>1, <2>2, <2>3, <2>4, <2>5 DEF HandlerStep
<1>4. CASE Crash
  BY <1>4 DEF Crash, ChecksInv
<1> QED BY <1>1, <1>2, <1>3, <1>4 DEF Next

(* A handler about to post has not posted for a day, in every behaviour,   *)
(* unless what it posted last was not recorded.                            *)
THEOREM ChecksInvCorrect == Spec => []ChecksInv
<1>1. Init => ChecksInv
  BY ChecksAssumption DEF Init, ChecksInv
<1>2. TypeOK /\ ChecksInv /\ [Next]_vars => ChecksInv'
  BY ChecksInvPreserved
<1> QED BY <1>1, <1>2, ChecksTypeCorrect, PTL DEF Spec

(* Each handler posts the status of the vote at most once a day, whatever  *)
(* the other handlers, the users and the status checker do, and whatever   *)
(* fails, unless its last post was not recorded.                           *)
THEOREM OnceADayPerHandler == Spec => EachHandlerOncePerDay
<1>1. ChecksInv /\ [Next]_vars =>
        [\A h \in Handlers \ forgotten :
            task[h] = "post_status" /\ task'[h] # "post_status"
                => Elapsed(lastPost[h], Day)]_vars
  BY DEF ChecksInv
<1> QED BY <1>1, ChecksInvCorrect, PTL DEF Spec, EachHandlerOncePerDay
=============================================================================
