------------------------- MODULE CommandQueueProofs -------------------------
(***************************************************************************)
(* Commands on their way: those that were acknowledged survive an orderly  *)
(* shutdown, and live as CommandLifecycle says, for any numbers of         *)
(* requests, handlers, status checks and crashes.                          *)
(***************************************************************************)
EXTENDS CommandQueue, SequenceTheorems, TLAPS

(* The commands in the channel, once each but for status checks.           *)
NoDuplicates == \A i, j \in 1 .. Len(queue) : queue[i] = queue[j] /\ queue[i] # Check => i = j

(* A command sent is in the channel with those that were there.            *)
LEMMA Appended ==
    ASSUME TypeOK, NEW c \in Commands, queue' = Append(queue, c)
    PROVE  /\ \A r \in Requests : Queued(r)' <=> Queued(r) \/ r = c
           /\ NoDuplicates /\ (c = Check \/ ~Queued(c)) => NoDuplicates'
<1> USE DEF TypeOK
<1>1. /\ Len(queue) \in Nat
      /\ Len(queue') = Len(queue) + 1
      /\ \A i \in 1 .. Len(queue) : queue'[i] = queue[i]
      /\ queue'[Len(queue) + 1] = c
  BY LenProperties, AppendProperties
<1>2. ASSUME NEW r \in Requests PROVE Queued(r)' <=> Queued(r) \/ r = c
  <2>1. Queued(r)' <=> \E i \in 1 .. Len(queue) + 1 : queue'[i] = r
    BY <1>1 DEF Queued
  <2>2. (\E i \in 1 .. Len(queue) + 1 : queue'[i] = r) <=> Queued(r) \/ r = c
    BY <1>1 DEF Queued
  <2> QED BY <2>1, <2>2
<1>3. ASSUME NoDuplicates, c = Check \/ ~Queued(c) PROVE NoDuplicates'
  <2> SUFFICES ASSUME NEW i \in 1 .. Len(queue'), NEW j \in 1 .. Len(queue'),
                      queue'[i] = queue'[j], queue'[i] # Check
               PROVE  i = j
    BY DEF NoDuplicates
  <2>1. i \in 1 .. Len(queue) + 1 /\ j \in 1 .. Len(queue) + 1
    BY <1>1
  <2>2. CASE i = Len(queue) + 1 \/ j = Len(queue) + 1
    BY <1>1, <1>3, <2>1, <2>2 DEF Queued
  <2>3. CASE i # Len(queue) + 1 /\ j # Len(queue) + 1
    <3>1. i \in 1 .. Len(queue) /\ j \in 1 .. Len(queue)
      BY <1>1, <2>1, <2>3
    <3> QED BY <1>1, <1>3, <3>1 DEF NoDuplicates
  <2> QED BY <2>2, <2>3
<1> QED BY <1>2, <1>3

(* The command received is the only one to leave the channel.              *)
LEMMA Received ==
    ASSUME TypeOK, queue # <<>>, queue' = Tail(queue)
    PROVE  /\ Head(queue) \in Commands
           /\ \A r \in Requests : Queued(r) <=> Queued(r)' \/ r = Head(queue)
           /\ NoDuplicates =>
                /\ NoDuplicates'
                /\ \A r \in Requests : r = Head(queue) => ~Queued(r)'
<1> USE DEF TypeOK
<1>1. /\ Len(queue) \in Nat \ {0}
      /\ Len(queue') = Len(queue) - 1
      /\ \A i \in 1 .. Len(queue) - 1 : queue'[i] = queue[i + 1]
      /\ Head(queue) = queue[1]
      /\ Head(queue) \in Commands
  BY LenProperties, HeadTailProperties, EmptySeq
<1>2. ASSUME NEW r \in Requests PROVE Queued(r) <=> Queued(r)' \/ r = Head(queue)
  <2>1. ASSUME Queued(r) PROVE Queued(r)' \/ r = Head(queue)
    <3>1. PICK i \in 1 .. Len(queue) : queue[i] = r
      BY <2>1 DEF Queued
    <3>2. CASE i = 1
      BY <1>1, <3>1, <3>2
    <3>3. CASE i # 1
      <4>1. i - 1 \in 1 .. Len(queue') /\ queue'[i - 1] = r
        BY <1>1, <3>1, <3>3
      <4> QED BY <4>1 DEF Queued
    <3> QED BY <3>2, <3>3
  <2>2. ASSUME Queued(r)' PROVE Queued(r)
    <3>1. PICK i \in 1 .. Len(queue') : queue'[i] = r
      BY <2>2 DEF Queued
    <3>2. i + 1 \in 1 .. Len(queue) /\ queue[i + 1] = r
      BY <1>1, <3>1
    <3> QED BY <3>2 DEF Queued
  <2>3. ASSUME r = Head(queue) PROVE Queued(r)
    BY <1>1, <2>3 DEF Queued
  <2> QED BY <2>1, <2>2, <2>3
<1>3. ASSUME NoDuplicates PROVE NoDuplicates'
  <2> SUFFICES ASSUME NEW i \in 1 .. Len(queue'), NEW j \in 1 .. Len(queue'),
                      queue'[i] = queue'[j], queue'[i] # Check
               PROVE  i = j
    BY DEF NoDuplicates
  <2>1. /\ i + 1 \in 1 .. Len(queue) /\ j + 1 \in 1 .. Len(queue)
        /\ queue[i + 1] = queue'[i] /\ queue[j + 1] = queue'[j]
    BY <1>1
  <2>2. i + 1 = j + 1
    BY <1>3, <2>1 DEF NoDuplicates
  <2> QED BY <1>1, <2>2
<1>4. ASSUME NoDuplicates, NEW r \in Requests, r = Head(queue), Queued(r)' PROVE FALSE
  <2>1. PICK i \in 1 .. Len(queue') : queue'[i] = r
    BY <1>4 DEF Queued
  <2>2. /\ i + 1 \in 1 .. Len(queue) /\ 1 \in 1 .. Len(queue)
        /\ queue[i + 1] = queue[1] /\ queue[1] # Check
    BY <1>1, <1>4, <2>1, QueueAssumption
  <2>3. i + 1 = 1
    BY <1>4, <2>2 DEF NoDuplicates
  <2> QED BY <1>1, <2>3
<1> QED BY <1>1, <1>2, <1>3, <1>4

----------------------------------------------------------------------------
(* Every variable keeps its type at every step.                            *)
LEMMA TypesPreserved == TypeOK /\ [Next]_vars => TypeOK'
<1> SUFFICES ASSUME TypeOK, [Next]_vars PROVE TypeOK'
  OBVIOUS
<1> USE QueueAssumption DEF TypeOK, Answers, Fates, workerVars, checkerVars
<1>1. ASSUME NEW r \in Requests, Arrive(r) \/ GiveUp(r) PROVE TypeOK'
  BY <1>1 DEF Arrive, GiveUp
<1>2. ASSUME NEW r \in Requests, Send(r) PROVE TypeOK'
  <2>1. r \in Commands
    BY DEF Commands
  <2>2. queue' \in Seq(Commands)
    BY SMTT(30), <1>2, <2>1, AppendProperties DEF Send
  <2> QED BY <1>2, <2>2 DEF Send
<1>3. CASE Terminate \/ ServerStops
  BY <1>3 DEF Terminate, ServerStops
<1>4. ASSUME NEW h \in Handlers, HandlerStep(h) PROVE TypeOK'
  <2>1. CASE Receive(h)
    <3>1. Head(queue) \in Commands /\ queue' \in Seq(Commands)
      BY <2>1, HeadTailProperties, EmptySeq DEF Receive
    <3> QED BY <2>1, <3>1 DEF Receive
  <2>2. CASE Finish(h)
    BY <2>2 DEF Finish
  <2>3. CASE Stop(h)
    BY <2>3 DEF Stop
  <2> QED BY <1>4, <2>1, <2>2, <2>3 DEF HandlerStep
<1>5. CASE CheckerStep
  <2>1. CASE CheckerSends
    <3>1. Check \in Commands
      BY DEF Commands
    <3>2. queue' \in Seq(Commands)
      BY <2>1, <3>1, AppendProperties DEF CheckerSends
    <3> QED BY <2>1, <3>2 DEF CheckerSends
  <2>2. CASE CheckerQuery
    BY <2>2 DEF CheckerQuery
  <2>3. CASE CheckerSleeps \/ CheckerWakes \/ CheckerStops
    BY <2>3 DEF CheckerSleeps, CheckerWakes, CheckerStops
  <2> QED BY <1>5, <2>1, <2>2, <2>3 DEF CheckerStep
<1>6. CASE Crash
  BY <1>6, EmptySeq DEF Crash
<1>7. CASE Rest \/ UNCHANGED vars
  BY <1>7 DEF Rest, vars
<1> QED BY <1>1, <1>2, <1>3, <1>4, <1>5, <1>6, <1>7 DEF Next

(* What is known of the commands acknowledged is kept by every step: a     *)
(* command moves from its request to the channel, from there to one        *)
(* handler, and from the handler to its fate.                              *)
LEMMA AcknowledgedPreserved == TypeOK /\ AcknowledgedOnce /\ [Next]_vars => AcknowledgedOnce'
<1> SUFFICES ASSUME TypeOK, AcknowledgedOnce, [Next]_vars PROVE AcknowledgedOnce'
  OBVIOUS
<1>0. NoDuplicates
  BY DEF AcknowledgedOnce, NoDuplicates
<1> USE QueueAssumption DEF workerVars, checkerVars
<1>1. ASSUME UNCHANGED <<queue, workerVars>>,
             \A r \in Requests : request'[r] = "queued" <=> request[r] = "queued"
      PROVE  AcknowledgedOnce'
  BY <1>1 DEF AcknowledgedOnce, Queued, Executing
<1>2. ASSUME NEW r \in Requests, Arrive(r) \/ GiveUp(r) PROVE AcknowledgedOnce'
  BY <1>1, <1>2 DEF Arrive, GiveUp, TypeOK
<1>3. ASSUME NEW r \in Requests, Send(r) PROVE AcknowledgedOnce'
  <2>1. CASE Closed
    BY <1>1, <1>3, <2>1 DEF Send, TypeOK
  <2>2. CASE ~Closed
    <3>1. r \in Commands /\ queue' = Append(queue, r) /\ ~Queued(r) /\ fate[r] = "none"
      BY <1>3, <2>2 DEF Send, Commands, AcknowledgedOnce, TypeOK, Answers, Fates
    <3>2. (\A q \in Requests : Queued(q)' <=> Queued(q) \/ q = r) /\ NoDuplicates'
      BY <1>0, <3>1, Appended
    <3>3. \A q \in Requests : Executing(q)' <=> Executing(q)
      BY <1>3 DEF Send, Executing
    <3> QED BY <1>3, <2>2, <3>1, <3>2, <3>3 DEF Send, AcknowledgedOnce, NoDuplicates, TypeOK
  <2> QED BY <2>1, <2>2
<1>4. CASE Terminate \/ ServerStops \/ Rest \/ UNCHANGED vars
  BY <1>1, <1>4 DEF Terminate, ServerStops, Rest, vars
<1>5. ASSUME NEW h \in Handlers, Receive(h) PROVE AcknowledgedOnce'
  <2>1. /\ Head(queue) \in Commands
        /\ \A r \in Requests : Queued(r) <=> Queued(r)' \/ r = Head(queue)
        /\ NoDuplicates'
        /\ \A r \in Requests : r = Head(queue) => ~Queued(r)'
    BY <1>0, <1>5, Received DEF Receive
  <2>2. command[h] = None /\ command' = [command EXCEPT ![h] = Head(queue)]
    BY <1>5 DEF Receive, AcknowledgedOnce, TypeOK
  <2>3. \A r \in Requests : Executing(r)' <=> Executing(r) \/ r = Head(queue)
    BY <2>1, <2>2 DEF Executing, Commands, TypeOK
  <2>4. \A f, g \in Handlers :
           command'[f] = command'[g] /\ command'[f] \in Requests => f = g
    BY <2>1, <2>2 DEF AcknowledgedOnce, Executing, TypeOK
  <2>5. \A g \in Handlers : command'[g] # None <=> worker'[g] = "executing"
    BY <1>5, <2>1, <2>2 DEF Receive, AcknowledgedOnce, TypeOK, Commands
  <2> QED BY <1>5, <2>1, <2>3, <2>4, <2>5 DEF Receive, AcknowledgedOnce, NoDuplicates
<1>6. ASSUME NEW h \in Handlers, Finish(h) PROVE AcknowledgedOnce'
  <2>1. /\ command' = [command EXCEPT ![h] = None]
        /\ worker'[h] # "executing"
        /\ \A g \in Handlers : g # h => worker'[g] = worker[g]
        /\ \A r \in Requests : r # command[h] => fate'[r] = fate[r]
        /\ command[h] \in Requests => fate'[command[h]] # "none"
        /\ UNCHANGED <<queue, request>>
    BY <1>6 DEF Finish, TypeOK
  <2>2. \A r \in Requests : Executing(r)' <=> Executing(r) /\ r # command[h]
    BY <2>1 DEF Executing, AcknowledgedOnce, TypeOK, Commands
  <2>3. \A r \in Requests : Queued(r)' <=> Queued(r)
    BY <2>1 DEF Queued
  <2>4. command[h] \in Requests => Executing(command[h])
    BY DEF Executing
  <2>5. \A f, g \in Handlers :
           command'[f] = command'[g] /\ command'[f] \in Requests => f = g
    BY <2>1 DEF AcknowledgedOnce, TypeOK, Commands
  <2>6. \A g \in Handlers : command'[g] # None <=> worker'[g] = "executing"
    BY <2>1 DEF AcknowledgedOnce, TypeOK
  <2>7. \A i, j \in 1 .. Len(queue') : queue'[i] = queue'[j] /\ queue'[i] # Check => i = j
    BY <2>1 DEF AcknowledgedOnce
  <2> QED BY <2>1, <2>2, <2>3, <2>4, <2>5, <2>6, <2>7 DEF AcknowledgedOnce
<1>7. ASSUME NEW h \in Handlers, Stop(h) PROVE AcknowledgedOnce'
  BY <1>7 DEF Stop, AcknowledgedOnce, Queued, Executing, TypeOK
<1>8. CASE CheckerStep
  <2>1. CASE CheckerSends /\ ~Closed
    <3>1. Check \in Commands /\ queue' = Append(queue, Check)
      BY <2>1 DEF CheckerSends, Commands
    <3>2. (\A q \in Requests : Queued(q)' <=> Queued(q)) /\ NoDuplicates'
      BY <1>0, <3>1, Appended
    <3>3. \A q \in Requests : Executing(q)' <=> Executing(q)
      BY <2>1 DEF CheckerSends, Executing
    <3> QED BY <2>1, <3>2, <3>3 DEF CheckerSends, AcknowledgedOnce, NoDuplicates
  <2>2. CASE (CheckerSends /\ Closed) \/ CheckerQuery \/ CheckerSleeps \/ CheckerWakes
             \/ CheckerStops
    BY <1>1, <2>2 DEF CheckerSends, CheckerQuery, CheckerSleeps, CheckerWakes, CheckerStops
  <2> QED BY <1>8, <2>1, <2>2 DEF CheckerStep
<1>9. CASE Crash
  <2>0. 1 .. Len(queue') = {}
    BY <1>9, EmptySeq, LenProperties DEF Crash
  <2>1. \A r \in Requests : ~Queued(r)'
    BY <2>0 DEF Queued
  <2>3. \A h \in Handlers : command'[h] = None /\ worker'[h] = "waiting"
    BY <1>9 DEF Crash
  <2>4. \A r \in Requests : ~Executing(r)'
    BY <2>3 DEF Executing, Commands
  <2>5. \A r \in Requests : /\ fate'[r] # "none" => request'[r] = "queued"
                            /\ request'[r] = "queued" => fate'[r] # "none"
    BY <1>9 DEF Crash, AcknowledgedOnce, TypeOK, Fates
  <2>2. \A i, j \in 1 .. Len(queue') : queue'[i] = queue'[j] /\ queue'[i] # Check => i = j
    BY <2>0
  <2> QED BY <2>1, <2>2, <2>3, <2>4, <2>5 DEF AcknowledgedOnce, Commands
<1> QED BY <1>2, <1>3, <1>4, <1>5, <1>6, <1>7, <1>8, <1>9 DEF Next, HandlerStep

(* Once a handler has stopped the server had: no request sends any more.   *)
LEMMA DrainedPreserved == TypeOK /\ StopsDrained /\ [Next]_vars => StopsDrained'
<1> SUFFICES ASSUME TypeOK, StopsDrained, [Next]_vars PROVE StopsDrained'
  OBVIOUS
<1> USE QueueAssumption DEF Cancelled, workerVars, checkerVars
<1>1. ASSUME NEW r \in Requests, Arrive(r) \/ GiveUp(r) \/ Send(r) PROVE StopsDrained'
  BY <1>1 DEF Arrive, GiveUp, Send, StopsDrained, TypeOK, Queued
<1>2. CASE Terminate \/ ServerStops \/ Rest \/ UNCHANGED vars
  BY <1>2 DEF Terminate, ServerStops, Rest, vars, StopsDrained, Queued
<1>3. ASSUME NEW h \in Handlers, HandlerStep(h) PROVE StopsDrained'
  <2>1. CASE Receive(h)
    <3>1. \A r \in Requests : Queued(r)' => Queued(r)
      BY <2>1, Received DEF Receive
    <3> QED BY <2>1, <3>1 DEF Receive, StopsDrained, TypeOK
  <2>2. CASE Finish(h)
    BY <2>2 DEF Finish, StopsDrained, Queued, TypeOK
  <2>3. CASE Stop(h)
    <3>1. \A r \in Requests : ~Queued(r)'
      BY <2>3, EmptySeq, LenProperties DEF Stop, Queued
    <3> QED BY <2>3, <3>1 DEF Stop, StopsDrained
  <2> QED BY <1>3, <2>1, <2>2, <2>3 DEF HandlerStep
<1>4. CASE CheckerStep
  <2>1. CASE CheckerSends /\ ~Closed
    <3>1. Check \in Commands /\ queue' = Append(queue, Check)
      BY <2>1 DEF CheckerSends, Commands
    <3>2. \A q \in Requests : Queued(q)' <=> Queued(q)
      BY <3>1, Appended
    <3> QED BY <2>1, <3>2 DEF CheckerSends, StopsDrained
  <2>2. CASE (CheckerSends /\ Closed) \/ CheckerQuery \/ CheckerSleeps \/ CheckerWakes
             \/ CheckerStops
    BY <2>2 DEF CheckerSends, CheckerQuery, CheckerSleeps, CheckerWakes, CheckerStops,
                StopsDrained, Queued
  <2> QED BY <1>4, <2>1, <2>2 DEF CheckerStep
<1>5. CASE Crash
  BY <1>5 DEF Crash, StopsDrained
<1> QED BY <1>1, <1>2, <1>3, <1>4, <1>5 DEF Next

----------------------------------------------------------------------------
QueueInv == TypeOK /\ AcknowledgedOnce /\ StopsDrained

(* So it holds whatever the handlers, the webhook and the shutdown do.     *)
LEMMA QueueInvHolds == Spec => []QueueInv
<1>1. Init => QueueInv
  <2> SUFFICES ASSUME Init PROVE QueueInv
    OBVIOUS
  <2> USE QueueAssumption DEF Init
  <2>1. TypeOK
    BY EmptySeq DEF TypeOK, Answers, Fates
  <2>2. 1 .. Len(queue) = {}
    BY EmptySeq, LenProperties
  <2>3. \A r \in Requests : ~Queued(r) /\ request[r] = "none" /\ fate[r] = "none"
    BY <2>2 DEF Queued
  <2>4. \A h \in Handlers : command[h] = None /\ worker[h] = "waiting"
    OBVIOUS
  <2>5. \A r \in Requests : ~Executing(r)
    BY <2>4 DEF Executing, Commands
  <2>6. AcknowledgedOnce
    BY <2>2, <2>3, <2>4, <2>5 DEF AcknowledgedOnce, Commands
  <2>7. StopsDrained
    BY <2>4 DEF StopsDrained, Cancelled
  <2> QED BY <2>1, <2>6, <2>7 DEF QueueInv
<1>2. QueueInv /\ [Next]_vars => QueueInv'
  BY TypesPreserved, AcknowledgedPreserved, DrainedPreserved DEF QueueInv
<1> QED BY <1>1, <1>2, PTL DEF Spec

(* The state of the channel and of the workers keeps its types.            *)
THEOREM QueueTypeCorrect == Spec => []TypeOK
BY QueueInvHolds, PTL DEF QueueInv

(* A command acknowledged is in one place until its fate is known.         *)
THEOREM CommandsAreKept == Spec => []AcknowledgedOnce
BY QueueInvHolds, PTL DEF QueueInv

(* A handler that has stopped leaves no command of a request behind.       *)
THEOREM HandlersStopDrained == Spec => []StopsDrained
BY QueueInvHolds, PTL DEF QueueInv

(* When the service has exited, a handler that did not panic has stopped,  *)
(* so the channel holds no command of a request, and no handler is         *)
(* executing one.                                                          *)
LEMMA ExitIsClean == QueueInv => NothingLostAtExit
<1> SUFFICES ASSUME QueueInv, Exited, NEW h \in Handlers, worker[h] # "panicked",
                    NEW r \in Requests, request[r] = "queued"
             PROVE  fate[r] # "none"
  BY DEF NothingLostAtExit
<1>1. worker[h] = "stopped"
  BY DEF Exited, Closed
<1>2. ~Queued(r)
  BY <1>1 DEF QueueInv, StopsDrained
<1>3. ~Executing(r)
  BY QueueAssumption DEF Exited, Closed, QueueInv, AcknowledgedOnce, Executing, Commands
<1> QED BY <1>2, <1>3 DEF QueueInv, AcknowledgedOnce

(* An orderly shutdown loses no acknowledged command.                      *)
THEOREM ShutdownLosesNothing == Spec => []NothingLostAtExit
BY ExitIsClean, QueueInvHolds, PTL

----------------------------------------------------------------------------
(* Where no task changes its state and no command moves nothing is seen.   *)
LEMMA LifecycleStutters ==
    ASSUME UNCHANGED <<request, fate, worker>>, Exited' <=> Exited
    PROVE  UNCHANGED Lifecycle!vars
<1>1. Phase' = Phase /\ Alive' = Alive
  BY DEF Phase, Alive
<1>2. Exited' = Exited
  BY DEF Exited, Cancelled, Closed
<1> QED BY <1>1, <1>2 DEF Lifecycle!vars

(* While a request is handled the server has not stopped, hence no handler *)
(* has either: with the channel closed every handler has panicked.         *)
LEMMA RequestIsLifecycle ==
    ASSUME QueueInv, NEW r \in Requests, Arrive(r) \/ GiveUp(r) \/ Send(r)
    PROVE  Lifecycle!Next
<1> USE DEF QueueInv, TypeOK, workerVars, checkerVars
<1>0. ~Cancelled /\ ~Cancelled'
  <2>1. CASE Arrive(r)
    BY <2>1 DEF Arrive, Cancelled
  <2>2. CASE GiveUp(r) \/ Send(r)
    BY <2>2 DEF GiveUp, Send, Cancelled, StopsDrained
  <2> QED BY <2>1, <2>2
<1>1. ~Exited /\ ~Exited'
  BY <1>0 DEF Exited
<1>2. Alive' = Alive
  BY DEF Alive, Arrive, GiveUp, Send
<1>3. fate[r] = "none" /\ fate' = fate
  BY DEF Arrive, GiveUp, Send, AcknowledgedOnce, Fates
<1>4. CASE Arrive(r)
  <2>1. Phase[r] = "none" /\ Phase' = [Phase EXCEPT ![r] = "handling"]
    BY <1>3, <1>4 DEF Phase, Arrive
  <2>2. Lifecycle!Arrive(r)
    BY <1>1, <1>2, <2>1 DEF Lifecycle!Arrive, Lifecycle!Becomes, Exited, Cancelled, Closed
  <2> QED BY <1>1, <2>2 DEF Lifecycle!Next
<1>5. CASE Send(r) /\ Closed
  <2>1. Phase[r] = "handling" /\ Phase' = [Phase EXCEPT ![r] = "aborted"]
    BY <1>3, <1>5 DEF Phase, Send
  <2>2. Alive = {}
    BY <1>0, <1>5 DEF Alive, Closed, StopsDrained
  <2>3. Lifecycle!Refuse(r)
    BY <1>1, <1>2, <2>1, <2>2 DEF Lifecycle!Refuse, Lifecycle!Becomes, Exited, Cancelled,
                                  Closed
  <2> QED BY <1>1, <2>3 DEF Lifecycle!Next
<1>6. CASE Send(r) /\ ~Closed
  <2>1. Phase[r] = "handling" /\ Phase' = [Phase EXCEPT ![r] = "queued"]
    BY <1>3, <1>6 DEF Phase, Send
  <2>2. Alive # {}
    BY <1>6 DEF Alive, Closed
  <2>3. Lifecycle!Acknowledge(r)
    BY <1>1, <1>2, <2>1, <2>2 DEF Lifecycle!Acknowledge, Lifecycle!Becomes, Exited,
                                  Cancelled, Closed
  <2> QED BY <1>1, <2>3 DEF Lifecycle!Next
<1>7. CASE GiveUp(r)
  <2>1. Phase[r] = "handling" /\ Phase' = [Phase EXCEPT ![r] = "gone"]
    BY <1>3, <1>7 DEF Phase, GiveUp
  <2>2. Lifecycle!GiveUp(r)
    BY <1>1, <1>2, <2>1 DEF Lifecycle!GiveUp, Lifecycle!Becomes, Exited, Cancelled, Closed
  <2> QED BY <1>1, <2>2 DEF Lifecycle!Next
<1> QED BY <1>4, <1>5, <1>6, <1>7

(* What is left when the service exits: nothing that is handled, and no    *)
(* command acknowledged unless every handler has panicked.                 *)
LeftAtExit ==
    Exited => \A r \in Requests :
        /\ Phase[r] # "handling"
        /\ Alive # {} => Phase[r] # "queued"

(* The queue and its workers leave no more than that.                      *)
LEMMA ExitLeaves == QueueInv => LeftAtExit
<1> SUFFICES ASSUME QueueInv, Exited, NEW r \in Requests
             PROVE  /\ Phase[r] # "handling"
                    /\ Alive # {} => Phase[r] # "queued"
  BY DEF LeftAtExit
<1>1. Phase[r] # "handling"
  BY DEF Phase, Exited, QueueInv, StopsDrained, TypeOK, Fates
<1>2. ASSUME Alive # {} PROVE Phase[r] # "queued"
  BY <1>2, ExitIsClean DEF NothingLostAtExit, Phase, Alive, QueueInv, TypeOK, Fates
<1> QED BY <1>1, <1>2

(* Nor do they with the step with which the service exits.                 *)
LEMMA ExitWillLeave == QueueInv' => LeftAtExit'
BY ExitLeaves, PTL

(* So the life of the commands lets it exit.                               *)
LEMMA ExitIsAllowed == QueueInv' => Lifecycle!MayExit
BY ExitWillLeave, Zenon DEF LeftAtExit, Lifecycle!MayExit

(* The end of a command: its handler goes on, or panics, with which the    *)
(* service may exit.                                                       *)
LEMMA FinishIsLifecycle ==
    ASSUME QueueInv, QueueInv', NEW h \in Handlers, Finish(h)
    PROVE  Lifecycle!Next \/ UNCHANGED Lifecycle!vars
<1> USE DEF QueueInv, TypeOK, workerVars, checkerVars
<1>0. ~Exited /\ worker[h] = "executing" /\ h \in Alive /\ UNCHANGED request
  BY DEF Finish, Exited, Closed, Alive
<1>1. command[h] \in Requests => fate[command[h]] = "none" /\ request[command[h]] = "queued"
  BY DEF AcknowledgedOnce, Executing
<1>2. command[h] \in Requests => Phase[command[h]] = "queued"
  BY <1>1 DEF Phase
<1>3. ASSUME NEW end \in {"executed", "panicked"},
             fate' = [r \in Requests |-> IF r = command[h] THEN end ELSE fate[r]]
      PROVE  Phase' = IF command[h] \in Requests THEN [Phase EXCEPT ![command[h]] = end] ELSE Phase
  BY <1>0, <1>3 DEF Phase
<1>4. CASE command[h] \notin Fatal
  <2>1. /\ worker' = [worker EXCEPT ![h] = "waiting"]
        /\ fate' = [r \in Requests |-> IF r = command[h] THEN "executed" ELSE fate[r]]
    BY <1>4 DEF Finish
  <2>2. Alive' = Alive /\ ~Exited'
    BY <1>0, <2>1 DEF Alive, Exited, Closed
  <2>3. CASE command[h] \in Requests
    <3>1. Lifecycle!Execute(command[h])
      BY <1>0, <1>2, <1>3, <2>1, <2>2, <2>3
         DEF Lifecycle!Execute, Lifecycle!Becomes, Exited, Cancelled, Closed
    <3> QED BY <1>0, <2>3, <3>1 DEF Lifecycle!Next
  <2>4. CASE command[h] \notin Requests
    BY <1>0, <1>3, <2>1, <2>2, <2>4 DEF Lifecycle!vars, Exited, Cancelled, Closed
  <2> QED BY <2>3, <2>4
<1>5. CASE command[h] \in Fatal
  <2>1. /\ worker' = [worker EXCEPT ![h] = "panicked"]
        /\ fate' = [r \in Requests |-> IF r = command[h] THEN "panicked" ELSE fate[r]]
    BY <1>5 DEF Finish
  <2>2. Alive' = Alive \ {h}
    BY <2>1 DEF Alive
  <2>3. \/ Phase' = Phase
        \/ \E r \in Requests : Phase[r] = "queued" /\ Phase' = [Phase EXCEPT ![r] = "panicked"]
    BY <1>2, <1>3, <2>1
  <2>4. (~Exited)' \in BOOLEAN /\ Lifecycle!MayExit
    BY ExitIsAllowed
  <2>5. Lifecycle!Panic(h)
    BY <1>0, <2>2, <2>3, <2>4 DEF Lifecycle!Panic, Lifecycle!Becomes
  <2> QED BY <1>0, <2>5 DEF Lifecycle!Next
<1> QED BY <1>4, <1>5

(* A crash loses what was acknowledged and not executed, in one step.      *)
LEMMA CrashIsLifecycle ==
    ASSUME QueueInv, Crash
    PROVE  Lifecycle!Next
<1> USE DEF QueueInv, TypeOK
<1>1. ~Exited /\ ~Exited'
  BY DEF Crash, Exited, Cancelled
<1>2. Alive' = Handlers
  BY DEF Crash, Alive
<1>3. Phase' = [r \in Requests |-> CASE Phase[r] = "handling" -> "aborted"
                                     [] Phase[r] = "queued" -> "lost"
                                     [] OTHER -> Phase[r]]
  <2> SUFFICES ASSUME NEW r \in Requests
               PROVE  Phase'[r] = CASE Phase[r] = "handling" -> "aborted"
                                    [] Phase[r] = "queued" -> "lost"
                                    [] OTHER -> Phase[r]
    BY DEF Phase
  <2>1. CASE fate[r] # "none"
    BY <2>1 DEF Phase, Crash, Fates
  <2>2. CASE fate[r] = "none"
    BY <2>2 DEF Phase, Crash, Answers
  <2> QED BY <2>1, <2>2
<1>4. Lifecycle!Crash
  BY <1>1, <1>2, <1>3 DEF Lifecycle!Crash
<1> QED BY <1>1, <1>4 DEF Lifecycle!Next

(* Every other step is hidden, unless the service exits with it.           *)
LEMMA LifecycleStep == QueueInv /\ QueueInv' /\ [Next]_vars => [Lifecycle!Next]_(Lifecycle!vars)
<1> SUFFICES ASSUME QueueInv, QueueInv', [Next]_vars
             PROVE  Lifecycle!Next \/ UNCHANGED Lifecycle!vars
  OBVIOUS
<1> USE DEF workerVars, checkerVars
<1>1. ASSUME ~Exited, UNCHANGED <<request, fate>>, Alive' = Alive
      PROVE  Lifecycle!Next \/ UNCHANGED Lifecycle!vars
  <2>1. Phase' = Phase
    BY <1>1 DEF Phase
  <2>2. CASE Exited'
    <3>1. Lifecycle!Exit
      BY <1>1, <2>1, <2>2, ExitIsAllowed DEF Lifecycle!Exit
    <3> QED BY <1>1, <3>1 DEF Lifecycle!Next
  <2>3. CASE ~Exited'
    BY <1>1, <2>1, <2>3 DEF Lifecycle!vars
  <2> QED BY <2>2, <2>3
<1>2. ASSUME NEW r \in Requests, Arrive(r) \/ GiveUp(r) \/ Send(r) PROVE Lifecycle!Next
  BY <1>2, RequestIsLifecycle
<1>3. CASE Terminate \/ ServerStops
  BY <1>1, <1>3 DEF Terminate, ServerStops, Exited, Cancelled, Alive
<1>4. ASSUME NEW h \in Handlers, Receive(h) \/ Stop(h)
      PROVE  Lifecycle!Next \/ UNCHANGED Lifecycle!vars
  <2>1. ~Exited /\ UNCHANGED <<request, fate>>
    BY <1>4 DEF Receive, Stop, Exited, Closed
  <2>2. Alive' = Alive
    BY <1>4 DEF Receive, Stop, Alive, QueueInv, TypeOK
  <2> QED BY <1>1, <2>1, <2>2
<1>5. ASSUME NEW h \in Handlers, Finish(h)
      PROVE  Lifecycle!Next \/ UNCHANGED Lifecycle!vars
  BY <1>5, FinishIsLifecycle
<1>6. CASE CheckerStep
  <2>1. ~Exited /\ UNCHANGED <<request, fate, worker>>
    BY <1>6 DEF CheckerStep, CheckerQuery, CheckerSends, CheckerSleeps, CheckerWakes,
                CheckerStops, Exited
  <2> QED BY <1>1, <2>1 DEF Alive
<1>7. CASE Crash
  BY <1>7, CrashIsLifecycle
<1>8. CASE Rest \/ UNCHANGED vars
  BY <1>8, LifecycleStutters DEF Rest, vars, Exited, Cancelled, Closed
<1> QED BY <1>2, <1>3, <1>4, <1>5, <1>6, <1>7, <1>8 DEF Next, HandlerStep

(* The queue and its workers implement CommandLifecycle: every behaviour,  *)
(* with panics, crashes and shutdowns anywhere, is one in which each       *)
(* command acknowledged is executed once, lost in a crash, or left by      *)
(* handlers none of which is there any more.                               *)
THEOREM CommandsImplemented == Spec => ImplementsLifecycle
<1>1. Init => Lifecycle!Init
  <2> SUFFICES ASSUME Init PROVE Lifecycle!Init
    OBVIOUS
  <2>1. Phase = [r \in Requests |-> "none"] /\ Alive = Handlers /\ ~Exited
    BY DEF Init, Phase, Alive, Exited, Cancelled
  <2> QED BY <2>1 DEF Lifecycle!Init
<1> QED BY <1>1, QueueInvHolds, LifecycleStep, PTL DEF Spec, ImplementsLifecycle,
                                                       Lifecycle!Spec

(* What became of a command is final: none is executed after it was lost   *)
(* or refused, nor a second time, and no answer is taken back.             *)
THEOREM FatesAreFinal ==
    Spec => [][\A r \in Requests :
                  /\ fate[r] # "none" => fate'[r] = fate[r]
                  /\ request[r] \notin {"none", "handling"} => request'[r] = request[r]]_vars
<1> DEFINE Final == \A r \in Requests :
                       /\ fate[r] # "none" => fate'[r] = fate[r]
                       /\ request[r] \notin {"none", "handling"} => request'[r] = request[r]
<1>1. QueueInv /\ [Next]_vars => Final
  <2> SUFFICES ASSUME QueueInv, [Next]_vars, NEW r \in Requests
               PROVE  /\ fate[r] # "none" => fate'[r] = fate[r]
                      /\ request[r] \notin {"none", "handling"} => request'[r] = request[r]
    OBVIOUS
  <2> USE DEF QueueInv, TypeOK, workerVars, checkerVars
  <2>1. ASSUME NEW q \in Requests, Arrive(q) \/ GiveUp(q) \/ Send(q)
        PROVE  /\ fate' = fate
               /\ request[r] \notin {"none", "handling"} => request'[r] = request[r]
    BY <2>1 DEF Arrive, GiveUp, Send
  <2>2. ASSUME NEW h \in Handlers, Finish(h)
        PROVE  (fate[r] # "none" => fate'[r] = fate[r]) /\ request' = request
    <3>1. fate[r] # "none" => r # command[h]
      BY DEF AcknowledgedOnce, Executing
    <3> QED BY <2>2, <3>1 DEF Finish
  <2>3. CASE Crash
    BY <2>3 DEF Crash
  <2>4. CASE \/ Terminate \/ ServerStops \/ CheckerStep \/ Rest \/ UNCHANGED vars
             \/ \E h \in Handlers : Receive(h) \/ Stop(h)
    BY <2>4 DEF Terminate, ServerStops, CheckerStep, CheckerQuery, CheckerSends, CheckerSleeps,
                CheckerWakes, CheckerStops, Rest, Receive, Stop, vars
  <2> QED BY <2>1, <2>2, <2>3, <2>4 DEF Next, HandlerStep
<1>2. QueueInv /\ [Next]_vars => [Final]_vars
  BY <1>1
<1> QED BY <1>2, QueueInvHolds, PTL DEF Spec
=============================================================================
