----------------------- MODULE PullRequestChecksProofs -----------------------
(* Pushing commits neither undoes nor gets round a vote, and a pull        *)
(* request that nobody votes on is not held up, for any number of          *)
(* handlers, pushes, votes and faults, and any configuration.              *)
EXTENDS PullRequestChecks, TLAPS

Voting == open > 0 \/ ended \in Results

(* What has been pushed so far bounds what the actors know of.             *)
Shas ==
    /\ \A n \in Commits : n > head => check[n] = "none" /\ request[n].at = "none"
    /\ \A n \in Commits : n <= head => request[n].at # "none"
    /\ \A n \in Commits : request[n].at = "create_check" => n <= request[n].sha /\ request[n].sha <= head
    /\ \A n \in Commits : request[n].at \in {"automation", "queued"} => n = 1
    /\ \A w \in Workers : task[w].at = "create_check" => 0 < task[w].sha /\ task[w].sha <= head
    /\ \A w \in Workers : task[w] # Idle => head > 0
    /\ \A w \in Workers : task[w].at = "idle" => task[w] = Idle
    /\ open > 0 \/ ended # "none" => head > 0
    /\ ended \in Results => kept
    /\ since <= head /\ base <= head

(* Unless reports crossed, one vote at most is open and one worker at most *)
(* has it to report, as what it is.                                        *)
Solo ==
    ~crossed =>
        /\ open <= 1
        /\ \A u, w \in Workers : Reporting(u) /\ Reporting(w) => u = w
        /\ \A w \in Workers : Reporting(w) => task[w].check = Verdict

(* Without a race no request is about to contradict the vote.              *)
Calm == ~raced /\ Voting => since > 0 /\ \A n \in Commits : ~Bound(n)

(* A vote just stored is to be reported on a commit that is not older, and *)
(* no later commit has a check yet; afterwards it is the commit reported   *)
(* on that shows the vote, unless what became of it is to be reported.     *)
Starting == open > 0 /\ ~Reported

ToReport ==
    /\ \A n \in Commits : n > since => check[n] = "none"
    /\ \A w \in Workers : task[w].at = "create_check" => since <= task[w].sha

IsReported ==
    /\ since <= base
    /\ \A n \in Commits : n > base => check[n] = "none"
    /\ Reported => check[base] = Verdict
    /\ \A w \in Workers : task[w].at = "create_check" => base <= task[w].sha

Settled ==
    ~raced /\ ~crossed /\ faults = 0 /\ Voting =>
        (Starting => ToReport) /\ (~Starting => IsReported)

(* Without a vote somebody is about to let the head pass, or has.          *)
Passing ==
    \/ check[head] = "success"
    \/ \E w \in Workers : task[w].check = "success" /\ task[w].at = "read_head"
    \/ \E w \in Workers : /\ task[w].check = "success"
                           /\ task[w].at = "create_check" /\ task[w].sha = head

Underway == request[head].at \in {"sent"} \cup Calls

Unheld ==
    /\ required /\ faults = 0 /\ ~crossed
    /\ open = 0 /\ ended \in {"none", "cancelled"} /\ ~kept /\ head > 0
    => \/ Passing
       \/ (head > 1 \/ ended = "none") /\ Underway
       \/ head = 1 /\ ended = "none" /\ request[1].at = "queued"

IInv == TypeOK /\ Shas /\ Solo /\ Calm /\ NoWayRound /\ Settled /\ Unheld

----------------------------------------------------------------------------
USE ChecksAssumption
    DEF TypeOK, Commits, Workers, Checks, Calls, Answered, Results, Idle, Goes, Reports, Fault,
        voteVars, bounds, history

(* It holds at first: nothing was pushed, no check is set, no vote exists. *)
LEMMA InitIInv == Init => IInv
<1> SUFFICES ASSUME Init PROVE IInv
  OBVIOUS
<1> USE DEF Init
<1>1. TypeOK
  <2>1. MaxPushes \in Nat /\ 0 \in 0 .. MaxPushes
    OBVIOUS
  <2>2. request \in [Commits -> [at : {"none", "sent"} \cup Calls \cup Answered, sha : 0 .. MaxPushes]]
    BY <2>1
  <2>3. task \in [Workers -> [at : {"idle", "store_vote", "read_head", "create_check"},
                              check : Checks, sha : 0 .. MaxPushes]]
    BY <2>1
  <2> QED BY <2>1, <2>2, <2>3
<1>2. Shas
  BY DEF Shas
<1>3. Solo
  BY DEF Solo, Reporting
<1>4. ~Voting /\ head = 0
  BY DEF Voting
<1> QED BY <1>1, <1>2, <1>3, <1>4 DEF IInv, Calm, Settled, Unheld, NoWayRound, Voting

(* A push brings a commit without a check, and a request for it.           *)
LEMMA PushKeeps == ASSUME IInv, Push PROVE IInv'
<1> USE DEF Push
<1>1. TypeOK /\ Shas /\ Solo /\ Calm /\ NoWayRound /\ Settled /\ Unheld
  BY DEF IInv
<1>0. head \in Nat /\ head + 1 \in Commits /\ MaxPushes \in Nat
  BY <1>1
<1>2. TypeOK'
  <2>1. request' \in [Commits -> [at : {"none", "sent"} \cup Calls \cup Answered, sha : 0 .. MaxPushes]]
    BY <1>0, <1>1
  <2> QED BY <1>0, <1>1, <2>1
<1>3. Shas'
  <2>1. \A n \in Commits : n # head + 1 => request'[n] = request[n]
    BY <1>0, <1>1
  <2>2. request'[head + 1].at = "sent"
    BY <1>0, <1>1
  <2> QED BY <1>0, <1>1, <2>1, <2>2 DEF Shas
<1>4. Solo'
  BY <1>1 DEF Solo, Reporting, Verdict, Conclusion
<1>5. Calm'
  <2>1. Voting => head > 0
    BY <1>1 DEF Shas, Voting
  <2>2. head > 0 /\ (\A n \in Commits : ~Bound(n)) => (\A n \in Commits : ~Bound(n)')
    <3>1. head > 0 => head + 1 # 1
      BY <1>0
    <3>2. request'[head + 1].at = "sent" /\ \A n \in Commits : n # head + 1 => request'[n] = request[n]
      BY <1>0, <1>1
    <3> QED BY <3>1, <3>2 DEF Bound
  <2> QED BY <1>1, <2>1, <2>2 DEF Calm, Voting
<1>6. NoWayRound'
  BY <1>1 DEF Shas, Calm, Solo, Voting, Bound, Reporting, Reported, NoWayRound, Verdict, Conclusion
<1>7. Settled'
  BY <1>1 DEF Shas, Solo, Calm, Voting, Bound, Reporting, Reported, Settled, Starting, ToReport,
              IsReported, Verdict, Conclusion
<1>8. Unheld'
  BY <1>1 DEF Shas, Solo, Reporting, Unheld, Passing, Underway, Verdict, Conclusion
<1> QED BY <1>2, <1>3, <1>4, <1>5, <1>6, <1>7, <1>8 DEF IInv

(* A request that goes on knows nothing of the votes yet.                  *)
LEMMA ReceiveKeeps == ASSUME IInv, NEW n \in Commits, Receive(n) PROVE IInv'
<1> USE DEF Receive
<1>1. TypeOK /\ Shas /\ Solo /\ Calm /\ NoWayRound /\ Settled /\ Unheld
  BY DEF IInv
<1>0. PICK step \in {"queued", "automation", "required"} :
           Goes(n, step) /\ (step # "required" => n = 1)
  OBVIOUS
<1>2. TypeOK'
  BY <1>0, <1>1
<1>3. Shas'
  BY <1>0, <1>1 DEF Shas
<1>4. Solo'
  BY <1>1 DEF Solo, Reporting, Verdict, Conclusion
<1>5. Calm'
  <2>1. (\A m \in Commits : ~Bound(m)) => (\A m \in Commits : ~Bound(m)')
    BY <1>0, <1>1 DEF Bound
  <2> QED BY <1>1, <2>1 DEF Calm, Voting
<1>6. NoWayRound'
  BY <1>1 DEF Shas, Calm, Solo, Voting, Bound, Reporting, Reported, NoWayRound, Verdict, Conclusion
<1>7. Settled'
  BY <1>1 DEF Shas, Solo, Calm, Voting, Bound, Reporting, Reported, Settled, Starting, ToReport,
              IsReported, Verdict, Conclusion
<1>8. Unheld'
  BY <1>1 DEF Shas, Solo, Reporting, Unheld, Passing, Underway, Verdict, Conclusion
<1> QED BY <1>2, <1>3, <1>4, <1>5, <1>6, <1>7, <1>8 DEF IInv

(* Only the request for the opening may start a vote.                      *)
LEMMA FindAutomaticKeeps == ASSUME IInv, NEW n \in Commits, FindAutomatic(n) PROVE IInv'
<1> USE DEF FindAutomatic
<1>1. TypeOK /\ Shas /\ Solo /\ Calm /\ NoWayRound /\ Settled /\ Unheld
  BY DEF IInv
<1>2. TypeOK'
  BY <1>1
<1>3. Shas'
  BY <1>1 DEF Shas
<1>4. Solo'
  BY <1>1 DEF Solo, Reporting, Verdict, Conclusion
<1>5. Calm'
  BY <1>1 DEF Shas, Calm, Voting, Bound
<1>6. NoWayRound'
  BY <1>1 DEF Shas, Calm, Solo, Voting, Bound, Reporting, Reported, NoWayRound, Verdict, Conclusion
<1>7. Settled'
  BY <1>1 DEF Shas, Solo, Calm, Voting, Bound, Reporting, Reported, Settled, Starting, ToReport,
              IsReported, Verdict, Conclusion
<1>8. Unheld'
  BY <1>1 DEF Shas, Solo, Reporting, Unheld, Passing, Underway, Verdict, Conclusion
<1> QED BY <1>2, <1>3, <1>4, <1>5, <1>6, <1>7, <1>8 DEF IInv

(* Only the request for the opening does not ask for votes.                *)
LEMMA IsCheckRequiredKeeps == ASSUME IInv, NEW n \in Commits, IsCheckRequired(n) PROVE IInv'
<1> USE DEF IsCheckRequired
<1>1. TypeOK /\ Shas /\ Solo /\ Calm /\ NoWayRound /\ Settled /\ Unheld
  BY DEF IInv
<1>2. TypeOK'
  BY <1>1
<1>3. Shas'
  BY <1>1 DEF Shas
<1>4. Solo'
  BY <1>1 DEF Solo, Reporting, Verdict, Conclusion
<1>5. Calm'
  BY <1>1 DEF Shas, Calm, Voting, Bound
<1>6. NoWayRound'
  BY <1>1 DEF Shas, Calm, Solo, Voting, Bound, Reporting, Reported, NoWayRound, Verdict, Conclusion
<1>7. Settled'
  BY <1>1 DEF Shas, Solo, Calm, Voting, Bound, Reporting, Reported, Settled, Starting, ToReport,
              IsReported, Verdict, Conclusion
<1>8. Unheld'
  BY <1>1 DEF Shas, Solo, Reporting, Unheld, Passing, Underway, Verdict, Conclusion
<1> QED BY <1>2, <1>3, <1>4, <1>5, <1>6, <1>7, <1>8 DEF IInv

(* A request that finds a vote ends, and a vote counts from then on.       *)
LEMMA AskHasVoteKeeps == ASSUME IInv, NEW n \in Commits, AskHasVote(n) PROVE IInv'
<1> USE DEF AskHasVote
<1>1. TypeOK /\ Shas /\ Solo /\ Calm /\ NoWayRound /\ Settled /\ Unheld
  BY DEF IInv
<1>2. TypeOK'
  BY <1>1
<1>3. Shas'
  BY <1>1 DEF Shas
<1>4. Solo'
  BY <1>1 DEF Solo, Reporting, Verdict, Conclusion
<1>5. Calm'
  BY <1>1 DEF Shas, Calm, Voting, Bound, HasVote
<1>6. NoWayRound'
  BY <1>1 DEF Shas, Calm, Solo, Voting, Bound, Reporting, Reported, NoWayRound, Verdict, Conclusion
<1>7. Settled'
  BY <1>1 DEF Shas, Solo, Calm, Voting, Bound, Reporting, Reported, Settled, Starting, ToReport,
              IsReported, Verdict, Conclusion
<1>8. Unheld'
  BY <1>1 DEF Shas, Solo, Reporting, Unheld, Passing, Underway, HasVote
<1> QED BY <1>2, <1>3, <1>4, <1>5, <1>6, <1>7, <1>8 DEF IInv

(* The head read is the request's own commit or a later one.               *)
LEMMA RequestReadsHeadKeeps == ASSUME IInv, NEW n \in Commits, RequestReadsHead(n) PROVE IInv'
<1> USE DEF RequestReadsHead
<1>1. TypeOK /\ Shas /\ Solo /\ Calm /\ NoWayRound /\ Settled /\ Unheld
  BY DEF IInv
<1>2. TypeOK'
  BY <1>1
<1>3. Shas'
  BY <1>1 DEF Shas
<1>4. Solo'
  BY <1>1 DEF Solo, Reporting, Verdict, Conclusion
<1>5. Calm'
  BY <1>1 DEF Shas, Calm, Voting, Bound
<1>6. NoWayRound'
  BY <1>1 DEF Shas, Calm, Solo, Voting, Bound, Reporting, Reported, NoWayRound, Verdict, Conclusion
<1>7. Settled'
  BY <1>1 DEF Shas, Solo, Calm, Voting, Bound, Reporting, Reported, Settled, Starting, ToReport,
              IsReported, Verdict, Conclusion
<1>8. Unheld'
  BY <1>1 DEF Shas, Solo, Reporting, Unheld, Passing, Underway, Verdict, Conclusion
<1> QED BY <1>2, <1>3, <1>4, <1>5, <1>6, <1>7, <1>8 DEF IInv

(* A request sets the check of a pull request that has no vote.            *)
LEMMA SetSuccessKeeps == ASSUME IInv, NEW n \in Commits, SetSuccess(n) PROVE IInv'
<1> USE DEF SetSuccess
<1>1. TypeOK /\ Shas /\ Solo /\ Calm /\ NoWayRound /\ Settled /\ Unheld
  BY DEF IInv
<1>2. TypeOK'
  <2>1. request[n].sha \in Commits
    BY <1>1 DEF Shas
  <2>2. check' \in [Commits -> Checks]
    BY <1>1, <2>1
  <2> QED BY <1>1, <2>2
<1>3. Shas'
  BY <1>1 DEF Shas
<1>4. Solo'
  BY <1>1 DEF Solo, Reporting, Verdict, Conclusion
<1>5. Calm'
  BY <1>1 DEF Shas, Calm, Voting, Bound
<1>6. NoWayRound'
  BY <1>1 DEF Shas, Calm, Solo, Voting, Bound, Reporting, Reported, NoWayRound, Verdict, Conclusion
<1>7. Settled'
  BY <1>1 DEF Shas, Solo, Calm, Voting, Bound, Reporting, Reported, Settled, Starting, ToReport,
              IsReported, Verdict, Conclusion
<1>8. Unheld'
  BY <1>1 DEF Shas, Solo, Reporting, Unheld, Passing, Underway, Verdict, Conclusion
<1> QED BY <1>2, <1>3, <1>4, <1>5, <1>6, <1>7, <1>8 DEF IInv

(* A request that fails sets nothing.                                      *)
LEMMA RequestFailsKeeps == ASSUME IInv, NEW n \in Commits, RequestFails(n) PROVE IInv'
<1> USE DEF RequestFails
<1>1. TypeOK /\ Shas /\ Solo /\ Calm /\ NoWayRound /\ Settled /\ Unheld
  BY DEF IInv
<1>2. TypeOK'
  BY <1>1
<1>3. Shas'
  BY <1>1 DEF Shas
<1>4. Solo'
  BY <1>1 DEF Solo, Reporting, Verdict, Conclusion
<1>5. Calm'
  BY <1>1 DEF Shas, Calm, Voting, Bound
<1>6. NoWayRound'
  BY <1>1 DEF Shas, Calm, Solo, Voting, Bound, Reporting, Reported, NoWayRound, Verdict, Conclusion
<1>7. Settled'
  BY <1>1 DEF Shas, Solo, Calm, Voting, Bound, Reporting, Reported, Settled, Starting, ToReport,
              IsReported, Verdict, Conclusion
<1>8. Unheld'
  BY <1>1 DEF Shas, Solo, Reporting, Unheld, Passing, Underway, Verdict, Conclusion
<1> QED BY <1>2, <1>3, <1>4, <1>5, <1>6, <1>7, <1>8 DEF IInv

(* A command starts a vote when none is open.                              *)
LEMMA StartVoteKeeps == ASSUME IInv, NEW h \in Handlers, StartVote(h) PROVE IInv'
<1> USE DEF StartVote
<1>1. TypeOK /\ Shas /\ Solo /\ Calm /\ NoWayRound /\ Settled /\ Unheld
  BY DEF IInv
<1>2. TypeOK'
  BY <1>1
<1>3. Shas'
  BY <1>1 DEF Shas
<1>4. Solo'
  BY <1>1 DEF Solo, Reporting, Verdict, Conclusion
<1>5. Calm'
  BY <1>1 DEF Shas, Calm, Voting, Bound
<1>6. NoWayRound'
  BY <1>1 DEF Shas, Calm, Solo, Voting, Bound, Reporting, Reported, NoWayRound, Verdict, Conclusion
<1>7. Settled'
  BY <1>1 DEF Shas, Solo, Calm, Voting, Bound, Reporting, Reported, Settled, Starting, ToReport,
              IsReported, Verdict, Conclusion
<1>8. Unheld'
  BY <1>1 DEF Shas, Solo, Reporting, Unheld, Passing, Underway, Verdict, Conclusion
<1> QED BY <1>2, <1>3, <1>4, <1>5, <1>6, <1>7, <1>8 DEF IInv

(* From here on the checks of the commits pushed are those of the vote.    *)
LEMMA StoreVoteKeeps == ASSUME IInv, NEW h \in Handlers, StoreVote(h) PROVE IInv'
<1> USE DEF StoreVote
<1>1. TypeOK /\ Shas /\ Solo /\ Calm /\ NoWayRound /\ Settled /\ Unheld
  BY DEF IInv
<1>0. /\ h \in Workers /\ head > 0 /\ open' = open + 1
      /\ ~raced' => ~raced /\ \A n \in Commits : ~Bound(n)
      /\ ~crossed' => ~crossed /\ open = 0 /\ \A x \in Workers : ~Reporting(x)
      /\ \A x \in Workers : x # h => task'[x] = task[x]
      /\ \/ task'[h] = [at |-> "read_head", check |-> "in_progress", sha |-> 0] /\ faults' = faults
         \/ task'[h] = Idle /\ faults' = faults + 1
  <2>1. h \in Workers /\ task[h] # Idle
    OBVIOUS
  <2>2. head > 0 /\ open' = open + 1
    BY <1>1, <2>1 DEF Shas
  <2>3. ~raced' => ~raced /\ \A n \in Commits : ~Bound(n)
    OBVIOUS
  <2>4. ~crossed' => ~crossed /\ open = 0 /\ \A x \in Workers : ~Reporting(x)
    <3>1. ~crossed' => ~crossed /\ ~(open > 0) /\ Reported
      OBVIOUS
    <3>2. open \in Nat
      BY <1>1
    <3> QED BY <3>1, <3>2 DEF Reported
  <2>5. \A x \in Workers : x # h => task'[x] = task[x]
    BY <1>1
  <2>6. \/ task'[h] = [at |-> "read_head", check |-> "in_progress", sha |-> 0] /\ faults' = faults
        \/ task'[h] = Idle /\ faults' = faults + 1
    <3>1. CASE Reports(h, "in_progress") /\ UNCHANGED faults
      BY <1>1, <2>1, <3>1
    <3>2. CASE Fault /\ task' = [task EXCEPT ![h] = Idle]
      BY <1>1, <2>1, <3>2
    <3> QED BY <3>1, <3>2
  <2> QED BY <2>1, <2>2, <2>3, <2>4, <2>5, <2>6
<1>a. \A x \in Workers : task'[x].at # "create_check" \/ task'[x] = task[x]
  BY <1>0
<1>b. \A x \in Workers : task'[x].at = "idle" => task'[x] = Idle
  <2>1. \A x \in Workers : x # h /\ task'[x].at = "idle" => task'[x] = Idle
    <3>1. \A x \in Workers : x # h => task'[x] = task[x]
      BY <1>0
    <3> QED BY <1>1, <3>1 DEF Shas
  <2>2. task'[h].at = "idle" => task'[h] = Idle
    <3>1. task'[h] = Idle \/ task'[h].at = "read_head"
      BY <1>0
    <3> QED BY <3>1
  <2> QED BY <2>1, <2>2
<1>c. ~crossed' => \A x \in Workers : Reporting(x)' => x = h /\ task'[x].check = "in_progress"
  BY <1>0 DEF Reporting
<1>2. TypeOK'
  <2>1. task' \in [Workers -> [at : {"idle", "store_vote", "read_head", "create_check"},
                               check : Checks, sha : 0 .. MaxPushes]]
    <3>1. CASE Reports(h, "in_progress")
      BY <1>1, <3>1
    <3>2. CASE task' = [task EXCEPT ![h] = Idle]
      BY <1>1, <3>2
    <3> QED BY <3>1, <3>2
  <2> QED BY <1>0, <1>1, <2>1
<1>3. Shas'
  BY <1>0, <1>a, <1>b, <1>1 DEF Shas
<1>4. Solo'
  <2>1. ~crossed' => open' <= 1 /\ Verdict' = "in_progress"
    BY <1>0, <1>1 DEF Solo, Verdict, Conclusion
  <2> QED BY <1>0, <1>c, <2>1 DEF Solo
<1>5. Calm'
  <2>1. (\A n \in Commits : ~Bound(n)) => (\A n \in Commits : ~Bound(n)')
    BY DEF Bound
  <2> QED BY <1>0, <1>1, <2>1 DEF Shas, Calm, Voting
<1>6. NoWayRound'
  BY <1>0, <1>a, <1>b, <1>c, <1>1 DEF Shas, Calm, Solo, Voting, Bound, Reporting, Reported,
                                      NoWayRound, Verdict, Conclusion
<1>7. Settled'
  BY <1>0, <1>a, <1>b, <1>c, <1>1 DEF Shas, Solo, Calm, Voting, Bound, Reporting, Reported,
                                      Settled, Starting, ToReport, IsReported, Verdict, Conclusion
<1>8. Unheld'
  BY <1>0, <1>a, <1>b, <1>c, <1>1 DEF Shas, Solo, Reporting, Unheld, Passing, Underway, Verdict,
                                      Conclusion
<1> QED BY <1>2, <1>3, <1>4, <1>5, <1>6, <1>7, <1>8 DEF IInv

(* A vote cancelled is reported by the handler.                            *)
LEMMA CancelVoteKeeps == ASSUME IInv, NEW h \in Handlers, CancelVote(h) PROVE IInv'
<1> USE DEF CancelVote
<1>1. TypeOK /\ Shas /\ Solo /\ Calm /\ NoWayRound /\ Settled /\ Unheld
  BY DEF IInv
<1>0. /\ h \in Workers /\ head > 0 /\ open > 0 /\ open' = 0 /\ ended' = "cancelled"
      /\ ~crossed' => ~crossed /\ open = 1 /\ \A x \in Workers : ~Reporting(x)
      /\ \A x \in Workers : x # h => task'[x] = task[x]
      /\ \/ /\ task'[h] = [at |-> "read_head", check |-> "success", sha |-> 0]
            /\ faults' = faults
         \/ task'[h] = Idle /\ (faults' = faults + 1 \/ (open > 1 /\ faults' = faults))
  <2>1. h \in Workers /\ open > 0 /\ open' = 0 /\ ended' = "cancelled"
    BY DEF Ends
  <2>2. head > 0
    BY <1>1, <2>1 DEF Shas
  <2>3. ~crossed' => ~crossed /\ \A x \in Workers : ~Reporting(x)
    BY DEF Ends, Reported
  <2>4. ~crossed => open = 1
    BY <1>1, <2>1 DEF Solo
  <2>5. \A x \in Workers : x # h => task'[x] = task[x]
    BY <1>1
  <2>6. \/ /\ task'[h] = [at |-> "read_head", check |-> "success", sha |-> 0]
           /\ faults' = faults
        \/ task'[h] = Idle /\ (faults' = faults + 1 \/ (open > 1 /\ faults' = faults))
    <3>1. CASE open = 1 /\ Reports(h, "success") /\ UNCHANGED faults
      BY <1>1, <2>1, <3>1
    <3>2. CASE open = 1 /\ Fault /\ UNCHANGED task
      BY <3>2
    <3>3. CASE open > 1 /\ UNCHANGED <<task, faults>>
      BY <1>1, <2>1, <3>3
    <3> QED BY <3>1, <3>2, <3>3
  <2> QED BY <2>1, <2>2, <2>3, <2>4, <2>5, <2>6
<1>a. \A x \in Workers : task'[x].at # "create_check" \/ task'[x] = task[x]
  BY <1>0
<1>b. \A x \in Workers : task'[x].at = "idle" => task'[x] = Idle
  <2>1. \A x \in Workers : x # h /\ task'[x].at = "idle" => task'[x] = Idle
    <3>1. \A x \in Workers : x # h => task'[x] = task[x]
      BY <1>0
    <3> QED BY <1>1, <3>1 DEF Shas
  <2>2. task'[h].at = "idle" => task'[h] = Idle
    <3>1. task'[h] = Idle \/ task'[h].at = "read_head"
      BY <1>0
    <3> QED BY <3>1
  <2> QED BY <2>1, <2>2
<1>c. ~crossed' => \A x \in Workers : Reporting(x)' => x = h /\ task'[x].check = "success"
  BY <1>0 DEF Reporting
<1>2. TypeOK'
  <2>1. task' \in [Workers -> [at : {"idle", "store_vote", "read_head", "create_check"},
                               check : Checks, sha : 0 .. MaxPushes]]
    <3>1. CASE Reports(h, "success")
      BY <1>1, <3>1
    <3>2. CASE task' = task
      BY <1>1, <3>2
    <3> QED BY <3>1, <3>2
  <2> QED BY <1>0, <1>1, <2>1 DEF Ends
<1>3. Shas'
  BY <1>0, <1>a, <1>b, <1>1 DEF Shas
<1>4. Solo'
  <2>1. ~crossed' => open' <= 1 /\ Verdict' = "success"
    BY <1>0, <1>1 DEF Solo, Verdict, Conclusion
  <2> QED BY <1>0, <1>c, <2>1 DEF Solo
<1>5. Calm'
  <2>1. (\A n \in Commits : ~Bound(n)) => (\A n \in Commits : ~Bound(n)')
    BY DEF Bound
  <2> QED BY <1>0, <1>1, <2>1 DEF Shas, Calm, Voting
<1>6. NoWayRound'
  BY <1>0, <1>a, <1>b, <1>c, <1>1 DEF Shas, Calm, Solo, Voting, Bound, Reporting, Reported,
                                      NoWayRound, Verdict, Conclusion
<1>7. Settled'
  BY <1>0, <1>a, <1>b, <1>c, <1>1 DEF Shas, Solo, Calm, Voting, Bound, Reporting, Reported,
                                      Settled, Starting, ToReport, IsReported, Verdict, Conclusion
<1>8. Unheld'
  BY <1>0, <1>a, <1>b, <1>c, <1>1 DEF Shas, Solo, Reporting, Unheld, Passing, Underway, Verdict,
                                      Conclusion
<1> QED BY <1>2, <1>3, <1>4, <1>5, <1>6, <1>7, <1>8 DEF IInv

(* A vote closed is reported by the closer.                                *)
LEMMA CloseVoteKeeps == ASSUME IInv, CloseVote PROVE IInv'
<1> USE DEF CloseVote
<1>1. TypeOK /\ Shas /\ Solo /\ Calm /\ NoWayRound /\ Settled /\ Unheld
  BY DEF IInv
<1>0. /\ Closer \in Workers /\ head > 0 /\ open > 0 /\ open' = open - 1
      /\ ended' \in Results /\ kept' = TRUE
      /\ ~crossed' => ~crossed /\ open = 1 /\ \A x \in Workers : ~Reporting(x)
      /\ \A x \in Workers : x # Closer => task'[x] = task[x]
      /\ \/ /\ task'[Closer] = [at |-> "read_head", check |-> Conclusion(ended'), sha |-> 0]
            /\ faults' = faults
         \/ task'[Closer] = Idle /\ faults' = faults + 1
  <2>1. Closer \in Workers /\ open > 0 /\ open' = open - 1 /\ ended' \in Results /\ kept' = TRUE
    BY DEF Ends
  <2>2. head > 0
    BY <1>1, <2>1 DEF Shas
  <2>3. ~crossed' => ~crossed /\ \A x \in Workers : ~Reporting(x)
    BY DEF Ends, Reported
  <2>4. ~crossed => open = 1
    BY <1>1, <2>1 DEF Solo
  <2>5. \A x \in Workers : x # Closer => task'[x] = task[x]
    BY <1>1
  <2>6. \/ /\ task'[Closer] = [at |-> "read_head", check |-> Conclusion(ended'), sha |-> 0]
           /\ faults' = faults
        \/ task'[Closer] = Idle /\ faults' = faults + 1
    <3>1. PICK r \in Results : /\ ended' = r
                             /\ \/ Reports(Closer, Conclusion(r)) /\ UNCHANGED faults
                                \/ Fault /\ UNCHANGED task
      BY DEF Ends
    <3>2. CASE Reports(Closer, Conclusion(r)) /\ UNCHANGED faults
      BY <1>1, <2>1, <3>1, <3>2
    <3>3. CASE Fault /\ UNCHANGED task
      BY <3>3
    <3> QED BY <3>1, <3>2, <3>3
  <2> QED BY <2>1, <2>2, <2>3, <2>4, <2>5, <2>6
<1>a. \A x \in Workers : task'[x].at # "create_check" \/ task'[x] = task[x]
  BY <1>0
<1>b. \A x \in Workers : task'[x].at = "idle" => task'[x] = Idle
  BY <1>0, <1>1 DEF Shas
<1>c. ~crossed' => \A x \in Workers : Reporting(x)' => x = Closer /\ task'[x].check = Conclusion(ended')
  BY <1>0 DEF Reporting
<1>2. TypeOK'
  <2>1. task' \in [Workers -> [at : {"idle", "store_vote", "read_head", "create_check"},
                               check : Checks, sha : 0 .. MaxPushes]]
    BY <1>0, <1>1 DEF Conclusion
  <2> QED BY <1>0, <1>1, <2>1 DEF Ends
<1>3. Shas'
  BY <1>0, <1>a, <1>b, <1>1 DEF Shas
<1>4. Solo'
  <2>1. ~crossed' => open' <= 1 /\ Verdict' = Conclusion(ended')
    BY <1>0, <1>1 DEF Solo, Verdict, Conclusion
  <2> QED BY <1>0, <1>c, <2>1 DEF Solo
<1>5. Calm'
  <2>1. (\A n \in Commits : ~Bound(n)) => (\A n \in Commits : ~Bound(n)')
    BY DEF Bound
  <2> QED BY <1>0, <1>1, <2>1 DEF Shas, Calm, Voting
<1>6. NoWayRound'
  BY <1>0, <1>a, <1>b, <1>c, <1>1 DEF Shas, Calm, Solo, Voting, Bound, Reporting, Reported,
                                      NoWayRound, Verdict, Conclusion
<1>7. Settled'
  BY <1>0, <1>a, <1>b, <1>c, <1>1 DEF Shas, Solo, Calm, Voting, Bound, Reporting, Reported,
                                      Settled, Starting, ToReport, IsReported, Verdict, Conclusion
<1>8. Unheld'
  BY <1>0, <1>a, <1>b, <1>c, <1>1 DEF Shas, Solo, Reporting, Unheld, Passing, Underway, Verdict,
                                      Conclusion
<1> QED BY <1>2, <1>3, <1>4, <1>5, <1>6, <1>7, <1>8 DEF IInv

(* A worker reads the head it reports on.                                  *)
LEMMA ReadHeadKeeps == ASSUME IInv, NEW w \in Workers, ReadHead(w) PROVE IInv'
<1> USE DEF ReadHead
<1>1. TypeOK /\ Shas /\ Solo /\ Calm /\ NoWayRound /\ Settled /\ Unheld
  BY DEF IInv
<1>0. /\ task'[w].at = "create_check" /\ task'[w].check = task[w].check /\ task'[w].sha = head
      /\ \A x \in Workers : x # w => task'[x] = task[x]
      /\ head > 0 /\ task[w] # Idle
  BY DEF IInv, Shas
<1>2. TypeOK'
  BY <1>0, <1>1
<1>3. Shas'
  <2>1. task'[w].at # "idle"
    BY <1>0
  <2>2. \A x \in Workers : task'[x] # Idle => task[x] # Idle
    BY <1>0
  <2>3. \A x \in Workers : task'[x].at = "idle" => task'[x] = Idle
    BY <1>0, <1>1, <2>1 DEF Shas
  <2>4. ASSUME NEW x \in Workers, task'[x].at = "create_check"
        PROVE  0 < task'[x].sha /\ task'[x].sha <= head
    <3>1. CASE x = w
      <4>1. head \in Nat
        BY <1>1
      <4> QED BY ONLY <1>0, <3>1, <4>1
    <3>2. CASE x # w
      <4>1. task'[x] = task[x]
        BY ONLY <1>0, <3>2, x \in Workers
      <4>2. task[x].at = "create_check" => 0 < task[x].sha /\ task[x].sha <= head
        BY ONLY <1>1, x \in Workers DEF Shas
      <4> QED BY ONLY <2>4, <4>1, <4>2
    <3> QED BY <3>1, <3>2
  <2>5. \A x \in Workers : task'[x] # Idle => head > 0
    BY <1>0
  <2>6. /\ \A n \in Commits : n > head' => check'[n] = "none" /\ request'[n].at = "none"
        /\ \A n \in Commits : n <= head' => request'[n].at # "none"
        /\ \A n \in Commits : request'[n].at = "create_check" => n <= request'[n].sha /\ request'[n].sha <= head'
        /\ \A n \in Commits : request'[n].at \in {"automation", "queued"} => n = 1
    BY <1>1 DEF Shas
  <2>7. /\ open' > 0 \/ ended' # "none" => head' > 0
        /\ ended' \in Results => kept'
        /\ since' <= head' /\ base' <= head'
    BY <1>1 DEF Shas
  <2>8. head' = head
    OBVIOUS
  <2> QED BY <2>3, <2>4, <2>5, <2>6, <2>7, <2>8 DEF Shas
<1>4. Solo'
  BY <1>0, <1>1 DEF Solo, Reporting, Verdict, Conclusion
<1>5. Calm'
  BY <1>0, <1>1 DEF Shas, Calm, Voting, Bound
<1>6. NoWayRound'
  BY <1>0, <1>1 DEF Shas, Calm, Solo, Voting, Bound, Reporting, Reported, NoWayRound, Verdict,
                    Conclusion
<1>7. Settled'
  <2>1. /\ UNCHANGED <<head, check, open, ended, kept, faults, since, base, raced, crossed>>
        /\ since <= head /\ base <= head
    BY <1>1 DEF Shas
  <2>2. \A x \in Workers : Reporting(x)' <=> Reporting(x)
    BY <1>0 DEF Reporting
  <2>3. (Starting' <=> Starting) /\ (Reported' <=> Reported) /\ (Voting' <=> Voting) /\ Verdict' = Verdict
    BY <2>1, <2>2 DEF Starting, Reported, Voting, Verdict, Conclusion
  <2>4. ToReport => ToReport'
    BY <1>0, <2>1 DEF ToReport
  <2>5. IsReported => IsReported'
    BY <1>0, <2>1, <2>3 DEF IsReported
  <2> HIDE DEF ReadHead
  <2> QED BY <1>1, <2>1, <2>3, <2>4, <2>5 DEF Settled
<1>8. Unheld'
  BY <1>0, <1>1 DEF Shas, Solo, Reporting, Unheld, Passing, Underway, Verdict, Conclusion
<1> QED BY <1>2, <1>3, <1>4, <1>5, <1>6, <1>7, <1>8 DEF IInv

(* A worker reports what became of the vote.                               *)
LEMMA CreateCheckRunKeeps == ASSUME IInv, NEW w \in Workers, CreateCheckRun(w) PROVE IInv'
<1> USE DEF CreateCheckRun
<1>1. TypeOK /\ Shas /\ Solo /\ Calm /\ NoWayRound /\ Settled /\ Unheld
  BY DEF IInv
<1>2. TypeOK'
  <2>1. task[w].sha \in Commits /\ task[w].check \in Checks
    BY <1>1 DEF Shas
  <2>2. check' \in [Commits -> Checks]
    BY <1>1, <2>1
  <2> QED BY <1>1, <2>1, <2>2
<1>3. Shas'
  BY <1>1 DEF Shas
<1>4. Solo'
  BY <1>1 DEF Solo, Reporting, Verdict, Conclusion
<1>5. Calm'
  BY <1>1 DEF Shas, Calm, Voting, Bound
<1>6. NoWayRound'
  BY <1>1 DEF Shas, Calm, Solo, Voting, Bound, Reporting, Reported, NoWayRound, Verdict, Conclusion
<1>7. Settled'
  BY SMTT(30), <1>1 DEF Shas, Solo, Calm, Voting, Bound, Reporting, Reported, Settled, Starting, ToReport,
              IsReported, Verdict, Conclusion
<1>8. Unheld'
  BY <1>1 DEF Shas, Solo, Reporting, Unheld, Passing, Underway, Verdict, Conclusion
<1> QED BY <1>2, <1>3, <1>4, <1>5, <1>6, <1>7, <1>8 DEF IInv

(* A worker that fails reports nothing.                                    *)
LEMMA WorkerFailsKeeps == ASSUME IInv, NEW w \in Workers, WorkerFails(w) PROVE IInv'
<1> USE DEF WorkerFails
<1>1. TypeOK /\ Shas /\ Solo /\ Calm /\ NoWayRound /\ Settled /\ Unheld
  BY DEF IInv
<1>2. TypeOK'
  BY <1>1
<1>3. Shas'
  BY <1>1 DEF Shas
<1>4. Solo'
  BY <1>1 DEF Solo, Reporting, Verdict, Conclusion
<1>5. Calm'
  BY <1>1 DEF Shas, Calm, Voting, Bound
<1>6. NoWayRound'
  BY <1>1 DEF Shas, Calm, Solo, Voting, Bound, Reporting, Reported, NoWayRound, Verdict, Conclusion
<1>7. Settled'
  BY <1>1 DEF Shas, Solo, Calm, Voting, Bound, Reporting, Reported, Settled, Starting, ToReport,
              IsReported, Verdict, Conclusion
<1>8. Unheld'
  BY <1>1 DEF Shas, Solo, Reporting, Unheld, Passing, Underway, Verdict, Conclusion
<1> QED BY <1>2, <1>3, <1>4, <1>5, <1>6, <1>7, <1>8 DEF IInv

(* A crash forgets the actors, not the votes nor the checks.               *)
LEMMA CrashKeeps == ASSUME IInv, Crash PROVE IInv'
<1> USE DEF Crash
<1>1. TypeOK /\ Shas /\ Solo /\ Calm /\ NoWayRound /\ Settled /\ Unheld
  BY DEF IInv
<1>2. TypeOK'
  BY <1>1
<1>3. Shas'
  BY <1>1 DEF Shas
<1>4. Solo'
  BY <1>1 DEF Solo, Reporting, Verdict, Conclusion
<1>5. Calm'
  BY <1>1 DEF Shas, Calm, Voting, Bound
<1>6. NoWayRound'
  BY <1>1 DEF Shas, Calm, Solo, Voting, Bound, Reporting, Reported, NoWayRound, Verdict, Conclusion
<1>7. Settled'
  BY <1>1 DEF Shas, Solo, Calm, Voting, Bound, Reporting, Reported, Settled, Starting, ToReport,
              IsReported, Verdict, Conclusion
<1>8. Unheld'
  BY <1>1 DEF Shas, Solo, Reporting, Unheld, Passing, Underway, Verdict, Conclusion
<1> QED BY <1>2, <1>3, <1>4, <1>5, <1>6, <1>7, <1>8 DEF IInv

HIDE DEF TypeOK, Commits, Workers, Checks, Calls, Answered, Results, Idle, Goes, Reports, Fault,
         voteVars, bounds, history

(* So it holds whatever the order of events, commands and closings.        *)
LEMMA IInvHolds == Spec => []IInv
<1>1. IInv /\ [Next]_vars => IInv'
  <2> SUFFICES ASSUME IInv, [Next]_vars PROVE IInv'
    OBVIOUS
  <2>1. CASE UNCHANGED vars
    <3>1. /\ UNCHANGED <<required, head, check, open, ended, kept, request, task, votes, faults>>
          /\ UNCHANGED <<since, base, raced, crossed>>
      BY <2>1 DEF vars, voteVars, bounds, history
    <3>2. (TypeOK /\ Shas /\ Solo)'
      BY <3>1 DEF IInv, TypeOK, Shas, Solo, Reporting, Verdict
    <3>3. (Calm /\ NoWayRound)'
      BY <3>1 DEF IInv, Calm, NoWayRound, Voting, Bound
    <3>4. (Settled /\ Unheld)'
      BY <3>1 DEF IInv, Settled, Unheld, Voting, Starting, ToReport, IsReported, Reporting,
                  Reported,
                  Verdict, Passing, Underway
    <3> QED BY <3>2, <3>3, <3>4 DEF IInv
  <2>2. ASSUME NEW n \in Commits, RequestStep(n) PROVE IInv'
    BY <2>2, ReceiveKeeps, FindAutomaticKeeps, IsCheckRequiredKeeps, AskHasVoteKeeps,
       RequestReadsHeadKeeps, SetSuccessKeeps, RequestFailsKeeps DEF RequestStep
  <2>3. ASSUME NEW h \in Handlers, HandlerStep(h) PROVE IInv'
    BY <2>3, StartVoteKeeps, StoreVoteKeeps, CancelVoteKeeps DEF HandlerStep
  <2>4. ASSUME NEW w \in Workers, ReadHead(w) \/ CreateCheckRun(w) \/ WorkerFails(w) PROVE IInv'
    BY <2>4, ReadHeadKeeps, CreateCheckRunKeeps, WorkerFailsKeeps
  <2> QED BY <2>1, <2>2, <2>3, <2>4, PushKeeps, CloseVoteKeeps, CrashKeeps DEF Next
<1> QED BY InitIInv, <1>1, PTL DEF Spec

----------------------------------------------------------------------------
(* The check runs, the requests and the workers keep their types.          *)
THEOREM ChecksTypeCorrect == Spec => []TypeOK
BY IInvHolds, PTL DEF IInv

(* Commits pushed while a vote is open, or after it was lost, do not show  *)
(* success: a request that says there is no vote asked before the vote was *)
(* stored, and that is a race.                                             *)
THEOREM PushingIsNoWayRound == Spec => []NoWayRound
BY IInvHolds, PTL DEF IInv

(* Without faults, races and crossed reports the commit reported on shows  *)
(* what became of the vote.                                                *)
THEOREM VerdictIsNotUndone == Spec => []VerdictStands
<1>1. IInv => VerdictStands
  <2> SUFFICES ASSUME IInv, ~raced, ~crossed, faults = 0, Reported, Voting
               PROVE  /\ base > 0 /\ check[base] = Verdict
                      /\ \A n \in Commits : n > base => check[n] = "none"
    BY DEF VerdictStands, Voting
  <2>1. IsReported
    BY DEF IInv, Settled, Starting
  <2>2. since > 0 /\ since \in Nat /\ base \in Nat
    BY ChecksAssumption DEF IInv, Calm, TypeOK
  <2> QED BY <2>1, <2>2 DEF IsReported
<1> QED BY <1>1, IInvHolds, PTL

(* Without faults and crossed reports a pull request that nobody votes on  *)
(* is not held up, however many handlers and pushes there are.             *)
THEOREM NobodyIsHeldUp == Spec => []NotHeldUp
<1>1. IInv => NotHeldUp
  <2> SUFFICES ASSUME IInv, required, faults = 0, ~crossed, Quiet, open = 0,
                      ended \in {"none", "cancelled"}, ~kept,
                      head > 1 \/ (head = 1 /\ request[1].at # "queued") \/ ended = "cancelled"
               PROVE  check[head] = "success"
    BY DEF NotHeldUp
  <2>1. \A w \in Workers : task[w].at \notin {"read_head", "create_check"}
    BY DEF Quiet, Reported, Reporting
  <2>2. head \in Nat /\ head > 0
    BY ChecksAssumption DEF IInv, Shas, TypeOK
  <2>3. request[head].at \in Answered
    BY <2>2 DEF Quiet
  <2> QED BY <2>1, <2>2, <2>3 DEF IInv, Unheld, Passing, Underway, Answered, Calls
<1> QED BY <1>1, IInvHolds, PTL
=============================================================================
