------------------------- MODULE EarlyCloseProofs -------------------------
(***************************************************************************)
(* Theorems about the early closing of a vote, for any users, allowed      *)
(* voters, profile, replicas, failed calls and withdrawn votes.            *)
(***************************************************************************)
EXTENDS EarlyClose, FiniteSetTheorems, TLAPS

(* Whatever base the profile chooses, it is no more than the number of     *)
(* allowed voters, and it counts the votes in favor, which are a number.   *)
LEMMA BaseBounds ==
    ASSUME NEW votes \in Ballots, NEW allowed, allowed \subseteq Users, IsFiniteSet(allowed),
           NEW profile \in Profiles
    PROVE  /\ Count(votes, allowed, "in_favor") \in Nat
           /\ Base(votes, allowed, profile) \in Nat
           /\ Base(votes, allowed, profile) <= Cardinality(allowed)
           /\ Count(votes, allowed, "in_favor") <= Base(votes, allowed, profile)
<1> DEFINE favor == {u \in allowed : votes[u] = "in_favor"}
           against == {u \in allowed : votes[u] = "against"}
           cast == Binding(votes, allowed)
<1>1. /\ favor \subseteq cast /\ cast \subseteq allowed
      /\ favor \cup against \subseteq allowed /\ favor \cap against = {}
  BY DEF Binding
<1>2. IsFiniteSet(favor) /\ IsFiniteSet(against) /\ IsFiniteSet(cast) /\ IsFiniteSet(favor \cup against)
  BY <1>1, FS_Subset
<1> HIDE DEF favor, against, cast
<1>3. /\ Cardinality(favor) \in Nat /\ Cardinality(against) \in Nat
      /\ Cardinality(cast) \in Nat /\ Cardinality(allowed) \in Nat
  BY <1>2, FS_CardinalityType
<1>4. /\ Cardinality(favor) <= Cardinality(cast) /\ Cardinality(cast) <= Cardinality(allowed)
      /\ Cardinality(favor \cup against) <= Cardinality(allowed)
  BY <1>1, <1>2, FS_Subset
<1>5. Cardinality(favor \cup against) = Cardinality(favor) + Cardinality(against)
  <2>1. Cardinality(favor \cap against) = 0
    BY <1>1, FS_EmptySet
  <2>2. Cardinality(favor \cup against) =
          Cardinality(favor) + Cardinality(against) - Cardinality(favor \cap against)
    BY <1>2, FS_Union
  <2> QED BY <1>3, <2>1, <2>2
<1> QED
  BY <1>3, <1>4, <1>5 DEF Base, Count, favor, against, cast

(* A product grows with its factor.                                        *)
LEMMA TimesMonotone ==
    ASSUME NEW k \in Nat, NEW m \in Nat, NEW n \in Nat, m <= n
    PROVE  k * m <= k * n
  OBVIOUS

(* A vote that passes over all the allowed voters passes with whatever     *)
(* first votes are cast later, over any base: this is what the comments of *)
(* passes_with_all_allowed_voters and of VotesAutoCloser::run say.         *)
THEOREM FirstVotesKeepPassing ==
    ASSUME NEW before \in Ballots, NEW after \in Ballots,
           NEW allowed, allowed \subseteq Users, IsFiniteSet(allowed),
           NEW profile \in Profiles,
           OnlyFirstVotes(before, after),
           PassesWithAllAllowedVoters(before, allowed, profile)
    PROVE  Passed(after, allowed, profile)
<1> DEFINE f == Count(before, allowed, "in_favor")
           g == Count(after, allowed, "in_favor")
           b == Base(after, allowed, profile)
           n == Cardinality(allowed)
           t == profile.pass_threshold
<1>1. f \in Nat /\ g \in Nat /\ n \in Nat /\ b \in Nat /\ b <= n /\ g <= b
  BY BaseBounds, FS_CardinalityType
<1>2. f <= g
  <2>1. {u \in allowed : before[u] = "in_favor"} \subseteq {u \in allowed : after[u] = "in_favor"}
    BY DEF OnlyFirstVotes
  <2> QED
    BY <2>1, FS_Subset DEF Count
<1>3. t \in Nat /\ t > 0
  <2>1. t \in 1 .. 10000
    BY DEF Profiles, Thresholds
  <2> HIDE DEF t
  <2> QED
    BY SMTT(30), <2>1
<1>4. n > 0 /\ f * 10000 >= t * n
  BY DEF PassesWithAllAllowedVoters, ThresholdReached
<1> HIDE DEF f, g, b, n, t
<1>5. t * b <= t * n
  BY <1>1, <1>3, TimesMonotone
<1>6. t * n \in Nat /\ t * n > 0
  BY <1>1, <1>3, <1>4
<1>7. f > 0
  BY <1>1, <1>4, <1>6
<1>8. b > 0 /\ g * 10000 >= t * b
  <2>1. t * b \in Nat /\ t * n \in Nat
    BY <1>1, <1>3
  <2> QED
    BY <1>1, <1>2, <1>4, <1>5, <1>7, <2>1
<1> QED
  BY <1>8 DEF Passed, ThresholdReached, g, b, t

----------------------------------------------------------------------------
(* The votes counted are ballots.                                          *)
LEMMA VotesOfType == VotesOf(reactions) \in Ballots
<1>1. ASSUME NEW u \in Users
      PROVE  (IF \E o \in Options : Cast(reactions, u) = {o}
              THEN CHOOSE o \in Options : Cast(reactions, u) = {o} ELSE "none")
                 \in Options \cup {"none"}
  OBVIOUS
<1> QED
  BY <1>1 DEF VotesOf, Ballots

(* Before a worker reads anything it knows of no vote.                     *)
LEMMA NothingReadType == NothingRead \in Readings /\ NoVotes \in Ballots
  BY DEF NothingRead, NoVotes, Readings, Ballots

(* Whatever teams cannot be read, the allowed voters are finitely many     *)
(* users.                                                                  *)
LEMMA AllowedVotersType ==
    ASSUME NEW A, GetAllowedVoters(A), faults \in Nat
    PROVE  A \subseteq Users /\ IsFiniteSet(A) /\ faults' \in Nat
<1>1. ASSUME NEW lost \in SUBSET Voters
      PROVE  /\ AllowedVoters(Voters \ lost) \subseteq Users
             /\ IsFiniteSet(AllowedVoters(Voters \ lost))
  <2>1. IsFiniteSet(Voters \ lost) /\ Voters \ lost \subseteq Users
    BY EarlyCloseAssumption, FS_Subset
  <2> QED
    BY <2>1, EarlyCloseAssumption DEF AllowedVoters
<1>2. AllowedVoters(Voters) \subseteq Users /\ IsFiniteSet(AllowedVoters(Voters))
  BY EarlyCloseAssumption DEF AllowedVoters
<1>3. CASE A = AllowedVoters(Voters) /\ UNCHANGED faults
  BY <1>2, <1>3
<1>4. CASE Fault /\ \E lost \in SUBSET TeamMembers : A = AllowedVoters(Voters \ lost)
  <2>1. PICK lost \in SUBSET TeamMembers : A = AllowedVoters(Voters \ lost)
    BY <1>4
  <2>2. lost \in SUBSET Voters
    BY EarlyCloseAssumption
  <2>3. faults' \in Nat
    BY <1>4 DEF Fault
  <2> QED
    BY <1>1, <2>1, <2>2, <2>3
<1> QED
  BY <1>3, <1>4 DEF GetAllowedVoters

(* A worker that has read the allowed voters keeps the votes it had read.  *)
LEMMA ReadingType ==
    ASSUME NEW r \in Readings, NEW A, A \subseteq Users
    PROVE  /\ [r EXCEPT !.allowed = A] \in Readings
           /\ [r EXCEPT !.allowed = A].votes = r.votes
           /\ [r EXCEPT !.allowed = A].allowed = A
  BY DEF Readings

(* The types are an invariant.                                             *)
LEMMA TypeStep == TypeOK /\ [Next]_vars => TypeOK'
<1> SUFFICES ASSUME TypeOK, [Next]_vars PROVE TypeOK'
  OBVIOUS
<1> USE DEF TypeOK
<1>1. ASSUME NEW r \in Possible, React(r) PROVE TypeOK'
  BY <1>1, EarlyCloseAssumption DEF React
<1>2. ASSUME NEW r \in reactions, Unreact(r) PROVE TypeOK'
  BY <1>2 DEF Unreact
<1>3. ASSUME NEW a \in AutoClosers, AutoFind(a) PROVE TypeOK'
  BY <1>3, NothingReadType DEF AutoFind, AutoSteps
<1>4. ASSUME NEW a \in AutoClosers, AutoReactions(a) PROVE TypeOK'
  <2>1. [votes |-> VotesOf(reactions), allowed |-> {}] \in Readings
    BY VotesOfType DEF Readings
  <2> QED
    BY <1>4, <2>1 DEF AutoReactions, AutoSteps
<1>5. ASSUME NEW a \in AutoClosers, AutoDecide(a) PROVE TypeOK'
  <2>1. PICK A \in SUBSET Users :
            /\ GetAllowedVoters(A)
            /\ auto' = [auto EXCEPT ![a] =
                          IF ClosesOnPassing(auto[a].read.votes, A)
                          THEN [at |-> "update", read |-> [auto[a].read EXCEPT !.allowed = A]]
                          ELSE Asleep]
    BY <1>5 DEF AutoDecide
  <2>2. [auto[a].read EXCEPT !.allowed = A] \in Readings
    BY ReadingType
  <2>3. Asleep \in [at : AutoSteps, read : Readings]
    BY NothingReadType DEF Asleep, AutoSteps
  <2>4. auto' \in [AutoClosers -> [at : AutoSteps, read : Readings]]
    BY <2>1, <2>2, <2>3 DEF AutoSteps
  <2> QED
    BY <1>5, <2>1, <2>4, AllowedVotersType DEF AutoDecide
<1>6. ASSUME NEW a \in AutoClosers, AutoUpdate(a) PROVE TypeOK'
  BY <1>6, NothingReadType DEF AutoUpdate, Asleep, AutoSteps
<1>7. ASSUME NEW a \in AutoClosers, AutoFails(a) PROVE TypeOK'
  BY <1>7, NothingReadType, EarlyCloseAssumption DEF AutoFails, Asleep, AutoSteps, Fault
<1>8. ASSUME NEW a \in AutoClosers, AutoPanics(a) PROVE TypeOK'
  BY <1>8, NothingReadType DEF AutoPanics, Ended, AutoSteps
<1>9. CASE Pick
  BY <1>9, NothingReadType DEF Pick, CloserSteps
<1>10. CASE CloserReactions
  <2>1. [votes |-> VotesOf(reactions), allowed |-> {}] \in Readings
    BY VotesOfType DEF Readings
  <2> QED
    BY <1>10, <2>1 DEF CloserReactions, CloserSteps
<1>11. CASE CloserVoters
  <2>1. PICK A \in SUBSET Users :
            /\ GetAllowedVoters(A)
            /\ closer' = [at |-> "store", read |-> [closer.read EXCEPT !.allowed = A]]
    BY <1>11 DEF CloserVoters
  <2>2. [closer.read EXCEPT !.allowed = A] \in Readings
    BY ReadingType
  <2> QED
    BY <1>11, <2>1, <2>2, AllowedVotersType DEF CloserVoters, CloserSteps
<1>12. CASE StoreResults
  BY <1>12 DEF StoreResults, CloserSteps, Passed, ThresholdReached
<1>13. CASE CloserFails
  BY <1>13, NothingReadType, EarlyCloseAssumption DEF CloserFails, Asleep, CloserSteps, Fault
<1>14. CASE TimeUp
  BY <1>14 DEF TimeUp
<1>15. CASE WaitOver
  BY <1>15 DEF WaitOver
<1>16. CASE Rest \/ UNCHANGED vars
  BY <1>16 DEF Rest, vars
<1> QED
  BY <1>1, <1>2, <1>3, <1>4, <1>5, <1>6, <1>7, <1>9, <1>10, <1>11, <1>12, <1>13, <1>14,
     <1>15, <1>16, <1>8 DEF Next, AutoStep, CloserStep

(* The vote starts well typed.                                             *)
LEMMA TypeInit == Init => TypeOK
<1> SUFFICES ASSUME Init PROVE TypeOK
  OBVIOUS
<1>1. /\ Asleep \in [at : AutoSteps, read : Readings]
      /\ Asleep \in [at : CloserSteps, read : Readings]
  BY NothingReadType DEF Asleep, AutoSteps, CloserSteps
<1> QED
  BY <1>1 DEF Init, TypeOK

(* The workers and what they have read keep their types, whatever they     *)
(* interleave with the users.                                              *)
THEOREM EarlyTypeCorrect == Spec => []TypeOK
  BY TypeInit, TypeStep, PTL DEF Spec

----------------------------------------------------------------------------
(* Nothing has been read or stored when the vote is opened.                *)
LEMMA EarlyInvInit == Init => EarlyInv
<1> SUFFICES ASSUME Init PROVE EarlyInv
  OBVIOUS
<1>1. \A a \in AutoClosers : auto[a] = Asleep
  BY DEF Init
<1> QED
  BY <1>1, FS_EmptySet DEF Init, EarlyInv, Asleep, NothingRead

(* Users, time and failed calls disturb nothing that was read or stored.   *)
LEMMA EarlyInvStep == TypeOK /\ EarlyInv /\ [Next]_vars => EarlyInv'
<1> SUFFICES ASSUME TypeOK, EarlyInv, [Next]_vars PROVE EarlyInv'
  OBVIOUS
<1>1. ASSUME UNCHANGED <<status, auto, closer, passed, grounds>> PROVE EarlyInv'
  BY <1>1 DEF EarlyInv
<1>2. ASSUME NEW a \in AutoClosers, NEW r \in Readings, NEW s \in AutoSteps,
             auto' = [auto EXCEPT ![a] = [at |-> s, read |-> r]],
             IsFiniteSet(r.allowed),
             s = "update" => PassesWithAllAllowedVoters(r.votes, r.allowed, cfg),
             UNCHANGED <<status, closer, passed, grounds>>
      PROVE  EarlyInv'
  <2>1. \A b \in AutoClosers :
            auto'[b] = IF b = a THEN [at |-> s, read |-> r] ELSE auto[b]
    BY <1>2 DEF TypeOK
  <2>2. \A b \in AutoClosers :
            /\ auto'[b].at = "update" =>
                  PassesWithAllAllowedVoters(auto'[b].read.votes, auto'[b].read.allowed, cfg)
            /\ IsFiniteSet(auto'[b].read.allowed)
    BY <1>2, <2>1 DEF EarlyInv
  <2> QED
    BY <1>2, <2>2 DEF EarlyInv
<1>3. ASSUME NEW a \in AutoClosers, auto' = [auto EXCEPT ![a] = Asleep],
             UNCHANGED <<status, closer, passed, grounds>>
      PROVE  EarlyInv'
  BY <1>2, <1>3, NothingReadType, FS_EmptySet DEF Asleep, NothingRead, AutoSteps
<1>4. ASSUME status = "open", status' = "open", closer'.at # "store" \/ IsFiniteSet(closer'.read.allowed),
             UNCHANGED <<auto, passed, grounds>>
      PROVE  EarlyInv'
  BY <1>4 DEF EarlyInv
<1>5. ASSUME NEW a \in AutoClosers, AutoReactions(a) PROVE EarlyInv'
  <2>1. [votes |-> VotesOf(reactions), allowed |-> {}] \in Readings
    BY VotesOfType DEF Readings
  <2> QED
    BY <1>2, <1>5, <2>1, FS_EmptySet DEF AutoReactions, AutoSteps
<1>6. ASSUME NEW a \in AutoClosers, AutoDecide(a) PROVE EarlyInv'
  <2>1. PICK A \in SUBSET Users :
            /\ GetAllowedVoters(A)
            /\ auto' = [auto EXCEPT ![a] =
                          IF ClosesOnPassing(auto[a].read.votes, A)
                          THEN [at |-> "update", read |-> [auto[a].read EXCEPT !.allowed = A]]
                          ELSE Asleep]
    BY <1>6 DEF AutoDecide
  <2>2. UNCHANGED <<status, closer, passed, grounds>>
    BY <1>6 DEF AutoDecide
  <2>3. CASE ~ClosesOnPassing(auto[a].read.votes, A)
    BY <1>3, <2>1, <2>2, <2>3
  <2>4. CASE ClosesOnPassing(auto[a].read.votes, A)
    <3> DEFINE r == [auto[a].read EXCEPT !.allowed = A]
    <3>1. r \in Readings /\ r.votes = auto[a].read.votes /\ r.allowed = A
      BY ReadingType DEF TypeOK
    <3>2. IsFiniteSet(A)
      BY <2>1, AllowedVotersType DEF TypeOK
    <3>3. auto' = [auto EXCEPT ![a] = [at |-> "update", read |-> r]]
      BY <2>1, <2>4
    <3> HIDE DEF r
    <3> QED
      BY <1>2, <2>2, <2>4, <3>1, <3>2, <3>3 DEF ClosesOnPassing, AutoSteps
  <2> QED
    BY <2>3, <2>4
<1>7. ASSUME NEW a \in AutoClosers, AutoUpdate(a) PROVE EarlyInv'
  <2>1. /\ auto[a].at = "update" /\ auto' = [auto EXCEPT ![a] = Asleep]
        /\ grounds' \subseteq grounds \cup {auto[a].read}
        /\ UNCHANGED <<status, closer, passed>>
    BY <1>7 DEF AutoUpdate
  <2>2. \A b \in AutoClosers : auto'[b] = IF b = a THEN Asleep ELSE auto[b]
    BY <2>1 DEF TypeOK
  <2>3. \A b \in AutoClosers :
            /\ auto'[b].at = "update" =>
                  PassesWithAllAllowedVoters(auto'[b].read.votes, auto'[b].read.allowed, cfg)
            /\ IsFiniteSet(auto'[b].read.allowed)
    BY <2>2, FS_EmptySet DEF EarlyInv, Asleep, NothingRead
  <2>4. \A g \in grounds' :
            PassesWithAllAllowedVoters(g.votes, g.allowed, cfg) /\ IsFiniteSet(g.allowed)
    BY <2>1 DEF EarlyInv
  <2> QED
    BY <2>1, <2>3, <2>4 DEF EarlyInv
<1>8. CASE CloserVoters
  <2>1. PICK A \in SUBSET Users :
            /\ GetAllowedVoters(A)
            /\ closer' = [at |-> "store", read |-> [closer.read EXCEPT !.allowed = A]]
    BY <1>8 DEF CloserVoters
  <2>2. IsFiniteSet(closer'.read.allowed)
    BY <2>1, AllowedVotersType, ReadingType DEF TypeOK
  <2>3. closer.at # "asleep" /\ UNCHANGED <<status, auto, passed, grounds>>
    BY <1>8 DEF CloserVoters
  <2>4. status = "open"
    BY <2>3 DEF EarlyInv, TypeOK
  <2> QED
    BY <1>4, <2>2, <2>3, <2>4
<1>9. CASE StoreResults
  <2>1. /\ closer'.at = "asleep" /\ closer'.read = closer.read
        /\ passed' = Passed(closer.read.votes, closer.read.allowed, cfg)
        /\ UNCHANGED <<auto, grounds>>
    BY <1>9 DEF StoreResults, TypeOK
  <2> QED
    BY <2>1 DEF EarlyInv
<1>10. CASE Pick \/ CloserReactions \/ CloserFails
  <2>1. status = "open" /\ closer'.at # "store" /\ UNCHANGED <<status, auto, passed, grounds>>
    BY <1>10 DEF Pick, CloserReactions, CloserFails, Asleep, EarlyInv, TypeOK
  <2> QED
    BY <1>4, <2>1
<1>11. ASSUME NEW a \in AutoClosers, AutoFind(a) PROVE EarlyInv'
  BY <1>2, <1>11, NothingReadType, FS_EmptySet DEF AutoFind, NothingRead, AutoSteps
<1>12. ASSUME NEW a \in AutoClosers, AutoFails(a) PROVE EarlyInv'
  BY <1>3, <1>12 DEF AutoFails
<1>13. ASSUME NEW a \in AutoClosers, AutoPanics(a) PROVE EarlyInv'
  BY <1>2, <1>13, NothingReadType, FS_EmptySet DEF AutoPanics, Ended, NothingRead, AutoSteps
<1>14. CASE \/ \E r \in Possible : React(r)
            \/ \E r \in reactions : Unreact(r)
            \/ TimeUp \/ WaitOver \/ Rest \/ UNCHANGED vars
  BY <1>1, <1>14 DEF React, Unreact, TimeUp, WaitOver, Rest, vars
<1> QED
  BY <1>5, <1>6, <1>7, <1>8, <1>9, <1>10, <1>11, <1>12, <1>14, <1>13
     DEF Next, AutoStep, CloserStep

(* A closing is only brought forward by readings that pass over all the    *)
(* allowed voters, and the results stored are those of what was read.      *)
THEOREM EarlyInvCorrect == Spec => []EarlyInv
<1>1. TypeOK /\ EarlyInv /\ [Next]_vars => TypeOK' /\ EarlyInv'
  BY TypeStep, EarlyInvStep
<1> QED
  BY <1>1, TypeInit, EarlyInvInit, PTL DEF Spec

(* Why a vote closed early stands: the arithmetic of FirstVotesKeepPassing *)
(* applied to what the auto closer and, later, the closer had read.        *)
LEMMA GroundsStand == TypeOK /\ EarlyInv => EarlyCloseStands
<1> SUFFICES ASSUME TypeOK, EarlyInv, status = "closed", NEW g \in grounds,
                    OnlyFirstVotes(g.votes, closer.read.votes),
                    closer.read.allowed = g.allowed
             PROVE  passed
  BY DEF EarlyCloseStands
<1>1. /\ g.votes \in Ballots /\ closer.read.votes \in Ballots
      /\ g.allowed \subseteq Users
  BY DEF TypeOK, Readings
<1>2. IsFiniteSet(g.allowed) /\ PassesWithAllAllowedVoters(g.votes, g.allowed, cfg)
      /\ passed = Passed(closer.read.votes, closer.read.allowed, cfg)
  BY DEF EarlyInv
<1>3. Passed(closer.read.votes, g.allowed, cfg)
  BY <1>1, <1>2, EarlyCloseAssumption, FirstVotesKeepPassing
<1> QED
  BY <1>2, <1>3

(* The promise of the configuration file's close_on_passing section, under *)
(* the assumption its code comment makes: a vote closed early passes       *)
(* unless a vote already cast, or the allowed voters, changed.             *)
THEOREM EarlyClosingsStand == Spec => []EarlyCloseStands
  BY EarlyTypeCorrect, EarlyInvCorrect, GroundsStand, PTL

----------------------------------------------------------------------------
(* Only storing results changes them, and nobody is about to store those   *)
(* of a closed vote.                                                       *)
LEMMA ClosedStays ==
    TypeOK /\ EarlyInv /\ [Next]_vars => (status = "closed" => UNCHANGED <<status, passed>>)
<1> SUFFICES ASSUME EarlyInv, [Next]_vars, status = "closed"
             PROVE  UNCHANGED <<status, passed>>
  OBVIOUS
<1>1. closer.at = "asleep"
  BY DEF EarlyInv
<1>2. CASE \/ \E r \in Possible : React(r)
           \/ \E r \in reactions : Unreact(r)
           \/ TimeUp \/ WaitOver \/ Rest \/ UNCHANGED vars
  BY <1>2 DEF React, Unreact, TimeUp, WaitOver, Rest, vars
<1>3. CASE \E a \in AutoClosers : AutoStep(a) \/ AutoPanics(a)
  BY <1>3 DEF AutoStep, AutoFind, AutoReactions, AutoDecide, AutoUpdate, AutoFails, AutoPanics
<1>4. CASE CloserStep
  BY <1>1, <1>4 DEF CloserStep, Pick, CloserReactions, CloserVoters, StoreResults, CloserFails
<1> QED
  BY <1>2, <1>3, <1>4 DEF Next

(* However late an auto closer moves the end of a vote, which it does      *)
(* without asking whether it is closed, the verdict recorded is the last.  *)
THEOREM EarlyVerdictStays == Spec => VerdictStays
  BY EarlyTypeCorrect, EarlyInvCorrect, ClosedStays, PTL DEF Spec, VerdictStays
=============================================================================
