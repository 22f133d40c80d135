---------------------------- MODULE TallyProofs ----------------------------
(***************************************************************************)
(* Facts about the results of a vote, for any users, reactions and         *)
(* profile; and that the loops of calculate compute the results that       *)
(* VoteResults defines, for any list of reactions.                         *)
(***************************************************************************)
EXTENDS Tally, FiniteSetTheorems, TLAPS

(* The users who voted for an option are finitely many allowed voters.     *)
LEMMA CountType ==
    ASSUME NEW voters, IsFiniteSet(voters), NEW ballot, NEW o
    PROVE  /\ IsFiniteSet({u \in voters : ballot[u] = o})
           /\ Count(ballot, voters, o) \in Nat
           /\ Count(ballot, voters, o) <= Cardinality(voters)
<1>1. {u \in voters : ballot[u] = o} \subseteq voters
  OBVIOUS
<1> QED
  BY <1>1, FS_Subset, FS_CardinalityType DEF Count

(* Every binding vote is for one option: the counters shown in the         *)
(* comments and on the audit page add up.                                  *)
THEOREM BindingVotesAddUp ==
    ASSUME NEW ballot \in Ballots, NEW voters, voters \subseteq Users, IsFiniteSet(voters)
    PROVE  /\ Cardinality(Binding(ballot, voters)) \in Nat
           /\ Count(ballot, voters, "in_favor") + Count(ballot, voters, "against")
                + Count(ballot, voters, "abstain") = Cardinality(Binding(ballot, voters))
           /\ Cardinality(Binding(ballot, voters)) + Cardinality(Pending(ballot, voters))
                = Cardinality(voters)
<1> DEFINE For(o) == {u \in voters : ballot[u] = o}
<1>1. ASSUME NEW o PROVE IsFiniteSet(For(o)) /\ Cardinality(For(o)) \in Nat
  <2>1. For(o) \in SUBSET voters
    OBVIOUS
  <2> HIDE DEF For
  <2> QED
    BY <2>1, FS_Subset, FS_CardinalityType
<1>2. ASSUME NEW S, NEW T, IsFiniteSet(S), IsFiniteSet(T), S \cap T = {}
      PROVE  IsFiniteSet(S \cup T) /\ Cardinality(S \cup T) = Cardinality(S) + Cardinality(T)
  <2>1. Cardinality(S \cap T) = 0
    BY <1>2, FS_EmptySet
  <2>2. /\ IsFiniteSet(S \cup T)
        /\ Cardinality(S \cup T) = Cardinality(S) + Cardinality(T) - Cardinality(S \cap T)
    BY <1>2, FS_Union
  <2>3. Cardinality(S) \in Nat /\ Cardinality(T) \in Nat
    BY <1>2, FS_CardinalityType
  <2> QED
    BY <2>1, <2>2, <2>3
<1>3. /\ For("in_favor") \cap For("against") = {}
      /\ (For("in_favor") \cup For("against")) \cap For("abstain") = {}
  OBVIOUS
<1>4. For("in_favor") \cup For("against") \cup For("abstain") = Binding(ballot, voters)
  BY DEF Binding, Ballots, Options
<1>5. /\ Binding(ballot, voters) \cup For("none") = voters
      /\ Binding(ballot, voters) \cap For("none") = {}
      /\ Pending(ballot, voters) = For("none")
  BY DEF Binding, Pending
<1>6. IsFiniteSet(Binding(ballot, voters))
  BY FS_Subset DEF Binding
<1> HIDE DEF For
<1>7. Cardinality(voters) = Cardinality(Binding(ballot, voters)) + Cardinality(For("none"))
  BY <1>1, <1>2, <1>5, <1>6
<1>8. IsFiniteSet(For("in_favor") \cup For("against"))
      /\ Cardinality(For("in_favor") \cup For("against"))
           = Cardinality(For("in_favor")) + Cardinality(For("against"))
  BY <1>1, <1>2, <1>3
<1>9. Cardinality(Binding(ballot, voters))
         = Cardinality(For("in_favor") \cup For("against")) + Cardinality(For("abstain"))
  BY <1>1, <1>2, <1>3, <1>4, <1>8
<1> QED
  BY <1>1, <1>5, <1>6, <1>7, <1>8, <1>9, FS_CardinalityType DEF Count, For

(* The example of the configuration file: over the votes cast excluding    *)
(* abstentions, a threshold of 50.01 asks for more votes in favor than     *)
(* against, exactly, for up to 2,499 votes against.                        *)
THEOREM MoreInFavorThanAgainst ==
    ASSUME NEW in_favor \in Nat, NEW against \in 0 .. 2499
    PROVE  ThresholdReached(in_favor, 5001, in_favor + against) <=> in_favor > against
  BY DEF ThresholdReached
----------------------------------------------------------------------------
(* What is not written by the loops, and its types.                        *)
Inputs ==
    /\ reactions \in Seq(Reactions)
    /\ \A i, j \in DOMAIN reactions : reactions[i] = reactions[j] => i = j
    /\ allowed \subseteq Users /\ IsFiniteSet(allowed)
    /\ cfg \in Profiles

(* What the loops know of each user.                                       *)
UserOK(u) ==
    /\ u \in multiple => votes[u] = "none" /\ \E o, p \in Cast(Seen, u) : o # p
    /\ u \notin multiple /\ votes[u] = "none" => Cast(Seen, u) = {}
    /\ votes[u] # "none" => Cast(Seen, u) = {votes[u]}

(* Different reactions are different votes.                                *)
LEMMA OptionsDiffer ==
    /\ \A c \in Supported : OptionOf[c] \in Options
    /\ \A c, d \in Supported : OptionOf[c] = OptionOf[d] => c = d
  BY DEF OptionOf, Supported, Options

(* The inputs are as assumed, and never change.                            *)
LEMMA InputsInit == Init => Inputs
  BY TallyAssumption DEF Init, Inputs

(* No loop writes them.                                                    *)
LEMMA InputsStep == Inputs /\ [Next]_vars => Inputs'
<1> SUFFICES ASSUME Inputs, [Next]_vars PROVE Inputs'
  OBVIOUS
<1>1. UNCHANGED inputs
  BY DEF Next, Examine, CountOne, Finish, Done, vars
<1> QED
  BY <1>1 DEF Inputs, inputs

(* Nothing is known before the first reaction.                             *)
LEMMA TallyInvInit == Init /\ Inputs => TallyInv
<1> SUFFICES ASSUME Init, Inputs PROVE TallyInv
  OBVIOUS
<1>1. Len(reactions) \in Nat /\ at = 1 /\ results = <<>> /\ counted = {} /\ multiple = {}
  BY DEF Init, Inputs
<1>2. Seen = {}
  BY <1>1 DEF Seen
<1>3. \A u \in Users : Cast(Seen, u) = {}
  BY <1>2 DEF Cast
<1>4. votes \in Ballots /\ \A u \in Users : votes[u] = "none"
  BY DEF Init, NoVotes, Ballots
<1>5. \A o : Count(votes, allowed \cap counted, o) = 0
  BY <1>1, FS_EmptySet DEF Count
<1>6. tally \in [DOMAIN Zero -> Nat] /\ (\A o \in Options : tally[o] = 0)
        /\ tally.binding = 0 /\ tally.non_binding = 0
  BY DEF Init, Zero, Options
<1>7. Cardinality(counted \cap allowed) = 0 /\ Cardinality(counted \ allowed) = 0
        /\ IsFiniteSet(counted)
  BY <1>1, FS_EmptySet
<1> QED
  BY <1>1, <1>3, <1>4, <1>5, <1>6, <1>7 DEF TallyInv

(* One more reaction adds at most one option, its user's.                  *)
LEMMA SeenGrows ==
    ASSUME Inputs, TallyInv, Examine
    PROVE  /\ Reaction \in Reactions /\ Reaction \notin Seen
           /\ Seen' = Seen \cup {Reaction}
<1>1. at \in 1 .. Len(reactions) /\ at' = at + 1 /\ UNCHANGED reactions
  BY DEF Examine, Examining, TallyInv, Inputs, inputs
<1>2. Reaction \in Reactions
  BY <1>1 DEF Reaction, Inputs
<1>3. 1 .. (at' - 1) = (1 .. (at - 1)) \cup {at}
  BY <1>1
<1>4. Seen' = Seen \cup {Reaction}
  BY <1>1, <1>3 DEF Seen, Reaction
<1>5. Reaction \notin Seen
  <2> SUFFICES ASSUME NEW k \in 1 .. (at - 1), reactions[k] = reactions[at] PROVE FALSE
    BY DEF Seen, Reaction
  <2>1. k \in DOMAIN reactions /\ at \in DOMAIN reactions /\ k # at
    BY <1>1 DEF Inputs
  <2> QED
    BY <2>1 DEF Inputs
<1> QED
  BY <1>2, <1>4, <1>5

(* A supported reaction adds its option to its user's, which is a new one. *)
LEMMA CastGrows ==
    ASSUME NEW S \in SUBSET Reactions, NEW r \in Reactions, NEW u \in Users, r \notin S
    PROVE  /\ r.content \notin Supported \/ r.user # u => Cast(S \cup {r}, u) = Cast(S, u)
           /\ r.content \in Supported /\ r.user = u =>
                 /\ Cast(S \cup {r}, u) = Cast(S, u) \cup {OptionOf[r.content]}
                 /\ OptionOf[r.content] \notin Cast(S, u)
<1>1. CASE r.content \notin Supported \/ r.user # u
  <2>1. {q \in S \cup {r} : q.user = u /\ q.content \in Supported}
          = {q \in S : q.user = u /\ q.content \in Supported}
    BY <1>1
  <2> QED
    BY <1>1, <2>1 DEF Cast
<1>2. CASE r.content \in Supported /\ r.user = u
  <2>1. {q \in S \cup {r} : q.user = u /\ q.content \in Supported}
          = {q \in S : q.user = u /\ q.content \in Supported} \cup {r}
    BY <1>2
  <2>2. Cast(S \cup {r}, u) = Cast(S, u) \cup {OptionOf[r.content]}
    BY <2>1 DEF Cast
  <2>3. ASSUME OptionOf[r.content] \in Cast(S, u) PROVE FALSE
    <3>1. PICK q \in S : q.user = u /\ q.content \in Supported
                           /\ OptionOf[q.content] = OptionOf[r.content]
      BY <2>3 DEF Cast
    <3>2. q.content = r.content
      BY <1>2, <3>1, OptionsDiffer
    <3>3. q = r
      BY <1>2, <3>1, <3>2 DEF Reactions
    <3> QED
      BY <3>1, <3>3
  <2> QED
    BY <1>2, <2>2, <2>3
<1> QED
  BY <1>1, <1>2

(* The first loop: only the user of the reaction is affected.              *)
LEMMA ExamineStep == Inputs /\ TallyInv /\ Examine => TallyInv'
<1> SUFFICES ASSUME Inputs, TallyInv, Examine PROVE TallyInv'
  OBVIOUS
<1>0. PICK r \in Reactions : r = Reaction
  BY SeenGrows
<1>1. /\ Len(reactions) \in Nat /\ at \in 1 .. Len(reactions) /\ at' = at + 1
      /\ counted = {} /\ results = <<>>
      /\ UNCHANGED <<reactions, allowed, cfg, counted, tally, results>>
  BY DEF Examine, Examining, TallyInv, Inputs, inputs
<1>2. r \in Reactions /\ r \notin Seen /\ Seen' = Seen \cup {r} /\ Seen \in SUBSET Reactions
  <2>1. Seen \in SUBSET Reactions
    BY <1>1 DEF Seen, Inputs
  <2> QED
    BY <1>0, <2>1, SeenGrows
<1>3. r.user \in Users /\ r.content \in Contents
  BY <1>2 DEF Reactions
<1>4. \A u \in Users : UserOK(u)
  BY DEF TallyInv, UserOK
<1>5. votes \in [Users -> Options \cup {"none"}] /\ multiple \in SUBSET Users
  BY DEF TallyInv, Ballots
<1>6. ASSUME NEW u \in Users, u # r.user \/ r.content \notin Supported,
             votes'[u] = votes[u], u \in multiple' <=> u \in multiple
      PROVE  UserOK(u)'
  <2>1. Cast(Seen', u) = Cast(Seen, u)
    BY <1>2, <1>6, CastGrows
  <2> QED
    BY <1>4, <1>6, <2>1 DEF UserOK
<1>7. /\ votes' \in [Users -> Options \cup {"none"}] /\ multiple' \in SUBSET Users
      /\ \A u \in Users : UserOK(u)'
  <2>1. CASE Unsupported
    <3>1. r.content \notin Supported /\ UNCHANGED <<votes, multiple>>
      BY <1>0, <2>1 DEF Unsupported
    <3> QED
      BY <1>5, <1>6, <3>1
  <2>2. ASSUME r.content \in Supported
        PROVE  /\ Cast(Seen', r.user) = Cast(Seen, r.user) \cup {OptionOf[r.content]}
               /\ OptionOf[r.content] \notin Cast(Seen, r.user)
               /\ OptionOf[r.content] \in Options
    BY <1>2, <1>3, <2>2, CastGrows, OptionsDiffer
  <2>3. CASE ManyOptions
    <3>1. r.content \in Supported /\ r.user \in multiple /\ UNCHANGED <<votes, multiple>>
      BY <1>0, <2>3 DEF ManyOptions
    <3>2. UserOK(r.user)'
      BY <1>3, <1>4, <2>2, <3>1 DEF UserOK
    <3> QED
      BY <1>5, <1>6, <3>1, <3>2
  <2>4. CASE SecondOption
    <3>1. /\ r.content \in Supported /\ votes[r.user] # "none"
          /\ votes' = [votes EXCEPT ![r.user] = "none"]
          /\ multiple' = multiple \cup {r.user}
      BY <1>0, <2>4 DEF SecondOption
    <3>2. Cast(Seen, r.user) = {votes[r.user]}
      BY <1>3, <1>4, <3>1 DEF UserOK
    <3>3. /\ OptionOf[r.content] # votes[r.user]
          /\ OptionOf[r.content] \in Cast(Seen', r.user) /\ votes[r.user] \in Cast(Seen', r.user)
      BY <2>2, <3>1, <3>2
    <3>4. votes'[r.user] = "none" /\ r.user \in multiple'
      BY <1>3, <1>5, <3>1
    <3>5. UserOK(r.user)'
      BY <3>3, <3>4 DEF UserOK
    <3>6. \A u \in Users \ {r.user} : UserOK(u)'
      BY <1>3, <1>5, <1>6, <3>1
    <3> QED
      BY <1>3, <1>5, <3>1, <3>5, <3>6
  <2>5. CASE FirstOption
    <3>1. /\ r.content \in Supported /\ r.user \notin multiple /\ votes[r.user] = "none"
          /\ votes' = [votes EXCEPT ![r.user] = OptionOf[r.content]]
          /\ multiple' = multiple
      BY <1>0, <2>5 DEF FirstOption
    <3>2. Cast(Seen, r.user) = {}
      BY <1>3, <1>4, <3>1 DEF UserOK
    <3>3. Cast(Seen', r.user) = {OptionOf[r.content]} /\ OptionOf[r.content] # "none"
      BY <2>2, <3>1, <3>2 DEF Options
    <3>4. votes'[r.user] = OptionOf[r.content]
      BY <1>3, <1>5, <3>1
    <3>5. UserOK(r.user)'
      BY <3>1, <3>3, <3>4 DEF UserOK
    <3>6. \A u \in Users \ {r.user} : UserOK(u)'
      BY <1>3, <1>5, <1>6, <3>1
    <3> QED
      BY <1>3, <1>5, <2>2, <3>1, <3>5, <3>6
  <2> QED
    BY <2>1, <2>3, <2>4, <2>5 DEF Examine
<1>8. \A o : Count(votes', allowed \cap counted, o) = Count(votes, allowed \cap counted, o)
  BY <1>1 DEF Count
<1> QED
  BY <1>1, <1>7, <1>8 DEF TallyInv, UserOK, Ballots

(* The second loop: one more vote is counted, in one counter if binding.   *)
LEMMA CountStep ==
    ASSUME Inputs, TallyInv, NEW u \in Users, CountOne(u)
    PROVE  TallyInv'
<1>1. /\ ~Examining /\ u \notin counted /\ votes[u] # "none" /\ CountVote(u)
      /\ counted' = counted \cup {u}
      /\ UNCHANGED <<reactions, allowed, cfg, at, votes, multiple, results>>
  BY DEF CountOne, Uncounted, inputs
<1>2. results = <<>>
  BY <1>1 DEF TallyInv, CountOne
<1>3. votes[u] \in Options /\ IsFiniteSet(counted) /\ tally \in [DOMAIN Zero -> Nat]
  BY <1>1 DEF TallyInv, Ballots
<1>4. IsFiniteSet(allowed \cap counted) /\ IsFiniteSet(counted \cap allowed)
        /\ IsFiniteSet(counted \ allowed) /\ IsFiniteSet(counted')
  BY <1>1, <1>3, FS_Subset, FS_AddElement
<1>5. DOMAIN Zero = Options \cup {"binding", "non_binding"}
  BY DEF Zero, Options
<1>9. Seen' = Seen /\ ~Examining' /\ results' = <<>>
  BY <1>1, <1>2 DEF Seen, Examining
<1>10. \A w \in Users : UserOK(w)'
  <2>1. \A w \in Users : UserOK(w)
    BY DEF TallyInv, UserOK
  <2> QED
    BY <1>1, <1>9, <2>1 DEF UserOK
<1>11. counted' \subseteq {w \in Users : votes'[w] # "none"}
  BY <1>1 DEF TallyInv
<1> DEFINE For(S, o) == {w \in S : votes[w] = o}
<1>6. ASSUME NEW o PROVE IsFiniteSet(For(allowed \cap counted, o))
  <2>1. For(allowed \cap counted, o) \in SUBSET (allowed \cap counted)
    OBVIOUS
  <2> HIDE DEF For
  <2> QED
    BY <1>4, <2>1, FS_Subset
<1>7. CASE u \in allowed
  <2>1. tally' = [tally EXCEPT ![votes[u]] = @ + 1, !.binding = @ + 1]
    BY <1>1, <1>7 DEF CountVote
  <2>2. /\ tally' \in [DOMAIN Zero -> Nat]
        /\ \A o \in Options : tally'[o] = IF o = votes[u] THEN tally[o] + 1 ELSE tally[o]
        /\ tally'.binding = tally.binding + 1
        /\ tally'.non_binding = tally.non_binding
    <3> DEFINE once == [tally EXCEPT ![votes[u]] = @ + 1]
    <3>1. /\ once \in [DOMAIN Zero -> Nat]
          /\ \A o \in DOMAIN Zero : once[o] = IF o = votes[u] THEN tally[o] + 1 ELSE tally[o]
      BY <1>3, <1>5
    <3>2. tally' = [once EXCEPT !.binding = once.binding + 1]
      BY <2>1, <1>3 DEF Options
    <3> HIDE DEF once
    <3>3. /\ tally' \in [DOMAIN Zero -> Nat]
          /\ \A o \in DOMAIN Zero : tally'[o] = IF o = "binding" THEN once[o] + 1 ELSE once[o]
      BY <1>5, <3>1, <3>2
    <3> QED
      BY <1>3, <1>5, <3>1, <3>3 DEF Options
  <2>3. /\ counted' \cap allowed = (counted \cap allowed) \cup {u}
        /\ u \notin counted \cap allowed
        /\ counted' \ allowed = counted \ allowed
    BY <1>1, <1>7
  <2>4. Cardinality(counted' \cap allowed) = Cardinality(counted \cap allowed) + 1
    BY <1>4, <2>3, FS_AddElement
  <2>5. ASSUME NEW o \in Options
        PROVE  Count(votes, allowed \cap counted', o) =
                  IF o = votes[u] THEN Count(votes, allowed \cap counted, o) + 1
                  ELSE Count(votes, allowed \cap counted, o)
    <3>1. For(allowed \cap counted', o) =
             IF o = votes[u] THEN For(allowed \cap counted, o) \cup {u}
             ELSE For(allowed \cap counted, o)
      BY <1>1, <1>7
    <3>2. u \notin For(allowed \cap counted, o)
      BY <1>1
    <3> HIDE DEF For
    <3>3. Cardinality(For(allowed \cap counted', o)) =
             IF o = votes[u] THEN Cardinality(For(allowed \cap counted, o)) + 1
             ELSE Cardinality(For(allowed \cap counted, o))
      BY <1>6, <3>1, <3>2, FS_AddElement
    <3> QED
      BY <3>3 DEF For, Count
  <2>6. \A o \in Options : tally'[o] = Count(votes, allowed \cap counted', o)
    BY <2>2, <2>5 DEF TallyInv
  <2>7. /\ tally'.binding = Cardinality(counted' \cap allowed)
        /\ tally'.non_binding = Cardinality(counted' \ allowed)
    BY <2>2, <2>3, <2>4 DEF TallyInv
  <2> QED
    BY <1>1, <1>4, <1>9, <1>10, <1>11, <2>2, <2>6, <2>7 DEF TallyInv, UserOK
<1>8. CASE u \notin allowed
  <2>1. tally' = [tally EXCEPT !.non_binding = @ + 1]
    BY <1>1, <1>8 DEF CountVote
  <2>2. /\ tally' \in [DOMAIN Zero -> Nat]
        /\ \A o \in Options : tally'[o] = tally[o]
        /\ tally'.binding = tally.binding
        /\ tally'.non_binding = tally.non_binding + 1
    BY <1>3, <1>5, <2>1 DEF Options
  <2>3. /\ counted' \ allowed = (counted \ allowed) \cup {u}
        /\ u \notin counted \ allowed
        /\ counted' \cap allowed = counted \cap allowed
        /\ allowed \cap counted' = allowed \cap counted
    BY <1>1, <1>8
  <2>4. Cardinality(counted' \ allowed) = Cardinality(counted \ allowed) + 1
    BY <1>4, <2>3, FS_AddElement
  <2>5. /\ tally'.binding = Cardinality(counted' \cap allowed)
        /\ tally'.non_binding = Cardinality(counted' \ allowed)
        /\ \A o \in Options : tally'[o] = Count(votes, allowed \cap counted', o)
    BY <2>2, <2>3, <2>4 DEF TallyInv
  <2> QED
    BY <1>1, <1>4, <1>9, <1>10, <1>11, <2>2, <2>5 DEF TallyInv, UserOK
<1> QED
  BY <1>7, <1>8

(* Every step of calculate keeps what it knows of the reactions.           *)
LEMMA TallyInvStep == Inputs /\ TallyInv /\ [Next]_vars => TallyInv'
<1> SUFFICES ASSUME Inputs, TallyInv, [Next]_vars PROVE TallyInv'
  OBVIOUS
<1>1. CASE Finish
  <2>1. /\ ~Examining /\ Uncounted = {} /\ results' = <<Results>>
        /\ UNCHANGED <<reactions, allowed, cfg, at, votes, multiple, counted, tally>>
    BY <1>1 DEF Finish, inputs
  <2>2. Results' = Results /\ Uncounted' = Uncounted /\ Seen' = Seen /\ (Examining <=> Examining')
    BY <2>1 DEF Results, ThresholdBase, Uncounted, Seen, Examining
  <2> QED
    BY <2>1, <2>2 DEF TallyInv
<1>2. CASE Done \/ UNCHANGED vars
  <2>1. UNCHANGED vars
    BY <1>2 DEF Done
  <2>2. UNCHANGED <<reactions, allowed, cfg, at, votes, multiple, counted, tally, results>>
    BY <2>1 DEF vars, inputs
  <2>3. Results' = Results /\ Uncounted' = Uncounted /\ Seen' = Seen /\ (Examining <=> Examining')
    BY <2>2 DEF Results, ThresholdBase, Uncounted, Seen, Examining
  <2> QED
    BY <2>2, <2>3 DEF TallyInv
<1> QED
  BY <1>1, <1>2, ExamineStep, CountStep DEF Next

(* While it runs, calculate tracks exactly the votes of the users with one *)
(* supported reaction so far, and counts each tracked vote once.           *)
THEOREM TallyInvCorrect == Spec => []TallyInv
<1>1. Init => Inputs /\ TallyInv
  BY InputsInit, TallyInvInit
<1>2. Inputs /\ TallyInv /\ [Next]_vars => Inputs' /\ TallyInv'
  BY InputsStep, TallyInvStep
<1> QED
  BY <1>1, <1>2, PTL DEF Spec

----------------------------------------------------------------------------
(* When everything was counted, the counters are those of VoteResults.     *)
LEMMA FinalCounts ==
    ASSUME Inputs, TallyInv, results # <<>>
    PROVE  /\ results = <<Results>>
           /\ votes \in Ballots
           /\ votes = VotesOf({reactions[k] : k \in DOMAIN reactions})
           /\ \A o \in Options : tally[o] = Count(votes, allowed, o)
           /\ tally.binding = Cardinality(Binding(votes, allowed))
<1>1. /\ results = <<Results>> /\ Uncounted = {} /\ ~Examining /\ votes \in Ballots
      /\ counted = {u \in Users : votes[u] # "none"}
      /\ \A u \in Users : UserOK(u)
  BY DEF TallyInv, Uncounted, UserOK
<1>2. Seen = {reactions[k] : k \in DOMAIN reactions}
  <2>1. Len(reactions) \in Nat /\ DOMAIN reactions = 1 .. Len(reactions) /\ at - 1 = Len(reactions)
    BY <1>1 DEF TallyInv, Inputs, Examining
  <2> QED
    BY <2>1 DEF Seen
<1>3. ASSUME NEW u \in Users
      PROVE  votes[u] = IF \E o \in Options : Cast(Seen, u) = {o}
                        THEN CHOOSE o \in Options : Cast(Seen, u) = {o} ELSE "none"
  <2>1. CASE votes[u] # "none"
    <3>1. votes[u] \in Options /\ Cast(Seen, u) = {votes[u]}
      BY <1>1, <2>1 DEF UserOK, Ballots
    <3>2. \A o \in Options : Cast(Seen, u) = {o} <=> o = votes[u]
      BY <3>1
    <3> QED
      BY <3>1, <3>2
  <2>2. CASE votes[u] = "none"
    <3>1. ~ \E o \in Options : Cast(Seen, u) = {o}
      BY <1>1, <2>2 DEF UserOK
    <3> QED
      BY <2>2, <3>1
  <2> QED
    BY <2>1, <2>2
<1>4. votes = VotesOf(Seen)
  BY <1>1, <1>3 DEF VotesOf, Ballots
<1>5. \A o \in Options : Count(votes, allowed, o) = Count(votes, allowed \cap counted, o)
  <2> SUFFICES ASSUME NEW o \in Options
               PROVE  {u \in allowed : votes[u] = o} = {u \in allowed \cap counted : votes[u] = o}
    BY DEF Count
  <2> QED
    BY <1>1 DEF Inputs, Options
<1>6. Binding(votes, allowed) = counted \cap allowed
  BY <1>1 DEF Binding, Inputs
<1> QED
  BY <1>1, <1>2, <1>4, <1>5, <1>6 DEF TallyInv

(* The results do not depend on the order in which GitHub lists the        *)
(* reactions: they are those of the votes for one option only.             *)
THEOREM ResultsAreCorrect == Spec => []ResultsCorrect
<1>1. Inputs /\ TallyInv => ResultsCorrect
  <2> SUFFICES ASSUME Inputs, TallyInv, results # <<>>
               PROVE  /\ votes = VotesOf({reactions[k] : k \in DOMAIN reactions})
                      /\ results[1].passed = Passed(votes, allowed, cfg)
    BY FinalCounts DEF ResultsCorrect
  <2>1. results[1].passed = ThresholdReached(tally.in_favor, cfg.pass_threshold, ThresholdBase)
    BY FinalCounts DEF Results
  <2>2. tally.in_favor = Count(votes, allowed, "in_favor")
          /\ ThresholdBase = Base(votes, allowed, cfg)
    BY FinalCounts DEF ThresholdBase, Base, Options
  <2> QED
    BY <2>1, <2>2, FinalCounts DEF Passed
<1>2. Init => Inputs /\ TallyInv
  BY InputsInit, TallyInvInit
<1>3. Inputs /\ TallyInv /\ [Next]_vars => Inputs' /\ TallyInv'
  BY InputsStep, TallyInvStep
<1> QED
  BY <1>1, <1>2, <1>3, PTL DEF Spec

(* The counters shown add up to the binding votes and to the allowed       *)
(* voters, and a vote passes only with a vote in favor.                    *)
THEOREM CountersAddUp == Spec => []ResultsAddUp
<1>1. Inputs /\ TallyInv => ResultsAddUp
  <2> SUFFICES ASSUME Inputs, TallyInv, results # <<>>
               PROVE  LET r == results[1] IN
                        /\ r.tally.in_favor + r.tally.against + r.tally.abstain = r.tally.binding
                        /\ r.tally.binding + r.not_voted = r.allowed_voters
                        /\ r.passed => r.tally.in_favor > 0
    BY DEF ResultsAddUp
  <2>1. /\ results[1].tally = tally
        /\ results[1].not_voted = Cardinality(Pending(votes, allowed))
        /\ results[1].allowed_voters = Cardinality(allowed)
        /\ results[1].passed <=> ThresholdReached(tally.in_favor, cfg.pass_threshold, ThresholdBase)
    BY FinalCounts DEF Results
  <2>2. /\ tally.in_favor = Count(votes, allowed, "in_favor")
        /\ tally.against = Count(votes, allowed, "against")
        /\ tally.abstain = Count(votes, allowed, "abstain")
        /\ tally.binding = Cardinality(Binding(votes, allowed))
        /\ ThresholdBase = Base(votes, allowed, cfg)
    BY FinalCounts DEF Options, ThresholdBase, Base
  <2>3. /\ tally.in_favor + tally.against + tally.abstain = tally.binding
        /\ tally.binding + Cardinality(Pending(votes, allowed)) = Cardinality(allowed)
    BY <2>2, FinalCounts, BindingVotesAddUp DEF Inputs
  <2>4. ThresholdReached(tally.in_favor, cfg.pass_threshold, ThresholdBase) => tally.in_favor > 0
    <3> DEFINE b == ThresholdBase
               t == cfg.pass_threshold
    <3>1. t \in 1 .. 10000
      BY DEF Inputs, Profiles, Thresholds
    <3>2. b \in Nat /\ tally.in_favor \in Nat
      <4>1. IsFiniteSet(allowed) /\ Binding(votes, allowed) \subseteq allowed
        BY FinalCounts DEF Inputs, Binding
      <4>2. Base(votes, allowed, cfg) \in Nat /\ Count(votes, allowed, "in_favor") \in Nat
        <5>1. \A o : Count(votes, allowed, o) \in Nat
          BY <4>1, CountType
        <5>2. Cardinality(allowed) \in Nat /\ Cardinality(Binding(votes, allowed)) \in Nat
          BY <4>1, FS_Subset, FS_CardinalityType
        <5> QED BY <5>1, <5>2 DEF Base
      <4> QED
        BY <2>2, <4>2
    <3> SUFFICES ASSUME b > 0, tally.in_favor * 10000 >= t * b PROVE tally.in_favor > 0
      BY DEF ThresholdReached
    <3> HIDE DEF b, t
    <3>3. t * b > 0 /\ t * b \in Nat
      BY <3>1, <3>2
    <3> QED
      BY SMTT(30), <3>2, <3>3
  <2> QED
    BY <2>1, <2>3, <2>4
<1>2. Init => Inputs /\ TallyInv
  BY InputsInit, TallyInvInit
<1>3. Inputs /\ TallyInv /\ [Next]_vars => Inputs' /\ TallyInv'
  BY InputsStep, TallyInvStep
<1> QED
  BY <1>1, <1>2, <1>3, PTL DEF Spec
=============================================================================
