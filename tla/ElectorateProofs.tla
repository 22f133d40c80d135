-------------------------- MODULE ElectorateProofs --------------------------
(* The list of allowed voters is an electorate, whatever the teams, the    *)
(* users listed, the maintainers and the teams that cannot be read are.    *)
EXTENDS Electorate, SequenceTheorems, TLAPS

(* The teams that answered.                                                *)
Answering == section.teams \ (todo \cup refused)
OfTeams == UNION {Asked(t) : t \in Answering}

(* Where each name comes from, at each point of the function.              *)
Sources ==
    /\ todo \cap refused = {}
    /\ at = "teams" => /\ \A n \in Found \cup batch : n.spelling = "login"
                       /\ AccountsOf(Found \cup batch) = OfTeams
    /\ at # "teams" => todo = {}
    /\ at = "users" => AccountsOf(Found \cup batch) = OfTeams \cup AccountsOf(section.users)
    /\ at = "done" => AccountsOf(Found) = OfTeams \cup AccountsOf(section.users)
    /\ at = "collaborators" =>
          /\ OfTeams \cup AccountsOf(section.users) = {}
          /\ AccountsOf(Found \cup batch) = Collaborators
          /\ Found \cap batch = {}
          /\ \A n \in batch : \A m \in (Found \cup batch) \ {n} : m.account # n.account
    /\ at \in {"users", "done", "failed"} => \A n \in Found : n.account \in OfTeams => n.spelling = "login"
    /\ at = "users" => OfTeams \subseteq AccountsOf(Found)

IInv == ElectorateInv /\ Sources

----------------------------------------------------------------------------
(* A name added at the end is the only one added.                          *)
LEMMA Added ==
    ASSUME TypeOK, NEW n \in Names, voters' = Append(voters, n)
    PROVE  /\ voters' \in Seq(Names)
           /\ Found' = Found \cup {n}
           /\ OneEach /\ (\A m \in Found : m.account # n.account) => OneEach'
<1>1. /\ Len(voters) \in Nat /\ voters' \in Seq(Names)
      /\ Len(voters') = Len(voters) + 1
      /\ \A i \in 1 .. Len(voters) : voters'[i] = voters[i]
      /\ voters'[Len(voters) + 1] = n
  BY LenProperties, AppendProperties DEF TypeOK
<1>2. Found' = Found \cup {n}
  <2>1. ASSUME NEW m \in Found' PROVE m \in Found \cup {n}
    <3>1. PICK i \in 1 .. Len(voters) + 1 : m = voters'[i]
      BY <1>1, <2>1 DEF Found
    <3> QED BY <1>1, <3>1 DEF Found
  <2>2. ASSUME NEW m \in Found PROVE m \in Found'
    <3>1. PICK i \in 1 .. Len(voters) : m = voters[i]
      BY <2>2 DEF Found
    <3>2. i \in 1 .. Len(voters') /\ m = voters'[i]
      BY <1>1, <3>1
    <3> QED BY <3>2 DEF Found
  <2>3. n \in Found'
    BY <1>1 DEF Found
  <2> QED BY <2>1, <2>2, <2>3
<1>3. ASSUME OneEach, \A m \in Found : m.account # n.account PROVE OneEach'
  <2> SUFFICES ASSUME NEW i \in 1 .. Len(voters) + 1, NEW j \in 1 .. Len(voters) + 1,
                      voters'[i].account = voters'[j].account
               PROVE  i = j
    BY <1>1 DEF OneEach
  <2>1. \A k \in 1 .. Len(voters) : voters[k].account # n.account
    BY <1>3 DEF Found
  <2> QED BY <1>1, <1>3, <2>1 DEF OneEach
<1> QED BY <1>1, <1>2, <1>3

(* The logins of some accounts are names of these accounts.                *)
LEMMA LoginsOf ==
    ASSUME NEW S, S \subseteq Accounts
    PROVE  Logins(S) \subseteq Names /\ AccountsOf(Logins(S)) = S
<1>1. \A a \in S : [account |-> a, spelling |-> "login"] \in Names
  BY DEF Names
<1>2. \A a \in S : [account |-> a, spelling |-> "login"].account = a
  OBVIOUS
<1>3. AccountsOf(Logins(S)) \subseteq S
  BY DEF Logins, AccountsOf
<1>4. ASSUME NEW a \in S PROVE a \in AccountsOf(Logins(S))
  <2>1. [account |-> a, spelling |-> "login"] \in Logins(S)
    BY DEF Logins
  <2> QED BY <1>2, <2>1 DEF AccountsOf
<1> QED BY <1>1, <1>3, <1>4 DEF Logins

(* The function starts with nothing found.                                 *)
LEMMA InitIInv == Init => IInv
<1> SUFFICES ASSUME Init PROVE IInv
  OBVIOUS
<1> USE DEF Init
<1>1. voters \in Seq(Names) /\ 1 .. Len(voters) = {}
  BY EmptySeq, LenProperties
<1>2. Found = {} /\ OneEach
  BY <1>1 DEF Found, OneEach
<1>3. TypeOK
  BY <1>1 DEF TypeOK
<1>4. Answering = {}
  BY DEF Answering
<1>5. Sources
  BY <1>2, <1>4 DEF Sources, OfTeams, AccountsOf
<1> QED BY <1>2, <1>3, <1>5 DEF IInv, ElectorateInv

(* Asking a team adds its members to the names to consider, or nothing.    *)
LEMMA AskTeamStep == ASSUME IInv, NEW t \in Teams, AskTeam(t) PROVE IInv'
<1> USE ElectorateAssumption
<1>1. TypeOK /\ OneEach /\ Sources
  BY DEF IInv, ElectorateInv
<1>2. /\ UNCHANGED <<section, at, voters>> /\ at = "teams" /\ batch = {}
      /\ t \in todo /\ todo' = todo \ {t} /\ t \notin refused
  BY <1>1 DEF AskTeam, Sources
<1>3. Found' = Found /\ OneEach' /\ \A s : Asked(s)' = Asked(s)
  BY <1>1, <1>2 DEF Found, OneEach, Asked
<1>4. Asked(t) \subseteq Accounts
  BY DEF Asked
<1>5. CASE batch' = Logins(Asked(t)) /\ UNCHANGED refused
  <2>1. batch' \subseteq Names /\ AccountsOf(batch') = Asked(t)
    BY <1>4, <1>5, LoginsOf
  <2>2. Answering' = Answering \cup {t}
    BY <1>1, <1>2, <1>5 DEF Answering, TypeOK
  <2>3. OfTeams' = OfTeams \cup Asked(t)
    BY <1>3, <2>2 DEF OfTeams
  <2>4. AccountsOf(Found \cup batch') = AccountsOf(Found) \cup AccountsOf(batch')
    BY DEF AccountsOf
  <2>5. AccountsOf(Found) = OfTeams /\ \A n \in Found : n.spelling = "login"
    BY <1>1, <1>2 DEF Sources
  <2>6. \A n \in batch' : n.spelling = "login"
    BY <1>5 DEF Logins
  <2>7. Sources'
    BY <1>1, <1>2, <1>3, <1>5, <2>1, <2>3, <2>4, <2>5, <2>6 DEF Sources, AccountsOf
  <2> QED BY <1>1, <1>2, <1>3, <1>5, <2>1, <2>7 DEF IInv, ElectorateInv, TypeOK
<1>6. CASE refused' = refused \cup {t} /\ UNCHANGED batch
  <2>1. Answering' = Answering
    BY <1>1, <1>2, <1>6 DEF Answering, TypeOK
  <2>2. OfTeams' = OfTeams
    BY <1>3, <2>1 DEF OfTeams
  <2>3. Sources'
    BY <1>1, <1>2, <1>3, <1>6, <2>2 DEF Sources, AccountsOf
  <2> QED BY <1>1, <1>2, <1>3, <1>6, <2>3 DEF IInv, ElectorateInv, TypeOK
<1> QED BY <1>5, <1>6 DEF AskTeam

(* Considering a name keeps the accounts found or to consider.             *)
LEMMA ConsiderStep == ASSUME IInv, NEW n \in Names, Consider(n) PROVE IInv'
<1>1. TypeOK /\ OneEach /\ Sources
  BY DEF IInv, ElectorateInv
<1>2. /\ UNCHANGED <<section, at, todo, refused>> /\ at \in {"teams", "users"}
      /\ n \in batch /\ batch' = batch \ {n}
  BY DEF Consider
<1>3. OfTeams' = OfTeams /\ AccountsOf(section.users)' = AccountsOf(section.users)
  BY <1>2 DEF OfTeams, Answering, Asked, AccountsOf
<1>4. CASE \E i \in 1 .. Len(voters) : voters[i].account = n.account
  <2>1. voters' = voters
    BY <1>4 DEF Consider
  <2>2. Found' = Found /\ OneEach'
    BY <1>1, <2>1 DEF Found, OneEach
  <2>3. n.account \in AccountsOf(Found)
    BY <1>4 DEF AccountsOf, Found
  <2>4. AccountsOf(Found \cup batch)' = AccountsOf(Found \cup batch)
    BY <1>2, <2>2, <2>3 DEF AccountsOf
  <2>5. Sources'
    BY <1>1, <1>2, <1>3, <2>2, <2>4 DEF Sources, AccountsOf
  <2> QED BY <1>1, <1>2, <2>1, <2>2, <2>5 DEF IInv, ElectorateInv, TypeOK
<1>5. CASE ~ \E i \in 1 .. Len(voters) : voters[i].account = n.account
  <2>1. voters' = Append(voters, n)
    BY <1>5 DEF Consider
  <2>2. \A m \in Found : m.account # n.account
    BY <1>5 DEF Found
  <2>3. voters' \in Seq(Names) /\ Found' = Found \cup {n} /\ OneEach'
    BY <1>1, <2>1, <2>2, Added
  <2>4. AccountsOf(Found \cup batch)' = AccountsOf(Found \cup batch)
    BY <1>2, <2>3 DEF AccountsOf
  <2>5. at = "users" => n.account \notin OfTeams
    BY <1>1, <2>2 DEF Sources, AccountsOf
  <2>6. Sources'
    BY <1>1, <1>2, <1>3, <2>3, <2>4, <2>5 DEF Sources, AccountsOf
  <2> QED BY <1>1, <1>2, <2>3, <2>6 DEF IInv, ElectorateInv, TypeOK
<1> QED BY <1>4, <1>5

(* A collaborator is new in the list.                                      *)
LEMMA AddCollaboratorStep == ASSUME IInv, NEW n \in Names, AddCollaborator(n) PROVE IInv'
<1>1. TypeOK /\ OneEach /\ Sources
  BY DEF IInv, ElectorateInv
<1>2. /\ UNCHANGED <<section, at, todo, refused>> /\ at = "collaborators"
      /\ n \in batch /\ batch' = batch \ {n} /\ voters' = Append(voters, n)
  BY DEF AddCollaborator
<1>3. \A m \in (Found \cup batch) \ {n} : m.account # n.account
  BY <1>1, <1>2 DEF Sources
<1>4. n \notin Found
  BY <1>1, <1>2 DEF Sources
<1>5. IInv'
  <2>1. voters' \in Seq(Names) /\ Found' = Found \cup {n} /\ OneEach'
    BY <1>1, <1>2, <1>3, <1>4, Added
  <2>2. OfTeams' = OfTeams /\ Found' \cup batch' = Found \cup batch
    BY <1>2, <2>1 DEF OfTeams, Answering, Asked
  <2>3. Sources'
    BY <1>1, <1>2, <2>1, <2>2 DEF Sources, AccountsOf
  <2> QED BY <1>1, <1>2, <2>1, <2>3 DEF IInv, ElectorateInv, TypeOK
<1> QED BY <1>5

(* The other steps only change where the function is.                      *)
LEMMA OtherSteps == IInv /\ (AfterTeams \/ AfterUsers \/ UNCHANGED vars) => IInv'
<1> SUFFICES ASSUME IInv, AfterTeams \/ AfterUsers \/ UNCHANGED vars PROVE IInv'
  OBVIOUS
<1> USE ElectorateAssumption
<1>1. TypeOK /\ OneEach /\ Sources
  BY DEF IInv, ElectorateInv
<1>2. UNCHANGED <<section, todo, refused, voters>>
  BY DEF AfterTeams, AfterUsers, vars
<1>3. Found' = Found /\ OneEach' /\ OfTeams' = OfTeams
  BY <1>1, <1>2 DEF Found, OneEach, OfTeams, Answering, Asked
<1>4. CASE AfterTeams
  <2>1. section.users \subseteq Names
    BY <1>1 DEF TypeOK
  <2>2. AccountsOf(Found \cup section.users) = AccountsOf(Found) \cup AccountsOf(section.users)
    BY DEF AccountsOf
  <2>3. Sources'
    BY <1>1, <1>2, <1>3, <1>4, <2>2 DEF AfterTeams, Sources, AccountsOf
  <2> QED BY <1>1, <1>2, <1>3, <1>4, <2>1, <2>3 DEF AfterTeams, IInv, ElectorateInv, TypeOK
<1>5. CASE AfterUsers
  <2>1. at' = "collaborators" => Found = {}
    <3>1. ASSUME voters = <<>> PROVE Found = {}
      BY <3>1, EmptySeq, LenProperties DEF Found
    <3> QED BY <1>5, <3>1 DEF AfterUsers
  <2>2. AccountsOf(Found \cup batch) = AccountsOf(Found)
    BY <1>5 DEF AfterUsers, AccountsOf
  <2>3. CASE at' = "collaborators"
    <3>1. batch' = Logins(Collaborators)
      BY <1>5, <2>3 DEF AfterUsers
    <3>2. batch' \subseteq Names /\ AccountsOf(batch') = Collaborators
      BY <3>1, LoginsOf
    <3>3. \A n \in batch' : \A m \in batch' \ {n} : m.account # n.account
      BY <3>1 DEF Logins
    <3>4. OfTeams \cup AccountsOf(section.users) = {}
      BY <1>1, <1>5, <2>1, <2>2, <2>3 DEF AfterUsers, Sources, AccountsOf
    <3>5. Sources'
      BY <1>1, <1>2, <1>3, <1>5, <2>1, <2>3, <3>2, <3>3, <3>4 DEF AfterUsers, Sources, AccountsOf
    <3> QED BY <1>1, <1>2, <1>3, <2>3, <3>2, <3>5 DEF IInv, ElectorateInv, TypeOK
  <2>4. CASE at' \in {"done", "failed"}
    <3>1. Sources'
      BY <1>1, <1>2, <1>3, <1>5, <2>2, <2>4 DEF AfterUsers, Sources, AccountsOf
    <3> QED BY <1>1, <1>2, <1>3, <1>5, <2>4, <3>1 DEF AfterUsers, IInv, ElectorateInv, TypeOK
  <2> QED BY <1>5, <2>3, <2>4 DEF AfterUsers
<1>6. CASE UNCHANGED vars
  BY <1>1, <1>2, <1>3, <1>6 DEF vars, IInv, ElectorateInv, TypeOK, Sources, AccountsOf
<1> QED BY <1>4, <1>5, <1>6

(* So it holds in every state.                                             *)
LEMMA IInvHolds == Spec => []IInv
<1>1. IInv /\ [Next]_vars => IInv'
  BY AskTeamStep, ConsiderStep, AddCollaboratorStep, OtherSteps DEF Next
<1> QED BY InitIInv, <1>1, PTL DEF Spec

----------------------------------------------------------------------------
(* The list names each account once, so that its length is the number of   *)
(* the accounts that may vote.                                             *)
THEOREM NobodyTwice == Spec => []ElectorateInv
BY IInvHolds, PTL DEF IInv

(* It has the accounts of the teams that answered and of the users listed, *)
(* or the collaborators when there are none.                               *)
THEOREM ListIsAsConfigured == Spec => []AsConfigured
<1>1. IInv => AsConfigured
  <2> SUFFICES ASSUME IInv PROVE AsConfigured
    OBVIOUS
  <2>1. at \in {"done", "collaborators"} =>
           OfTeams \cup AccountsOf(section.users) = Configured(section.teams \ refused)
    <3>1. at # "teams" => Answering = section.teams \ refused
      BY DEF IInv, Sources, Answering
    <3>2. at # "teams" => OfTeams = UNION {Asked(t) : t \in section.teams \ refused}
      BY <3>1 DEF OfTeams
    <3> QED BY <3>2 DEF Configured
  <2>2. at = "collaborators" /\ batch = {} => AccountsOf(Found) = Collaborators
    BY DEF IInv, Sources
  <2> QED BY <2>1, <2>2 DEF IInv, Sources, AsConfigured
<1> QED BY <1>1, IInvHolds, PTL

(* A member of a team that answered is listed by the login.                *)
THEOREM MembersKeepLogin == Spec => []LoginKept
<1>1. IInv => LoginKept
  <2> SUFFICES ASSUME IInv, NEW n \in Found, NEW t \in Answering, n.account \in Asked(t)
               PROVE  n.spelling = "login"
    BY DEF LoginKept, Answering
  <2>1. n.account \in OfTeams
    BY DEF OfTeams
  <2> QED BY <2>1 DEF IInv, Sources, ElectorateInv, TypeOK
<1> QED BY <1>1, IInvHolds, PTL
=============================================================================
