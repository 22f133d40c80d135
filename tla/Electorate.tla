----------------------------- MODULE Electorate -----------------------------
(***************************************************************************)
(* get_allowed_voters: who may vote, from the teams and the users that the *)
(* profile lists.  A name is a way to spell a GitHub account: GitHub lists *)
(* the accounts by their logins, the profile may spell a user otherwise,   *)
(* and the code compares names ignoring the case.  VoteResults and Tally   *)
(* take the electorate as a set of accounts.                               *)
(***************************************************************************)
EXTENDS Naturals, Sequences

CONSTANTS
    Accounts,       \* GitHub accounts
    Spellings,      \* ways to spell a name
    Teams,          \* teams of the organization
    Members,        \* Members[t]: the members of team t
    Maintainers,    \* Maintainers[t]: those who maintain it
    Collaborators,  \* of the repository
    Sections        \* the allowed_voters sections considered

Names == [account : Accounts, spelling : Spellings \cup {"login"}]

ASSUME ElectorateAssumption ==
    /\ Members \in [Teams -> SUBSET Accounts]
    /\ Maintainers \in [Teams -> SUBSET Accounts]
    /\ Collaborators \subseteq Accounts
    /\ Sections \subseteq [teams : SUBSET Teams, users : SUBSET Names,
                           exclude_team_maintainers : BOOLEAN]

VARIABLES
    section,  \* the allowed_voters section; validated: no teams without an organization
    at,       \* where the function is
    todo,     \* teams it has still to ask for
    refused,  \* teams whose members could not be read
    batch,    \* names it has still to consider
    voters    \* allowed_voters, in the order they were found

vars == <<section, at, todo, refused, batch, voters>>

TypeOK ==
    /\ section \in Sections
    /\ at \in {"teams", "users", "collaborators", "done", "failed"}
    /\ todo \subseteq section.teams /\ refused \subseteq section.teams
    /\ batch \subseteq Names
    /\ voters \in Seq(Names)

Init ==
    /\ section \in Sections
    /\ at = "teams"
    /\ todo = section.teams
    /\ refused = {} /\ batch = {} /\ voters = <<>>

Logins(S) == {[account |-> a, spelling |-> "login"] : a \in S}
AccountsOf(S) == {n.account : n \in S}

(* get_team_members.                                                       *)
Asked(t) == IF section.exclude_team_maintainers THEN Members[t] \ Maintainers[t] ELSE Members[t]

(* Mutant: the first team that cannot be read ends the loop.               *)
AskTeamOrStop(t) ==
    /\ at = "teams" /\ batch = {} /\ t \in todo
    /\ \/ batch' = Logins(Asked(t)) /\ todo' = todo \ {t} /\ UNCHANGED refused
       \/ refused' = refused \cup {t} /\ todo' = {} /\ UNCHANGED batch
    /\ UNCHANGED <<section, at, voters>>

(* A team whose members cannot be read is passed over.                     *)
AskTeam(t) ==
    /\ at = "teams" /\ batch = {} /\ t \in todo
    /\ todo' = todo \ {t}
    /\ \/ batch' = Logins(Asked(t)) /\ UNCHANGED refused
       \/ refused' = refused \cup {t} /\ UNCHANGED batch
    /\ UNCHANGED <<section, at, voters>>

(* Mutant: names are compared as they are spelled.                         *)
ConsiderExact(n) ==
    /\ at \in {"teams", "users"} /\ n \in batch
    /\ batch' = batch \ {n}
    /\ voters' = IF \E i \in 1 .. Len(voters) : voters[i] = n
                 THEN voters ELSE Append(voters, n)
    /\ UNCHANGED <<section, at, todo, refused>>

Consider(n) ==
    /\ at \in {"teams", "users"} /\ n \in batch
    /\ batch' = batch \ {n}
    /\ voters' = IF \E i \in 1 .. Len(voters) : voters[i].account = n.account
                 THEN voters ELSE Append(voters, n)
    /\ UNCHANGED <<section, at, todo, refused>>

(* Mutant: the users are considered together with the teams.               *)
UsersTogether ==
    /\ at = "teams" /\ batch = {}
    /\ at' = IF todo = {} THEN "users" ELSE "teams"
    /\ batch' = section.users
    /\ UNCHANGED <<section, todo, refused, voters>>

AfterTeams ==
    /\ at = "teams" /\ batch = {} /\ todo = {}
    /\ at' = "users"
    /\ batch' = section.users
    /\ UNCHANGED <<section, todo, refused, voters>>

(* With nobody found, whoever collaborates in the repository may vote.     *)
AfterUsers ==
    /\ at = "users" /\ batch = {}
    /\ IF voters # <<>>
       THEN at' = "done" /\ UNCHANGED batch
       ELSE \/ at' = "collaborators" /\ batch' = Logins(Collaborators)
            \/ at' = "failed" /\ UNCHANGED batch
    /\ UNCHANGED <<section, todo, refused, voters>>

AddCollaborator(n) ==
    /\ at = "collaborators" /\ n \in batch
    /\ batch' = batch \ {n}
    /\ voters' = Append(voters, n)
    /\ UNCHANGED <<section, at, todo, refused>>

Returned == at = "done" \/ at = "failed" \/ (at = "collaborators" /\ batch = {})

Next ==
    \/ \E t \in Teams : AskTeam(t)
    \/ \E n \in Names : Consider(n) \/ AddCollaborator(n)
    \/ AfterTeams \/ AfterUsers
    \/ Returned /\ UNCHANGED vars

Spec == Init /\ [][Next]_vars

----------------------------------------------------------------------------
Found == {voters[i] : i \in 1 .. Len(voters)}

(* Nobody is in the list twice: the length of the list, which the results  *)
(* count as the allowed voters, is the number of accounts.                 *)
OneEach ==
    \A i, j \in 1 .. Len(voters) : voters[i].account = voters[j].account => i = j

ElectorateInv == TypeOK /\ OneEach

(* The accounts of the teams and of the users listed.                      *)
Configured(teams) == (UNION {Asked(t) : t \in teams}) \cup AccountsOf(section.users)

(* The list has exactly the accounts of the teams that answered and of the *)
(* users listed, and the repository's collaborators only if there are none *)
(* of those: a team that cannot be read takes away its own members only.   *)
AsConfigured ==
    /\ at = "done" => AccountsOf(Found) = Configured(section.teams \ refused)
    /\ at = "collaborators" =>
          /\ Configured(section.teams \ refused) = {}
          /\ batch = {} => AccountsOf(Found) = Collaborators

(* A member of a team that answered is in the list by the login, however   *)
(* the profile spells it: the results show the name found here.            *)
LoginKept ==
    \A n \in Found : (\E t \in section.teams \ (todo \cup refused) : n.account \in Asked(t))
                     => n.spelling = "login"
=============================================================================
