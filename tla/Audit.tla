-------------------------------- MODULE Audit --------------------------------
(***************************************************************************)
(* The audit page of a repository and the details of its votes: whether    *)
(* the page is enabled, which is looked up on GitHub one call at a time    *)
(* and remembered for a while, and what is read from the database for it.  *)
(* Meanwhile the configuration changes and votes are created and closed.   *)
(* A vote of another repository is as good as no vote here.                *)
(***************************************************************************)
EXTENDS RepoConfig, FiniteSetsExt

CONSTANTS
    Pages,       \* requests for the page or for the details of a vote
    Votes,       \* votes that may be created in the repository
    Files,       \* what the configuration file may be at a location
    FirstFiles,  \* what it is at each location in the beginning
    Year,        \* Year[v]: year in which vote v is created
    Voted,       \* Voted[v]: names of its binding votes when it closes
    Pending,     \* Pending[v]: its pending voters, as they are spelled
    NonBinding,  \* NonBinding[v]: names of its other votes
    Names,       \* ways to spell the accounts
    AccountOf,   \* AccountOf[n]: the account spelled n
    Ttl,         \* how long an answer is remembered
    MaxTime,     \* bound: time
    MaxChanges,  \* bound: changes of the configuration and installation
    MaxFaults,   \* bound: calls that fail, requests given up
    None

ASSUME AuditAssumption ==
    /\ None \notin Pages /\ Absent \in Files /\ Malformed \in Files
    /\ FirstFiles \in [Locations -> Files]
    /\ Ttl \in Nat \ {0} /\ MaxTime \in Nat /\ MaxChanges \in Nat /\ MaxFaults \in Nat
    /\ \A file \in Files : file.is = "parsed" => file.audit \in BOOLEAN

(* What results::calculate makes of the names of one vote: nobody who voted *)
(* is pending, and no account is there in two spellings, because they are  *)
(* compared ignoring case (see Electorate for the allowed voters).         *)
ASSUME ResultsAssumption ==
    /\ IsFiniteSet(Votes) /\ IsFiniteSet(Names)
    /\ \A v \in Votes :
        /\ Voted[v] \cup Pending[v] \subseteq Names
        /\ Voted[v] \cap Pending[v] = {}
        /\ \A m, n \in Voted[v] \cup Pending[v] : AccountOf[m] = AccountOf[n] => m = n

VARIABLES
    installed,  \* the app is installed on the repository
    files,      \* the configuration file at each location
    stored,     \* what the database has of each vote
    page,       \* what each request is doing, or how it ended
    place,      \* location looked at by the request that holds the lock
    holder,     \* request that holds the lock of the cache
    cache,      \* the answer remembered
    clock,      \* time
    (* history *)
    began,      \* answers in force since the lock was taken, or {} if unclear
    changed,    \* changes since then, 2 for more or for a location that failed
    (* bounds *)
    changes, faults

config == <<installed, files>>
lookup == <<place, holder, cache>>
history == <<began, changed>>
vars == <<config, stored, page, lookup, clock, history, changes, faults>>

Working == {"waiting", "installation", "config", "database"}
Answers == {"shown", "details", "not_enabled", "not_found", "error", "panicked", "gone"}

TypeOK ==
    /\ installed \in BOOLEAN
    /\ files \in [Locations -> Files]
    /\ stored \in [Votes -> {"absent", "open", "closed", "missing"}]
    /\ page \in [Pages -> {"none"} \cup Working \cup Answers]
    /\ place \in Locations
    /\ holder \in Pages \cup {None}
    /\ cache \in [enabled : BOOLEAN, at : Nat, valid : SUBSET BOOLEAN, set : BOOLEAN]
    /\ clock \in Nat /\ began \in SUBSET BOOLEAN /\ changed \in 0 .. 2
    /\ changes \in Nat /\ faults \in Nat

Init ==
    /\ installed = TRUE
    /\ files = FirstFiles
    /\ stored = [v \in Votes |-> "absent"]
    /\ page = [r \in Pages |-> "none"]
    /\ place = 1
    /\ holder = None
    /\ cache = [enabled |-> FALSE, at |-> 0, valid |-> {}, set |-> FALSE]
    /\ clock = 0
    /\ began = {} /\ changed = 0
    /\ changes = 0 /\ faults = 0

Fault == faults < MaxFaults /\ faults' = faults + 1

(* The audit section of a file.                                            *)
Enables(file) == file.is = "parsed" /\ file.audit

(* What a lookup made in one moment would answer.                          *)
Enabled(inst, fs) == inst /\ Enables(GetConfigFile(fs, {}))

----------------------------------------------------------------------------
(* The environment.                                                        *)

Tick ==
    /\ clock < MaxTime
    /\ clock' = clock + 1
    /\ UNCHANGED <<config, stored, page, lookup, history, changes, faults>>

Change(inst, fs) ==
    /\ changes < MaxChanges
    /\ <<inst, fs>> # <<installed, files>>
    /\ changes' = changes + 1
    /\ installed' = inst /\ files' = fs
    /\ IF holder = None \/ changed = 2
       THEN UNCHANGED history
       ELSE /\ changed' = changed + 1
            /\ began' = IF changed = 1 THEN {} ELSE began \cup {Enabled(inst, fs)}
    /\ UNCHANGED <<stored, page, lookup, clock, faults>>

EditFile == \E k \in Locations, f \in Files : Change(installed, [files EXCEPT ![k] = f])
Install == Change(~installed, files)

(* The votes processor: a vote closed without results stores a JSON null.  *)
VoteChanges(v) ==
    /\ \/ stored[v] = "absent" /\ stored' = [stored EXCEPT ![v] = "open"]
       \/ \E s \in {"closed", "missing"} : stored[v] = "open" /\ stored' = [stored EXCEPT ![v] = s]
    /\ UNCHANGED <<config, page, lookup, clock, history, changes, faults>>

----------------------------------------------------------------------------
(* audit_is_enabled behind its cache.                                      *)

Ends(r, answer) == page' = [page EXCEPT ![r] = answer]
Told(enabled) == IF enabled THEN "database" ELSE "not_enabled"

Ask(r) ==
    /\ page[r] = "none"
    /\ Ends(r, "waiting")
    /\ UNCHANGED <<config, stored, lookup, clock, history, changes, faults>>

(* Mutant: what is remembered is not forgotten.                            *)
RememberedForEver == cache.set

Remembered == cache.set /\ clock < cache.at + Ttl

(* The lock of the repository's entry is held while it is looked up.       *)
Lock(r) ==
    /\ page[r] = "waiting"
    /\ holder = None
    /\ IF Remembered
       THEN Ends(r, Told(cache.enabled)) /\ UNCHANGED <<holder, history>>
       ELSE /\ Ends(r, "installation")
            /\ holder' = r
            /\ began' = {Enabled(installed, files)} /\ changed' = 0
    /\ UNCHANGED <<config, stored, place, cache, clock, changes, faults>>

Release == holder' = None /\ place' = 1 /\ began' = {} /\ changed' = 0

(* Only answers are remembered, errors are not.                            *)
Returns(r, enabled, valid) ==
    /\ cache' = [enabled |-> enabled, at |-> clock, valid |-> valid, set |-> TRUE]
    /\ Ends(r, Told(enabled))
    /\ Release

(* Mutant: an error leaves the entry locked.                               *)
FailsLocked(r) == Ends(r, "error") /\ UNCHANGED <<cache, holder, place, history>>

Fails(r) == Ends(r, "error") /\ Release /\ UNCHANGED cache

AskInstallation(r) ==
    /\ page[r] = "installation"
    /\ \/ installed /\ Ends(r, "config") /\ UNCHANGED <<lookup, history, faults>>
       \/ ~installed /\ Returns(r, FALSE, began) /\ UNCHANGED faults
       \/ Fault /\ Fails(r)
    /\ UNCHANGED <<config, stored, clock, changes>>

(* get_config_file, one location at a time; a call that fails is taken for *)
(* a file that is not there.  A malformed file is an error.  What has no   *)
(* content that can be decoded ends the search as if there were no file.   *)
Look(r) ==
    /\ page[r] = "config"
    /\ LET file == files[place] IN
        \/ file.is = "parsed" /\ Returns(r, file.audit, began) /\ UNCHANGED faults
        \/ file.is = "malformed" /\ Fails(r) /\ UNCHANGED faults
        \/ /\ file = Undecodable \/ (place = 3 /\ file.is = "absent")
           /\ Returns(r, FALSE, began)
           /\ UNCHANGED faults
        \/ /\ place < 3 /\ file.is = "absent"
           /\ place' = place + 1
           /\ UNCHANGED <<page, holder, cache, history, faults>>
        \/ place = 3 /\ Fault /\ Returns(r, FALSE, {})
        \/ /\ place < 3 /\ Fault
           /\ place' = place + 1
           /\ began' = {} /\ changed' = 2
           /\ UNCHANGED <<page, holder, cache>>
    /\ UNCHANGED <<config, stored, clock, changes>>

(* The client goes away: its request is dropped, and what it held with it. *)
GiveUp(r) ==
    /\ page[r] \in Working
    /\ Fault
    /\ Ends(r, "gone")
    /\ IF holder = r THEN Release ELSE UNCHANGED <<holder, place, history>>
    /\ UNCHANGED <<config, stored, cache, clock, changes>>

----------------------------------------------------------------------------
(* audit and audit_vote_details, once the page is known to be enabled.     *)

(* Vote::from: results must be a record or SQL null.                       *)
Unreadable(S) == \E v \in S : stored[v] = "missing"
Rows == {v \in Votes : stored[v] # "absent"}

(* list_votes.                                                             *)
ShowPage(r) ==
    /\ page[r] = "database"
    /\ Ends(r, IF Unreadable(Rows) THEN "panicked" ELSE "shown")
    /\ UNCHANGED <<config, stored, lookup, clock, history, changes, faults>>

(* get_vote; the results of an open vote are calculated from GitHub.       *)
ShowDetails(r) ==
    /\ page[r] = "database"
    /\ \E v \in Votes :
          Ends(r, IF v \notin Rows THEN "not_found"
                  ELSE IF Unreadable({v}) THEN "panicked" ELSE "details")
    /\ UNCHANGED <<config, stored, lookup, clock, history, changes, faults>>

DatabaseFails(r) ==
    /\ page[r] = "database"
    /\ Fault /\ Ends(r, "error")
    /\ UNCHANGED <<config, stored, lookup, clock, history, changes>>

Step(r) == Lock(r) \/ AskInstallation(r) \/ Look(r) \/ ShowPage(r) \/ ShowDetails(r)
           \/ DatabaseFails(r)

Rest == (\A r \in Pages : page[r] \in Answers) /\ UNCHANGED vars

Next ==
    \/ Tick \/ EditFile \/ Install
    \/ \E v \in Votes : VoteChanges(v)
    \/ \E r \in Pages : Ask(r) \/ Step(r) \/ GiveUp(r)
    \/ Rest

Spec == Init /\ [][Next]_vars

(* Every request is a task of its own.                                     *)
FairSpec == Spec /\ \A r \in Pages : WF_vars(Step(r))

----------------------------------------------------------------------------
(* Audit::calculate_participation_stats, for the votes on a page.          *)

Tracked(S) == {v \in S : Year[v] >= 2024 /\ stored[v] = "closed"}

(* Mutant: votes that are not binding are counted as well.                 *)
CountAll(S, y, n) ==
    LET of == {v \in Tracked(S) : Year[v] = y} IN
    [voted |-> Cardinality({v \in of : n \in Voted[v] \cup NonBinding[v]}),
     not_voted |-> Cardinality({v \in of : n \in Pending[v]})]

Stats(S, y, n) ==
    LET of == {v \in Tracked(S) : Year[v] = y} IN
    [voted |-> Cardinality({v \in of : n \in Voted[v]}),
     not_voted |-> Cardinality({v \in of : n \in Pending[v]})]

----------------------------------------------------------------------------
(* Whoever is told whether the page is enabled is told what was so at some *)
(* moment since the lookup of that answer began, and the lookup ended less *)
(* than Ttl ago: after enabling it the page is there in 15 minutes.  Not   *)
(* so when the configuration changed twice during the lookup, for the      *)
(* locations are not read in one moment, or when one did not answer.       *)
FreshAnswers ==
    [][\A r \in Pages : page[r] \in {"waiting", "installation", "config"}
                        /\ page'[r] \in {"database", "not_enabled"} =>
          /\ cache'.enabled = (page'[r] = "database")
          /\ clock < cache'.at + Ttl
          /\ cache'.valid = {} \/ cache'.enabled \in cache'.valid]_vars

(* One lookup at a time, by a request that is still there to end it, and   *)
(* no other request is between the cache and the answer.                   *)
OneLookup ==
    \A r \in Pages : holder = r <=> page[r] \in {"installation", "config"}

(* What the lookup under way answers if nothing changes any more: it does  *)
(* not come back to the locations it has passed.                           *)
Ahead == Enables(GetConfigFile(files, 1 .. place - 1))

(* What a lookup is going to answer, and what is remembered, was so at some *)
(* moment of the lookup, as far as that is clear.  While nothing changed   *)
(* the locations passed are empty and the app is installed.                *)
LookupJustified ==
    /\ cache.set => cache.valid = {} \/ cache.enabled \in cache.valid
    /\ (\A r \in Pages : page[r] # "config") => place = 1
    /\ \A r \in Pages : page[r] \in {"installation", "config"} =>
          /\ began = {} <=> changed = 2
          /\ page[r] = "installation" /\ changed < 2 => Enabled(installed, files) \in began
          /\ page[r] = "config" /\ changed < 2 => Ahead \in began
          /\ page[r] = "config" /\ changed = 0 =>
                installed /\ \A k \in 1 .. place - 1 : files[k].is = "absent"

AuditInv == TypeOK /\ OneLookup /\ LookupJustified

(* Whoever asks is answered, unless it gives up: no error, no client that  *)
(* goes away and no panic keeps the others from the entry of the cache.    *)
PagesAnswered == \A r \in Pages : page[r] = "waiting" ~> page[r] \in Answers

(* The statistics of a page lose no vote and count none twice: over all    *)
(* the names of an account, a vote was cast or not voted in each of the    *)
(* year's votes with results in which the account had a binding vote.      *)
Accounts == {AccountOf[n] : n \in Names}
AccountsIn(S) == {AccountOf[n] : n \in S}

Total(S, y, names) ==
    LET counted(n) == Stats(S, y, n).voted + Stats(S, y, n).not_voted IN
    MapThenSumSet(counted, names)

ParticipationAddsUp ==
    \A y \in {Year[v] : v \in Votes}, a \in Accounts :
        Total(Rows, y, {n \in Names : AccountOf[n] = a}) =
        Cardinality({v \in Tracked(Rows) : Year[v] = y /\ a \in AccountsIn(Voted[v] \cup Pending[v])})

(* docs/config/.gitvote.yml: "the audit page lists all the votes recorded  *)
(* for the repository".                                                    *)
PageListsAllVotes == \A r \in Pages : page[r] # "panicked"
=============================================================================
