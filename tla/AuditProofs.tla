---------------------------- MODULE AuditProofs ----------------------------
(* The audit page: one lookup at a time, whose answer was in force while it *)
(* was looked up, and statistics that lose no vote and count none twice.   *)
EXTENDS Audit, FiniteSetTheorems, TLAPS

(* A location that is empty may as well be skipped.                        *)
LEMMA EmptySkipped ==
    ASSUME NEW fs, NEW skipped, NEW k, fs[k].is = "absent"
    PROVE  GetConfigFile(fs, skipped \cup {k}) = GetConfigFile(fs, skipped)
<1>1. {j \in Locations \ (skipped \cup {k}) : fs[j].is # "absent"}
        = {j \in Locations \ skipped : fs[j].is # "absent"}
  OBVIOUS
<1> QED BY <1>1 DEF GetConfigFile

(* There is a first among any locations.                                   *)
LEMMA FirstIsLeast ==
    ASSUME NEW L \in SUBSET Locations, L # {}
    PROVE  First(L) \in L /\ \A j \in L : First(L) <= j
<1>1. \E k \in L : \A j \in L : k <= j
  <2>1. \A j \in L : j = 1 \/ j = 2 \/ j = 3
    BY DEF Locations
  <2>2. CASE 1 \in L
    BY <2>1, <2>2
  <2>3. CASE 1 \notin L /\ 2 \in L
    BY <2>1, <2>3
  <2>4. CASE 1 \notin L /\ 2 \notin L
    BY <2>1, <2>4
  <2> QED BY <2>2, <2>3, <2>4
<1> QED BY <1>1 DEF First

(* The file found is one of those looked at, or none.                      *)
LEMMA FileFound ==
    ASSUME NEW fs, NEW skipped
    PROVE  \/ /\ GetConfigFile(fs, skipped) = Absent
              /\ \A k \in Locations \ skipped : fs[k].is = "absent"
           \/ \E k \in Locations \ skipped :
                /\ GetConfigFile(fs, skipped) = Decoded(fs[k]) /\ fs[k].is # "absent"
                /\ \A j \in Locations \ skipped : fs[j].is # "absent" => k <= j
<1> DEFINE found == {k \in Locations \ skipped : fs[k].is # "absent"}
<1>1. CASE found = {}
  BY <1>1 DEF GetConfigFile
<1>2. CASE found # {}
  <2>1. First(found) \in found /\ \A j \in found : First(found) <= j
    BY <1>2, FirstIsLeast
  <2> QED BY <1>2, <2>1 DEF GetConfigFile
<1> QED BY <1>1, <1>2

(* What was skipped does not matter.                                       *)
LEMMA SkippedIgnored ==
    ASSUME NEW fs, NEW gs, NEW skipped, \A k \in Locations \ skipped : fs[k] = gs[k]
    PROVE  GetConfigFile(fs, skipped) = GetConfigFile(gs, skipped)
<1> DEFINE found(hs) == {k \in Locations \ skipped : hs[k].is # "absent"}
<1>1. found(fs) = found(gs)
  OBVIOUS
<1>2. found(fs) # {} => First(found(fs)) \in Locations \ skipped
  BY FirstIsLeast
<1> QED BY <1>1, <1>2 DEF GetConfigFile

(* Nothing is lost by passing over locations that are empty.               *)
LEMMA PassedEmpty ==
    ASSUME NEW fs, NEW n \in Locations, \A k \in 1 .. n - 1 : fs[k].is = "absent"
    PROVE  GetConfigFile(fs, 1 .. n - 1) = GetConfigFile(fs, {})
<1>1. {j \in Locations \ (1 .. n - 1) : fs[j].is # "absent"}
        = {j \in Locations \ {} : fs[j].is # "absent"}
  OBVIOUS
<1> QED BY <1>1 DEF GetConfigFile

(* The location looked at decides unless it is empty.                      *)
LEMMA LookedAt ==
    ASSUME NEW fs, NEW n \in Locations
    PROVE  /\ fs[n].is # "absent" => GetConfigFile(fs, 1 .. n - 1) = Decoded(fs[n])
           /\ fs[n].is = "absent" => GetConfigFile(fs, 1 .. n) = GetConfigFile(fs, 1 .. n - 1)
           /\ n = 3 /\ fs[n].is = "absent" => GetConfigFile(fs, 1 .. n - 1) = Absent
<1>1. ASSUME fs[n].is # "absent" PROVE GetConfigFile(fs, 1 .. n - 1) = Decoded(fs[n])
  <2>1. n \in Locations \ (1 .. n - 1) /\ \A j \in Locations \ (1 .. n - 1) : n <= j
    BY DEF Locations
  <2> QED BY <1>1, <2>1, FileFound DEF Locations
<1>2. ASSUME fs[n].is = "absent" PROVE GetConfigFile(fs, 1 .. n) = GetConfigFile(fs, 1 .. n - 1)
  <2>1. 1 .. n = (1 .. n - 1) \cup {n}
    BY DEF Locations
  <2> QED BY <1>2, <2>1, EmptySkipped
<1>3. ASSUME n = 3, fs[n].is = "absent" PROVE GetConfigFile(fs, 1 .. n - 1) = Absent
  <2>1. Locations \ (1 .. n - 1) = {3}
    BY <1>3 DEF Locations
  <2> QED BY <1>3, <2>1, FileFound
<1> QED BY <1>1, <1>2, <1>3

-----------------------------------------------------------------------------
(* What is read in a file is a setting of the page.                        *)
LEMMA Settings ==
    TypeOK => \A k \in Locations : files[k].is = "parsed" => files[k].audit \in BOOLEAN
BY AuditAssumption DEF TypeOK

(* A request that ends a step somewhere keeps its type.                    *)
LEMMA PageTyped ==
    ASSUME TypeOK, NEW r \in Pages, NEW answer \in Working \cup Answers, Ends(r, answer)
    PROVE  page' \in [Pages -> {"none"} \cup Working \cup Answers]
BY DEF TypeOK, Ends

(* Every variable keeps its type at every step.                            *)
LEMMA TypesPreserved == TypeOK /\ [Next]_vars => TypeOK'
<1> SUFFICES ASSUME TypeOK, [Next]_vars PROVE TypeOK'
  OBVIOUS
<1> USE DEF TypeOK, config, lookup, history, Fault
<1>0. /\ Working \cup Answers = {"waiting", "installation", "config", "database", "shown",
            "details", "not_enabled", "not_found", "error", "panicked", "gone"}
      /\ \A b : Told(b) \in Working \cup Answers
      /\ \A inst, fs : Enabled(inst, fs) \in BOOLEAN
  BY DEF Working, Answers, Told, Enabled
<1>1. CASE Tick
  BY <1>1 DEF Tick
<1>2. ASSUME NEW inst \in BOOLEAN, NEW fs \in [Locations -> Files], Change(inst, fs)
      PROVE  TypeOK'
  BY <1>0, <1>2 DEF Change
<1>3. CASE EditFile
  <2>1. PICK k \in Locations, f \in Files : Change(installed, [files EXCEPT ![k] = f])
    BY <1>3 DEF EditFile
  <2> QED BY <1>2, <2>1
<1>4. CASE Install
  BY <1>2, <1>4 DEF Install
<1>5. ASSUME NEW v \in Votes, VoteChanges(v) PROVE TypeOK'
  BY <1>5 DEF VoteChanges
<1>6. ASSUME NEW r \in Pages, Ask(r) \/ Step(r) \/ GiveUp(r) PROVE TypeOK'
  <2>1. CASE Ask(r)
    BY <1>0, <2>1, PageTyped DEF Ask
  <2>2. CASE Lock(r)
    BY <1>0, <2>2, PageTyped DEF Lock
  <2>3. ASSUME NEW b \in BOOLEAN, NEW valid \in SUBSET BOOLEAN, Returns(r, b, valid)
        PROVE  /\ place' \in Locations /\ holder' \in Pages \cup {None}
               /\ page' \in [Pages -> {"none"} \cup Working \cup Answers]
               /\ cache' \in [enabled : BOOLEAN, at : Nat, valid : SUBSET BOOLEAN, set : BOOLEAN]
               /\ began' \in SUBSET BOOLEAN /\ changed' \in 0 .. 2
    BY <1>0, <2>3, PageTyped DEF Returns, Release, Locations
  <2>4. ASSUME Fails(r)
        PROVE  /\ place' \in Locations /\ holder' \in Pages \cup {None}
               /\ page' \in [Pages -> {"none"} \cup Working \cup Answers]
               /\ cache' \in [enabled : BOOLEAN, at : Nat, valid : SUBSET BOOLEAN, set : BOOLEAN]
               /\ began' \in SUBSET BOOLEAN /\ changed' \in 0 .. 2
    BY <1>0, <2>4, PageTyped DEF Fails, Release, Locations
  <2>5. CASE AskInstallation(r)
    <3>1. CASE installed /\ Ends(r, "config") /\ UNCHANGED <<lookup, history, faults>>
      BY <1>0, <2>5, <3>1, PageTyped DEF AskInstallation
    <3>2. CASE Returns(r, FALSE, began) /\ UNCHANGED faults
      BY <2>3, <2>5, <3>2 DEF AskInstallation
    <3>3. CASE Fault /\ Fails(r)
      BY <2>4, <2>5, <3>3 DEF AskInstallation
    <3> QED BY <2>5, <3>1, <3>2, <3>3 DEF AskInstallation
  <2>6. CASE Look(r)
    <3>1. place < 3 => place + 1 \in Locations
      BY DEF Locations
    <3>2. UNCHANGED <<config, stored, clock, changes>>
      BY <2>6 DEF Look
    <3>3. CASE files[place].is = "parsed" /\ Returns(r, files[place].audit, began) /\ UNCHANGED faults
      BY <2>3, <3>2, <3>3, Settings
    <3>4. CASE Fails(r) /\ UNCHANGED faults
      BY <2>4, <3>2, <3>4
    <3>5. CASE Returns(r, FALSE, began) /\ UNCHANGED faults
      BY <2>3, <3>2, <3>5
    <3>6. CASE place < 3 /\ place' = place + 1 /\ UNCHANGED <<page, holder, cache, history, faults>>
      BY <3>1, <3>2, <3>6
    <3>7. CASE Fault /\ Returns(r, FALSE, {})
      <4>1. FALSE \in BOOLEAN /\ {} \in SUBSET BOOLEAN
        OBVIOUS
      <4>2. faults' \in Nat
        BY <3>7
      <4>3. Returns(r, FALSE, {})
        BY <3>7
      <4> QED BY <2>3, <3>2, <4>1, <4>2, <4>3
    <3>8. CASE /\ place < 3 /\ Fault /\ place' = place + 1
               /\ began' = {} /\ changed' = 2 /\ UNCHANGED <<page, holder, cache>>
      BY <3>1, <3>2, <3>8
    <3> QED BY <2>6, <3>3, <3>4, <3>5, <3>6, <3>7, <3>8 DEF Look
  <2>7. CASE GiveUp(r)
    BY <1>0, <2>7, PageTyped DEF GiveUp, Release, Locations
  <2>8. CASE ShowPage(r) \/ ShowDetails(r) \/ DatabaseFails(r)
    <3>1. UNCHANGED <<config, stored, lookup, clock, history, changes>> /\ faults' \in Nat
      BY <2>8 DEF ShowPage, ShowDetails, DatabaseFails
    <3>2. \E answer \in Working \cup Answers : Ends(r, answer)
      BY <1>0, <2>8 DEF ShowPage, ShowDetails, DatabaseFails
    <3> QED BY <3>1, <3>2, PageTyped
  <2> QED BY <1>6, <2>1, <2>2, <2>5, <2>6, <2>7, <2>8 DEF Step
<1>7. CASE Rest \/ UNCHANGED vars
  BY <1>7 DEF Rest, vars
<1> QED BY <1>1, <1>3, <1>4, <1>5, <1>6, <1>7 DEF Next

-----------------------------------------------------------------------------
(* The variables of the audit page hold values of their types.             *)
THEOREM AuditTypeCorrect == Spec => []TypeOK
<1>1. Init => TypeOK
  BY AuditAssumption DEF Init, TypeOK, Locations, Working, Answers
<1>2. TypeOK /\ [Next]_vars => TypeOK'
  BY TypesPreserved
<1> QED BY <1>1, <1>2, PTL DEF Spec

(* The lock of the entry is held by the request that looks up the answer,  *)
(* and by no other.                                                        *)
LEMMA OneLookupPreserved == TypeOK /\ OneLookup /\ [Next]_vars => OneLookup'
<1> SUFFICES ASSUME TypeOK, OneLookup, [Next]_vars PROVE OneLookup'
  OBVIOUS
<1> USE AuditAssumption DEF TypeOK, OneLookup, config, lookup, history, Ends, Told, Working
<1>1. CASE Tick \/ EditFile \/ Install
  BY <1>1 DEF Tick, EditFile, Install, Change
<1>2. ASSUME NEW v \in Votes, VoteChanges(v) PROVE OneLookup'
  BY <1>2 DEF VoteChanges
<1>3. ASSUME NEW r \in Pages, Ask(r) \/ Step(r) \/ GiveUp(r) PROVE OneLookup'
  <2>1. CASE Ask(r)
    BY <2>1 DEF Ask
  <2>2. CASE Lock(r)
    BY <2>2 DEF Lock
  <2>3. CASE AskInstallation(r)
    BY <2>3 DEF AskInstallation, Returns, Fails, Release
  <2>4. CASE Look(r)
    BY <2>4 DEF Look, Returns, Fails, Release
  <2>5. CASE GiveUp(r)
    BY <2>5 DEF GiveUp, Release
  <2>6. CASE ShowPage(r) \/ ShowDetails(r) \/ DatabaseFails(r)
    BY <2>6 DEF ShowPage, ShowDetails, DatabaseFails
  <2> QED BY <1>3, <2>1, <2>2, <2>3, <2>4, <2>5, <2>6 DEF Step
<1>4. CASE Rest \/ UNCHANGED vars
  BY <1>4 DEF Rest, vars
<1> QED BY <1>1, <1>2, <1>3, <1>4 DEF Next

(* A change of the repository: the first one adds the new answer to those  *)
(* in force since the lookup began, a second one makes it unclear.         *)
LEMMA ChangeJustified ==
    ASSUME TypeOK, OneLookup, LookupJustified,
           NEW inst \in BOOLEAN, NEW fs \in [Locations -> Files], Change(inst, fs),
           \/ fs = files
           \/ inst = installed /\ \E k \in Locations, f \in Files : fs = [files EXCEPT ![k] = f]
    PROVE  LookupJustified'
<1> USE DEF TypeOK, OneLookup, LookupJustified, lookup, history
<1>1. /\ installed' = inst /\ files' = fs
      /\ UNCHANGED <<page, lookup>>
  BY DEF Change
<1>2. ASSUME NEW r \in Pages, page[r] \in {"installation", "config"}
      PROVE  holder # None
  BY <1>2, AuditAssumption
<1>3. CASE holder = None \/ changed = 2
  BY <1>1, <1>2, <1>3 DEF Change
<1>4. CASE holder # None /\ changed = 1
  BY <1>1, <1>4 DEF Change
<1>5. CASE holder # None /\ changed = 0
  <2>1. changed' = 1 /\ began' = began \cup {Enabled(inst, fs)}
    BY <1>5 DEF Change
  <2>2. ASSUME NEW r \in Pages, page[r] = "config"
        PROVE  Ahead' \in began'
    <3> DEFINE passed == 1 .. place - 1
    <3>0. /\ Ahead = Enables(GetConfigFile(files, passed)) /\ Ahead \in began
          /\ Ahead' = Enables(GetConfigFile(fs, passed))
      BY <1>1, <1>5, <2>2 DEF Ahead
    <3>1. CASE fs = files
      BY <2>1, <3>0, <3>1
    <3>2. ASSUME inst = installed, NEW k \in Locations, NEW f \in Files,
                 fs = [files EXCEPT ![k] = f]
          PROVE  Ahead' \in began'
      <4>1. CASE k < place
        <5>1. \A j \in Locations \ passed : fs[j] = files[j]
          BY <3>2, <4>1 DEF Locations
        <5> HIDE DEF passed
        <5>2. GetConfigFile(fs, passed) = GetConfigFile(files, passed)
          BY <5>1, SkippedIgnored
        <5> QED BY <2>1, <3>0, <5>2
      <4>2. CASE k >= place
        <5>1. \A j \in passed : fs[j].is = "absent"
          BY <1>5, <2>2, <3>2, <4>2 DEF Locations
        <5>2. GetConfigFile(fs, passed) = GetConfigFile(fs, {})
          BY <5>1, PassedEmpty
        <5>3. installed /\ inst
          BY <1>5, <2>2, <3>2
        <5> HIDE DEF passed
        <5> QED BY <2>1, <3>0, <5>2, <5>3 DEF Enabled, Enables
      <4> QED BY <4>1, <4>2 DEF Locations
    <3> QED BY <3>1, <3>2
  <2>3. began' # {} /\ Enabled(installed, files)' \in began'
    BY <1>1, <2>1
  <2> HIDE DEF Ahead, Enabled
  <2> QED BY <1>1, <2>1, <2>2, <2>3
<1> QED BY <1>3, <1>4, <1>5

(* Whatever a request does outside of the lookup does not touch it.        *)
LEMMA OutsideJustified ==
    ASSUME TypeOK, LookupJustified, NEW r \in Pages, NEW answer, Ends(r, answer),
           page[r] \notin {"installation", "config"}, answer \notin {"installation", "config"},
           UNCHANGED <<config, lookup, history>>
    PROVE  LookupJustified'
<1>1. Ahead' = Ahead /\ Enabled(installed, files)' = Enabled(installed, files)
  BY DEF Ahead, config, lookup
<1>2. ASSUME NEW q \in Pages,
             \/ page[q] \in {"installation", "config"}
             \/ page'[q] \in {"installation", "config"}
      PROVE  page'[q] = page[q]
  BY <1>2 DEF TypeOK, Ends
<1> HIDE DEF Ahead, Enabled
<1> QED BY <1>1, <1>2 DEF LookupJustified, config, lookup, history

(* A step of a request other than asking GitHub: the lookup begins with the *)
(* answer in force, or is none of its business.                            *)
LEMMA RequestJustified ==
    ASSUME TypeOK, OneLookup, LookupJustified, NEW r \in Pages,
           \/ Ask(r) \/ Lock(r) \/ GiveUp(r)
           \/ ShowPage(r) \/ ShowDetails(r) \/ DatabaseFails(r)
    PROVE  LookupJustified'
<1>1. CASE Ask(r)
  BY <1>1, OutsideJustified DEF Ask
<1>2. CASE Lock(r)
  <2>1. CASE Remembered
    BY <1>2, <2>1, OutsideJustified DEF Lock, Told, lookup
  <2>2. CASE ~Remembered
    <3>1. /\ page[r] = "waiting" /\ holder = None /\ Ends(r, "installation")
          /\ began' = {Enabled(installed, files)} /\ changed' = 0
          /\ UNCHANGED <<config, place, cache>>
      BY <1>2, <2>2 DEF Lock
    <3>2. \A q \in Pages : page[q] \notin {"installation", "config"}
      BY <3>1, AuditAssumption DEF OneLookup
    <3>3. Enabled(installed, files)' \in began'
      BY <3>1 DEF config
    <3> HIDE DEF Enabled
    <3> QED BY <3>1, <3>2, <3>3 DEF LookupJustified, TypeOK, Ends
  <2> QED BY <2>1, <2>2
<1>3. CASE GiveUp(r)
  <2>1. CASE holder = r
    BY <1>3, <2>1, AuditAssumption
       DEF GiveUp, Release, TypeOK, OneLookup, LookupJustified, Ends, config
  <2>2. CASE holder # r
    BY <1>3, <2>2, OutsideJustified DEF GiveUp, OneLookup, lookup
  <2> QED BY <2>1, <2>2
<1>4. CASE ShowPage(r) \/ ShowDetails(r) \/ DatabaseFails(r)
  <2>1. page[r] = "database" /\ UNCHANGED <<config, lookup, history>>
    BY <1>4 DEF ShowPage, ShowDetails, DatabaseFails
  <2>2. \E answer \in Answers : Ends(r, answer)
    BY <1>4 DEF ShowPage, ShowDetails, DatabaseFails, Answers
  <2>3. \A answer \in Answers : answer \notin {"installation", "config"}
    BY DEF Answers
  <2> QED BY <2>1, <2>2, <2>3, OutsideJustified
<1> QED BY <1>1, <1>2, <1>3, <1>4

(* What a lookup returns was in force at some moment of it.                *)
LEMMA ReturnJustified ==
    ASSUME TypeOK, OneLookup, LookupJustified, NEW r \in Pages,
           page[r] \in {"installation", "config"},
           NEW b \in BOOLEAN, NEW valid \in SUBSET BOOLEAN, valid = {} \/ b \in valid,
           Returns(r, b, valid)
    PROVE  LookupJustified'
BY AuditAssumption DEF TypeOK, OneLookup, LookupJustified, Returns, Release, Ends, Told

(* A lookup that fails leaves what was remembered.                         *)
LEMMA FailureJustified ==
    ASSUME TypeOK, OneLookup, LookupJustified, NEW r \in Pages,
           page[r] \in {"installation", "config"}, Fails(r)
    PROVE  LookupJustified'
BY AuditAssumption DEF TypeOK, OneLookup, LookupJustified, Fails, Release, Ends

(* A look that ends the search without a file.                             *)
NoFile == files[place] = Undecodable \/ (place = 3 /\ files[place].is = "absent")

(* What a look finds, unless the location is empty, is the answer ahead.   *)
LEMMA FoundIsAhead ==
    ASSUME TypeOK
    PROVE  /\ files[place].is = "parsed" => Ahead = files[place].audit
           /\ files[place] = Undecodable => Ahead = FALSE
           /\ place = 3 /\ files[place].is = "absent" => Ahead = FALSE
           /\ files[place].is = "absent" =>
                Enables(GetConfigFile(files, 1 .. place)) = Ahead
<1>1. files[place] \in Files /\ place \in Locations
  BY DEF TypeOK
<1>2. files[place].is # "absent" => Ahead = Enables(Decoded(files[place]))
  BY <1>1, LookedAt DEF Ahead
<1>3. files[place].is = "parsed" => Ahead = files[place].audit
  BY <1>1, <1>2, Settings DEF Decoded, Undecodable, Enables
<1>4. files[place] = Undecodable => Ahead = FALSE
  <2> SUFFICES ASSUME files[place] = Undecodable PROVE Ahead = FALSE
    OBVIOUS
  <2>1. files[place].is = "undecodable" /\ Decoded(files[place]) = Absent
    BY DEF Undecodable, Decoded
  <2>2. Enables(Absent) = FALSE
    BY DEF Enables, Absent
  <2> QED BY <1>2, <2>1, <2>2
<1> QED BY <1>1, <1>3, <1>4, LookedAt DEF Ahead, Enables, Absent

(* The answers of an installation call and of a look are those in force at *)
(* some moment of the lookup, unless that is unclear.                      *)
LEMMA AnswersWereInForce ==
    ASSUME TypeOK, OneLookup, LookupJustified, NEW r \in Pages
    PROVE  /\ page[r] = "installation" /\ ~installed => began = {} \/ FALSE \in began
           /\ page[r] = "config" /\ files[place].is = "parsed" =>
                began = {} \/ files[place].audit \in began
           /\ page[r] = "config" /\ NoFile => began = {} \/ FALSE \in began
<1> USE DEF TypeOK, LookupJustified
<1>1. changed < 2 \/ changed = 2
  OBVIOUS
<1>2. ~installed => Enabled(installed, files) = FALSE
  BY DEF Enabled
<1> QED BY <1>1, <1>2, FoundIsAhead DEF NoFile

(* From the installation call on, the lookup is going to answer what is in *)
(* force; without the app it answers what was in force.                    *)
LEMMA InstallationJustified ==
    ASSUME TypeOK, OneLookup, LookupJustified, NEW r \in Pages, AskInstallation(r)
    PROVE  LookupJustified'
<1> USE DEF AskInstallation
<1>1. CASE installed /\ Ends(r, "config") /\ UNCHANGED <<lookup, history, faults>>
  <2> USE DEF TypeOK, OneLookup, LookupJustified, config, lookup, history, Ends
  <2>1. place = 1 /\ \A q \in Pages : page[q] \in {"installation", "config"} => q = r
    OBVIOUS
  <2>2. Ahead' = Enabled(installed, files)
    BY <1>1, <2>1, PassedEmpty DEF Ahead, Enabled, Enables, Locations
  <2>3. \A q \in Pages : page'[q] \in {"installation", "config"} => q = r /\ page'[q] = "config"
    BY <1>1, <2>1
  <2>4. place' = 1 /\ 1 .. place' - 1 = {} /\ page[r] = "installation"
    BY <1>1, <2>1
  <2> HIDE DEF Ahead, Enabled
  <2> QED BY <1>1, <2>2, <2>3, <2>4
<1>2. CASE ~installed /\ Returns(r, FALSE, began) /\ UNCHANGED faults
  BY <1>2, AnswersWereInForce, ReturnJustified DEF TypeOK
<1>3. CASE Fault /\ Fails(r)
  BY <1>3, FailureJustified
<1> QED BY <1>1, <1>2, <1>3

(* A look answers what was in force, or passes over a location that is     *)
(* empty, and the answer ahead stays what it was.                          *)
LEMMA LookJustified ==
    ASSUME TypeOK, OneLookup, LookupJustified, NEW r \in Pages, Look(r)
    PROVE  LookupJustified'
<1>0. page[r] = "config" /\ UNCHANGED <<config, stored, clock, changes>>
  BY DEF Look
<1>1. CASE files[place].is = "parsed" /\ Returns(r, files[place].audit, began)
  <2>1. files[place].audit \in BOOLEAN /\ began \in SUBSET BOOLEAN
    BY <1>1, Settings DEF TypeOK
  <2>2. began = {} \/ files[place].audit \in began
    BY <1>0, <1>1, AnswersWereInForce
  <2> QED BY <1>0, <1>1, <2>1, <2>2, ReturnJustified
<1>2. CASE Fails(r)
  BY <1>0, <1>2, FailureJustified
<1>3. CASE NoFile /\ Returns(r, FALSE, began)
  BY <1>0, <1>3, AnswersWereInForce, ReturnJustified DEF TypeOK
<1>4. CASE /\ place < 3 /\ files[place].is = "absent" /\ place' = place + 1
           /\ UNCHANGED <<page, holder, cache, history, faults>>
  <2> USE DEF TypeOK, OneLookup, LookupJustified, config, history
  <2>1. Ahead' = Ahead
    <3>1. files' = files /\ place' - 1 = place
      BY <1>0, <1>4 DEF Locations
    <3> QED BY <1>4, <3>1, FoundIsAhead DEF Ahead
  <2>2. \A k \in 1 .. place' - 1 : k = place \/ k \in 1 .. place - 1
    BY <1>4 DEF Locations
  <2> QED BY <1>0, <1>4, <2>1, <2>2
<1>5. CASE Returns(r, FALSE, {})
  BY <1>0, <1>5, ReturnJustified
<1>6. CASE place' = place + 1 /\ began' = {} /\ changed' = 2 /\ UNCHANGED <<page, holder, cache>>
  BY <1>0, <1>6 DEF LookupJustified, config
<1> QED BY <1>1, <1>2, <1>3, <1>4, <1>5, <1>6 DEF Look, NoFile

(* The lookup keeps its justification at every step.                       *)
LEMMA LookupJustifiedPreserved ==
    TypeOK /\ OneLookup /\ LookupJustified /\ [Next]_vars => LookupJustified'
<1> SUFFICES ASSUME TypeOK, OneLookup, LookupJustified, [Next]_vars PROVE LookupJustified'
  OBVIOUS
<1>1. CASE Tick \/ (\E v \in Votes : VoteChanges(v)) \/ Rest \/ UNCHANGED vars
  BY <1>1 DEF Tick, VoteChanges, Rest, vars, config, lookup, history, LookupJustified, Ahead
<1>2. CASE EditFile
  <2>1. PICK k \in Locations, f \in Files : Change(installed, [files EXCEPT ![k] = f])
    BY <1>2 DEF EditFile
  <2> QED BY <2>1, ChangeJustified DEF TypeOK
<1>3. CASE Install
  BY <1>3, ChangeJustified DEF Install, TypeOK
<1>4. ASSUME NEW r \in Pages, Ask(r) \/ Step(r) \/ GiveUp(r) PROVE LookupJustified'
  BY <1>4, RequestJustified, InstallationJustified, LookJustified DEF Step
<1> QED BY <1>1, <1>2, <1>3, <1>4 DEF Next

(* One request at a time looks up whether the page is enabled, and what it *)
(* is going to answer, as well as what is remembered, was in force at some *)
(* moment since its lookup began, unless two changes made that unclear.    *)
THEOREM AuditInvCorrect == Spec => []AuditInv
<1>1. Init => AuditInv
  <2> SUFFICES ASSUME Init PROVE OneLookup /\ LookupJustified
    BY AuditAssumption DEF Init, AuditInv, TypeOK, Locations, Working, Answers
  <2> QED BY AuditAssumption DEF Init, OneLookup, LookupJustified
<1>2. AuditInv /\ [Next]_vars => AuditInv'
  BY TypesPreserved, OneLookupPreserved, LookupJustifiedPreserved DEF AuditInv
<1> QED BY <1>1, <1>2, PTL DEF Spec

(* Whoever is told whether the page is enabled is told what was so at some *)
(* moment of a lookup that ended less than Ttl ago.                        *)
THEOREM AnswersAreFresh == Spec => FreshAnswers
<1> DEFINE Fresh == \A r \in Pages : page[r] \in {"waiting", "installation", "config"}
                        /\ page'[r] \in {"database", "not_enabled"} =>
                  /\ cache'.enabled = (page'[r] = "database")
                  /\ clock < cache'.at + Ttl
                  /\ cache'.valid = {} \/ cache'.enabled \in cache'.valid
<1>1. AuditInv /\ [Next]_vars => [Fresh]_vars
  <2> SUFFICES ASSUME AuditInv, [Next]_vars, NEW r \in Pages,
                      page[r] \in {"waiting", "installation", "config"},
                      page'[r] \in {"database", "not_enabled"}
               PROVE  /\ cache'.enabled = (page'[r] = "database")
                      /\ clock < cache'.at + Ttl
                      /\ cache'.valid = {} \/ cache'.enabled \in cache'.valid
    OBVIOUS
  <2>1. page'[r] # page[r]
    OBVIOUS
  <2>2. PICK q \in Pages : Ask(q) \/ Step(q) \/ GiveUp(q)
    BY <2>1 DEF Next, Tick, EditFile, Install, Change, VoteChanges, Rest, vars
  <2>3. \E answer : Ends(q, answer)
    BY <2>2, <2>1 DEF Ask, GiveUp, Step, Lock, AskInstallation, Look, Returns, Fails, ShowPage,
                     ShowDetails, DatabaseFails
  <2>4. q = r
    BY <2>1, <2>3 DEF AuditInv, TypeOK, Ends
  <2> USE DEF AuditInv, TypeOK
  <2>5. CASE Ask(r) \/ GiveUp(r)
    BY <2>5 DEF Ask, GiveUp, Ends
  <2>6. CASE Lock(r)
    BY <2>6, AuditAssumption DEF Lock, Ends, Told, Remembered, LookupJustified
  <2>7. ASSUME NEW b \in BOOLEAN, NEW valid \in SUBSET BOOLEAN, valid = {} \/ b \in valid,
               Returns(r, b, valid), UNCHANGED clock
        PROVE  /\ cache'.enabled = (page'[r] = "database")
               /\ clock < cache'.at + Ttl
               /\ cache'.valid = {} \/ cache'.enabled \in cache'.valid
    BY <2>7, AuditAssumption DEF Returns, Ends, Told
  <2>8. ~Fails(r)
    BY DEF Fails, Ends
  <2>9. CASE AskInstallation(r)
    <3>1. page[r] = "installation" /\ ~installed /\ Returns(r, FALSE, began) /\ UNCHANGED clock
      BY <2>8, <2>9 DEF AskInstallation, Ends
    <3>2. began = {} \/ FALSE \in began
      BY <3>1, AnswersWereInForce
    <3> QED BY <2>7, <3>1, <3>2
  <2>10. CASE Look(r)
    <3>0. page[r] = "config" /\ UNCHANGED clock /\ began \in SUBSET BOOLEAN
      BY <2>10 DEF Look
    <3>1. CASE files[place].is = "parsed" /\ Returns(r, files[place].audit, began)
      <4>1. files[place].audit \in BOOLEAN
        BY <3>1, Settings
      <4>2. began = {} \/ files[place].audit \in began
        BY <3>0, <3>1, AnswersWereInForce
      <4> QED BY <2>7, <3>0, <3>1, <4>1, <4>2
    <3>2. CASE NoFile /\ Returns(r, FALSE, began)
      <4>1. began = {} \/ FALSE \in began
        BY <3>0, <3>2, AnswersWereInForce
      <4> QED BY <2>7, <3>0, <3>2, <4>1
    <3>3. CASE Returns(r, FALSE, {})
      <4>1. FALSE \in BOOLEAN /\ {} \in SUBSET BOOLEAN
        OBVIOUS
      <4> QED BY <2>7, <3>0, <3>3, <4>1
    <3> QED BY <2>1, <2>8, <2>10, <3>1, <3>2, <3>3 DEF Look, NoFile
  <2>11. CASE ShowPage(r) \/ ShowDetails(r) \/ DatabaseFails(r)
    BY <2>11 DEF ShowPage, ShowDetails, DatabaseFails
  <2> QED BY <2>2, <2>4, <2>5, <2>6, <2>9, <2>10, <2>11 DEF Step
<1> QED BY <1>1, AuditInvCorrect, PTL DEF Spec, FreshAnswers

-----------------------------------------------------------------------------
(* The statistics.                                                         *)

(* What the statistics count for one name.                                 *)
Counted(S, y, n) == Stats(S, y, n).voted + Stats(S, y, n).not_voted

(* The votes of the year in which one of the names was counted.            *)
In(v, A) == (Voted[v] \cup Pending[v]) \cap A # {}
CountedIn(S, y, A) == {v \in Tracked(S) : Year[v] = y /\ In(v, A)}

Some(s) == CHOOSE x \in s : TRUE

(* The recursion behind the sum, without its fixed point.                  *)
SumStep(iter, S, y, names) ==
    [s \in SUBSET names |-> IF s = {} THEN 0
                            ELSE Counted(S, y, Some(s)) + iter[s \ {Some(s)}]]

(* The sum over all the names is a fixed point of its recursion.           *)
LEMMA TotalUnfolds ==
    ASSUME NEW S, NEW y, NEW names
    PROVE  Total(S, y, names) = (CHOOSE iter : iter = SumStep(iter, S, y, names))[names]
BY DEF Total, MapThenSumSet, MapThenFoldSet, SumStep, Some, Counted

(* Each name is counted once in each vote that has it.                     *)
LEMMA CountedOnce ==
    ASSUME NEW S \in SUBSET Votes, NEW y, NEW n
    PROVE  Counted(S, y, n) = Cardinality(CountedIn(S, y, {n}))
<1> DEFINE voted == {v \in Tracked(S) : Year[v] = y /\ n \in Voted[v]}
           notVoted == {v \in Tracked(S) : Year[v] = y /\ n \in Pending[v]}
<1>1. voted \in SUBSET Votes /\ notVoted \in SUBSET Votes
  BY DEF Tracked
<1>2. IsFiniteSet(voted) /\ IsFiniteSet(notVoted)
  BY <1>1, FS_Subset, ResultsAssumption
<1>3. voted \cap notVoted = {}
  BY <1>1, ResultsAssumption
<1>4. voted \cup notVoted = CountedIn(S, y, {n})
  BY DEF CountedIn, In
<1>5. Counted(S, y, n) = Cardinality(voted) + Cardinality(notVoted)
  <2>1. voted = {v \in {w \in Tracked(S) : Year[w] = y} : n \in Voted[v]}
    OBVIOUS
  <2>2. notVoted = {v \in {w \in Tracked(S) : Year[w] = y} : n \in Pending[v]}
    OBVIOUS
  <2> HIDE DEF voted, notVoted
  <2> QED BY <2>1, <2>2 DEF Counted, Stats
<1> HIDE DEF voted, notVoted
<1>6. Cardinality(voted) \in Nat /\ Cardinality(notVoted) \in Nat
  BY <1>2, FS_CardinalityType
<1>7. Cardinality(voted \cup notVoted) = Cardinality(voted) + Cardinality(notVoted)
  <2>1. Cardinality(voted \cap notVoted) = 0
    BY <1>3, FS_EmptySet
  <2>2. Cardinality(voted \cup notVoted) =
          Cardinality(voted) + Cardinality(notVoted) - Cardinality(voted \cap notVoted)
    BY <1>2, FS_Union
  <2> QED BY <1>6, <2>1, <2>2
<1> QED BY <1>4, <1>5, <1>7

(* Names that are all of one account.                                      *)
OneAccount(A) == \A m, n \in A : AccountOf[m] = AccountOf[n]

(* A name of the account adds the votes that have it, which have none of   *)
(* its other names.                                                        *)
LEMMA NameAdded ==
    ASSUME NEW S \in SUBSET Votes, NEW y, NEW A \in SUBSET Names, OneAccount(A), NEW x \in A
    PROVE  /\ Cardinality(CountedIn(S, y, A)) =
                Counted(S, y, x) + Cardinality(CountedIn(S, y, A \ {x}))
           /\ Cardinality(CountedIn(S, y, A)) \in Nat
<1> DEFINE one == CountedIn(S, y, {x})
           rest == CountedIn(S, y, A \ {x})
<1>1. one \in SUBSET Votes /\ rest \in SUBSET Votes
  BY DEF CountedIn, Tracked
<1>2. IsFiniteSet(one) /\ IsFiniteSet(rest)
  BY <1>1, FS_Subset, ResultsAssumption
<1>3. one \cap rest = {}
  <2> SUFFICES ASSUME NEW v \in Votes, In(v, {x}), In(v, A \ {x}) PROVE FALSE
    BY <1>1 DEF CountedIn
  <2>1. PICK m \in Voted[v] \cup Pending[v] : m \in A \ {x}
    BY DEF In
  <2>2. x \in Voted[v] \cup Pending[v]
    BY DEF In
  <2> QED BY <2>1, <2>2, ResultsAssumption DEF OneAccount
<1>4. one \cup rest = CountedIn(S, y, A)
  BY DEF CountedIn, In
<1>5. Counted(S, y, x) = Cardinality(one)
  BY CountedOnce
<1> HIDE DEF one, rest
<1>6. Cardinality(one) \in Nat /\ Cardinality(rest) \in Nat
  BY <1>2, FS_CardinalityType
<1>7. Cardinality(one \cup rest) = Cardinality(one) + Cardinality(rest)
  <2>1. Cardinality(one \cap rest) = 0
    BY <1>3, FS_EmptySet
  <2>2. Cardinality(one \cup rest) =
          Cardinality(one) + Cardinality(rest) - Cardinality(one \cap rest)
    BY <1>2, FS_Union
  <2> QED BY <1>6, <2>1, <2>2
<1>8. Cardinality(one) + Cardinality(rest) \in Nat
  BY <1>6
<1> QED BY <1>4, <1>5, <1>7, <1>8 DEF rest

(* Over the names of one account, the sum is the number of votes.          *)
LEMMA SumIsNumberOfVotes ==
    ASSUME NEW S \in SUBSET Votes, NEW y, NEW names \in SUBSET Names, OneAccount(names)
    PROVE  Total(S, y, names) = Cardinality(CountedIn(S, y, names))
<1> DEFINE number == [s \in SUBSET names |-> Cardinality(CountedIn(S, y, s))]
           iter == CHOOSE it : it = SumStep(it, S, y, names)
<1>1. ASSUME NEW s \in SUBSET names, s # {}
      PROVE  /\ Some(s) \in s /\ s \ {Some(s)} \in SUBSET names
             /\ number[s] = Counted(S, y, Some(s)) + number[s \ {Some(s)}]
  <2>1. Some(s) \in s
    BY <1>1 DEF Some
  <2>2. OneAccount(s) /\ s \in SUBSET Names
    BY DEF OneAccount
  <2> QED BY <2>1, <2>2, NameAdded
<1>2. number[{}] = 0
  <2>1. CountedIn(S, y, {}) = {}
    BY DEF CountedIn, In
  <2> QED BY <2>1, FS_EmptySet
<1>3. number = SumStep(number, S, y, names)
  <2> DEFINE step == SumStep(number, S, y, names)
  <2>1. step = [s \in SUBSET names |-> step[s]] /\ number = [s \in SUBSET names |-> number[s]]
    BY DEF SumStep
  <2>2. ASSUME NEW s \in SUBSET names PROVE step[s] = number[s]
    <3> HIDE DEF number
    <3> QED BY <1>1, <1>2 DEF SumStep
  <2> HIDE DEF step, number
  <2> QED BY <2>1, <2>2 DEF step
<1> HIDE DEF number
<1>4. iter = SumStep(iter, S, y, names)
  BY <1>3
<1> HIDE DEF iter
<1>5. ASSUME NEW s \in SUBSET names
      PROVE  iter[s] = IF s = {} THEN 0 ELSE Counted(S, y, Some(s)) + iter[s \ {Some(s)}]
  BY <1>4 DEF SumStep
<1>6. \A s \in SUBSET names : iter[s] = number[s]
  <2> DEFINE wrong == {s \in SUBSET names : iter[s] # number[s]}
  <2> SUFFICES ASSUME wrong # {} PROVE FALSE
    OBVIOUS
  <2>1. IsFiniteSet(names)
    BY FS_Subset, ResultsAssumption
  <2>2. wrong \subseteq FiniteSubsetsOf(names)
    BY <2>1, FS_Subset DEF FiniteSubsetsOf
  <2>3. PICK s \in wrong : \A t \in wrong : ~ (<<t, s>> \in StrictSubsetOrdering(names))
    <3> HIDE DEF wrong
    <3> QED BY <2>2, FS_StrictSubsetOrderingWellFounded, WFMin
  <2>4. s # {}
    BY <1>2, <1>5
  <2>5. Some(s) \in s /\ s \ {Some(s)} \in SUBSET names
    BY <1>1, <2>4
  <2>6. iter[s \ {Some(s)}] # number[s \ {Some(s)}]
    BY <1>1, <1>5, <2>4
  <2>7. <<s \ {Some(s)}, s>> \in StrictSubsetOrdering(names)
    BY <2>5 DEF StrictSubsetOrdering
  <2> QED BY <2>3, <2>5, <2>6, <2>7
<1>7. Total(S, y, names) = iter[names]
  BY TotalUnfolds DEF iter
<1> QED BY <1>6, <1>7 DEF number

(* In every state the statistics of the page lose no vote of an account    *)
(* and count none twice, however its name is spelled in the results.       *)
LEMMA StatisticsAddUp == ParticipationAddsUp
<1> SUFFICES ASSUME NEW y \in {Year[v] : v \in Votes}, NEW a \in Accounts
             PROVE  Total(Rows, y, {n \in Names : AccountOf[n] = a}) =
                    Cardinality({v \in Tracked(Rows) : Year[v] = y /\ a \in AccountsIn(Voted[v] \cup Pending[v])})
  BY DEF ParticipationAddsUp
<1> DEFINE names == {n \in Names : AccountOf[n] = a}
<1>1. Rows \in SUBSET Votes
  BY DEF Rows
<1>2. OneAccount(names)
  BY DEF OneAccount
<1>3. Total(Rows, y, names) = Cardinality(CountedIn(Rows, y, names))
  BY <1>1, <1>2, SumIsNumberOfVotes
<1>4. ASSUME NEW v \in Votes
      PROVE  In(v, names) <=> a \in AccountsIn(Voted[v] \cup Pending[v])
  BY ResultsAssumption DEF In, AccountsIn
<1>5. CountedIn(Rows, y, names) =
        {v \in Tracked(Rows) : Year[v] = y /\ a \in AccountsIn(Voted[v] \cup Pending[v])}
  BY <1>4 DEF CountedIn, Tracked, Rows
<1> QED BY <1>3, <1>5

(* The statistics of the page add up in every state: votes are created and *)
(* closed while the page is shown.                                         *)
THEOREM StatisticsCorrect == Spec => []ParticipationAddsUp
BY StatisticsAddUp, PTL
=============================================================================
