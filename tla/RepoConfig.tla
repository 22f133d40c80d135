------------------------------ MODULE RepoConfig ------------------------------
(***************************************************************************)
(* What GitVote reads in the configuration file of a repository: where the *)
(* file is looked for, which profiles may start a vote, and which vote the *)
(* opening of a pull request starts by itself.                             *)
(*                                                                         *)
(* A file is a record: absent, undecodable (too large to be sent, say),    *)
(* malformed, or parsed with the fields audit, automation (a sequence of   *)
(* rules, empty when disabled) and profiles.  A rule names the files it    *)
(* matches and a profile; a gitignore pattern that does not parse makes it *)
(* invalid.                                                                *)
(***************************************************************************)
EXTENDS Naturals

(* Locations of the file in order of precedence: the root of the           *)
(* repository, its .github directory, the .github repository of its owner. *)
Locations == 1 .. 3

Absent == [is |-> "absent"]
Undecodable == [is |-> "undecodable"]
Malformed == [is |-> "malformed"]

First(S) == CHOOSE k \in S : \A j \in S : k <= j

(* What is found where there is something: no file if it has no content.   *)
Decoded(file) == IF file = Undecodable THEN Absent ELSE file

(* get_config_file: a location that does not answer is passed over as if   *)
(* nothing were there.  One that does ends the search.                     *)
GetConfigFile(files, unanswered) ==
    LET found == {k \in Locations \ unanswered : files[k].is # "absent"} IN
    IF found = {} THEN Absent ELSE Decoded(files[First(found)])

(* CfgProfile::validate; thresholds are whole percentages here.            *)
Validate(profile, isOrg) ==
    /\ profile.passThreshold \in 1 .. 100
    /\ isOrg \/ profile.teams = {}

(* CfgProfile::get returns a profile.  Its errors only differ in the       *)
(* comment they are reported with.                                         *)
HasProfile(file, name, isOrg) ==
    /\ file.is = "parsed"
    /\ name \in DOMAIN file.profiles
    /\ Validate(file.profiles[name], isOrg)

(* AutomationRule::matches.                                                *)
Matches(rule, changed) == rule.matches \cap changed # {}

(* from_event_automatic: the first rule that matches a file of the pull    *)
(* request starts a vote, but a rule that is invalid ends the search with  *)
(* an error.                                                               *)
StartsVote(file, changed) ==
    /\ file.is = "parsed"
    /\ LET rules == file.automation
           tried == {k \in DOMAIN rules : rules[k].invalid \/ Matches(rules[k], changed)} IN
        /\ tried # {}
        /\ ~ rules[First(tried)].invalid
=============================================================================
