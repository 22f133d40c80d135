---------------------------- MODULE MCElectorate ----------------------------
(* Two teams with a member in common, and every section about them.        *)
EXTENDS Electorate, TLC

CONSTANTS alice, bob, carol, core, docs

MCMembers == (core :> {alice, bob}) @@ (docs :> {bob, carol})
MCMaintainers == (core :> {alice}) @@ (docs :> {bob, carol})
MCSections == [teams : SUBSET Teams, users : SUBSET Names, exclude_team_maintainers : BOOLEAN]
=============================================================================
