------------------------------- MODULE MCAudit -------------------------------
(* The page is enabled by the file in the .github directory.  Alice votes  *)
(* once; once she does not, and is spelled as in the profile.  A file that *)
(* turns the page off answers a lookup like one that cannot be decoded.    *)
EXTENDS Audit, TLC

CONSTANTS p1, p2, v1, v2, alice, capitals, bob

On == [is |-> "parsed", audit |-> TRUE]

MCFiles == {Absent, Undecodable, Malformed, On}
MCFirstFiles == <<Absent, On, Absent>>
MCYear == (v1 :> 2024) @@ (v2 :> 2024)
MCVoted == (v1 :> {alice}) @@ (v2 :> {bob})
MCPending == (v1 :> {}) @@ (v2 :> {capitals})
MCNonBinding == (v1 :> {bob}) @@ (v2 :> {})
MCAccountOf == (alice :> "alice") @@ (capitals :> "alice") @@ (bob :> "bob")
=============================================================================
