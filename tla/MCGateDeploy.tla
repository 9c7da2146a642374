----------------------------- MODULE MCGateDeploy -----------------------------
(* Instances of GateDeploy small enough for TLC. *)
EXTENDS GateDeploy, TLC

CONSTANTS a1, a2, s1, s2, s3

OneApp1 == [s \in {s1} |-> a1]
OneApp2 == [s \in {s1, s2} |-> a1]
OneApp3 == [s \in {s1, s2, s3} |-> a1]
TwoApps2 == [s \in {s1, s2} |-> IF s = s1 THEN a1 ELSE a2]
TwoApps3 == [s \in {s1, s2, s3} |-> IF s = s2 THEN a2 ELSE a1]

OwnSlugs == [a \in Apps |-> a]
SameSlug == [a \in Apps |-> a1]

AlikeWorkers == Permutations(Workers)
WorkersAndScans == Permutations(Workers) \cup Permutations(Scans)
=============================================================================
