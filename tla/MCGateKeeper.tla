----------------------------- MODULE MCGateKeeper -----------------------------
(* Instances of GateKeeper small enough for TLC. *)
EXTENDS GateKeeper, TLC

CONSTANTS a1, a2, s1, s2

OneApp2 == [s \in {s1, s2} |-> a1]
TwoApps2 == [s \in {s1, s2} |-> IF s = s1 THEN a1 ELSE a2]

OwnSlugs == [a \in Apps |-> a]

ScansAndWorkers == Permutations(Scans) \cup Permutations(Workers)
=============================================================================
