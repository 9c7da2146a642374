----------------------------- MODULE MCGateReview -----------------------------
(* Instances of GateReview small enough for TLC. *)
EXTENDS GateReview

CONSTANTS a1, s1, s2, s3, u1, u2

OneApp2 == [s \in {s1, s2} |-> a1]
OneApp3 == [s \in {s1, s2, s3} |-> a1]
=============================================================================
