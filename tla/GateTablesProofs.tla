--------------------------- MODULE GateTablesProofs ---------------------------
(***************************************************************************)
(* What the operators on the shared rows return.                           *)
(***************************************************************************)
EXTENDS GateTables, FiniteSetTheorems, TLAPS

\* decided_at is a natural number: the decisions taken so far are finitely many.
LEMMA NowType == Now \in Nat
<1>1. IsFiniteSet({s \in Scans : Decided(s)})
  BY TablesAssumption, FS_Subset
<1>2. QED
  BY <1>1, FS_CardinalityType DEF Now

\* previous_scan_id is NULL or names a scan.
LEMMA LatestApprovedType ==
  ASSUME NEW a \in Apps
  PROVE  LatestApproved(a) \in Scans \cup {NoScan}
BY DEF LatestApproved

\* What a write through a stale session leaves is a value of the column either
\* way, and one of the two it could be.
LEMMA WrittenType ==
  ASSUME NEW T, NEW old \in T, NEW seen, NEW new \in T
  PROVE  Written(old, seen, new) \in T
BY DEF Written
\* A set of natural numbers has a least element.
LEMMA Least ==
  ASSUME NEW T, T \subseteq Nat, T # {}
  PROVE  \E x \in T : \A y \in T : x <= y
<1> DEFINE R == OpToRel(<, Nat)
<1>1. IsWellFoundedOn(R, Nat)
  BY NatLessThanWellFounded
<1>2. R = {p \in Nat \X Nat : p[1] < p[2]}
  BY DEF OpToRel
<1> HIDE DEF R
<1>3. PICK x \in T : \A y \in T : ~ (<<y, x>> \in R)
  BY <1>1, WFMin
<1>4. \A n, m \in Nat : m < n => <<m, n>> \in R
  BY <1>2
<1>5. ASSUME NEW y \in T PROVE x <= y
  <2>1. x \in Nat /\ y \in Nat
    OBVIOUS
  <2>2. ~(y < x)
    BY <1>3, <1>4, <2>1, Zenon
  <2>3. QED
    BY <2>1, <2>2
<1>6. QED
  BY <1>5

\* When the app has an approved scan, previous_scan_id is one of them.
LEMMA LatestApprovedExists ==
  ASSUME NEW a \in Apps, NEW N \in Nat, approvals \in [Scans -> ApprovalRow],
         \A s \in Scans : approvals[s].at <= N,
         \E s \in Scans : AppOf[s] = a /\ Approved(s)
  PROVE  /\ LatestApproved(a) \in Scans
         /\ AppOf[LatestApproved(a)] = a /\ Approved(LatestApproved(a))
<1> DEFINE approved == {s \in Scans : AppOf[s] = a /\ Approved(s)}
           latest == {s \in approved : \A t \in approved : approvals[t].at <= approvals[s].at}
           ages == {N - approvals[s].at : s \in approved}
<1>1. \A s \in Scans : approvals[s].at \in Nat
  BY DEF ApprovalRow
<1>2. ages \subseteq Nat /\ ages # {}
  BY <1>1
<1>3. PICK s \in approved : \A t \in approved : N - approvals[s].at <= N - approvals[t].at
  <2>1. PICK n \in ages : \A m \in ages : n <= m
    <3> HIDE DEF ages
    <3>1. QED
      BY <1>2, Least
  <2>2. QED
    BY <2>1
<1>4. latest # {}
  BY <1>1, <1>3
<1>5. LatestApproved(a) \in latest
  BY <1>4 DEF LatestApproved
<1>6. QED
  BY <1>5

\* decided_at stays below a bound: no more decisions are taken than there are scans.
LEMMA NowBound == Now <= 1 + Cardinality(Scans) /\ Cardinality(Scans) \in Nat
<1>1. /\ IsFiniteSet({s \in Scans : Decided(s)})
      /\ Cardinality({s \in Scans : Decided(s)}) <= Cardinality(Scans)
  BY TablesAssumption, FS_Subset
<1>2. /\ Cardinality({s \in Scans : Decided(s)}) \in Nat
      /\ Cardinality(Scans) \in Nat
  BY <1>1, TablesAssumption, FS_CardinalityType
<1>3. QED
  BY <1>1, <1>2 DEF Now
=============================================================================
