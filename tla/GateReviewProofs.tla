--------------------------- MODULE GateReviewProofs ---------------------------
(***************************************************************************)
(* What GateReview guarantees for any number of apps, scans, approvers,    *)
(* retries and faults.                                                     *)
(***************************************************************************)
EXTENDS GateReview, GateTablesProofs

\* A row written by an upload is a scan row.
LEMMA UploadRowType ==
  ASSUME NEW s \in Scans, NEW seen \in AppStatus
  PROVE  UploadRow(s, seen) \in ScanRow
<1>1. AppOf[s] \in Apps
  BY TablesAssumption
<1>2. LatestApproved(AppOf[s]) \in Scans \cup {NoScan}
  BY <1>1, LatestApprovedType
<1>3. QED
  BY <1>2 DEF UploadRow, NoScanRow, ScanRow, ScanStatus, Tiers

\* A retry returns the task to the queue or ends it, within max_retries.
LEMMA RetryType ==
  ASSUME NEW s \in Scans, scanTask \in [Scans -> ScanTask], Retry(s)
  PROVE  /\ scanTask' \in [Scans -> ScanTask]
         /\ scanTask'[s].at \in {"queued", "dead"}
         /\ \A t \in Scans \ {s} : scanTask'[t] = scanTask[t]
BY ReviewAssumption DEF Retry, ScanTask

-----------------------------------------------------------------------------
(* Type correctness *)

\* A step of an upload or trigger request keeps the types.
LEMMA RequestStepType ==
  ASSUME TypeOK, NEW s \in Scans, RequestStep(s)
  PROVE  TypeOK'
<1> USE TablesAssumption, ReviewAssumption
<1>1. AppOf[s] \in Apps /\ status[AppOf[s]] \in AppStatus
  BY DEF TypeOK, TablesTypeOK
<1>2. CASE UploadRead(s)
  BY <1>1, <1>2 DEF UploadRead, TypeOK, TablesTypeOK, tables, Request
<1>3. CASE UploadRefused(s)
  BY <1>3 DEF UploadRefused, TypeOK, TablesTypeOK, tables, Request
<1>4. ASSUME NEW seen \in AppStatus, NEW row \in ScanRow, Send(s, seen, row)
      PROVE  TypeOK'
  BY <1>4 DEF Send, TypeOK, TablesTypeOK, Request, ScanTask
<1>5. CASE UploadSend(s)
  <2>1. request[s].seen \in AppStatus
    BY DEF TypeOK, Request
  <2>2. QED
    BY <1>4, <1>5, <2>1, UploadRowType DEF UploadSend
<1>6. CASE TriggerSend(s)
  <2>1. [NoScanRow EXCEPT !.status = "uncommitted"] \in ScanRow
    BY DEF NoScanRow, ScanRow, ScanStatus, Tiers
  <2>2. QED
    BY <1>1, <1>4, <1>6, <2>1 DEF TriggerSend
<1>7. CASE RequestCommit(s)
  <2>1. "scanning" \in AppStatus
    BY DEF AppStatus
  <2>2. Written(status[AppOf[s]], request[s].seen, "scanning") \in AppStatus
    BY <1>1, <2>1, WrittenType
  <2>3. status' \in [Apps -> AppStatus]
    BY <1>1, <1>7, <2>2 DEF RequestCommit, TypeOK, TablesTypeOK
  <2>4. scans' \in [Scans -> ScanRow]
    BY <1>7 DEF RequestCommit, TypeOK, TablesTypeOK, ScanRow, ScanStatus
  <2>5. request' \in [Scans -> Request]
    BY <1>7 DEF RequestCommit, TypeOK, Request
  <2>6. QED
    BY <1>7, <2>3, <2>4, <2>5 DEF RequestCommit, TypeOK, TablesTypeOK
<1>8. CASE RequestDies(s)
  <2>1. NoScanRow \in ScanRow
    BY DEF NoScanRow, ScanRow, ScanStatus, Tiers
  <2>2. QED
    BY <1>8, <2>1 DEF RequestDies, Fault, TypeOK, TablesTypeOK, Request
<1>9. QED
  BY <1>2, <1>3, <1>5, <1>6, <1>7, <1>8 DEF RequestStep

\* A step of a pipeline task keeps the types.
LEMMA ScanStepType ==
  ASSUME TypeOK, NEW s \in Scans, ScanStep(s)
  PROVE  TypeOK'
<1> USE TablesAssumption, ReviewAssumption
<1>1. /\ AppOf[s] \in Apps /\ status[AppOf[s]] \in AppStatus
      /\ scanTask \in [Scans -> ScanTask]
  BY DEF TypeOK, TablesTypeOK
<1>2. CASE ScanMissing(s)
  BY <1>1, <1>2, RetryType DEF ScanMissing, TypeOK, TablesTypeOK, tables
<1>3. CASE ScanStart(s)
  <2>1. scans' \in [Scans -> ScanRow]
    BY <1>3 DEF ScanStart, TypeOK, TablesTypeOK, ScanRow, ScanStatus
  <2>2. scanTask' \in [Scans -> ScanTask]
    BY <1>1, <1>3 DEF ScanStart, ScanTask
  <2>3. QED
    BY <1>3, <2>1, <2>2 DEF ScanStart, TypeOK, TablesTypeOK
<1>4. CASE ScanArchiveFails(s)
  <2> DEFINE new == IF scans[s].type = "update" THEN "deployed" ELSE "failed"
  <2>1. Written(status[AppOf[s]], scanTask[s].seen, new) \in AppStatus
    BY <1>1, WrittenType DEF AppStatus
  <2>2. status' \in [Apps -> AppStatus]
    BY <1>1, <1>4, <2>1 DEF ScanArchiveFails, TypeOK, TablesTypeOK
  <2>3. scans' \in [Scans -> ScanRow]
    BY <1>4 DEF ScanArchiveFails, TypeOK, TablesTypeOK, ScanRow, ScanStatus
  <2>4. scanTask' \in [Scans -> ScanTask]
    BY <1>1, <1>4 DEF ScanArchiveFails, ScanTask
  <2>5. QED
    BY <1>4, <2>2, <2>3, <2>4 DEF ScanArchiveFails, TypeOK, TablesTypeOK
<1>5. ASSUME NEW tier \in Tiers, ScanCompletes(s, tier)
      PROVE  TypeOK'
  <2> DEFINE new == IF tier = "green" THEN "approved" ELSE "awaiting_approval"
  <2>1. Written(status[AppOf[s]], scanTask[s].seen, new) \in AppStatus
    BY <1>1, WrittenType DEF AppStatus
  <2>2. status' \in [Apps -> AppStatus]
    BY <1>1, <1>5, <2>1 DEF ScanCompletes, TypeOK, TablesTypeOK
  <2>3. scans' \in [Scans -> ScanRow]
    <3>1. Expedited(s, tier) \in BOOLEAN
      BY DEF Expedited
    <3>2. scans[s] \in ScanRow /\ (scans[s].expedited \/ Expedited(s, tier)) \in BOOLEAN
      BY <3>1 DEF TypeOK, TablesTypeOK
    <3>3. [scans[s] EXCEPT !.status = "complete", !.tier = tier,
              !.expedited = scans[s].expedited \/ Expedited(s, tier)] \in ScanRow
      BY <3>2 DEF ScanRow, ScanStatus
    <3>4. QED
      BY <1>5, <3>3 DEF ScanCompletes, TypeOK, TablesTypeOK
  <2>4. approvals' \in [Scans -> ApprovalRow]
    BY <1>5 DEF ScanCompletes, RouteAfterScan, TypeOK, TablesTypeOK, ApprovalRow
  <2>5. scanTask' \in [Scans -> ScanTask]
    BY <1>1, <1>5 DEF ScanCompletes, ScanTask
  <2>6. QED
    BY <1>5, <2>2, <2>3, <2>4, <2>5 DEF ScanCompletes, TypeOK, TablesTypeOK
<1>6. CASE ScanConflict(s)
  BY <1>1, <1>6, RetryType DEF ScanConflict, TypeOK, TablesTypeOK, tables
<1>7. CASE AutoApprove(s)
  <2>1. approvals' \in [Scans -> ApprovalRow]
    BY <1>7, NowType DEF AutoApprove, TypeOK, TablesTypeOK, ApprovalRow
  <2>2. QED
    BY <1>1, <1>7, <2>1 DEF AutoApprove, TypeOK, TablesTypeOK, ScanTask
<1>8. CASE ScanDispatch(s)
  BY <1>1, <1>8 DEF ScanDispatch, Enqueue, TypeOK, TablesTypeOK, ScanTask
<1>9. CASE ScanRaises(s)
  BY <1>1, <1>9, RetryType DEF ScanRaises, Fault, TypeOK, TablesTypeOK, tables
<1>10. CASE ScanWorkerDies(s)
  BY <1>1, <1>10 DEF ScanWorkerDies, Fault, TypeOK, TablesTypeOK, tables, ScanTask
<1>11. QED
  BY <1>2, <1>3, <1>4, <1>5, <1>6, <1>7, <1>8, <1>9, <1>10 DEF ScanStep

\* A step of a decide request keeps the types.
LEMMA DeskStepType ==
  ASSUME TypeOK, DeskOwnsApproval, NEW u \in Approvers, DeskStep(u)
  PROVE  TypeOK'
<1> USE TablesAssumption, ReviewAssumption
<1> DEFINE s == desk[u].scan
<1>1. IdleDesk \in Desk
  BY DEF IdleDesk, Desk, AppStatus
<1>2. ASSUME NEW t \in Scans, DeskOpen(u, t)
      PROVE  TypeOK'
  <2>1. status[AppOf[t]] \in AppStatus
    BY DEF TypeOK, TablesTypeOK
  <2>2. QED
    BY <1>2, <2>1 DEF DeskOpen, TypeOK, TablesTypeOK, tables, Desk
<1>3. ASSUME NEW d \in {"approved", "rejected"}, DeskCommit(u, d)
      PROVE  TypeOK'
  <2>1. s \in Scans /\ AppOf[s] \in Apps /\ status[AppOf[s]] \in AppStatus
    BY <1>3 DEF DeskCommit, DeskOwnsApproval, TypeOK, TablesTypeOK
  <2>2. Written(status[AppOf[s]], desk[u].seen, StatusAfter(d, scans[s].type))
          \in AppStatus
    BY <2>1 DEF StatusAfter, AppStatus, Written
  <2>3. status' \in [Apps -> AppStatus]
    BY <1>3, <2>1, <2>2 DEF DeskCommit, TypeOK, TablesTypeOK
  <2>4. approvals' \in [Scans -> ApprovalRow]
    BY <1>3, <2>1, NowType DEF DeskCommit, TypeOK, TablesTypeOK, ApprovalRow
  <2>5. desk' \in [Approvers -> Desk]
    BY <1>1, <1>3 DEF DeskCommit, TypeOK, Desk
  <2>6. QED
    BY <1>3, <2>3, <2>4, <2>5 DEF DeskCommit, TypeOK, TablesTypeOK
<1>4. CASE DeskDispatch(u)
  <2>1. s \in Scans
    BY <1>4 DEF DeskDispatch, DeskOwnsApproval
  <2>2. QED
    BY <1>1, <1>4, <2>1 DEF DeskDispatch, Enqueue, TypeOK, TablesTypeOK
<1>5. CASE DeskDies(u)
  BY <1>1, <1>5 DEF DeskDies, Fault, TypeOK, TablesTypeOK, tables
<1>6. QED
  BY <1>2, <1>3, <1>4, <1>5 DEF DeskStep

\* What the deploy side may do keeps the types.
LEMMA DeploySideStepType ==
  ASSUME TypeOK, DeploySideStep
  PROVE  TypeOK'
<1> USE TablesAssumption
<1>1. PICK s \in Scans :
         \/ DeploySideTakes(s)
         \/ DeploySideSends(s)
         \/ \E new \in {"deployed", "approved", "stopped"} : DeploySideWrites(s, new)
  BY DEF DeploySideStep
<1>2. CASE DeploySideTakes(s)
  BY <1>2 DEF DeploySideTakes, reviewVars, TypeOK, TablesTypeOK
<1>3. CASE DeploySideSends(s)
  BY <1>3 DEF DeploySideSends, Enqueue, reviewVars, TypeOK, TablesTypeOK
<1>4. ASSUME NEW new \in {"deployed", "approved", "stopped"},
             DeploySideWrites(s, new)
      PROVE  TypeOK'
  BY <1>4 DEF DeploySideWrites, reviewVars, TypeOK, TablesTypeOK, AppStatus
<1>5. QED
  BY <1>1, <1>2, <1>3, <1>4

-----------------------------------------------------------------------------
(* The inductive invariant *)

\* The tables start without scans, approvals, messages or requests.
LEMMA InitIInv == ReviewInit => IInv
<1> SUFFICES ASSUME ReviewInit PROVE IInv
  OBVIOUS
<1> USE TablesAssumption, ReviewAssumption DEF ReviewInit, TablesInit
<1>1. TypeOK
  <2>1. NoScanRow \in ScanRow /\ NoApprovalRow \in ApprovalRow
    BY DEF NoScanRow, ScanRow, ScanStatus, Tiers, NoApprovalRow, ApprovalRow
  <2>2. IdleDesk \in Desk /\ "pending_scan" \in AppStatus
    BY DEF IdleDesk, Desk, AppStatus
  <2>3. QED
    BY <2>1, <2>2 DEF TypeOK, TablesTypeOK, Request, ScanTask
<1>2. /\ RequestOrder /\ WorkIsCommitted /\ TaskOwnsApproval
      /\ DispatchedOnlyApproved /\ AutoApprovalOnlyGreenInitial
  BY DEF RequestOrder, WorkIsCommitted, TaskOwnsApproval, DispatchedOnlyApproved,
         AutoApprovalOnlyGreenInitial, NoScanRow, NoApprovalRow, Holding,
         Approved
<1>3. DeskOwnsApproval
  BY DEF DeskOwnsApproval, IdleDesk
<1>4. QED
  BY <1>1, <1>2, <1>3 DEF IInv

\* The parts of IInv below the types, each of which a step may disturb.
Parts == /\ RequestOrder
         /\ WorkIsCommitted
         /\ TaskOwnsApproval
         /\ DeskOwnsApproval
         /\ DispatchedOnlyApproved
         /\ AutoApprovalOnlyGreenInitial

\* A retry only puts the task back in the queue or ends it, so it disturbs
\* nothing as long as no approval but the task's own exists.
LEMMA RetryParts ==
  ASSUME IInv, NEW s \in Scans, Retry(s),
         scanTask[s].at \in {"queued", "scanning", "approving", "dispatching"},
         UNCHANGED <<tables, request, desk, dispatched>>
  PROVE  Parts'
<1> USE DEF IInv, tables
<1>1. /\ scanTask'[s].at \in {"queued", "dead"}
      /\ \A t \in Scans \ {s} : scanTask'[t] = scanTask[t]
  BY RetryType DEF TypeOK
<1>2. RequestOrder'
  BY <1>1 DEF RequestOrder
<1>3. WorkIsCommitted'
  BY <1>1 DEF WorkIsCommitted, Visible, Holding
<1>4. TaskOwnsApproval'
  BY <1>1 DEF TaskOwnsApproval, SkipsQueue, Approved
<1>5. /\ DeskOwnsApproval' /\ DispatchedOnlyApproved'
      /\ AutoApprovalOnlyGreenInitial'
  BY DEF DeskOwnsApproval, DispatchedOnlyApproved, AutoApprovalOnlyGreenInitial,
         Approved
<1>6. QED
  BY <1>2, <1>3, <1>4, <1>5 DEF Parts

\* A request only touches its own scan, before anything depends on it.
LEMMA RequestStepParts ==
  ASSUME IInv, NEW s \in Scans, RequestStep(s)
  PROVE  Parts'
<1> USE DEF IInv, TypeOK, TablesTypeOK, Parts, RequestOrder, WorkIsCommitted,
            TaskOwnsApproval, DeskOwnsApproval, DispatchedOnlyApproved,
            AutoApprovalOnlyGreenInitial, Visible, Holding, Approved, SkipsQueue,
            tables, NoScanRow
<1>1. CASE UploadRead(s) \/ UploadRefused(s)
  <2>1. UNCHANGED <<scans, approvals, deployQueue, scanTask, desk, dispatched>>
    BY <1>1 DEF UploadRead, UploadRefused
  <2>2. /\ request'[s].at \in {"read", "closed"}
        /\ request[s].at \in {"idle", "read"}
        /\ \A t \in Scans \ {s} : request'[t] = request[t]
    BY <1>1 DEF UploadRead, UploadRefused, Request
  <2>3. RequestOrder'
    BY <2>1, <2>2
  <2>4. QED
    BY <2>1, <2>3
<1>2. ASSUME NEW seen, NEW row \in ScanRow, row.status = "uncommitted",
             request[s].at \in {"idle", "read"}, Send(s, seen, row)
      PROVE  Parts'
  BY <1>2 DEF Send, ScanTask
<1>3. CASE UploadSend(s)
  <2>1. UploadRow(s, request[s].seen) \in ScanRow
    BY UploadRowType DEF Request
  <2>2. UploadRow(s, request[s].seen).status = "uncommitted"
    BY DEF UploadRow
  <2>3. QED
    BY <1>2, <1>3, <2>1, <2>2 DEF UploadSend
<1>4. CASE TriggerSend(s)
  <2>1. [NoScanRow EXCEPT !.status = "uncommitted"] \in ScanRow
    BY DEF ScanRow, ScanStatus, Tiers
  <2>2. QED
    BY <1>2, <1>4, <2>1 DEF TriggerSend
<1>5. CASE RequestCommit(s)
  BY <1>5 DEF RequestCommit, ScanRow, Request
<1>6. CASE RequestDies(s)
  BY <1>6 DEF RequestDies, ScanRow, Request
<1>7. QED
  BY <1>1, <1>3, <1>4, <1>5, <1>6 DEF RequestStep

\* A pipeline task writes its own scan and approval, and sends what it committed.
LEMMA ScanStepParts ==
  ASSUME IInv, NEW s \in Scans, ScanStep(s)
  PROVE  Parts'
<1> USE DEF IInv, TypeOK, TablesTypeOK, Parts, RequestOrder, WorkIsCommitted,
            TaskOwnsApproval, DeskOwnsApproval, DispatchedOnlyApproved,
            AutoApprovalOnlyGreenInitial, Visible, Holding, Approved, SkipsQueue,
            tables
<1>1. CASE ScanMissing(s) \/ ScanConflict(s) \/ ScanRaises(s)
  BY <1>1, RetryParts DEF ScanMissing, ScanConflict, ScanRaises
<1>2. CASE ScanStart(s)
  <2>1. /\ scans' = [scans EXCEPT ![s].status = "running"]
        /\ scanTask'[s].at = "scanning"
        /\ \A t \in Scans \ {s} : scanTask'[t] = scanTask[t]
        /\ UNCHANGED <<approvals, deployQueue, request, desk, dispatched>>
        /\ scanTask[s].at = "queued" /\ Visible(s)
    BY <1>2 DEF ScanStart
  <2>2. RequestOrder'
    BY <2>1
  <2>3. WorkIsCommitted'
    BY <2>1
  <2>4. TaskOwnsApproval'
    BY <2>1
  <2>5. AutoApprovalOnlyGreenInitial' /\ DeskOwnsApproval' /\ DispatchedOnlyApproved'
    BY <2>1
  <2>6. QED
    BY <2>2, <2>3, <2>4, <2>5
<1>3. CASE ScanArchiveFails(s)
  BY <1>3 DEF ScanArchiveFails, ScanRow, ScanTask
<1>4. ASSUME NEW tier \in Tiers, ScanCompletes(s, tier)
      PROVE  Parts'
  <2>1. /\ scanTask[s].at = "scanning" /\ Visible(s)
        /\ UNCHANGED <<deployQueue, request, desk, dispatched>>
        /\ \A t \in Scans \ {s} : /\ scanTask'[t] = scanTask[t]
                                  /\ scans'[t] = scans[t]
                                  /\ approvals'[t] = approvals[t]
        /\ scans'[s].status = "complete"
        /\ scans'[s].type = scans[s].type /\ scans'[s].tier = tier
    BY <1>4 DEF ScanCompletes, RouteAfterScan, ScanRow
  <2>2. CASE SkipsQueue(s, tier)
    <3>1. scanTask'[s].at = "approving" /\ UNCHANGED approvals
      BY <1>4, <2>2 DEF ScanCompletes, RouteAfterScan
    <3>2. QED
      BY <2>1, <2>2, <3>1
  <2>3. CASE ~SkipsQueue(s, tier)
    <3>1. /\ scanTask'[s].at = "done"
          /\ approvals[s].decision = "absent" /\ approvals'[s].decision = "pending"
      BY <1>4, <2>3 DEF ScanCompletes, RouteAfterScan, ApprovalRow
    <3>2. RequestOrder' /\ WorkIsCommitted'
      BY <2>1, <3>1
    <3>3. TaskOwnsApproval' /\ AutoApprovalOnlyGreenInitial'
      BY <2>1, <3>1
    <3>4. DeskOwnsApproval' /\ DispatchedOnlyApproved'
      BY <2>1, <3>1
    <3>5. QED
      BY <3>2, <3>3, <3>4
  <2>4. QED
    BY <2>2, <2>3
<1>5. CASE AutoApprove(s)
  BY <1>5 DEF AutoApprove, ScanTask
<1>6. CASE ScanDispatch(s)
  BY <1>6 DEF ScanDispatch, Enqueue, ScanTask
<1>7. CASE ScanWorkerDies(s)
  BY <1>7 DEF ScanWorkerDies, ScanTask
<1>8. QED
  BY <1>1, <1>2, <1>3, <1>4, <1>5, <1>6, <1>7 DEF ScanStep

\* A decide request writes the approval it has locked, and sends what it committed.
LEMMA DeskStepParts ==
  ASSUME IInv, NEW u \in Approvers, DeskStep(u)
  PROVE  Parts'
<1> USE TablesAssumption
    DEF IInv, TypeOK, TablesTypeOK, Parts, RequestOrder, WorkIsCommitted,
            TaskOwnsApproval, DeskOwnsApproval, DispatchedOnlyApproved,
            AutoApprovalOnlyGreenInitial, Visible, Holding, Approved, SkipsQueue,
            tables, IdleDesk
<1>1. ASSUME NEW s \in Scans, DeskOpen(u, s)
      PROVE  Parts'
  BY <1>1 DEF DeskOpen, Locked, Desk
<1>2. ASSUME NEW d \in {"approved", "rejected"}, DeskCommit(u, d)
      PROVE  Parts'
  BY <1>2 DEF DeskCommit, Desk
<1>3. CASE DeskDispatch(u)
  BY <1>3 DEF DeskDispatch, Enqueue, Desk
<1>4. CASE DeskDies(u)
  BY <1>4 DEF DeskDies, Desk
<1>5. QED
  BY <1>1, <1>2, <1>3, <1>4 DEF DeskStep

\* The deploy side takes, resends and writes a status, nothing else.
LEMMA DeploySideStepParts ==
  ASSUME IInv, DeploySideStep
  PROVE  Parts'
<1> USE DEF IInv, TypeOK, TablesTypeOK, Parts, RequestOrder, WorkIsCommitted,
            TaskOwnsApproval, DeskOwnsApproval, DispatchedOnlyApproved,
            AutoApprovalOnlyGreenInitial, Visible, Holding, Approved, SkipsQueue,
            reviewVars
<1>1. ASSUME NEW s \in Scans, DeploySideTakes(s)
      PROVE  Parts'
  BY <1>1 DEF DeploySideTakes
<1>2. ASSUME NEW s \in Scans, DeploySideSends(s)
      PROVE  Parts'
  BY <1>2 DEF DeploySideSends, Enqueue
<1>3. ASSUME NEW s \in Scans, NEW new, DeploySideWrites(s, new)
      PROVE  Parts'
  BY <1>3 DEF DeploySideWrites
<1>4. QED
  BY <1>1, <1>2, <1>3 DEF DeploySideStep

\* Every step keeps the inductive invariant: one case per actor.
LEMMA NextIInv == IInv /\ [Next]_vars => IInv'
<1> SUFFICES ASSUME IInv, [Next]_vars PROVE IInv'
  OBVIOUS
<1>1. ASSUME NEW s \in Scans, RequestStep(s) PROVE TypeOK' /\ Parts'
  BY <1>1, RequestStepType, RequestStepParts DEF IInv
<1>2. ASSUME NEW s \in Scans, ScanStep(s) PROVE TypeOK' /\ Parts'
  BY <1>2, ScanStepType, ScanStepParts DEF IInv
<1>3. ASSUME NEW u \in Approvers, DeskStep(u) PROVE TypeOK' /\ Parts'
  BY <1>3, DeskStepType, DeskStepParts DEF IInv
<1>4. ASSUME DeploySideStep PROVE TypeOK' /\ Parts'
  BY <1>4, DeploySideStepType, DeploySideStepParts DEF IInv
<1>5. ASSUME UNCHANGED vars PROVE TypeOK' /\ Parts'
  BY <1>5 DEF vars, IInv, TypeOK, TablesTypeOK, Parts, RequestOrder,
              WorkIsCommitted, TaskOwnsApproval, DeskOwnsApproval,
              DispatchedOnlyApproved, AutoApprovalOnlyGreenInitial, Visible,
              Holding, Approved, SkipsQueue
<1>6. TypeOK' /\ Parts'
  BY <1>1, <1>2, <1>3, <1>4, <1>5 DEF Next, ReviewStep
<1>7. QED
  BY <1>6 DEF IInv, Parts

\* In every reachable state requests, tasks, rows, approvals and open decisions
\* fit together as IInv says.
THEOREM InductiveInvariant == Spec => []IInv
<1>1. QED
  BY InitIInv, NextIInv, PTL DEF Spec

-----------------------------------------------------------------------------
(* The properties *)

\* Every variable keeps its type, and no task exceeds its retries.
THEOREM TypeCorrect == Spec => []TypeOK
<1>1. IInv => TypeOK
  BY DEF IInv
<1>2. QED
  BY <1>1, InductiveInvariant, PTL

\* Whatever the interleaving, crash or retry, a deploy message in the broker
\* names an approval that is committed as approved.
THEOREM OnlyApprovedIsDispatched == Spec => []DispatchedOnlyApproved
<1>1. IInv => DispatchedOnlyApproved
  BY DEF IInv
<1>2. QED
  BY <1>1, InductiveInvariant, PTL

\* An approval nobody signed is a green initial scan's.
THEOREM AutoApprovalIsJustified == Spec => []AutoApprovalOnlyGreenInitial
<1>1. IInv => AutoApprovalOnlyGreenInitial
  BY DEF IInv
<1>2. QED
  BY <1>1, InductiveInvariant, PTL

\* A step that touches a decided approval, or the tier of a decided scan.
LEMMA DecidedStep ==
  ASSUME IInv, [Next]_vars, NEW s \in Scans, Decided(s)
  PROVE  approvals'[s] = approvals[s] /\ scans'[s].tier = scans[s].tier
<1> USE DEF IInv, TypeOK, TablesTypeOK, Decided
<1>1. Visible(s) /\ request[s].at \in {"closed"}
  BY DEF WorkIsCommitted, RequestOrder, Visible, Request
<1>2. ASSUME NEW t \in Scans, RequestStep(t)
      PROVE  approvals' = approvals /\ scans'[s].tier = scans[s].tier
  <2>1. CASE UploadRead(t) \/ UploadRefused(t)
    BY <2>1 DEF UploadRead, UploadRefused, tables
  <2>2. CASE UploadSend(t) \/ TriggerSend(t)
    BY <1>1, <2>2 DEF UploadSend, TriggerSend, Send
  <2>3. CASE RequestCommit(t) \/ RequestDies(t)
    BY <1>1, <2>3 DEF RequestCommit, RequestDies, ScanRow
  <2>4. QED
    BY <1>2, <2>1, <2>2, <2>3 DEF RequestStep
<1>3. ASSUME NEW t \in Scans, ScanStep(t)
      PROVE  approvals'[s] = approvals[s] /\ scans'[s].tier = scans[s].tier
  <2>1. CASE \/ ScanMissing(t) \/ ScanConflict(t) \/ ScanRaises(t)
             \/ ScanWorkerDies(t)
    BY <2>1 DEF ScanMissing, ScanConflict, ScanRaises, ScanWorkerDies, tables
  <2>2. CASE ScanStart(t) \/ ScanArchiveFails(t)
    BY <2>2 DEF ScanStart, ScanArchiveFails, ScanRow
  <2>3. ASSUME NEW tier \in Tiers, ScanCompletes(t, tier)
        PROVE  approvals'[s] = approvals[s] /\ scans'[s].tier = scans[s].tier
    <3>1. CASE t # s
      BY <2>3, <3>1 DEF ScanCompletes, RouteAfterScan
    <3>2. CASE t = s
      <4>1. approvals' = approvals /\ tier = "green"
        BY <2>3, <3>2 DEF ScanCompletes, RouteAfterScan, SkipsQueue
      <4>2. Approved(s) /\ approvals[s].by = Nobody
        BY <2>3, <3>2 DEF ScanCompletes, TaskOwnsApproval
      <4>3. scans[s].tier = "green"
        BY <4>2 DEF AutoApprovalOnlyGreenInitial
      <4>4. scans'[s].tier = tier
        BY <2>3, <3>2 DEF ScanCompletes, ScanRow
      <4>5. QED
        BY <4>1, <4>3, <4>4
    <3>3. QED
      BY <3>1, <3>2
  <2>4. CASE AutoApprove(t) \/ ScanDispatch(t)
    BY <2>4 DEF AutoApprove, ScanDispatch
  <2>5. QED
    BY <1>3, <2>1, <2>2, <2>3, <2>4 DEF ScanStep
<1>4. ASSUME NEW u \in Approvers, DeskStep(u)
      PROVE  approvals'[s] = approvals[s] /\ scans'[s].tier = scans[s].tier
  <2>1. ASSUME NEW d \in {"approved", "rejected"}, DeskCommit(u, d)
        PROVE  approvals'[s] = approvals[s] /\ scans'[s].tier = scans[s].tier
    BY <2>1 DEF DeskCommit, DeskOwnsApproval
  <2>2. ASSUME NEW t \in Scans, DeskOpen(u, t)
        PROVE  approvals'[s] = approvals[s] /\ scans'[s].tier = scans[s].tier
    BY <2>2 DEF DeskOpen, tables
  <2>3. CASE DeskDispatch(u) \/ DeskDies(u)
    BY <2>3 DEF DeskDispatch, DeskDies, tables
  <2>4. QED
    BY <1>4, <2>1, <2>2, <2>3 DEF DeskStep
<1>5. CASE DeploySideStep
  BY <1>5 DEF DeploySideStep, DeploySideTakes, DeploySideSends, DeploySideWrites
<1>6. CASE UNCHANGED vars
  BY <1>6 DEF vars
<1>7. QED
  BY <1>2, <1>3, <1>4, <1>5, <1>6 DEF Next, ReviewStep

\* A decision stands: neither a second approver nor a rerun changes it.
THEOREM DecisionStands == Spec => DecisionIsFinal
<1>1. IInv /\ [Next]_vars =>
        [\A s \in Scans : Decided(s) => approvals'[s] = approvals[s]]_vars
  BY DecidedStep
<1>2. QED
  BY <1>1, InductiveInvariant, PTL DEF Spec, DecisionIsFinal

\* What was decided on stays what it was.
THEOREM DecidedTierStands == Spec => DecidedTierIsFinal
<1>1. IInv /\ [Next]_vars =>
        [\A s \in Scans : Decided(s) => scans'[s].tier = scans[s].tier]_vars
  BY DecidedStep
<1>2. QED
  BY <1>1, InductiveInvariant, PTL DEF Spec, DecidedTierIsFinal

-----------------------------------------------------------------------------
(* The inductive invariant behind what the statuses say *)

HasApproved(a) == \E t \in Scans : AppOf[t] = a /\ Approved(t)

\* An app that is shown as deployed, or was when a request loaded it, has an
\* approved scan, which is what LatestApproved finds for an update.
DeployedInv ==
    /\ \A a \in Apps : status[a] = "deployed" => HasApproved(a)
    /\ \A s \in Scans : request[s].seen = "deployed" => HasApproved(AppOf[s])
    /\ \A s \in Scans : approvals[s].at <= 1 + Cardinality(Scans)

\* The queue of an update is fixed by the run of its task that completes it.
QueueInv == \A s \in Scans : scans[s].expedited => scanTask[s].at = "done"

\* A scan that leaves the status "scanning" with its cause: a task that has not
\* begun, or gave up, or began when the status was "scanning" already, so that
\* its own verdict overwrites it.
Causes(s) ==
    /\ Visible(s)
    /\ scanTask[s].at \in {"queued", "scanning", "dead", "lost"}
    /\ scanTask[s].at = "scanning" => scanTask[s].seen = "scanning"

ScanningInv ==
    /\ \A s \in Scans : request[s].at = "sent" => scanTask[s].at \in {"queued", "dead"}
    /\ \A a \in Apps : status[a] = "scanning" => \E s \in Scans : AppOf[s] = a /\ Causes(s)

\* An undecided approval whose open desk, if there is one, has seen the status
\* "awaiting_approval" and so overwrites it.
Awaits(s) ==
    /\ approvals[s].decision = "pending"
    /\ \A u \in Approvers : desk[u].at = "deciding" /\ desk[u].scan = s =>
                               desk[u].seen = "awaiting_approval"

AwaitingInv ==
    \A a \in Apps : status[a] = "awaiting_approval" =>
        \E s \in Scans : AppOf[s] = a /\ Awaits(s)

StatusInv == DeployedInv /\ QueueInv /\ ExpeditedIsJustified /\ ScanningInv /\ AwaitingInv

\* The tables start without a status that needs a reason.
LEMMA InitStatus == ReviewInit => StatusInv
<1> SUFFICES ASSUME ReviewInit PROVE StatusInv
  OBVIOUS
<1> USE DEF ReviewInit, TablesInit
<1>1. /\ \A a \in Apps : status[a] = "pending_scan"
      /\ \A s \in Scans : /\ request[s].seen = "pending_scan" /\ request[s].at = "idle"
                          /\ scans[s].type = "initial" /\ ~scans[s].expedited
                          /\ approvals[s].at = 0
  BY DEF NoScanRow, NoApprovalRow
<1>2. DeployedInv
  BY <1>1, NowBound DEF DeployedInv
<1>3. QueueInv /\ ExpeditedIsJustified /\ ScanningInv /\ AwaitingInv
  BY <1>1 DEF QueueInv, ExpeditedIsJustified, ScanningInv, AwaitingInv
<1>4. QED
  BY <1>2, <1>3 DEF StatusInv

\* An approved scan stays approved.
LEMMA ApprovedStays ==
  ASSUME IInv, [Next]_vars
  PROVE  /\ \A s \in Scans : Approved(s) => Approved(s)' /\ scans'[s].tier = scans[s].tier
         /\ \A a \in Apps : HasApproved(a) => HasApproved(a)'
<1>1. \A s \in Scans : Approved(s) => Approved(s)' /\ scans'[s].tier = scans[s].tier
  BY DecidedStep DEF Decided, Approved
<1>2. QED
  BY <1>1 DEF HasApproved

\* Who changes the status of an app, and to what.
LEMMA StatusWrites ==
  ASSUME IInv, [Next]_vars, NEW a \in Apps, status'[a] # status[a]
  PROVE  \/ \E s \in Scans : /\ AppOf[s] = a /\ RequestCommit(s)
                             /\ status'[a] = "scanning"
         \/ \E s \in Scans : /\ AppOf[s] = a /\ ScanArchiveFails(s)
                             /\ status'[a] = IF scans[s].type = "update" THEN "deployed"
                                                                       ELSE "failed"
         \/ \E s \in Scans, tier \in Tiers :
               /\ AppOf[s] = a /\ ScanCompletes(s, tier)
               /\ status'[a] = IF tier = "green" THEN "approved" ELSE "awaiting_approval"
         \/ \E u \in Approvers, d \in {"approved", "rejected"} :
               /\ desk[u].scan \in Scans /\ AppOf[desk[u].scan] = a /\ DeskCommit(u, d)
               /\ status'[a] = StatusAfter(d, scans[desk[u].scan].type)
         \/ \E s \in dispatched : /\ s \in Scans /\ AppOf[s] = a
                                  /\ status'[a] \in {"deployed", "approved", "stopped"}
                                  /\ UNCHANGED <<scans, approvals, reviewVars>>
<1>1. status \in [Apps -> AppStatus] /\ dispatched \subseteq Scans
  BY DEF IInv, TypeOK, TablesTypeOK
<1>2. ASSUME NEW s \in Scans, RequestStep(s)
      PROVE  AppOf[s] = a /\ RequestCommit(s) /\ status'[a] = "scanning"
  <2>1. RequestCommit(s)
    BY <1>2 DEF RequestStep, UploadRead, UploadRefused, UploadSend, TriggerSend, Send,
                RequestDies, tables
  <2>2. QED
    BY <1>1, <2>1 DEF RequestCommit, Written
<1>3. ASSUME NEW s \in Scans, ScanStep(s)
      PROVE  \/ /\ AppOf[s] = a /\ ScanArchiveFails(s)
                /\ status'[a] = IF scans[s].type = "update" THEN "deployed" ELSE "failed"
             \/ \E tier \in Tiers :
                  /\ AppOf[s] = a /\ ScanCompletes(s, tier)
                  /\ status'[a] = IF tier = "green" THEN "approved" ELSE "awaiting_approval"
  <2>1. CASE ScanArchiveFails(s)
    BY <1>1, <2>1 DEF ScanArchiveFails, Written
  <2>2. CASE \E tier \in Tiers : ScanCompletes(s, tier)
    BY <1>1, <2>2 DEF ScanCompletes, Written
  <2>3. ScanArchiveFails(s) \/ \E tier \in Tiers : ScanCompletes(s, tier)
    BY <1>3 DEF ScanStep, ScanMissing, ScanStart, ScanConflict, AutoApprove, ScanDispatch,
                ScanRaises, ScanWorkerDies, tables
  <2>4. QED
    BY <2>1, <2>2, <2>3
<1>4. ASSUME NEW u \in Approvers, DeskStep(u)
      PROVE  \E d \in {"approved", "rejected"} :
               /\ desk[u].scan \in Scans /\ AppOf[desk[u].scan] = a /\ DeskCommit(u, d)
               /\ status'[a] = StatusAfter(d, scans[desk[u].scan].type)
  <2>1. PICK d \in {"approved", "rejected"} : DeskCommit(u, d)
    BY <1>4 DEF DeskStep, DeskOpen, DeskDispatch, DeskDies, tables
  <2>2. desk[u].scan \in Scans
    BY <2>1 DEF DeskCommit, IInv, DeskOwnsApproval
  <2>3. QED
    BY <1>1, <2>1, <2>2 DEF DeskCommit, Written
<1>5. ASSUME DeploySideStep
      PROVE  \E s \in dispatched : /\ s \in Scans /\ AppOf[s] = a
                                   /\ status'[a] \in {"deployed", "approved", "stopped"}
                                   /\ UNCHANGED <<scans, approvals, reviewVars>>
  BY <1>1, <1>5 DEF DeploySideStep, DeploySideTakes, DeploySideSends, DeploySideWrites
<1>6. status' = status \/ Next
  BY DEF vars
<1>7. QED
  BY <1>2, <1>3, <1>4, <1>5, <1>6 DEF Next, ReviewStep

\* A request keeps the status it loaded, or loads the one there is now; a
\* decision is stamped with the time it is taken.
LEMMA LoadsAndStamps ==
  ASSUME IInv, [Next]_vars, NEW s \in Scans
  PROVE  /\ request'[s].seen \in {request[s].seen, status[AppOf[s]]}
         /\ approvals'[s].at \in {approvals[s].at, Now}
<1>1. /\ request \in [Scans -> Request] /\ approvals \in [Scans -> ApprovalRow]
  BY DEF IInv, TypeOK, TablesTypeOK
<1>2. ASSUME NEW t \in Scans, RequestStep(t)
      PROVE  approvals' = approvals /\ request'[s].seen \in {request[s].seen, status[AppOf[s]]}
  <2>1. CASE UploadRead(t) \/ UploadRefused(t)
    BY <1>1, <2>1 DEF UploadRead, UploadRefused, tables, Request
  <2>2. CASE UploadSend(t) \/ TriggerSend(t)
    BY <1>1, <2>2 DEF UploadSend, TriggerSend, Send, Request
  <2>3. CASE RequestCommit(t) \/ RequestDies(t)
    BY <1>1, <2>3 DEF RequestCommit, RequestDies, Request
  <2>4. QED
    BY <1>2, <2>1, <2>2, <2>3 DEF RequestStep
<1>3. ASSUME NEW t \in Scans, ScanStep(t)
      PROVE  request' = request /\ approvals'[s].at \in {approvals[s].at, Now}
  <2>1. CASE \/ ScanMissing(t) \/ ScanStart(t) \/ ScanArchiveFails(t) \/ ScanConflict(t)
             \/ ScanDispatch(t) \/ ScanRaises(t) \/ ScanWorkerDies(t)
    BY <2>1 DEF ScanMissing, ScanStart, ScanArchiveFails, ScanConflict, ScanDispatch,
                ScanRaises, ScanWorkerDies, tables
  <2>2. CASE \E tier \in Tiers : ScanCompletes(t, tier)
    BY <1>1, <2>2 DEF ScanCompletes, RouteAfterScan, ApprovalRow
  <2>3. CASE AutoApprove(t)
    BY <1>1, <2>3 DEF AutoApprove
  <2>4. QED
    BY <1>3, <2>1, <2>2, <2>3 DEF ScanStep
<1>4. ASSUME NEW u \in Approvers, DeskStep(u)
      PROVE  request' = request /\ approvals'[s].at \in {approvals[s].at, Now}
  <2>1. CASE \E d \in {"approved", "rejected"} : DeskCommit(u, d)
    BY <1>1, <2>1 DEF DeskCommit
  <2>2. CASE (\E t \in Scans : DeskOpen(u, t)) \/ DeskDispatch(u) \/ DeskDies(u)
    BY <2>2 DEF DeskOpen, DeskDispatch, DeskDies, tables
  <2>3. QED
    BY <1>4, <2>1, <2>2 DEF DeskStep
<1>5. CASE DeploySideStep
  BY <1>5 DEF DeploySideStep, DeploySideTakes, DeploySideSends, DeploySideWrites, reviewVars
<1>6. CASE UNCHANGED vars
  BY <1>6 DEF vars
<1>7. QED
  BY <1>2, <1>3, <1>4, <1>5, <1>6 DEF Next, ReviewStep

LEMMA DeployedKeeps ==
  ASSUME IInv, StatusInv, [Next]_vars
  PROVE  DeployedInv'
<1>1. ASSUME NEW a \in Apps, status'[a] = "deployed" PROVE HasApproved(a)
  <2>1. CASE status[a] = "deployed"
    BY <2>1 DEF StatusInv, DeployedInv
  <2>2. ASSUME NEW s \in Scans, AppOf[s] = a, scans[s].type = "update" PROVE HasApproved(a)
    BY <2>2 DEF StatusInv, ExpeditedIsJustified, HasApproved, IInv, TypeOK, TablesTypeOK, ScanRow
  <2>3. ASSUME NEW s \in Scans, AppOf[s] = a, s \in dispatched PROVE HasApproved(a)
    BY <2>3 DEF IInv, DispatchedOnlyApproved, HasApproved
  <2>4. CASE status[a] # "deployed"
    BY <1>1, <2>2, <2>3, <2>4, StatusWrites DEF StatusAfter
  <2>5. QED
    BY <2>1, <2>4
<1>2. ASSUME NEW s \in Scans, request'[s].seen = "deployed" PROVE HasApproved(AppOf[s])
  <2>1. AppOf[s] \in Apps
    BY TablesAssumption
  <2>2. QED
    BY <1>2, <2>1, LoadsAndStamps DEF StatusInv, DeployedInv
<1>3. \A s \in Scans : approvals'[s].at <= 1 + Cardinality(Scans)
  BY LoadsAndStamps, NowBound DEF StatusInv, DeployedInv
<1>4. \A a \in Apps : HasApproved(a) => HasApproved(a)'
  BY ApprovedStays
<1>5. \A s \in Scans : HasApproved(AppOf[s]) => HasApproved(AppOf[s])'
  BY <1>4, TablesAssumption DEF HasApproved
<1>6. QED
  BY <1>1, <1>2, <1>3, <1>4, <1>5 DEF DeployedInv

\* What a step makes of a scan's row: nothing of its type, predecessor and queue
\* changes; the row appears, with an approved predecessor if it is an update's;
\* it goes again; or the task completes it.
LEMMA RowWrites ==
  ASSUME IInv, StatusInv, [Next]_vars, NEW s \in Scans
  PROVE  \/ /\ scans'[s].type = scans[s].type /\ scans'[s].prev = scans[s].prev
            /\ scans'[s].tier = scans[s].tier /\ scans'[s].expedited = scans[s].expedited
            /\ scanTask[s].at = "done" => scanTask'[s].at = "done"
         \/ scans'[s].type = "initial" /\ ~scans'[s].expedited
         \/ /\ scans'[s].type = "update" /\ ~scans'[s].expedited /\ HasApproved(AppOf[s])
            /\ scans'[s].prev = LatestApproved(AppOf[s])
         \/ \E tier \in Tiers :
               /\ ScanCompletes(s, tier)
               /\ scans'[s].type = scans[s].type /\ scans'[s].prev = scans[s].prev
               /\ scans'[s].tier = tier
               /\ scans'[s].expedited = (scans[s].expedited \/ Expedited(s, tier))
               /\ scans[s].type = "update" => scanTask'[s].at = "done"
<1>1. scans \in [Scans -> ScanRow] /\ scanTask \in [Scans -> ScanTask]
  BY DEF IInv, TypeOK, TablesTypeOK
<1> DEFINE Same == /\ scans'[s].type = scans[s].type /\ scans'[s].prev = scans[s].prev
                   /\ scans'[s].tier = scans[s].tier /\ scans'[s].expedited = scans[s].expedited
                   /\ scanTask[s].at = "done" => scanTask'[s].at = "done"
           Appears == \/ scans'[s].type = "initial" /\ ~scans'[s].expedited
                      \/ /\ scans'[s].type = "update" /\ ~scans'[s].expedited
                         /\ HasApproved(AppOf[s]) /\ scans'[s].prev = LatestApproved(AppOf[s])
<1>2. ASSUME NEW t \in Scans, RequestStep(t) PROVE Same \/ Appears
  <2>1. CASE UploadRead(t) \/ UploadRefused(t)
    BY <2>1 DEF UploadRead, UploadRefused, tables
  <2>2. CASE RequestCommit(t)
    BY <1>1, <2>2 DEF RequestCommit, ScanRow
  <2>3. CASE RequestDies(t)
    BY <1>1, <2>3 DEF RequestDies, NoScanRow
  <2>4. CASE (UploadSend(t) \/ TriggerSend(t)) /\ t # s
    BY <1>1, <2>4 DEF UploadSend, TriggerSend, Send
  <2>5. CASE TriggerSend(s)
    BY <1>1, <2>5 DEF TriggerSend, Send, NoScanRow
  <2>6. CASE UploadSend(s)
    <3>1. scans'[s] = UploadRow(s, request[s].seen)
      BY <1>1, <2>6 DEF UploadSend, Send
    <3>2. request[s].seen = "deployed" => HasApproved(AppOf[s])
      BY DEF StatusInv, DeployedInv
    <3>3. QED
      BY <3>1, <3>2 DEF UploadRow, NoScanRow
  <2>7. QED
    BY <1>2, <2>1, <2>2, <2>3, <2>4, <2>5, <2>6 DEF RequestStep
<1>3. ASSUME NEW t \in Scans, NEW tier \in Tiers, ScanCompletes(t, tier)
      PROVE  \/ Same
             \/ /\ t = s
                /\ scans'[s].type = scans[s].type /\ scans'[s].prev = scans[s].prev
                /\ scans'[s].tier = tier
                /\ scans'[s].expedited = (scans[s].expedited \/ Expedited(s, tier))
                /\ scans[s].type = "update" => scanTask'[s].at = "done"
  BY <1>1, <1>3 DEF ScanCompletes, ScanRow, ScanTask, SkipsQueue
<1>4. ASSUME NEW t \in Scans, ScanStep(t), ~\E tier \in Tiers : ScanCompletes(t, tier)
      PROVE  Same
  <2>1. CASE ScanMissing(t) \/ ScanConflict(t) \/ ScanRaises(t)
    <3>1. scans' = scans /\ Retry(t) /\ scanTask[t].at # "done"
      BY <2>1 DEF ScanMissing, ScanConflict, ScanRaises, Holding, tables
    <3>2. QED
      BY <1>1, <3>1, RetryType
  <2>2. CASE ScanStart(t) \/ ScanArchiveFails(t)
    <3>1. /\ scans'[s].type = scans[s].type /\ scans'[s].prev = scans[s].prev
          /\ scans'[s].tier = scans[s].tier /\ scans'[s].expedited = scans[s].expedited
      BY <1>1, <2>2 DEF ScanStart, ScanArchiveFails, ScanRow
    <3>2. scanTask[t].at # "done" /\ \A k \in Scans \ {t} : scanTask'[k] = scanTask[k]
      BY <1>1, <2>2 DEF ScanStart, ScanArchiveFails
    <3>3. QED
      BY <3>1, <3>2
  <2>3. CASE AutoApprove(t) \/ ScanDispatch(t) \/ ScanWorkerDies(t)
    BY <1>1, <2>3 DEF AutoApprove, ScanDispatch, ScanWorkerDies, Holding, tables, ScanTask
  <2>4. QED
    BY <1>4, <2>1, <2>2, <2>3 DEF ScanStep
<1>5. ASSUME NEW u \in Approvers, DeskStep(u) PROVE Same
  BY <1>5 DEF DeskStep, DeskOpen, DeskCommit, DeskDispatch, DeskDies, tables
<1>6. CASE DeploySideStep
  BY <1>6 DEF DeploySideStep, DeploySideTakes, DeploySideSends, DeploySideWrites, reviewVars
<1>7. CASE UNCHANGED vars
  BY <1>7 DEF vars
<1>8. QED
  BY <1>2, <1>3, <1>4, <1>5, <1>6, <1>7 DEF Next, ReviewStep

\* The predecessor of an update and the queue it was given stay justified: the
\* predecessor is approved, so its tier does not change any more.
LEMMA QueueKeeps ==
  ASSUME IInv, StatusInv, [Next]_vars
  PROVE  QueueInv' /\ ExpeditedIsJustified'
<1> DEFINE Justified(s) ==
      /\ scans'[s].type = "update" =>
           /\ scans'[s].prev \in Scans /\ AppOf[scans'[s].prev] = AppOf[s]
           /\ approvals'[scans'[s].prev].decision = "approved"
      /\ scans'[s].expedited =>
           /\ scans'[s].type = "update"
           /\ scans'[s].tier = "green" \/ scans'[scans'[s].prev].tier = "red"
              \/ scans'[s].tier = scans'[scans'[s].prev].tier
<1>1. \A t \in Scans : Approved(t) => approvals'[t].decision = "approved"
                                   /\ scans'[t].tier = scans[t].tier
  BY ApprovedStays DEF Approved
<1>2. ASSUME NEW s \in Scans
      PROVE  /\ scans'[s].expedited => scanTask'[s].at = "done"
             /\ Justified(s)
  <2>1. /\ scans[s].type = "update" =>
             /\ scans[s].prev \in Scans /\ AppOf[scans[s].prev] = AppOf[s]
             /\ Approved(scans[s].prev)
        /\ scans[s].expedited =>
             /\ scans[s].type = "update" /\ scanTask[s].at = "done"
             /\ scans[s].tier = "green" \/ scans[scans[s].prev].tier = "red"
                \/ scans[s].tier = scans[scans[s].prev].tier
    BY DEF StatusInv, QueueInv, ExpeditedIsJustified, IInv, TypeOK, TablesTypeOK, ScanRow
  <2>2. CASE /\ scans'[s].type = scans[s].type /\ scans'[s].prev = scans[s].prev
             /\ scans'[s].tier = scans[s].tier /\ scans'[s].expedited = scans[s].expedited
             /\ scanTask[s].at = "done" => scanTask'[s].at = "done"
    BY <1>1, <2>1, <2>2
  <2>3. CASE scans'[s].type = "initial" /\ ~scans'[s].expedited
    BY <2>3
  <2>4. CASE /\ scans'[s].type = "update" /\ ~scans'[s].expedited /\ HasApproved(AppOf[s])
             /\ scans'[s].prev = LatestApproved(AppOf[s])
    <3>1. AppOf[s] \in Apps /\ approvals \in [Scans -> ApprovalRow]
      BY TablesAssumption DEF IInv, TypeOK, TablesTypeOK
    <3>2. /\ 1 + Cardinality(Scans) \in Nat
          /\ \A t \in Scans : approvals[t].at <= 1 + Cardinality(Scans)
      BY NowBound DEF StatusInv, DeployedInv
    <3>3. /\ scans'[s].prev \in Scans /\ AppOf[scans'[s].prev] = AppOf[s]
          /\ Approved(LatestApproved(AppOf[s]))
      BY <2>4, <3>1, <3>2, LatestApprovedExists DEF HasApproved
    <3>4. QED
      BY <1>1, <2>4, <3>3
  <2>5. ASSUME NEW tier \in Tiers, ScanCompletes(s, tier),
               scans'[s].type = scans[s].type, scans'[s].prev = scans[s].prev,
               scans'[s].tier = tier,
               scans'[s].expedited = (scans[s].expedited \/ Expedited(s, tier)),
               scans[s].type = "update" => scanTask'[s].at = "done"
        PROVE  /\ scans'[s].expedited => scanTask'[s].at = "done"
               /\ Justified(s)
    <3>1. scanTask[s].at = "scanning"
      BY <2>5 DEF ScanCompletes
    <3>2. ~scans[s].expedited
      BY <2>1, <3>1
    <3>3. scans'[s].expedited =>
            /\ scans[s].type = "update"
            /\ tier = "green" \/ scans[scans[s].prev].tier = "red"
               \/ tier = scans[scans[s].prev].tier
      <4>1. scans[s].type = "update" => scans[scans[s].prev].tier \in Tiers \cup {"none"}
        BY <2>1 DEF IInv, TypeOK, TablesTypeOK, ScanRow
      <4>2. QED
        BY <2>5, <3>2, <4>1 DEF Expedited, SameOrLowerRisk, Tiers
    <3>4. QED
      BY <1>1, <2>1, <2>5, <3>3
  <2>6. QED
    BY <2>2, <2>3, <2>4, <2>5, RowWrites
<1>3. QueueInv'
  BY <1>2 DEF QueueInv
<1>4. ExpeditedIsJustified'
  BY <1>2, TablesAssumption DEF ExpeditedIsJustified, Approved
<1>5. QED
  BY <1>3, <1>4

\* The task of a scan is only sent while its request is at work, and waits or
\* gives up until the row is there.
LEMMA SentKeeps ==
  ASSUME IInv, StatusInv, [Next]_vars, NEW s \in Scans, request'[s].at = "sent"
  PROVE  scanTask'[s].at \in {"queued", "dead"}
<1>1. scanTask \in [Scans -> ScanTask] /\ request \in [Scans -> Request]
  BY DEF IInv, TypeOK
<1>2. request[s].at = "sent" => scanTask[s].at \in {"queued", "dead"} /\ ~Visible(s)
  BY DEF StatusInv, ScanningInv, IInv, RequestOrder, Visible
<1>3. ASSUME NEW t \in Scans, RequestStep(t)
      PROVE  scanTask'[s].at \in {"queued", "dead"}
  <2>1. CASE UploadSend(t) \/ TriggerSend(t)
    BY <1>1, <1>2, <2>1 DEF UploadSend, TriggerSend, Send, ScanTask
  <2>2. CASE UploadRead(t) \/ UploadRefused(t) \/ RequestCommit(t) \/ RequestDies(t)
    BY <1>1, <1>2, <2>2 DEF UploadRead, UploadRefused, RequestCommit, RequestDies, Request
  <2>3. QED
    BY <1>3, <2>1, <2>2 DEF RequestStep
<1>4. ASSUME NEW t \in Scans, ScanStep(t)
      PROVE  scanTask'[s].at \in {"queued", "dead"}
  <2>1. request' = request
    BY <1>4 DEF ScanStep, ScanMissing, ScanStart, ScanArchiveFails, ScanCompletes, ScanConflict,
                AutoApprove, ScanDispatch, ScanRaises, ScanWorkerDies
  <2>2. CASE t # s
    <3>1. scanTask'[s] = scanTask[s]
      BY <1>1, <1>4, <2>2, RetryType
         DEF ScanStep, ScanMissing, ScanStart, ScanArchiveFails, ScanCompletes, ScanConflict,
             AutoApprove, ScanDispatch, ScanRaises, ScanWorkerDies
    <3>2. QED
      BY <1>2, <2>1, <3>1
  <2>3. CASE t = s
    <3>1. ScanMissing(s)
      BY <1>2, <1>4, <2>1, <2>3
         DEF ScanStep, ScanStart, ScanArchiveFails, ScanCompletes, ScanConflict,
             AutoApprove, ScanDispatch, ScanRaises, ScanWorkerDies, Holding
    <3>2. QED
      BY <1>1, <3>1, RetryType DEF ScanMissing
  <2>4. QED
    BY <2>2, <2>3
<1>5. ASSUME NEW u \in Approvers, DeskStep(u) PROVE UNCHANGED <<request, scanTask>>
  BY <1>5 DEF DeskStep, DeskOpen, DeskCommit, DeskDispatch, DeskDies
<1>6. CASE UNCHANGED <<request, scanTask>>
  BY <1>2, <1>6
<1>7. CASE DeploySideStep \/ UNCHANGED vars
  BY <1>6, <1>7
     DEF DeploySideStep, DeploySideTakes, DeploySideSends, DeploySideWrites, reviewVars, vars
<1>8. QED
  BY <1>3, <1>4, <1>5, <1>6, <1>7 DEF Next, ReviewStep

\* As long as the status is "scanning", a scan that causes it goes on doing so.
LEMMA CauseStays ==
  ASSUME IInv, [Next]_vars, NEW s \in Scans, Causes(s),
         status[AppOf[s]] = "scanning", status'[AppOf[s]] = "scanning"
  PROVE  Causes(s)'
<1> DEFINE Stays == scans'[s].status = scans[s].status /\ scanTask'[s] = scanTask[s]
<1>1. /\ scans \in [Scans -> ScanRow] /\ scanTask \in [Scans -> ScanTask]
      /\ status \in [Apps -> AppStatus] /\ AppOf[s] \in Apps
  BY TablesAssumption DEF IInv, TypeOK, TablesTypeOK
<1>2. Stays => Causes(s)'
  BY DEF Causes, Visible
<1>3. ASSUME NEW t \in Scans, RequestStep(t) PROVE Stays
  <2>1. request[s].at \notin {"idle", "read", "sent"}
    BY DEF Causes, Visible, IInv, RequestOrder
  <2>2. t # s \/ UploadRead(t) \/ UploadRefused(t)
    BY <1>3, <2>1 DEF RequestStep, UploadSend, TriggerSend, RequestCommit, RequestDies
  <2>3. QED
    BY <1>1, <1>3, <2>2 DEF RequestStep, UploadRead, UploadRefused, UploadSend, TriggerSend, Send,
                            RequestCommit, RequestDies, tables
<1>4. ASSUME NEW t \in Scans, t # s, ScanStep(t) PROVE Stays
  <2>1. scanTask'[s] = scanTask[s]
    BY <1>1, <1>4, RetryType
       DEF ScanStep, ScanMissing, ScanStart, ScanArchiveFails, ScanCompletes, ScanConflict,
           AutoApprove, ScanDispatch, ScanRaises, ScanWorkerDies
  <2>2. scans'[s] = scans[s]
    BY <1>1, <1>4
       DEF ScanStep, ScanMissing, ScanStart, ScanArchiveFails, ScanCompletes, ScanConflict,
           AutoApprove, ScanDispatch, ScanRaises, ScanWorkerDies, tables
  <2>3. QED
    BY <2>1, <2>2
<1>5. ASSUME ScanStep(s) PROVE Causes(s)'
  <2>1. ~ScanArchiveFails(s)
    BY <1>1 DEF ScanArchiveFails, Causes, Written
  <2>2. ASSUME NEW tier \in Tiers PROVE ~ScanCompletes(s, tier)
    BY <1>1 DEF ScanCompletes, Causes, Written
  <2>3. CASE ScanStart(s)
    BY <1>1, <2>3 DEF ScanStart, Causes, Visible, ScanRow, ScanTask
  <2>4. CASE ScanConflict(s) \/ ScanRaises(s)
    <3>1. scanTask'[s].at \in {"queued", "dead"} /\ scans' = scans
      BY <1>1, <2>4, RetryType DEF ScanConflict, ScanRaises, tables
    <3>2. QED
      BY <3>1 DEF Causes, Visible
  <2>5. CASE ScanWorkerDies(s)
    BY <1>1, <2>5 DEF ScanWorkerDies, Causes, Visible, ScanTask, tables
  <2>6. QED
    BY <1>5, <2>1, <2>2, <2>3, <2>4, <2>5
       DEF ScanStep, ScanMissing, AutoApprove, ScanDispatch, Causes
<1>6. ASSUME NEW u \in Approvers, DeskStep(u) PROVE Stays
  BY <1>6 DEF DeskStep, DeskOpen, DeskCommit, DeskDispatch, DeskDies, tables
<1>7. CASE DeploySideStep \/ UNCHANGED vars
  BY <1>2, <1>7
     DEF DeploySideStep, DeploySideTakes, DeploySideSends, DeploySideWrites, reviewVars, vars
<1>8. QED
  BY <1>2, <1>3, <1>4, <1>5, <1>6, <1>7 DEF Next, ReviewStep

LEMMA ScanningKeeps ==
  ASSUME IInv, StatusInv, [Next]_vars
  PROVE  ScanningInv'
<1>1. \A s \in Scans : request'[s].at = "sent" => scanTask'[s].at \in {"queued", "dead"}
  BY SentKeeps
<1>2. ASSUME NEW a \in Apps, status'[a] = "scanning"
      PROVE  \E s \in Scans : AppOf[s] = a /\ Causes(s)'
  <2>1. CASE status[a] = "scanning"
    BY <1>2, <2>1, CauseStays DEF StatusInv, ScanningInv
  <2>2. CASE status[a] # "scanning"
    <3>1. PICK s \in Scans : AppOf[s] = a /\ RequestCommit(s)
      BY <1>2, <2>2, StatusWrites DEF StatusAfter
    <3>2. scanTask[s].at \in {"queued", "dead"} /\ scanTask' = scanTask
      BY <3>1 DEF RequestCommit, StatusInv, ScanningInv
    <3>3. scans'[s].status = "queued"
      BY <3>1 DEF RequestCommit, IInv, TypeOK, TablesTypeOK, ScanRow
    <3>4. Causes(s)'
      BY <3>2, <3>3 DEF Causes, Visible
    <3>5. QED
      BY <3>1, <3>4
  <2>3. QED
    BY <2>1, <2>2
<1>3. QED
  BY <1>1, <1>2 DEF ScanningInv

\* As long as the status is "awaiting_approval", an undecided approval remains.
LEMMA AwaitingStays ==
  ASSUME IInv, [Next]_vars, NEW s \in Scans, Awaits(s),
         status[AppOf[s]] = "awaiting_approval", status'[AppOf[s]] = "awaiting_approval"
  PROVE  Awaits(s)'
<1>1. /\ approvals \in [Scans -> ApprovalRow] /\ desk \in [Approvers -> Desk]
      /\ status \in [Apps -> AppStatus] /\ AppOf[s] \in Apps
  BY TablesAssumption DEF IInv, TypeOK, TablesTypeOK
<1>2. approvals'[s] = approvals[s] /\ desk' = desk => Awaits(s)'
  BY DEF Awaits
<1>3. ASSUME NEW t \in Scans, RequestStep(t) PROVE approvals' = approvals /\ desk' = desk
  BY <1>3 DEF RequestStep, UploadRead, UploadRefused, UploadSend, TriggerSend, Send,
              RequestCommit, RequestDies, tables
<1>4. ASSUME NEW t \in Scans, ScanStep(t) PROVE approvals'[s] = approvals[s] /\ desk' = desk
  BY <1>1, <1>4
     DEF ScanStep, ScanMissing, ScanStart, ScanArchiveFails, ScanCompletes, RouteAfterScan,
         ScanConflict, AutoApprove, ScanDispatch, ScanRaises, ScanWorkerDies, tables, Awaits
<1>5. ASSUME NEW u \in Approvers, DeskStep(u) PROVE Awaits(s)'
  <2>1. CASE \E t \in Scans : DeskOpen(u, t)
    BY <1>1, <2>1 DEF DeskOpen, Awaits, tables, Desk
  <2>2. ASSUME NEW d \in {"approved", "rejected"}, DeskCommit(u, d) PROVE Awaits(s)'
    <3>1. desk[u].scan # s
      BY <1>1, <2>2 DEF DeskCommit, Awaits, Written, StatusAfter
    <3>2. approvals'[s] = approvals[s]
      BY <1>1, <2>2, <3>1 DEF DeskCommit
    <3>3. /\ desk'[u].at # "deciding"
          /\ \A v \in Approvers \ {u} : desk'[v] = desk[v]
      BY <1>1, <2>2 DEF DeskCommit, IdleDesk, Desk
    <3>4. QED
      BY <3>2, <3>3 DEF Awaits
  <2>3. CASE DeskDispatch(u) \/ DeskDies(u)
    <3>1. approvals' = approvals
      BY <2>3 DEF DeskDispatch, DeskDies, tables
    <3>2. /\ desk'[u].at # "deciding"
          /\ \A v \in Approvers \ {u} : desk'[v] = desk[v]
      BY <1>1, <2>3 DEF DeskDispatch, DeskDies, IdleDesk
    <3>3. QED
      BY <3>1, <3>2 DEF Awaits
  <2>4. QED
    BY <1>5, <2>1, <2>2, <2>3 DEF DeskStep
<1>6. CASE DeploySideStep \/ UNCHANGED vars
  BY <1>2, <1>6
     DEF DeploySideStep, DeploySideTakes, DeploySideSends, DeploySideWrites, reviewVars, vars
<1>7. QED
  BY <1>2, <1>3, <1>4, <1>5, <1>6 DEF Next, ReviewStep

LEMMA AwaitingKeeps ==
  ASSUME IInv, StatusInv, [Next]_vars
  PROVE  AwaitingInv'
<1>1. ASSUME NEW a \in Apps, status'[a] = "awaiting_approval"
      PROVE  \E s \in Scans : AppOf[s] = a /\ Awaits(s)'
  <2>1. CASE status[a] = "awaiting_approval"
    BY <1>1, <2>1, AwaitingStays DEF StatusInv, AwaitingInv
  <2>2. CASE status[a] # "awaiting_approval"
    <3>1. PICK s \in Scans, tier \in Tiers :
             AppOf[s] = a /\ ScanCompletes(s, tier) /\ tier # "green"
      BY <1>1, <2>2, StatusWrites DEF StatusAfter
    <3>2. approvals[s].decision = "absent" /\ approvals'[s].decision = "pending" /\ desk' = desk
      BY <3>1 DEF ScanCompletes, RouteAfterScan, SkipsQueue, IInv, TypeOK, TablesTypeOK, ApprovalRow
    <3>3. \A u \in Approvers : desk[u].at = "deciding" => desk[u].scan # s
      BY <3>2 DEF IInv, DeskOwnsApproval
    <3>4. Awaits(s)'
      BY <3>2, <3>3 DEF Awaits
    <3>5. QED
      BY <3>1, <3>4
  <2>3. QED
    BY <2>1, <2>2
<1>2. QED
  BY <1>1 DEF AwaitingInv

\* In every reachable state each status has the reason StatusInv names.
THEOREM StatusInvariant == Spec => []StatusInv
<1>1. IInv /\ StatusInv /\ [Next]_vars => StatusInv'
  BY DeployedKeeps, QueueKeeps, ScanningKeeps, AwaitingKeeps DEF StatusInv
<1>2. QED
  BY <1>1, InitStatus, InductiveInvariant, PTL DEF Spec

\* Every update follows an approved scan of its app, however stale the status its
\* upload read, and only an update no riskier than it is expedited.
THEOREM ExpeditedIsFair == Spec => []ExpeditedIsJustified
<1>1. StatusInv => ExpeditedIsJustified
  BY DEF StatusInv
<1>2. QED
  BY <1>1, StatusInvariant, PTL

\* No interleaving leaves an app scanning without a scan that is at it, or that
\* was given up or lost.
THEOREM ScanningIsCaused == Spec => []ScanningHasCause
<1>1. StatusInv => ScanningHasCause
  BY DEF StatusInv, ScanningInv, ScanningHasCause, Causes
<1>2. QED
  BY <1>1, StatusInvariant, PTL

\* No interleaving leaves an app awaiting an approval nobody can give.
THEOREM AwaitingIsActionable == Spec => []AwaitingHasPending
<1>1. StatusInv => AwaitingHasPending
  BY DEF StatusInv, AwaitingInv, AwaitingHasPending, Awaits
<1>2. QED
  BY <1>1, StatusInvariant, PTL
=============================================================================
