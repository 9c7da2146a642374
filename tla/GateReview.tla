------------------------------ MODULE GateReview ------------------------------
(***************************************************************************)
(* From a new commit to a deploy message: the upload and trigger requests, *)
(* the scan pipeline task, and the approver's decision.  A step is what    *)
(* one process does between two points at which another process can run:   *)
(* an await, a commit, a broker call.  A transaction's writes to           *)
(* app_submissions take effect at its commit.                              *)
(*                                                                         *)
(* The deploy worker and the stop and start requests also write            *)
(* app_submissions.status.  Here they are an environment (DeploySide...);  *)
(* GateDeploy has their detail and GateKeeper composes the two.            *)
(***************************************************************************)
EXTENDS GateTables

CONSTANTS
    MaxFaults,     \* bound: crashes, broker and database errors in a behaviour
    SlowCommits    \* may a request's commit outlast the 30s retry delay?

ASSUME ReviewAssumption ==
    /\ MaxFaults \in Nat
    /\ SlowCommits \in BOOLEAN

VARIABLES
    request,     \* [Scans -> Request]: the upload or trigger request making a scan
    scanTask,    \* [Scans -> ScanTask]: run_scan_pipeline for that scan
    desk,        \* [Approvers -> Desk]: the approver's decide request
    faults,      \* faults so far
    dispatched   \* history: approvals handed to the broker at least once

reviewVars == <<request, scanTask, desk, faults, dispatched>>
vars == <<status, scans, approvals, deployQueue, request, scanTask, desk,
          faults, dispatched>>

-----------------------------------------------------------------------------
(* Types *)

\* seen is the app status the request's session loaded.
Request == [at: {"idle", "read", "sent", "closed"}, seen: AppStatus]

\* "dead": retries exhausted; "lost": the worker died holding the message,
\* which Celery acknowledged when it was delivered.
ScanTask == [at: {"none", "queued", "scanning", "approving", "dispatching",
                  "done", "dead", "lost"},
             tries: 0..MaxRetries, seen: AppStatus]

Desk == [at: {"idle", "deciding", "dispatching"}, scan: Scans \cup {NoScan},
         seen: AppStatus]

IdleDesk == [at |-> "idle", scan |-> NoScan, seen |-> "pending_scan"]

Holding(s) == scanTask[s].at \in {"scanning", "approving", "dispatching"}

Fault == faults < MaxFaults /\ faults' = faults + 1

-----------------------------------------------------------------------------
(* Upload and trigger requests *)

\* upload_zip loads the app row, then awaits push_zip_to_repo.
UploadRead(s) ==
    /\ request[s].at = "idle"
    /\ request' = [request EXCEPT ![s] = [at |-> "read", seen |-> status[AppOf[s]]]]
    /\ UNCHANGED <<tables, scanTask, desk, faults, dispatched>>

\* The archive is refused, git fails, or the broker does not take the message:
\* the request ends in an error response and its session rolls back.
UploadRefused(s) ==
    /\ request[s].at = "read"
    /\ request' = [request EXCEPT ![s].at = "closed"]
    /\ UNCHANGED <<tables, scanTask, desk, faults, dispatched>>

\* Insert and flush the scan, then put its task on the broker: before commit.
Send(s, seen, row) ==
    /\ scans' = [scans EXCEPT ![s] = row]
    /\ scanTask' = [scanTask EXCEPT ![s].at = "queued"]
    /\ request' = [request EXCEPT ![s] = [at |-> "sent", seen |-> seen]]
    /\ UNCHANGED <<status, approvals, deployQueue, desk, faults, dispatched>>

UploadRow(s, seen) ==
    IF seen = "deployed"
    THEN [NoScanRow EXCEPT !.status = "uncommitted", !.type = "update",
                           !.prev = LatestApproved(AppOf[s])]
    ELSE [NoScanRow EXCEPT !.status = "uncommitted"]

UploadSend(s) ==
    /\ request[s].at = "read"
    /\ Send(s, request[s].seen, UploadRow(s, request[s].seen))

\* The post-receive hook's request: no scan_type, so the column's "initial".
TriggerSend(s) ==
    /\ request[s].at = "idle"
    /\ Send(s, status[AppOf[s]], [NoScanRow EXCEPT !.status = "uncommitted"])

RequestCommit(s) ==
    /\ request[s].at = "sent"
    /\ scans' = [scans EXCEPT ![s].status = "queued"]
    /\ status' = [status EXCEPT ![AppOf[s]] =
                     Written(@, request[s].seen, "scanning")]
    /\ request' = [request EXCEPT ![s].at = "closed"]
    /\ UNCHANGED <<approvals, deployQueue, scanTask, desk, faults, dispatched>>

\* The commit fails or the API process dies: the row never becomes visible.
RequestDies(s) ==
    /\ request[s].at = "sent"
    /\ Fault
    /\ scans' = [scans EXCEPT ![s] = NoScanRow]
    /\ request' = [request EXCEPT ![s].at = "closed"]
    /\ UNCHANGED <<status, approvals, deployQueue, scanTask, desk, dispatched>>

-----------------------------------------------------------------------------
(* The scan pipeline task *)

\* Mutation: retries are not counted out.
RetryUnbounded(s) ==
    scanTask' = [scanTask EXCEPT ![s].at = "queued", ![s].tries = @ + 1]

\* self.retry: the message returns to the broker, or the task gives up.
Retry(s) ==
    IF scanTask[s].tries < MaxRetries
    THEN scanTask' = [scanTask EXCEPT ![s].at = "queued", ![s].tries = @ + 1]
    ELSE scanTask' = [scanTask EXCEPT ![s].at = "dead"]

\* Mutation: an unknown scan ends the task instead of retrying it.
ScanMissingGivesUp(s) ==
    /\ scanTask[s].at = "queued"
    /\ ~Visible(s)
    /\ scanTask' = [scanTask EXCEPT ![s].at = "dead"]
    /\ UNCHANGED <<tables, request, desk, faults, dispatched>>

\* db.get(Scan) finds no row: the request has not committed, or never will.
ScanMissing(s) ==
    /\ scanTask[s].at = "queued"
    /\ ~Visible(s)
    /\ scanTask[s].tries = 0 \/ request[s].at # "sent" \/ SlowCommits
    /\ Retry(s)
    /\ UNCHANGED <<tables, request, desk, faults, dispatched>>

ScanStart(s) ==
    /\ scanTask[s].at = "queued"
    /\ Visible(s)
    /\ scans' = [scans EXCEPT ![s].status = "running"]
    /\ scanTask' = [scanTask EXCEPT ![s].at = "scanning",
                                    ![s].seen = status[AppOf[s]]]
    /\ UNCHANGED <<status, approvals, deployQueue, request, desk, faults, dispatched>>

\* Mutation: _fail_scan leaves the submission alone.
ScanArchiveFailsQuietly(s) ==
    /\ scanTask[s].at = "scanning"
    /\ scans' = [scans EXCEPT ![s].status = "failed"]
    /\ scanTask' = [scanTask EXCEPT ![s].at = "done"]
    /\ UNCHANGED <<status, approvals, deployQueue, request, desk, faults, dispatched>>

\* git archive fails: _fail_scan.
ScanArchiveFails(s) ==
    /\ scanTask[s].at = "scanning"
    /\ scans' = [scans EXCEPT ![s].status = "failed"]
    /\ status' = [status EXCEPT ![AppOf[s]] =
                     Written(@, scanTask[s].seen,
                             IF scans[s].type = "update" THEN "deployed" ELSE "failed")]
    /\ scanTask' = [scanTask EXCEPT ![s].at = "done"]
    /\ UNCHANGED <<approvals, deployQueue, request, desk, faults, dispatched>>

\* Mutation: the arguments swapped.
SameOrHigherRisk(new, previous) ==
    /\ previous # "none"
    /\ \/ previous = "green"
       \/ previous = "yellow" /\ new # "green"
       \/ new = "red"

\* _is_same_or_lower_risk: an unknown tier never qualifies.
SameOrLowerRisk(new, previous) ==
    /\ previous # "none"
    /\ \/ new = "green"
       \/ new = "yellow" /\ previous # "green"
       \/ previous = "red"

Expedited(s, tier) ==
    /\ scans[s].type = "update"
    /\ scans[s].prev # NoScan
    /\ SameOrLowerRisk(tier, scans[scans[s].prev].tier)

\* Mutation: any green scan skips the queue.
SkipsQueueWhenGreen(s, tier) == tier = "green"

SkipsQueue(s, tier) == tier = "green" /\ scans[s].type = "initial"

\* Mutation: an existing approval is kept instead of refusing the second.
RouteKeepsExisting(s, tier) ==
    IF SkipsQueue(s, tier) \/ approvals[s].decision # "absent"
    THEN UNCHANGED approvals
    ELSE approvals' = [approvals EXCEPT ![s].decision = "pending"]

\* route_after_scan: a pending approval, except for a green initial scan.  The
\* UNIQUE constraint on scan_id refuses a second row.
RouteAfterScan(s, tier) ==
    IF SkipsQueue(s, tier)
    THEN UNCHANGED approvals
    ELSE /\ approvals[s].decision = "absent"
         /\ approvals' = [approvals EXCEPT ![s].decision = "pending"]

\* All scanners have answered: results, tier, new statuses and the routing
\* commit together.
ScanCompletes(s, tier) ==
    /\ scanTask[s].at = "scanning"
    /\ scans' = [scans EXCEPT ![s].status = "complete", ![s].tier = tier,
                              ![s].expedited = @ \/ Expedited(s, tier)]
    /\ status' = [status EXCEPT ![AppOf[s]] =
                     Written(@, scanTask[s].seen,
                             IF tier = "green" THEN "approved" ELSE "awaiting_approval")]
    /\ RouteAfterScan(s, tier)
    /\ scanTask' = [scanTask EXCEPT ![s].at =
                       IF SkipsQueue(s, tier) THEN "approving" ELSE "done"]
    /\ UNCHANGED <<deployQueue, request, desk, faults, dispatched>>

\* The approval row is there already: the transaction fails and the task retries.
ScanConflict(s) ==
    /\ \/ scanTask[s].at = "scanning" /\ scans[s].type = "initial"
       \/ scanTask[s].at = "approving"
    /\ approvals[s].decision # "absent"
    /\ Retry(s)
    /\ UNCHANGED <<tables, request, desk, faults, dispatched>>

\* A second transaction inserts the decided approval of a green initial scan.
AutoApprove(s) ==
    /\ scanTask[s].at = "approving"
    /\ approvals[s].decision = "absent"
    /\ approvals' = [approvals EXCEPT ![s] =
                        [decision |-> "approved", by |-> Nobody, at |-> Now]]
    /\ scanTask' = [scanTask EXCEPT ![s].at = "dispatching"]
    /\ UNCHANGED <<status, scans, deployQueue, request, desk, faults, dispatched>>

ScanDispatch(s) ==
    /\ scanTask[s].at = "dispatching"
    /\ Enqueue(s)
    /\ dispatched' = dispatched \cup {s}
    /\ scanTask' = [scanTask EXCEPT ![s].at = "done"]
    /\ UNCHANGED <<status, scans, approvals, request, desk, faults>>

\* A scanner, the database or the broker raises: the open transaction rolls
\* back and the task retries from its start.
ScanRaises(s) ==
    /\ Holding(s)
    /\ Fault
    /\ Retry(s)
    /\ UNCHANGED <<tables, request, desk, dispatched>>

\* The worker process dies: the message was acknowledged, nobody runs it again.
ScanWorkerDies(s) ==
    /\ Holding(s)
    /\ Fault
    /\ scanTask' = [scanTask EXCEPT ![s].at = "lost"]
    /\ UNCHANGED <<tables, request, desk, dispatched>>

-----------------------------------------------------------------------------
(* The decide request *)

Locked(s) == \E u \in Approvers : desk[u].at = "deciding" /\ desk[u].scan = s

\* Mutation: no row lock, two requests may both see decision NULL.
DeskOpenNoLock(u, s) ==
    /\ desk[u].at = "idle"
    /\ approvals[s].decision = "pending"
    /\ desk' = [desk EXCEPT ![u] = [at |-> "deciding", scan |-> s,
                                    seen |-> status[AppOf[s]]]]
    /\ UNCHANGED <<tables, request, scanTask, faults, dispatched>>

\* Mutation: no 409, a decided approval is decided again.
DeskOpenAgain(u, s) ==
    /\ desk[u].at = "idle"
    /\ ~Locked(s)
    /\ approvals[s].decision # "absent"
    /\ desk' = [desk EXCEPT ![u] = [at |-> "deciding", scan |-> s,
                                    seen |-> status[AppOf[s]]]]
    /\ UNCHANGED <<tables, request, scanTask, faults, dispatched>>

\* SELECT ... FOR UPDATE, the 409 for a decided approval, then the other rows.
DeskOpen(u, s) ==
    /\ desk[u].at = "idle"
    /\ ~Locked(s)
    /\ approvals[s].decision = "pending"
    /\ desk' = [desk EXCEPT ![u] = [at |-> "deciding", scan |-> s,
                                    seen |-> status[AppOf[s]]]]
    /\ UNCHANGED <<tables, request, scanTask, faults, dispatched>>

StatusAfter(decision, type) ==
    IF decision = "approved" THEN "approved"
    ELSE IF type = "update" THEN "deployed" ELSE "rejected"

\* Mutations: a rejection deploys too; a rejection leaves the status alone; an
\* approved update is not dispatched.
DeskCommitDeploysAll(u, decision) ==
    LET s == desk[u].scan IN
    /\ desk[u].at = "deciding"
    /\ approvals' = [approvals EXCEPT ![s] =
                        [decision |-> decision, by |-> u, at |-> Now]]
    /\ status' = [status EXCEPT ![AppOf[s]] =
                     Written(@, desk[u].seen, StatusAfter(decision, scans[s].type))]
    /\ desk' = [desk EXCEPT ![u].at = "dispatching"]
    /\ UNCHANGED <<scans, deployQueue, request, scanTask, faults, dispatched>>

DeskCommitKeepsStatus(u, decision) ==
    LET s == desk[u].scan IN
    /\ desk[u].at = "deciding"
    /\ approvals' = [approvals EXCEPT ![s] =
                        [decision |-> decision, by |-> u, at |-> Now]]
    /\ desk' = [desk EXCEPT ![u] = IF decision = "approved"
                                   THEN [@ EXCEPT !.at = "dispatching"]
                                   ELSE IdleDesk]
    /\ UNCHANGED <<status, scans, deployQueue, request, scanTask, faults, dispatched>>

DeskCommitForgets(u, decision) ==
    LET s == desk[u].scan IN
    /\ desk[u].at = "deciding"
    /\ approvals' = [approvals EXCEPT ![s] =
                        [decision |-> decision, by |-> u, at |-> Now]]
    /\ status' = [status EXCEPT ![AppOf[s]] =
                     Written(@, desk[u].seen, StatusAfter(decision, scans[s].type))]
    /\ desk' = [desk EXCEPT ![u] =
                   IF decision = "approved" /\ scans[s].type = "initial"
                   THEN [@ EXCEPT !.at = "dispatching"]
                   ELSE IdleDesk]
    /\ UNCHANGED <<scans, deployQueue, request, scanTask, faults, dispatched>>

\* process_decision and the commit, which releases the row lock.
DeskCommit(u, decision) ==
    LET s == desk[u].scan IN
    /\ desk[u].at = "deciding"
    /\ approvals' = [approvals EXCEPT ![s] =
                        [decision |-> decision, by |-> u, at |-> Now]]
    /\ status' = [status EXCEPT ![AppOf[s]] =
                     Written(@, desk[u].seen, StatusAfter(decision, scans[s].type))]
    /\ desk' = [desk EXCEPT ![u] = IF decision = "approved"
                                   THEN [@ EXCEPT !.at = "dispatching"]
                                   ELSE IdleDesk]
    /\ UNCHANGED <<scans, deployQueue, request, scanTask, faults, dispatched>>

DeskDispatch(u) ==
    /\ desk[u].at = "dispatching"
    /\ Enqueue(desk[u].scan)
    /\ dispatched' = dispatched \cup {desk[u].scan}
    /\ desk' = [desk EXCEPT ![u] = IdleDesk]
    /\ UNCHANGED <<status, scans, approvals, request, scanTask, faults>>

\* The request dies: before the commit it rolls back, after it the decision
\* stands and no message is sent.
DeskDies(u) ==
    /\ desk[u].at # "idle"
    /\ Fault
    /\ desk' = [desk EXCEPT ![u] = IdleDesk]
    /\ UNCHANGED <<tables, request, scanTask, dispatched>>

-----------------------------------------------------------------------------
(* The deploy side, as far as the review tables see it *)

\* The deploy worker is done with one message.
DeploySideTakes(s) ==
    /\ deployQueue[s] > 0
    /\ deployQueue' = [deployQueue EXCEPT ![s] = @ - 1]
    /\ UNCHANGED <<status, scans, approvals, reviewVars>>

\* restart_deployment sends the message of the deployed scan once more.
DeploySideSends(s) ==
    /\ s \in dispatched
    /\ deployQueue[s] < MaxQueued
    /\ Enqueue(s)
    /\ UNCHANGED <<status, scans, approvals, reviewVars>>

\* A deploy succeeded, failed, or the app was stopped or restarted.
DeploySideWrites(s, new) ==
    /\ s \in dispatched
    /\ status' = [status EXCEPT ![AppOf[s]] = new]
    /\ UNCHANGED <<scans, approvals, deployQueue, reviewVars>>

-----------------------------------------------------------------------------

RequestStep(s) == \/ UploadRead(s) \/ UploadRefused(s) \/ UploadSend(s)
                  \/ TriggerSend(s) \/ RequestCommit(s) \/ RequestDies(s)

ScanStep(s) == \/ ScanMissing(s) \/ ScanStart(s) \/ ScanArchiveFails(s)
               \/ \E tier \in Tiers : ScanCompletes(s, tier)
               \/ ScanConflict(s) \/ AutoApprove(s) \/ ScanDispatch(s)
               \/ ScanRaises(s) \/ ScanWorkerDies(s)

DeskStep(u) == \/ \E s \in Scans : DeskOpen(u, s)
               \/ \E d \in {"approved", "rejected"} : DeskCommit(u, d)
               \/ DeskDispatch(u)
               \/ DeskDies(u)

ReviewStep == \/ \E s \in Scans : RequestStep(s) \/ ScanStep(s)
              \/ \E u \in Approvers : DeskStep(u)

DeploySideStep == \E s \in Scans :
    \/ DeploySideTakes(s)
    \/ DeploySideSends(s)
    \/ \E new \in {"deployed", "approved", "stopped"} : DeploySideWrites(s, new)

ReviewInit ==
    /\ TablesInit
    /\ request = [s \in Scans |-> [at |-> "idle", seen |-> "pending_scan"]]
    /\ scanTask = [s \in Scans |-> [at |-> "none", tries |-> 0,
                                    seen |-> "pending_scan"]]
    /\ desk = [u \in Approvers |-> IdleDesk]
    /\ faults = 0
    /\ dispatched = {}

Next == ReviewStep \/ DeploySideStep

Spec == ReviewInit /\ [][Next]_vars
-----------------------------------------------------------------------------
(* Properties *)

\* Every variable stays within its type; in particular no task is retried
\* more than max_retries times (pipeline.py: max_retries=2).
TypeOK ==
    /\ TablesTypeOK
    /\ request \in [Scans -> Request]
    /\ scanTask \in [Scans -> ScanTask]
    /\ desk \in [Approvers -> Desk]
    /\ faults \in 0..MaxFaults
    /\ dispatched \subseteq Scans

\* The deploy worker never finds in the broker an approval that is not there
\* or not approved: decide_approval and the pipeline commit before .delay.
DispatchedOnlyApproved ==
    \A s \in Scans : deployQueue[s] > 0 \/ s \in dispatched => Approved(s)

\* A decision taken is never taken again or changed, by another approver or
\* by a rerun of the pipeline (SELECT FOR UPDATE and the 409; UNIQUE scan_id).
DecisionIsFinal ==
    [][\A s \in Scans : Decided(s) => approvals'[s] = approvals[s]]_vars

\* The tier a decision was based on is the tier the scan keeps: no retry of
\* the pipeline task rewrites it once the approval is decided.
DecidedTierIsFinal ==
    [][\A s \in Scans : Decided(s) => scans'[s].tier = scans[s].tier]_vars

\* An approval without an approver belongs to a scan that is green and
\* initial, whatever earlier runs of the same task computed.
AutoApprovalOnlyGreenInitial ==
    \A s \in Scans : Approved(s) /\ approvals[s].by = Nobody =>
        scans[s].tier = "green" /\ scans[s].type = "initial"

\* Every update has an approved scan of its app for predecessor, although the
\* app's status was read before the upload was pushed (the case route_after_scan
\* only warns about does not arise), and the four-hour queue is only for an
\* update that is no riskier, as the two tiers stand now.
ExpeditedIsJustified ==
    \A s \in Scans :
        LET prev == scans[s].prev IN
        /\ scans[s].type = "update" =>
             prev # NoScan /\ AppOf[prev] = AppOf[s] /\ Approved(prev)
        /\ scans[s].expedited =>
             /\ scans[s].type = "update"
             /\ scans[s].tier = "green" \/ scans[prev].tier = "red"
                \/ scans[s].tier = scans[prev].tier

\* An app shown as scanning has a scan in progress, or one whose task gave up
\* or was lost: no interleaving of requests, tasks and decisions with stale
\* sessions leaves the status behind.
ScanningHasCause ==
    \A a \in Apps : status[a] = "scanning" =>
        \E s \in Scans : /\ AppOf[s] = a
                         /\ scanTask[s].at \in {"queued", "scanning", "dead", "lost"}
                         /\ Visible(s)

\* An app shown as awaiting approval has an undecided approval to act on.
AwaitingHasPending ==
    \A a \in Apps : status[a] = "awaiting_approval" =>
        \E s \in Scans : AppOf[s] = a /\ approvals[s].decision = "pending"

-----------------------------------------------------------------------------
(* The inductive invariant behind the safety properties *)

\* A request sends the task before it commits the row, and only then.
RequestOrder ==
    \A s \in Scans :
        /\ request[s].at \in {"idle", "read"} =>
              scans[s].status = "absent" /\ scanTask[s].at = "none"
        /\ request[s].at = "sent" => scans[s].status = "uncommitted"

\* Work on a scan, and its approval, only exist once the row is committed.
WorkIsCommitted ==
    \A s \in Scans : ~Visible(s) => approvals[s].decision = "absent" /\ ~Holding(s)

\* While the pipeline task may still run, the only approval there can be is
\* the one the task itself granted.
TaskOwnsApproval ==
    \A s \in Scans :
        /\ scanTask[s].at = "approving" => SkipsQueue(s, scans[s].tier)
        /\ scanTask[s].at = "dispatching" => Approved(s)
        /\ approvals[s].decision # "absent"
              /\ scanTask[s].at \notin {"done", "dead", "lost"} =>
                 Approved(s) /\ approvals[s].by = Nobody

\* An open desk works on an undecided approval no other desk has open.
DeskOwnsApproval ==
    \A u \in Approvers :
        /\ desk[u].at # "idle" => desk[u].scan \in Scans
        /\ desk[u].at = "deciding" => approvals[desk[u].scan].decision = "pending"
        /\ desk[u].at = "dispatching" => Approved(desk[u].scan)
        /\ \A v \in Approvers \ {u} :
              desk[u].at = "deciding" /\ desk[v].at = "deciding" =>
                 desk[u].scan # desk[v].scan

IInv ==
    /\ TypeOK
    /\ RequestOrder
    /\ WorkIsCommitted
    /\ TaskOwnsApproval
    /\ DeskOwnsApproval
    /\ DispatchedOnlyApproved
    /\ AutoApprovalOnlyGreenInitial

-----------------------------------------------------------------------------
(* Liveness *)

\* uvicorn runs a handler it has started to its end, and the Celery workers
\* keep taking messages; uploads, decisions and the deploy side owe nothing,
\* but a decide request that has loaded its rows commits one of the decisions.
Fairness ==
    /\ \A s \in Scans :
        /\ WF_vars(UploadSend(s) \/ UploadRefused(s))
        /\ WF_vars(RequestCommit(s))
        /\ WF_vars(ScanStep(s))
    /\ \A u \in Approvers :
        /\ WF_vars(\E d \in {"approved", "rejected"} : DeskCommit(u, d))
        /\ WF_vars(DeskDispatch(u))

FairSpec == Spec /\ Fairness

\* With no crash, every committed scan reaches a verdict, although its task
\* may have been delivered before the row was committed.
ScanSettles ==
    \A s \in Scans :
        scans[s].status = "queued" ~> scans[s].status \in {"complete", "failed"}

\* With no crash, an approval that is granted reaches the deploy worker.
ApprovedIsDispatched == \A s \in Scans : Approved(s) ~> s \in dispatched

=============================================================================
