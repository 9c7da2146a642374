------------------------------ MODULE GateTables ------------------------------
(***************************************************************************)
(* The rows every GatekeeperAI process shares: app_submissions, scans and  *)
(* approvals in Postgres, and the deploy messages in the Celery broker.    *)
(* Processes are request handlers and worker tasks; each works on its own  *)
(* SQLAlchemy session, so a value it has loaded may be stale when used.    *)
(***************************************************************************)
EXTENDS Naturals, FiniteSets

CONSTANTS
    Apps,        \* submitted applications (app_submissions.id)
    Scans,       \* identifiers of the scans that may be created
    AppOf,       \* scans.submission_id, fixed when the identifier is used
    Approvers,   \* users with role approver or admin
    Nobody,      \* approvals.approver_id IS NULL
    NoScan,      \* scans.previous_scan_id IS NULL
    MaxRetries,  \* max_retries of the Celery tasks
    MaxQueued    \* bound: deploy messages of one approval waiting at a time

ASSUME TablesAssumption ==
    /\ AppOf \in [Scans -> Apps]
    /\ IsFiniteSet(Scans)
    /\ Nobody \notin Approvers
    /\ NoScan \notin Scans
    /\ MaxRetries \in Nat
    /\ MaxQueued \in Nat \ {0}

VARIABLES
    status,       \* [Apps -> AppStatus]: app_submissions.status
    scans,        \* [Scans -> ScanRow]
    approvals,    \* [Scans -> ApprovalRow]: one row per scan (scan_id is UNIQUE)
    deployQueue   \* [Scans -> Nat]: deploy_approved_app messages, by approval

tables == <<status, scans, approvals, deployQueue>>

-----------------------------------------------------------------------------
(* Types *)

AppStatus == {"pending_scan", "scanning", "awaiting_approval", "approved",
              "rejected", "deployed", "failed", "stopped"}

Tiers == {"green", "yellow", "red"}

\* "absent": no such row; "uncommitted": inserted by a transaction that has
\* not committed, so no other session can see it.
ScanStatus == {"absent", "uncommitted", "queued", "running", "complete", "failed"}

ScanRow == [status: ScanStatus, type: {"initial", "update"},
            prev: Scans \cup {NoScan}, tier: Tiers \cup {"none"},
            expedited: BOOLEAN]

NoScanRow == [status |-> "absent", type |-> "initial", prev |-> NoScan,
              tier |-> "none", expedited |-> FALSE]

\* decision "pending" is a row with decision NULL; at orders decided_at.
ApprovalRow == [decision: {"absent", "pending", "approved", "rejected"},
                by: Approvers \cup {Nobody}, at: Nat]

NoApprovalRow == [decision |-> "absent", by |-> Nobody, at |-> 0]

-----------------------------------------------------------------------------
(* Reading and writing rows *)

Visible(s) == scans[s].status \notin {"absent", "uncommitted"}

Approved(s) == approvals[s].decision = "approved"

Decided(s) == approvals[s].decision \in {"approved", "rejected"}

\* The value decided_at gets now: later than every decision already taken.
Now == 1 + Cardinality({s \in Scans : Decided(s)})

\* The scan whose approval was decided last among the approved ones of app a.
LatestApproved(a) ==
    LET approved == {s \in Scans : AppOf[s] = a /\ Approved(s)}
        latest == {s \in approved :
                      \A t \in approved : approvals[t].at <= approvals[s].at}
    IN  IF latest = {} THEN NoScan ELSE CHOOSE s \in latest : TRUE

\* What a column holds after a session that loaded `seen` assigned `new` and
\* committed: SQLAlchemy emits no UPDATE for an attribute whose value is the
\* loaded one, whatever other sessions have written meanwhile.
Written(current, seen, new) == IF seen = new THEN current ELSE new

Enqueue(s) == deployQueue' = [deployQueue EXCEPT ![s] = @ + 1]

TablesInit ==
    /\ status = [a \in Apps |-> "pending_scan"]
    /\ scans = [s \in Scans |-> NoScanRow]
    /\ approvals = [s \in Scans |-> NoApprovalRow]
    /\ deployQueue = [s \in Scans |-> 0]

TablesTypeOK ==
    /\ status \in [Apps -> AppStatus]
    /\ scans \in [Scans -> ScanRow]
    /\ approvals \in [Scans -> ApprovalRow]
    /\ deployQueue \in [Scans -> Nat]

=============================================================================
