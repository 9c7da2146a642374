------------------------------ MODULE GateKeeper ------------------------------
(***************************************************************************)
(* GatekeeperAI end to end: GateReview and GateDeploy over the same rows   *)
(* and the same broker.  Each takes the place of the other's environment:  *)
(* where GateReview lets the deploy side write at will, here GateDeploy's  *)
(* tasks and requests do, and GateDeploy's uploads and approvals are those *)
(* GateReview makes.                                                       *)
(***************************************************************************)
EXTENDS GateReview, GateDeploy

keeperVars == <<vars, deployVars>>

KeeperInit == ReviewInit /\ DeployLocalInit

KeeperNext ==
    \/ ReviewStep /\ UNCHANGED deployVars
    \/ DeployStep /\ UNCHANGED reviewVars

KeeperSpec == KeeperInit /\ [][KeeperNext]_keeperVars

-----------------------------------------------------------------------------
(* The abstract gate *)

verdictOf == [s \in Scans |->
    CASE approvals[s].decision = "approved" -> "granted"
      [] approvals[s].decision = "rejected" -> "refused"
      [] OTHER -> "open"]

liveIn == [a \in Apps |->
    {containers[c].scan : c \in {c \in Cids : Running(c) /\ containers[c].app = a}}]

Gate == INSTANCE ReleaseGate WITH verdict <- verdictOf, live <- liveIn

-----------------------------------------------------------------------------
(* Properties *)

\* The uploads, pipeline tasks, decisions, deploys and requests together keep
\* the promise of ReleaseGate.
KeepsTheGate == Gate!GateSpec

\* GateReview's environment is general enough for the deploy side there is:
\* what GateReview promises under it holds of the whole.
RefinesReview == Spec

\* Whatever runs, was approved, and by the time it runs the approval is still
\* the one the deploy was sent for.
LiveCodeIsApproved ==
    \A c \in Cids : Exists(c) => Approved(containers[c].scan)

-----------------------------------------------------------------------------
(* The inductive invariant behind the refinements *)

\* Whatever the deploy side has in hand came out of the broker, and the broker
\* only has what the review side dispatched.
OnlyDispatched ==
    /\ \A s \in Scans : deployQueue[s] > 0 => s \in dispatched
    /\ \A s \in Scans : \A n \in 1..MaxRetries : again[s][n] > 0 => s \in dispatched
    /\ \A w \in Workers : Busy(w) => jobs[w].scan \in dispatched
    /\ \A d \in Deployments : rows[d].status # "none" => rows[d].scan \in dispatched
    /\ \A c \in Cids : Exists(c) => containers[c].scan \in dispatched

KeeperInv == IInv /\ DeployInv /\ OnlyDispatched

=============================================================================
