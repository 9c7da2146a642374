--------------------------- MODULE GateClusterProofs ---------------------------
(***************************************************************************)
(* What GateCluster guarantees for any number of commits, tasks, callers,  *)
(* retries and faults.                                                     *)
(***************************************************************************)
EXTENDS GateCluster, TLAPS

-----------------------------------------------------------------------------
(* The inductive invariant *)

\* A Job builds the commit it is named by, and only one that is there is being
\* deleted.
JobsAreNamed ==
    \A n \in Commits :
        /\ jobs[n].state # "none" => jobs[n].builds = n
        /\ jobs[n].deleting => jobs[n].state # "none"

\* What has been built can be built.
JobsTellTheTruth ==
    /\ images \cap Unbuildable = {}
    /\ \A n \in Commits :
         /\ jobs[n].state = "succeeded" => n \in images
         /\ jobs[n].state = "failed" => n \in Unbuildable

\* A task deploys an approved commit, and past the poll its own image is there.
TasksHaveImages ==
    \A t \in Tasks :
        /\ tasks[t].at # "idle" => tasks[t].commit \in approved
        /\ tasks[t].at \in {"apply", "route", "ready"} => tasks[t].commit \in images

Asks(c, phases) == \E t \in Tasks : tasks[t].commit = c /\ tasks[t].at \in phases

\* While nothing failed, a commit without an image has a task that will see to
\* it: one that waits for the Job it has deleted, one that polls the Job there
\* is, or one that has yet to create it.
SeenTo(c) ==
    IF jobs[c].state = "none"
    THEN (\E t \in Tasks : tasks[t].commit = c) => Asks(c, {"sent", "build", "gone", "again"})
    ELSE IF jobs[c].deleting THEN Asks(c, {"gone"}) ELSE Asks(c, {"poll"})

SomeoneBuilds ==
    faults = 0 => \A c \in Commits \ (Unbuildable \cup images) : SeenTo(c)

BuildInv ==
    /\ ClusterTypeOK
    /\ JobsAreNamed /\ JobsTellTheTruth
    /\ TasksHaveImages /\ ImageIsBuilt
    /\ SomeoneBuilds

\* Only a Deployment has replicas.
OnlyDeployed == dep.replicas = 1 => dep.here

\* The rest is about calm behaviours.  One activity at a time, except for a
\* restart that has sent its task; reviews go on beside them.
OneActivity ==
    /\ \A t, u \in Tasks : Working(t) /\ Working(u) => t = u
    /\ \A c, d \in Callers : callers[c].at # "idle" /\ callers[d].at # "idle" => c = d
    /\ \A t \in Tasks, c \in Callers :
         Working(t) => callers[c].at \in {"idle", "restart"}

Begun(t) == tasks[t].at \notin {"idle", "sent", "done"}
Rolling(t) == tasks[t].at \in {"route", "ready"}
Replacing == \E t \in Tasks : Rolling(t)
Calls(phases) == \E c \in Callers : callers[c].at \in phases

\* A task that has begun knows what it will overwrite, but for statuses a review
\* has set, and what it has replaced is its own.
CalmTasks ==
    \A t \in Tasks :
        /\ Begun(t) =>
             /\ row.status \in {"building", "starting"} /\ row.image = tasks[t].had
             /\ tasks[t].seen.visibility = app.visibility
             /\ app.status = "stopped" => tasks[t].seen.status = "stopped"
        /\ Rolling(t) => dep = [here |-> TRUE, image |-> tasks[t].commit, replicas |-> 1]
        /\ tasks[t].at = "ready" => ingress = app.visibility

CalmCallers ==
    \A c \in Callers :
        /\ callers[c].at \in {"scale", "stop"} => ingress = "none"
        /\ callers[c].at = "stop" => dep.replicas = 0
        /\ callers[c].at = "poll" =>
             /\ callers[c].now = "running" => dep.replicas = 1
             /\ callers[c].now = "stopped" => dep.replicas = 0
        /\ callers[c].at = "show" => unshown \/ ingress = callers[c].visibility

\* A Deployment with a replica is the row's version, but for a task that is
\* replacing it, and has a route, but for a stop that has removed it.
CalmDeployment == ~Replacing /\ dep.replicas = 1 => dep.image = row.image

CalmRoute ==
    ~Replacing /\ ~Calls({"scale", "stop"}) /\ dep.replicas = 1 =>
        /\ ingress # "none"
        /\ ~Calls({"show"}) => unshown \/ ingress = app.visibility

\* The row's status tells whether there is a replica.
CalmRow ==
    /\ row.status = "running" /\ ~Calls({"stop"}) => dep.replicas = 1
    /\ row.status = "stopped" => dep.replicas = 0

\* While the app's status is the one a stop has left, nothing has come back.
CalmStopped ==
    app.status = "stopped" /\ ~Replacing => dep.replicas = 0 /\ ingress = "none"

CalmParts ==
    /\ OneActivity /\ CalmTasks /\ CalmCallers
    /\ CalmDeployment /\ CalmRoute /\ CalmRow /\ CalmStopped

CalmInv == OnlyDeployed /\ (~disturbed => CalmParts)

-----------------------------------------------------------------------------
(* Type correctness *)

LEMMA SetType ==
  ASSUME NEW now \in AppStatus, NEW seen, NEW new \in AppStatus
  PROVE  Set(now, seen, new) \in AppStatus
BY DEF Set

\* A fault stays within its bound.
LEMMA FaultType ==
  ASSUME faults \in 0..MaxFaults, Fault
  PROVE  faults' \in 0..MaxFaults /\ faults' # 0 /\ disturbed' = TRUE
BY ClusterAssumption DEF Fault

LEMMA StatusToType ==
  ASSUME ClusterTypeOK, NEW s \in AppStatus, StatusTo(s)
  PROVE  app' \in App
<1>1. app \in App /\ app.status \in AppStatus
  BY DEF ClusterTypeOK, App
<1>2. PICK seen : app' = [app EXCEPT !.status = Set(@, seen, s)]
  BY DEF StatusTo
<1>3. Set(app.status, seen, s) \in AppStatus
  BY <1>1, SetType
<1>4. QED
  BY <1>1, <1>2, <1>3 DEF App

\* A review keeps the types.
LEMMA ReviewType ==
  ASSUME ClusterTypeOK, NEW c \in Commits, Review(c)
  PROVE  ClusterTypeOK'
<1> USE ClusterAssumption DEF requests, cluster, histories
<1>1. scans \in [Commits -> Scan] /\ scans[c] \in Scan /\ app \in App
  BY DEF ClusterTypeOK
<1>2. Back(c) \in AppStatus /\ {"in_review", "approved"} \subseteq AppStatus
  BY DEF Back, AppStatus
<1>3. ASSUME NEW state \in {"queued", "review", "approved", "rejected"},
             scans' = [scans EXCEPT ![c].state = state]
      PROVE  scans' \in [Commits -> Scan]
  BY <1>1, <1>3 DEF Scan
<1>4. CASE Upload(c)
  <2>1. scans' \in [Commits -> Scan]
    BY <1>1, <1>4 DEF Upload, Scan
  <2>2. app' \in App
    BY <1>1, <1>2, <1>4 DEF Upload, App
  <2>3. QED
    BY <1>4, <2>1, <2>2 DEF Upload, ClusterTypeOK
<1>5. CASE Classify(c)
  <2>1. scans' \in [Commits -> Scan]
    BY <1>1, <1>5 DEF Classify, Scan
  <2>2. app' \in App
    BY <1>2, <1>5, StatusToType DEF Classify
  <2>3. QED
    BY <1>5, <2>1, <2>2 DEF Classify, ClusterTypeOK
<1>6. CASE ScanFails(c)
  BY <1>2, <1>6, StatusToType DEF ScanFails, ClusterTypeOK
<1>7. CASE Reject(c)
  <2>1. scans' \in [Commits -> Scan]
    BY <1>3, <1>7 DEF Reject
  <2>2. app' \in App
    BY <1>2, <1>7, StatusToType DEF Reject
  <2>3. QED
    BY <1>7, <2>1, <2>2 DEF Reject, ClusterTypeOK
<1>8. ASSUME NEW t \in Tasks, Approve(t, c)
      PROVE  ClusterTypeOK'
  <2>1. tasks' \in [Tasks -> Task]
    <3>1. tasks[t] \in Task /\ tasks \in [Tasks -> Task]
      BY DEF ClusterTypeOK
    <3>2. QED
      BY <1>8, <3>1 DEF Approve, Task
  <2>2. disturbed' \in BOOLEAN
    BY <1>8 DEF Approve, Starts, Busy, ClusterTypeOK
  <2>3. scans' \in [Commits -> Scan]
    BY <1>3, <1>8 DEF Approve
  <2>4. app' \in App
    BY <1>2, <1>8, StatusToType DEF Approve
  <2>5. QED
    BY <1>8, <2>1, <2>2, <2>3, <2>4 DEF Approve, ClusterTypeOK
<1>9. QED
  BY <1>4, <1>5, <1>6, <1>7, <1>8 DEF Review

\* A step of a task keeps the types.
LEMMA TaskStepType ==
  ASSUME BuildInv, NEW t \in Tasks, TaskStep(t)
  PROVE  ClusterTypeOK'
<1> USE ClusterAssumption DEF requests, cluster, histories
<1>1. ClusterTypeOK
  BY DEF BuildInv
<1>2. tasks[t] \in Task
  BY <1>1 DEF ClusterTypeOK
<1>3. ASSUME NEW phase \in {"poll", "stale", "gone", "again", "failing", "apply", "route", "ready", "done"},
             TaskTo(t, phase)
      PROVE  tasks' \in [Tasks -> Task]
  BY <1>1, <1>2, <1>3 DEF TaskTo, ClusterTypeOK, Task
<1>4. ASSUME Created(t)
      PROVE  jobs' \in [Commits -> Job]
  BY <1>1, <1>2, <1>4 DEF Created, ClusterTypeOK, Task, Job
<1>5. CASE Begin(t)
  <2>1. tasks' \in [Tasks -> Task]
    BY <1>1, <1>2, <1>5 DEF Begin, ClusterTypeOK, Task, Row
  <2>2. row' \in Row
    BY <1>1, <1>2, <1>5 DEF Begin, ClusterTypeOK, Row, RowStatus, Task
  <2>3. QED
    BY <1>1, <1>5, <2>1, <2>2 DEF Begin, ClusterTypeOK
<1>6. CASE CreateJob(t)
  BY <1>1, <1>3, <1>4, <1>6 DEF CreateJob, ClusterTypeOK
<1>15. CASE DeleteStale(t)
  <2>1. jobs' \in [Commits -> Job]
    <3>1. \A job \in Job : [job EXCEPT !.deleting = TRUE] \in Job
      BY DEF Job
    <3>2. QED
      BY <1>1, <1>15, <3>1 DEF DeleteStale, ClusterTypeOK
  <2>2. tasks' \in [Tasks -> Task]
    BY <1>3, <1>15 DEF DeleteStale
  <2>3. QED
    BY <1>1, <1>15, <2>1, <2>2 DEF DeleteStale, ClusterTypeOK
<1>7. CASE JobIsGone(t)
  BY <1>1, <1>3, <1>7 DEF JobIsGone, ClusterTypeOK
<1>8. CASE CreateAgain(t)
  <2>1. jobs' \in [Commits -> Job]
    BY <1>1, <1>4, <1>8 DEF CreateAgain, ClusterTypeOK
  <2>2. tasks' \in [Tasks -> Task]
    BY <1>3, <1>8 DEF CreateAgain
  <2>3. QED
    BY <1>1, <1>8, <2>1, <2>2 DEF CreateAgain, ClusterTypeOK
<1>9. CASE PollJob(t)
  BY <1>1, <1>3, <1>9 DEF PollJob, ClusterTypeOK
<1>10. CASE Apply(t)
  BY <1>1, <1>2, <1>3, <1>10 DEF Apply, ClusterTypeOK, Task
<1>11. CASE Route(t)
  BY <1>1, <1>2, <1>3, <1>11 DEF Route, ClusterTypeOK, Task, App
<1>12. CASE Finish(t)
  <2>1. row' \in Row
    <3>1. Set(row.image, tasks[t].had, tasks[t].commit) \in Commits \cup {NoCommit}
      BY <1>1, <1>2 DEF Set, ClusterTypeOK, Row, Task
    <3>2. QED
      BY <1>1, <1>12, <3>1 DEF Finish, ClusterTypeOK, Row, RowStatus
  <2>2. app.status \in AppStatus /\ "deployed" \in AppStatus
    BY <1>1 DEF ClusterTypeOK, App, AppStatus
  <2>3. app' \in App
    BY <1>1, <1>12, <2>2, SetType DEF Finish, ClusterTypeOK, App
  <2>4. QED
    BY <1>1, <1>3, <1>12, <2>1, <2>3 DEF Finish, ClusterTypeOK
<1>13. CASE Fail(t)
  <2> DEFINE new == IF scans[tasks[t].commit].type = "initial" THEN "approved" ELSE "deployed"
  <2>1. row' \in Row
    BY <1>1, <1>13 DEF Fail, ClusterTypeOK, Row, RowStatus
  <2>2. app.status \in AppStatus /\ new \in AppStatus
    BY <1>1 DEF ClusterTypeOK, App, AppStatus
  <2>3. app' \in App
    BY <1>1, <1>13, <2>2, SetType DEF Fail, ClusterTypeOK, App
  <2>4. QED
    BY <1>1, <1>3, <1>13, <2>1, <2>3 DEF Fail, ClusterTypeOK
<1>14. QED
  BY <1>5, <1>6, <1>7, <1>8, <1>9, <1>10, <1>11, <1>12, <1>13, <1>15 DEF TaskStep

\* So do its faults.
LEMMA TaskFaultType ==
  ASSUME BuildInv, NEW t \in Tasks, TaskFault(t)
  PROVE  ClusterTypeOK'
<1> USE ClusterAssumption DEF requests, cluster, histories
<1>1. ClusterTypeOK
  BY DEF BuildInv
<1>2. tasks[t] \in Task
  BY <1>1 DEF ClusterTypeOK
<1>3. ASSUME NEW phase \in {"failing", "ready", "done"}, TaskTo(t, phase)
      PROVE  tasks' \in [Tasks -> Task]
  BY <1>1, <1>2, <1>3 DEF TaskTo, ClusterTypeOK, Task
<1>4. Fault => faults' \in 0..MaxFaults /\ disturbed' \in BOOLEAN
  BY <1>1, FaultType DEF ClusterTypeOK
<1>5. CASE BuildFails(t)
  BY <1>1, <1>3, <1>4, <1>5 DEF BuildFails, ClusterTypeOK
<1>6. CASE RouteFails(t)
  BY <1>1, <1>3, <1>4, <1>6 DEF RouteFails, ClusterTypeOK
<1>7. CASE SendAgain(t)
  <2>1. tasks' \in [Tasks -> Task]
    <3>1. CASE tasks[t].tries < MaxRetries
      <4>1. tasks[t].tries + 1 \in 0..MaxRetries
        BY <1>2, <3>1 DEF Task
      <4>2. [tasks[t] EXCEPT !.at = "sent", !.tries = tasks[t].tries + 1] \in Task
        BY <1>2, <4>1 DEF Task
      <4>3. QED
        BY <1>1, <1>7, <3>1, <4>2 DEF SendAgain, ClusterTypeOK
    <3>2. CASE ~(tasks[t].tries < MaxRetries)
      BY <1>1, <1>2, <1>7, <3>2 DEF SendAgain, ClusterTypeOK, Task
    <3>3. QED
      BY <3>1, <3>2
  <2>2. QED
    BY <1>1, <1>4, <1>7, <2>1 DEF SendAgain, ClusterTypeOK
<1>8. CASE Crash(t)
  BY <1>1, <1>3, <1>4, <1>8 DEF Crash, ClusterTypeOK
<1>9. QED
  BY <1>5, <1>6, <1>7, <1>8 DEF TaskFault

\* Requests keep the types.
LEMMA CallerStepType ==
  ASSUME BuildInv, NEW c \in Callers, CallerStep(c)
  PROVE  ClusterTypeOK'
<1> USE ClusterAssumption DEF requests, cluster, histories
<1>1. ClusterTypeOK
  BY DEF BuildInv
<1>2. callers[c] \in Caller /\ app.status \in AppStatus /\ row.status \in RowStatus
  BY <1>1 DEF ClusterTypeOK, App, Row
<1>3. ASSUME NEW phase \in {"idle", "scale", "stop"}, CallerTo(c, phase)
      PROVE  callers' \in [Callers -> Caller]
  BY <1>1, <1>2, <1>3 DEF CallerTo, ClusterTypeOK, Caller
<1>4. ASSUME NEW caller \in Caller, Call(c, caller)
      PROVE  callers' \in [Callers -> Caller] /\ calls' \in 0..MaxCalls
  BY <1>1, <1>4 DEF Call, ClusterTypeOK
<1>5. Starts => disturbed' \in BOOLEAN
  BY <1>1 DEF Starts, Busy, ClusterTypeOK
<1>6. IdleCaller \in Caller
  BY DEF IdleCaller, Caller, AppStatus, RowStatus, Visibilities
<1>7. CASE StopRead(c)
  <2>1. [IdleCaller EXCEPT !.at = "unroute", !.seen = app.status] \in Caller
    BY <1>2, <1>6 DEF Caller
  <2>2. QED
    BY <1>1, <1>4, <1>5, <1>7, <2>1 DEF StopRead, ClusterTypeOK
<1>8. CASE StopRoute(c)
  BY <1>1, <1>3, <1>8 DEF StopRoute, ClusterTypeOK
<1>9. CASE StopScale(c)
  BY <1>1, <1>3, <1>9 DEF StopScale, ClusterTypeOK
<1>10. CASE StopCommit(c)
  <2>1. row' \in Row
    BY <1>1, <1>10 DEF StopCommit, ClusterTypeOK, Row, RowStatus
  <2>2. app' \in App
    BY <1>1, <1>2, <1>10, SetType DEF StopCommit, ClusterTypeOK, App, AppStatus
  <2>3. QED
    BY <1>1, <1>3, <1>10, <2>1, <2>2 DEF StopCommit, ClusterTypeOK
<1>11. CASE RestartCommit(c)
  <2>1. Set(row.status, callers[c].was, "starting") \in RowStatus
    BY <1>2 DEF Set, RowStatus
  <2>2. row' \in Row
    BY <1>1, <1>11, <2>1 DEF RestartCommit, ClusterTypeOK, Row
  <2>3. app' \in App
    BY <1>1, <1>2, <1>11, SetType DEF RestartCommit, ClusterTypeOK, App, AppStatus
  <2>4. QED
    BY <1>1, <1>3, <1>11, <2>2, <2>3 DEF RestartCommit, ClusterTypeOK
<1>12. CASE PollRead(c)
  <2>1. LiveStatus \in RowStatus
    BY DEF LiveStatus, RowStatus
  <2>2. [IdleCaller EXCEPT !.at = "poll", !.was = row.status, !.now = LiveStatus] \in Caller
    BY <1>2, <1>6, <2>1 DEF Caller
  <2>3. disturbed' \in BOOLEAN
    BY <1>1, <1>12 DEF PollRead, Busy, Settled, ClusterTypeOK
  <2>4. QED
    BY <1>1, <1>4, <1>12, <2>2, <2>3 DEF PollRead, ClusterTypeOK
<1>13. CASE PollCommit(c)
  <2>1. row' \in Row
    BY <1>1, <1>2, <1>13 DEF PollCommit, ClusterTypeOK, Row, Caller
  <2>2. QED
    BY <1>1, <1>3, <1>13, <2>1 DEF PollCommit, ClusterTypeOK
<1>14. CASE ShowCommit(c)
  <2>1. app' \in App
    BY <1>1, <1>2, <1>14 DEF ShowCommit, ClusterTypeOK, App, Caller
  <2>2. QED
    BY <1>1, <1>3, <1>14, <2>1 DEF ShowCommit, ClusterTypeOK
<1>15. CASE CallFails(c)
  BY <1>1, <1>3, <1>15, FaultType DEF CallFails, ClusterTypeOK
<1>16. ASSUME NEW t \in Tasks, RestartSend(c, t)
       PROVE  ClusterTypeOK'
  <2>1. [IdleCaller EXCEPT !.at = "restart", !.seen = app.status, !.was = row.status] \in Caller
    BY <1>2, <1>6 DEF Caller
  <2>2. tasks[t] \in Task /\ row.commit \in Commits \cup {NoCommit}
    BY <1>1 DEF ClusterTypeOK, Row
  <2>3. tasks' \in [Tasks -> Task]
    BY <1>1, <1>16, <2>2 DEF RestartSend, ClusterTypeOK, Task
  <2>4. QED
    BY <1>1, <1>4, <1>5, <1>16, <2>1, <2>3 DEF RestartSend, ClusterTypeOK
<1>17. ASSUME NEW v \in Visibilities, ShowFlush(c, v)
       PROVE  ClusterTypeOK'
  <2>1. [IdleCaller EXCEPT !.at = "show", !.visibility = v] \in Caller
    BY <1>6 DEF Caller
  <2>2. unshown' \in BOOLEAN /\ ingress' \in Visibilities \cup {"none"}
    BY <1>1, <1>17 DEF ShowFlush, Shows, ClusterTypeOK
  <2>3. QED
    BY <1>1, <1>4, <1>5, <1>17, <2>1, <2>2 DEF ShowFlush, ClusterTypeOK
<1>18. QED
  BY <1>7, <1>8, <1>9, <1>10, <1>11, <1>12, <1>13, <1>14, <1>15, <1>16, <1>17
  DEF CallerStep

\* And so does the cluster.
LEMMA ClusterStepType ==
  ASSUME BuildInv, NEW n \in Commits, JobEnds(n) \/ JobGoes(n) \/ PodMoves(n)
  PROVE  ClusterTypeOK'
<1> USE ClusterAssumption DEF requests, cluster, histories
<1>1. ClusterTypeOK
  BY DEF BuildInv
<1>2. CASE JobEnds(n)
  <2>1. jobs[n].builds = n
    BY <1>2 DEF JobEnds, BuildInv, JobsAreNamed
  <2>2. jobs' \in [Commits -> Job]
    BY <1>1, <1>2 DEF JobEnds, ClusterTypeOK, Job
  <2>3. images' \subseteq Commits
    BY <1>1, <1>2, <2>1 DEF JobEnds, ClusterTypeOK
  <2>4. QED
    BY <1>1, <1>2, <2>2, <2>3 DEF JobEnds, ClusterTypeOK
<1>3. CASE JobGoes(n)
  <2>1. NoJob \in Job
    BY DEF NoJob, Job
  <2>2. QED
    BY <1>1, <1>3, <2>1 DEF JobGoes, ClusterTypeOK
<1>4. CASE PodMoves(n)
  BY <1>1, <1>4 DEF PodMoves, ClusterTypeOK
<1>5. QED
  BY <1>2, <1>3, <1>4

LEMMA InitType == ClusterInit => ClusterTypeOK
<1> SUFFICES ASSUME ClusterInit PROVE ClusterTypeOK
  OBVIOUS
<1> USE ClusterAssumption DEF ClusterInit
<1>1. row \in Row /\ app \in App
  BY DEF Row, RowStatus, App, AppStatus, Visibilities
<1>2. /\ IdleTask \in Task
      /\ IdleCaller \in Caller
      /\ NoJob \in Job
  BY DEF App, AppStatus, RowStatus, Visibilities, IdleTask, Task, IdleCaller, Caller, NoJob, Job
<1>3. tasks \in [Tasks -> Task] /\ callers \in [Callers -> Caller] /\ jobs \in [Commits -> Job]
  BY <1>2
<1>4. calls \in 0..MaxCalls /\ faults \in 0..MaxFaults
  OBVIOUS
<1>5. /\ images \subseteq Commits /\ ingress \in Visibilities \cup {"none"}
      /\ disturbed \in BOOLEAN /\ unshown \in BOOLEAN
  OBVIOUS
<1>8. scans \in [Commits -> Scan]
  BY DEF Scan
<1>6. /\ dep \in [here: BOOLEAN, image: Commits \cup {NoCommit}, replicas: 0..1]
      /\ pods \in [Commits -> {"none", "starting", "ready"}]
  OBVIOUS
<1>7. QED
  BY <1>1, <1>3, <1>4, <1>5, <1>6, <1>8 DEF ClusterTypeOK

LEMMA TypeStep ==
  ASSUME BuildInv, [ClusterNext]_clusterVars
  PROVE  ClusterTypeOK'
<1>1. CASE ClusterNext
  BY <1>1, ReviewType, TaskStepType, TaskFaultType, CallerStepType, ClusterStepType
  DEF ClusterNext, BuildInv
<1>2. CASE UNCHANGED clusterVars
  BY <1>2 DEF clusterVars, BuildInv, ClusterTypeOK
<1>3. QED
  BY <1>1, <1>2

-----------------------------------------------------------------------------
(* Builds and images *)

BuildParts == JobsAreNamed /\ JobsTellTheTruth /\ TasksHaveImages /\ ImageIsBuilt

\* A working task is about a commit of the app, and its Job has that name.
LEMMA TaskCommit ==
  ASSUME BuildInv, NEW t \in Tasks, tasks[t].at # "idle"
  PROVE  tasks[t].commit \in Commits /\ JobName(tasks[t].commit) = tasks[t].commit
BY DEF approved, BuildInv, TasksHaveImages, JobName

\* A task that moves on to a phase it needs no image for.
LEMMA MovesOn ==
  ASSUME BuildInv, NEW t \in Tasks, tasks[t].at # "idle", NEW phase,
         phase \notin {"apply", "route", "ready"} \/ tasks[t].commit \in images,
         TaskTo(t, phase), UNCHANGED <<scans, images>>
  PROVE  TasksHaveImages'
BY DEF approved, TaskTo, BuildInv, ClusterTypeOK, TasksHaveImages, Task

LEMMA TaskStepBuilds ==
  ASSUME BuildInv, NEW t \in Tasks, TaskStep(t)
  PROVE  BuildParts'
<1> DEFINE c == tasks[t].commit
<1> USE DEF requests, cluster, histories
<1>1. /\ ClusterTypeOK /\ JobsAreNamed /\ JobsTellTheTruth /\ TasksHaveImages /\ ImageIsBuilt
      /\ tasks[t] \in Task /\ jobs \in [Commits -> Job]
  BY DEF BuildInv, ClusterTypeOK
<1>2. tasks[t].at # "idle"
  BY DEF TaskStep, Begin, CreateJob, DeleteStale, JobIsGone, CreateAgain, PollJob, Apply, Route, Finish, Fail
<1>3. c \in Commits /\ c \in approved /\ JobName(c) = c
  BY <1>1, <1>2, TaskCommit DEF TasksHaveImages
<1>4. ASSUME UNCHANGED <<jobs, images>>
      PROVE  JobsAreNamed' /\ JobsTellTheTruth'
  BY <1>1, <1>4 DEF JobsAreNamed, JobsTellTheTruth
<1>5. ASSUME UNCHANGED <<dep, images, scans>>
      PROVE  ImageIsBuilt'
  BY <1>1, <1>5 DEF ImageIsBuilt, approved
<1>6. ASSUME Created(t), UNCHANGED images
      PROVE  JobsAreNamed' /\ JobsTellTheTruth'
  BY <1>1, <1>3, <1>6 DEF Created, JobsAreNamed, JobsTellTheTruth, Job
<1>7. CASE Begin(t)
  <2>1. TasksHaveImages'
    BY <1>1, <1>2, <1>7 DEF Begin, approved, TasksHaveImages, ClusterTypeOK, Task
  <2>2. QED
    BY <1>4, <1>5, <1>7, <2>1 DEF Begin, BuildParts
<1>8. CASE CreateJob(t)
  <2>1. TasksHaveImages'
    BY <1>2, <1>8, MovesOn DEF CreateJob
  <2>2. JobsAreNamed' /\ JobsTellTheTruth'
    BY <1>4, <1>6, <1>8 DEF CreateJob
  <2>3. QED
    BY <1>5, <1>8, <2>1, <2>2 DEF CreateJob, BuildParts
<1>16. CASE DeleteStale(t)
  <2>1. TasksHaveImages'
    BY <1>2, <1>16, MovesOn DEF DeleteStale
  <2>2. JobsAreNamed' /\ JobsTellTheTruth'
    <3>1. CASE jobs[c].state = "none"
      BY <1>3, <1>4, <1>16, <3>1 DEF DeleteStale
    <3>2. CASE jobs[c].state # "none"
      BY <1>1, <1>3, <1>16, <3>2 DEF DeleteStale, JobsAreNamed, JobsTellTheTruth, Job
    <3>3. QED
      BY <3>1, <3>2
  <2>3. QED
    BY <1>5, <1>16, <2>1, <2>2 DEF DeleteStale, BuildParts
<1>9. CASE JobIsGone(t)
  <2>1. TasksHaveImages'
    BY <1>2, <1>9, MovesOn DEF JobIsGone
  <2>2. QED
    BY <1>4, <1>5, <1>9, <2>1 DEF JobIsGone, BuildParts
<1>10. CASE CreateAgain(t)
  <2>1. TasksHaveImages'
    BY <1>2, <1>10, MovesOn DEF CreateAgain
  <2>2. JobsAreNamed' /\ JobsTellTheTruth'
    BY <1>4, <1>6, <1>10 DEF CreateAgain
  <2>3. QED
    BY <1>5, <1>10, <2>1, <2>2 DEF CreateAgain, BuildParts
<1>11. CASE PollJob(t)
  <2>1. jobs[c].state = "succeeded" => c \in images
    BY <1>1, <1>3 DEF JobsTellTheTruth
  <2>2. TasksHaveImages'
    BY <1>2, <1>3, <1>11, <2>1, MovesOn DEF PollJob
  <2>3. QED
    BY <1>4, <1>5, <1>11, <2>2 DEF PollJob, BuildParts
<1>12. CASE Apply(t)
  <2>1. c \in images
    BY <1>1, <1>12 DEF Apply, TasksHaveImages
  <2>2. TasksHaveImages'
    BY <1>2, <1>12, <2>1, MovesOn DEF Apply
  <2>3. ImageIsBuilt'
    BY <1>3, <1>12, <2>1 DEF Apply, approved, ImageIsBuilt
  <2>4. QED
    BY <1>4, <1>12, <2>2, <2>3 DEF Apply, BuildParts
<1>13. CASE Route(t)
  <2>1. c \in images
    BY <1>1, <1>13 DEF Route, TasksHaveImages
  <2>2. TasksHaveImages'
    BY <1>2, <1>13, <2>1, MovesOn DEF Route
  <2>3. QED
    BY <1>4, <1>5, <1>13, <2>2 DEF Route, BuildParts
<1>14. CASE Finish(t) \/ Fail(t)
  <2>1. TasksHaveImages'
    BY <1>2, <1>14, MovesOn DEF Finish, Fail
  <2>2. QED
    BY <1>4, <1>5, <1>14, <2>1 DEF Finish, Fail, BuildParts
<1>15. QED
  BY <1>7, <1>8, <1>9, <1>10, <1>11, <1>12, <1>13, <1>14, <1>16 DEF TaskStep

LEMMA OtherStepBuilds ==
  ASSUME BuildInv, ClusterNext, ~\E t \in Tasks : TaskStep(t)
  PROVE  BuildParts'
<1> USE DEF requests, cluster, histories
<1>1. /\ ClusterTypeOK /\ JobsAreNamed /\ JobsTellTheTruth /\ TasksHaveImages /\ ImageIsBuilt
      /\ tasks \in [Tasks -> Task] /\ jobs \in [Commits -> Job] /\ scans \in [Commits -> Scan]
  BY DEF BuildInv, ClusterTypeOK
<1>2. ASSUME UNCHANGED <<jobs, images, scans>>, TasksHaveImages',
             UNCHANGED dep \/ dep' = [dep EXCEPT !.replicas = 0]
      PROVE  BuildParts'
  BY <1>1, <1>2
  DEF approved, JobsAreNamed, JobsTellTheTruth, ImageIsBuilt, BuildParts, ClusterTypeOK
<1>3. ASSUME NEW t \in Tasks, TaskFault(t)
      PROVE  BuildParts'
  <2>1. CASE BuildFails(t)
    BY <1>2, <2>1, MovesOn DEF BuildFails
  <2>2. CASE RouteFails(t)
    <3>1. tasks[t].commit \in images
      BY <1>1, <2>2 DEF RouteFails, TasksHaveImages
    <3>2. QED
      BY <1>2, <2>2, <3>1, MovesOn DEF RouteFails
  <2>3. CASE SendAgain(t)
    <3>1. TasksHaveImages'
      BY <1>1, <2>3 DEF SendAgain, approved, TasksHaveImages, Task
    <3>2. QED
      BY <1>2, <2>3, <3>1 DEF SendAgain
  <2>4. CASE Crash(t)
    BY <1>2, <2>4, MovesOn DEF Crash, Working
  <2>5. QED
    BY <1>3, <2>1, <2>2, <2>3, <2>4 DEF TaskFault
<1>4. ASSUME NEW c \in Commits, Review(c)
      PROVE  BuildParts'
  <2>1. approved \subseteq approved' /\ UNCHANGED <<jobs, images, dep>>
    <3>2. CASE Upload(c)
      BY <1>1, <3>2 DEF Upload, approved
    <3>3. CASE Classify(c)
      BY <1>1, <3>3 DEF Classify, approved, Scan
    <3>4. CASE ScanFails(c)
      BY <3>4 DEF ScanFails, approved
    <3>5. CASE Reject(c)
      BY <1>1, <3>5 DEF Reject, approved
    <3>6. ASSUME NEW t \in Tasks, Approve(t, c)
          PROVE  approved \subseteq approved' /\ UNCHANGED <<jobs, images, dep>>
      BY <1>1, <3>6 DEF Approve, approved, Scan
    <3>7. QED
      BY <1>4, <3>2, <3>3, <3>4, <3>5, <3>6 DEF Review, Upload, Classify, ScanFails, Reject
  <2>2. JobsAreNamed' /\ JobsTellTheTruth' /\ ImageIsBuilt'
    BY <1>1, <2>1 DEF JobsAreNamed, JobsTellTheTruth, ImageIsBuilt
  <2>3. TasksHaveImages'
    <3>1. CASE UNCHANGED tasks
      BY <1>1, <2>1, <3>1 DEF TasksHaveImages
    <3>2. ASSUME NEW t \in Tasks, Approve(t, c)
          PROVE  TasksHaveImages'
      <4>1. c \in approved'
        BY <1>1, <3>2 DEF Approve, approved, ClusterTypeOK, Scan
      <4>2. QED
        BY <1>1, <2>1, <3>2, <4>1 DEF Approve, TasksHaveImages, Task
    <3>3. QED
      BY <1>4, <3>1, <3>2 DEF Review, Upload, Classify, ScanFails, Reject
  <2>4. QED
    BY <2>2, <2>3 DEF BuildParts
<1>5. ASSUME NEW c \in Callers, CallerStep(c)
      PROVE  BuildParts'
  <2>1. ASSUME UNCHANGED <<tasks, scans, images>>
        PROVE  TasksHaveImages'
    BY <1>1, <2>1 DEF TasksHaveImages, approved
  <2>2. ASSUME NEW t \in Tasks, RestartSend(c, t)
        PROVE  BuildParts'
    <3>1. TasksHaveImages'
      BY <1>1, <2>2 DEF RestartSend, approved, TasksHaveImages, Task
    <3>2. QED
      BY <1>2, <2>2, <3>1 DEF RestartSend
  <2>3. CASE StopScale(c)
    BY <1>2, <2>1, <2>3 DEF StopScale
  <2>4. CASE \/ StopRead(c) \/ StopRoute(c) \/ StopCommit(c) \/ RestartCommit(c)
             \/ PollRead(c) \/ PollCommit(c) \/ ShowCommit(c) \/ CallFails(c)
             \/ \E v \in Visibilities : ShowFlush(c, v)
    BY <1>2, <2>1, <2>4
    DEF StopRead, StopRoute, StopCommit, RestartCommit, PollRead, PollCommit, ShowCommit,
        CallFails, ShowFlush
  <2>5. QED
    BY <1>5, <2>2, <2>3, <2>4 DEF CallerStep
<1>6. ASSUME NEW n \in Commits, JobEnds(n)
      PROVE  BuildParts'
  <2>1. jobs[n].builds = n
    BY <1>1, <1>6 DEF JobEnds, JobsAreNamed
  <2>2. images \subseteq images' /\ JobsAreNamed' /\ JobsTellTheTruth'
    BY <1>1, <1>6, <2>1 DEF JobEnds, JobsAreNamed, JobsTellTheTruth, Job
  <2>3. QED
    BY <1>1, <1>6, <2>2 DEF JobEnds, approved, TasksHaveImages, ImageIsBuilt, BuildParts
<1>7. ASSUME NEW n \in Commits, JobGoes(n)
      PROVE  BuildParts'
  BY <1>1, <1>7
  DEF JobGoes, NoJob, approved, JobsAreNamed, JobsTellTheTruth, TasksHaveImages, ImageIsBuilt, BuildParts
<1>8. ASSUME NEW n \in Commits, PodMoves(n)
      PROVE  BuildParts'
  BY <1>1, <1>8
  DEF PodMoves, approved, JobsAreNamed, JobsTellTheTruth, TasksHaveImages, ImageIsBuilt, BuildParts
<1>9. QED
  BY <1>3, <1>4, <1>5, <1>6, <1>7, <1>8 DEF ClusterNext

\* A step that leaves the Job of a commit alone, and every task of it that is
\* at work in the same hands, is no matter for that commit.
LEMMA SeenToStays ==
  ASSUME NEW c \in Commits, jobs[c]' = jobs[c], SeenTo(c),
         \A t \in Tasks : tasks'[t].commit = c => tasks[t].commit = c,
         \A t \in Tasks :
            tasks[t].commit = c /\ tasks[t].at \in {"sent", "build", "gone", "again", "poll"}
              => tasks'[t].commit = c /\ tasks'[t].at = tasks[t].at
  PROVE  SeenTo(c)'
BY DEF SeenTo, Asks

LEMMA SomeoneBuildsStep ==
  ASSUME BuildInv, [ClusterNext]_clusterVars
  PROVE  SomeoneBuilds'
<1> SUFFICES ASSUME faults' = 0, NEW c \in Commits \ Unbuildable, c \notin images'
             PROVE  SeenTo(c)'
  BY DEF SomeoneBuilds
<1> USE DEF requests, cluster, histories
<1>1. /\ ClusterTypeOK /\ JobsAreNamed /\ JobsTellTheTruth /\ TasksHaveImages
      /\ tasks \in [Tasks -> Task] /\ jobs \in [Commits -> Job] /\ jobs[c] \in Job
      /\ c # NoCommit
  BY ClusterAssumption DEF BuildInv, ClusterTypeOK
<1>2. /\ faults = 0
      /\ \A t \in Tasks : ~TaskFault(t)
      /\ \A d \in Callers : ~CallFails(d)
  <2>1. ~Fault
    BY <1>1, FaultType DEF ClusterTypeOK
  <2>2. faults = 0
    BY <2>1
    DEF ClusterNext, clusterVars, TaskStep, TaskFault, CallerStep, Begin, CreateJob, DeleteStale, JobIsGone,
        CreateAgain, PollJob, Apply, Route, Finish, Fail, BuildFails, RouteFails, SendAgain, Crash,
        Review, Upload, Classify, ScanFails, Reject, Approve, StopRead, StopRoute, StopScale,
        StopCommit, RestartCommit, PollRead, PollCommit, ShowCommit, CallFails, RestartSend,
        ShowFlush, JobEnds, JobGoes, PodMoves
  <2>3. QED
    BY <2>1, <2>2 DEF TaskFault, CallFails, BuildFails, RouteFails, SendAgain, Crash
<1>3. c \notin images
  BY DEF ClusterNext, clusterVars, TaskStep, TaskFault, CallerStep, Begin, CreateJob, DeleteStale, JobIsGone,
        CreateAgain, PollJob, Apply, Route, Finish, Fail, BuildFails, RouteFails, SendAgain, Crash,
        Review, Upload, Classify, ScanFails, Reject, Approve, StopRead, StopRoute, StopScale,
        StopCommit, RestartCommit, PollRead, PollCommit, ShowCommit, CallFails, RestartSend,
        ShowFlush, JobEnds, JobGoes, PodMoves
<1>4. SeenTo(c)
  BY <1>2, <1>3 DEF BuildInv, SomeoneBuilds
<1>5. jobs[c].state \in {"none", "running"}
  BY <1>1, <1>3 DEF JobsTellTheTruth, Job
<1>6. ASSUME UNCHANGED <<jobs, tasks>>
      PROVE  SeenTo(c)'
  BY <1>4, <1>6 DEF SeenTo, Asks
<1>7. ASSUME NEW t \in Tasks, TaskStep(t)
      PROVE  SeenTo(c)'
  <2> DEFINE d == tasks[t].commit
  <2>1. tasks[t].at # "idle"
    BY <1>7
    DEF TaskStep, Begin, CreateJob, DeleteStale, JobIsGone, CreateAgain, PollJob, Apply, Route, Finish, Fail
  <2>2. /\ d \in Commits /\ JobName(d) = d
        /\ tasks'[t].commit = d
    <3>1. d \in Commits /\ JobName(d) = d
      BY <2>1, TaskCommit
    <3>2. ASSUME Begin(t)
          PROVE  tasks'[t].commit = d
      BY <1>1, <3>2 DEF Begin, Task
    <3>3. ASSUME NEW phase, TaskTo(t, phase)
          PROVE  tasks'[t].commit = d
      BY <1>1, <3>3 DEF TaskTo, Task
    <3>4. QED
      BY <1>7, <3>1, <3>2, <3>3
      DEF TaskStep, CreateJob, DeleteStale, JobIsGone, CreateAgain, PollJob, Apply, Route, Finish, Fail
  <2>4. \A u \in Tasks \ {t} : tasks'[u] = tasks[u]
    BY <1>1, <1>7
    DEF TaskTo, TaskStep, Begin, CreateJob, DeleteStale, JobIsGone, CreateAgain, PollJob, Apply, Route,
        Finish, Fail
  <2>5. d # c => jobs'[c] = jobs[c]
    BY <1>1, <1>7, <2>2
    DEF Created, TaskStep, Begin, CreateJob, DeleteStale, JobIsGone, CreateAgain, PollJob, Apply, Route,
        Finish, Fail
  <2>6. CASE d # c
    BY <2>2, <1>4, <2>4, <2>5, <2>6, SeenToStays
  <2>7. CASE d = c /\ Begin(t)
    BY <1>1, <1>4, <2>4, <2>7 DEF Begin, SeenTo, Asks, Task
  <2>8. CASE d = c /\ CreateJob(t)
    <3>1. CASE jobs[c].state = "none"
      BY <1>1, <2>2, <2>8, <3>1 DEF CreateJob, Created, TaskTo, SeenTo, Asks, Task, Job
    <3>2. CASE jobs[c].state # "none"
      BY <1>1, <1>4, <2>2, <2>4, <2>8, <3>2 DEF CreateJob, TaskTo, SeenTo, Asks, Task
    <3>3. QED
      BY <3>1, <3>2
  <2>15. CASE d = c /\ DeleteStale(t)
    <3>1. CASE jobs[c].state = "none"
      BY <1>1, <1>4, <2>2, <2>4, <2>15, <3>1 DEF DeleteStale, TaskTo, SeenTo, Asks, Task
    <3>2. CASE jobs[c].state # "none"
      BY <1>1, <2>2, <2>15, <3>2 DEF DeleteStale, TaskTo, SeenTo, Asks, Task, Job
    <3>3. QED
      BY <3>1, <3>2
  <2>9. CASE d = c /\ JobIsGone(t)
    <3>1. tasks'[t].at = "again" /\ jobs'[c].state = "none"
      BY <1>1, <2>2, <2>9 DEF JobIsGone, TaskTo, Task
    <3>2. QED
      BY <2>2, <2>9, <3>1 DEF SeenTo, Asks
  <2>10. CASE d = c /\ CreateAgain(t)
    <3>1. CASE jobs[c].state = "none"
      BY <1>1, <2>2, <2>10, <3>1 DEF CreateAgain, Created, TaskTo, SeenTo, Asks, Task, Job
    <3>2. CASE jobs[c].state # "none"
      BY <1>1, <2>2, <1>4, <2>4, <2>10, <3>2 DEF CreateAgain, TaskTo, SeenTo, Asks, Task
    <3>3. QED
      BY <3>1, <3>2
  <2>11. CASE d = c /\ PollJob(t)
    BY <1>1, <1>5, <2>2, <1>4, <2>4, <2>11 DEF PollJob, TaskTo, SeenTo, Asks, Task
  <2>12. CASE d = c /\ (Apply(t) \/ Route(t) \/ Finish(t))
    BY <1>1, <1>3, <2>12 DEF Apply, Route, Finish, TasksHaveImages
  <2>13. CASE d = c /\ Fail(t)
    BY <1>1, <2>2, <1>4, <2>4, <2>13 DEF Fail, TaskTo, SeenTo, Asks, Task
  <2>14. QED
    BY <1>7, <2>6, <2>7, <2>8, <2>9, <2>10, <2>11, <2>12, <2>13, <2>15 DEF TaskStep
<1>8. ASSUME NEW t \in Tasks, tasks[t].at = "idle", UNCHANGED jobs, NEW d \in Commits,
             tasks' = [tasks EXCEPT ![t] = [@ EXCEPT !.at = "sent", !.commit = d]]
      PROVE  SeenTo(c)'
  <2>1. CASE d # c
    BY <1>1, <1>4, <1>8, <2>1 DEF SeenTo, Asks, Task
  <2>2. CASE d = c
    BY <1>1, <1>4, <1>8, <2>2 DEF SeenTo, Asks, Task
  <2>3. QED
    BY <2>1, <2>2
<1>9. ASSUME NEW d \in Callers, CallerStep(d)
      PROVE  SeenTo(c)'
  <2>1. ASSUME NEW t \in Tasks, RestartSend(d, t)
        PROVE  SeenTo(c)'
    BY <1>1, <1>8, <2>1 DEF RestartSend, approved
  <2>2. CASE \/ StopRead(d) \/ StopRoute(d) \/ StopScale(d) \/ StopCommit(d) \/ RestartCommit(d)
             \/ PollRead(d) \/ PollCommit(d) \/ ShowCommit(d) \/ CallFails(d)
             \/ \E v \in Visibilities : ShowFlush(d, v)
    BY <1>6, <2>2
    DEF StopRead, StopRoute, StopScale, StopCommit, RestartCommit, PollRead, PollCommit,
        ShowCommit, CallFails, ShowFlush
  <2>3. QED
    BY <1>9, <2>1, <2>2 DEF CallerStep
<1>10. ASSUME NEW n \in Commits, JobEnds(n)
       PROVE  SeenTo(c)'
  <2>1. jobs[n].builds = n
    BY <1>1, <1>10 DEF JobEnds, JobsAreNamed
  <2>2. n # c
    BY <1>1, <1>10, <2>1 DEF JobEnds
  <2>3. QED
    BY <1>1, <1>4, <1>10, <2>2 DEF JobEnds, SeenTo, Asks
<1>11. ASSUME NEW n \in Commits, JobGoes(n)
       PROVE  SeenTo(c)'
  <2>1. CASE n = c
    BY <1>1, <1>4, <1>5, <1>11, <2>1 DEF JobGoes, NoJob, SeenTo, Asks, JobsAreNamed
  <2>2. CASE n # c
    BY <1>1, <1>4, <1>11, <2>2 DEF JobGoes, SeenTo, Asks
  <2>3. QED
    BY <2>1, <2>2
<1>12. ASSUME NEW n \in Commits, PodMoves(n)
       PROVE  SeenTo(c)'
  BY <1>6, <1>12 DEF PodMoves
<1>13. CASE UNCHANGED clusterVars
  BY <1>6, <1>13 DEF clusterVars
<1>14. QED
  BY <1>2, <1>6, <1>7, <1>8, <1>9, <1>10, <1>11, <1>12, <1>13
  DEF ClusterNext, Review, Upload, Classify, ScanFails, Reject, Approve

LEMMA InitBuilds == ClusterInit => BuildInv
<1> SUFFICES ASSUME ClusterInit PROVE BuildInv
  OBVIOUS
<1>1. ClusterTypeOK
  BY InitType
<1>2. \A t \in Tasks : tasks[t].at = "idle" /\ tasks[t].commit = NoCommit
  BY DEF ClusterInit, IdleTask
<1>3. \A n \in Commits : jobs[n].state = "none" /\ ~jobs[n].deleting
  BY DEF ClusterInit, NoJob
<1>4. JobsAreNamed /\ JobsTellTheTruth
  BY <1>3 DEF ClusterInit, JobsAreNamed, JobsTellTheTruth
<1>5. TasksHaveImages /\ ImageIsBuilt
  BY <1>2 DEF ClusterInit, TasksHaveImages, ImageIsBuilt
<1>6. SomeoneBuilds
  BY <1>2, <1>3, ClusterAssumption DEF SomeoneBuilds, SeenTo, Asks
<1>7. QED
  BY <1>1, <1>4, <1>5, <1>6 DEF BuildInv

LEMMA BuildStep ==
  ASSUME BuildInv, [ClusterNext]_clusterVars
  PROVE  BuildInv'
<1>1. ClusterTypeOK' /\ SomeoneBuilds'
  BY TypeStep, SomeoneBuildsStep
<1>2. BuildParts'
  <2>1. CASE UNCHANGED clusterVars
    BY <2>1
    DEF clusterVars, approved, BuildInv, BuildParts, JobsAreNamed, JobsTellTheTruth, TasksHaveImages,
        ImageIsBuilt
  <2>2. CASE \E t \in Tasks : TaskStep(t)
    BY <2>2, TaskStepBuilds
  <2>3. CASE ClusterNext /\ ~\E t \in Tasks : TaskStep(t)
    BY <2>3, OtherStepBuilds
  <2>4. QED
    BY <2>1, <2>2, <2>3
<1>3. QED
  BY <1>1, <1>2 DEF BuildParts, BuildInv

\* BuildInv is inductive: what a build leaves behind is what its name says,
\* however tasks delete and recreate each other's Jobs.
THEOREM BuildInvariant == ClusterSpec => []BuildInv
BY InitBuilds, BuildStep, PTL DEF ClusterSpec

\* Every variable of the Kubernetes side keeps its type.
THEOREM ClusterTypeCorrect == ClusterSpec => []ClusterTypeOK
BY BuildInvariant, PTL DEF BuildInv

\* The Deployment runs an approved commit with its own image, for any number of
\* tasks and requests, crashes and faults.
THEOREM TheImageIsBuilt == ClusterSpec => []ImageIsBuilt
BY BuildInvariant, PTL DEF BuildInv

\* Any number of tasks of one commit may delete each other's Job: without a
\* fault one of them builds it.
THEOREM SomeoneDoesBuild == ClusterSpec => []OneOfThemBuilds
<1>1. BuildInv => OneOfThemBuilds
  BY DEF BuildInv, SomeoneBuilds, SeenTo, Asks, OneOfThemBuilds
<1>2. QED
  BY <1>1, BuildInvariant, PTL

-----------------------------------------------------------------------------
(* Calm behaviours *)

\* A review leaves alone what a calm behaviour rests on: it does not set "stopped".
LEMMA ReviewCalm ==
  ASSUME BuildInv, CalmParts, NEW c \in Commits,
         Upload(c) \/ Classify(c) \/ ScanFails(c) \/ Reject(c)
  PROVE  CalmParts'
<1> USE DEF requests, cluster, histories
<1>1. app \in App
  BY DEF BuildInv, ClusterTypeOK
<1>2. UNCHANGED <<row, tasks, callers, dep, ingress, unshown>>
  BY DEF Upload, Classify, ScanFails, Reject
<1>3. ASSUME NEW s \in {"in_review", "approved", "deployed"}, StatusTo(s)
      PROVE  app'.visibility = app.visibility /\ (app'.status = "stopped" => app.status = "stopped")
  BY <1>1, <1>3 DEF StatusTo, Set, App
<1>4. app'.visibility = app.visibility /\ (app'.status = "stopped" => app.status = "stopped")
  BY <1>1, <1>3 DEF Upload, Classify, ScanFails, Reject, Back, App
<1>5. OneActivity' /\ CalmTasks' /\ CalmCallers'
  BY <1>2, <1>4
  DEF CalmParts, OneActivity, CalmTasks, CalmCallers, Working, Begun, Rolling
<1>6. CalmDeployment' /\ CalmRoute' /\ CalmRow' /\ CalmStopped'
  BY <1>2, <1>4
  DEF CalmParts, CalmDeployment, CalmRoute, CalmRow, CalmStopped, Replacing, Rolling, Calls
<1>7. QED
  BY <1>5, <1>6 DEF CalmParts

\* A task at work is alone: its step is no matter for the requests there are.
LEMMA TaskAlone ==
  ASSUME BuildInv, CalmParts, NEW t \in Tasks, Working(t),
         \A u \in Tasks \ {t} : tasks'[u] = tasks[u], UNCHANGED callers
  PROVE  /\ OneActivity' /\ CalmCallers'
         /\ \A u \in Tasks \ {t} : tasks'[u].at \in {"idle", "done"} /\ tasks[u].at \in {"idle", "done"}
         /\ \A c \in Callers : callers[c].at \in {"idle", "restart"}
<1>1. \A u \in Tasks \ {t} : ~Working(u)
  BY DEF CalmParts, OneActivity
<1>2. \A c \in Callers : callers[c].at \in {"idle", "restart"}
  BY DEF CalmParts, OneActivity
<1>3. \A u \in Tasks : Working(u)' => u = t
  BY <1>1 DEF Working
<1>4. OneActivity'
  BY <1>2, <1>3 DEF CalmParts, OneActivity
<1>5. CalmCallers'
  BY <1>2 DEF CalmCallers
<1>6. QED
  BY <1>1, <1>2, <1>4, <1>5 DEF Working

\* What it has to say about itself is all there is to say about tasks.
LEMMA TaskStepCalm ==
  ASSUME BuildInv, OnlyDeployed, CalmParts, NEW t \in Tasks, TaskStep(t)
  PROVE  CalmParts'
<1> DEFINE c == tasks[t].commit
<1> USE DEF requests, cluster, histories
<1>1. Working(t)
  BY DEF Working, TaskStep, Begin, CreateJob, DeleteStale, JobIsGone, CreateAgain, PollJob,
         Apply, Route, Finish, Fail
<1>2. /\ tasks \in [Tasks -> Task] /\ tasks[t] \in Task /\ row \in Row /\ app \in App
      /\ dep.replicas \in 0..1 /\ ingress \in Visibilities \cup {"none"}
  BY DEF BuildInv, ClusterTypeOK
<1>3. /\ UNCHANGED callers
      /\ \A u \in Tasks \ {t} : tasks'[u] = tasks[u]
      /\ tasks'[t].commit = c
      /\ ~Begin(t) => tasks'[t].seen = tasks[t].seen /\ tasks'[t].had = tasks[t].had
  <2>1. CASE Begin(t)
    BY <1>2, <2>1 DEF Begin, Task
  <2>2. CASE ~Begin(t)
    <3>1. PICK phase : TaskTo(t, phase)
      BY <2>2
      DEF TaskStep, CreateJob, DeleteStale, JobIsGone, CreateAgain, PollJob, Apply, Route,
          Finish, Fail
    <3>2. QED
      BY <1>2, <2>2, <3>1
      DEF TaskTo, Task, TaskStep, CreateJob, DeleteStale, JobIsGone, CreateAgain, PollJob,
          Apply, Route, Finish, Fail
  <2>3. QED
    BY <2>1, <2>2
<1>4. /\ OneActivity' /\ CalmCallers'
      /\ \A u \in Tasks \ {t} : tasks'[u].at \in {"idle", "done"} /\ tasks[u].at \in {"idle", "done"}
      /\ ~Calls({"scale", "stop"}) /\ ~Calls({"show"}) /\ ~Calls({"stop"})
      /\ ~Calls({"scale", "stop"})' /\ ~Calls({"show"})' /\ ~Calls({"stop"})'
  BY <1>1, <1>3, TaskAlone DEF Calls
<1>5. /\ Replacing <=> Rolling(t)
      /\ Replacing' <=> Rolling(t)'
  BY <1>4 DEF Replacing, Rolling
<1>6. CalmTasks /\ CalmDeployment /\ CalmRoute /\ CalmRow /\ CalmStopped
  BY DEF CalmParts
<1> DEFINE Own ==
       /\ tasks'[t].at \notin {"idle", "sent", "done"} =>
            /\ row'.status \in {"building", "starting"} /\ row'.image = tasks'[t].had
            /\ tasks'[t].seen.visibility = app'.visibility
            /\ app'.status = "stopped" => tasks'[t].seen.status = "stopped"
       /\ tasks'[t].at \in {"route", "ready"} => dep' = [here |-> TRUE, image |-> c, replicas |-> 1]
       /\ tasks'[t].at = "ready" => ingress' = app'.visibility
<1>7. ASSUME Own PROVE CalmTasks'
  BY <1>3, <1>4, <1>7 DEF CalmTasks, Begun, Rolling
<1>8. ASSUME tasks[t].at # "sent"
      PROVE  /\ row.status \in {"building", "starting"} /\ row.image = tasks[t].had
             /\ tasks[t].seen.visibility = app.visibility
             /\ app.status = "stopped" => tasks[t].seen.status = "stopped"
  BY <1>1, <1>6, <1>8 DEF CalmTasks, Begun, Working
<1>9. CASE Begin(t)
  <2>1. tasks'[t].at = "build" /\ tasks'[t].seen = app /\ tasks'[t].had = row.image
    BY <1>2, <1>9 DEF Begin, Task
  <2>2. row'.status = "building" /\ row'.image = row.image
    BY <1>2, <1>9 DEF Begin, Row
  <2>3. UNCHANGED <<app, dep, ingress, unshown>> /\ ~Replacing /\ ~Replacing'
    BY <1>5, <1>9, <2>1 DEF Begin, Rolling
  <2>4. CalmTasks'
    BY <1>7, <2>1, <2>2, <2>3
  <2>5. CalmDeployment' /\ CalmRoute' /\ CalmRow' /\ CalmStopped'
    BY <1>4, <1>6, <2>2, <2>3 DEF CalmDeployment, CalmRoute, CalmRow, CalmStopped
  <2>6. QED
    BY <1>4, <2>4, <2>5 DEF CalmParts
<1>10. CASE \/ CreateJob(t) \/ DeleteStale(t) \/ JobIsGone(t) \/ CreateAgain(t) \/ PollJob(t)
  <2>1. /\ UNCHANGED <<row, app, dep, ingress, unshown>>
        /\ tasks[t].at \notin {"idle", "sent", "done", "route", "ready"}
        /\ tasks'[t].at \notin {"idle", "sent", "done", "route", "ready"}
        /\ ~Begin(t)
    BY <1>2, <1>10
    DEF CreateJob, DeleteStale, JobIsGone, CreateAgain, PollJob, TaskTo, Task, Begin
  <2>2. CalmTasks'
    BY <1>3, <1>7, <1>8, <2>1
  <2>3. ~Replacing /\ ~Replacing'
    BY <1>5, <2>1 DEF Rolling
  <2>4. CalmDeployment' /\ CalmRoute' /\ CalmRow' /\ CalmStopped'
    BY <1>4, <1>6, <2>1, <2>3 DEF CalmDeployment, CalmRoute, CalmRow, CalmStopped
  <2>5. QED
    BY <1>4, <2>2, <2>4 DEF CalmParts
<1>11. CASE Apply(t)
  <2>1. /\ dep' = [here |-> TRUE, image |-> c, replicas |-> 1]
        /\ UNCHANGED <<row, app, ingress, unshown>>
        /\ tasks[t].at = "apply" /\ tasks'[t].at = "route" /\ ~Begin(t)
    BY <1>2, <1>11 DEF Apply, TaskTo, Task, Begin
  <2>2. CalmTasks'
    BY <1>3, <1>7, <1>8, <2>1
  <2>3. Replacing'
    BY <1>5, <2>1 DEF Rolling
  <2>4. CalmDeployment' /\ CalmRoute' /\ CalmStopped'
    BY <2>3 DEF CalmDeployment, CalmRoute, CalmStopped
  <2>5. CalmRow'
    BY <1>8, <2>1 DEF CalmRow
  <2>6. QED
    BY <1>4, <2>2, <2>4, <2>5 DEF CalmParts
<1>12. CASE Route(t)
  <2>1. /\ dep = [here |-> TRUE, image |-> c, replicas |-> 1]
        /\ UNCHANGED <<row, app, dep>> /\ ingress' = tasks[t].seen.visibility
        /\ tasks[t].at = "route" /\ tasks'[t].at = "ready" /\ ~Begin(t)
    BY <1>2, <1>6, <1>12 DEF Route, TaskTo, Task, Begin, CalmTasks, Rolling
  <2>2. CalmTasks'
    BY <1>3, <1>7, <1>8, <2>1
  <2>3. Replacing'
    BY <1>5, <2>1 DEF Rolling
  <2>4. CalmDeployment' /\ CalmRoute' /\ CalmStopped'
    BY <2>3 DEF CalmDeployment, CalmRoute, CalmStopped
  <2>5. CalmRow'
    BY <1>8, <2>1 DEF CalmRow
  <2>6. QED
    BY <1>4, <2>2, <2>4, <2>5 DEF CalmParts
<1>13. CASE Finish(t)
  <2>1. /\ dep = [here |-> TRUE, image |-> c, replicas |-> 1]
        /\ UNCHANGED <<dep, ingress, unshown>>
        /\ tasks[t].at = "ready" /\ tasks'[t].at = "done"
        /\ ingress = app.visibility
    BY <1>2, <1>6, <1>13 DEF Finish, TaskTo, Task, CalmTasks, Rolling
  <2>2. row'.image = c /\ row'.status = "running"
    BY <1>2, <1>8, <1>13, <2>1 DEF Finish, Set, Row
  <2>3. app'.status # "stopped" /\ app'.visibility = app.visibility
    BY <1>2, <1>8, <1>13, <2>1 DEF Finish, Set, App
  <2>4. CalmTasks'
    BY <1>7, <2>1
  <2>5. ingress' # "none"
    BY <1>2, <2>1 DEF App, Visibilities
  <2>6. CalmDeployment' /\ CalmRoute' /\ CalmRow' /\ CalmStopped'
    BY <2>1, <2>2, <2>3, <2>5 DEF CalmDeployment, CalmRoute, CalmRow, CalmStopped
  <2>7. QED
    BY <1>4, <2>4, <2>6 DEF CalmParts
<1>14. CASE Fail(t)
  <2>1. /\ UNCHANGED <<dep, ingress, unshown>>
        /\ tasks[t].at = "failing" /\ tasks'[t].at = "done"
    BY <1>2, <1>14 DEF Fail, TaskTo, Task
  <2>2. row'.image = row.image /\ row'.status = "failed"
    BY <1>2, <1>14 DEF Fail, Row
  <2>3. app'.status # "stopped" /\ app'.visibility = app.visibility
    BY <1>2, <1>8, <1>14, <2>1 DEF Fail, Set, App
  <2>4. CalmTasks'
    BY <1>7, <2>1
  <2>5. ~Replacing /\ ~Replacing'
    BY <1>5, <2>1 DEF Rolling
  <2>6. CalmDeployment' /\ CalmRoute' /\ CalmRow' /\ CalmStopped'
    BY <1>4, <1>6, <2>1, <2>2, <2>3, <2>5 DEF CalmDeployment, CalmRoute, CalmRow, CalmStopped
  <2>7. QED
    BY <1>4, <2>4, <2>6 DEF CalmParts
<1>15. QED
  BY <1>9, <1>10, <1>11, <1>12, <1>13, <1>14 DEF TaskStep

\* A request that is not a restart is alone.
LEMMA CallerAlone ==
  ASSUME BuildInv, CalmParts, NEW c \in Callers, callers[c].at \notin {"idle", "restart"}
  PROVE  /\ \A t \in Tasks : tasks[t].at \in {"idle", "done"} /\ ~Working(t)
         /\ \A d \in Callers \ {c} : callers[d].at = "idle"
         /\ ~Replacing
BY DEF CalmParts, OneActivity, Working, Replacing, Rolling

\* Nothing was under way when a calm activity begins.
LEMMA Quiet ==
  ASSUME BuildInv, CalmParts, ~Busy
  PROVE  /\ \A t \in Tasks : tasks[t].at \in {"idle", "done"} /\ ~Working(t)
         /\ \A c \in Callers : callers[c].at = "idle"
         /\ ~Replacing
         /\ ~Calls({"scale", "stop"}) /\ ~Calls({"show"}) /\ ~Calls({"stop"})
BY DEF Busy, Working, Replacing, Rolling, Calls

\* Tasks that are not at work say nothing.
LEMMA TasksRest ==
  ASSUME \A t \in Tasks : tasks[t].at \in {"idle", "done"}, UNCHANGED tasks
  PROVE  CalmTasks' /\ ~Replacing' /\ \A t \in Tasks : ~Working(t)'
BY DEF CalmTasks, Begun, Rolling, Replacing, Working

\* A request keeps calm: it begins when nothing is under way, or goes on alone.
LEMMA CallerStepCalm ==
  ASSUME BuildInv, OnlyDeployed, CalmParts, NEW c \in Callers, CallerStep(c),
         ~CallFails(c), ~disturbed'
  PROVE  CalmParts'
<1> USE DEF requests, cluster, histories
<1>1. /\ tasks \in [Tasks -> Task] /\ callers \in [Callers -> Caller] /\ callers[c] \in Caller
      /\ row \in Row /\ app \in App /\ dep.replicas \in 0..1
      /\ dep \in [here: BOOLEAN, image: Commits \cup {NoCommit}, replicas: 0..1]
  BY DEF BuildInv, ClusterTypeOK
<1>2. /\ CalmTasks /\ CalmCallers /\ CalmDeployment /\ CalmRoute /\ CalmRow /\ CalmStopped
      /\ OneActivity
  BY DEF CalmParts
<1>3. IdleCaller \in Caller
  BY DEF IdleCaller, Caller, AppStatus, RowStatus, Visibilities
<1>4. ASSUME NEW caller \in Caller, Call(c, caller)
      PROVE  /\ callers'[c] = caller
             /\ \A d \in Callers \ {c} : callers'[d] = callers[d]
  BY <1>1, <1>4 DEF Call
<1>5. ASSUME NEW phase, CallerTo(c, phase)
      PROVE  /\ callers'[c] = [callers[c] EXCEPT !.at = phase] /\ callers'[c].at = phase
             /\ \A d \in Callers \ {c} : callers'[d] = callers[d]
  BY <1>1, <1>5 DEF CallerTo, Caller
<1>6. Starts => ~Busy
  BY Zenon DEF Starts
<1>7. ASSUME ~Busy, NEW caller \in Caller, Call(c, caller), UNCHANGED tasks
      PROVE  /\ OneActivity' /\ CalmTasks' /\ ~Replacing'
             /\ \A d \in Callers \ {c} : callers'[d].at = "idle"
  <2>1. /\ \A t \in Tasks : tasks[t].at \in {"idle", "done"}
        /\ \A d \in Callers \ {c} : callers'[d].at = "idle"
    BY <1>4, <1>7, Quiet
  <2>2. CalmTasks' /\ ~Replacing' /\ \A t \in Tasks : ~Working(t)'
    BY <1>7, <2>1, TasksRest
  <2>3. QED
    BY <2>1, <2>2 DEF OneActivity
<1>8. ASSUME callers[c].at \notin {"idle", "restart"}, UNCHANGED tasks,
             NEW phase, CallerTo(c, phase)
      PROVE  /\ OneActivity' /\ CalmTasks' /\ ~Replacing /\ ~Replacing'
             /\ \A d \in Callers \ {c} : callers[d].at = "idle" /\ callers'[d].at = "idle"
  <2>1. /\ \A t \in Tasks : tasks[t].at \in {"idle", "done"}
        /\ \A d \in Callers \ {c} : callers[d].at = "idle"
        /\ ~Replacing
    BY <1>8, CallerAlone
  <2>2. CalmTasks' /\ ~Replacing' /\ \A t \in Tasks : ~Working(t)'
    BY <1>8, <2>1, TasksRest
  <2>3. \A d \in Callers \ {c} : callers'[d].at = "idle"
    BY <1>5, <1>8, <2>1
  <2>4. OneActivity'
    BY <2>2, <2>3 DEF OneActivity
  <2>5. QED
    BY <2>1, <2>2, <2>3, <2>4
<1>9. CASE StopRead(c)
  <2> DEFINE caller == [IdleCaller EXCEPT !.at = "unroute", !.seen = app.status]
  <2>1. /\ caller \in Caller /\ caller.at = "unroute"
        /\ Call(c, caller) /\ ~Busy
    BY <1>1, <1>3, <1>6, <1>9 DEF StopRead, Caller, App
  <2>2. callers'[c].at = "unroute"
    BY <1>4, <2>1
  <2>3. CalmCallers'
    BY <1>7, <1>9, <2>1, <2>2 DEF StopRead, CalmCallers
  <2>4. CalmDeployment' /\ CalmRoute' /\ CalmRow' /\ CalmStopped'
    BY <1>2, <1>9, <2>1, Quiet
    DEF StopRead, CalmDeployment, CalmRoute, CalmRow, CalmStopped
  <2>5. QED
    BY <1>7, <1>9, <2>1, <2>3, <2>4 DEF StopRead, CalmParts
<1>10. CASE StopRoute(c)
  <2>1. /\ callers[c].at = "unroute" /\ callers'[c].at = "scale" /\ ingress' = "none"
        /\ UNCHANGED <<tasks, row, app, dep, unshown>> /\ CallerTo(c, "scale")
    BY <1>5, <1>10 DEF StopRoute
  <2>2. /\ OneActivity' /\ CalmTasks' /\ ~Replacing /\ ~Replacing'
        /\ \A d \in Callers \ {c} : callers[d].at = "idle" /\ callers'[d].at = "idle"
    BY <1>8, <2>1
  <2>3. ~Calls({"stop"}) /\ Calls({"scale", "stop"})'
    BY <2>1, <2>2 DEF Calls
  <2>4. CalmCallers'
    BY <2>1, <2>2 DEF CalmCallers
  <2>5. CalmDeployment' /\ CalmRoute' /\ CalmRow' /\ CalmStopped'
    BY <1>2, <2>1, <2>2, <2>3 DEF CalmDeployment, CalmRoute, CalmRow, CalmStopped
  <2>6. QED
    BY <2>2, <2>4, <2>5 DEF CalmParts
<1>11. CASE StopScale(c)
  <2>1. /\ callers[c].at = "scale" /\ callers'[c].at = "stop" /\ ingress = "none"
        /\ UNCHANGED <<tasks, row, app, ingress, unshown>> /\ CallerTo(c, "stop")
    BY <1>2, <1>5, <1>11 DEF StopScale, CalmCallers
  <2>2. /\ OneActivity' /\ CalmTasks' /\ ~Replacing /\ ~Replacing'
        /\ \A d \in Callers \ {c} : callers[d].at = "idle" /\ callers'[d].at = "idle"
    BY <1>8, <2>1
  <2>3. dep'.replicas = 0
    BY <1>1, <1>11 DEF StopScale, OnlyDeployed
  <2>4. Calls({"stop"})' /\ Calls({"scale", "stop"})'
    BY <2>1 DEF Calls
  <2>5. CalmCallers'
    BY <2>1, <2>2, <2>3 DEF CalmCallers
  <2>6. CalmDeployment' /\ CalmRoute' /\ CalmRow' /\ CalmStopped'
    BY <2>1, <2>3, <2>4 DEF CalmDeployment, CalmRoute, CalmRow, CalmStopped
  <2>7. QED
    BY <2>2, <2>5, <2>6 DEF CalmParts
<1>12. CASE StopCommit(c)
  <2>1. /\ callers[c].at = "stop" /\ callers'[c].at = "idle"
        /\ ingress = "none" /\ dep.replicas = 0
        /\ UNCHANGED <<tasks, ingress, dep, unshown>> /\ CallerTo(c, "idle")
    BY <1>2, <1>5, <1>12 DEF StopCommit, CalmCallers
  <2>2. /\ OneActivity' /\ CalmTasks'
        /\ \A d \in Callers \ {c} : callers[d].at = "idle" /\ callers'[d].at = "idle"
    BY <1>8, <2>1
  <2>3. row'.status = "stopped"
    BY <1>1, <1>12 DEF StopCommit, Row
  <2>4. CalmCallers'
    BY <2>1, <2>2 DEF CalmCallers
  <2>5. CalmDeployment' /\ CalmRoute' /\ CalmRow' /\ CalmStopped'
    BY <2>1, <2>3 DEF CalmDeployment, CalmRoute, CalmRow, CalmStopped
  <2>6. QED
    BY <2>2, <2>4, <2>5 DEF CalmParts
<1>13. CASE RestartCommit(c)
  <2>1. /\ callers[c].at = "restart" /\ callers'[c].at = "idle"
        /\ \A d \in Callers \ {c} : callers[d].at = "idle" /\ callers'[d].at = "idle"
        /\ UNCHANGED <<tasks, ingress, dep, unshown>>
    BY <1>2, <1>5, <1>13 DEF RestartCommit, OneActivity
  <2>2. /\ row'.image = row.image
        /\ row'.status \in {row.status, "starting"}
    BY <1>1, <1>13 DEF RestartCommit, Set, Row
  <2>3. app'.visibility = app.visibility /\ app'.status \in {app.status, "deployed"}
    BY <1>1, <1>13 DEF RestartCommit, Set, App
  <2>4. OneActivity'
    BY <1>2, <2>1 DEF OneActivity, Working
  <2>5. CalmTasks'
    BY <1>2, <2>1, <2>2, <2>3 DEF CalmTasks, Begun, Rolling
  <2>6. CalmCallers'
    BY <2>1 DEF CalmCallers
  <2>7. /\ ~Calls({"scale", "stop"}) /\ ~Calls({"show"}) /\ ~Calls({"stop"})
        /\ (Replacing' <=> Replacing)
    BY <2>1 DEF Calls, Replacing, Rolling
  <2>8. CalmDeployment' /\ CalmRoute' /\ CalmRow' /\ CalmStopped'
    BY <1>2, <2>1, <2>2, <2>3, <2>7 DEF CalmDeployment, CalmRoute, CalmRow, CalmStopped
  <2>9. QED
    BY <2>4, <2>5, <2>6, <2>8 DEF CalmParts
<1>14. CASE PollRead(c)
  <2> DEFINE caller == [IdleCaller EXCEPT !.at = "poll", !.was = row.status, !.now = LiveStatus]
  <2>1. ~Busy /\ Settled
    BY <1>14, Zenon DEF PollRead
  <2>2. LiveStatus \in RowStatus
    BY DEF LiveStatus, RowStatus
  <2>3. /\ caller \in Caller /\ caller.at = "poll" /\ caller.now = LiveStatus
        /\ Call(c, caller)
    BY <1>1, <1>3, <1>14, <2>2 DEF PollRead, Caller, Row
  <2>4. LiveStatus = "running" => dep.replicas = 1
    BY <2>1 DEF LiveStatus, Ready, Settled, Wanted
  <2>5. LiveStatus = "stopped" => dep.replicas = 0
    <3>1. SUFFICES ASSUME \A i \in Commits : pods[i] = "none", dep.replicas = 1
                   PROVE  FALSE
      BY <1>1 DEF LiveStatus
    <3>2. dep.here /\ dep.image \in Commits
      BY <3>1 DEF OnlyDeployed, BuildInv, ImageIsBuilt, approved
    <3>3. QED
      BY <2>1, <3>1, <3>2 DEF Settled, Wanted
  <2>6. callers'[c] = caller
    BY <1>4, <2>3
  <2>7. CalmCallers'
    BY <1>7, <1>14, <2>1, <2>3, <2>4, <2>5, <2>6 DEF PollRead, CalmCallers
  <2>8. CalmDeployment' /\ CalmRoute' /\ CalmRow' /\ CalmStopped'
    BY <1>2, <1>14, <2>1, Quiet
    DEF PollRead, CalmDeployment, CalmRoute, CalmRow, CalmStopped
  <2>9. QED
    BY <1>7, <1>14, <2>1, <2>3, <2>7, <2>8 DEF PollRead, CalmParts
<1>15. CASE PollCommit(c)
  <2>1. /\ callers[c].at = "poll" /\ callers'[c].at = "idle"
        /\ callers[c].now = "running" => dep.replicas = 1
        /\ callers[c].now = "stopped" => dep.replicas = 0
        /\ UNCHANGED <<tasks, app, ingress, dep, unshown>> /\ CallerTo(c, "idle")
    BY <1>2, <1>5, <1>15 DEF PollCommit, CalmCallers
  <2>2. /\ OneActivity' /\ CalmTasks' /\ ~Replacing
        /\ \A d \in Callers \ {c} : callers[d].at = "idle" /\ callers'[d].at = "idle"
    BY <1>8, <2>1
  <2>3. row'.status = callers[c].now /\ row'.image = row.image
    BY <1>1, <1>15 DEF PollCommit, Row
  <2>4. CalmCallers'
    BY <2>1, <2>2 DEF CalmCallers
  <2>5. ~Calls({"scale", "stop"}) /\ ~Calls({"show"})
    BY <2>1, <2>2 DEF Calls
  <2>6. CalmDeployment' /\ CalmRoute' /\ CalmRow' /\ CalmStopped'
    BY <1>2, <2>1, <2>2, <2>3, <2>5 DEF CalmDeployment, CalmRoute, CalmRow, CalmStopped
  <2>7. QED
    BY <2>2, <2>4, <2>6 DEF CalmParts
<1>16. CASE ShowCommit(c)
  <2>1. /\ callers[c].at = "show" /\ callers'[c].at = "idle"
        /\ unshown \/ ingress = callers[c].visibility
        /\ UNCHANGED <<tasks, row, ingress, dep, unshown>> /\ CallerTo(c, "idle")
    BY <1>2, <1>5, <1>16 DEF ShowCommit, CalmCallers
  <2>2. /\ OneActivity' /\ CalmTasks' /\ ~Replacing
        /\ \A d \in Callers \ {c} : callers[d].at = "idle" /\ callers'[d].at = "idle"
    BY <1>8, <2>1
  <2>3. app'.visibility = callers[c].visibility /\ app'.status = app.status
    BY <1>1, <1>16 DEF ShowCommit, App
  <2>4. CalmCallers'
    BY <2>1, <2>2 DEF CalmCallers
  <2>5. ~Calls({"scale", "stop"}) /\ ~Calls({"stop"})
    BY <2>1, <2>2 DEF Calls
  <2>6. CalmDeployment' /\ CalmRoute' /\ CalmRow' /\ CalmStopped'
    BY <1>2, <2>1, <2>2, <2>3, <2>5 DEF CalmDeployment, CalmRoute, CalmRow, CalmStopped
  <2>7. QED
    BY <2>2, <2>4, <2>6 DEF CalmParts
<1>17. ASSUME NEW t \in Tasks, RestartSend(c, t)
       PROVE  CalmParts'
  <2> DEFINE caller == [IdleCaller EXCEPT !.at = "restart", !.seen = app.status, !.was = row.status]
  <2>1. caller \in Caller /\ caller.at = "restart" /\ Call(c, caller) /\ ~Busy
    BY <1>1, <1>3, <1>6, <1>17 DEF RestartSend, Caller, App, Row
  <2>2. /\ tasks'[t].at = "sent"
        /\ \A u \in Tasks \ {t} : tasks'[u].at \in {"idle", "done"}
    BY <1>1, <1>17, <2>1, Quiet DEF RestartSend, Task
  <2>3. ~Replacing /\ ~Replacing' /\ \A u \in Tasks : Working(u)' => u = t
    BY <2>1, <2>2, Quiet DEF Replacing, Rolling, Working
  <2>4. callers'[c].at = "restart" /\ \A d \in Callers \ {c} : callers'[d].at = "idle"
    BY <1>4, <2>1, Quiet
  <2>5. OneActivity'
    BY <2>3, <2>4 DEF OneActivity
  <2>6. CalmCallers'
    BY <2>4 DEF CalmCallers
  <2>7. CalmTasks'
    BY <2>2 DEF CalmTasks, Begun, Rolling
  <2>8. CalmDeployment' /\ CalmRoute' /\ CalmRow' /\ CalmStopped'
    BY <1>2, <1>17, <2>1, <2>3, Quiet
    DEF RestartSend, CalmDeployment, CalmRoute, CalmRow, CalmStopped
  <2>9. QED
    BY <2>5, <2>6, <2>7, <2>8 DEF CalmParts
<1>18. ASSUME NEW v \in Visibilities, ShowFlush(c, v)
       PROVE  CalmParts'
  <2> DEFINE caller == [IdleCaller EXCEPT !.at = "show", !.visibility = v]
  <2>1. caller \in Caller /\ caller.at = "show" /\ caller.visibility = v /\ Call(c, caller) /\ ~Busy
    BY <1>3, <1>6, <1>18 DEF ShowFlush, Caller
  <2>2. callers'[c] = caller /\ \A d \in Callers \ {c} : callers'[d].at = "idle"
    BY <1>4, <2>1, Quiet
  <2>3. UNCHANGED <<tasks, row, app, dep>> /\ ~Replacing
    BY <1>18, <2>1, Quiet DEF ShowFlush
  <2>4. IF app.status = "deployed" /\ row.here /\ row.named
        THEN ingress' = v ELSE ingress' = ingress /\ unshown'
    BY <1>18 DEF ShowFlush, Shows
  <2>5. CalmCallers'
    BY <2>1, <2>2, <2>4 DEF CalmCallers
  <2>6. Calls({"show"})'
    BY <2>1, <2>2 DEF Calls
  <2>7. v # "none"
    BY DEF Visibilities
  <2>8. CalmDeployment' /\ CalmRoute' /\ CalmRow' /\ CalmStopped'
    BY <1>2, <2>1, <2>3, <2>4, <2>6, <2>7, Quiet
    DEF CalmDeployment, CalmRoute, CalmRow, CalmStopped
  <2>9. QED
    BY <1>7, <2>1, <2>3, <2>5, <2>8 DEF CalmParts
<1>19. QED
  BY <1>9, <1>10, <1>11, <1>12, <1>13, <1>14, <1>15, <1>16, <1>17, <1>18 DEF CallerStep

\* An approval begins alone.
LEMMA ApproveCalm ==
  ASSUME BuildInv, CalmParts, NEW t \in Tasks, NEW c \in Commits, Approve(t, c), ~disturbed'
  PROVE  CalmParts'
<1> USE DEF requests, cluster, histories
<1>1. /\ tasks \in [Tasks -> Task] /\ app \in App
      /\ CalmDeployment /\ CalmRoute /\ CalmRow /\ CalmStopped
  BY DEF BuildInv, ClusterTypeOK, CalmParts
<1>2. ~Busy
  BY Zenon DEF Approve, Starts
<1>3. /\ tasks'[t].at = "sent"
      /\ \A u \in Tasks \ {t} : tasks'[u].at \in {"idle", "done"}
      /\ UNCHANGED <<row, callers, dep, ingress, unshown>>
  BY <1>1, <1>2, Quiet DEF Approve, Task
<1>4. app'.visibility = app.visibility /\ (app'.status = "stopped" => app.status = "stopped")
  BY <1>1 DEF Approve, StatusTo, Set, App
<1>5. /\ ~Replacing /\ ~Replacing' /\ \A u \in Tasks : Working(u)' => u = t
      /\ \A d \in Callers : callers'[d].at = "idle"
  BY <1>2, <1>3, Quiet DEF Replacing, Rolling, Working
<1>6. OneActivity' /\ CalmCallers'
  BY <1>5 DEF OneActivity, CalmCallers
<1>7. CalmTasks'
  BY <1>3 DEF CalmTasks, Begun, Rolling
<1>8. CalmDeployment' /\ CalmRoute' /\ CalmRow' /\ CalmStopped'
  BY <1>1, <1>2, <1>3, <1>4, <1>5, Quiet DEF CalmDeployment, CalmRoute, CalmRow, CalmStopped
<1>9. QED
  BY <1>6, <1>7, <1>8 DEF CalmParts

\* The cluster ends and removes Jobs, and moves pods: no matter here.
LEMMA ClusterStepCalm ==
  ASSUME CalmParts, NEW n \in Commits, JobEnds(n) \/ JobGoes(n) \/ PodMoves(n)
  PROVE  CalmParts'
<1>1. UNCHANGED <<row, app, tasks, callers, dep, ingress, unshown>>
  BY DEF JobEnds, JobGoes, PodMoves, requests, histories
<1>2. QED
  BY <1>1
  DEF CalmParts, OneActivity, CalmTasks, CalmCallers, CalmDeployment, CalmRoute, CalmRow,
      CalmStopped, Replacing, Calls, Working, Begun, Rolling

LEMMA OnlyDeployedStep ==
  ASSUME BuildInv, OnlyDeployed, [ClusterNext]_clusterVars
  PROVE  OnlyDeployed'
<1> USE DEF requests, cluster, histories, OnlyDeployed
<1>1. CASE UNCHANGED dep
  BY <1>1
<1>2. ASSUME NEW t \in Tasks, Apply(t)
      PROVE  OnlyDeployed'
  BY <1>2 DEF Apply
<1>3. ASSUME NEW c \in Callers, StopScale(c)
      PROVE  OnlyDeployed'
  BY <1>3 DEF StopScale, BuildInv, ClusterTypeOK
<1>4. QED
  BY <1>1, <1>2, <1>3
  DEF ClusterNext, clusterVars, TaskStep, TaskFault, CallerStep, Begin, CreateJob, DeleteStale,
      JobIsGone, CreateAgain, PollJob, Route, Finish, Fail, BuildFails, RouteFails, SendAgain,
      Crash, Review, Upload, Classify, ScanFails, Reject, Approve, StopRead, StopRoute, StopCommit,
      RestartCommit, PollRead, PollCommit, ShowCommit, CallFails, RestartSend, ShowFlush, JobEnds,
      JobGoes, PodMoves

\* What once was disturbed stays so, and every fault disturbs.
LEMMA CalmBefore ==
  ASSUME BuildInv, ClusterNext, ~disturbed'
  PROVE  /\ ~disturbed
         /\ \A t \in Tasks : ~TaskFault(t)
         /\ \A c \in Callers : ~CallFails(c)
<1>1. ~Fault
  BY Zenon DEF Fault
<1>2. (\A t \in Tasks : ~TaskFault(t)) /\ \A c \in Callers : ~CallFails(c)
  BY <1>1 DEF TaskFault, BuildFails, RouteFails, SendAgain, Crash, CallFails
<1>3. \/ disturbed' = disturbed
      \/ Starts
      \/ \E c \in Callers : PollRead(c)
  BY <1>2
  DEF ClusterNext, TaskStep, CallerStep, Begin, CreateJob, DeleteStale, JobIsGone,
      CreateAgain, PollJob, Apply, Route, Finish, Fail, Review, Upload, Classify, ScanFails,
      Reject, Approve, StopRead, StopRoute, StopScale, StopCommit, RestartCommit, PollCommit,
      ShowCommit, RestartSend, ShowFlush, JobEnds, JobGoes, PodMoves, histories
<1>4. ~disturbed
  BY <1>3, Zenon DEF Starts, PollRead
<1>5. QED
  BY <1>2, <1>4

LEMMA CalmStep ==
  ASSUME BuildInv, CalmInv, [ClusterNext]_clusterVars
  PROVE  CalmInv'
<1>1. OnlyDeployed'
  BY OnlyDeployedStep DEF CalmInv
<1>2. ASSUME ~disturbed'
      PROVE  CalmParts'
  <2>1. CASE UNCHANGED clusterVars
    BY <1>2, <2>1
    DEF clusterVars, CalmInv, CalmParts, OneActivity, CalmTasks, CalmCallers, CalmDeployment,
        CalmRoute, CalmRow, CalmStopped, Replacing, Calls, Working, Begun, Rolling
  <2>2. CASE ClusterNext
    <3>1. CalmParts /\ OnlyDeployed
      BY <1>2, <2>2, CalmBefore DEF CalmInv
    <3>2. ASSUME NEW c \in Commits, Review(c)
          PROVE  CalmParts'
      BY <1>2, <3>1, <3>2, ReviewCalm, ApproveCalm DEF Review
    <3>3. QED
      BY <1>2, <2>2, <3>1, <3>2, CalmBefore, TaskStepCalm, CallerStepCalm, ClusterStepCalm
      DEF ClusterNext
  <2>3. QED
    BY <2>1, <2>2
<1>3. QED
  BY <1>1, <1>2 DEF CalmInv

LEMMA InitCalm == ClusterInit => CalmInv
<1> SUFFICES ASSUME ClusterInit PROVE CalmInv
  OBVIOUS
<1>1. \A t \in Tasks : tasks[t].at = "idle" /\ ~Working(t) /\ ~Rolling(t) /\ ~Begun(t)
  BY DEF ClusterInit, IdleTask, Working, Begun, Rolling
<1>2. \A c \in Callers : callers[c].at = "idle"
  BY DEF ClusterInit, IdleCaller
<1>3. dep.replicas = 0 /\ row.status = "failed" /\ ingress = "none"
  BY DEF ClusterInit
<1>4. QED
  BY <1>1, <1>2, <1>3
  DEF CalmInv, OnlyDeployed, CalmParts, OneActivity, CalmTasks, CalmCallers, CalmDeployment,
      CalmRoute, CalmRow, CalmStopped

\* With CalmInv: as long as one activity ends before the next begins and none
\* fails, every phase of a deploy, a stop, a restart, a poll and a change of
\* visibility leaves the row, the Deployment and the Ingress in step, while
\* uploads, scans and decisions set the app's status at any time.
THEOREM CalmInvariant == ClusterSpec => []CalmInv
BY InitCalm, CalmStep, BuildInvariant, PTL DEF ClusterSpec

\* The cluster is what the rows say, after any number of undisturbed activities
\* of any number of tasks and callers, among any number of reviews.
THEOREM ClusterFollowsRow == ClusterSpec => []ClusterMatchesRow
<1>1. BuildInv /\ CalmInv => ClusterMatchesRow
  <2> SUFFICES ASSUME BuildInv, CalmInv, ~Busy, ~disturbed
               PROVE  /\ row.here /\ row.status = "running" =>
                           /\ dep = [here |-> TRUE, image |-> row.image, replicas |-> 1]
                           /\ ingress # "none" /\ (unshown \/ ingress = app.visibility)
                      /\ row.here /\ row.status = "stopped" => dep.replicas = 0
                      /\ app.status = "stopped" => dep.replicas = 0 /\ ingress = "none"
    BY DEF ClusterMatchesRow
  <2>1. /\ CalmParts /\ OnlyDeployed
        /\ CalmDeployment /\ CalmRoute /\ CalmRow /\ CalmStopped
    BY DEF CalmInv, CalmParts
  <2>2. ~Replacing /\ ~Calls({"scale", "stop"}) /\ ~Calls({"show"}) /\ ~Calls({"stop"})
    BY <2>1, Quiet
  <2>3. dep \in [here: BOOLEAN, image: Commits \cup {NoCommit}, replicas: 0..1]
    BY DEF BuildInv, ClusterTypeOK
  <2>4. ASSUME row.status = "running"
        PROVE  /\ dep = [here |-> TRUE, image |-> row.image, replicas |-> 1]
               /\ ingress # "none" /\ (unshown \/ ingress = app.visibility)
    <3>1. dep.replicas = 1
      BY <2>1, <2>2, <2>4 DEF CalmRow
    <3>2. dep.here /\ dep.image = row.image
      BY <2>1, <2>2, <3>1 DEF OnlyDeployed, CalmDeployment
    <3>3. ingress # "none" /\ (unshown \/ ingress = app.visibility)
      BY <2>1, <2>2, <3>1 DEF CalmRoute
    <3>4. QED
      BY <2>3, <3>1, <3>2, <3>3
  <2>5. QED
    BY <2>1, <2>2, <2>4 DEF CalmRow, CalmStopped
<1>2. QED
  BY <1>1, BuildInvariant, CalmInvariant, PTL
===============================================================================
