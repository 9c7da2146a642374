--------------------------- MODULE GateDeployProofs ---------------------------
(***************************************************************************)
(* What GateDeploy guarantees for any number of apps, scans, workers,      *)
(* requests, ports, launches, retries, crashes and faults.                 *)
(***************************************************************************)
EXTENDS GateDeploy, GateTablesProofs

\* What a row, a container, a job and a request are before they are used.
LEMMA BlankTypes ==
  /\ NoRow \in Row /\ NoContainer \in Container
  /\ IdleJob \in Job /\ IdleCall \in Call
<1> USE TablesAssumption, DeployAssumption
<1>1. (CHOOSE a \in Apps : TRUE) \in Apps
  OBVIOUS
<1>2. NoRow \in Row
  BY <1>1 DEF NoRow, Row, RowStatus, NoCid, NoPort, Port
<1>3. NoContainer \in Container
  BY <1>1 DEF NoContainer, Container, NoPort, Port
<1>4. IdleJob \in Job
  BY <1>2 DEF IdleJob, Job, NoCid, NoPort, Port, AppStatus
<1>5. IdleCall \in Call
  BY <1>1 DEF IdleCall, Call, NoPort, Port, AppStatus, RowStatus
<1>6. QED
  BY <1>2, <1>3, <1>4, <1>5

\* A message that is retried comes back with one more try, within max_retries.
LEMMA RedeliveredType ==
  ASSUME NEW queue \in [Scans -> [1..MaxRetries -> Nat]],
         NEW s \in Scans, NEW tries \in 0..MaxRetries
  PROVE  Redelivered(queue, s, tries) \in [Scans -> [1..MaxRetries -> Nat]]
BY TablesAssumption DEF Redelivered

\* Docker's removal changes the state of containers and nothing else about them.
LEMMA RemovedType ==
  ASSUME containers \in [Cids -> Container], NEW C, containers' = Removed(C)
  PROVE  /\ containers' \in [Cids -> Container]
         /\ \A c \in Cids :
               /\ containers'[c].app = containers[c].app
               /\ containers'[c].scan = containers[c].scan
               /\ containers'[c].port = containers[c].port
               /\ Exists(c)' => Exists(c) /\ c \notin C
BY DEF Removed, Exists, Container

\* The histories of overlaps and faults stay within their types.
LEMMA HistoryType ==
  ASSUME disturbed \subseteq Apps, NEW a \in Apps
  PROVE  /\ Begin(a) => disturbed' \subseteq Apps
         /\ DeployFault(a) /\ deployFaults \in 0..MaxDeployFaults =>
               disturbed' \subseteq Apps /\ deployFaults' \in 0..MaxDeployFaults
BY DeployAssumption DEF Begin, DeployFault

-----------------------------------------------------------------------------
(* What keeps the parts of DeployInv *)

\* Every row that is there stays, with its app and its scan.
SameRows ==
    \A d \in Deployments :
        /\ (rows'[d].status = "none") <=> (rows[d].status = "none")
        /\ rows'[d].app = rows[d].app
        /\ rows'[d].scan = rows[d].scan

\* Job w goes on with the row it has, or ends; the other jobs stay.
SameJobs(w) ==
    /\ jobs' \in [Workers -> Job]
    /\ \A v \in Workers \ {w} : jobs'[v] = jobs[v]
    /\ \/ jobs'[w] = IdleJob
       \/ /\ Busy(w) /\ jobs[w].at # "loaded"
          /\ jobs'[w].scan = jobs[w].scan /\ jobs'[w].dep = jobs[w].dep

\* A job that goes on or ends keeps to its app's row.
LEMMA JobsKept ==
  ASSUME JobHasRow, NEW w \in Workers, SameJobs(w), SameRows
  PROVE  JobHasRow'
<1> SUFFICES ASSUME NEW v \in Workers, Busy(v)'
             PROVE  (/\ jobs[v].scan \in Scans
                     /\ jobs[v].at # "loaded" => jobs[v].dep \in Deployments
                     /\ jobs[v].dep \in Deployments =>
                           jobs[v].dep \in RowsOf(AppOf[jobs[v].scan]))'
  BY DEF JobHasRow
<1>1. CASE v # w
  BY <1>1 DEF SameJobs, SameRows, JobHasRow, Busy, RowsOf
<1>2. CASE v = w
  BY <1>2 DEF SameJobs, SameRows, JobHasRow, Busy, RowsOf, IdleJob
<1>3. QED
  BY <1>1, <1>2

\* Rows that stay keep what requests and scans rely on.
LEMMA RowsKept ==
  ASSUME SameRows
  PROVE  /\ RowHasScan => RowHasScan'
         /\ CallHasRow /\ calls' = calls => CallHasRow'
         /\ JobHasRow /\ jobs' = jobs => JobHasRow'
BY DEF SameRows, RowHasScan, CallHasRow, JobHasRow, RowsOf, Busy

\* A removal keeps what is known of the containers.
LEMMA ContainersKept ==
  ASSUME containers \in [Cids -> Container], ContainerHasScan,
         UNCHANGED launched, NEW C, containers' = Removed(C)
  PROVE  ContainerHasScan'
BY RemovedType DEF ContainerHasScan

-----------------------------------------------------------------------------
(* The deploy task *)

DeployParts == JobHasRow /\ CallHasRow /\ RowHasScan /\ ContainerHasScan

\* A job that is at work is of the declared type and about a scan and its app.
LEMMA JobFacts ==
  ASSUME DeployInv, NEW w \in Workers, Busy(w)
  PROVE  /\ jobs[w] \in Job /\ jobs[w].scan \in Scans
         /\ AppOf[jobs[w].scan] \in Apps
         /\ jobs[w].at # "loaded" =>
               jobs[w].dep \in Deployments /\ rows[jobs[w].dep] \in Row
               /\ rows[jobs[w].dep].status # "none"
BY TablesAssumption DEF DeployInv, DeployTypeOK, JobHasRow, RowsOf

\* Taking a message: the session reads the row of the scan's app, if any.
LEMMA LoadInv ==
  ASSUME DeployInv, NEW w \in Workers, NEW s \in Scans, NEW tries \in 0..MaxRetries,
         NEW queue \in [Scans -> [1..MaxRetries -> Nat]],
         Load(w, s, tries, queue), UNCHANGED <<rows, calls>>
  PROVE  /\ again' \in [Scans -> [1..MaxRetries -> Nat]]
         /\ jobs' \in [Workers -> Job]
         /\ disturbed' \subseteq Apps
         /\ JobHasRow'
<1> DEFINE a == AppOf[s]
           found == RowsOf(a)
           dep == IF found = {} THEN NoDep ELSE CHOOSE d \in found : TRUE
           job == [IdleJob EXCEPT !.at = "loaded", !.scan = s, !.tries = tries,
                                  !.dep = dep, !.seenStatus = status[a],
                                  !.seenStable = stable[a],
                                  !.seen = IF dep = NoDep THEN NoRow ELSE rows[dep]]
<1>1. a \in Apps /\ status[a] \in AppStatus /\ stable[a] \in Port
  BY TablesAssumption DEF DeployInv, DeployTypeOK, TablesTypeOK
<1>2. CASE UNCHANGED <<jobs, disturbed>> /\ again' = Redelivered(queue, s, tries)
  BY <1>2, RedeliveredType DEF DeployInv, DeployTypeOK, JobHasRow, Busy, RowsOf
<1>3. CASE again' = queue /\ jobs' = [jobs EXCEPT ![w] = job] /\ Begin(a)
  <2>1. dep \in Deployments \cup {NoDep} /\ (dep \in Deployments => dep \in found)
    BY DeployAssumption DEF RowsOf
  <2>2. (IF dep = NoDep THEN NoRow ELSE rows[dep]) \in Row
    BY <2>1, BlankTypes DEF DeployInv, DeployTypeOK
  <2>3. job \in Job /\ job.scan = s /\ job.dep = dep /\ job.at = "loaded"
    BY <1>1, <2>1, <2>2, BlankTypes DEF Job, IdleJob
  <2> HIDE DEF job, dep
  <2>4. jobs' \in [Workers -> Job]
    BY <1>3, <2>3 DEF DeployInv, DeployTypeOK
  <2>5. disturbed' \subseteq Apps
    BY <1>1, <1>3, HistoryType DEF DeployInv, DeployTypeOK
  <2>6. JobHasRow'
    BY <1>3, <2>1, <2>3 DEF DeployInv, DeployTypeOK, JobHasRow, Busy, RowsOf
  <2>7. QED
    BY <1>3, <2>4, <2>5, <2>6
<1>4. QED
  BY <1>2, <1>3 DEF Load

\* A first delivery or a retry is taken.
LEMMA TakeInv ==
  ASSUME DeployInv, NEW w \in Workers, NEW s \in Scans,
         Take(w, s) \/ \E n \in 1..MaxRetries : TakeAgain(w, s, n)
  PROVE  DeployTypeOK' /\ DeployParts'
<1> USE TablesAssumption
<1>1. CASE Take(w, s)
  <2>1. /\ again' \in [Scans -> [1..MaxRetries -> Nat]]
        /\ jobs' \in [Workers -> Job] /\ disturbed' \subseteq Apps /\ JobHasRow'
    <3>1. 0 \in 0..MaxRetries /\ again \in [Scans -> [1..MaxRetries -> Nat]]
      BY DEF DeployInv, DeployTypeOK
    <3>2. Load(w, s, 0, again) /\ UNCHANGED <<rows, calls>>
      BY <1>1 DEF Take, world
    <3>3. QED
      BY <3>1, <3>2, LoadInv
  <2>2. DeployTypeOK'
    <3>1. deployQueue' \in [Scans -> Nat]
      BY <1>1 DEF Take, DeployInv, DeployTypeOK, TablesTypeOK
    <3>2. UNCHANGED <<status, scans, approvals, stable, rows, containers, launched,
                      routes, calls, called, deployFaults>>
      BY <1>1 DEF Take, world
    <3>3. QED
      BY <2>1, <3>1, <3>2 DEF DeployInv, DeployTypeOK, TablesTypeOK
  <2>3. QED
    BY <1>1, <2>1, <2>2 DEF Take, world, DeployInv, DeployParts, CallHasRow,
                            RowHasScan, ContainerHasScan, RowsOf, Exists
<1>2. ASSUME NEW n \in 1..MaxRetries, TakeAgain(w, s, n)
      PROVE  DeployTypeOK' /\ DeployParts'
  <2>1. [again EXCEPT ![s][n] = again[s][n] - 1] \in [Scans -> [1..MaxRetries -> Nat]]
    BY <1>2 DEF TakeAgain, DeployInv, DeployTypeOK
  <2>2. /\ again' \in [Scans -> [1..MaxRetries -> Nat]]
        /\ jobs' \in [Workers -> Job] /\ disturbed' \subseteq Apps /\ JobHasRow'
    <3>1. n \in 0..MaxRetries
      OBVIOUS
    <3>2. /\ Load(w, s, n, [again EXCEPT ![s][n] = again[s][n] - 1])
          /\ UNCHANGED <<rows, calls>>
      BY <1>2 DEF TakeAgain, world
    <3>3. QED
      BY <2>1, <3>1, <3>2, LoadInv
  <2>3. DeployTypeOK'
    BY <1>2, <2>2 DEF TakeAgain, world, tables, DeployInv, DeployTypeOK, TablesTypeOK
  <2>4. QED
    BY <1>2, <2>2, <2>3 DEF TakeAgain, world, DeployInv, DeployParts, CallHasRow,
                            RowHasScan, ContainerHasScan, RowsOf, Exists
<1>3. QED
  BY <1>1, <1>2

\* Marking the row "building": the app's row, or one that no app had.
LEMMA MarkBuildingInv ==
  ASSUME DeployInv, NEW w \in Workers, MarkBuilding(w)
  PROVE  DeployTypeOK' /\ DeployParts'
<1> USE DeployAssumption
<1> DEFINE j == jobs[w]
           a == AppOf[j.scan]
           free == {d \in Deployments : rows[d].status = "none"}
           dep == IF j.dep # NoDep THEN j.dep ELSE CHOOSE d \in free : TRUE
           row == [j.seen EXCEPT !.status = "building", !.scan = j.scan, !.app = a]
           scan == Written(rows[dep].scan, j.seen.scan, j.scan)
           at == Written(rows[dep].status, j.seen.status, "building")
           job == [j EXCEPT !.at = "building", !.dep = dep, !.seen = row]
<1>1. /\ j \in Job /\ j.at = "loaded" /\ j.scan \in Scans /\ a \in Apps
  BY JobFacts DEF MarkBuilding, Busy
<1>2. /\ row \in Row /\ row.scan = j.scan /\ row.app = a /\ row.status = "building"
  BY <1>1 DEF Job, Row, RowStatus
<1>3. /\ dep \in Deployments
      /\ rows[dep].status # "none" => rows[dep].app = a
      /\ rows' \in [Deployments -> Row]
      /\ \A d \in Deployments \ {dep} : rows'[d] = rows[d]
      /\ rows'[dep].status # "none" /\ rows'[dep].app = a
      /\ rows'[dep].scan \in Scans /\ AppOf[rows'[dep].scan] = a
  <2>1. CASE j.dep = NoDep
    <3>1. dep \in free /\ rows' = [rows EXCEPT ![dep] = row]
      BY <2>1 DEF MarkBuilding
    <3>2. QED
      BY <1>1, <1>2, <3>1 DEF DeployInv, DeployTypeOK
  <2>2. CASE j.dep # NoDep
    <3>1. dep \in Deployments /\ rows[dep].status # "none" /\ rows[dep].app = a
      BY <1>1, <2>2 DEF DeployInv, JobHasRow, Busy, RowsOf, Job
    <3>2. rows' = [rows EXCEPT ![dep] = [rows[dep] EXCEPT !.scan = scan, !.status = at]]
      BY <2>2, <3>1 DEF MarkBuilding, DeployInv, DeployTypeOK
    <3>3. rows[dep] \in Row /\ rows[dep].scan \in Scans /\ AppOf[rows[dep].scan] = a
      BY <3>1 DEF DeployInv, DeployTypeOK, RowHasScan
    <3>4. scan \in Scans /\ AppOf[scan] = a /\ at \in RowStatus \ {"none"}
      BY <1>1, <3>1, <3>3 DEF Written, Row, RowStatus
    <3> HIDE DEF dep, scan, at
    <3>5. [rows[dep] EXCEPT !.scan = scan, !.status = at] \in Row
      BY <3>3, <3>4 DEF Row
    <3>6. QED
      BY <3>1, <3>2, <3>3, <3>4, <3>5 DEF DeployInv, DeployTypeOK, Row
  <2>3. QED
    BY <2>1, <2>2
<1> HIDE DEF dep
<1>4. jobs' = [jobs EXCEPT ![w] = job]
  BY DEF MarkBuilding, DeployInv, DeployTypeOK, dep
<1>5. job \in Job /\ job.scan = j.scan /\ job.dep = dep /\ job.at = "building"
  BY <1>1, <1>2, <1>3 DEF Job
<1>6. UNCHANGED <<status, scans, approvals, deployQueue, stable, containers, launched,
                  routes, again, calls, called, deployFaults, disturbed>>
  BY DEF MarkBuilding, tables
<1> HIDE DEF job, row
<1>7. DeployTypeOK'
  BY <1>3, <1>4, <1>5, <1>6 DEF DeployInv, DeployTypeOK, TablesTypeOK
<1>8. JobHasRow'
  <2>1. \A v \in Workers \ {w} : jobs'[v] = jobs[v]
    BY <1>4 DEF DeployInv, DeployTypeOK
  <2>2. jobs'[w] = job
    BY <1>4 DEF DeployInv, DeployTypeOK
  <2>3. \A v \in Workers \ {w} : Busy(v)' =>
           (/\ jobs[v].scan \in Scans
            /\ jobs[v].at # "loaded" => jobs[v].dep \in Deployments
            /\ jobs[v].dep \in Deployments => jobs[v].dep \in RowsOf(AppOf[jobs[v].scan]))'
    BY <1>3, <2>1 DEF DeployInv, JobHasRow, Busy, RowsOf
  <2>4. QED
    BY <1>1, <1>3, <1>5, <2>2, <2>3 DEF JobHasRow, RowsOf
<1>9. CallHasRow'
  BY <1>3, <1>6 DEF DeployInv, CallHasRow, RowsOf
<1>10. RowHasScan'
  BY <1>3 DEF DeployInv, RowHasScan
<1>11. ContainerHasScan'
  BY <1>6 DEF DeployInv, ContainerHasScan, Exists
<1>12. QED
  BY <1>7, <1>8, <1>9, <1>10, <1>11 DEF DeployParts

\* _fail: whatever it puts back, the row stays the app's and the scan's.
LEMMA FailInv ==
  ASSUME DeployInv, NEW w \in Workers, Busy(w), jobs[w].at # "loaded",
         NEW cid \in 0..MaxLaunches, NEW named \in BOOLEAN, NEW port \in Port,
         Fail(w, cid, named, port),
         UNCHANGED <<scans, approvals, deployQueue, containers, launched, routes,
                     again, calls, called, deployFaults, disturbed>>
  PROVE  DeployTypeOK' /\ DeployParts' /\ SameRows /\ SameJobs(w)
<1> DEFINE j == jobs[w]
           a == AppOf[j.scan]
           new == IF scans[j.scan].type = "update" THEN "deployed" ELSE "approved"
<1>1. /\ a \in Apps /\ j \in Job /\ j.scan \in Scans
      /\ j.dep \in Deployments /\ rows[j.dep] \in Row /\ rows[j.dep].status # "none"
  BY JobFacts
<1>2. rows' = [rows EXCEPT ![j.dep] = [rows[j.dep] EXCEPT !.status = "failed",
                                                          !.cid = cid, !.named = named]]
  BY <1>1 DEF Fail, DeployInv, DeployTypeOK
<1>3. rows' \in [Deployments -> Row] /\ SameRows
  <2>1. [rows[j.dep] EXCEPT !.status = "failed", !.cid = cid, !.named = named] \in Row
    BY <1>1 DEF Row, RowStatus
  <2>2. QED
    BY <1>1, <1>2, <2>1 DEF DeployInv, DeployTypeOK, SameRows, Row
<1>4. status' \in [Apps -> AppStatus]
  <2>1. status[a] \in AppStatus
    BY <1>1 DEF DeployInv, DeployTypeOK, TablesTypeOK
  <2>2. Written(status[a], j.seenStatus, new) \in AppStatus
    BY <2>1 DEF Written, AppStatus
  <2>3. QED
    BY <1>1, <2>2 DEF Fail, DeployInv, DeployTypeOK, TablesTypeOK
<1>5. stable' \in [Apps -> Port]
  <2>1. Written(stable[a], j.seenStable, port) \in Port
    BY <1>1 DEF Written, DeployInv, DeployTypeOK
  <2>2. QED
    BY <1>1, <2>1 DEF Fail, DeployInv, DeployTypeOK
<1>6. SameJobs(w)
  BY BlankTypes DEF Fail, SameJobs, DeployInv, DeployTypeOK
<1>7. DeployTypeOK'
  BY <1>3, <1>4, <1>5, <1>6 DEF SameJobs, DeployInv, DeployTypeOK, TablesTypeOK
<1>8. JobHasRow' /\ CallHasRow' /\ RowHasScan'
  BY <1>3, <1>6, JobsKept, RowsKept DEF DeployInv
<1>9. ContainerHasScan'
  BY DEF DeployInv, ContainerHasScan, Exists
<1>10. QED
  BY <1>3, <1>6, <1>7, <1>8, <1>9 DEF DeployParts

\* The failures before and at the launch.
LEMMA FailuresInv ==
  ASSUME DeployInv, NEW w \in Workers,
         BuildFails(w) \/ PortsExhausted(w) \/ LaunchFails(w)
  PROVE  DeployTypeOK' /\ DeployParts' /\ SameRows /\ SameJobs(w)
<1> DEFINE j == jobs[w]
           cid == IF j.seen.cid = NoCid THEN rows[j.dep].cid ELSE j.old
           named == IF ~IsUpdate(j) THEN TRUE ELSE rows[j.dep].named /\ ~j.seen.named
<1>1. Busy(w) /\ j.at # "loaded"
  BY DEF BuildFails, PortsExhausted, LaunchFails, Busy
<1>2. /\ rows[j.dep].cid \in 0..MaxLaunches /\ rows[j.dep].named \in BOOLEAN
      /\ j.seenStable \in Port /\ j.port \in Port /\ j.old \in 0..MaxLaunches
      /\ j.seen \in Row
  BY <1>1, JobFacts DEF Job, Row
<1>3. CASE BuildFails(w) \/ PortsExhausted(w)
  BY <1>1, <1>2, <1>3, FailInv DEF BuildFails, PortsExhausted
<1>4. CASE LaunchFails(w)
  <2>1. cid \in 0..MaxLaunches /\ named \in BOOLEAN
    BY <1>2
  <2>2. /\ Fail(w, cid, named, j.port)
        /\ UNCHANGED <<scans, approvals, deployQueue, containers, launched, routes,
                       again, calls, called, deployFaults, disturbed>>
    BY <1>4 DEF LaunchFails
  <2> HIDE DEF cid, named
  <2>3. QED
    BY <1>1, <1>2, <2>1, <2>2, FailInv
<1>5. QED
  BY <1>3, <1>4

\* Choosing the port, displacing the container of that name and writing the
\* route change the job, the containers' states and the routes.
LEMMA AdvanceInv ==
  ASSUME DeployInv, NEW w \in Workers,
         PickPort(w) \/ Displace(w) \/ WriteRoute(w)
  PROVE  DeployTypeOK' /\ DeployParts' /\ SameRows /\ SameJobs(w)
<1> DEFINE j == jobs[w]
           a == AppOf[j.scan]
<1>1. Busy(w) /\ j.at # "loaded"
  BY DEF PickPort, Displace, WriteRoute, Busy
<1>2. j \in Job /\ j.seen \in Row /\ a \in Apps
  BY <1>1, JobFacts DEF Job
<1>3. UNCHANGED <<status, scans, approvals, deployQueue, stable, rows, launched, again,
                  calls, called>>
  BY DEF PickPort, Displace, WriteRoute, tables, world
<1>4. SameRows
  BY <1>3 DEF SameRows
<1>5. CASE PickPort(w)
  <2>1. Backfilled(j) \in Port /\ j.seen.cid \in 0..MaxLaunches
    BY <1>2 DEF Backfilled, Job, Row
  <2>2. FreePorts \subseteq Port
    BY DeployAssumption DEF FreePorts, Ports, Port
  <2>3. SameJobs(w)
    <3>1. CASE jobs' = [jobs EXCEPT ![w] = [j EXCEPT !.at = "picked",
                           !.port = Backfilled(j), !.old = j.seen.cid]]
      <4>1. [j EXCEPT !.at = "picked", !.port = Backfilled(j), !.old = j.seen.cid] \in Job
        BY <1>2, <2>1 DEF Job
      <4>2. QED
        BY <1>1, <1>2, <3>1, <4>1 DEF SameJobs, DeployInv, DeployTypeOK, Job
    <3>2. ASSUME NEW p \in FreePorts,
                 jobs' = [jobs EXCEPT ![w] = [j EXCEPT !.at = "picked", !.port = p]]
          PROVE  SameJobs(w)
      <4>1. [j EXCEPT !.at = "picked", !.port = p] \in Job
        BY <1>2, <2>2 DEF Job
      <4>2. QED
        BY <1>1, <1>2, <3>2, <4>1 DEF SameJobs, DeployInv, DeployTypeOK, Job
    <3>3. QED
      BY <1>5, <3>1, <3>2 DEF PickPort, DeployInv, DeployTypeOK
  <2>4. UNCHANGED <<containers, routes, deployFaults, disturbed>>
    BY <1>5 DEF PickPort, world
  <2>5. JobHasRow' /\ CallHasRow' /\ RowHasScan' /\ ContainerHasScan'
    BY <1>3, <1>4, <2>3, <2>4, JobsKept, RowsKept
       DEF DeployInv, ContainerHasScan, Exists
  <2>6. QED
    BY <1>3, <1>4, <2>3, <2>4, <2>5
       DEF DeployParts, SameJobs, DeployInv, DeployTypeOK, TablesTypeOK
<1>6. CASE Displace(w)
  <2>1. SameJobs(w)
    <3>1. Locks(j) \in SUBSET {"app", "dep"}
      BY DEF Locks
    <3>2. [j EXCEPT !.at = "starting", !.locks = Locks(j)] \in Job
      BY <1>2, <3>1 DEF Job
    <3>3. jobs' = [jobs EXCEPT ![w] = [j EXCEPT !.at = "starting", !.locks = Locks(j)]]
      BY <1>6 DEF Displace, DeployInv, DeployTypeOK
    <3>4. QED
      BY <1>1, <1>2, <3>2, <3>3 DEF SameJobs, DeployInv, DeployTypeOK, Job
  <2>2. /\ containers' \in [Cids -> Container] /\ ContainerHasScan'
        /\ disturbed' \subseteq Apps /\ deployFaults' \in 0..MaxDeployFaults
    <3>1. CASE containers' = Removed(Named(a)) /\ UNCHANGED <<deployFaults, disturbed>>
      BY <1>3, <3>1, RemovedType, ContainersKept DEF DeployInv, DeployTypeOK
    <3>2. CASE DeployFault(a) /\ UNCHANGED containers
      BY <1>2, <1>3, <3>2, HistoryType
         DEF DeployInv, DeployTypeOK, ContainerHasScan, Exists
    <3>3. QED
      BY <1>6, <3>1, <3>2 DEF Displace
  <2>3. UNCHANGED routes
    BY <1>6 DEF Displace
  <2>4. JobHasRow' /\ CallHasRow' /\ RowHasScan'
    BY <1>3, <1>4, <2>1, JobsKept, RowsKept DEF DeployInv
  <2>5. QED
    BY <1>3, <1>4, <2>1, <2>2, <2>3, <2>4
       DEF DeployParts, SameJobs, DeployInv, DeployTypeOK, TablesTypeOK
<1>7. CASE WriteRoute(w)
  <2>1. SameJobs(w)
    <3>1. [j EXCEPT !.at = "routed"] \in Job
      BY <1>2 DEF Job
    <3>2. QED
      BY <1>1, <1>2, <1>7, <3>1 DEF WriteRoute, SameJobs, DeployInv, DeployTypeOK, Job
  <2>2. /\ routes' \in [Slugs -> Port]
        /\ disturbed' \subseteq Apps /\ deployFaults' \in 0..MaxDeployFaults
    <3>1. j.port \in Port
      BY <1>2 DEF Job
    <3>2. CASE /\ routes' = [routes EXCEPT ![SlugOf[a]] = j.port]
               /\ UNCHANGED <<deployFaults, disturbed>>
      BY <3>1, <3>2 DEF DeployInv, DeployTypeOK
    <3>3. CASE DeployFault(a) /\ UNCHANGED routes
      BY <1>2, <3>3, HistoryType DEF DeployInv, DeployTypeOK
    <3>4. QED
      BY <1>7, <3>2, <3>3 DEF WriteRoute
  <2>3. UNCHANGED containers
    BY <1>7 DEF WriteRoute
  <2>4. JobHasRow' /\ CallHasRow' /\ RowHasScan' /\ ContainerHasScan'
    BY <1>3, <1>4, <2>1, <2>3, JobsKept, RowsKept
       DEF DeployInv, ContainerHasScan, Exists
  <2>5. QED
    BY <1>3, <1>4, <2>1, <2>2, <2>3, <2>4
       DEF DeployParts, SameJobs, DeployInv, DeployTypeOK, TablesTypeOK
<1>8. QED
  BY <1>5, <1>6, <1>7

\* docker run, with success or not: the new container has the next number, the
\* scan's app and no namesake.
LEMMA LaunchInv ==
  ASSUME DeployInv, NEW w \in Workers, Launch(w) \/ LaunchRaises(w)
  PROVE  DeployTypeOK' /\ DeployParts' /\ SameRows /\ SameJobs(w)
<1> DEFINE j == jobs[w]
           a == AppOf[j.scan]
           made(at) == [state |-> at, app |-> a, scan |-> j.scan, port |-> j.port]
<1>1. Busy(w) /\ j.at # "loaded"
  BY DEF Launch, LaunchRaises, Busy
<1>2. j \in Job /\ a \in Apps /\ j.scan \in Scans
  BY <1>1, JobFacts
<1>3. UNCHANGED <<status, scans, approvals, deployQueue, stable, rows, routes, again,
                  calls, called, deployFaults, disturbed>>
  BY DEF Launch, LaunchRaises, tables
<1>4. SameRows
  BY <1>3 DEF SameRows
<1>5. ASSUME NEW at \in {"running", "created"}, launched < MaxLaunches, Named(a) = {},
             launched' = launched + 1,
             containers' = [containers EXCEPT ![launched + 1] = made(at)]
      PROVE  /\ containers' \in [Cids -> Container] /\ launched' \in Cids
             /\ ContainerHasScan'
  <2>1. launched \in Nat /\ launched + 1 \in Cids /\ launched' \in Cids
    BY <1>5, DeployAssumption DEF DeployInv, DeployTypeOK, Cids
  <2>2. made(at) \in Container
    BY <1>2 DEF Job, Container
  <2>3. containers' \in [Cids -> Container]
    BY <1>5, <2>1, <2>2 DEF DeployInv, DeployTypeOK
  <2>4. /\ containers'[launched + 1] = made(at)
        /\ \A c \in Cids \ {launched + 1} : containers'[c] = containers[c]
    BY <1>5, <2>1 DEF DeployInv, DeployTypeOK
  <2>5. \A c \in Cids : Exists(c)' =>
           (c <= launched /\ containers[c].scan \in Scans
              /\ AppOf[containers[c].scan] = containers[c].app)'
    BY <1>2, <1>5, <2>1, <2>4 DEF DeployInv, ContainerHasScan, Exists, Cids
  <2>6. \A c \in Cids : Exists(c) => containers[c].app # a
    BY <1>5 DEF Named
  <2>7. \A b, c \in Cids : Exists(b)' /\ Exists(c)'
                            /\ containers'[b].app = containers'[c].app => b = c
    BY <2>1, <2>4, <2>6 DEF DeployInv, ContainerHasScan, Exists
  <2>8. QED
    BY <2>1, <2>3, <2>5, <2>7 DEF ContainerHasScan
<1>6. /\ containers' \in [Cids -> Container] /\ launched' \in 0..MaxLaunches
      /\ ContainerHasScan'
  <2>1. CASE UNCHANGED <<containers, launched>>
    BY <2>1 DEF DeployInv, DeployTypeOK, ContainerHasScan, Exists
  <2>2. CASE Launch(w)
    BY <1>5, <2>2 DEF Launch, Cids
  <2>3. CASE LaunchRaises(w)
    BY <1>5, <2>1, <2>3 DEF LaunchRaises, Cids
  <2>4. QED
    BY <2>2, <2>3
<1>7. SameJobs(w)
  <2>1. CASE Launch(w)
    <3>1. launched + 1 \in 0..MaxLaunches
      BY <2>1, DeployAssumption DEF Launch, DeployInv, DeployTypeOK
    <3>2. [j EXCEPT !.at = "started", !.cid = launched + 1] \in Job
      BY <1>2, <3>1 DEF Job
    <3>3. jobs' = [jobs EXCEPT ![w] = [j EXCEPT !.at = "started", !.cid = launched + 1]]
      BY <2>1 DEF Launch, DeployInv, DeployTypeOK
    <3>4. QED
      BY <1>1, <1>2, <3>2, <3>3 DEF SameJobs, DeployInv, DeployTypeOK, Job
  <2>2. CASE LaunchRaises(w)
    <3>1. [j EXCEPT !.at = "failing"] \in Job
      BY <1>2 DEF Job
    <3>2. QED
      BY <1>1, <1>2, <2>2, <3>1
         DEF LaunchRaises, SameJobs, DeployInv, DeployTypeOK, Job
  <2>3. QED
    BY <2>1, <2>2
<1>8. JobHasRow' /\ CallHasRow' /\ RowHasScan'
  BY <1>3, <1>4, <1>7, JobsKept, RowsKept DEF DeployInv
<1>9. QED
  BY <1>3, <1>4, <1>6, <1>7, <1>8
     DEF DeployParts, SameJobs, DeployInv, DeployTypeOK, TablesTypeOK

\* The commit of a success: the row's scan is the one marked at the start.
LEMMA CommitRunningInv ==
  ASSUME DeployInv, NEW w \in Workers, CommitRunning(w)
  PROVE  DeployTypeOK' /\ DeployParts' /\ SameRows /\ SameJobs(w)
<1> DEFINE j == jobs[w]
           a == AppOf[j.scan]
           row == [rows[j.dep] EXCEPT !.status = "running", !.cid = j.cid,
                      !.named = TRUE,
                      !.port = Written(rows[j.dep].port, j.seen.port, j.port)]
           job == [j EXCEPT !.at = "stopping", !.locks = {}]
<1>1. Busy(w) /\ j.at # "loaded"
  BY DEF CommitRunning, Busy
<1>2. /\ a \in Apps /\ j \in Job /\ j.port \in Port /\ j.cid \in 0..MaxLaunches
      /\ j.dep \in Deployments /\ rows[j.dep] \in Row /\ rows[j.dep].status # "none"
  BY <1>1, JobFacts DEF Job
<1>3. rows' \in [Deployments -> Row] /\ SameRows
  <2>1. rows' = [rows EXCEPT ![j.dep] = row]
    BY <1>2 DEF CommitRunning, DeployInv, DeployTypeOK
  <2>2. Written(rows[j.dep].port, j.seen.port, j.port) \in Port
    BY <1>2 DEF Written, Row
  <2>3. row \in Row
    BY <1>2, <2>2 DEF Row, RowStatus
  <2>4. row.status = "running" /\ row.app = rows[j.dep].app /\ row.scan = rows[j.dep].scan
    BY <1>2 DEF Row
  <2> HIDE DEF row
  <2>5. QED
    BY <1>2, <2>1, <2>3, <2>4 DEF DeployInv, DeployTypeOK, SameRows
<1>4. status' \in [Apps -> AppStatus]
  <2>1. status[a] \in AppStatus
    BY <1>2 DEF DeployInv, DeployTypeOK, TablesTypeOK
  <2>2. Written(status[a], j.seenStatus, "deployed") \in AppStatus
    BY <2>1 DEF Written, AppStatus
  <2>3. QED
    BY <1>2, <2>2 DEF CommitRunning, DeployInv, DeployTypeOK, TablesTypeOK
<1>5. stable' \in [Apps -> Port]
  <2>1. Written(stable[a], j.seenStable, j.port) \in Port
    BY <1>2 DEF Written, DeployInv, DeployTypeOK
  <2>2. QED
    BY <1>2, <2>1 DEF CommitRunning, DeployInv, DeployTypeOK
<1>6. SameJobs(w)
  <2>1. job \in Job
    BY <1>2 DEF Job
  <2>2. jobs' = [jobs EXCEPT ![w] = job]
    BY DEF CommitRunning, DeployInv, DeployTypeOK
  <2>3. QED
    BY <1>1, <1>2, <2>1, <2>2 DEF SameJobs, DeployInv, DeployTypeOK, Job
<1>7. UNCHANGED <<scans, approvals, deployQueue, containers, launched, routes, again,
                  calls, called, deployFaults, disturbed>>
  BY DEF CommitRunning
<1>8. DeployTypeOK'
  BY <1>3, <1>4, <1>5, <1>6, <1>7 DEF SameJobs, DeployInv, DeployTypeOK, TablesTypeOK
<1>9. JobHasRow' /\ CallHasRow' /\ RowHasScan' /\ ContainerHasScan'
  BY <1>3, <1>6, <1>7, JobsKept, RowsKept DEF DeployInv, ContainerHasScan, Exists
<1>10. QED
  BY <1>3, <1>6, <1>8, <1>9 DEF DeployParts

\* A task that ends, raises or dies leaves the rows to others.
LEMMA ReleaseInv ==
  ASSUME DeployInv, NEW w \in Workers,
         \/ CommitFails(w) \/ LaunchFailsTwice(w) \/ StopOld(w)
         \/ WorkerRaises(w) \/ WorkerDies(w)
  PROVE  DeployTypeOK' /\ DeployParts' /\ SameRows /\ SameJobs(w)
<1> DEFINE j == jobs[w]
           a == AppOf[j.scan]
<1>1. Busy(w)
  BY DEF CommitFails, LaunchFailsTwice, StopOld, WorkerRaises, WorkerDies, Busy
<1>2. a \in Apps /\ j.scan \in Scans /\ j.tries \in 0..MaxRetries
  BY <1>1, JobFacts DEF Job
<1>3. jobs' = [jobs EXCEPT ![w] = IdleJob]
  BY DEF CommitFails, LaunchFailsTwice, StopOld, WorkerRaises, WorkerDies, Raise
<1>4. again' \in [Scans -> [1..MaxRetries -> Nat]]
  <2>1. CASE again' = Redelivered(again, j.scan, j.tries)
    BY <1>2, <2>1, RedeliveredType DEF DeployInv, DeployTypeOK
  <2>2. CASE UNCHANGED again
    BY <2>2 DEF DeployInv, DeployTypeOK
  <2>3. QED
    BY <2>1, <2>2
       DEF CommitFails, LaunchFailsTwice, StopOld, WorkerRaises, WorkerDies, Raise
<1>5. disturbed' \subseteq Apps /\ deployFaults' \in 0..MaxDeployFaults
  <2>1. DeployFault(a) \/ UNCHANGED <<deployFaults, disturbed>>
    BY DEF CommitFails, LaunchFailsTwice, StopOld, WorkerRaises, WorkerDies
  <2>2. QED
    BY <1>2, <2>1, HistoryType DEF DeployInv, DeployTypeOK
<1>6. /\ UNCHANGED <<status, scans, approvals, deployQueue, stable, rows, launched,
                     routes, calls, called>>
  BY DEF CommitFails, LaunchFailsTwice, StopOld, WorkerRaises, WorkerDies, tables, world
<1>7. containers' \in [Cids -> Container] /\ ContainerHasScan'
  <2>1. ASSUME NEW C, containers' = Removed(C)
        PROVE  containers' \in [Cids -> Container] /\ ContainerHasScan'
    BY <1>6, <2>1, RemovedType, ContainersKept DEF DeployInv, DeployTypeOK
  <2>2. CASE UNCHANGED containers
    BY <1>6, <2>2 DEF DeployInv, DeployTypeOK, ContainerHasScan, Exists
  <2>3. CASE CommitFails(w) \/ StopOld(w)
    BY <2>1, <2>3 DEF CommitFails, StopOld
  <2>4. QED
    BY <2>2, <2>3 DEF LaunchFailsTwice, WorkerRaises, WorkerDies, world
<1>8. SameRows /\ SameJobs(w)
  BY <1>3, <1>6, BlankTypes DEF SameRows, SameJobs, DeployInv, DeployTypeOK
<1>9. JobHasRow' /\ CallHasRow' /\ RowHasScan'
  BY <1>6, <1>8, JobsKept, RowsKept DEF DeployInv
<1>10. DeployTypeOK'
  BY <1>4, <1>5, <1>6, <1>7, <1>8 DEF SameJobs, DeployInv, DeployTypeOK, TablesTypeOK
<1>11. QED
  BY <1>7, <1>8, <1>9, <1>10 DEF DeployParts

\* A step of a worker, by the lemmas above.
LEMMA WorkerStepInv ==
  ASSUME DeployInv, NEW w \in Workers, WorkerStep(w)
  PROVE  DeployTypeOK' /\ DeployParts'
<1>1. CASE \E s \in Scans : Take(w, s) \/ \E n \in 1..MaxRetries : TakeAgain(w, s, n)
  BY <1>1, TakeInv
<1>2. CASE MarkBuilding(w)
  BY <1>2, MarkBuildingInv
<1>3. CASE BuildFails(w) \/ PortsExhausted(w) \/ LaunchFails(w)
  BY <1>3, FailuresInv
<1>4. CASE PickPort(w) \/ Displace(w) \/ WriteRoute(w)
  BY <1>4, AdvanceInv
<1>5. CASE Launch(w) \/ LaunchRaises(w)
  BY <1>5, LaunchInv
<1>6. CASE CommitRunning(w)
  BY <1>6, CommitRunningInv
<1>7. CASE \/ CommitFails(w) \/ LaunchFailsTwice(w) \/ StopOld(w)
           \/ WorkerRaises(w) \/ WorkerDies(w)
  BY <1>7, ReleaseInv
<1>8. QED
  BY <1>1, <1>2, <1>3, <1>4, <1>5, <1>6, <1>7 DEF WorkerStep

-----------------------------------------------------------------------------
(* Requests *)

\* The first half of a request: it counts, and is about an app and its row.
LEMMA CallBegins ==
  ASSUME DeployInv, NEW u \in Callers, NEW a \in Apps, NEW call \in Call,
         Call1(u, a, call), call.at = "exposing" \/ call.dep \in RowsOf(call.app),
         UNCHANGED <<rows, deployFaults>>
  PROVE  /\ calls' \in [Callers -> Call] /\ called' \in 0..MaxCalls
         /\ disturbed' \subseteq Apps /\ CallHasRow'
<1>1. disturbed' \subseteq Apps
  BY HistoryType DEF Call1, DeployInv, DeployTypeOK
<1>2. calls' \in [Callers -> Call] /\ called' \in 0..MaxCalls
  BY DeployAssumption DEF Call1, DeployInv, DeployTypeOK
<1>3. CallHasRow'
  BY DEF Call1, DeployInv, DeployTypeOK, CallHasRow, RowsOf
<1>4. QED
  BY <1>1, <1>2, <1>3

\* Reading: stop (which stops the container at once), restart, poll, expose.
LEMMA CallReadInv ==
  ASSUME DeployInv, NEW u \in Callers,
         \/ \E d \in Deployments : StopContainer(u, d) \/ RestartSend(u, d) \/ PollRead(u, d)
         \/ \E a \in Apps : ExposeRead(u, a)
  PROVE  DeployTypeOK' /\ DeployParts'
<1>1. ASSUME NEW d \in Deployments, rows[d].status # "none"
      PROVE  /\ d \in RowsOf(rows[d].app) /\ rows[d].app \in Apps
             /\ rows[d].status \in RowStatus /\ status[rows[d].app] \in AppStatus
  BY <1>1 DEF RowsOf, DeployInv, DeployTypeOK, TablesTypeOK, Row
<1>2. ASSUME UNCHANGED <<jobs, rows>>, CallHasRow', calls' \in [Callers -> Call],
             called' \in 0..MaxCalls, disturbed' \subseteq Apps,
             deployQueue' \in [Scans -> Nat],
             containers' \in [Cids -> Container], ContainerHasScan',
             UNCHANGED <<status, scans, approvals, stable, launched, routes, again,
                         deployFaults>>
      PROVE  DeployTypeOK' /\ DeployParts'
  <2>1. JobHasRow' /\ RowHasScan'
    BY <1>2, RowsKept DEF DeployInv, SameRows
  <2>2. DeployTypeOK'
    BY <1>2 DEF DeployInv, DeployTypeOK, TablesTypeOK
  <2>3. QED
    BY <1>2, <2>1, <2>2 DEF DeployParts
<1>3. /\ deployQueue \in [Scans -> Nat] /\ containers \in [Cids -> Container]
      /\ UNCHANGED <<containers, launched>> => ContainerHasScan'
  BY DEF DeployInv, DeployTypeOK, TablesTypeOK, ContainerHasScan, Exists
<1>4. ASSUME NEW d \in Deployments, StopContainer(u, d)
      PROVE  DeployTypeOK' /\ DeployParts'
  <2> DEFINE call == [IdleCall EXCEPT !.at = "stopping", !.dep = d, !.app = rows[d].app]
  <2>1. rows[d].status # "none"
    BY <1>4 DEF StopContainer
  <2>2. call \in Call /\ call.dep = d /\ call.app = rows[d].app
    BY <1>1, <2>1, BlankTypes DEF Call, IdleCall
  <2>3. /\ Call1(u, rows[d].app, call)
        /\ containers' = Removed({rows[d].cid} \cap Cids)
        /\ UNCHANGED <<status, scans, approvals, deployQueue, stable, rows, launched,
                       routes, again, jobs, deployFaults>>
    BY <1>4 DEF StopContainer, tables
  <2> HIDE DEF call
  <2>4. /\ calls' \in [Callers -> Call] /\ called' \in 0..MaxCalls
        /\ disturbed' \subseteq Apps /\ CallHasRow'
    BY <1>1, <2>1, <2>2, <2>3, CallBegins
  <2>5. containers' \in [Cids -> Container] /\ ContainerHasScan'
    BY <2>3, RemovedType, ContainersKept DEF DeployInv, DeployTypeOK
  <2>6. QED
    BY <1>2, <1>3, <2>3, <2>4, <2>5
<1>5. ASSUME NEW d \in Deployments, RestartSend(u, d)
      PROVE  DeployTypeOK' /\ DeployParts'
  <2> DEFINE call == [IdleCall EXCEPT !.at = "restarting", !.dep = d, !.app = rows[d].app,
                         !.seenStatus = status[rows[d].app], !.seenRow = rows[d].status]
  <2>1. rows[d].status # "none"
    BY <1>5 DEF RestartSend
  <2>2. call \in Call /\ call.dep = d /\ call.app = rows[d].app
    BY <1>1, <2>1, BlankTypes DEF Call, IdleCall
  <2>3. /\ Call1(u, rows[d].app, call)
        /\ UNCHANGED <<status, scans, approvals, stable, rows, containers, launched,
                       routes, again, jobs, deployFaults>>
    BY <1>5 DEF RestartSend, world
  <2> HIDE DEF call
  <2>4. /\ calls' \in [Callers -> Call] /\ called' \in 0..MaxCalls
        /\ disturbed' \subseteq Apps /\ CallHasRow'
    BY <1>1, <2>1, <2>2, <2>3, CallBegins
  <2>5. deployQueue' \in [Scans -> Nat]
    <3>1. rows[d].scan \in Scans /\ Enqueue(rows[d].scan)
      BY <1>5, <2>1 DEF RestartSend, DeployInv, RowHasScan
    <3>2. QED
      BY <1>3, <3>1 DEF Enqueue
  <2>6. QED
    BY <1>2, <1>3, <2>3, <2>4, <2>5
<1>6. ASSUME NEW d \in Deployments, PollRead(u, d)
      PROVE  DeployTypeOK' /\ DeployParts'
  <2> DEFINE call == [IdleCall EXCEPT !.at = "polling", !.dep = d, !.app = rows[d].app]
  <2>1. rows[d].status # "none"
    BY <1>6 DEF PollRead
  <2>2. call \in Call /\ call.dep = d /\ call.app = rows[d].app
    BY <1>1, <2>1, BlankTypes DEF Call, IdleCall
  <2>3. /\ Call1(u, rows[d].app, call)
        /\ UNCHANGED <<status, scans, approvals, deployQueue, stable, rows, containers,
                       launched, routes, again, jobs, deployFaults>>
    BY <1>6 DEF PollRead, tables, world
  <2> HIDE DEF call
  <2>4. /\ calls' \in [Callers -> Call] /\ called' \in 0..MaxCalls
        /\ disturbed' \subseteq Apps /\ CallHasRow'
    BY <1>1, <2>1, <2>2, <2>3, CallBegins
  <2>5. QED
    BY <1>2, <1>3, <2>3, <2>4
<1>7. ASSUME NEW a \in Apps, ExposeRead(u, a)
      PROVE  DeployTypeOK' /\ DeployParts'
  <2> DEFINE call == [IdleCall EXCEPT !.at = "exposing", !.app = a, !.port = stable[a]]
  <2>1. call \in Call /\ call.at = "exposing"
    BY BlankTypes DEF Call, IdleCall, DeployInv, DeployTypeOK
  <2>2. /\ Call1(u, a, call)
        /\ UNCHANGED <<status, scans, approvals, deployQueue, stable, rows, containers,
                       launched, routes, again, jobs, deployFaults>>
    BY <1>7 DEF ExposeRead, tables, world
  <2> HIDE DEF call
  <2>3. /\ calls' \in [Callers -> Call] /\ called' \in 0..MaxCalls
        /\ disturbed' \subseteq Apps /\ CallHasRow'
    BY <2>1, <2>2, CallBegins
  <2>4. QED
    BY <1>2, <1>3, <2>2, <2>3
<1>8. QED
  BY <1>4, <1>5, <1>6, <1>7

\* Committing: the row a request writes is still there.
LEMMA CallCommitInv ==
  ASSUME DeployInv, NEW u \in Callers,
         \/ StopCommit(u) \/ RestartCommit(u) \/ PollCommit(u) \/ ExposeWrite(u)
         \/ CallDies(u)
  PROVE  DeployTypeOK' /\ DeployParts' /\ SameRows
<1> USE DeployAssumption
<1> DEFINE c == calls[u]
<1>1. c \in Call /\ c.app \in Apps /\ c.dep \in Deployments \cup {NoDep} /\ c.port \in Port
  BY DEF DeployInv, DeployTypeOK, Call
<1>2. /\ calls' = [calls EXCEPT ![u] = IdleCall]
      /\ UNCHANGED <<scans, approvals, deployQueue, stable, containers, launched, again,
                     jobs, called>>
  BY DEF StopCommit, RestartCommit, PollCommit, ExposeWrite, CallDies, tables, world
<1>3. status' \in [Apps -> AppStatus]
  <2>1. Written(status[c.app], c.seenStatus, "deployed") \in AppStatus
    BY <1>1 DEF Written, AppStatus, DeployInv, DeployTypeOK, TablesTypeOK
  <2>2. UNCHANGED status \/ status' = [status EXCEPT ![c.app] = "stopped"]
        \/ status' = [status EXCEPT ![c.app] =
                         Written(status[c.app], c.seenStatus, "deployed")]
    BY DEF StopCommit, RestartCommit, PollCommit, ExposeWrite, CallDies, tables,
           DeployInv, DeployTypeOK, TablesTypeOK
  <2>3. QED
    BY <1>1, <2>1, <2>2 DEF AppStatus, DeployInv, DeployTypeOK, TablesTypeOK
<1>4. routes' \in [Slugs -> Port]
  <2>1. UNCHANGED routes \/ routes' = [routes EXCEPT ![SlugOf[c.app]] = NoPort]
        \/ routes' = [routes EXCEPT ![SlugOf[c.app]] = c.port]
    BY DEF StopCommit, RestartCommit, PollCommit, ExposeWrite, CallDies, world
  <2>2. QED
    <3>1. NoPort \in Port /\ routes \in [Slugs -> Port]
      BY DEF Port, NoPort, DeployInv, DeployTypeOK
    <3>2. QED
      BY <1>1, <2>1, <3>1
<1>5. disturbed' \subseteq Apps /\ deployFaults' \in 0..MaxDeployFaults
  <2>1. DeployFault(c.app) \/ UNCHANGED <<deployFaults, disturbed>>
    BY DEF StopCommit, RestartCommit, PollCommit, ExposeWrite, CallDies
  <2>2. QED
    BY <1>1, <2>1, HistoryType DEF DeployInv, DeployTypeOK
<1>6. rows' \in [Deployments -> Row] /\ SameRows
  <2>1. CASE UNCHANGED rows
    BY <2>1 DEF SameRows, DeployInv, DeployTypeOK
  <2>2. ASSUME NEW new \in RowStatus \ {"none"}, c.dep \in RowsOf(c.app),
               rows' = [rows EXCEPT ![c.dep].status = new]
        PROVE  rows' \in [Deployments -> Row] /\ SameRows
    <3>1. /\ c.dep \in Deployments /\ rows[c.dep].status # "none"
          /\ rows \in [Deployments -> Row] /\ rows[c.dep] \in Row
      BY <2>2 DEF RowsOf, DeployInv, DeployTypeOK
    <3>2. [rows[c.dep] EXCEPT !.status = new] \in Row
      BY <3>1 DEF Row
    <3>3. rows' = [rows EXCEPT ![c.dep] = [rows[c.dep] EXCEPT !.status = new]]
      BY <2>2, <3>1
    <3>4. QED
      BY <3>1, <3>2, <3>3 DEF SameRows, Row
  <2>3. CASE StopCommit(u) \/ RestartCommit(u) \/ PollCommit(u)
    <3>1. c.dep \in RowsOf(c.app)
      BY <2>3 DEF StopCommit, RestartCommit, PollCommit, DeployInv, CallHasRow
    <3>2. Written(rows[c.dep].status, c.seenRow, "starting") \in RowStatus \ {"none"}
      BY <3>1 DEF Written, RowsOf, DeployInv, DeployTypeOK, Row, RowStatus
    <3>3. \/ rows' = [rows EXCEPT ![c.dep].status = "stopped"]
          \/ rows' = [rows EXCEPT ![c.dep].status =
                         Written(rows[c.dep].status, c.seenRow, "starting")]
          \/ rows' = [rows EXCEPT ![c.dep].status = "running"]
      BY <2>3 DEF StopCommit, RestartCommit, PollCommit
    <3>4. {"stopped", "running"} \subseteq RowStatus \ {"none"}
      BY DEF RowStatus
    <3>5. QED
      BY <2>2, <3>1, <3>2, <3>3, <3>4
  <2>4. QED
    BY <2>1, <2>3 DEF ExposeWrite, CallDies, world
<1>7. calls' \in [Callers -> Call]
  BY <1>2, BlankTypes DEF DeployInv, DeployTypeOK
<1>8. CallHasRow'
  BY <1>2, <1>6 DEF DeployInv, DeployTypeOK, CallHasRow, SameRows, RowsOf, IdleCall
<1>9. JobHasRow' /\ RowHasScan' /\ ContainerHasScan'
  BY <1>2, <1>6, RowsKept DEF DeployInv, ContainerHasScan, Exists
<1>10. DeployTypeOK'
  BY <1>2, <1>3, <1>4, <1>5, <1>6, <1>7 DEF DeployInv, DeployTypeOK, TablesTypeOK
<1>11. QED
  BY <1>6, <1>8, <1>9, <1>10 DEF DeployParts

\* What the workers and the requests do keeps the inductive invariant.
LEMMA DeployStepInv == DeployInv /\ DeployStep => DeployInv'
<1> SUFFICES ASSUME DeployInv, DeployStep PROVE DeployTypeOK' /\ DeployParts'
  BY DEF DeployInv, DeployParts
<1>1. ASSUME NEW w \in Workers, WorkerStep(w) PROVE DeployTypeOK' /\ DeployParts'
  BY <1>1, WorkerStepInv
<1>2. ASSUME NEW u \in Callers, CallStep(u) PROVE DeployTypeOK' /\ DeployParts'
  BY <1>2, CallReadInv, CallCommitInv DEF CallStep
<1>3. QED
  BY <1>1, <1>2 DEF DeployStep

-----------------------------------------------------------------------------
(* The whole *)

\* Steps that leave the deploy side alone keep what is known of it.
LEMMA ElsewhereInv ==
  ASSUME DeployInv, TablesTypeOK', UNCHANGED deployVars
  PROVE  DeployInv'
BY DEF DeployInv, DeployTypeOK, JobHasRow, CallHasRow, RowHasScan, ContainerHasScan,
       deployVars, Busy, RowsOf, Exists

\* An upload, an approval or a return writes rows of their types.
LEMMA ReviewSideType ==
  ASSUME TablesTypeOK, ReviewSideStep
  PROVE  TablesTypeOK'
<1> USE TablesAssumption
<1>1. PICK s \in Scans :
         ReviewSideUploads(s) \/ ReviewSideApproves(s) \/ ReviewSideReturns(s)
  BY DEF ReviewSideStep
<1> DEFINE a == AppOf[s]
<1>2. a \in Apps /\ LatestApproved(a) \in Scans \cup {NoScan} /\ scans[s] \in ScanRow
  BY LatestApprovedType DEF TablesTypeOK
<1>3. CASE ReviewSideUploads(s)
  <2>1. scans' \in [Scans -> ScanRow]
    <3>1. /\ [scans[s] EXCEPT !.status = "queued"] \in ScanRow
          /\ [scans[s] EXCEPT !.status = "queued", !.type = "update",
                              !.prev = LatestApproved(a)] \in ScanRow
      BY <1>2 DEF ScanRow, ScanStatus
    <3>2. \/ scans' = [scans EXCEPT ![s] = [scans[s] EXCEPT !.status = "queued"]]
          \/ scans' = [scans EXCEPT ![s] = [scans[s] EXCEPT !.status = "queued",
                          !.type = "update", !.prev = LatestApproved(a)]]
      BY <1>3 DEF ReviewSideUploads, TablesTypeOK
    <3>3. QED
      BY <3>1, <3>2 DEF TablesTypeOK
  <2>2. QED
    BY <1>2, <1>3, <2>1 DEF ReviewSideUploads, TablesTypeOK, AppStatus
<1>4. CASE ReviewSideApproves(s)
  <2>1. scans' \in [Scans -> ScanRow]
    BY <1>4 DEF ReviewSideApproves, TablesTypeOK, ScanRow, ScanStatus
  <2>2. approvals' \in [Scans -> ApprovalRow]
    BY <1>4, NowType DEF ReviewSideApproves, TablesTypeOK, ApprovalRow
  <2>3. QED
    BY <1>2, <1>4, <2>1, <2>2 DEF ReviewSideApproves, TablesTypeOK, AppStatus, Enqueue
<1>5. CASE ReviewSideReturns(s)
  <2>1. scans' \in [Scans -> ScanRow]
    BY <1>5 DEF ReviewSideReturns, TablesTypeOK, ScanRow, ScanStatus
  <2>2. QED
    BY <1>2, <1>5, <2>1 DEF ReviewSideReturns, TablesTypeOK, AppStatus
<1>6. QED
  BY <1>1, <1>3, <1>4, <1>5

\* Before anything runs, the deploy side has nothing in hand.
LEMMA DeployLocalInitInv ==
  ASSUME TablesTypeOK, DeployLocalInit
  PROVE  DeployInv
<1>1. DeployTypeOK
  BY BlankTypes, TablesAssumption, DeployAssumption
     DEF DeployLocalInit, DeployTypeOK, Port, NoPort
<1>2. JobHasRow /\ CallHasRow
  BY DEF DeployLocalInit, JobHasRow, CallHasRow, Busy, IdleJob, IdleCall
<1>3. RowHasScan /\ ContainerHasScan
  BY DEF DeployLocalInit, RowHasScan, ContainerHasScan, Exists, NoRow, NoContainer
<1>4. QED
  BY <1>1, <1>2, <1>3 DEF DeployInv

\* A job and a request always find the deployments row they write, a row and a
\* container are about a scan of their own app, and an app has one container.
THEOREM DeployInductiveInvariant == DeploySpec => []DeployInv
<1>1. DeployInit => DeployInv
  <2>1. TablesInit => TablesTypeOK
    BY DEF TablesInit, TablesTypeOK, AppStatus, NoScanRow, ScanRow, ScanStatus,
           NoApprovalRow, ApprovalRow
  <2>2. QED
    BY <2>1, DeployLocalInitInv DEF DeployInit
<1>2. DeployInv /\ [DeployNext]_deployAll => DeployInv'
  <2> SUFFICES ASSUME DeployInv, [DeployNext]_deployAll PROVE DeployInv'
    OBVIOUS
  <2>1. CASE DeployStep
    BY <2>1, DeployStepInv
  <2>2. CASE ReviewSideStep
    <3>1. UNCHANGED deployVars
      BY <2>2 DEF ReviewSideStep, ReviewSideUploads, ReviewSideApproves, ReviewSideReturns
    <3>2. QED
      BY <2>2, <3>1, ReviewSideType, ElsewhereInv DEF DeployInv, DeployTypeOK
  <2>3. CASE UNCHANGED deployAll
    BY <2>3, ElsewhereInv DEF deployAll, tables, DeployInv, DeployTypeOK, TablesTypeOK
  <2>4. QED
    BY <2>1, <2>2, <2>3 DEF DeployNext
<1>3. QED
  BY <1>1, <1>2, PTL DEF DeploySpec

\* Every variable of the deploy side keeps its type: no message is retried more
\* often than it may be, no container is created beyond the declared ones, and
\* no commit writes a status, a port or an id that is not one.
THEOREM DeployTypeCorrect == DeploySpec => []DeployTypeOK
<1>1. DeployInv => DeployTypeOK
  BY DEF DeployInv
<1>2. QED
  BY <1>1, DeployInductiveInvariant, PTL

-----------------------------------------------------------------------------
(* Container ids *)

\* Docker made container c, for app a.
Made(c, a) == c \in 1..launched /\ containers[c].app = a

\* A row and a job only know containers of their own app.
CidsAreOwn ==
    /\ \A d \in Deployments : rows[d].status # "none" /\ rows[d].cid # NoCid =>
          Made(rows[d].cid, rows[d].app)
    /\ \A w \in Workers : Busy(w) =>
          \A c \in {jobs[w].cid, jobs[w].old, jobs[w].seen.cid} \ {NoCid} :
             Made(c, AppOf[jobs[w].scan])

-----------------------------------------------------------------------------
(* An app on which no two activities ever overlapped *)

\* One activity at a time.
Alone(a) ==
    /\ \A v, w \in Workers : WorksOn(v, a) /\ WorksOn(w, a) => v = w
    /\ \A t, u \in Callers : CallsOn(t, a) /\ CallsOn(u, a) => t = u
    /\ \A w \in Workers, u \in Callers : ~(WorksOn(w, a) /\ CallsOn(u, a))

OneRow(a) == \A d, e \in RowsOf(a) : d = e

\* None of the app's containers runs.
Down(a) == \A c \in Named(a) : ~Running(c)

RouteIs(a, port) == OwnSlug(a) => routes[SlugOf[a]] = port

\* A container that runs is the row's, and what the row, the app and the route
\* say leads to it.
Led(a) ==
    \A c \in Named(a) : Running(c) =>
        \E d \in RowsOf(a) :
            /\ rows[d].cid = c /\ rows[d].port = containers[c].port
            /\ stable[a] = rows[d].port /\ RouteIs(a, rows[d].port)

\* What the row says is so.
Told(a) ==
    \A d \in RowsOf(a) :
        /\ rows[d].status = "running" =>
              rows[d].cid \in Named(a) /\ Running(rows[d].cid)
        /\ rows[d].status = "stopped" => Down(a)

\* ... and an app that was stopped has no route.
Hidden(a) == status[a] = "stopped" => RouteIs(a, NoPort)

Settled(a) == Led(a) /\ Told(a) /\ Hidden(a)

\* The container job j launched runs, on the port it picked.
Launched(j, a) ==
    /\ j.cid \in Named(a) /\ Running(j.cid) /\ containers[j.cid].port = j.port

\* How far job j has taken app a.
JobGoes(j, a) ==
    /\ j.at # "stopping" =>
          /\ j.seenStable = stable[a]
          /\ status[a] = "stopped" => j.seenStatus = "stopped"
    /\ j.at = "loaded" =>
          /\ Settled(a)
          /\ j.dep = NoDep => RowsOf(a) = {}
          /\ j.dep # NoDep => j.seen = rows[j.dep]
    /\ j.at \notin {"loaded", "stopping"} =>
          rows[j.dep].status = "building" /\ j.seen = rows[j.dep]
    /\ j.at \in {"building", "picked"} => Led(a)
    /\ j.at = "starting" => Named(a) = {}
    /\ j.at = "failing" => Down(a)
    /\ j.at \in {"started", "routed"} => Launched(j, a)
    /\ j.at = "routed" => RouteIs(a, j.port)
    /\ j.at = "stopping" => Settled(a)
    /\ j.at \in {"starting", "started", "routed", "stopping"} => j.old \notin Named(a)

\* How far request c has.
CallGoes(c, a) ==
    /\ c.at = "stopping" => Down(a)
    /\ c.at # "stopping" => Settled(a)
    /\ c.at = "restarting" => c.seenRow = rows[c.dep].status
    /\ c.at = "polling" => rows[c.dep].cid \in Named(a) /\ Running(rows[c.dep].cid)
    /\ c.at = "exposing" => c.port = stable[a] /\ status[a] # "stopped"

CalmApp(a) ==
    /\ Alone(a)
    /\ OneRow(a)
    /\ \A w \in Workers : WorksOn(w, a) => JobGoes(jobs[w], a)
    /\ \A u \in Callers : CallsOn(u, a) => CallGoes(calls[u], a)
    /\ ~Active(a) => Settled(a)

CalmInv == CidsAreOwn /\ \A a \in Apps \ disturbed : CalmApp(a)

-----------------------------------------------------------------------------
(* What a step on one app leaves of the others *)

\* Docker removes containers of app b, or makes one that b had none of before.
HostStep(b) ==
    \/ UNCHANGED <<containers, launched>>
    \/ /\ UNCHANGED launched
       /\ \E C \in SUBSET (0..MaxLaunches) :
             /\ containers' = Removed(C)
             /\ \A c \in C : c \in Cids /\ Exists(c) => containers[c].app = b
    \/ /\ launched < MaxLaunches /\ launched' = launched + 1
       /\ Named(b) = {}
       /\ \E at \in {"running", "created"}, s \in Scans, p \in Port :
             containers' = [containers EXCEPT ![launched + 1] =
                               [state |-> at, app |-> b, scan |-> s, port |-> p]]

\* One row is written: b's, or a new one for b.
RowStep(b) ==
    \/ UNCHANGED rows
    \/ \E d \in Deployments :
          /\ rows[d].status = "none" \/ rows[d].app = b
          /\ rows'[d].app = b
          /\ \A e \in Deployments \ {d} : rows'[e] = rows[e]

\* The columns and the route of no other app are written.
AppStep(b) ==
    \A a \in Apps \ {b} :
        /\ stable'[a] = stable[a] /\ status'[a] = status[a]
        /\ OwnSlug(a) => routes'[SlugOf[a]] = routes[SlugOf[a]]

StepOn(b) == HostStep(b) /\ RowStep(b) /\ AppStep(b)

\* A container stays its app's.
LEMMA MadeKept ==
  ASSUME DeployInv, NEW b \in Apps, HostStep(b), NEW c, NEW a, Made(c, a)
  PROVE  Made(c, a)'
<1> USE DeployAssumption
<1>1. launched \in Nat /\ launched <= MaxLaunches /\ c \in Cids /\ c # launched + 1
  BY DEF DeployInv, DeployTypeOK, Made, Cids
<1>2. CASE UNCHANGED <<containers, launched>>
  BY <1>2 DEF Made
<1>3. ASSUME NEW C, containers' = Removed(C), UNCHANGED launched
      PROVE  Made(c, a)'
  BY <1>1, <1>3, RemovedType DEF Made, DeployInv, DeployTypeOK
<1>4. ASSUME launched' = launched + 1, NEW x,
             containers' = [containers EXCEPT ![launched + 1] = x]
      PROVE  Made(c, a)'
  BY <1>1, <1>4 DEF Made, DeployInv, DeployTypeOK
<1>5. QED
  BY <1>2, <1>3, <1>4 DEF HostStep

\* The rows and the containers of app a are as they were.
SameRowsOf(a) == RowsOf(a)' = RowsOf(a) /\ \A d \in RowsOf(a) : rows'[d] = rows[d]

SameNamed(a) == Named(a)' = Named(a) /\ \A c \in Named(a) : containers'[c] = containers[c]

LEMMA StepElsewhere ==
  ASSUME DeployInv, NEW b \in Apps, StepOn(b), NEW a \in Apps \ {b}
  PROVE  SameRowsOf(a) /\ SameNamed(a)
<1> USE DeployAssumption
<1>1. SameRowsOf(a)
  BY DEF StepOn, RowStep, SameRowsOf, RowsOf
<1>2. SameNamed(a)
  <2>1. CASE UNCHANGED <<containers, launched>>
    BY <2>1 DEF SameNamed, Named, Exists
  <2>2. ASSUME NEW C, containers' = Removed(C),
               \A c \in C : c \in Cids /\ Exists(c) => containers[c].app = b
        PROVE  SameNamed(a)
    <3>1. \A c \in Cids : c \in Named(a) => c \notin C
      BY <2>2 DEF Named
    <3>2. \A c \in Cids : c \in Named(a) => containers'[c] = containers[c]
      BY <2>2, <3>1 DEF Removed
    <3>3. \A c \in Cids : Exists(c)' /\ containers'[c].app = a
                             => Exists(c) /\ containers[c].app = a
      BY <2>2, RemovedType DEF DeployInv, DeployTypeOK
    <3>4. QED
      BY <3>2, <3>3 DEF SameNamed, Named, Exists
  <2>3. ASSUME launched < MaxLaunches,
               NEW at \in {"running", "created"}, NEW s \in Scans, NEW p \in Port,
               containers' = [containers EXCEPT ![launched + 1] =
                                 [state |-> at, app |-> b, scan |-> s, port |-> p]]
        PROVE  SameNamed(a)
    <3>1. launched \in Nat /\ launched + 1 \in Cids /\ ~Exists(launched + 1)
      <4>1. launched \in Nat /\ launched + 1 \in Cids
        BY <2>3 DEF DeployInv, DeployTypeOK, Cids
      <4>2. ~(launched + 1 <= launched)
        BY <4>1
      <4>3. QED
        BY <4>1, <4>2 DEF DeployInv, ContainerHasScan
    <3>2. /\ containers'[launched + 1].app = b
          /\ \A c \in Cids \ {launched + 1} : containers'[c] = containers[c]
      BY <2>3, <3>1 DEF DeployInv, DeployTypeOK
    <3>3. QED
      BY <3>1, <3>2 DEF SameNamed, Named, Exists
  <2>4. QED
    BY <2>1, <2>2, <2>3 DEF StepOn, HostStep
<1>3. QED
  BY <1>1, <1>2

-----------------------------------------------------------------------------
(* Each step is on one app *)

\* A step that writes no table and asks nothing of Docker is on any app.
LEMMA IdleStepOn ==
  ASSUME UNCHANGED <<status, stable, rows, containers, launched, routes>>, NEW b
  PROVE  StepOn(b)
BY DEF StepOn, HostStep, RowStep, AppStep

\* Writes to the row, the columns and the route of app b are on b.
LEMMA RowWriteOn ==
  ASSUME DeployInv, NEW b \in Apps, NEW d \in RowsOf(b), NEW row, row.app = b,
         rows' = [rows EXCEPT ![d] = row]
  PROVE  RowStep(b)
BY DEF RowStep, RowsOf, DeployInv, DeployTypeOK

LEMMA AppWriteOn ==
  ASSUME DeployInv, NEW b \in Apps, NEW x, NEW y, NEW z,
         UNCHANGED status \/ status' = [status EXCEPT ![b] = x],
         UNCHANGED stable \/ stable' = [stable EXCEPT ![b] = y],
         UNCHANGED routes \/ routes' = [routes EXCEPT ![SlugOf[b]] = z]
  PROVE  AppStep(b)
<1> USE DeployAssumption
<1> SUFFICES ASSUME NEW a \in Apps \ {b}
             PROVE  /\ stable'[a] = stable[a] /\ status'[a] = status[a]
                    /\ OwnSlug(a) => routes'[SlugOf[a]] = routes[SlugOf[a]]
  BY DEF AppStep
<1>1. stable'[a] = stable[a]
  BY DEF DeployInv, DeployTypeOK
<1>2. status'[a] = status[a]
  BY DEF DeployInv, DeployTypeOK, TablesTypeOK
<1>3. OwnSlug(a) => routes'[SlugOf[a]] = routes[SlugOf[a]]
  BY DEF OwnSlug, DeployInv, DeployTypeOK
<1>4. QED
  BY <1>1, <1>2, <1>3

\* _fail writes the row and the columns of the job's app.
LEMMA FailOn ==
  ASSUME DeployInv, NEW w \in Workers, Busy(w), jobs[w].at # "loaded",
         NEW cid, NEW named, NEW port, Fail(w, cid, named, port), UNCHANGED routes
  PROVE  RowStep(AppOf[jobs[w].scan]) /\ AppStep(AppOf[jobs[w].scan])
<1> DEFINE j == jobs[w]
           a == AppOf[j.scan]
           row == [rows[j.dep] EXCEPT !.status = "failed", !.cid = cid, !.named = named]
<1>1. a \in Apps /\ rows[j.dep] \in Row /\ j.dep \in RowsOf(a)
  BY JobFacts DEF DeployInv, JobHasRow
<1>2. rows' = [rows EXCEPT ![j.dep] = row]
  BY DEF Fail, DeployInv, DeployTypeOK
<1>3. row.app = a
  BY <1>1 DEF Row, RowsOf
<1> HIDE DEF row
<1>4. RowStep(a)
  BY <1>1, <1>2, <1>3, RowWriteOn
<1>5. AppStep(a)
  <2>1. /\ \E x : status' = [status EXCEPT ![a] = x]
        /\ \E y : stable' = [stable EXCEPT ![a] = y]
    BY DEF Fail
  <2>2. QED
    BY <1>1, <2>1, AppWriteOn
<1>6. QED
  BY <1>4, <1>5

\* A worker's step is on the app of its scan.
LEMMA WorkerStepOn ==
  ASSUME DeployInv, CidsAreOwn, NEW w \in Workers, Busy(w), WorkerStep(w)
  PROVE  StepOn(AppOf[jobs[w].scan])
<1> USE TablesAssumption, DeployAssumption
<1> DEFINE j == jobs[w]
           a == AppOf[j.scan]
<1>1. a \in Apps /\ j \in Job /\ (j.at # "loaded" => j.dep \in RowsOf(a))
  BY JobFacts DEF DeployInv, JobHasRow
<1>2. CASE MarkBuilding(w)
  <2> DEFINE free == {d \in Deployments : rows[d].status = "none"}
             dep == IF j.dep # NoDep THEN j.dep ELSE CHOOSE d \in free : TRUE
             row == [j.seen EXCEPT !.status = "building", !.scan = j.scan, !.app = a]
  <2>1. row.app = a
    BY <1>1 DEF Job, Row
  <2>2. CASE j.dep = NoDep
    <3>1. dep \in free /\ rows' = [rows EXCEPT ![dep] = row]
      BY <1>2, <2>2 DEF MarkBuilding
    <3> HIDE DEF dep, row
    <3>2. RowStep(a)
      BY <2>1, <3>1 DEF RowStep, DeployInv, DeployTypeOK
    <3>3. QED
      BY <1>2, <3>2 DEF MarkBuilding, StepOn, HostStep, AppStep, tables
  <2>3. CASE j.dep # NoDep
    <3>1. j.dep \in Deployments /\ j.dep \in RowsOf(a)
      BY <1>1, <2>3 DEF Job, DeployInv, JobHasRow
    <3>2. PICK x, y : rows' = [rows EXCEPT ![j.dep] =
                         [rows[j.dep] EXCEPT !.scan = x, !.status = y]]
      BY <1>2, <2>3, <3>1 DEF MarkBuilding, DeployInv, DeployTypeOK
    <3>3. [rows[j.dep] EXCEPT !.scan = x, !.status = y].app = a
      BY <3>1 DEF RowsOf, DeployInv, DeployTypeOK, Row
    <3>4. RowStep(a)
      BY <1>1, <3>1, <3>2, <3>3, RowWriteOn
    <3>5. QED
      BY <1>2, <3>4 DEF MarkBuilding, StepOn, HostStep, AppStep, tables
  <2>4. QED
    BY <2>2, <2>3
<1>3. CASE BuildFails(w) \/ PortsExhausted(w) \/ LaunchFails(w)
  <2>1. j.at # "loaded" /\ UNCHANGED <<containers, launched, routes>>
        /\ \E cid, named, port : Fail(w, cid, named, port)
    BY <1>3 DEF BuildFails, PortsExhausted, LaunchFails
  <2>2. QED
    BY <2>1, FailOn DEF StepOn, HostStep
<1>4. CASE \/ PickPort(w) \/ LaunchFailsTwice(w) \/ WorkerRaises(w) \/ WorkerDies(w)
  <2>1. UNCHANGED <<status, stable, rows, containers, launched, routes>>
    BY <1>4 DEF PickPort, LaunchFailsTwice, WorkerRaises, WorkerDies, tables, world
  <2>2. QED
    BY <2>1, IdleStepOn
<1>5. CASE Displace(w) \/ CommitFails(w) \/ StopOld(w)
  <2>1. /\ UNCHANGED <<status, stable, rows, launched, routes>>
        /\ \/ UNCHANGED containers \/ containers' = Removed(Named(a))
           \/ containers' = Removed({j.cid}) \/ containers' = Removed({j.old} \cap Cids)
    BY <1>5 DEF Displace, CommitFails, StopOld, tables
  <2>2. {j.cid} \in SUBSET (0..MaxLaunches) /\ ({j.old} \cap Cids) \in SUBSET (0..MaxLaunches)
        /\ Named(a) \in SUBSET (0..MaxLaunches)
    BY <1>1 DEF Job, Cids, Named
  <2>3. \A c \in {j.cid, j.old} : c \in Cids => containers[c].app = a
    BY DEF CidsAreOwn, Made, Cids, NoCid
  <2>4. HostStep(a)
    BY <2>1, <2>2, <2>3 DEF HostStep, Named
  <2>5. QED
    BY <2>1, <2>4 DEF StepOn, RowStep, AppStep
<1>6. CASE Launch(w) \/ LaunchRaises(w)
  <2>1. UNCHANGED <<status, stable, rows, routes>>
    BY <1>6 DEF Launch, LaunchRaises, tables
  <2>2. j.scan \in Scans /\ j.port \in Port
    BY <1>1, JobFacts DEF Job
  <2>3. HostStep(a)
    BY <1>6, <2>2 DEF Launch, LaunchRaises, HostStep
  <2>4. QED
    BY <2>1, <2>3 DEF StepOn, RowStep, AppStep
<1>7. CASE WriteRoute(w)
  <2>1. /\ UNCHANGED <<status, stable, rows, containers, launched>>
        /\ UNCHANGED routes \/ routes' = [routes EXCEPT ![SlugOf[a]] = j.port]
    BY <1>7 DEF WriteRoute, tables
  <2>2. AppStep(a)
    BY <1>1, <2>1, AppWriteOn
  <2>3. QED
    BY <2>1, <2>2 DEF StepOn, RowStep, HostStep
<1>8. CASE CommitRunning(w)
  <2> DEFINE row == [rows[j.dep] EXCEPT !.status = "running", !.cid = j.cid,
                        !.named = TRUE,
                        !.port = Written(rows[j.dep].port, j.seen.port, j.port)]
  <2>1. j.dep \in RowsOf(a) /\ rows' = [rows EXCEPT ![j.dep] = row]
    <3>1. j.dep \in RowsOf(a) /\ j.dep \in Deployments
      BY <1>1, <1>8 DEF CommitRunning, RowsOf
    <3>2. QED
      BY <1>8, <3>1 DEF CommitRunning, DeployInv, DeployTypeOK
  <2>2. row.app = a
    BY <2>1 DEF RowsOf, DeployInv, DeployTypeOK, Row
  <2> HIDE DEF row
  <2>3. RowStep(a)
    BY <1>1, <2>1, <2>2, RowWriteOn
  <2>4. AppStep(a)
    <3>1. /\ UNCHANGED routes
          /\ status' = [status EXCEPT ![a] = Written(status[a], j.seenStatus, "deployed")]
          /\ stable' = [stable EXCEPT ![a] = Written(stable[a], j.seenStable, j.port)]
      BY <1>8 DEF CommitRunning
    <3>2. QED
      BY <1>1, <3>1, AppWriteOn
  <2>5. QED
    BY <1>8, <2>3, <2>4 DEF CommitRunning, StepOn, HostStep
<1>9. QED
  BY <1>2, <1>3, <1>4, <1>5, <1>6, <1>7, <1>8 DEF WorkerStep, Take, TakeAgain

\* A request's second half is on the app it read.
LEMMA CallCommitOn ==
  ASSUME DeployInv, NEW u \in Callers,
         \/ StopCommit(u) \/ RestartCommit(u) \/ PollCommit(u) \/ ExposeWrite(u)
         \/ CallDies(u)
  PROVE  StepOn(calls[u].app)
<1> DEFINE c == calls[u]
           a == c.app
<1>1. a \in Apps /\ UNCHANGED <<stable, containers, launched>>
  BY DEF StopCommit, RestartCommit, PollCommit, ExposeWrite, CallDies, world,
         DeployInv, DeployTypeOK, Call
<1>2. RowStep(a)
  <2>1. CASE UNCHANGED rows
    BY <2>1 DEF RowStep
  <2>2. CASE StopCommit(u) \/ RestartCommit(u) \/ PollCommit(u)
    <3>1. c.dep \in RowsOf(a)
      BY <2>2 DEF StopCommit, RestartCommit, PollCommit, DeployInv, CallHasRow
    <3>2. \E x : rows' = [rows EXCEPT ![c.dep].status = x]
      BY <2>2 DEF StopCommit, RestartCommit, PollCommit
    <3>3. PICK x : rows' = [rows EXCEPT ![c.dep] = [rows[c.dep] EXCEPT !.status = x]]
      BY <3>1, <3>2 DEF RowsOf, DeployInv, DeployTypeOK
    <3>4. [rows[c.dep] EXCEPT !.status = x].app = a
      BY <3>1 DEF RowsOf, DeployInv, DeployTypeOK, Row
    <3>5. QED
      BY <1>1, <3>1, <3>3, <3>4, RowWriteOn
  <2>3. QED
    BY <2>1, <2>2 DEF ExposeWrite, CallDies, world
<1>3. AppStep(a)
  <2>1. /\ UNCHANGED status \/ \E x : status' = [status EXCEPT ![a] = x]
        /\ UNCHANGED routes \/ \E z : routes' = [routes EXCEPT ![SlugOf[a]] = z]
    BY DEF StopCommit, RestartCommit, PollCommit, ExposeWrite, CallDies, tables, world
  <2>2. QED
    BY <1>1, <2>1, AppWriteOn
<1>4. QED
  BY <1>1, <1>2, <1>3 DEF StepOn, HostStep

\* A stop request stops a container of the row's app.
LEMMA StopContainerOn ==
  ASSUME DeployInv, CidsAreOwn, NEW u \in Callers, NEW d \in Deployments,
         StopContainer(u, d)
  PROVE  StepOn(rows[d].app)
<1>1. /\ UNCHANGED <<status, stable, rows, launched, routes>>
      /\ containers' = Removed({rows[d].cid} \cap Cids) /\ rows[d].status # "none"
  BY DEF StopContainer, tables
<1>2. \A c \in {rows[d].cid} \cap Cids : containers[c].app = rows[d].app
  BY <1>1 DEF CidsAreOwn, Made, Cids, NoCid
<1>3. {rows[d].cid} \cap Cids \in SUBSET (0..MaxLaunches)
  BY DeployAssumption DEF Cids
<1>4. HostStep(rows[d].app)
  BY <1>1, <1>2, <1>3 DEF HostStep
<1>5. QED
  BY <1>1, <1>4 DEF StepOn, RowStep, AppStep

-----------------------------------------------------------------------------
(* Container ids stay with their app *)

OwnCid(c, a) == c = NoCid \/ Made(c, a)

OwnCids(j) == \A c \in {j.cid, j.old, j.seen.cid} : OwnCid(c, AppOf[j.scan])

\* Rows and jobs that stay, or that get ids of their app, keep CidsAreOwn.
LEMMA CidsKept ==
  ASSUME DeployInv, CidsAreOwn, NEW b \in Apps, HostStep(b),
         \A d \in Deployments : rows'[d] = rows[d] \/ OwnCid(rows'[d].cid, rows'[d].app),
         \A w \in Workers : jobs'[w] = jobs[w] \/ jobs'[w] = IdleJob
                               \/ OwnCids(jobs'[w]) \/ OwnCids(jobs[w])'
  PROVE  CidsAreOwn'
<1>1. \A c, a : Made(c, a) => Made(c, a)'
  BY MadeKept
<1>2. \A c, a : OwnCid(c, a) => OwnCid(c, a)'
  BY <1>1 DEF OwnCid
<1>3. ASSUME NEW d \in Deployments, rows'[d].status # "none", rows'[d].cid # NoCid
      PROVE  Made(rows[d].cid, rows[d].app)'
  BY <1>1, <1>3 DEF CidsAreOwn, OwnCid, Made
<1>4. ASSUME NEW w \in Workers, Busy(w)'
      PROVE  OwnCids(jobs[w])'
  <2>1. CASE jobs'[w] = jobs[w]
    <3>1. OwnCids(jobs[w])
      BY <1>4, <2>1 DEF CidsAreOwn, OwnCids, OwnCid, Busy
    <3>2. QED
      BY <1>2, <2>1, <3>1 DEF OwnCids, OwnCid, Made
  <2>2. CASE jobs'[w] = IdleJob
    BY <1>4, <2>2 DEF Busy, IdleJob
  <2>3. CASE OwnCids(jobs'[w])
    BY <1>2, <2>3 DEF OwnCids, OwnCid, Made
  <2>4. QED
    BY <2>1, <2>2, <2>3
<1>5. QED
  BY <1>3, <1>4 DEF CidsAreOwn, OwnCids, OwnCid, Busy, Made

LEMMA WorkerCids ==
  ASSUME DeployInv, CidsAreOwn, NEW w \in Workers, WorkerStep(w)
  PROVE  CidsAreOwn'
<1> USE TablesAssumption, DeployAssumption
<1> DEFINE j == jobs[w]
           a == AppOf[j.scan]
<1>1. ASSUME Busy(w)
      PROVE  /\ a \in Apps /\ j \in Job /\ HostStep(a) /\ OwnCids(j)
             /\ j.at # "loaded" =>
                   j.dep \in Deployments /\ rows[j.dep] \in Row
                   /\ rows[j.dep].status # "none" /\ rows[j.dep].app = a
                   /\ OwnCid(rows[j.dep].cid, a)
  BY <1>1, WorkerStepOn, JobFacts
     DEF StepOn, CidsAreOwn, OwnCids, OwnCid, DeployInv, JobHasRow, RowsOf
<1>2. \A d \in Deployments : rows[d].status # "none" => OwnCid(rows[d].cid, rows[d].app)
  BY DEF CidsAreOwn, OwnCid
<1>3. ASSUME NEW s \in Scans, NEW n, NEW q, Load(w, s, n, q), ~Busy(w),
             UNCHANGED <<rows, containers, launched>>
      PROVE  CidsAreOwn'
  <2> DEFINE b == AppOf[s]
             dep == IF RowsOf(b) = {} THEN NoDep ELSE CHOOSE d \in RowsOf(b) : TRUE
             seen == IF dep = NoDep THEN NoRow ELSE rows[dep]
  <2>1. OwnCid(seen.cid, b)
    BY <1>2 DEF OwnCid, NoRow, RowsOf
  <2>2. \A v \in Workers \ {w} : jobs'[v] = jobs[v]
    BY <1>3 DEF Load, DeployInv, DeployTypeOK
  <2> DEFINE job == [IdleJob EXCEPT !.at = "loaded", !.scan = s, !.tries = n,
                        !.dep = dep, !.seenStatus = status[b],
                        !.seenStable = stable[b], !.seen = seen]
  <2>3. job.scan = s /\ job.cid = NoCid /\ job.old = NoCid /\ job.seen = seen
    BY DEF IdleJob
  <2>4. UNCHANGED jobs \/ jobs'[w] = job
    BY <1>3 DEF Load, DeployInv, DeployTypeOK
  <2> HIDE DEF seen, dep, job
  <2>5. jobs'[w] = jobs[w] \/ OwnCids(jobs'[w])
    BY <2>1, <2>3, <2>4 DEF OwnCids, OwnCid
  <2>6. b \in Apps /\ HostStep(b)
    BY <1>3 DEF HostStep
  <2>7. QED
    BY <1>3, <2>2, <2>5, <2>6, CidsKept
<1>4. CASE \E s \in Scans : Take(w, s) \/ \E n \in 1..MaxRetries : TakeAgain(w, s, n)
  BY <1>3, <1>4 DEF Take, TakeAgain, world
<1>5. ASSUME Busy(w), NEW job, jobs' = [jobs EXCEPT ![w] = job],
             job = IdleJob \/ OwnCids(job),
             \A d \in Deployments : rows'[d] = rows[d] \/ OwnCid(rows'[d].cid, rows'[d].app)
      PROVE  CidsAreOwn'
  <2>1. jobs'[w] = job /\ \A v \in Workers \ {w} : jobs'[v] = jobs[v]
    BY <1>5 DEF DeployInv, DeployTypeOK
  <2>2. jobs'[w] = IdleJob \/ OwnCids(jobs'[w])
    BY <1>5, <2>1 DEF OwnCids, OwnCid, Made
  <2>3. QED
    BY <1>1, <1>5, <2>1, <2>2, CidsKept
<1>6. CASE MarkBuilding(w)
  <2> DEFINE free == {d \in Deployments : rows[d].status = "none"}
             dep == IF j.dep # NoDep THEN j.dep ELSE CHOOSE d \in free : TRUE
             row == [j.seen EXCEPT !.status = "building", !.scan = j.scan, !.app = a]
             job == [j EXCEPT !.at = "building", !.dep = dep, !.seen = row]
  <2>1. Busy(w) /\ jobs' = [jobs EXCEPT ![w] = job]
    BY <1>6 DEF MarkBuilding, Busy, DeployInv, DeployTypeOK
  <2>2. row.cid = j.seen.cid /\ row.app = a
    BY <1>1, <2>1 DEF Job, Row
  <2>3. job.scan = j.scan /\ job.cid = j.cid /\ job.old = j.old /\ job.seen.cid = j.seen.cid
    BY <1>1, <2>1, <2>2 DEF Job
  <2>4. \A d \in Deployments : rows'[d] = rows[d] \/ OwnCid(rows'[d].cid, rows'[d].app)
    <3>1. CASE j.dep = NoDep
      <4>1. dep \in Deployments /\ rows' = [rows EXCEPT ![dep] = row]
        BY <1>6, <3>1 DEF MarkBuilding
      <4> HIDE DEF dep, row
      <4>2. QED
        BY <1>1, <2>1, <2>2, <4>1 DEF OwnCids, DeployInv, DeployTypeOK
    <3>2. CASE j.dep # NoDep
      <4>1. /\ j.dep \in Deployments /\ rows[j.dep].status # "none" /\ rows[j.dep] \in Row
        BY <1>1, <2>1, <3>2 DEF Job, DeployInv, DeployTypeOK, JobHasRow, RowsOf
      <4>2. PICK x, y : rows' = [rows EXCEPT ![j.dep] =
                           [rows[j.dep] EXCEPT !.scan = x, !.status = y]]
        BY <1>6, <3>2, <4>1 DEF MarkBuilding, DeployInv, DeployTypeOK
      <4>3. rows'[j.dep].cid = rows[j.dep].cid /\ rows'[j.dep].app = rows[j.dep].app
            /\ \A d \in Deployments \ {j.dep} : rows'[d] = rows[d]
        BY <4>1, <4>2 DEF Row, DeployInv, DeployTypeOK
      <4>4. QED
        BY <1>2, <4>1, <4>3
    <3>3. QED
      BY <3>1, <3>2
  <2> HIDE DEF job
  <2>5. OwnCids(job)
    BY <1>1, <2>1, <2>3 DEF OwnCids
  <2>6. QED
    BY <1>5, <2>1, <2>4, <2>5
<1>7. ASSUME NEW cid, NEW named, NEW port, Fail(w, cid, named, port), Busy(w),
             j.at # "loaded", OwnCid(cid, a)
      PROVE  CidsAreOwn'
  <2>1. jobs' = [jobs EXCEPT ![w] = IdleJob]
    BY <1>7 DEF Fail
  <2>2. rows' = [rows EXCEPT ![j.dep] = [rows[j.dep] EXCEPT !.status = "failed",
                                                           !.cid = cid, !.named = named]]
    BY <1>1, <1>7 DEF Fail, DeployInv, DeployTypeOK
  <2>3. \A d \in Deployments : rows'[d] = rows[d] \/ OwnCid(rows'[d].cid, rows'[d].app)
    BY <1>1, <1>7, <2>2 DEF DeployInv, DeployTypeOK, Row
  <2>4. QED
    BY <1>5, <1>7, <2>1, <2>3
<1>8. CASE BuildFails(w) \/ PortsExhausted(w) \/ LaunchFails(w)
  <2>1. Busy(w) /\ j.at # "loaded"
    BY <1>8 DEF BuildFails, PortsExhausted, LaunchFails, Busy
  <2>2. OwnCid(rows[j.dep].cid, a) /\ OwnCid(j.old, a)
    BY <1>1, <2>1 DEF OwnCids
  <2>3. \E cid \in {rows[j.dep].cid, j.old} : \E named, port : Fail(w, cid, named, port)
    BY <1>8 DEF BuildFails, PortsExhausted, LaunchFails
  <2>4. QED
    BY <1>7, <2>1, <2>2, <2>3
<1>9. CASE PickPort(w)
  <2>1. Busy(w) /\ UNCHANGED rows
    BY <1>9 DEF PickPort, Busy, world
  <2>2. ASSUME NEW p, NEW old, old \in {j.seen.cid, j.old},
               jobs' = [jobs EXCEPT ![w] = [j EXCEPT !.at = "picked", !.port = p, !.old = old]]
        PROVE  CidsAreOwn'
    <3> DEFINE job == [j EXCEPT !.at = "picked", !.port = p, !.old = old]
    <3>1. job.scan = j.scan /\ job.cid = j.cid /\ job.old = old /\ job.seen = j.seen
      BY <1>1, <2>1 DEF Job
    <3> HIDE DEF job
    <3>2. OwnCids(job)
      BY <1>1, <2>1, <2>2, <3>1 DEF OwnCids
    <3>3. jobs' = [jobs EXCEPT ![w] = job]
      BY <2>2 DEF job
    <3>4. QED
      BY <1>5, <2>1, <3>2, <3>3
  <2>3. CASE IsUpdate(j)
    <3>1. jobs' = [jobs EXCEPT ![w] = [j EXCEPT !.at = "picked", !.port = Backfilled(j),
                                                !.old = j.seen.cid]]
      BY <1>9, <2>3 DEF PickPort, DeployInv, DeployTypeOK
    <3>2. QED
      BY <2>2, <3>1
  <2>4. CASE ~IsUpdate(j)
    <3>1. PICK p : jobs' = [jobs EXCEPT ![w] = [j EXCEPT !.at = "picked", !.port = p]]
      BY <1>9, <2>4 DEF PickPort, DeployInv, DeployTypeOK
    <3>2. [j EXCEPT !.at = "picked", !.port = p]
            = [j EXCEPT !.at = "picked", !.port = p, !.old = j.old]
      BY <1>1, <2>1 DEF Job
    <3>3. QED
      BY <2>2, <3>1, <3>2
  <2>5. QED
    BY <2>3, <2>4
<1>10. CASE Displace(w) \/ LaunchRaises(w) \/ WriteRoute(w)
  <2>1. Busy(w) /\ UNCHANGED rows
    BY <1>10 DEF Displace, LaunchRaises, WriteRoute, Busy
  <2>2. PICK x, y : jobs' = [jobs EXCEPT ![w] = [j EXCEPT !.at = x, !.locks = y]]
    <3>1. \A x : [j EXCEPT !.at = x] = [j EXCEPT !.at = x, !.locks = j.locks]
      BY <1>1, <2>1 DEF Job
    <3>2. \/ \E x : jobs' = [jobs EXCEPT ![w] = [j EXCEPT !.at = x]]
          \/ \E x, y : jobs' = [jobs EXCEPT ![w] = [j EXCEPT !.at = x, !.locks = y]]
      BY <1>10 DEF Displace, LaunchRaises, WriteRoute, DeployInv, DeployTypeOK
    <3>3. ASSUME NEW x, jobs' = [jobs EXCEPT ![w] = [j EXCEPT !.at = x]]
          PROVE  jobs' = [jobs EXCEPT ![w] = [j EXCEPT !.at = x, !.locks = j.locks]]
      BY <3>1, <3>3
    <3>4. QED
      BY <3>2, <3>3
  <2> DEFINE job == [j EXCEPT !.at = x, !.locks = y]
  <2>3. job.scan = j.scan /\ job.cid = j.cid /\ job.old = j.old /\ job.seen = j.seen
    BY <1>1, <2>1 DEF Job
  <2> HIDE DEF job
  <2>4. OwnCids(job)
    BY <1>1, <2>1, <2>3 DEF OwnCids
  <2>5. QED
    BY <1>5, <2>1, <2>2, <2>4 DEF job
<1>11. CASE Launch(w)
  <2> DEFINE job == [j EXCEPT !.at = "started", !.cid = launched + 1]
  <2>1. Busy(w) /\ UNCHANGED rows /\ jobs' = [jobs EXCEPT ![w] = job]
    BY <1>11 DEF Launch, Busy, DeployInv, DeployTypeOK
  <2>2. /\ job.scan = j.scan /\ job.cid = launched + 1 /\ job.old = j.old
        /\ job.seen = j.seen
    BY <1>1, <2>1 DEF Job
  <2>3. jobs'[w] = job /\ \A v \in Workers \ {w} : jobs'[v] = jobs[v]
    BY <2>1 DEF DeployInv, DeployTypeOK
  <2> HIDE DEF job
  <2>4. launched' \in 1..launched' /\ containers'[launched'].app = a
    <3>1. launched \in Nat /\ launched + 1 \in Cids
      BY <1>11 DEF Launch, DeployInv, DeployTypeOK, Cids
    <3>2. launched' = launched + 1 /\ containers'[launched + 1].app = a
      BY <1>11, <3>1 DEF Launch, DeployInv, DeployTypeOK
    <3>3. QED
      BY <3>1, <3>2
  <2>5. launched' = launched + 1
    BY <1>11 DEF Launch
  <2>6. ASSUME NEW c \in {j.old, j.seen.cid}, c # NoCid
        PROVE  c \in 1..launched' /\ containers'[c].app = a
    <3>1. Made(c, a)
      BY <1>1, <2>1, <2>6 DEF OwnCids, OwnCid
    <3>2. QED
      BY <1>1, <2>1, <3>1, MadeKept DEF Made
  <2>7. OwnCids(jobs[w])'
    BY <2>2, <2>3, <2>4, <2>5, <2>6 DEF OwnCids, OwnCid, Made
  <2>8. QED
    BY <1>1, <2>1, <2>3, <2>7, CidsKept
<1>12. CASE CommitRunning(w)
  <2> DEFINE row == [rows[j.dep] EXCEPT !.status = "running", !.cid = j.cid,
                        !.named = TRUE,
                        !.port = Written(rows[j.dep].port, j.seen.port, j.port)]
             job == [j EXCEPT !.at = "stopping", !.locks = {}]
  <2>1. Busy(w) /\ j.at # "loaded"
    BY <1>12 DEF CommitRunning, Busy
  <2>2. jobs' = [jobs EXCEPT ![w] = job] /\ rows' = [rows EXCEPT ![j.dep] = row]
    BY <1>1, <1>12, <2>1 DEF CommitRunning, DeployInv, DeployTypeOK
  <2>3. /\ job.scan = j.scan /\ job.cid = j.cid /\ job.old = j.old /\ job.seen = j.seen
    BY <1>1, <2>1 DEF Job
  <2>4. row.cid = j.cid /\ row.app = a
    BY <1>1, <2>1 DEF Row
  <2> HIDE DEF row, job
  <2>5. OwnCids(job) /\ OwnCid(j.cid, a)
    BY <1>1, <2>1, <2>3 DEF OwnCids
  <2>6. \A d \in Deployments : rows'[d] = rows[d] \/ OwnCid(rows'[d].cid, rows'[d].app)
    BY <1>1, <2>1, <2>2, <2>4, <2>5 DEF DeployInv, DeployTypeOK
  <2>7. QED
    BY <1>5, <2>1, <2>2, <2>5, <2>6
<1>13. CASE \/ CommitFails(w) \/ LaunchFailsTwice(w) \/ StopOld(w)
            \/ WorkerRaises(w) \/ WorkerDies(w)
  <2>1. Busy(w) /\ UNCHANGED rows /\ jobs' = [jobs EXCEPT ![w] = IdleJob]
    BY <1>13 DEF CommitFails, LaunchFailsTwice, StopOld, WorkerRaises, WorkerDies,
                 Raise, Busy, world
  <2>2. QED
    BY <1>5, <2>1
<1>14. QED
  BY <1>4, <1>6, <1>8, <1>9, <1>10, <1>11, <1>12, <1>13 DEF WorkerStep

LEMMA CallCids ==
  ASSUME DeployInv, CidsAreOwn, NEW u \in Callers, CallStep(u)
  PROVE  CidsAreOwn'
<1>1. PICK b \in Apps : HostStep(b)
  <2>1. CASE \/ StopCommit(u) \/ RestartCommit(u) \/ PollCommit(u) \/ ExposeWrite(u)
             \/ CallDies(u)
    BY <2>1, CallCommitOn DEF StepOn, DeployInv, DeployTypeOK, Call
  <2>2. ASSUME NEW d \in Deployments, StopContainer(u, d)
        PROVE  \E b \in Apps : HostStep(b)
    BY <2>2, StopContainerOn DEF StepOn, DeployInv, DeployTypeOK, Row
  <2>3. CASE UNCHANGED world
    BY <2>3, DeployAssumption DEF world, HostStep
  <2>4. QED
    BY <2>1, <2>2, <2>3 DEF CallStep, RestartSend, PollRead, ExposeRead
<1>2. UNCHANGED jobs
  BY DEF CallStep, StopContainer, RestartSend, PollRead, ExposeRead, StopCommit,
         RestartCommit, PollCommit, ExposeWrite, CallDies
<1>3. \A d \in Deployments : rows'[d] = rows[d] \/ OwnCid(rows'[d].cid, rows'[d].app)
  <2> DEFINE c == calls[u]
  <2>1. CASE UNCHANGED rows
    BY <2>1
  <2>2. CASE StopCommit(u) \/ RestartCommit(u) \/ PollCommit(u)
    <3>1. c.dep \in Deployments /\ rows[c.dep].status # "none" /\ rows[c.dep] \in Row
      BY <2>2 DEF StopCommit, RestartCommit, PollCommit, DeployInv, CallHasRow, RowsOf,
                  DeployTypeOK
    <3>2. \E x : rows' = [rows EXCEPT ![c.dep].status = x]
      BY <2>2 DEF StopCommit, RestartCommit, PollCommit
    <3>3. rows'[c.dep].cid = rows[c.dep].cid /\ rows'[c.dep].app = rows[c.dep].app
          /\ \A d \in Deployments \ {c.dep} : rows'[d] = rows[d]
      BY <3>1, <3>2 DEF DeployInv, DeployTypeOK, Row
    <3>4. QED
      BY <3>1, <3>3 DEF CidsAreOwn, OwnCid
  <2>3. QED
    BY <2>1, <2>2 DEF CallStep, StopContainer, RestartSend, PollRead, ExposeRead,
                      ExposeWrite, CallDies, world
<1>4. QED
  BY <1>1, <1>2, <1>3, CidsKept

-----------------------------------------------------------------------------
(* Calm apps: steps elsewhere *)

\* A step on another app, and on none of app a's jobs and requests.
Apart(a) ==
    /\ SameRowsOf(a) /\ SameNamed(a)
    /\ stable'[a] = stable[a]
    /\ status'[a] = "stopped" => status[a] = "stopped"
    /\ OwnSlug(a) => routes'[SlugOf[a]] = routes[SlugOf[a]]
    /\ \A w \in Workers : /\ WorksOn(w, a)' <=> WorksOn(w, a)
                          /\ WorksOn(w, a) => jobs'[w] = jobs[w]
    /\ \A u \in Callers : /\ CallsOn(u, a)' <=> CallsOn(u, a)
                          /\ CallsOn(u, a) => calls'[u] = calls[u]

LEMMA ApartSettled ==
  ASSUME NEW a \in Apps, SameRowsOf(a), SameNamed(a),
         stable'[a] = stable[a], status'[a] = "stopped" => status[a] = "stopped",
         OwnSlug(a) => routes'[SlugOf[a]] = routes[SlugOf[a]]
  PROVE  /\ Down(a)' <=> Down(a)
         /\ Led(a) => Led(a)'
         /\ Settled(a) => Settled(a)'
         /\ \A p : RouteIs(a, p)' <=> RouteIs(a, p)
<1>1. \A c \in Named(a) : Running(c)' <=> Running(c)
  BY DEF SameNamed, Running
<1>2. Named(a)' = Named(a) /\ RowsOf(a)' = RowsOf(a)
  BY DEF SameNamed, SameRowsOf
<1>3. Down(a)' <=> Down(a)
  BY <1>1, <1>2 DEF Down
<1>4. OwnSlug(a)' <=> OwnSlug(a)
  BY DEF OwnSlug
<1>5. \A p : RouteIs(a, p)' <=> RouteIs(a, p)
  BY <1>4 DEF RouteIs
<1>6. Led(a) => Led(a)'
  BY <1>1, <1>2, <1>4 DEF Led, RouteIs, SameRowsOf, SameNamed
<1>7. Told(a) => Told(a)'
  BY <1>1, <1>2, <1>3, <1>4 DEF Told, RouteIs, SameRowsOf
<1>8. Hidden(a) => Hidden(a)'
  BY <1>5 DEF Hidden
<1>9. QED
  BY <1>3, <1>5, <1>6, <1>7, <1>8 DEF Settled

LEMMA ApartCalm ==
  ASSUME DeployInv, NEW a \in Apps, CalmApp(a), Apart(a)
  PROVE  CalmApp(a)'
<1>1. /\ Down(a)' <=> Down(a)
      /\ Led(a) => Led(a)'
      /\ Settled(a) => Settled(a)'
      /\ \A p : RouteIs(a, p)' <=> RouteIs(a, p)
  BY ApartSettled DEF Apart
<1>2. Named(a)' = Named(a) /\ RowsOf(a)' = RowsOf(a)
  BY DEF Apart, SameNamed, SameRowsOf
<1>3. Alone(a)'
  BY DEF CalmApp, Alone, Apart
<1>4. OneRow(a)'
  BY <1>2 DEF CalmApp, OneRow
<1>5. ASSUME NEW w \in Workers, WorksOn(w, a)'
      PROVE  JobGoes(jobs[w], a)'
  <2> DEFINE j == jobs[w]
  <2>1. WorksOn(w, a) /\ jobs'[w] = j /\ JobGoes(j, a) /\ j \in Job
    BY <1>5 DEF Apart, CalmApp, DeployInv, DeployTypeOK
  <2>2. j.dep # NoDep => j.dep \in RowsOf(a)
    BY <2>1 DEF WorksOn, DeployInv, JobHasRow, Job
  <2>3. j.at # "loaded" => j.dep \in RowsOf(a)
    BY <2>1 DEF WorksOn, DeployInv, JobHasRow
  <2>4. /\ j.dep # NoDep => rows'[j.dep] = rows[j.dep]
        /\ j.at # "loaded" => rows'[j.dep] = rows[j.dep]
    BY <2>2, <2>3 DEF Apart, SameRowsOf
  <2>5. stable'[a] = stable[a] /\ (status'[a] = "stopped" => status[a] = "stopped")
    BY DEF Apart
  <2>6. Launched(j, a) => j.cid \in Named(a)' /\ containers'[j.cid].state = "running"
                          /\ containers'[j.cid].port = j.port
    BY DEF Launched, Running, Apart, SameNamed
  <2>7. QED
    BY <1>1, <1>2, <2>1, <2>4, <2>5, <2>6 DEF JobGoes, Launched, Running
<1>6. ASSUME NEW u \in Callers, CallsOn(u, a)'
      PROVE  CallGoes(calls[u], a)'
  <2> DEFINE c == calls[u]
  <2>1. CallsOn(u, a) /\ calls'[u] = c /\ CallGoes(c, a)
    BY <1>6 DEF Apart, CalmApp
  <2>2. c.at \in {"stopping", "restarting", "polling"} => rows'[c.dep] = rows[c.dep]
    BY <2>1 DEF CallsOn, DeployInv, CallHasRow, Apart, SameRowsOf
  <2>3. \A n \in Named(a) : containers'[n] = containers[n]
    BY DEF Apart, SameNamed
  <2>4. \A d \in RowsOf(a) : rows'[d] = rows[d]
    BY DEF Apart, SameRowsOf
  <2>5. stable'[a] = stable[a] /\ (status'[a] = "stopped" => status[a] = "stopped")
    BY DEF Apart
  <2>6. QED
    BY <1>1, <1>2, <2>1, <2>2, <2>3, <2>4, <2>5 DEF CallGoes, Running
<1>7. ~Active(a)' => Settled(a)'
  <2>1. Active(a)' <=> Active(a)
    BY DEF Active, Apart
  <2>2. QED
    BY <1>1, <2>1 DEF CalmApp
<1>8. QED
  BY <1>3, <1>4, <1>5, <1>6, <1>7 DEF CalmApp

\* A worker leaves the apps alone that its scan is not of.
LEMMA WorkerApart ==
  ASSUME DeployInv, CidsAreOwn, NEW w \in Workers, WorkerStep(w), NEW a \in Apps,
         ~WorksOn(w, a), ~WorksOn(w, a)'
  PROVE  Apart(a)
<1>1. UNCHANGED calls /\ \A v \in Workers \ {w} : jobs'[v] = jobs[v]
  BY DEF WorkerStep, Take, TakeAgain, Load, MarkBuilding, BuildFails, Fail, PickPort,
         PortsExhausted, Displace, Launch, LaunchRaises, LaunchFails, LaunchFailsTwice,
         WriteRoute, CommitRunning, CommitFails, StopOld, WorkerRaises, WorkerDies,
         Raise, DeployInv, DeployTypeOK
<1>2. /\ \A v \in Workers : /\ WorksOn(v, a)' <=> WorksOn(v, a)
                            /\ WorksOn(v, a) => jobs'[v] = jobs[v]
      /\ \A u \in Callers : /\ CallsOn(u, a)' <=> CallsOn(u, a)
                            /\ CallsOn(u, a) => calls'[u] = calls[u]
  BY <1>1 DEF WorksOn, CallsOn, Busy
<1>3. CASE Busy(w)
  <2>1. AppOf[jobs[w].scan] \in Apps \ {a} /\ StepOn(AppOf[jobs[w].scan])
    BY <1>3, WorkerStepOn, JobFacts DEF WorksOn
  <2>2. SameRowsOf(a) /\ SameNamed(a)
    BY <2>1, StepElsewhere
  <2>3. QED
    BY <1>2, <2>1, <2>2 DEF Apart, StepOn, AppStep
<1>4. CASE ~Busy(w)
  <2>1. UNCHANGED <<status, stable, rows, containers, launched, routes>>
    BY <1>4 DEF WorkerStep, Take, TakeAgain, MarkBuilding, BuildFails, PickPort,
         PortsExhausted, Displace, Launch, LaunchRaises, LaunchFails, LaunchFailsTwice,
         WriteRoute, CommitRunning, CommitFails, StopOld, WorkerRaises, WorkerDies,
         Busy, world, tables
  <2>2. QED
    BY <1>2, <2>1 DEF Apart, SameRowsOf, SameNamed, RowsOf, Named, Exists
<1>5. QED
  BY <1>3, <1>4

\* So do the requests.
LEMMA CallApart ==
  ASSUME DeployInv, CidsAreOwn, NEW u \in Callers, CallStep(u), NEW a \in Apps,
         ~CallsOn(u, a), ~CallsOn(u, a)'
  PROVE  Apart(a)
<1>1. UNCHANGED jobs /\ \A t \in Callers \ {u} : calls'[t] = calls[t]
  BY DEF CallStep, StopContainer, RestartSend, PollRead, ExposeRead, StopCommit,
         RestartCommit, PollCommit, ExposeWrite, CallDies, Call1, DeployInv, DeployTypeOK
<1>2. /\ \A v \in Workers : /\ WorksOn(v, a)' <=> WorksOn(v, a)
                            /\ WorksOn(v, a) => jobs'[v] = jobs[v]
      /\ \A t \in Callers : /\ CallsOn(t, a)' <=> CallsOn(t, a)
                            /\ CallsOn(t, a) => calls'[t] = calls[t]
  BY <1>1 DEF WorksOn, CallsOn, Busy
<1>3. ASSUME NEW b \in Apps \ {a}, StepOn(b) PROVE Apart(a)
  <2>1. SameRowsOf(a) /\ SameNamed(a)
    BY <1>3, StepElsewhere
  <2>2. QED
    BY <1>2, <1>3, <2>1 DEF Apart, StepOn, AppStep
<1>4. CASE \/ StopCommit(u) \/ RestartCommit(u) \/ PollCommit(u) \/ ExposeWrite(u)
           \/ CallDies(u)
  <2>1. calls[u].at # "idle" /\ calls[u].app \in Apps
    BY <1>4 DEF StopCommit, RestartCommit, PollCommit, ExposeWrite, CallDies,
                DeployInv, DeployTypeOK, Call
  <2>2. QED
    BY <1>3, <1>4, <2>1, CallCommitOn DEF CallsOn
<1>5. ASSUME NEW d \in Deployments, StopContainer(u, d) PROVE Apart(a)
  <2>1. calls'[u].at = "stopping" /\ calls'[u].app = rows[d].app
    BY <1>5 DEF StopContainer, Call1, IdleCall, DeployInv, DeployTypeOK
  <2>2. rows[d].app \in Apps \ {a}
    BY <2>1 DEF CallsOn, DeployInv, DeployTypeOK, Row
  <2>3. QED
    BY <1>3, <1>5, <2>2, StopContainerOn
<1>6. CASE UNCHANGED <<status, world>>
  BY <1>2, <1>6 DEF Apart, SameRowsOf, SameNamed, RowsOf, Named, Exists, world
<1>7. QED
  BY <1>4, <1>5, <1>6 DEF CallStep, RestartSend, PollRead, ExposeRead, tables

-----------------------------------------------------------------------------
(* Calm apps: the deploy task at work *)

LEMMA WorkerOthers ==
  ASSUME DeployInv, NEW w \in Workers, WorkerStep(w)
  PROVE  UNCHANGED calls /\ \A v \in Workers \ {w} : jobs'[v] = jobs[v]
BY DEF WorkerStep, Take, TakeAgain, Load, MarkBuilding, BuildFails, Fail, PickPort,
       PortsExhausted, Displace, Launch, LaunchRaises, LaunchFails, LaunchFailsTwice,
       WriteRoute, CommitRunning, CommitFails, StopOld, WorkerRaises, WorkerDies,
       Raise, DeployInv, DeployTypeOK

\* What is left to show of an app whose only activity is w's job.
LEMMA JobLeads ==
  ASSUME NEW w \in Workers, NEW a \in Apps,
         \A v \in Workers \ {w} : ~WorksOn(v, a)', \A u \in Callers : ~CallsOn(u, a)',
         OneRow(a)', WorksOn(w, a)' => JobGoes(jobs[w], a)',
         ~WorksOn(w, a)' => Settled(a)'
  PROVE  CalmApp(a)'
BY DEF CalmApp, Alone, Active

\* What is known of a calm app that w works on, and of who else does: nobody.
LEMMA JobOwn ==
  ASSUME DeployInv, NEW w \in Workers, WorkerStep(w), NEW a \in Apps, CalmApp(a),
         WorksOn(w, a)
  PROVE  /\ \A v \in Workers \ {w} : ~WorksOn(v, a) /\ ~WorksOn(v, a)'
         /\ \A u \in Callers : ~CallsOn(u, a)'
         /\ jobs[w] \in Job /\ AppOf[jobs[w].scan] = a /\ Busy(w)
         /\ JobGoes(jobs[w], a) /\ OneRow(a)
         /\ jobs[w].at # "loaded" =>
               /\ jobs[w].dep \in Deployments /\ RowsOf(a) = {jobs[w].dep}
               /\ rows[jobs[w].dep] \in Row
<1>1. \A v \in Workers \ {w} : ~WorksOn(v, a) /\ ~WorksOn(v, a)'
  BY WorkerOthers DEF CalmApp, Alone, WorksOn, Busy
<1>2. \A u \in Callers : ~CallsOn(u, a)'
  BY WorkerOthers DEF CalmApp, Alone, CallsOn
<1>3. jobs[w] \in Job /\ AppOf[jobs[w].scan] = a /\ Busy(w)
  BY DEF WorksOn, DeployInv, DeployTypeOK
<1>4. JobGoes(jobs[w], a) /\ OneRow(a)
  BY DEF CalmApp
<1>5. jobs[w].at # "loaded" => jobs[w].dep \in RowsOf(a)
  BY <1>3 DEF DeployInv, JobHasRow
<1>6. QED
  BY <1>1, <1>2, <1>3, <1>4, <1>5 DEF OneRow, RowsOf, DeployInv, DeployTypeOK

\* A step that writes nothing the app shows leaves it as settled as it was.
LEMMA StillSettled ==
  ASSUME NEW a \in Apps, UNCHANGED <<status, stable, rows, containers, routes>>
  PROVE  /\ Settled(a)' <=> Settled(a)
         /\ Led(a)' <=> Led(a)
         /\ RowsOf(a)' = RowsOf(a) /\ Named(a)' = Named(a)
         /\ OneRow(a)' <=> OneRow(a)
<1>1. RowsOf(a)' = RowsOf(a) /\ Named(a)' = Named(a)
  BY DEF RowsOf, Named, Exists
<1>2. Led(a)' <=> Led(a)
  BY <1>1 DEF Led, Running, RouteIs, OwnSlug
<1>3. Told(a)' <=> Told(a)
  BY <1>1 DEF Told, Down, Running
<1>4. Hidden(a)' <=> Hidden(a)
  BY DEF Hidden, RouteIs, OwnSlug
<1>5. QED
  BY <1>1, <1>2, <1>3, <1>4 DEF Settled, OneRow

\* A worker begins with an app on which nothing is under way.
LEMMA TakeCalm ==
  ASSUME DeployInv, NEW w \in Workers, NEW a \in Apps, CalmApp(a), a \notin disturbed',
         ~WorksOn(w, a), WorksOn(w, a)',
         NEW s \in Scans, Take(w, s) \/ \E n \in 1..MaxRetries : TakeAgain(w, s, n)
  PROVE  CalmApp(a)'
<1> DEFINE dep == IF RowsOf(AppOf[s]) = {} THEN NoDep
                  ELSE CHOOSE d \in RowsOf(AppOf[s]) : TRUE
           seen == IF dep = NoDep THEN NoRow ELSE rows[dep]
<1>1. PICK n, q : Load(w, s, n, q) /\ UNCHANGED <<status, world, calls>>
  BY DEF Take, TakeAgain, tables
<1> DEFINE job == [IdleJob EXCEPT !.at = "loaded", !.scan = s, !.tries = n,
                      !.dep = dep, !.seenStatus = status[AppOf[s]],
                      !.seenStable = stable[AppOf[s]], !.seen = seen]
<1>2. jobs' # jobs
  BY DEF WorksOn, Busy
<1>3. jobs' = [jobs EXCEPT ![w] = job] /\ Begin(AppOf[s])
  BY <1>1, <1>2 DEF Load
<1>4. jobs'[w] = job /\ \A v \in Workers \ {w} : jobs'[v] = jobs[v]
  BY <1>3 DEF DeployInv, DeployTypeOK
<1>5. /\ job.at = "loaded" /\ job.scan = s /\ job.dep = dep
      /\ job.seenStable = stable[AppOf[s]] /\ job.seen = seen
      /\ job.seenStatus = status[AppOf[s]]
  BY DEF IdleJob
<1>6. dep = NoDep => RowsOf(AppOf[s]) = {}
  BY DeployAssumption DEF RowsOf
<1> HIDE DEF job
<1>7. AppOf[s] = a
  BY <1>4, <1>5 DEF WorksOn
<1>8. ~Active(a)
  BY <1>3, <1>7 DEF Begin
<1>9. /\ \A v \in Workers \ {w} : ~WorksOn(v, a)'
      /\ \A u \in Callers : ~CallsOn(u, a)'
  BY <1>1, <1>4, <1>8 DEF Active, WorksOn, CallsOn, Busy
<1>10. /\ Settled(a)' /\ OneRow(a)' /\ RowsOf(a)' = RowsOf(a)
  BY <1>1, <1>8, StillSettled DEF world, CalmApp
<1>11. JobGoes(jobs[w], a)'
  <2>1. stable'[a] = stable[a] /\ rows' = rows /\ status' = status
    BY <1>1 DEF world
  <2>2. QED
    BY <1>4, <1>5, <1>6, <1>7, <1>10, <2>1 DEF JobGoes
<1>12. QED
  BY <1>9, <1>10, <1>11, JobLeads

\* The row of the app, or its first, is building.
LEMMA MarkBuildingCalm ==
  ASSUME DeployInv, NEW w \in Workers, NEW a \in Apps, CalmApp(a), WorksOn(w, a),
         MarkBuilding(w)
  PROVE  CalmApp(a)'
<1> USE DeployAssumption
<1> DEFINE j == jobs[w]
           free == {d \in Deployments : rows[d].status = "none"}
           dep == IF j.dep # NoDep THEN j.dep ELSE CHOOSE d \in free : TRUE
           row == [j.seen EXCEPT !.status = "building", !.scan = j.scan, !.app = a]
           job == [j EXCEPT !.at = "building", !.dep = dep, !.seen = row]
<1>1. WorkerStep(w)
  BY DEF WorkerStep
<1>2. /\ \A v \in Workers \ {w} : ~WorksOn(v, a)'
      /\ \A u \in Callers : ~CallsOn(u, a)'
      /\ j \in Job /\ AppOf[j.scan] = a /\ JobGoes(j, a) /\ OneRow(a)
  BY <1>1, JobOwn
<1>3. /\ j.at = "loaded" /\ Settled(a) /\ j.seenStable = stable[a]
      /\ status[a] = "stopped" => j.seenStatus = "stopped"
      /\ j.dep = NoDep => RowsOf(a) = {}
      /\ j.dep # NoDep => j.seen = rows[j.dep] /\ RowsOf(a) = {j.dep}
                          /\ j.dep \in Deployments
  <2>1. j.at = "loaded"
    BY DEF MarkBuilding
  <2>2. j.dep # NoDep => j.dep \in RowsOf(a)
    BY <1>2, <2>1 DEF DeployInv, JobHasRow, Busy, Job
  <2>3. QED
    BY <1>2, <2>1, <2>2 DEF JobGoes, OneRow, RowsOf
<1>4. /\ row \in Row /\ row.status = "building" /\ row.app = a /\ row.scan = j.scan
      /\ row.cid = j.seen.cid /\ row.port = j.seen.port /\ row.named = j.seen.named
  BY <1>2, <1>3, JobFacts DEF Job, Row, RowStatus, Busy
<1>5. dep \in Deployments /\ rows' = [rows EXCEPT ![dep] = row]
  <2>1. CASE j.dep = NoDep
    BY <1>2, <2>1 DEF MarkBuilding
  <2>2. CASE j.dep # NoDep
    <3>1. rows[dep] = j.seen /\ j.seen \in Row /\ j.seen.app = a
      BY <1>2, <1>3, <2>2 DEF RowsOf, Job
    <3>2. rows' = [rows EXCEPT ![dep] = [j.seen EXCEPT
              !.scan = Written(j.seen.scan, j.seen.scan, j.scan),
              !.status = Written(j.seen.status, j.seen.status, "building")]]
      BY <1>3, <2>2, <3>1 DEF MarkBuilding, DeployInv, DeployTypeOK
    <3>3. [j.seen EXCEPT !.scan = Written(j.seen.scan, j.seen.scan, j.scan),
              !.status = Written(j.seen.status, j.seen.status, "building")]
            = [j.seen EXCEPT !.scan = j.scan, !.status = "building"]
      BY DEF Written
    <3>4. [j.seen EXCEPT !.scan = j.scan, !.status = "building"] = row
      BY <3>1 DEF Row
    <3>5. QED
      BY <1>3, <2>2, <3>2, <3>3, <3>4
  <2>3. QED
    BY <2>1, <2>2
<1>6. jobs'[w] = job
  BY <1>2 DEF MarkBuilding, DeployInv, DeployTypeOK
<1>7. /\ job.at = "building" /\ job.dep = dep /\ job.seen = row
      /\ job.seenStable = stable[a]
      /\ status[a] = "stopped" => job.seenStatus = "stopped"
  BY <1>2, <1>3 DEF Job
<1>8. UNCHANGED <<status, stable, containers, routes>>
  BY DEF MarkBuilding, tables
<1>9. dep \in free \/ dep \in RowsOf(a)
  BY <1>3 DEF MarkBuilding
<1> HIDE DEF row, job, dep
<1>10. rows'[dep] = row /\ \A d \in Deployments \ {dep} : rows'[d] = rows[d]
  BY <1>5 DEF DeployInv, DeployTypeOK
<1>11. RowsOf(a)' = {dep}
  <2>1. RowsOf(a) \subseteq {dep}
    BY <1>3 DEF dep
  <2>2. dep \in RowsOf(a)'
    BY <1>4, <1>5, <1>10 DEF RowsOf
  <2>3. QED
    BY <1>10, <2>1, <2>2 DEF RowsOf
<1>12. Led(a)'
  <2>1. Named(a)' = Named(a) /\ \A c \in Named(a) : Running(c)' <=> Running(c)
    BY <1>8 DEF Named, Exists, Running
  <2>2. ASSUME NEW c \in Named(a), Running(c)
        PROVE  /\ row.cid = c /\ row.port = containers[c].port
               /\ stable[a] = row.port /\ RouteIs(a, row.port)
    <3>1. PICK d \in RowsOf(a) : /\ rows[d].cid = c /\ rows[d].port = containers[c].port
                                 /\ stable[a] = rows[d].port /\ RouteIs(a, rows[d].port)
      BY <1>3, <2>2 DEF Settled, Led
    <3>2. j.dep # NoDep /\ d = j.dep /\ rows[d] = j.seen
      BY <1>3, <3>1
    <3>3. QED
      BY <1>4, <3>1, <3>2
  <2>3. QED
    BY <1>8, <1>10, <1>11, <2>1, <2>2 DEF Led, RouteIs, OwnSlug
<1>13. JobGoes(jobs[w], a)'
  BY <1>4, <1>6, <1>7, <1>8, <1>10, <1>12 DEF JobGoes
<1>14. OneRow(a)'
  BY <1>11 DEF OneRow
<1>15. WorksOn(w, a)'
  BY <1>2, <1>6, <1>7 DEF WorksOn, Busy, job, Job
<1>16. QED
  BY <1>2, <1>13, <1>14, <1>15, JobLeads

\* The commit at the end of a job calls the app anything but stopped.
LEMMA JobEnds ==
  ASSUME DeployInv, NEW w \in Workers, NEW a \in Apps, JobGoes(jobs[w], a),
         jobs[w].at # "stopping", NEW new, new # "stopped",
         status' = [status EXCEPT ![a] = Written(@, jobs[w].seenStatus, new)]
  PROVE  Hidden(a)'
BY DEF JobGoes, Hidden, Written, DeployInv, DeployTypeOK, TablesTypeOK

LEMMA FailHides ==
  ASSUME DeployInv, NEW w \in Workers, NEW a \in Apps, JobGoes(jobs[w], a),
         jobs[w].at # "stopping", AppOf[jobs[w].scan] = a,
         NEW cid, NEW named, NEW port, Fail(w, cid, named, port)
  PROVE  Hidden(a)'
<1>1. \E new \in {"deployed", "approved"} :
         status' = [status EXCEPT ![a] = Written(@, jobs[w].seenStatus, new)]
  BY DEF Fail
<1>2. QED
  BY <1>1, JobEnds

\* A build that fails or finds no port leaves the container that was there, and
\* a row that knows it.
LEMMA BuildFailsCalm ==
  ASSUME DeployInv, NEW w \in Workers, NEW a \in Apps, CalmApp(a), WorksOn(w, a),
         BuildFails(w) \/ PortsExhausted(w)
  PROVE  CalmApp(a)'
<1> DEFINE j == jobs[w]
<1>1. WorkerStep(w)
  BY DEF WorkerStep
<1>2. /\ \A v \in Workers \ {w} : ~WorksOn(v, a)'
      /\ \A u \in Callers : ~CallsOn(u, a)'
      /\ JobGoes(j, a) /\ j.at = "building" /\ AppOf[j.scan] = a
      /\ j.dep \in Deployments /\ RowsOf(a) = {j.dep} /\ rows[j.dep] \in Row
  BY <1>1, JobOwn DEF BuildFails, PortsExhausted
<1>3. Fail(w, rows[j.dep].cid, rows[j.dep].named, j.seenStable)
      /\ UNCHANGED <<containers, routes>>
  BY DEF BuildFails, PortsExhausted
<1>4. /\ rows'[j.dep].status = "failed" /\ rows'[j.dep].app = a
      /\ rows'[j.dep].cid = rows[j.dep].cid /\ rows'[j.dep].port = rows[j.dep].port
      /\ \A d \in Deployments \ {j.dep} : rows'[d] = rows[d]
  BY <1>2, <1>3 DEF Fail, DeployInv, DeployTypeOK, Row, RowsOf
<1>5. stable'[a] = stable[a]
  BY <1>2, <1>3 DEF Fail, JobGoes, Written, DeployInv, DeployTypeOK
<1>6. RowsOf(a)' = {j.dep}
  BY <1>2, <1>4 DEF RowsOf
<1>7. Led(a)'
  <2>1. Led(a) /\ Named(a)' = Named(a)
    BY <1>2, <1>3 DEF JobGoes, Named, Exists
  <2>2. QED
    BY <1>2, <1>3, <1>4, <1>5, <1>6, <2>1 DEF Led, Running, RouteIs, OwnSlug
<1>8. Told(a)'
  BY <1>4, <1>6 DEF Told
<1>9. ~WorksOn(w, a)' /\ OneRow(a)'
  BY <1>3, <1>6 DEF Fail, WorksOn, Busy, IdleJob, OneRow, DeployInv, DeployTypeOK
<1>10. Hidden(a)'
  BY <1>2, <1>3, FailHides
<1>11. QED
  BY <1>2, <1>7, <1>8, <1>9, <1>10, JobLeads DEF Settled

\* A launch that fails leaves no container that runs.
LEMMA LaunchFailsCalm ==
  ASSUME DeployInv, NEW w \in Workers, NEW a \in Apps, CalmApp(a), WorksOn(w, a),
         LaunchFails(w)
  PROVE  CalmApp(a)'
<1> DEFINE j == jobs[w]
<1>1. WorkerStep(w)
  BY DEF WorkerStep
<1>2. /\ \A v \in Workers \ {w} : ~WorksOn(v, a)'
      /\ \A u \in Callers : ~CallsOn(u, a)'
      /\ JobGoes(j, a) /\ j.at = "failing" /\ AppOf[j.scan] = a
      /\ j.dep \in Deployments /\ RowsOf(a) = {j.dep} /\ rows[j.dep] \in Row
  BY <1>1, JobOwn DEF LaunchFails
<1>3. PICK cid, named, port : Fail(w, cid, named, port) /\ UNCHANGED containers
  BY DEF LaunchFails
<1>4. /\ rows'[j.dep].status = "failed" /\ rows'[j.dep].app = a
      /\ \A d \in Deployments \ {j.dep} : rows'[d] = rows[d]
  BY <1>2, <1>3 DEF Fail, DeployInv, DeployTypeOK, Row, RowsOf
<1>5. RowsOf(a)' = {j.dep}
  BY <1>2, <1>4 DEF RowsOf
<1>6. Down(a)'
  BY <1>2, <1>3 DEF JobGoes, Down, Named, Exists, Running
<1>7. Settled(a)'
  <2>1. Hidden(a)'
    BY <1>2, <1>3, FailHides
  <2>2. QED
    BY <1>4, <1>5, <1>6, <2>1 DEF Settled, Led, Told, Down
<1>8. ~WorksOn(w, a)' /\ OneRow(a)'
  BY <1>3, <1>5 DEF Fail, WorksOn, Busy, IdleJob, OneRow, DeployInv, DeployTypeOK
<1>9. QED
  BY <1>2, <1>7, <1>8, JobLeads

\* The port is picked and nothing else happens.
LEMMA PickPortCalm ==
  ASSUME DeployInv, NEW w \in Workers, NEW a \in Apps, CalmApp(a), WorksOn(w, a),
         PickPort(w)
  PROVE  CalmApp(a)'
<1> DEFINE j == jobs[w]
<1>1. WorkerStep(w)
  BY DEF WorkerStep
<1>2. /\ \A v \in Workers \ {w} : ~WorksOn(v, a)'
      /\ \A u \in Callers : ~CallsOn(u, a)'
      /\ JobGoes(j, a) /\ j.at = "building" /\ OneRow(a) /\ j \in Job
  BY <1>1, JobOwn DEF PickPort
<1>3. /\ jobs'[w].at = "picked" /\ jobs'[w].dep = j.dep /\ jobs'[w].seen = j.seen
      /\ jobs'[w].seenStable = j.seenStable /\ jobs'[w].scan = j.scan
      /\ jobs'[w].seenStatus = j.seenStatus
  <2>1. CASE IsUpdate(j)
    BY <1>2, <2>1 DEF PickPort, DeployInv, DeployTypeOK, Job
  <2>2. CASE ~IsUpdate(j)
    BY <1>2, <2>2 DEF PickPort, DeployInv, DeployTypeOK, Job
  <2>3. QED
    BY <2>1, <2>2
<1>4. UNCHANGED <<status, stable, rows, containers, routes>>
  BY DEF PickPort, tables, world
<1>5. Led(a)' /\ OneRow(a)'
  BY <1>2, <1>4, StillSettled DEF JobGoes
<1>6. JobGoes(jobs[w], a)'
  BY <1>2, <1>3, <1>4, <1>5 DEF JobGoes
<1>7. WorksOn(w, a)'
  BY <1>3 DEF WorksOn, Busy
<1>8. QED
  BY <1>2, <1>5, <1>6, <1>7, JobLeads

\* The old container is removed: nothing has the app's name any more.
LEMMA DisplaceCalm ==
  ASSUME DeployInv, NEW w \in Workers, NEW a \in Apps, CalmApp(a), WorksOn(w, a),
         Displace(w), a \notin disturbed'
  PROVE  CalmApp(a)'
<1> DEFINE j == jobs[w]
<1>1. WorkerStep(w)
  BY DEF WorkerStep
<1>2. /\ \A v \in Workers \ {w} : ~WorksOn(v, a)'
      /\ \A u \in Callers : ~CallsOn(u, a)'
      /\ JobGoes(j, a) /\ j.at = "picked" /\ OneRow(a) /\ j \in Job /\ AppOf[j.scan] = a
  BY <1>1, JobOwn DEF Displace
<1>3. containers' = Removed(Named(a))
  BY <1>2 DEF Displace, DeployFault
<1>4. Named(a)' = {}
  BY <1>3, RemovedType DEF Named, DeployInv, DeployTypeOK
<1>5. /\ jobs'[w].at = "starting" /\ jobs'[w].dep = j.dep /\ jobs'[w].seen = j.seen
      /\ jobs'[w].seenStable = j.seenStable /\ jobs'[w].scan = j.scan
      /\ jobs'[w].seenStatus = j.seenStatus
  BY <1>2 DEF Displace, DeployInv, DeployTypeOK, Job
<1>6. UNCHANGED <<status, stable, rows>>
  BY DEF Displace, tables
<1>7. JobGoes(jobs[w], a)'
  BY <1>2, <1>4, <1>5, <1>6 DEF JobGoes
<1>8. OneRow(a)' /\ WorksOn(w, a)'
  BY <1>2, <1>5, <1>6 DEF OneRow, RowsOf, WorksOn, Busy
<1>9. QED
  BY <1>2, <1>7, <1>8, JobLeads

\* The container the app gets is the one that the job launched.
LEMMA LaunchCalm ==
  ASSUME DeployInv, CidsAreOwn, NEW w \in Workers, NEW a \in Apps, CalmApp(a),
         WorksOn(w, a), Launch(w)
  PROVE  CalmApp(a)'
<1> USE DeployAssumption
<1> DEFINE j == jobs[w]
           new == launched + 1
<1>1. WorkerStep(w)
  BY DEF WorkerStep
<1>2. /\ \A v \in Workers \ {w} : ~WorksOn(v, a)'
      /\ \A u \in Callers : ~CallsOn(u, a)'
      /\ JobGoes(j, a) /\ j.at = "starting" /\ OneRow(a) /\ j \in Job /\ AppOf[j.scan] = a
      /\ Busy(w)
  BY <1>1, JobOwn DEF Launch
<1>3. launched \in Nat /\ new \in Cids
  BY DEF Launch, DeployInv, DeployTypeOK, Cids
<1>4. /\ containers'[new].state = "running" /\ containers'[new].app = a
      /\ containers'[new].port = j.port
      /\ \A c \in Cids \ {new} : containers'[c] = containers[c]
  BY <1>2, <1>3 DEF Launch, DeployInv, DeployTypeOK
<1>5. Named(a)' = {new}
  BY <1>2, <1>3, <1>4 DEF JobGoes, Named, Exists
<1>6. /\ jobs'[w].at = "started" /\ jobs'[w].dep = j.dep /\ jobs'[w].seen = j.seen
      /\ jobs'[w].seenStable = j.seenStable /\ jobs'[w].scan = j.scan
      /\ jobs'[w].seenStatus = j.seenStatus
      /\ jobs'[w].port = j.port /\ jobs'[w].old = j.old /\ jobs'[w].cid = new
  BY <1>2 DEF Launch, DeployInv, DeployTypeOK, Job
<1>7. j.old # new
  BY <1>2, <1>3 DEF CidsAreOwn, Made, NoCid
<1>8. UNCHANGED <<status, stable, rows>>
  BY DEF Launch, tables
<1>9. JobGoes(jobs[w], a)'
  BY <1>2, <1>4, <1>5, <1>6, <1>7, <1>8 DEF JobGoes, Launched, Running
<1>10. OneRow(a)' /\ WorksOn(w, a)'
  BY <1>2, <1>6, <1>8 DEF OneRow, RowsOf, WorksOn, Busy
<1>11. QED
  BY <1>2, <1>9, <1>10, JobLeads

\* docker run raises: at most a container that does not run is there.
LEMMA LaunchRaisesCalm ==
  ASSUME DeployInv, NEW w \in Workers, NEW a \in Apps, CalmApp(a), WorksOn(w, a),
         LaunchRaises(w)
  PROVE  CalmApp(a)'
<1> USE DeployAssumption
<1> DEFINE j == jobs[w]
           new == launched + 1
<1>1. WorkerStep(w)
  BY DEF WorkerStep
<1>2. /\ \A v \in Workers \ {w} : ~WorksOn(v, a)'
      /\ \A u \in Callers : ~CallsOn(u, a)'
      /\ JobGoes(j, a) /\ j.at = "starting" /\ OneRow(a) /\ j \in Job /\ AppOf[j.scan] = a
  BY <1>1, JobOwn DEF LaunchRaises
<1>3. Down(a)'
  <2>1. CASE UNCHANGED containers
    BY <1>2, <2>1 DEF JobGoes, Down, Named, Exists
  <2>2. CASE ~UNCHANGED containers
    <3>1. launched \in Nat /\ new \in Cids
      BY <2>2 DEF LaunchRaises, DeployInv, DeployTypeOK, Cids
    <3>2. /\ containers'[new].state = "created"
          /\ \A c \in Cids \ {new} : containers'[c] = containers[c]
      BY <2>2, <3>1 DEF LaunchRaises, DeployInv, DeployTypeOK
    <3>3. QED
      BY <1>2, <3>1, <3>2 DEF JobGoes, Down, Named, Exists, Running
  <2>3. QED
    BY <2>1, <2>2
<1>4. /\ jobs'[w].at = "failing" /\ jobs'[w].dep = j.dep /\ jobs'[w].seen = j.seen
      /\ jobs'[w].seenStable = j.seenStable /\ jobs'[w].scan = j.scan
      /\ jobs'[w].seenStatus = j.seenStatus
  BY <1>2 DEF LaunchRaises, DeployInv, DeployTypeOK, Job
<1>5. UNCHANGED <<status, stable, rows>>
  BY DEF LaunchRaises, tables
<1>6. JobGoes(jobs[w], a)'
  BY <1>2, <1>3, <1>4, <1>5 DEF JobGoes
<1>7. OneRow(a)' /\ WorksOn(w, a)'
  BY <1>2, <1>4, <1>5 DEF OneRow, RowsOf, WorksOn, Busy
<1>8. QED
  BY <1>2, <1>6, <1>7, JobLeads

\* The route leads to the port of the new container.
LEMMA WriteRouteCalm ==
  ASSUME DeployInv, NEW w \in Workers, NEW a \in Apps, CalmApp(a), WorksOn(w, a),
         WriteRoute(w), a \notin disturbed'
  PROVE  CalmApp(a)'
<1> USE DeployAssumption
<1> DEFINE j == jobs[w]
<1>1. WorkerStep(w)
  BY DEF WorkerStep
<1>2. /\ \A v \in Workers \ {w} : ~WorksOn(v, a)'
      /\ \A u \in Callers : ~CallsOn(u, a)'
      /\ JobGoes(j, a) /\ j.at = "started" /\ OneRow(a) /\ j \in Job /\ AppOf[j.scan] = a
  BY <1>1, JobOwn DEF WriteRoute
<1>3. routes'[SlugOf[a]] = j.port
  BY <1>2 DEF WriteRoute, DeployFault, DeployInv, DeployTypeOK
<1>4. UNCHANGED <<status, stable, rows, containers>>
  BY DEF WriteRoute, tables
<1>5. /\ jobs'[w].at = "routed" /\ jobs'[w].dep = j.dep /\ jobs'[w].seen = j.seen
      /\ jobs'[w].seenStable = j.seenStable /\ jobs'[w].scan = j.scan
      /\ jobs'[w].seenStatus = j.seenStatus
      /\ jobs'[w].port = j.port /\ jobs'[w].old = j.old /\ jobs'[w].cid = j.cid
  BY <1>2 DEF WriteRoute, DeployInv, DeployTypeOK, Job
<1>6. Launched(j, a) /\ Named(a)' = Named(a)
  BY <1>2, <1>4 DEF JobGoes, Named, Exists
<1>7. JobGoes(jobs[w], a)'
  BY <1>2, <1>3, <1>4, <1>5, <1>6 DEF JobGoes, Launched, Running, RouteIs
<1>8. OneRow(a)' /\ WorksOn(w, a)'
  BY <1>2, <1>4, <1>5 DEF OneRow, RowsOf, WorksOn, Busy
<1>9. QED
  BY <1>2, <1>7, <1>8, JobLeads

\* The commit of a success tells of the container that runs.
LEMMA CommitRunningCalm ==
  ASSUME DeployInv, NEW w \in Workers, NEW a \in Apps, CalmApp(a), WorksOn(w, a),
         CommitRunning(w)
  PROVE  CalmApp(a)'
<1> DEFINE j == jobs[w]
           port == Written(rows[j.dep].port, j.seen.port, j.port)
<1>1. WorkerStep(w)
  BY DEF WorkerStep
<1>2. /\ \A v \in Workers \ {w} : ~WorksOn(v, a)'
      /\ \A u \in Callers : ~CallsOn(u, a)'
      /\ JobGoes(j, a) /\ j.at = "routed" /\ j \in Job /\ AppOf[j.scan] = a
      /\ j.dep \in Deployments /\ RowsOf(a) = {j.dep} /\ rows[j.dep] \in Row
  BY <1>1, JobOwn DEF CommitRunning
<1>3. /\ j.seen = rows[j.dep] /\ j.seenStable = stable[a] /\ Launched(j, a)
      /\ RouteIs(a, j.port) /\ j.old \notin Named(a)
  BY <1>2 DEF JobGoes
<1>4. port = j.port
  BY <1>3 DEF Written
<1>5. rows' = [rows EXCEPT ![j.dep] = [rows[j.dep] EXCEPT !.status = "running",
                  !.cid = j.cid, !.named = TRUE, !.port = port]]
  BY <1>2 DEF CommitRunning, DeployInv, DeployTypeOK
<1>6. /\ rows'[j.dep].status = "running" /\ rows'[j.dep].app = a
      /\ rows'[j.dep].cid = j.cid /\ rows'[j.dep].port = j.port
      /\ \A d \in Deployments \ {j.dep} : rows'[d] = rows[d]
  <2>1. rows[j.dep].app = a
    BY <1>2 DEF RowsOf
  <2> HIDE DEF port
  <2>2. QED
    BY <1>2, <1>4, <1>5, <2>1 DEF DeployInv, DeployTypeOK, Row
<1>7. stable'[a] = j.port
  BY <1>2, <1>3 DEF CommitRunning, Written, DeployInv, DeployTypeOK
<1>8. UNCHANGED <<containers, routes>>
  BY DEF CommitRunning
<1>9. RowsOf(a)' = {j.dep}
  BY <1>2, <1>6 DEF RowsOf
<1>10. Named(a)' = Named(a) /\ Named(a) = {j.cid}
  BY <1>3, <1>8 DEF Named, Exists, Launched, DeployInv, ContainerHasScan
<1>11. Led(a)'
  BY <1>3, <1>6, <1>7, <1>8, <1>9, <1>10 DEF Led, Launched, RouteIs, OwnSlug
<1>12. Told(a)'
  BY <1>3, <1>6, <1>8, <1>9, <1>10 DEF Told, Launched, Running
<1>13. /\ jobs'[w].at = "stopping" /\ jobs'[w].old = j.old /\ jobs'[w].scan = j.scan
  BY <1>2 DEF CommitRunning, DeployInv, DeployTypeOK, Job
<1>14. JobGoes(jobs[w], a)'
  <2>1. Hidden(a)'
    BY <1>2, JobEnds DEF CommitRunning
  <2>2. QED
    BY <1>3, <1>10, <1>11, <1>12, <1>13, <2>1 DEF JobGoes, Settled
<1>15. OneRow(a)' /\ WorksOn(w, a)'
  BY <1>2, <1>9, <1>13 DEF OneRow, WorksOn, Busy
<1>16. QED
  BY <1>2, <1>14, <1>15, JobLeads

\* The container a job stops at its end has been gone since the launch.
LEMMA StopOldCalm ==
  ASSUME DeployInv, CidsAreOwn, NEW w \in Workers, NEW a \in Apps, CalmApp(a),
         WorksOn(w, a), StopOld(w)
  PROVE  CalmApp(a)'
<1> DEFINE j == jobs[w]
<1>1. WorkerStep(w)
  BY DEF WorkerStep
<1>2. /\ \A v \in Workers \ {w} : ~WorksOn(v, a)'
      /\ \A u \in Callers : ~CallsOn(u, a)'
      /\ JobGoes(j, a) /\ j.at = "stopping" /\ OneRow(a) /\ AppOf[j.scan] = a /\ Busy(w)
  BY <1>1, JobOwn DEF StopOld
<1>3. containers' = Removed({j.old} \cap Cids) /\ UNCHANGED <<status, stable, rows, routes>>
  BY DEF StopOld, tables
<1>4. j.old \in Cids => ~Exists(j.old)
  BY <1>2 DEF JobGoes, Named, CidsAreOwn, Made, Cids, NoCid
<1>5. containers' = containers
  BY <1>3, <1>4 DEF Removed, DeployInv, DeployTypeOK
<1>6. Settled(a)' /\ OneRow(a)'
  BY <1>2, <1>3, <1>5, StillSettled DEF JobGoes
<1>7. ~WorksOn(w, a)'
  BY DEF StopOld, WorksOn, Busy, IdleJob, DeployInv, DeployTypeOK
<1>8. QED
  BY <1>2, <1>6, <1>7, JobLeads

\* The remaining steps are faults, or need a second activity or a second row.
LEMMA WorkerFaults ==
  ASSUME DeployInv, NEW w \in Workers, NEW a \in Apps, CalmApp(a), WorksOn(w, a),
         \/ CommitFails(w) \/ LaunchFailsTwice(w) \/ WorkerRaises(w) \/ WorkerDies(w)
  PROVE  a \in disturbed'
<1>1. WorkerStep(w)
  BY DEF WorkerStep
<1>2. /\ \A v \in Workers \ {w} : ~WorksOn(v, a)
      /\ AppOf[jobs[w].scan] = a
      /\ jobs[w].at # "loaded" => RowsOf(a) = {jobs[w].dep}
  BY <1>1, JobOwn
<1>3. ~Deadlocked(w)
  BY <1>2 DEF Deadlocked, Waits, WorksOn, Busy
<1>4. jobs[w].at # "loaded" => ~NameTaken(jobs[w].dep, a)
  BY <1>2 DEF NameTaken
<1>5. ~LaunchFailsTwice(w)
  BY <1>2, <1>3, <1>4 DEF LaunchFailsTwice
<1>6. CASE CommitFails(w)
  BY <1>2, <1>3, <1>4, <1>6 DEF CommitFails, DeployFault
<1>7. CASE WorkerRaises(w) \/ WorkerDies(w)
  BY <1>2, <1>7 DEF WorkerRaises, WorkerDies, DeployFault
<1>8. QED
  BY <1>5, <1>6, <1>7

\* A job keeps its scan to its end.
LEMMA WorkerScan ==
  ASSUME DeployInv, NEW w \in Workers, WorkerStep(w), Busy(w)
  PROVE  jobs'[w] = IdleJob \/ jobs'[w].scan = jobs[w].scan
<1>1. CASE MarkBuilding(w)
  <2>1. jobs[w] \in Job
    BY DEF DeployInv, DeployTypeOK
  <2>2. PICK x, y, z : jobs'[w] = [jobs[w] EXCEPT !.at = x, !.dep = y, !.seen = z]
    BY <1>1 DEF MarkBuilding, DeployInv, DeployTypeOK
  <2>3. QED
    BY <2>1, <2>2 DEF Job
<1>2. CASE ~MarkBuilding(w)
  BY <1>2, FailuresInv, AdvanceInv, LaunchInv, CommitRunningInv, ReleaseInv
     DEF SameJobs, WorkerStep, Take, TakeAgain
<1>3. QED
  BY <1>1, <1>2

\* Whatever a worker does, the apps that stay undisturbed stay calm.
LEMMA WorkerCalm ==
  ASSUME DeployInv, CidsAreOwn, NEW w \in Workers, WorkerStep(w), NEW a \in Apps,
         CalmApp(a), a \notin disturbed'
  PROVE  CalmApp(a)'
<1>1. CASE ~WorksOn(w, a) /\ ~WorksOn(w, a)'
  BY <1>1, WorkerApart, ApartCalm
<1>2. CASE ~WorksOn(w, a) /\ WorksOn(w, a)'
  <2>1. ~Busy(w)
    <3>1. Busy(w) => jobs'[w] = IdleJob \/ jobs'[w].scan = jobs[w].scan
      BY WorkerScan
    <3>2. QED
      BY <1>2, <3>1 DEF WorksOn, Busy, IdleJob
  <2>2. \E s \in Scans : Take(w, s) \/ \E n \in 1..MaxRetries : TakeAgain(w, s, n)
    BY <2>1 DEF WorkerStep, MarkBuilding, BuildFails, PickPort,
         PortsExhausted, Displace, Launch, LaunchRaises, LaunchFails, LaunchFailsTwice,
         WriteRoute, CommitRunning, CommitFails, StopOld, WorkerRaises, WorkerDies, Busy
  <2>3. QED
    BY <1>2, <2>2, TakeCalm
<1>3. CASE WorksOn(w, a)
  <2>1. ~\E s \in Scans : Take(w, s) \/ \E n \in 1..MaxRetries : TakeAgain(w, s, n)
    BY <1>3 DEF Take, TakeAgain, WorksOn
  <2>2. QED
    BY <1>3, <2>1, MarkBuildingCalm, BuildFailsCalm, LaunchFailsCalm, PickPortCalm,
       DisplaceCalm, LaunchCalm, LaunchRaisesCalm, WriteRouteCalm, CommitRunningCalm,
       StopOldCalm, WorkerFaults DEF WorkerStep
<1>4. QED
  BY <1>1, <1>2, <1>3

-----------------------------------------------------------------------------
(* Calm apps: requests *)

\* What is left to show of an app whose only activity is request u.
LEMMA CallLeads ==
  ASSUME NEW u \in Callers, NEW a \in Apps,
         \A w \in Workers : ~WorksOn(w, a)', \A t \in Callers \ {u} : ~CallsOn(t, a)',
         OneRow(a)', CallsOn(u, a)' => CallGoes(calls[u], a)',
         ~CallsOn(u, a)' => Settled(a)'
  PROVE  CalmApp(a)'
BY DEF CalmApp, Alone, Active

LEMMA CallOthers ==
  ASSUME DeployInv, NEW u \in Callers, CallStep(u)
  PROVE  UNCHANGED jobs /\ \A t \in Callers \ {u} : calls'[t] = calls[t]
BY DEF CallStep, StopContainer, RestartSend, PollRead, ExposeRead, StopCommit,
       RestartCommit, PollCommit, ExposeWrite, CallDies, Call1, DeployInv, DeployTypeOK

\* The request that begins finds the app at rest.
LEMMA CallBeginsCalm ==
  ASSUME DeployInv, NEW u \in Callers, NEW a \in Apps, CalmApp(a), a \notin disturbed',
         UNCHANGED jobs, NEW call, call.app = a, call.at # "idle", Call1(u, a, call)
  PROVE  /\ \A w \in Workers : ~WorksOn(w, a)'
         /\ \A t \in Callers \ {u} : ~CallsOn(t, a)'
         /\ CallsOn(u, a)' /\ calls'[u] = call
         /\ Settled(a) /\ OneRow(a)
<1>1. ~Active(a)
  BY DEF Call1, Begin
<1>2. calls'[u] = call /\ \A t \in Callers \ {u} : calls'[t] = calls[t]
  BY DEF Call1, DeployInv, DeployTypeOK
<1>3. QED
  BY <1>1, <1>2 DEF Active, WorksOn, Busy, CallsOn, CalmApp

LEMMA StopContainerCalm ==
  ASSUME DeployInv, NEW u \in Callers, NEW a \in Apps, CalmApp(a), a \notin disturbed',
         NEW d \in Deployments, rows[d].app = a, StopContainer(u, d)
  PROVE  CalmApp(a)'
<1> DEFINE call == [IdleCall EXCEPT !.at = "stopping", !.dep = d, !.app = rows[d].app]
<1>1. call.at = "stopping" /\ call.app = a /\ call.dep = d
  BY DEF IdleCall
<1>2. Call1(u, a, call) /\ UNCHANGED jobs
  BY DEF StopContainer
<1> HIDE DEF call
<1>3. /\ \A w \in Workers : ~WorksOn(w, a)'
      /\ \A t \in Callers \ {u} : ~CallsOn(t, a)'
      /\ CallsOn(u, a)' /\ calls'[u] = call
      /\ Settled(a) /\ OneRow(a)
  BY <1>1, <1>2, CallBeginsCalm
<1>4. containers' = Removed({rows[d].cid} \cap Cids) /\ UNCHANGED rows
      /\ RowsOf(a) = {d}
  BY <1>3 DEF StopContainer, OneRow, RowsOf
<1>5. Down(a)'
  <2>1. \A c \in Named(a) : Running(c) => c = rows[d].cid
    BY <1>3, <1>4 DEF Settled, Led
  <2>2. ASSUME NEW c \in Cids, Running(c)', containers'[c].app = a
        PROVE  c \in Named(a) /\ Running(c) /\ c # rows[d].cid
    BY <1>4, <2>2, RemovedType
       DEF Named, Running, Exists, Removed, DeployInv, DeployTypeOK, Container
  <2>3. QED
    BY <2>1, <2>2 DEF Down, Named
<1>6. CallGoes(calls[u], a)'
  BY <1>1, <1>3, <1>5 DEF CallGoes
<1>7. OneRow(a)'
  BY <1>3, <1>4 DEF OneRow, RowsOf
<1>8. QED
  BY <1>3, <1>6, <1>7, CallLeads

\* The other requests only read at first.
LEMMA CallReadCalm ==
  ASSUME DeployInv, CidsAreOwn, NEW u \in Callers, NEW a \in Apps, CalmApp(a), a \notin disturbed',
         \/ \E d \in Deployments : rows[d].app = a /\ (RestartSend(u, d) \/ PollRead(u, d))
         \/ ExposeRead(u, a)
  PROVE  CalmApp(a)'
<1>1. ASSUME NEW call, call.app = a, call.at \notin {"idle", "stopping"}, Call1(u, a, call),
             UNCHANGED <<status, world, jobs>>,
             call.at = "restarting" => call.seenRow = rows[call.dep].status,
             call.at = "polling" =>
                rows[call.dep].cid \in Named(a) /\ Running(rows[call.dep].cid),
             call.at = "exposing" => call.port = stable[a] /\ status[a] # "stopped"
      PROVE  CalmApp(a)'
  <2>1. /\ \A w \in Workers : ~WorksOn(w, a)'
        /\ \A t \in Callers \ {u} : ~CallsOn(t, a)'
        /\ CallsOn(u, a)' /\ calls'[u] = call
        /\ Settled(a) /\ OneRow(a)
    BY <1>1, CallBeginsCalm
  <2>2. /\ Settled(a)' /\ OneRow(a)'
        /\ RowsOf(a)' = RowsOf(a) /\ Named(a)' = Named(a)
    BY <1>1, <2>1, StillSettled DEF world
  <2>3. rows' = rows /\ containers' = containers /\ stable' = stable /\ status' = status
    BY <1>1 DEF world
  <2>4. CallGoes(calls[u], a)'
    BY <1>1, <2>1, <2>2, <2>3 DEF CallGoes, Running
  <2>5. QED
    BY <2>1, <2>2, <2>4, CallLeads
<1>2. ASSUME NEW d \in Deployments, rows[d].app = a, RestartSend(u, d)
      PROVE  CalmApp(a)'
  <2> DEFINE call == [IdleCall EXCEPT !.at = "restarting", !.dep = d, !.app = rows[d].app,
                         !.seenStatus = status[rows[d].app], !.seenRow = rows[d].status]
  <2>1. /\ call.at = "restarting" /\ call.app = a /\ call.dep = d
        /\ call.seenRow = rows[d].status
    BY <1>2 DEF IdleCall
  <2>2. Call1(u, a, call) /\ UNCHANGED <<status, world, jobs>>
    BY <1>2 DEF RestartSend
  <2> HIDE DEF call
  <2>3. QED
    BY <1>1, <2>1, <2>2
<1>3. ASSUME NEW d \in Deployments, rows[d].app = a, PollRead(u, d)
      PROVE  CalmApp(a)'
  <2> DEFINE call == [IdleCall EXCEPT !.at = "polling", !.dep = d, !.app = rows[d].app]
  <2>1. call.at = "polling" /\ call.app = a /\ call.dep = d
    BY <1>3 DEF IdleCall
  <2>2. Call1(u, a, call) /\ UNCHANGED <<status, world, jobs>>
    BY <1>3 DEF PollRead, tables
  <2>3. Running(rows[d].cid) /\ rows[d].cid \in Named(a)
    <3>1. Running(rows[d].cid) /\ rows[d].cid \in 1..launched
          /\ containers[rows[d].cid].app = a
      BY <1>3 DEF PollRead, CidsAreOwn, Made
    <3>2. rows[d].cid \in Cids
      BY <3>1, DeployAssumption DEF Cids, DeployInv, DeployTypeOK
    <3>3. QED
      BY <3>1, <3>2 DEF Named, Running, Exists
  <2> HIDE DEF call
  <2>4. QED
    BY <1>1, <2>1, <2>2, <2>3
<1>4. CASE ExposeRead(u, a)
  <2> DEFINE call == [IdleCall EXCEPT !.at = "exposing", !.app = a, !.port = stable[a]]
  <2>1. call.at = "exposing" /\ call.app = a /\ call.port = stable[a]
    BY DEF IdleCall
  <2>2. Call1(u, a, call) /\ UNCHANGED <<status, world, jobs>> /\ status[a] = "deployed"
    BY <1>4 DEF ExposeRead, tables
  <2> HIDE DEF call
  <2>3. QED
    BY <1>1, <2>1, <2>2
<1>5. QED
  BY <1>2, <1>3, <1>4

\* What is known of a calm app that request u is about.
LEMMA CallOwn ==
  ASSUME DeployInv, NEW u \in Callers, CallStep(u), NEW a \in Apps, CalmApp(a),
         CallsOn(u, a)
  PROVE  /\ \A w \in Workers : ~WorksOn(w, a)'
         /\ \A t \in Callers \ {u} : ~CallsOn(t, a)'
         /\ calls[u].app = a /\ CallGoes(calls[u], a) /\ OneRow(a)
         /\ calls[u].at \in {"stopping", "restarting", "polling"} =>
               /\ calls[u].dep \in Deployments /\ RowsOf(a) = {calls[u].dep}
               /\ rows[calls[u].dep] \in Row
<1>1. \A w \in Workers : ~WorksOn(w, a)'
  BY CallOthers DEF CalmApp, Alone, WorksOn, Busy
<1>2. \A t \in Callers \ {u} : ~CallsOn(t, a)'
  BY CallOthers DEF CalmApp, Alone, CallsOn
<1>3. calls[u].app = a /\ CallGoes(calls[u], a) /\ OneRow(a)
  BY DEF CallsOn, CalmApp
<1>4. calls[u].at \in {"stopping", "restarting", "polling"} => calls[u].dep \in RowsOf(a)
  BY <1>3 DEF DeployInv, CallHasRow
<1>5. QED
  BY <1>1, <1>2, <1>3, <1>4 DEF OneRow, RowsOf, DeployInv, DeployTypeOK

\* The status of a row is written, and nothing else of it.
LEMMA StatusWritten ==
  ASSUME DeployInv, NEW a \in Apps, NEW d \in Deployments, RowsOf(a) = {d},
         NEW st, st # "none", rows' = [rows EXCEPT ![d].status = st]
  PROVE  /\ RowsOf(a)' = {d} /\ OneRow(a)'
         /\ rows'[d].status = st /\ rows'[d].cid = rows[d].cid
         /\ rows'[d].port = rows[d].port
<1>1. rows[d].app = a /\ rows[d] \in Row
  BY DEF RowsOf, DeployInv, DeployTypeOK
<1>2. /\ rows'[d].status = st /\ rows'[d].cid = rows[d].cid
      /\ rows'[d].port = rows[d].port /\ rows'[d].app = a
      /\ \A e \in Deployments \ {d} : rows'[e] = rows[e]
  BY <1>1 DEF DeployInv, DeployTypeOK, Row
<1>3. QED
  BY <1>2 DEF RowsOf, OneRow

\* The commit of a stop: the app is down and says so.
LEMMA StopCommitCalm ==
  ASSUME DeployInv, NEW u \in Callers, NEW a \in Apps, CalmApp(a), CallsOn(u, a),
         StopCommit(u)
  PROVE  CalmApp(a)'
<1> DEFINE c == calls[u]
<1>1. CallStep(u)
  BY DEF CallStep
<1>2. /\ \A w \in Workers : ~WorksOn(w, a)'
      /\ \A t \in Callers \ {u} : ~CallsOn(t, a)'
      /\ c.app = a /\ c.at = "stopping" /\ Down(a)
      /\ c.dep \in Deployments /\ RowsOf(a) = {c.dep}
  BY <1>1, CallOwn DEF StopCommit, CallGoes
<1>3. /\ RowsOf(a)' = {c.dep} /\ OneRow(a)' /\ rows'[c.dep].status = "stopped"
  <2>1. rows' = [rows EXCEPT ![c.dep].status = "stopped"]
    BY DEF StopCommit
  <2>2. QED
    BY <1>2, <2>1, StatusWritten
<1>4. Down(a)' /\ Named(a)' = Named(a)
  BY <1>2 DEF StopCommit, Down, Named, Exists, Running
<1>5. RouteIs(a, NoPort)'
  BY <1>2, DeployAssumption DEF StopCommit, RouteIs, DeployInv, DeployTypeOK
<1>6. Settled(a)'
  BY <1>3, <1>4, <1>5 DEF Settled, Led, Told, Down, Hidden
<1>7. ~CallsOn(u, a)'
  BY DEF StopCommit, CallsOn, IdleCall, DeployInv, DeployTypeOK
<1>8. QED
  BY <1>2, <1>3, <1>6, <1>7, CallLeads

\* The commit of a restart: the row is starting, whatever runs.
LEMMA RestartCommitCalm ==
  ASSUME DeployInv, NEW u \in Callers, NEW a \in Apps, CalmApp(a), CallsOn(u, a),
         RestartCommit(u)
  PROVE  CalmApp(a)'
<1> DEFINE c == calls[u]
<1>1. CallStep(u)
  BY DEF CallStep
<1>2. /\ \A w \in Workers : ~WorksOn(w, a)'
      /\ \A t \in Callers \ {u} : ~CallsOn(t, a)'
      /\ c.app = a /\ c.at = "restarting" /\ Settled(a) /\ c.seenRow = rows[c.dep].status
      /\ c.dep \in Deployments /\ RowsOf(a) = {c.dep}
  BY <1>1, CallOwn DEF RestartCommit, CallGoes
<1>3. rows' = [rows EXCEPT ![c.dep].status = "starting"]
  BY <1>2 DEF RestartCommit, Written, DeployInv, DeployTypeOK
<1>4. /\ RowsOf(a)' = {c.dep} /\ OneRow(a)' /\ rows'[c.dep].status = "starting"
      /\ rows'[c.dep].cid = rows[c.dep].cid /\ rows'[c.dep].port = rows[c.dep].port
  BY <1>2, <1>3, StatusWritten
<1>5. UNCHANGED <<containers, stable, routes>> /\ Named(a)' = Named(a)
  BY DEF RestartCommit, Named, Exists
<1>6. Led(a)'
  BY <1>2, <1>4, <1>5 DEF Settled, Led, Running, RouteIs, OwnSlug
<1>7. Told(a)'
  BY <1>4 DEF Told
<1>8. Hidden(a)'
  <2>1. status'[a] = "stopped" => status[a] = "stopped"
    BY <1>2 DEF RestartCommit, Written, DeployInv, DeployTypeOK, TablesTypeOK
  <2>2. QED
    BY <1>2, <1>5, <2>1 DEF Settled, Hidden, RouteIs, OwnSlug
<1>9. ~CallsOn(u, a)'
  BY DEF RestartCommit, CallsOn, IdleCall, DeployInv, DeployTypeOK
<1>10. QED
  BY <1>2, <1>4, <1>6, <1>7, <1>8, <1>9, CallLeads DEF Settled

\* The commit of a status request: the container runs, and the row says so now.
LEMMA PollCommitCalm ==
  ASSUME DeployInv, NEW u \in Callers, NEW a \in Apps, CalmApp(a), CallsOn(u, a),
         PollCommit(u)
  PROVE  CalmApp(a)'
<1> DEFINE c == calls[u]
<1>1. CallStep(u)
  BY DEF CallStep
<1>2. /\ \A w \in Workers : ~WorksOn(w, a)'
      /\ \A t \in Callers \ {u} : ~CallsOn(t, a)'
      /\ c.app = a /\ c.at = "polling" /\ Settled(a)
      /\ rows[c.dep].cid \in Named(a) /\ Running(rows[c.dep].cid)
      /\ c.dep \in Deployments /\ RowsOf(a) = {c.dep}
  BY <1>1, CallOwn DEF PollCommit, CallGoes
<1>3. /\ RowsOf(a)' = {c.dep} /\ OneRow(a)' /\ rows'[c.dep].status = "running"
      /\ rows'[c.dep].cid = rows[c.dep].cid /\ rows'[c.dep].port = rows[c.dep].port
  <2>1. rows' = [rows EXCEPT ![c.dep].status = "running"]
    BY DEF PollCommit
  <2>2. QED
    BY <1>2, <2>1, StatusWritten
<1>4. UNCHANGED <<containers, stable, routes>> /\ Named(a)' = Named(a)
  BY DEF PollCommit, Named, Exists
<1>5. Led(a)'
  BY <1>2, <1>3, <1>4 DEF Settled, Led, Running, RouteIs, OwnSlug
<1>6. Told(a)'
  BY <1>2, <1>3, <1>4 DEF Told, Running
<1>7. Hidden(a)'
  BY <1>2, <1>4 DEF PollCommit, tables, Settled, Hidden, RouteIs, OwnSlug
<1>8. ~CallsOn(u, a)'
  BY DEF PollCommit, CallsOn, IdleCall, DeployInv, DeployTypeOK
<1>9. QED
  BY <1>2, <1>3, <1>5, <1>6, <1>7, <1>8, CallLeads DEF Settled

\* The route written again is the one there is, if a container runs.
LEMMA ExposeWriteCalm ==
  ASSUME DeployInv, NEW u \in Callers, NEW a \in Apps, CalmApp(a), CallsOn(u, a),
         ExposeWrite(u)
  PROVE  CalmApp(a)'
<1> USE DeployAssumption
<1> DEFINE c == calls[u]
<1>1. CallStep(u)
  BY DEF CallStep
<1>2. /\ \A w \in Workers : ~WorksOn(w, a)'
      /\ \A t \in Callers \ {u} : ~CallsOn(t, a)'
      /\ c.app = a /\ c.at = "exposing" /\ Settled(a) /\ OneRow(a)
      /\ c.port = stable[a] /\ status[a] # "stopped"
  BY <1>1, CallOwn DEF ExposeWrite, CallGoes
<1>3. UNCHANGED <<containers, stable, rows>>
  BY DEF ExposeWrite
<1>4. Named(a)' = Named(a) /\ RowsOf(a)' = RowsOf(a) /\ OneRow(a)'
  BY <1>2, <1>3 DEF Named, Exists, RowsOf, OneRow
<1>5. RouteIs(a, stable[a])'
  BY <1>2, <1>3 DEF ExposeWrite, RouteIs, DeployInv, DeployTypeOK
<1>6. Led(a)'
  BY <1>2, <1>3, <1>4, <1>5 DEF Settled, Led, Running, RouteIs
<1>7. Told(a)'
  BY <1>2, <1>3, <1>4 DEF Settled, Told, Down, Running
<1>8. Hidden(a)'
  BY <1>2 DEF ExposeWrite, tables, Hidden
<1>9. ~CallsOn(u, a)'
  BY DEF ExposeWrite, CallsOn, IdleCall, DeployInv, DeployTypeOK
<1>10. QED
  BY <1>2, <1>4, <1>6, <1>7, <1>8, <1>9, CallLeads DEF Settled

\* Whatever a request does, the apps that stay undisturbed stay calm.
LEMMA CallCalm ==
  ASSUME DeployInv, CidsAreOwn, NEW u \in Callers, CallStep(u), NEW a \in Apps,
         CalmApp(a), a \notin disturbed'
  PROVE  CalmApp(a)'
<1>1. CASE ~CallsOn(u, a) /\ ~CallsOn(u, a)'
  BY <1>1, CallApart, ApartCalm
<1>2. CASE CallsOn(u, a)
  <2>1. ~CallDies(u)
    BY <1>2 DEF CallDies, DeployFault, CallsOn
  <2>2. StopCommit(u) \/ RestartCommit(u) \/ PollCommit(u) \/ ExposeWrite(u)
    BY <1>2, <2>1 DEF CallStep, StopContainer, RestartSend, PollRead, ExposeRead, Call1,
                      CallsOn
  <2>3. QED
    BY <1>2, <2>2, StopCommitCalm, RestartCommitCalm, PollCommitCalm, ExposeWriteCalm
<1>3. CASE ~CallsOn(u, a) /\ CallsOn(u, a)'
  <2>1. ~(\/ StopCommit(u) \/ RestartCommit(u) \/ PollCommit(u) \/ ExposeWrite(u)
          \/ CallDies(u))
    BY <1>3 DEF StopCommit, RestartCommit, PollCommit, ExposeWrite, CallDies, CallsOn,
                IdleCall, DeployInv, DeployTypeOK
  <2>2. ASSUME NEW b, NEW call, Call1(u, b, call), call.app = b
        PROVE  b = a
    BY <1>3, <2>2 DEF Call1, CallsOn, DeployInv, DeployTypeOK
  <2>3. ASSUME NEW d \in Deployments,
               StopContainer(u, d) \/ RestartSend(u, d) \/ PollRead(u, d)
        PROVE  rows[d].app = a
    <3>1. CASE StopContainer(u, d)
      BY <2>2, <3>1 DEF StopContainer, IdleCall
    <3>2. CASE RestartSend(u, d)
      BY <2>2, <3>2 DEF RestartSend, IdleCall
    <3>3. CASE PollRead(u, d)
      BY <2>2, <3>3 DEF PollRead, IdleCall
    <3>4. QED
      BY <2>3, <3>1, <3>2, <3>3
  <2>4. ASSUME NEW b \in Apps, ExposeRead(u, b)
        PROVE  b = a
    BY <2>2, <2>4 DEF ExposeRead, IdleCall
  <2>5. QED
    BY <2>1, <2>3, <2>4, StopContainerCalm, CallReadCalm DEF CallStep
<1>4. QED
  BY <1>1, <1>2, <1>3

-----------------------------------------------------------------------------
(* The whole, for calm apps *)

LEMMA CalmStep ==
  ASSUME DeployInv, CalmInv, DeployStep
  PROVE  CalmInv'
<1>1. disturbed \subseteq disturbed'
  <2>1. \A a : Begin(a) \/ DeployFault(a) \/ UNCHANGED disturbed
                 => disturbed \subseteq disturbed'
    BY DEF Begin, DeployFault
  <2>2. ASSUME NEW w \in Workers, WorkerStep(w)
        PROVE  \E a : Begin(a) \/ DeployFault(a) \/ UNCHANGED disturbed
    BY <2>2 DEF WorkerStep, Take, TakeAgain, Load, MarkBuilding, BuildFails, PickPort,
         PortsExhausted, Displace, Launch, LaunchRaises, LaunchFails, LaunchFailsTwice,
         WriteRoute, CommitRunning, CommitFails, StopOld, WorkerRaises, WorkerDies
  <2>3. ASSUME NEW u \in Callers, CallStep(u)
        PROVE  \E a : Begin(a) \/ DeployFault(a) \/ UNCHANGED disturbed
    BY <2>3 DEF CallStep, StopContainer, RestartSend, PollRead, ExposeRead, StopCommit,
         RestartCommit, PollCommit, ExposeWrite, CallDies, Call1
  <2>4. QED
    BY <2>1, <2>2, <2>3 DEF DeployStep
<1>2. CidsAreOwn'
  BY WorkerCids, CallCids DEF DeployStep, CalmInv
<1>3. ASSUME NEW a \in Apps \ disturbed'
      PROVE  CalmApp(a)'
  BY <1>1, WorkerCalm, CallCalm DEF DeployStep, CalmInv
<1>4. QED
  BY <1>2, <1>3 DEF CalmInv

\* Steps of the review side leave what the deploy side shows as it was, and call
\* no app stopped.
LEMMA ElsewhereCalm ==
  ASSUME DeployInv, CalmInv, UNCHANGED deployVars,
         \A a \in Apps : status'[a] = "stopped" => status[a] = "stopped"
  PROVE  CalmInv'
<1>1. CidsAreOwn'
  BY DEF CalmInv, CidsAreOwn, Made, Busy, deployVars
<1>2. ASSUME NEW a \in Apps \ disturbed
      PROVE  CalmApp(a)'
  <2>1. Apart(a)
    BY DEF deployVars, Apart, SameRowsOf, SameNamed, RowsOf, Named, Exists, WorksOn,
           CallsOn, Busy
  <2>2. QED
    BY <2>1, ApartCalm DEF CalmInv
<1>3. QED
  BY <1>1, <1>2 DEF CalmInv, deployVars

LEMMA CalmInit ==
  ASSUME DeployLocalInit
  PROVE  CalmInv
<1>1. \A w \in Workers : ~Busy(w)
  BY DEF DeployLocalInit, Busy, IdleJob
<1>2. \A u \in Callers : calls[u].at = "idle"
  BY DEF DeployLocalInit, IdleCall
<1>3. \A a \in Apps : RowsOf(a) = {} /\ Named(a) = {}
  BY DEF DeployLocalInit, RowsOf, Named, Exists, NoRow, NoContainer
<1>4. CidsAreOwn
  BY <1>1 DEF CidsAreOwn, DeployLocalInit, NoRow
<1>5. \A a \in Apps : Hidden(a)
  BY DeployAssumption DEF DeployLocalInit, Hidden, RouteIs
<1>6. \A a \in Apps : CalmApp(a)
  BY <1>1, <1>2, <1>3, <1>5
     DEF CalmApp, Alone, OneRow, WorksOn, CallsOn, Settled, Led, Told
<1>7. QED
  BY <1>4, <1>6 DEF CalmInv

\* Every job and every request knows how far it has taken an app that nothing
\* else disturbs, and ids never lead to another app's container.
THEOREM CalmInvariant == DeploySpec => []CalmInv
<1>1. DeployInit => CalmInv
  BY CalmInit DEF DeployInit
<1>2. DeployInv /\ CalmInv /\ [DeployNext]_deployAll => CalmInv'
  <2> SUFFICES ASSUME DeployInv, CalmInv, [DeployNext]_deployAll PROVE CalmInv'
    OBVIOUS
  <2>1. CASE DeployStep
    BY <2>1, CalmStep
  <2>2. CASE ReviewSideStep
    <3>1. UNCHANGED deployVars
      BY <2>2 DEF ReviewSideStep, ReviewSideUploads, ReviewSideApproves, ReviewSideReturns
    <3>2. \A a \in Apps : status'[a] = "stopped" => status[a] = "stopped"
      BY <2>2 DEF ReviewSideStep, ReviewSideUploads, ReviewSideApproves, ReviewSideReturns,
                  DeployInv, DeployTypeOK, TablesTypeOK
    <3>3. QED
      BY <3>1, <3>2, ElsewhereCalm
  <2>3. CASE UNCHANGED deployAll
    BY <2>3, ElsewhereCalm DEF deployAll, tables
  <2>4. QED
    BY <2>1, <2>2, <2>3 DEF DeployNext
<1>3. QED
  BY <1>1, <1>2, DeployInductiveInvariant, PTL DEF DeploySpec

\* Where no two activities ever overlapped, an app at rest is settled.
LEMMA RestIsSettled ==
  ASSUME DeployInv, CalmInv, NEW a \in Apps, Calm(a)
  PROVE  Settled(a) /\ OneRow(a)
BY DEF CalmInv, CalmApp, Calm

\* A row that is there is one of its app's.
LEMMA RowIsOfApp ==
  ASSUME DeployInv, NEW d \in Deployments, rows[d].status # "none"
  PROVE  rows[d].app \in Apps /\ d \in RowsOf(rows[d].app)
BY DEF DeployInv, DeployTypeOK, Row, RowsOf

\* What the properties say of apps at rest follows from their being settled.
LEMMA RunningWhenSettled == DeployInv /\ CalmInv => RunningRowIsTrue
<1> SUFFICES ASSUME DeployInv, CalmInv, NEW d \in Deployments,
                    rows[d].status = "running", Calm(rows[d].app)
             PROVE  /\ rows[d].cid # NoCid /\ Running(rows[d].cid)
                    /\ containers[rows[d].cid].port = rows[d].port
  BY DEF RunningRowIsTrue
<1> DEFINE a == rows[d].app
<1>1. a \in Apps /\ d \in RowsOf(a) /\ Settled(a) /\ OneRow(a)
  BY RowIsOfApp, RestIsSettled
<1>2. rows[d].cid \in Named(a) /\ Running(rows[d].cid)
  BY <1>1 DEF Settled, Told
<1>3. containers[rows[d].cid].port = rows[d].port
  BY <1>1, <1>2 DEF Settled, Led, OneRow
<1>4. rows[d].cid # NoCid
  BY <1>2 DEF Named, Cids, NoCid
<1>5. QED
  BY <1>2, <1>3, <1>4

\* Between activities that never overlapped, a row that says running is true:
\* the container it names runs, on the port it names (status requests, stops,
\* restarts, failed and repeated deploys notwithstanding).
THEOREM RunningIsTrue == DeploySpec => []RunningRowIsTrue
BY RunningWhenSettled, DeployInductiveInvariant, CalmInvariant, PTL

LEMMA RouteWhenSettled == DeployInv /\ CalmInv => RouteReachesApp
<1> SUFFICES ASSUME DeployInv, CalmInv, NEW d \in Deployments,
                    rows[d].status = "running", Calm(rows[d].app)
             PROVE  /\ stable[rows[d].app] = rows[d].port
                    /\ OwnSlug(rows[d].app) =>
                          routes[SlugOf[rows[d].app]] = rows[d].port
  BY DEF RouteReachesApp
<1> DEFINE a == rows[d].app
<1>1. a \in Apps /\ d \in RowsOf(a) /\ Settled(a) /\ OneRow(a)
  BY RowIsOfApp, RestIsSettled
<1>2. rows[d].cid \in Named(a) /\ Running(rows[d].cid)
  BY <1>1 DEF Settled, Told
<1>3. QED
  BY <1>1, <1>2 DEF Settled, Led, OneRow, RouteIs

\* ... and the app's stable port and its own route lead to that container.
THEOREM RouteIsTrue == DeploySpec => []RouteReachesApp
BY RouteWhenSettled, DeployInductiveInvariant, CalmInvariant, PTL

LEMMA NamedWhenSettled == DeployInv /\ CalmInv => NoContainerLeaks
<1> SUFFICES ASSUME DeployInv, CalmInv, NEW c \in Cids, Running(c),
                    Calm(containers[c].app)
             PROVE  \E d \in RowsOf(containers[c].app) : rows[d].cid = c
  BY DEF NoContainerLeaks
<1>1. containers[c].app \in Apps /\ c \in Named(containers[c].app)
  BY DEF DeployInv, DeployTypeOK, Container, Named, Running, Exists
<1>2. Settled(containers[c].app)
  BY <1>1, RestIsSettled
<1>3. QED
  BY <1>1, <1>2 DEF Settled, Led

\* A container that runs for an app at rest is named by the app's row, so that a
\* stop request can find it.
THEOREM NothingLeaks == DeploySpec => []NoContainerLeaks
BY NamedWhenSettled, DeployInductiveInvariant, CalmInvariant, PTL

LEMMA DownWhenSettled == DeployInv /\ CalmInv => StoppedIsDown
<1> SUFFICES ASSUME DeployInv, CalmInv, NEW d \in Deployments,
                    rows[d].status = "stopped", Calm(rows[d].app)
             PROVE  /\ \A c \in Named(rows[d].app) : ~Running(c)
                    /\ status[rows[d].app] = "stopped" /\ OwnSlug(rows[d].app) =>
                          routes[SlugOf[rows[d].app]] = NoPort
  BY DEF StoppedIsDown
<1>1. /\ d \in RowsOf(rows[d].app) /\ Settled(rows[d].app)
  BY RowIsOfApp, RestIsSettled
<1>2. QED
  BY <1>1 DEF Settled, Told, Down, Hidden, RouteIs

\* An app at rest whose row says stopped is down: no container of it runs, and
\* if the app itself says so too, no route of its own is left.
THEOREM StoppedMeansDown == DeploySpec => []StoppedIsDown
BY DownWhenSettled, DeployInductiveInvariant, CalmInvariant, PTL

=============================================================================
