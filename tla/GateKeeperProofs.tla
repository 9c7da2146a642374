--------------------------- MODULE GateKeeperProofs ---------------------------
(***************************************************************************)
(* What the whole guarantees: GateDeploy is an environment GateReview      *)
(* allows for, only approved code runs, and both together implement        *)
(* ReleaseGate.                                                            *)
(***************************************************************************)
EXTENDS GateKeeper, GateReviewProofs, GateDeployProofs

-----------------------------------------------------------------------------
(* The deploy side only handles what was dispatched *)

\* A retry only multiplies a message that was there.
LEMMA RedeliveredOnly ==
  ASSUME NEW queue \in [Scans -> [1..MaxRetries -> Nat]], NEW s \in Scans,
         NEW tries \in 0..MaxRetries, NEW t \in Scans, NEW n \in 1..MaxRetries,
         Redelivered(queue, s, tries)[t][n] > 0
  PROVE  queue[t][n] > 0 \/ t = s
BY TablesAssumption DEF Redelivered

\* Parts of OnlyDispatched that a step may leave alone.
LEMMA SameInHand ==
  ASSUME OnlyDispatched, UNCHANGED dispatched
  PROVE  /\ UNCHANGED deployQueue =>
               \A s \in Scans : deployQueue'[s] > 0 => s \in dispatched
         /\ UNCHANGED again =>
               \A s \in Scans : \A n \in 1..MaxRetries : again'[s][n] > 0 => s \in dispatched
         /\ SameRows =>
               \A d \in Deployments : rows'[d].status # "none" => rows'[d].scan \in dispatched
         /\ UNCHANGED containers =>
               \A c \in Cids : Exists(c)' => containers'[c].scan \in dispatched
         /\ DeployTypeOK => \A C : containers' = Removed(C) =>
               \A c \in Cids : Exists(c)' => containers'[c].scan \in dispatched
BY RemovedType DEF OnlyDispatched, SameRows, Exists, DeployTypeOK

\* Taking a message: it was in the broker.
LEMMA LoadOnly ==
  ASSUME DeployTypeOK, OnlyDispatched, NEW w \in Workers, NEW s \in dispatched, s \in Scans,
         NEW tries \in 0..MaxRetries, NEW queue \in [Scans -> [1..MaxRetries -> Nat]],
         \A t \in Scans : \A n \in 1..MaxRetries : queue[t][n] > 0 => t \in dispatched,
         Load(w, s, tries, queue)
  PROVE  /\ \A t \in Scans : \A n \in 1..MaxRetries : again'[t][n] > 0 => t \in dispatched
         /\ \A v \in Workers : Busy(v)' => jobs'[v].scan \in dispatched
<1> DEFINE found == RowsOf(AppOf[s])
           dep == IF found = {} THEN NoDep ELSE CHOOSE d \in found : TRUE
           job == [IdleJob EXCEPT !.at = "loaded", !.scan = s, !.tries = tries,
                      !.dep = dep, !.seenStatus = status[AppOf[s]],
                      !.seenStable = stable[AppOf[s]],
                      !.seen = IF dep = NoDep THEN NoRow ELSE rows[dep]]
<1>1. CASE UNCHANGED jobs /\ again' = Redelivered(queue, s, tries)
  BY <1>1, RedeliveredOnly DEF OnlyDispatched, Busy
<1>2. CASE again' = queue /\ jobs' = [jobs EXCEPT ![w] = job]
  <2>1. job.scan = s
    BY DEF IdleJob
  <2> HIDE DEF job
  <2>2. QED
    BY <1>2, <2>1 DEF OnlyDispatched, Busy, DeployTypeOK
<1>3. QED
  BY <1>1, <1>2 DEF Load

\* A step of a worker hands on what it has in hand: to the row it marks, to the
\* container it launches, to the retry it asks for.
LEMMA WorkerOnlyDispatched ==
  ASSUME DeployInv, OnlyDispatched, NEW w \in Workers, WorkerStep(w), dispatched \subseteq Scans,
         UNCHANGED dispatched
  PROVE  OnlyDispatched'
<1> USE TablesAssumption
<1> DEFINE j == jobs[w]
           InQueue == \A s \in Scans : deployQueue'[s] > 0 => s \in dispatched
           InAgain == \A s \in Scans : \A n \in 1..MaxRetries : again'[s][n] > 0 =>
                         s \in dispatched
           InJobs == \A v \in Workers : Busy(v)' => jobs'[v].scan \in dispatched
           InRows == \A d \in Deployments : rows'[d].status # "none" =>
                        rows'[d].scan \in dispatched
           InDocker == \A c \in Cids : Exists(c)' => containers'[c].scan \in dispatched
<1>1. InQueue /\ InAgain /\ InJobs /\ InRows /\ InDocker => OnlyDispatched'
  BY DEF OnlyDispatched
<1>2. SameRows => InRows
  BY SameInHand
<1>3. UNCHANGED rows => SameRows
  BY DEF SameRows
<1>4. Busy(w) => j.scan \in Scans /\ j.scan \in dispatched /\ j.tries \in 0..MaxRetries
  BY JobFacts DEF OnlyDispatched, Job
<1>5. SameJobs(w) => InJobs
  BY DEF SameJobs, OnlyDispatched, Busy, IdleJob
<1>6. CASE \E s \in Scans : Take(w, s) \/ \E n \in 1..MaxRetries : TakeAgain(w, s, n)
  <2>1. InRows /\ InDocker
    <3>1. UNCHANGED <<rows, containers>>
      BY <1>6 DEF Take, TakeAgain, world
    <3>2. QED
      BY <1>2, <1>3, <3>1, SameInHand
  <2>2. ASSUME NEW s \in Scans, Take(w, s)
        PROVE  InQueue /\ InAgain /\ InJobs
    <3>1. s \in dispatched /\ 0 \in 0..MaxRetries
      BY <2>2 DEF Take, OnlyDispatched
    <3>2. InQueue
      BY <2>2 DEF Take, OnlyDispatched, DeployInv, DeployTypeOK, TablesTypeOK
    <3>3. InAgain /\ InJobs
      BY <2>2, <3>1, LoadOnly DEF Take, OnlyDispatched, DeployInv, DeployTypeOK
    <3>4. QED
      BY <3>2, <3>3
  <2>3. ASSUME NEW s \in Scans, NEW n \in 1..MaxRetries, TakeAgain(w, s, n)
        PROVE  InQueue /\ InAgain /\ InJobs
    <3> DEFINE queue == [again EXCEPT ![s][n] = again[s][n] - 1]
    <3>1. s \in dispatched /\ n \in 0..MaxRetries
      BY <2>3 DEF TakeAgain, OnlyDispatched
    <3>2. /\ queue \in [Scans -> [1..MaxRetries -> Nat]]
          /\ \A t \in Scans : \A m \in 1..MaxRetries : queue[t][m] > 0 => t \in dispatched
      BY <2>3, <3>1 DEF TakeAgain, OnlyDispatched, DeployInv, DeployTypeOK
    <3>3. Load(w, s, n, queue) /\ UNCHANGED deployQueue
      BY <2>3 DEF TakeAgain, tables
    <3> HIDE DEF queue
    <3>4. InAgain /\ InJobs
      BY <3>1, <3>2, <3>3, LoadOnly DEF DeployInv
    <3>5. QED
      BY <3>3, <3>4, SameInHand
  <2>4. QED
    BY <1>1, <1>6, <2>1, <2>2, <2>3
<1>7. CASE MarkBuilding(w)
  <2>1. InQueue /\ InAgain /\ InDocker
    <3>1. UNCHANGED <<deployQueue, again, containers>>
      BY <1>7 DEF MarkBuilding, tables
    <3>2. QED
      BY <3>1, SameInHand
  <2>2. Busy(w) /\ j \in Job
    BY <1>7, JobFacts DEF MarkBuilding, Busy
  <2> DEFINE free == {d \in Deployments : rows[d].status = "none"}
             dep == IF j.dep # NoDep THEN j.dep ELSE CHOOSE d \in free : TRUE
             row == [j.seen EXCEPT !.status = "building", !.scan = j.scan,
                                   !.app = AppOf[j.scan]]
             job == [j EXCEPT !.at = "building", !.dep = dep, !.seen = row]
             scan == Written(rows[dep].scan, j.seen.scan, j.scan)
             at == Written(rows[dep].status, j.seen.status, "building")
  <2>3. InJobs
    <3>1. jobs' = [jobs EXCEPT ![w] = job]
      BY <1>7 DEF MarkBuilding, DeployInv, DeployTypeOK
    <3>2. job.scan = j.scan
      BY <2>2 DEF Job
    <3> HIDE DEF job
    <3>3. QED
      BY <1>4, <2>2, <3>1, <3>2 DEF OnlyDispatched, Busy, DeployInv, DeployTypeOK
  <2>4. InRows
    <3>1. CASE j.dep = NoDep
      <4>1. dep \in Deployments /\ rows' = [rows EXCEPT ![dep] = row]
        BY <1>7, <3>1 DEF MarkBuilding
      <4>2. row.scan = j.scan
        BY <2>2 DEF Job, Row
      <4> HIDE DEF row, dep
      <4>3. QED
        BY <1>4, <2>2, <4>1, <4>2 DEF OnlyDispatched, DeployInv, DeployTypeOK
    <3>2. CASE j.dep # NoDep
      <4>1. dep \in Deployments /\ rows[dep].status # "none" /\ rows[dep] \in Row
        BY <2>2, <3>2 DEF DeployInv, DeployTypeOK, JobHasRow, RowsOf, Job
      <4>2. rows' = [rows EXCEPT ![dep] = [rows[dep] EXCEPT !.scan = scan, !.status = at]]
        BY <1>7, <3>2, <4>1 DEF MarkBuilding, DeployInv, DeployTypeOK
      <4>3. scan \in dispatched
        BY <1>4, <2>2, <4>1 DEF Written, OnlyDispatched
      <4> HIDE DEF dep, scan, at
      <4>4. QED
        BY <4>1, <4>2, <4>3 DEF OnlyDispatched, DeployInv, DeployTypeOK, Row
    <3>3. QED
      BY <3>1, <3>2
  <2>5. QED
    BY <1>1, <2>1, <2>3, <2>4
<1>8. CASE \/ BuildFails(w) \/ PortsExhausted(w) \/ LaunchFails(w) \/ CommitRunning(w)
           \/ PickPort(w) \/ Displace(w) \/ WriteRoute(w)
  <2>1. SameRows /\ SameJobs(w)
    BY <1>8, FailuresInv, CommitRunningInv, AdvanceInv
  <2>2. UNCHANGED <<deployQueue, again>>
    BY <1>8 DEF BuildFails, PortsExhausted, LaunchFails, CommitRunning, PickPort,
                Displace, WriteRoute, tables
  <2>3. InDocker
    <3>1. UNCHANGED containers \/ containers' = Removed(Named(AppOf[j.scan]))
      BY <1>8 DEF BuildFails, PortsExhausted, LaunchFails, CommitRunning, PickPort,
                  Displace, WriteRoute, world
    <3>2. QED
      BY <3>1, SameInHand DEF DeployInv
  <2>4. QED
    BY <1>1, <1>2, <1>5, <2>1, <2>2, <2>3, SameInHand
<1>9. CASE Launch(w) \/ LaunchRaises(w)
  <2>1. SameRows /\ SameJobs(w)
    BY <1>9, LaunchInv
  <2>2. UNCHANGED <<deployQueue, again>> /\ Busy(w)
    BY <1>9 DEF Launch, LaunchRaises, tables, Busy
  <2>3. InDocker
    <3>1. \/ UNCHANGED containers
          \/ \E at \in {"running", "created"} : containers' = [containers EXCEPT
                ![launched + 1] = [state |-> at, app |-> AppOf[j.scan], scan |-> j.scan,
                                   port |-> j.port]]
      BY <1>9 DEF Launch, LaunchRaises
    <3>2. ASSUME NEW at, containers' = [containers EXCEPT ![launched + 1] =
                    [state |-> at, app |-> AppOf[j.scan], scan |-> j.scan,
                     port |-> j.port]]
          PROVE  InDocker
      <4>1. \A c \in Cids : \/ containers'[c] = containers[c]
                            \/ containers'[c].scan = j.scan
        BY <3>2 DEF DeployInv, DeployTypeOK
      <4>2. QED
        BY <1>4, <2>2, <4>1 DEF OnlyDispatched, Exists
    <3>3. QED
      BY <3>1, <3>2, SameInHand
  <2>4. QED
    BY <1>1, <1>2, <1>5, <2>1, <2>2, <2>3, SameInHand
<1>10. CASE \/ CommitFails(w) \/ LaunchFailsTwice(w) \/ StopOld(w)
            \/ WorkerRaises(w) \/ WorkerDies(w)
  <2>1. SameRows /\ SameJobs(w)
    BY <1>10, ReleaseInv
  <2>2. UNCHANGED deployQueue /\ Busy(w)
    BY <1>10 DEF CommitFails, LaunchFailsTwice, StopOld, WorkerRaises, WorkerDies,
                 tables, Busy
  <2>3. InAgain
    <3>1. UNCHANGED again \/ again' = Redelivered(again, j.scan, j.tries)
      BY <1>10 DEF CommitFails, LaunchFailsTwice, StopOld, WorkerRaises, WorkerDies, Raise
    <3>2. CASE again' = Redelivered(again, j.scan, j.tries)
      <4>1. again \in [Scans -> [1..MaxRetries -> Nat]]
        BY DEF DeployInv, DeployTypeOK
      <4>2. \A s \in Scans : \A n \in 1..MaxRetries :
               again'[s][n] > 0 => again[s][n] > 0 \/ s = j.scan
        BY <1>4, <2>2, <3>2, <4>1, RedeliveredOnly
      <4>3. QED
        BY <1>4, <2>2, <4>2 DEF OnlyDispatched
    <3>3. QED
      BY <3>1, <3>2, SameInHand
  <2>4. InDocker
    <3>1. UNCHANGED containers \/ \E C : containers' = Removed(C)
      BY <1>10 DEF CommitFails, LaunchFailsTwice, StopOld, WorkerRaises, WorkerDies, world
    <3>2. QED
      BY <3>1, SameInHand DEF DeployInv
  <2>5. QED
    BY <1>1, <1>2, <1>5, <2>1, <2>2, <2>3, <2>4, SameInHand
<1>11. QED
  BY <1>6, <1>7, <1>8, <1>9, <1>10 DEF WorkerStep

\* A request sends the message of a row's scan, and takes nothing else in hand.
LEMMA CallOnlyDispatched ==
  ASSUME DeployInv, OnlyDispatched, NEW u \in Callers, CallStep(u), UNCHANGED dispatched
  PROVE  OnlyDispatched'
<1>1. UNCHANGED <<again, jobs>>
  BY DEF CallStep, StopContainer, RestartSend, PollRead, ExposeRead, StopCommit,
         RestartCommit, PollCommit, ExposeWrite, CallDies
<1>2. SameRows
  <2>1. CASE UNCHANGED rows
    BY <2>1 DEF SameRows
  <2>2. CASE StopCommit(u) \/ RestartCommit(u) \/ PollCommit(u)
    BY <2>2, CallCommitInv
  <2>3. QED
    BY <2>1, <2>2 DEF CallStep, StopContainer, RestartSend, PollRead, ExposeRead,
                      ExposeWrite, CallDies, world
<1>3. \A s \in Scans : deployQueue'[s] > 0 => s \in dispatched
  <2>1. CASE UNCHANGED deployQueue
    BY <2>1, SameInHand
  <2>2. ASSUME NEW d \in Deployments, RestartSend(u, d)
        PROVE  \A s \in Scans : deployQueue'[s] > 0 => s \in dispatched
    BY <2>2 DEF RestartSend, Enqueue, OnlyDispatched, DeployInv, DeployTypeOK, TablesTypeOK
  <2>3. QED
    BY <2>1, <2>2 DEF CallStep, StopContainer, PollRead, ExposeRead, StopCommit,
                      RestartCommit, PollCommit, ExposeWrite, CallDies, tables
<1>4. \A c \in Cids : Exists(c)' => containers'[c].scan \in dispatched
  <2>1. UNCHANGED containers \/ \E C : containers' = Removed(C)
    BY DEF CallStep, StopContainer, RestartSend, PollRead, ExposeRead, StopCommit,
           RestartCommit, PollCommit, ExposeWrite, CallDies, world
  <2>2. QED
    BY <2>1, SameInHand DEF DeployInv
<1>5. QED
  BY <1>1, <1>2, <1>3, <1>4, SameInHand DEF OnlyDispatched, Busy

\* The review side only sends what it adds to dispatched.
LEMMA ReviewOnlyDispatched ==
  ASSUME IInv, OnlyDispatched, ReviewStep, UNCHANGED deployVars
  PROVE  OnlyDispatched'
<1>1. /\ dispatched \subseteq dispatched'
      /\ \A s \in Scans : deployQueue'[s] > 0 => deployQueue[s] > 0 \/ s \in dispatched'
  <2>1. CASE UNCHANGED <<deployQueue, dispatched>>
    BY <2>1
  <2>2. ASSUME NEW t, Enqueue(t), dispatched' = dispatched \cup {t}
        PROVE  /\ dispatched \subseteq dispatched'
               /\ \A s \in Scans : deployQueue'[s] > 0 =>
                     deployQueue[s] > 0 \/ s \in dispatched'
    BY <2>2 DEF Enqueue, IInv, TypeOK, TablesTypeOK
  <2>3. ASSUME NEW s \in Scans, RequestStep(s)
        PROVE  UNCHANGED <<deployQueue, dispatched>>
    BY <2>3 DEF RequestStep, UploadRead, UploadRefused, UploadSend, TriggerSend, Send,
                RequestCommit, RequestDies, tables
  <2>4. ASSUME NEW s \in Scans, ScanStep(s), ~ScanDispatch(s)
        PROVE  UNCHANGED <<deployQueue, dispatched>>
    BY <2>4 DEF ScanStep, ScanMissing, ScanStart, ScanArchiveFails, ScanCompletes,
                ScanConflict, AutoApprove, ScanRaises, ScanWorkerDies, tables
  <2>5. ASSUME NEW u \in Approvers, DeskStep(u), ~DeskDispatch(u)
        PROVE  UNCHANGED <<deployQueue, dispatched>>
    BY <2>5 DEF DeskStep, DeskOpen, DeskCommit, DeskDies, tables
  <2>6. QED
    BY <2>1, <2>2, <2>3, <2>4, <2>5 DEF ReviewStep, ScanDispatch, DeskDispatch
<1>2. QED
  BY <1>1 DEF OnlyDispatched, deployVars, Busy, Exists

-----------------------------------------------------------------------------
(* The deploy side is one of GateReview's environments *)

\* Each step of a worker or a request is a step of DeploySide... or changes
\* nothing the review side can see.
LEMMA DeployStepMaps ==
  ASSUME DeployInv, OnlyDispatched, dispatched \subseteq Scans, DeployStep,
         UNCHANGED reviewVars
  PROVE  [DeploySideStep]_vars
<1>1. ASSUME NEW s \in Scans, s \in dispatched, UNCHANGED <<scans, approvals, deployQueue>>,
             NEW seen, NEW new \in {"deployed", "approved", "stopped"},
             status' = [status EXCEPT ![AppOf[s]] = Written(status[AppOf[s]], seen, new)]
                \/ status' = [status EXCEPT ![AppOf[s]] = new]
      PROVE  [DeploySideStep]_vars
  <2>1. CASE status' = [status EXCEPT ![AppOf[s]] = new]
    BY <1>1, <2>1 DEF DeploySideStep, DeploySideWrites
  <2>2. CASE status' = [status EXCEPT ![AppOf[s]] = status[AppOf[s]]]
    <3>1. status' = status
      BY <2>2 DEF DeployInv, DeployTypeOK, TablesTypeOK
    <3>2. QED
      BY <1>1, <3>1 DEF vars, reviewVars
  <2>3. QED
    BY <1>1, <2>1, <2>2 DEF Written
<1>2. CASE UNCHANGED tables
  BY <1>2 DEF vars, tables, reviewVars
<1>3. ASSUME NEW w \in Workers, WorkerStep(w)
      PROVE  [DeploySideStep]_vars
  <2> DEFINE j == jobs[w]
             new == IF scans[j.scan].type = "update" THEN "deployed" ELSE "approved"
  <2>1. ASSUME NEW s \in Scans, Take(w, s)
        PROVE  [DeploySideStep]_vars
    BY <2>1 DEF Take, DeploySideStep, DeploySideTakes
  <2>2. CASE BuildFails(w) \/ PortsExhausted(w) \/ LaunchFails(w)
    <3>1. j.scan \in Scans /\ j.scan \in dispatched
      BY <2>2, JobFacts
         DEF BuildFails, PortsExhausted, LaunchFails, Busy, OnlyDispatched
    <3>2. /\ UNCHANGED <<scans, approvals, deployQueue>>
          /\ status' = [status EXCEPT ![AppOf[j.scan]] =
                           Written(status[AppOf[j.scan]], j.seenStatus, new)]
      BY <2>2 DEF BuildFails, PortsExhausted, LaunchFails, Fail
    <3>3. QED
      BY <1>1, <3>1, <3>2
  <2>3. CASE CommitRunning(w)
    <3>1. j.scan \in Scans /\ j.scan \in dispatched
      BY <2>3, JobFacts DEF CommitRunning, Busy, OnlyDispatched
    <3>2. /\ UNCHANGED <<scans, approvals, deployQueue>>
          /\ status' = [status EXCEPT ![AppOf[j.scan]] =
                           Written(status[AppOf[j.scan]], j.seenStatus, "deployed")]
      BY <2>3 DEF CommitRunning
    <3>3. QED
      BY <1>1, <3>1, <3>2
  <2>4. CASE \/ \E s \in Scans, n \in 1..MaxRetries : TakeAgain(w, s, n)
             \/ MarkBuilding(w) \/ PickPort(w) \/ Displace(w) \/ Launch(w)
             \/ LaunchRaises(w) \/ LaunchFailsTwice(w) \/ WriteRoute(w)
             \/ CommitFails(w) \/ StopOld(w) \/ WorkerRaises(w) \/ WorkerDies(w)
    BY <1>2, <2>4 DEF TakeAgain, MarkBuilding, PickPort, Displace, Launch, LaunchRaises,
                      LaunchFailsTwice, WriteRoute, CommitFails, StopOld, WorkerRaises,
                      WorkerDies
  <2>5. QED
    BY <1>3, <2>1, <2>2, <2>3, <2>4 DEF WorkerStep
<1>4. ASSUME NEW u \in Callers, CallStep(u)
      PROVE  [DeploySideStep]_vars
  <2> DEFINE c == calls[u]
             s == rows[c.dep].scan
  <2>1. ASSUME NEW d \in Deployments, RestartSend(u, d)
        PROVE  [DeploySideStep]_vars
    <3>1. rows[d].scan \in Scans /\ rows[d].scan \in dispatched
      BY <2>1 DEF RestartSend, DeployInv, RowHasScan, OnlyDispatched
    <3>2. DeploySideSends(rows[d].scan)
      BY <2>1, <3>1 DEF RestartSend, DeploySideSends
    <3>3. QED
      BY <3>1, <3>2 DEF DeploySideStep
  <2>2. CASE StopCommit(u) \/ RestartCommit(u)
    <3>1. s \in Scans /\ s \in dispatched /\ AppOf[s] = c.app
      BY <2>2 DEF StopCommit, RestartCommit, DeployInv, CallHasRow, RowHasScan, RowsOf,
                  OnlyDispatched
    <3>2. /\ UNCHANGED <<scans, approvals, deployQueue>>
          /\ \/ status' = [status EXCEPT ![c.app] = "stopped"]
             \/ status' = [status EXCEPT ![c.app] =
                              Written(status[c.app], c.seenStatus, "deployed")]
      BY <2>2 DEF StopCommit, RestartCommit, DeployInv, DeployTypeOK, TablesTypeOK
    <3> HIDE DEF s, c
    <3>3. QED
      BY <1>1, <3>1, <3>2
  <2>3. CASE \/ \E d \in Deployments : StopContainer(u, d) \/ PollRead(u, d)
             \/ \E a \in Apps : ExposeRead(u, a)
             \/ PollCommit(u) \/ ExposeWrite(u) \/ CallDies(u)
    BY <1>2, <2>3 DEF StopContainer, PollRead, ExposeRead, PollCommit, ExposeWrite, CallDies
  <2>4. QED
    BY <1>4, <2>1, <2>2, <2>3 DEF CallStep
<1>5. QED
  BY <1>3, <1>4 DEF DeployStep

-----------------------------------------------------------------------------
(* The whole *)

\* A step of the whole is one of GateReview's, its environment's included.
LEMMA KeeperStepMaps == KeeperInv /\ [KeeperNext]_keeperVars => [Next]_vars
<1> SUFFICES ASSUME KeeperInv, [KeeperNext]_keeperVars PROVE [Next]_vars
  OBVIOUS
<1>1. CASE ReviewStep
  BY <1>1 DEF Next
<1>2. CASE DeployStep /\ UNCHANGED reviewVars
  BY <1>2, DeployStepMaps DEF Next, KeeperInv, IInv, TypeOK
<1>3. CASE UNCHANGED keeperVars
  BY <1>3 DEF keeperVars
<1>4. QED
  BY <1>1, <1>2, <1>3 DEF KeeperNext

\* Both sides' invariants, and that the deploy side only has in hand what was
\* dispatched, hold in every reachable state.
THEOREM KeeperInductiveInvariant == KeeperSpec => []KeeperInv
<1>1. KeeperInit => KeeperInv
  <2> SUFFICES ASSUME KeeperInit PROVE KeeperInv
    OBVIOUS
  <2>1. IInv
    BY InitIInv DEF KeeperInit
  <2>2. DeployInv
    BY <2>1, DeployLocalInitInv DEF KeeperInit, IInv, TypeOK
  <2>3. OnlyDispatched
    BY TablesAssumption
       DEF KeeperInit, ReviewInit, TablesInit, DeployLocalInit, OnlyDispatched, Busy,
           Exists, IdleJob, NoRow, NoContainer
  <2>4. QED
    BY <2>1, <2>2, <2>3 DEF KeeperInv
<1>2. KeeperInv /\ [KeeperNext]_keeperVars => KeeperInv'
  <2> SUFFICES ASSUME KeeperInv, [KeeperNext]_keeperVars PROVE KeeperInv'
    OBVIOUS
  <2>1. IInv'
    BY KeeperStepMaps, NextIInv DEF KeeperInv
  <2>2. CASE ReviewStep /\ UNCHANGED deployVars
    BY <2>1, <2>2, ElsewhereInv, ReviewOnlyDispatched DEF KeeperInv, IInv, TypeOK
  <2>3. CASE DeployStep /\ UNCHANGED reviewVars
    <3>1. DeployInv'
      BY <2>3, DeployStepInv DEF KeeperInv
    <3>2. UNCHANGED dispatched /\ dispatched \subseteq Scans
      BY <2>3 DEF reviewVars, KeeperInv, IInv, TypeOK
    <3>3. OnlyDispatched'
      BY <2>3, <3>2, WorkerOnlyDispatched, CallOnlyDispatched DEF DeployStep, KeeperInv
    <3>4. QED
      BY <2>1, <3>1, <3>3 DEF KeeperInv
  <2>4. CASE UNCHANGED keeperVars
    <3>1. DeployInv'
      BY <2>1, <2>4, ElsewhereInv DEF keeperVars, KeeperInv, IInv, TypeOK
    <3>2. OnlyDispatched'
      BY <2>4 DEF keeperVars, vars, deployVars, KeeperInv, OnlyDispatched, Busy, Exists
    <3>3. QED
      BY <2>1, <3>1, <3>2 DEF KeeperInv
  <2>5. QED
    BY <2>2, <2>3, <2>4 DEF KeeperNext
<1>3. QED
  BY <1>1, <1>2, PTL DEF KeeperSpec

\* The deploy workers and the stop and restart requests are an environment
\* GateReview allows for, so its theorems hold of the whole.
THEOREM DeploySideIsAllowedFor == KeeperSpec => RefinesReview
<1>1. KeeperInit => ReviewInit
  BY DEF KeeperInit
<1>2. QED
  BY <1>1, KeeperStepMaps, KeeperInductiveInvariant, PTL
     DEF KeeperSpec, RefinesReview, Spec

\* Every container is of a scan whose approval is granted and stays granted:
\* no retry, restart, race or crash launches anything else.
THEOREM OnlyApprovedCodeRuns == KeeperSpec => []LiveCodeIsApproved
<1>1. KeeperInv => LiveCodeIsApproved
  BY DEF KeeperInv, IInv, DispatchedOnlyApproved, OnlyDispatched, DeployInv,
         ContainerHasScan, LiveCodeIsApproved
<1>2. QED
  BY <1>1, KeeperInductiveInvariant, PTL

-----------------------------------------------------------------------------
(* What the deploy side shows of an app is so in the whole, too *)

\* Whatever uploads, pipeline tasks and decisions write through their stale
\* sessions, they call no app stopped.
LEMMA ReviewStopsNothing ==
  ASSUME IInv, ReviewStep, NEW a \in Apps, status'[a] = "stopped"
  PROVE  status[a] = "stopped"
<1> DEFINE Writes == \E b, seen, new :
              /\ new # "stopped"
              /\ status' = [status EXCEPT ![b] = Written(status[b], seen, new)]
<1>1. UNCHANGED status => status[a] = "stopped"
  OBVIOUS
<1>2. Writes => status[a] = "stopped"
  BY DEF Written, IInv, TypeOK, TablesTypeOK
<1>3. ASSUME NEW s \in Scans, RequestStep(s) PROVE UNCHANGED status \/ Writes
  <2>1. CASE RequestCommit(s)
    BY <2>1 DEF RequestCommit
  <2>2. QED
    BY <1>3, <2>1 DEF RequestStep, UploadRead, UploadRefused, UploadSend, TriggerSend,
                      Send, RequestDies, tables
<1>4. ASSUME NEW s \in Scans, ScanStep(s) PROVE UNCHANGED status \/ Writes
  <2>1. CASE ScanArchiveFails(s)
    BY <2>1 DEF ScanArchiveFails
  <2>2. ASSUME NEW tier \in Tiers, ScanCompletes(s, tier)
        PROVE  Writes
    <3>1. PICK new : /\ new # "stopped"
                     /\ status' = [status EXCEPT ![AppOf[s]] =
                                      Written(status[AppOf[s]], scanTask[s].seen, new)]
      BY <2>2 DEF ScanCompletes
    <3>2. QED
      BY <3>1
  <2>3. QED
    BY <1>4, <2>1, <2>2 DEF ScanStep, ScanMissing, ScanStart, ScanConflict, AutoApprove,
                            ScanDispatch, ScanRaises, ScanWorkerDies, tables
<1>5. ASSUME NEW u \in Approvers, DeskStep(u) PROVE UNCHANGED status \/ Writes
  <2>1. ASSUME NEW d \in {"approved", "rejected"}, DeskCommit(u, d)
        PROVE  Writes
    BY <2>1 DEF DeskCommit, StatusAfter
  <2>2. QED
    BY <1>5, <2>1 DEF DeskStep, DeskOpen, DeskDispatch, DeskDies, tables
<1>6. QED
  BY <1>1, <1>2, <1>3, <1>4, <1>5 DEF ReviewStep

\* The stages of jobs and requests on undisturbed apps are as the deploy side
\* alone has them: no upload, scan or decision upsets them.
THEOREM CalmThroughout == KeeperSpec => []CalmInv
<1>1. KeeperInit => CalmInv
  BY CalmInit DEF KeeperInit
<1>2. KeeperInv /\ CalmInv /\ [KeeperNext]_keeperVars => CalmInv'
  <2> SUFFICES ASSUME KeeperInv, CalmInv, [KeeperNext]_keeperVars PROVE CalmInv'
    OBVIOUS
  <2>1. CASE ReviewStep /\ UNCHANGED deployVars
    BY <2>1, ReviewStopsNothing, ElsewhereCalm DEF KeeperInv
  <2>2. CASE DeployStep
    BY <2>2, CalmStep DEF KeeperInv
  <2>3. CASE UNCHANGED keeperVars
    BY <2>3, ElsewhereCalm DEF keeperVars, vars, tables, KeeperInv
  <2>4. QED
    BY <2>1, <2>2, <2>3 DEF KeeperNext
<1>3. QED
  BY <1>1, <1>2, KeeperInductiveInvariant, PTL DEF KeeperSpec

\* With the real uploads, scans and decisions around it, too, the deploy side
\* tells the truth about an app at rest: running runs, routed where the row says,
\* nothing else runs, and stopped is down.
THEOREM WhatIsToldIsSo ==
  KeeperSpec => [](/\ RunningRowIsTrue /\ RouteReachesApp
                   /\ NoContainerLeaks /\ StoppedIsDown)
<1>1. KeeperInv => DeployInv
  BY DEF KeeperInv
<1>2. QED
  BY <1>1, RunningWhenSettled, RouteWhenSettled, NamedWhenSettled, DownWhenSettled,
     CalmThroughout, KeeperInductiveInvariant, PTL

-----------------------------------------------------------------------------
(* The whole implements ReleaseGate *)

GateStep == Gate!GateNext \/ UNCHANGED <<verdictOf, liveIn>>

\* The verdict of a scan is what its approval row says.
LEMMA VerdictFacts ==
  ASSUME NEW s \in Scans
  PROVE  /\ verdictOf[s] = "granted" <=> approvals[s].decision = "approved"
         /\ verdictOf[s] = "refused" <=> approvals[s].decision = "rejected"
         /\ verdictOf[s] = "open" <=> ~Decided(s)
         /\ verdictOf[s] \in {"open", "granted", "refused"}
BY DEF verdictOf, Decided

\* What is live is what runs.
LEMMA LiveFacts ==
  ASSUME NEW a \in Apps
  PROVE  /\ liveIn[a] = {} <=> \A c \in Cids : Running(c) => containers[c].app # a
         /\ \A s : s \in liveIn[a] <=>
               \E c \in Cids : Running(c) /\ containers[c].app = a /\ containers[c].scan = s
BY DEF liveIn

\* Approvals that stay decided or undecided as they are leave the verdicts alone.
LEMMA SameVerdict ==
  ASSUME \A s \in Scans : \/ approvals'[s].decision = approvals[s].decision
                             \/ {approvals[s].decision, approvals'[s].decision}
                                   \subseteq {"absent", "pending"}
  PROVE  UNCHANGED verdictOf
<1>1. \A s \in Scans : (CASE approvals'[s].decision = "approved" -> "granted"
                          [] approvals'[s].decision = "rejected" -> "refused"
                          [] OTHER -> "open")
                     = (CASE approvals[s].decision = "approved" -> "granted"
                          [] approvals[s].decision = "rejected" -> "refused"
                          [] OTHER -> "open")
  BY DEF Decided
<1>2. QED
  BY <1>1 DEF verdictOf

\* A decision is taken on an open verdict, and gives it.
LEMMA DecisionMaps ==
  ASSUME NEW s \in Scans, ~Decided(s), approvals \in [Scans -> ApprovalRow],
         NEW d \in {"approved", "rejected"}, NEW u,
         approvals' = [approvals EXCEPT ![s] = [decision |-> d, by |-> u, at |-> Now]],
         UNCHANGED containers
  PROVE  \E v \in {"granted", "refused"} : Gate!Decide(s, v)
<1> DEFINE v == IF d = "approved" THEN "granted" ELSE "refused"
<1>1. verdictOf[s] = "open"
  BY VerdictFacts
<1>2. verdictOf' = [verdictOf EXCEPT ![s] = v]
  BY DEF verdictOf
<1>3. UNCHANGED liveIn
  BY DEF liveIn, Running
<1>4. QED
  BY <1>1, <1>2, <1>3 DEF Gate!Decide

\* The review side decides open verdicts and runs nothing.
LEMMA ReviewStepIsGate ==
  ASSUME IInv, ReviewStep, UNCHANGED deployVars
  PROVE  GateStep
<1>1. UNCHANGED liveIn /\ UNCHANGED containers
  BY DEF deployVars, liveIn, Running
<1>2. approvals \in [Scans -> ApprovalRow]
  BY DEF IInv, TypeOK, TablesTypeOK
<1>3. ASSUME \A s \in Scans : \/ approvals'[s].decision = approvals[s].decision
                                 \/ {approvals[s].decision, approvals'[s].decision}
                                       \subseteq {"absent", "pending"}
      PROVE  GateStep
  BY <1>1, <1>3, SameVerdict DEF GateStep
<1>4. CASE UNCHANGED approvals
  BY <1>3, <1>4
<1>5. ASSUME NEW s \in Scans, ~Decided(s),
             NEW d \in {"approved", "rejected"}, NEW u,
             approvals' = [approvals EXCEPT ![s] = [decision |-> d, by |-> u, at |-> Now]]
      PROVE  GateStep
  <2>1. \E v \in {"granted", "refused"} : Gate!Decide(s, v)
    BY <1>1, <1>2, <1>5, DecisionMaps
  <2>2. QED
    BY <2>1 DEF GateStep, Gate!GateNext
<1>6. ASSUME NEW s \in Scans, RequestStep(s) PROVE UNCHANGED approvals
  BY <1>6 DEF RequestStep, UploadRead, UploadRefused, UploadSend, TriggerSend, Send,
              RequestCommit, RequestDies, tables
<1>7. ASSUME NEW s \in Scans, ScanStep(s) PROVE GateStep
  <2>1. ASSUME NEW tier \in Tiers, ScanCompletes(s, tier)
        PROVE  GateStep
    <3>1. \/ UNCHANGED approvals
          \/ /\ approvals[s].decision = "absent"
             /\ approvals' = [approvals EXCEPT ![s].decision = "pending"]
      BY <2>1 DEF ScanCompletes, RouteAfterScan
    <3>2. QED
      BY <1>2, <1>3, <1>4, <3>1 DEF Decided, ApprovalRow
  <2>2. CASE AutoApprove(s)
    <3>1. /\ ~Decided(s)
          /\ approvals' = [approvals EXCEPT ![s] =
                              [decision |-> "approved", by |-> Nobody, at |-> Now]]
      BY <2>2 DEF AutoApprove, Decided
    <3>2. QED
      BY <1>5, <3>1
  <2>3. CASE \/ ScanMissing(s) \/ ScanStart(s) \/ ScanArchiveFails(s) \/ ScanConflict(s)
             \/ ScanDispatch(s) \/ ScanRaises(s) \/ ScanWorkerDies(s)
    BY <1>4, <2>3 DEF ScanMissing, ScanStart, ScanArchiveFails, ScanConflict,
                      ScanDispatch, ScanRaises, ScanWorkerDies, tables
  <2>4. QED
    BY <1>7, <2>1, <2>2, <2>3 DEF ScanStep
<1>8. ASSUME NEW u \in Approvers, DeskStep(u) PROVE GateStep
  <2>1. ASSUME NEW d \in {"approved", "rejected"}, DeskCommit(u, d)
        PROVE  GateStep
    <3>1. /\ desk[u].scan \in Scans /\ ~Decided(desk[u].scan)
          /\ approvals' = [approvals EXCEPT ![desk[u].scan] =
                              [decision |-> d, by |-> u, at |-> Now]]
      BY <2>1 DEF DeskCommit, IInv, DeskOwnsApproval, Decided
    <3>2. QED
      BY <1>5, <3>1
  <2>2. CASE (\E s \in Scans : DeskOpen(u, s)) \/ DeskDispatch(u) \/ DeskDies(u)
    BY <1>4, <2>2 DEF DeskOpen, DeskDispatch, DeskDies, tables
  <2>3. QED
    BY <1>8, <2>1, <2>2 DEF DeskStep
<1>9. QED
  BY <1>4, <1>6, <1>7, <1>8 DEF ReviewStep

\* Removing containers of one app retires what it ran, if it ran anything.
LEMMA RemovalIsGate ==
  ASSUME DeployInv, NEW a \in Apps, NEW C,
         \A c \in Cids : c \in C /\ Exists(c) => containers[c].app = a,
         containers' = Removed(C), UNCHANGED approvals
  PROVE  GateStep
<1>1. UNCHANGED verdictOf
  BY DEF verdictOf
<1>2. \A c \in Cids : /\ containers'[c].app = containers[c].app
                      /\ containers'[c].scan = containers[c].scan
                      /\ Running(c)' <=> Running(c) /\ c \notin C
  BY DEF Removed, Running, Exists, DeployInv, DeployTypeOK, Container
<1>3. \A b, c \in Cids : Running(b) /\ Running(c)
                          /\ containers[b].app = containers[c].app => b = c
  BY DEF DeployInv, ContainerHasScan, Running, Exists
<1>4. CASE \E c \in Cids : c \in C /\ Running(c)
  <2>1. PICK c \in Cids : c \in C /\ Running(c)
    BY <1>4
  <2>2. containers[c].app = a
    BY <2>1 DEF Running, Exists
  <2>3. \A b \in Apps : liveIn'[b] = IF b = a THEN {} ELSE liveIn[b]
    BY <1>2, <1>3, <2>1, <2>2 DEF liveIn, Running, Exists
  <2>4. liveIn' = [liveIn EXCEPT ![a] = {}]
    BY <2>3 DEF liveIn
  <2>5. QED
    BY <1>1, <2>4 DEF GateStep, Gate!GateNext, Gate!Retire
<1>5. CASE \A c \in Cids : c \in C => ~Running(c)
  <2>1. \A b \in Apps : liveIn'[b] = liveIn[b]
    BY <1>2, <1>5 DEF liveIn
  <2>2. liveIn' = liveIn
    BY <2>1 DEF liveIn
  <2>3. QED
    BY <1>1, <2>2 DEF GateStep
<1>6. QED
  BY <1>4, <1>5

\* A launch goes live with an approved scan where nothing ran; one that fails
\* runs nothing.
LEMMA LaunchIsGate ==
  ASSUME KeeperInv, NEW w \in Workers, Launch(w) \/ LaunchRaises(w)
  PROVE  GateStep
<1> USE TablesAssumption
<1> DEFINE s == jobs[w].scan
           a == AppOf[s]
           fresh == launched + 1
<1>1. Busy(w)
  BY DEF Launch, LaunchRaises, Busy
<1>2. s \in Scans /\ a \in Apps /\ s \in dispatched
  BY <1>1, JobFacts DEF KeeperInv, OnlyDispatched
<1>3. verdictOf[s] = "granted" /\ UNCHANGED verdictOf
  <2>1. approvals[s].decision = "approved" /\ UNCHANGED approvals
    BY <1>2 DEF Launch, LaunchRaises, tables, KeeperInv, IInv, DispatchedOnlyApproved,
                Approved
  <2>2. QED
    BY <1>2, <2>1, VerdictFacts DEF verdictOf
<1>4. CASE UNCHANGED containers
  BY <1>3, <1>4 DEF GateStep, liveIn, Running
<1>5. ASSUME NEW at, launched < MaxLaunches, Named(a) = {},
             containers' = [containers EXCEPT ![fresh] =
                [state |-> at, app |-> a, scan |-> s, port |-> jobs[w].port]]
      PROVE  /\ fresh \in Cids /\ ~Running(fresh)
             /\ \A c \in Cids \ {fresh} : containers'[c] = containers[c]
             /\ containers'[fresh].state = at
             /\ containers'[fresh].app = a /\ containers'[fresh].scan = s
             /\ liveIn[a] = {}
  <2>1. fresh \in Cids /\ launched \in Nat
    BY <1>5, DeployAssumption DEF KeeperInv, DeployInv, DeployTypeOK, Cids
  <2>2. ~Exists(fresh)
    BY <2>1 DEF KeeperInv, DeployInv, ContainerHasScan
  <2>3. \A c \in Cids : Running(c) => containers[c].app # a
    BY <1>5 DEF Named, Running, Exists
  <2>4. liveIn[a] = {}
    BY <1>2, <2>3 DEF liveIn
  <2>5. QED
    BY <1>5, <2>1, <2>2, <2>4 DEF Running, Exists, KeeperInv, DeployInv, DeployTypeOK
<1> HIDE DEF fresh
<1>6. CASE Launch(w)
  <2>1. /\ fresh \in Cids /\ ~Running(fresh)
        /\ \A c \in Cids \ {fresh} : containers'[c] = containers[c]
        /\ containers'[fresh].state = "running"
        /\ containers'[fresh].app = a /\ containers'[fresh].scan = s
        /\ liveIn[a] = {}
    BY <1>5, <1>6 DEF Launch, fresh
  <2>2. \A b \in Apps : liveIn'[b] = IF b = a THEN {s} ELSE liveIn[b]
    <3>1. \A c \in Cids : Running(c) => containers[c].app # a
      BY <1>2, <2>1, LiveFacts
    <3>2. QED
      BY <2>1, <3>1 DEF liveIn, Running
  <2>3. liveIn' = [liveIn EXCEPT ![a] = {s}]
    BY <2>2 DEF liveIn
  <2>4. Gate!GoLive(s)
    BY <1>3, <2>1, <2>3 DEF Gate!GoLive
  <2>5. QED
    BY <1>2, <2>4 DEF GateStep, Gate!GateNext
<1>7. CASE LaunchRaises(w) /\ ~UNCHANGED containers
  <2>1. /\ fresh \in Cids /\ ~Running(fresh)
        /\ \A c \in Cids \ {fresh} : containers'[c] = containers[c]
        /\ containers'[fresh].state = "created"
    BY <1>5, <1>7 DEF LaunchRaises, fresh
  <2>2. \A b \in Apps : liveIn'[b] = liveIn[b]
    BY <2>1 DEF liveIn, Running
  <2>3. liveIn' = liveIn
    BY <2>2 DEF liveIn
  <2>4. QED
    BY <1>3, <2>3 DEF GateStep
<1>8. QED
  BY <1>4, <1>6, <1>7

\* The deploy side launches and retires, and gives no verdicts.
LEMMA DeployStepIsGate ==
  ASSUME KeeperInv, DeployStep
  PROVE  GateStep
<1>1. CASE UNCHANGED <<approvals, containers>>
  BY <1>1 DEF GateStep, verdictOf, liveIn, Running
<1>2. ASSUME NEW c, NEW C, C \subseteq {c}, containers' = Removed(C), UNCHANGED approvals
      PROVE  GateStep
  <2>1. CASE c \in Cids
    <3>1. containers[c].app \in Apps
      BY <2>1 DEF KeeperInv, DeployInv, DeployTypeOK, Container
    <3>2. QED
      BY <1>2, <3>1, RemovalIsGate DEF KeeperInv
  <2>2. CASE c \notin Cids
    <3>1. PICK a \in Apps : TRUE
      BY DeployAssumption
    <3>2. QED
      BY <1>2, <2>2, <3>1, RemovalIsGate DEF KeeperInv
  <2>3. QED
    BY <2>1, <2>2
<1>3. ASSUME NEW w \in Workers, WorkerStep(w) PROVE GateStep
  <2>1. CASE Displace(w)
    <3> DEFINE a == AppOf[jobs[w].scan]
    <3>1. a \in Apps /\ UNCHANGED approvals
      BY <2>1, JobFacts DEF Displace, Busy, tables, KeeperInv
    <3>2. CASE containers' = Removed(Named(a))
      BY <3>1, <3>2, RemovalIsGate DEF KeeperInv, Named
    <3>3. QED
      BY <1>1, <2>1, <3>1, <3>2 DEF Displace
  <2>2. CASE Launch(w) \/ LaunchRaises(w)
    BY <2>2, LaunchIsGate
  <2>3. CASE CommitFails(w)
    BY <1>2, <2>3 DEF CommitFails, tables
  <2>4. CASE StopOld(w)
    <3>1. {jobs[w].old} \cap Cids \subseteq {jobs[w].old}
      OBVIOUS
    <3>2. QED
      BY <1>2, <2>4, <3>1 DEF StopOld, tables
  <2>5. CASE \/ \E s \in Scans : Take(w, s) \/ \E n \in 1..MaxRetries : TakeAgain(w, s, n)
             \/ MarkBuilding(w) \/ BuildFails(w) \/ PickPort(w) \/ PortsExhausted(w)
             \/ LaunchFails(w) \/ LaunchFailsTwice(w) \/ WriteRoute(w)
             \/ CommitRunning(w) \/ WorkerRaises(w) \/ WorkerDies(w)
    BY <1>1, <2>5
       DEF Take, TakeAgain, MarkBuilding, BuildFails, PickPort, PortsExhausted,
           LaunchFails, LaunchFailsTwice, WriteRoute, CommitRunning, WorkerRaises,
           WorkerDies, tables, world
  <2>6. QED
    BY <1>3, <2>1, <2>2, <2>3, <2>4, <2>5 DEF WorkerStep
<1>4. ASSUME NEW u \in Callers, CallStep(u) PROVE GateStep
  <2>1. ASSUME NEW d \in Deployments, StopContainer(u, d) PROVE GateStep
    <3>1. {rows[d].cid} \cap Cids \subseteq {rows[d].cid}
      OBVIOUS
    <3>2. QED
      BY <1>2, <2>1, <3>1 DEF StopContainer, tables
  <2>2. CASE \/ \E d \in Deployments : RestartSend(u, d) \/ PollRead(u, d)
             \/ \E a \in Apps : ExposeRead(u, a)
             \/ StopCommit(u) \/ RestartCommit(u) \/ PollCommit(u) \/ ExposeWrite(u)
             \/ CallDies(u)
    BY <1>1, <2>2 DEF RestartSend, PollRead, ExposeRead, StopCommit, RestartCommit,
                      PollCommit, ExposeWrite, CallDies, tables, world
  <2>3. QED
    BY <1>4, <2>1, <2>2 DEF CallStep
<1>5. QED
  BY <1>3, <1>4 DEF DeployStep

\* GatekeeperAI implements ReleaseGate: a scan gets at most one verdict, an app
\* goes live only with a granted scan, one at a time, whatever runs in parallel.
THEOREM TheGateIsKept == KeeperSpec => KeepsTheGate
<1>1. KeeperInit => Gate!GateInit
  <2> SUFFICES ASSUME KeeperInit PROVE Gate!GateInit
    OBVIOUS
  <2>1. verdictOf = [s \in Scans |-> "open"]
    BY DEF KeeperInit, ReviewInit, TablesInit, NoApprovalRow, verdictOf
  <2>2. liveIn = [a \in Apps |-> {}]
    BY DEF KeeperInit, DeployLocalInit, NoContainer, liveIn, Running
  <2>3. QED
    BY <2>1, <2>2 DEF Gate!GateInit
<1>2. KeeperInv /\ [KeeperNext]_keeperVars => [Gate!GateNext]_(Gate!gate)
  <2> SUFFICES ASSUME KeeperInv, [KeeperNext]_keeperVars
               PROVE  [Gate!GateNext]_(Gate!gate)
    OBVIOUS
  <2>1. CASE ReviewStep /\ UNCHANGED deployVars
    BY <2>1, ReviewStepIsGate DEF KeeperInv, GateStep, Gate!gate
  <2>2. CASE DeployStep
    BY <2>2, DeployStepIsGate DEF GateStep, Gate!gate
  <2>3. CASE UNCHANGED keeperVars
    BY <2>3 DEF keeperVars, vars, deployVars, verdictOf, liveIn, Running, Gate!gate
  <2>4. QED
    BY <2>1, <2>2, <2>3 DEF KeeperNext
<1>3. QED
  BY <1>1, <1>2, KeeperInductiveInvariant, PTL
     DEF KeeperSpec, KeepsTheGate, Gate!GateSpec
=============================================================================
