----------------------------- MODULE GateCluster ------------------------------
(***************************************************************************)
(* The deploy task on the Kubernetes backend (worker/deploy_task.py with   *)
(* DEPLOY_BACKEND=kubernetes, k8s_build_service.py, k8s_app_service.py,    *)
(* k8s_ingress_service.py) and the requests that touch the cluster.        *)
(*                                                                         *)
(* One app.  Every call to the API server is a step: build Jobs, the       *)
(* Deployment, the Ingress and Service are shared by name, and tasks and   *)
(* requests find there what others have left.  The cluster then moves by   *)
(* itself: Jobs end, and pods follow the Deployment.                       *)
(*                                                                         *)
(* Uploads, scans and decisions are here for what they do to the app's     *)
(* status, one step each; GateReview has them in full.                     *)
(***************************************************************************)
EXTENDS Naturals, FiniteSets

CONSTANTS
    Commits,     \* commits of the app, one scan each; a Job is named by one
    Unbuildable, \* commits whose build fails
    Broken,      \* commits whose pods never get ready
    NoCommit,
    Tasks,       \* deploy messages, each used once
    Callers,     \* requests
    MaxRetries,  \* of a task, 2 in the code
    MaxCalls,    \* bound on requests
    MaxFaults    \* bound on crashes, errors of the API servers and timeouts

ASSUME ClusterAssumption ==
    /\ Unbuildable \subseteq Commits /\ Broken \subseteq Commits
    /\ NoCommit \notin Commits
    /\ MaxRetries \in Nat /\ MaxCalls \in Nat /\ MaxFaults \in Nat

VARIABLES
    row,         \* the app's deployments row
    app,         \* its app_submissions row
    scans,       \* the scan of each commit
    tasks, callers,
    jobs,        \* build Jobs, by name
    images,      \* commits with an image in the registry
    dep,         \* the Deployment
    ingress,     \* "none", or the visibility the Ingress was written with
    pods,        \* the pods of each image
    calls, faults,
    unshown,     \* history: the last change of the visibility left the Ingress alone
    disturbed    \* history: two activities overlapped, a fault hit one, or the status
                 \* was read when the pods had not followed the Deployment yet

clusterVars == <<row, app, scans, tasks, callers, jobs, images, dep, ingress, pods,
                 calls, faults, unshown, disturbed>>

Visibilities == {"private", "public"}
\* "in_review" stands for pending_scan, scanning, awaiting_approval, rejected and
\* failed, which nothing here tells apart.
AppStatus == {"in_review", "approved", "deployed", "stopped"}
RowStatus == {"building", "starting", "running", "stopped", "failed"}

\* `named': k8s_deployment_name, internal_port and public_url are set.
Row == [here: BOOLEAN, status: RowStatus, commit: Commits \cup {NoCommit},
        image: Commits \cup {NoCommit}, named: BOOLEAN]
App == [status: AppStatus, visibility: Visibilities]
Scan == [state: {"none", "queued", "review", "approved", "rejected"},
         type: {"initial", "update"}]
Job == [state: {"none", "running", "succeeded", "failed"}, deleting: BOOLEAN,
        builds: Commits \cup {NoCommit}]

\* A task keeps what its session loaded, of the app and the row's image, for its
\* whole run.
Task == [at: {"idle", "sent", "build", "stale", "gone", "again", "poll", "apply",
              "route", "ready", "failing", "done"},
         commit: Commits \cup {NoCommit}, seen: App, had: Commits \cup {NoCommit},
         tries: 0..MaxRetries]
Caller == [at: {"idle", "unroute", "scale", "stop", "restart", "poll", "show"},
           seen: AppStatus, was: RowStatus, now: RowStatus, visibility: Visibilities]

NoJob == [state |-> "none", deleting |-> FALSE, builds |-> NoCommit]
IdleTask == [at |-> "idle", commit |-> NoCommit, tries |-> 0, had |-> NoCommit,
             seen |-> [status |-> "approved", visibility |-> "private"]]
IdleCaller == [at |-> "idle", seen |-> "approved", was |-> "failed", now |-> "failed",
               visibility |-> "private"]

\* build-<name>-<commit>.
\* (mutant) build-<name>.
JobNameOfApp(c) == CHOOSE d \in Commits : TRUE

JobName(c) == c

approved == {c \in Commits : scans[c].state = "approved"}

Working(t) == tasks[t].at \notin {"idle", "done"}

Busy == (\E t \in Tasks : Working(t)) \/ \E c \in Callers : callers[c].at # "idle"

\* An activity begins, alone or not; a fault hits one.
Starts == disturbed' = (disturbed \/ Busy)
Fault == faults < MaxFaults /\ faults' = faults + 1 /\ disturbed' = TRUE

TaskTo(t, phase) == tasks' = [tasks EXCEPT ![t].at = phase]
CallerTo(c, phase) == callers' = [callers EXCEPT ![c].at = phase]

\* An attribute set to the value it was loaded with is not in the UPDATE.
Set(now, seen, new) == IF new = seen THEN now ELSE new

\* update_visibility has flushed its UPDATE of the app and not committed.
AppLocked == \E c \in Callers : callers[c].at = "show"

requests == <<callers, calls>>
cluster == <<jobs, images, dep, ingress, pods>>
histories == <<unshown, disturbed>>

-----------------------------------------------------------------------------
(* The review *)

\* A session that had loaded the status it sets writes none.
StatusTo(s) == \E seen \in {app.status, s} : app' = [app EXCEPT !.status = Set(@, seen, s)]

\* What becomes of the app when a scan fails or is rejected: of an update, the
\* live version is taken to be running on.
Back(c) == IF scans[c].type = "update" THEN "deployed" ELSE "in_review"

\* trigger_scan, for a push, makes an initial scan; upload_zip an update of an app
\* it finds deployed.
Upload(c) ==
    /\ scans[c].state = "none" /\ ~AppLocked
    /\ \E type \in {"initial", "update"} :
         /\ type = "update" => app.status = "deployed"
         /\ scans' = [scans EXCEPT ![c] = [state |-> "queued", type |-> type]]
    /\ app' = [app EXCEPT !.status = "in_review"]
    /\ UNCHANGED <<row, tasks, requests, cluster, faults, histories>>

\* The pipeline ends; one that is run again may do so after the decision.
Classify(c) ==
    /\ scans[c].state # "none" /\ ~AppLocked
    /\ scans' = [scans EXCEPT ![c].state = IF @ = "queued" THEN "review" ELSE @]
    /\ \E s \in {"in_review", "approved"} : StatusTo(s)
    /\ UNCHANGED <<row, tasks, requests, cluster, faults, histories>>

ScanFails(c) ==
    /\ scans[c].state # "none" /\ ~AppLocked
    /\ StatusTo(Back(c))
    /\ UNCHANGED <<row, scans, tasks, requests, cluster, faults, histories>>

\* decide_approval, or the auto-approval, sends the message of a commit.
Approve(t, c) ==
    /\ tasks[t].at = "idle" /\ scans[c].state = "review" /\ ~AppLocked
    /\ scans' = [scans EXCEPT ![c].state = "approved"]
    /\ StatusTo("approved")
    /\ tasks' = [tasks EXCEPT ![t] = [@ EXCEPT !.at = "sent", !.commit = c]]
    /\ Starts
    /\ UNCHANGED <<row, requests, cluster, faults, unshown>>

Reject(c) ==
    /\ scans[c].state = "review" /\ ~AppLocked
    /\ scans' = [scans EXCEPT ![c].state = "rejected"]
    /\ StatusTo(Back(c))
    /\ UNCHANGED <<row, tasks, requests, cluster, faults, histories>>

-----------------------------------------------------------------------------
(* The deploy task *)

\* The task loads its rows and commits the building mark.
Begin(t) ==
    /\ tasks[t].at = "sent"
    /\ row' = [row EXCEPT !.here = TRUE, !.status = "building", !.commit = tasks[t].commit]
    /\ tasks' = [tasks EXCEPT ![t] = [@ EXCEPT !.at = "build", !.seen = app, !.had = row.image]]
    /\ UNCHANGED <<app, scans, requests, cluster, faults, histories>>

Created(t) ==
    jobs' = [jobs EXCEPT ![JobName(tasks[t].commit)] =
                [state |-> "running", deleting |-> FALSE, builds |-> tasks[t].commit]]

\* build_and_push creates the Job; a 409 is taken for a stale one ...
CreateJob(t) ==
    /\ tasks[t].at = "build"
    /\ IF jobs[JobName(tasks[t].commit)].state = "none"
       THEN Created(t) /\ TaskTo(t, "poll")
       ELSE UNCHANGED jobs /\ TaskTo(t, "stale")
    /\ UNCHANGED <<row, app, scans, requests, images, dep, ingress, pods, faults, histories>>

\* ... which is deleted with its pods; that it has gone meanwhile is an error.
\* (mutant) It does not wait for the deletion.
DeleteAtOnce(t) ==
    LET n == JobName(tasks[t].commit) IN
    /\ tasks[t].at = "stale"
    /\ IF jobs[n].state = "none"
       THEN UNCHANGED jobs /\ TaskTo(t, "failing")
       ELSE jobs' = [jobs EXCEPT ![n].deleting = TRUE] /\ TaskTo(t, "again")
    /\ UNCHANGED <<row, app, scans, requests, images, dep, ingress, pods, faults, histories>>

DeleteStale(t) ==
    LET n == JobName(tasks[t].commit) IN
    /\ tasks[t].at = "stale"
    /\ IF jobs[n].state = "none"
       THEN UNCHANGED jobs /\ TaskTo(t, "failing")
       ELSE jobs' = [jobs EXCEPT ![n].deleting = TRUE] /\ TaskTo(t, "gone")
    /\ UNCHANGED <<row, app, scans, requests, images, dep, ingress, pods, faults, histories>>

\* _wait_for_job_deletion returns when there is no Job of the name ...
JobIsGone(t) ==
    /\ tasks[t].at = "gone" /\ jobs[JobName(tasks[t].commit)].state = "none"
    /\ TaskTo(t, "again")
    /\ UNCHANGED <<row, app, scans, requests, cluster, faults, histories>>

\* ... and the second 409 is an error.
CreateAgain(t) ==
    /\ tasks[t].at = "again"
    /\ IF jobs[JobName(tasks[t].commit)].state = "none"
       THEN Created(t) /\ TaskTo(t, "poll")
       ELSE UNCHANGED jobs /\ TaskTo(t, "failing")
    /\ UNCHANGED <<row, app, scans, requests, images, dep, ingress, pods, faults, histories>>

\* _wait_for_job asks by name; a Job that is not there is an error.
PollJob(t) ==
    LET job == jobs[JobName(tasks[t].commit)] IN
    /\ tasks[t].at = "poll" /\ job.state # "running"
    /\ TaskTo(t, IF job.state = "succeeded" THEN "apply" ELSE "failing")
    /\ UNCHANGED <<row, app, scans, requests, cluster, faults, histories>>

\* 30 polls, or 600 s, are over, or a call of build_and_push or deploy_app fails.
BuildFails(t) ==
    /\ tasks[t].at \in {"build", "stale", "gone", "again", "poll", "apply"}
    /\ Fault
    /\ TaskTo(t, "failing")
    /\ UNCHANGED <<row, app, scans, requests, cluster, unshown>>

\* deploy_app replaces the Deployment, with one replica.
\* (mutant) It patches the image of one that is there.
ApplyPatch(t) ==
    /\ tasks[t].at = "apply"
    /\ dep' = [here |-> TRUE, image |-> tasks[t].commit,
               replicas |-> IF dep.here THEN dep.replicas ELSE 1]
    /\ TaskTo(t, "route")
    /\ UNCHANGED <<row, app, scans, requests, jobs, images, ingress, pods, faults, histories>>

Apply(t) ==
    /\ tasks[t].at = "apply"
    /\ dep' = [here |-> TRUE, image |-> tasks[t].commit, replicas |-> 1]
    /\ TaskTo(t, "route")
    /\ UNCHANGED <<row, app, scans, requests, jobs, images, ingress, pods, faults, histories>>

\* write_app_ingress, with the visibility the task has loaded.
Route(t) ==
    /\ tasks[t].at = "route"
    /\ ingress' = tasks[t].seen.visibility /\ unshown' = FALSE
    /\ TaskTo(t, "ready")
    /\ UNCHANGED <<row, app, scans, requests, jobs, images, dep, pods, faults, disturbed>>

\* A failure is logged, and the task goes on.
RouteFails(t) ==
    /\ tasks[t].at = "route"
    /\ Fault
    /\ TaskTo(t, "ready")
    /\ UNCHANGED <<row, app, scans, requests, cluster, unshown>>

\* 120 s have passed or a pod of any version is ready.
Finish(t) ==
    /\ tasks[t].at = "ready" /\ ~AppLocked
    /\ row' = [row EXCEPT !.status = "running", !.named = TRUE,
                          !.image = Set(@, tasks[t].had, tasks[t].commit)]
    /\ app' = [app EXCEPT !.status = Set(@, tasks[t].seen.status, "deployed")]
    /\ TaskTo(t, "done")
    /\ UNCHANGED <<scans, requests, cluster, faults, histories>>

\* _fail takes the old version of an update for live, also when it was stopped.
Fail(t) ==
    /\ tasks[t].at = "failing" /\ ~AppLocked
    /\ row' = [row EXCEPT !.status = "failed"]
    /\ app' = [app EXCEPT !.status = Set(@, tasks[t].seen.status,
                 IF scans[tasks[t].commit].type = "initial" THEN "approved" ELSE "deployed")]
    /\ TaskTo(t, "done")
    /\ UNCHANGED <<scans, requests, cluster, faults, histories>>

\* The database fails, or what _run_deploy does not catch: the task is sent again, a
\* few times.
\* (mutant) As often as it takes.
SendAgainForever(t) ==
    /\ tasks[t].at \in {"sent", "build", "ready", "failing"}
    /\ Fault
    /\ tasks' = [tasks EXCEPT ![t] = [@ EXCEPT !.at = "sent", !.tries = tasks[t].tries + 1]]
    /\ UNCHANGED <<row, app, scans, requests, cluster, unshown>>

SendAgain(t) ==
    /\ tasks[t].at \in {"sent", "build", "ready", "failing"}
    /\ Fault
    /\ tasks' = [tasks EXCEPT ![t] =
         IF tasks[t].tries < MaxRetries
         THEN [@ EXCEPT !.at = "sent", !.tries = tasks[t].tries + 1]
         ELSE [@ EXCEPT !.at = "done"]]
    /\ UNCHANGED <<row, app, scans, requests, cluster, unshown>>

\* The worker dies, with the task it had acknowledged.
Crash(t) ==
    /\ Working(t) /\ tasks[t].at # "sent"
    /\ Fault
    /\ TaskTo(t, "done")
    /\ UNCHANGED <<row, app, scans, requests, cluster, unshown>>

-----------------------------------------------------------------------------
(* Requests *)

Call(c, caller) ==
    /\ callers[c].at = "idle" /\ calls < MaxCalls
    /\ calls' = calls + 1
    /\ callers' = [callers EXCEPT ![c] = caller]

\* stop_deployment: the route goes, the Deployment is scaled, the rows follow.
StopRead(c) ==
    /\ row.here /\ row.status \in {"running", "starting"}
    /\ Call(c, [IdleCaller EXCEPT !.at = "unroute", !.seen = app.status])
    /\ Starts
    /\ UNCHANGED <<row, app, scans, tasks, cluster, faults, unshown>>

StopRoute(c) ==
    /\ callers[c].at = "unroute"
    /\ ingress' = "none"
    /\ CallerTo(c, "scale")
    /\ UNCHANGED <<row, app, scans, tasks, calls, jobs, images, dep, pods, faults, histories>>

StopScale(c) ==
    /\ callers[c].at = "scale"
    /\ dep' = IF dep.here THEN [dep EXCEPT !.replicas = 0] ELSE dep
    /\ CallerTo(c, "stop")
    /\ UNCHANGED <<row, app, scans, tasks, calls, jobs, images, ingress, pods, faults, histories>>

StopCommit(c) ==
    /\ callers[c].at = "stop" /\ ~AppLocked
    /\ row' = [row EXCEPT !.status = "stopped"]
    /\ app' = [app EXCEPT !.status = Set(@, callers[c].seen, "stopped")]
    /\ CallerTo(c, "idle")
    /\ UNCHANGED <<scans, tasks, calls, cluster, faults, histories>>

\* restart_deployment sends the deploy of the row's commit and then commits.
RestartSend(c, t) ==
    /\ row.here /\ row.commit \in approved /\ tasks[t].at = "idle"
    /\ Call(c, [IdleCaller EXCEPT !.at = "restart", !.seen = app.status, !.was = row.status])
    /\ tasks' = [tasks EXCEPT ![t] = [@ EXCEPT !.at = "sent", !.commit = row.commit]]
    /\ Starts
    /\ UNCHANGED <<row, app, scans, cluster, faults, unshown>>

\* The task it has sent may have begun, or ended, before.
RestartCommit(c) ==
    /\ callers[c].at = "restart" /\ ~AppLocked
    /\ row' = [row EXCEPT !.status = Set(@, callers[c].was, "starting")]
    /\ app' = [app EXCEPT !.status = Set(@, callers[c].seen, "deployed")]
    /\ CallerTo(c, "idle")
    /\ UNCHANGED <<scans, tasks, calls, cluster, faults, histories>>

Ready == {i \in Commits : pods[i] = "ready"}
Wanted(i) == dep.here /\ dep.replicas = 1 /\ i = dep.image
Settled == \A i \in Commits : Wanted(i) <=> pods[i] # "none"

\* get_status writes what it read of the pods if the row says otherwise.
LiveStatus ==
    IF Ready # {} THEN "running"
    ELSE IF \A i \in Commits : pods[i] = "none" THEN "stopped" ELSE "starting"

PollRead(c) ==
    /\ row.here /\ row.named /\ LiveStatus # row.status
    /\ Call(c, [IdleCaller EXCEPT !.at = "poll", !.was = row.status, !.now = LiveStatus])
    /\ disturbed' = (disturbed \/ Busy \/ ~Settled)
    /\ UNCHANGED <<row, app, scans, tasks, cluster, faults, unshown>>

PollCommit(c) ==
    /\ callers[c].at = "poll"
    /\ row' = [row EXCEPT !.status = callers[c].now]
    /\ CallerTo(c, "idle")
    /\ UNCHANGED <<app, scans, tasks, calls, cluster, faults, histories>>

\* update_visibility flushes, writes the Ingress if the app's status is "deployed",
\* which it is not while an update is in review, and commits.
Shows == app.status = "deployed" /\ row.here /\ row.named

ShowFlush(c, v) ==
    /\ ~AppLocked /\ v # app.visibility
    /\ Call(c, [IdleCaller EXCEPT !.at = "show", !.visibility = v])
    /\ ingress' = IF Shows THEN v ELSE ingress
    /\ unshown' = ~Shows
    /\ Starts
    /\ UNCHANGED <<row, app, scans, tasks, jobs, images, dep, pods, faults>>

ShowCommit(c) ==
    /\ callers[c].at = "show"
    /\ app' = [app EXCEPT !.visibility = callers[c].visibility]
    /\ CallerTo(c, "idle")
    /\ UNCHANGED <<row, scans, tasks, calls, cluster, faults, histories>>

\* The handler fails between two of its steps, and its transaction with it.
CallFails(c) ==
    /\ callers[c].at # "idle"
    /\ Fault
    /\ CallerTo(c, "idle")
    /\ UNCHANGED <<row, app, scans, tasks, calls, cluster, unshown>>

-----------------------------------------------------------------------------
(* The cluster *)

JobEnds(n) ==
    /\ jobs[n].state = "running" /\ ~jobs[n].deleting
    /\ IF jobs[n].builds \in Unbuildable
       THEN jobs' = [jobs EXCEPT ![n].state = "failed"] /\ UNCHANGED images
       ELSE /\ jobs' = [jobs EXCEPT ![n].state = "succeeded"]
            /\ images' = images \cup {jobs[n].builds}
    /\ UNCHANGED <<row, app, scans, tasks, requests, dep, ingress, pods, faults, histories>>

\* A deleted Job goes, and one that ended an hour ago, which who polls it has seen.
JobGoes(n) ==
    /\ \/ jobs[n].deleting
       \/ /\ jobs[n].state \in {"succeeded", "failed"}
          /\ \A t \in Tasks : tasks[t].at = "poll" => JobName(tasks[t].commit) # n
    /\ jobs' = [jobs EXCEPT ![n] = NoJob]
    /\ UNCHANGED <<row, app, scans, tasks, requests, images, dep, ingress, pods, faults, histories>>

\* The Deployment controller: the old pod goes when the new one is ready.
PodMoves(i) ==
    /\ \/ /\ pods[i] = "none" /\ Wanted(i)
          /\ pods' = [pods EXCEPT ![i] = "starting"]
       \/ /\ pods[i] = "starting" /\ i \in images \ Broken
          /\ pods' = [pods EXCEPT ![i] = "ready"]
       \/ /\ pods[i] # "none" /\ ~Wanted(i)
          /\ dep.replicas = 0 \/ pods[dep.image] = "ready"
          /\ pods' = [pods EXCEPT ![i] = "none"]
    /\ UNCHANGED <<row, app, scans, tasks, requests, jobs, images, dep, ingress, faults, histories>>

-----------------------------------------------------------------------------

ClusterInit ==
    /\ row = [here |-> FALSE, status |-> "failed", commit |-> NoCommit,
              image |-> NoCommit, named |-> FALSE]
    /\ app = [status |-> "in_review", visibility |-> "private"]
    /\ scans = [c \in Commits |-> [state |-> "none", type |-> "initial"]]
    /\ tasks = [t \in Tasks |-> IdleTask]
    /\ callers = [c \in Callers |-> IdleCaller]
    /\ jobs = [n \in Commits |-> NoJob]
    /\ images = {}
    /\ dep = [here |-> FALSE, image |-> NoCommit, replicas |-> 0]
    /\ ingress = "none"
    /\ pods = [i \in Commits |-> "none"]
    /\ calls = 0 /\ faults = 0 /\ unshown = FALSE /\ disturbed = FALSE

TaskStep(t) ==
    \/ Begin(t) \/ CreateJob(t) \/ DeleteStale(t) \/ JobIsGone(t) \/ CreateAgain(t) \/ PollJob(t)
    \/ Apply(t) \/ Route(t) \/ Finish(t) \/ Fail(t)

TaskFault(t) == BuildFails(t) \/ RouteFails(t) \/ SendAgain(t) \/ Crash(t)

CallerStep(c) ==
    \/ StopRead(c) \/ StopRoute(c) \/ StopScale(c) \/ StopCommit(c)
    \/ RestartCommit(c) \/ PollRead(c) \/ PollCommit(c) \/ ShowCommit(c) \/ CallFails(c)
    \/ \E t \in Tasks : RestartSend(c, t)
    \/ \E v \in Visibilities : ShowFlush(c, v)

Review(c) ==
    \/ Upload(c) \/ Classify(c) \/ ScanFails(c) \/ Reject(c)
    \/ \E t \in Tasks : Approve(t, c)

ClusterNext ==
    \/ \E c \in Commits : Review(c)
    \/ \E t \in Tasks : TaskStep(t) \/ TaskFault(t)
    \/ \E c \in Callers : CallerStep(c)
    \/ \E n \in Commits : JobEnds(n) \/ JobGoes(n) \/ PodMoves(n)

ClusterSpec == ClusterInit /\ [][ClusterNext]_clusterVars

-----------------------------------------------------------------------------
(* Properties *)

ClusterTypeOK ==
    /\ row \in Row /\ app \in App /\ scans \in [Commits -> Scan]
    /\ tasks \in [Tasks -> Task] /\ callers \in [Callers -> Caller]
    /\ jobs \in [Commits -> Job] /\ images \subseteq Commits
    /\ dep \in [here: BOOLEAN, image: Commits \cup {NoCommit}, replicas: 0..1]
    /\ ingress \in Visibilities \cup {"none"}
    /\ pods \in [Commits -> {"none", "starting", "ready"}]
    /\ calls \in 0..MaxCalls /\ faults \in 0..MaxFaults
    /\ unshown \in BOOLEAN /\ disturbed \in BOOLEAN

\* The Deployment runs an approved commit whose own image is in the registry: no
\* task takes another build's success for its own, whoever deletes and recreates
\* Jobs under the name it polls.
ImageIsBuilt == dep.here => dep.image \in images \cap approved

\* When nothing is under way, and nothing ever overlapped or failed, the cluster
\* is what the rows say, whatever reviews have done to the app's status: a running
\* app has a replica of the row's image and a route, with the app's visibility
\* unless that was last changed while the status was another; a stopped row has no
\* replica; and an app whose status is still "stopped" has no route either.
ClusterMatchesRow ==
    ~Busy /\ ~disturbed =>
        /\ row.here /\ row.status = "running" =>
             /\ dep = [here |-> TRUE, image |-> row.image, replicas |-> 1]
             /\ ingress # "none" /\ (unshown \/ ingress = app.visibility)
        /\ row.here /\ row.status = "stopped" => dep.replicas = 0
        /\ app.status = "stopped" => dep.replicas = 0 /\ ingress = "none"

\* Tasks that delete each other's Job leave one that builds: when the tasks of a
\* commit have ended and no fault hit one, its image is there if it can be built.
OneOfThemBuilds ==
    \A c \in Commits \ Unbuildable :
        (\E t \in Tasks : tasks[t].commit = c)
        /\ (\A t \in Tasks : tasks[t].commit = c => tasks[t].at = "done")
        /\ faults = 0 => c \in images
===============================================================================
