------------------------------ MODULE GateDeploy ------------------------------
(***************************************************************************)
(* From a deploy message to a routed container: the deploy task of the     *)
(* Celery workers on the Docker backend, the stop, start, status and       *)
(* visibility requests, the Docker host and the nginx configuration.       *)
(*                                                                         *)
(* A task keeps one SQLAlchemy session for its whole run.  The session     *)
(* loads the rows once and never reloads them (expire_on_commit=False),    *)
(* commits the "building" mark, and from its flush to its last commit      *)
(* holds the locks of the rows it has updated.                             *)
(*                                                                         *)
(* Who approves is GateReview's matter.  Here ReviewSide... stands for it; *)
(* GateKeeper composes the two.                                            *)
(***************************************************************************)
EXTENDS GateTables

CONSTANTS
    Workers,         \* deploy worker processes
    Callers,         \* admins and owners with a request in flight
    Slugs,           \* names of nginx configuration files (safe_name)
    SlugOf,          \* an app's; names are only unique per submitter
    Deployments,     \* deployments.id
    NoDep,           \* no such row
    MaxPort,         \* the ports are 1..MaxPort (8600..8999)
    MaxLaunches,     \* bound: containers created
    MaxCalls,        \* bound: stop, start, status and visibility requests
    MaxDeployFaults, \* bound: crashes, database, broker and nginx errors
    Crashes          \* may a worker or API process die?

ASSUME DeployAssumption ==
    /\ Apps # {}
    /\ SlugOf \in [Apps -> Slugs]
    /\ IsFiniteSet(Deployments)
    /\ NoDep \notin Deployments
    /\ MaxPort \in Nat
    /\ MaxLaunches \in Nat
    /\ MaxCalls \in Nat
    /\ MaxDeployFaults \in Nat
    /\ Crashes \in BOOLEAN

VARIABLES
    stable,        \* [Apps -> Port]: app_submissions.stable_external_port
    rows,          \* [Deployments -> Row]: the deployments table
    containers,    \* [Cids -> Container]: the Docker host
    launched,      \* containers created so far
    routes,        \* [Slugs -> Port]: /nginx-apps/<slug>.conf, as nginx runs it
    again,         \* [Scans -> [1..MaxRetries -> Nat]]: messages to retry
    jobs,          \* [Workers -> Job]: what each worker is deploying
    calls,         \* [Callers -> Call]
    called,        \* requests so far
    deployFaults,  \* faults so far
    disturbed      \* history: apps on which two activities overlapped, or one
                   \* was hit by a fault

deployVars == <<stable, rows, containers, launched, routes, again, jobs, calls,
                called, deployFaults, disturbed>>
world == <<stable, rows, containers, launched, routes>>

-----------------------------------------------------------------------------
(* Types *)

Ports == 1..MaxPort
NoPort == 0
Port == 0..MaxPort

Cids == 1..MaxLaunches
NoCid == 0

RowStatus == {"none", "building", "starting", "running", "stopped", "failed"}

\* named: container_name is set (always to the app's own container name, and
\* UNIQUE); port is external_port.
Row == [status: RowStatus, app: Apps, scan: Scans \cup {NoScan},
        cid: 0..MaxLaunches, named: BOOLEAN, port: Port]

\* A container's name is its app's, and names are unique on the Docker host.
Container == [state: {"none", "created", "running", "gone"}, app: Apps,
              scan: Scans \cup {NoScan}, port: Port]

\* What the task's session loaded, then its plan: seenStatus and seenStable of
\* the app row, seen of the deployments row.
Job == [at: {"idle", "loaded", "building", "picked", "starting", "failing",
             "started", "routed", "stopping"},
        scan: Scans \cup {NoScan}, tries: 0..MaxRetries,
        dep: Deployments \cup {NoDep},
        seenStatus: AppStatus, seenStable: Port, seen: Row,
        port: Port, old: 0..MaxLaunches, cid: 0..MaxLaunches,
        locks: SUBSET {"app", "dep"}]

Call == [at: {"idle", "stopping", "restarting", "polling", "exposing"},
         dep: Deployments \cup {NoDep}, app: Apps,
         seenStatus: AppStatus, seenRow: RowStatus, port: Port]

NoRow == [status |-> "none", app |-> CHOOSE a \in Apps : TRUE, scan |-> NoScan,
          cid |-> NoCid, named |-> FALSE, port |-> NoPort]

NoContainer == [state |-> "none", app |-> CHOOSE a \in Apps : TRUE,
                scan |-> NoScan, port |-> NoPort]

IdleJob == [at |-> "idle", scan |-> NoScan, tries |-> 0, dep |-> NoDep,
            seenStatus |-> "pending_scan", seenStable |-> NoPort, seen |-> NoRow,
            port |-> NoPort, old |-> NoCid, cid |-> NoCid, locks |-> {}]

IdleCall == [at |-> "idle", dep |-> NoDep, app |-> CHOOSE a \in Apps : TRUE,
             seenStatus |-> "pending_scan", seenRow |-> "none", port |-> NoPort]

-----------------------------------------------------------------------------
(* Activities, locks and faults *)

Busy(w) == jobs[w].at # "idle"

WorksOn(w, a) == Busy(w) /\ AppOf[jobs[w].scan] = a

CallsOn(u, a) == calls[u].at # "idle" /\ calls[u].app = a

Active(a) == \/ \E w \in Workers : WorksOn(w, a)
             \/ \E u \in Callers : CallsOn(u, a)

\* An activity begins on app a.
Begin(a) == disturbed' = IF Active(a) THEN disturbed \cup {a} ELSE disturbed

DeployFault(a) == /\ deployFaults < MaxDeployFaults
                  /\ deployFaults' = deployFaults + 1
                  /\ disturbed' = disturbed \cup {a}

\* No task but w has updated, and not yet committed, the row.
AppUnlocked(a, w) ==
    \A v \in Workers \ {w} : ~(WorksOn(v, a) /\ "app" \in jobs[v].locks)

DepUnlocked(d, w) ==
    \A v \in Workers \ {w} : ~(jobs[v].dep = d /\ "dep" \in jobs[v].locks)

RowsOf(a) == {d \in Deployments : rows[d].status # "none" /\ rows[d].app = a}

\* Another row has the app's container name: UNIQUE refuses it a second time.
NameTaken(d, a) == \E e \in RowsOf(a) \ {d} : rows[e].named

-----------------------------------------------------------------------------
(* The Docker host *)

Exists(c) == containers[c].state \in {"created", "running"}

Running(c) == containers[c].state = "running"

\* Mutation: looked up by a name prefix that all apps share.
NamedByPrefix(a) == {c \in Cids : Exists(c)}

Named(a) == {c \in Cids : Exists(c) /\ containers[c].app = a}

UsedPorts == {containers[c].port : c \in {c \in Cids : Running(c)}}

\* Stop and remove the containers in C that still exist.
Removed(C) == [c \in Cids |-> IF c \in C /\ Exists(c)
                              THEN [containers[c] EXCEPT !.state = "gone"]
                              ELSE containers[c]]

-----------------------------------------------------------------------------
(* The deploy task *)

\* self.retry: back to the broker, or given up after MaxRetries.
Redelivered(queue, s, tries) ==
    IF tries < MaxRetries THEN [queue EXCEPT ![s][tries + 1] = @ + 1] ELSE queue

\* The first session reads.  An approval that is not there, or a second
\* deployments row of the app (scalar_one_or_none), raises.
Load(w, s, tries, queue) ==
    LET a == AppOf[s]
        found == RowsOf(a)
        dep == IF found = {} THEN NoDep ELSE CHOOSE d \in found : TRUE
    IN  IF approvals[s].decision = "absent" \/ Cardinality(found) > 1
        THEN /\ again' = Redelivered(queue, s, tries)
             /\ UNCHANGED <<jobs, disturbed>>
        ELSE /\ again' = queue
             /\ jobs' = [jobs EXCEPT ![w] =
                   [IdleJob EXCEPT !.at = "loaded", !.scan = s, !.tries = tries,
                                   !.dep = dep, !.seenStatus = status[a],
                                   !.seenStable = stable[a],
                                   !.seen = IF dep = NoDep THEN NoRow ELSE rows[dep]]]
             /\ Begin(a)

Take(w, s) ==
    /\ ~Busy(w)
    /\ deployQueue[s] > 0
    /\ deployQueue' = [deployQueue EXCEPT ![s] = @ - 1]
    /\ Load(w, s, 0, again)
    /\ UNCHANGED <<status, scans, approvals, world, calls, called, deployFaults>>

TakeAgain(w, s, tries) ==
    /\ ~Busy(w)
    /\ again[s][tries] > 0
    /\ Load(w, s, tries, [again EXCEPT ![s][tries] = @ - 1])
    /\ UNCHANGED <<tables, world, calls, called, deployFaults>>

\* The first commit: the app's row, or a new one, is "building" this scan.
MarkBuilding(w) ==
    LET j == jobs[w]
        free == {d \in Deployments : rows[d].status = "none"}
        dep == IF j.dep # NoDep THEN j.dep ELSE CHOOSE d \in free : TRUE
        row == [j.seen EXCEPT !.status = "building", !.scan = j.scan,
                              !.app = AppOf[j.scan]]
    IN  /\ j.at = "loaded"
        /\ IF j.dep = NoDep
           THEN free # {} /\ rows' = [rows EXCEPT ![dep] = row]
           ELSE /\ DepUnlocked(dep, w)
                /\ rows' = [rows EXCEPT
                      ![dep].scan = Written(@, j.seen.scan, j.scan),
                      ![dep].status = Written(@, j.seen.status, "building")]
        /\ jobs' = [jobs EXCEPT ![w].at = "building", ![w].dep = dep, ![w].seen = row]
        /\ UNCHANGED <<tables, stable, containers, launched, routes, again, calls,
                       called, deployFaults, disturbed>>

\* _fail: the row is failed, the app "deployed" for an update, else "approved".
\* cid, named and port are what the commit leaves in the row and in the app.
Fail(w, cid, named, port) ==
    LET j == jobs[w]
        a == AppOf[j.scan]
        new == IF scans[j.scan].type = "update" THEN "deployed" ELSE "approved"
    IN  /\ AppUnlocked(a, w) /\ DepUnlocked(j.dep, w)
        /\ rows' = [rows EXCEPT ![j.dep].status = "failed", ![j.dep].cid = cid,
                                ![j.dep].named = named]
        /\ status' = [status EXCEPT ![a] = Written(@, j.seenStatus, new)]
        /\ stable' = [stable EXCEPT ![a] = Written(@, j.seenStable, port)]
        /\ jobs' = [jobs EXCEPT ![w] = IdleJob]

\* Mutation: the row's container fields are cleared before the build.
BuildFailsClearsRow(w) ==
    LET j == jobs[w] IN
    /\ j.at = "building"
    /\ Fail(w, NoCid, FALSE, j.seenStable)
    /\ UNCHANGED <<scans, approvals, deployQueue, containers, launched, routes,
                   again, calls, called, deployFaults, disturbed>>

\* Mutation: the task returns without _fail.
BuildFailsQuietly(w) ==
    /\ jobs[w].at = "building"
    /\ jobs' = [jobs EXCEPT ![w] = IdleJob]
    /\ UNCHANGED <<tables, world, again, calls, called, deployFaults, disturbed>>

\* git archive or the image build fails.
BuildFails(w) ==
    LET j == jobs[w] IN
    /\ j.at = "building"
    /\ Fail(w, rows[j.dep].cid, rows[j.dep].named, j.seenStable)
    /\ UNCHANGED <<scans, approvals, deployQueue, containers, launched, routes,
                   again, calls, called, deployFaults, disturbed>>

\* Apps deployed before the stable columns existed: the row's port counts.
Backfilled(j) ==
    IF scans[j.scan].type = "update" /\ j.seenStable = NoPort
    THEN j.seen.port ELSE j.seenStable

IsUpdate(j) == scans[j.scan].type = "update" /\ Backfilled(j) # NoPort

FreePorts == Ports \ UsedPorts

\* The image is built.  An update keeps the port and remembers the container
\* it replaces; any other deploy takes the lowest port no container runs on.
PickPort(w) ==
    LET j == jobs[w] IN
    /\ j.at = "building"
    /\ IF IsUpdate(j)
       THEN jobs' = [jobs EXCEPT ![w].at = "picked", ![w].port = Backfilled(j),
                                 ![w].old = j.seen.cid]
       ELSE \E p \in FreePorts :
               /\ \A q \in FreePorts : p <= q
               /\ jobs' = [jobs EXCEPT ![w].at = "picked", ![w].port = p]
    /\ UNCHANGED <<tables, world, again, calls, called, deployFaults, disturbed>>

\* Every port in the range is taken.
PortsExhausted(w) ==
    LET j == jobs[w] IN
    /\ j.at = "building"
    /\ ~IsUpdate(j) /\ FreePorts = {}
    /\ Fail(w, rows[j.dep].cid, rows[j.dep].named, j.seenStable)
    /\ UNCHANGED <<scans, approvals, deployQueue, containers, launched, routes,
                   again, calls, called, deployFaults, disturbed>>

\* The rows the flush before start_container updates, and so locks.
Locks(j) ==
    (IF j.seen.cid # NoCid \/ j.seen.named THEN {"dep"} ELSE {})
        \cup (IF j.port # j.seenStable THEN {"app"} ELSE {})

\* Flush, then force-remove the container with the app's name; a removal that
\* raises is ignored.
Displace(w) ==
    LET j == jobs[w]
        a == AppOf[j.scan]
    IN  /\ j.at = "picked"
        /\ "app" \in Locks(j) => AppUnlocked(a, w)
        /\ "dep" \in Locks(j) => DepUnlocked(j.dep, w)
        /\ jobs' = [jobs EXCEPT ![w].at = "starting", ![w].locks = Locks(j)]
        /\ \/ /\ containers' = Removed(Named(a))
              /\ UNCHANGED <<deployFaults, disturbed>>
           \/ Named(a) # {} /\ DeployFault(a) /\ UNCHANGED containers
        /\ UNCHANGED <<tables, stable, rows, launched, routes, again, calls, called>>

\* docker run: the name and the port must be free.
Launch(w) ==
    LET j == jobs[w]
        a == AppOf[j.scan]
    IN  /\ j.at = "starting"
        /\ launched < MaxLaunches
        /\ Named(a) = {} /\ j.port \notin UsedPorts
        /\ launched' = launched + 1
        /\ containers' = [containers EXCEPT ![launched + 1] =
              [state |-> "running", app |-> a, scan |-> j.scan, port |-> j.port]]
        /\ jobs' = [jobs EXCEPT ![w].at = "started", ![w].cid = launched + 1]
        /\ UNCHANGED <<tables, stable, rows, routes, again, calls, called,
                       deployFaults, disturbed>>

\* docker run raises: no container for a bad image or a taken name, one that
\* is created but not running for a taken port.  (Any start that fails leaves one;
\* the next Displace removes it, and here a taken port stands for all causes.)
LaunchRaises(w) ==
    LET j == jobs[w]
        a == AppOf[j.scan]
    IN  /\ j.at = "starting"
        /\ \/ UNCHANGED <<containers, launched>>
           \/ /\ Named(a) = {} /\ j.port \in UsedPorts
              /\ launched < MaxLaunches
              /\ launched' = launched + 1
              /\ containers' = [containers EXCEPT ![launched + 1] =
                    [state |-> "created", app |-> a, scan |-> j.scan,
                     port |-> j.port]]
        /\ jobs' = [jobs EXCEPT ![w].at = "failing"]
        /\ UNCHANGED <<tables, stable, rows, routes, again, calls, called,
                       deployFaults, disturbed>>

\* The old container's id goes back into the row, as if it still ran.
LaunchFails(w) ==
    LET j == jobs[w]
        a == AppOf[j.scan]
    IN  /\ j.at = "failing"
        /\ IsUpdate(j) \/ ~NameTaken(j.dep, a)
        /\ Fail(w, IF j.seen.cid = NoCid THEN rows[j.dep].cid ELSE j.old,
                IF ~IsUpdate(j) THEN TRUE
                ELSE rows[j.dep].named /\ ~j.seen.named,
                j.port)
        /\ UNCHANGED <<scans, approvals, deployQueue, containers, launched, routes,
                       again, calls, called, deployFaults, disturbed>>

\* Mutation: the port the session loaded, not the one just picked.
WriteRouteStale(w) ==
    LET j == jobs[w]
        a == AppOf[j.scan]
    IN  /\ j.at = "started"
        /\ jobs' = [jobs EXCEPT ![w].at = "routed"]
        /\ \/ /\ routes' = [routes EXCEPT ![SlugOf[a]] = j.seenStable]
              /\ UNCHANGED <<deployFaults, disturbed>>
           \/ DeployFault(a) /\ UNCHANGED routes
        /\ UNCHANGED <<tables, stable, rows, containers, launched, again, calls, called>>

\* The nginx configuration of the app now names the new port, or the write
\* fails and is only logged.
WriteRoute(w) ==
    LET j == jobs[w]
        a == AppOf[j.scan]
    IN  /\ j.at = "started"
        /\ jobs' = [jobs EXCEPT ![w].at = "routed"]
        /\ \/ /\ routes' = [routes EXCEPT ![SlugOf[a]] = j.port]
              /\ UNCHANGED <<deployFaults, disturbed>>
           \/ DeployFault(a) /\ UNCHANGED routes
        /\ UNCHANGED <<tables, stable, rows, containers, launched, again, calls, called>>

CommitRunning(w) ==
    LET j == jobs[w]
        a == AppOf[j.scan]
    IN  /\ j.at = "routed"
        /\ AppUnlocked(a, w) /\ DepUnlocked(j.dep, w)
        /\ ~NameTaken(j.dep, a)
        /\ rows' = [rows EXCEPT ![j.dep].status = "running", ![j.dep].cid = j.cid,
                                ![j.dep].named = TRUE,
                                ![j.dep].port = Written(@, j.seen.port, j.port)]
        /\ status' = [status EXCEPT ![a] = Written(@, j.seenStatus, "deployed")]
        /\ stable' = [stable EXCEPT ![a] = Written(@, j.seenStable, j.port)]
        /\ jobs' = [jobs EXCEPT ![w].at = "stopping", ![w].locks = {}]
        /\ UNCHANGED <<scans, approvals, deployQueue, containers, launched, routes,
                       again, calls, called, deployFaults, disturbed>>

\* The session rolls back, its locks are gone, and the task retries.
Raise(w) ==
    /\ again' = Redelivered(again, jobs[w].scan, jobs[w].tries)
    /\ jobs' = [jobs EXCEPT ![w] = IdleJob]

\* The task holds a row and its commit waits for another.
Waits(w) == /\ jobs[w].at \in {"failing", "routed"}
            /\ jobs[w].locks # {}
            /\ ~(AppUnlocked(AppOf[jobs[w].scan], w) /\ DepUnlocked(jobs[w].dep, w))

\* Two tasks wait for each other: Postgres aborts one of them.  (A request takes the
\* rows it writes at once, so it waits and is never one of the two.)
Deadlocked(w) ==
    Waits(w) /\ \E v \in Workers \ {w} :
                   Waits(v) /\ AppOf[jobs[v].scan] = AppOf[jobs[w].scan]

\* The commit fails: the container just started is stopped again.
CommitFails(w) ==
    LET j == jobs[w]
        a == AppOf[j.scan]
    IN  /\ j.at = "routed"
        /\ \/ /\ NameTaken(j.dep, a) \/ Deadlocked(w)
              /\ UNCHANGED <<deployFaults, disturbed>>
           \/ DeployFault(a)
        /\ containers' = Removed({j.cid})
        /\ Raise(w)
        /\ UNCHANGED <<tables, stable, rows, launched, routes, calls, called>>

\* The commit of _fail raises: the name put back into the row is another
\* row's, or the transaction is a deadlock's victim.
LaunchFailsTwice(w) ==
    LET j == jobs[w] IN
    /\ j.at = "failing"
    /\ \/ ~IsUpdate(j) /\ NameTaken(j.dep, AppOf[j.scan])
       \/ Deadlocked(w)
    /\ Raise(w)
    /\ UNCHANGED <<tables, world, calls, called, deployFaults, disturbed>>

\* Mutation: the old container is looked up by name, which is the new one's.
StopOldByName(w) ==
    LET j == jobs[w] IN
    /\ j.at = "stopping"
    /\ containers' = IF j.old = NoCid THEN containers
                     ELSE Removed(Named(AppOf[j.scan]))
    /\ jobs' = [jobs EXCEPT ![w] = IdleJob]
    /\ UNCHANGED <<tables, stable, rows, launched, routes, again, calls, called,
                   deployFaults, disturbed>>

StopOld(w) ==
    LET j == jobs[w] IN
    /\ j.at = "stopping"
    /\ containers' = Removed({j.old} \cap Cids)
    /\ jobs' = [jobs EXCEPT ![w] = IdleJob]
    /\ UNCHANGED <<tables, stable, rows, launched, routes, again, calls, called,
                   deployFaults, disturbed>>

\* The database, the secrets or Docker raise where no handler catches.
WorkerRaises(w) ==
    /\ jobs[w].at \in {"loaded", "building", "picked", "failing", "stopping"}
    /\ DeployFault(AppOf[jobs[w].scan])
    /\ Raise(w)
    /\ UNCHANGED <<tables, world, calls, called>>

\* The worker process dies; its message was acknowledged on delivery.
WorkerDies(w) ==
    /\ Busy(w) /\ Crashes
    /\ DeployFault(AppOf[jobs[w].scan])
    /\ jobs' = [jobs EXCEPT ![w] = IdleJob]
    /\ UNCHANGED <<tables, world, again, calls, called>>

-----------------------------------------------------------------------------
(* Requests *)

Call1(u, a, call) ==
    /\ calls[u].at = "idle"
    /\ called < MaxCalls
    /\ called' = called + 1
    /\ calls' = [calls EXCEPT ![u] = call]
    /\ Begin(a)

\* stop_deployment: the row is running or starting; stop its container.
StopContainer(u, d) ==
    /\ rows[d].status \in {"running", "starting"}
    /\ Call1(u, rows[d].app, [IdleCall EXCEPT !.at = "stopping", !.dep = d,
                                              !.app = rows[d].app])
    /\ containers' = Removed({rows[d].cid} \cap Cids)
    /\ UNCHANGED <<tables, stable, rows, launched, routes, again, jobs, deployFaults>>

\* Mutation: the app's configuration stays.
StopCommitKeepsRoute(u) ==
    LET c == calls[u] IN
    /\ c.at = "stopping"
    /\ \A w \in Workers : AppUnlocked(c.app, w) /\ DepUnlocked(c.dep, w)
    /\ status' = [status EXCEPT ![c.app] = "stopped"]
    /\ rows' = [rows EXCEPT ![c.dep].status = "stopped"]
    /\ calls' = [calls EXCEPT ![u] = IdleCall]
    /\ UNCHANGED <<scans, approvals, deployQueue, stable, containers, launched,
                   routes, again, jobs, called, deployFaults, disturbed>>

\* Then remove the app's configuration and commit both statuses.
StopCommit(u) ==
    LET c == calls[u] IN
    /\ c.at = "stopping"
    /\ \A w \in Workers : AppUnlocked(c.app, w) /\ DepUnlocked(c.dep, w)
    /\ routes' = [routes EXCEPT ![SlugOf[c.app]] = NoPort]
    /\ status' = [status EXCEPT ![c.app] = "stopped"]
    /\ rows' = [rows EXCEPT ![c.dep].status = "stopped"]
    /\ calls' = [calls EXCEPT ![u] = IdleCall]
    /\ UNCHANGED <<scans, approvals, deployQueue, stable, containers, launched,
                   again, jobs, called, deployFaults, disturbed>>

\* restart_deployment: the message leaves before the commit.
RestartSend(u, d) ==
    LET s == rows[d].scan IN
    /\ rows[d].status # "none"
    /\ Approved(s)
    /\ deployQueue[s] < MaxQueued
    /\ Call1(u, rows[d].app, [IdleCall EXCEPT !.at = "restarting", !.dep = d,
                                              !.app = rows[d].app,
                                              !.seenStatus = status[rows[d].app],
                                              !.seenRow = rows[d].status])
    /\ Enqueue(s)
    /\ UNCHANGED <<status, scans, approvals, world, again, jobs, deployFaults>>

\* Mutation: both rows get the deployment's new status.
RestartCommitStarting(u) ==
    LET c == calls[u] IN
    /\ c.at = "restarting"
    /\ \A w \in Workers : AppUnlocked(c.app, w) /\ DepUnlocked(c.dep, w)
    /\ status' = [status EXCEPT ![c.app] = "starting"]
    /\ rows' = [rows EXCEPT ![c.dep].status = Written(@, c.seenRow, "starting")]
    /\ calls' = [calls EXCEPT ![u] = IdleCall]
    /\ UNCHANGED <<scans, approvals, deployQueue, stable, containers, launched,
                   routes, again, jobs, called, deployFaults, disturbed>>

RestartCommit(u) ==
    LET c == calls[u] IN
    /\ c.at = "restarting"
    /\ \A w \in Workers : AppUnlocked(c.app, w) /\ DepUnlocked(c.dep, w)
    /\ status' = [status EXCEPT ![c.app] = Written(@, c.seenStatus, "deployed")]
    /\ rows' = [rows EXCEPT ![c.dep].status = Written(@, c.seenRow, "starting")]
    /\ calls' = [calls EXCEPT ![u] = IdleCall]
    /\ UNCHANGED <<scans, approvals, deployQueue, stable, containers, launched,
                   routes, again, jobs, called, deployFaults, disturbed>>

\* get_status: the container runs and the row says otherwise.
PollRead(u, d) ==
    /\ rows[d].status \notin {"none", "running"}
    /\ rows[d].cid # NoCid /\ Running(rows[d].cid)
    /\ Call1(u, rows[d].app, [IdleCall EXCEPT !.at = "polling", !.dep = d,
                                              !.app = rows[d].app])
    /\ UNCHANGED <<tables, world, again, jobs, deployFaults>>

PollCommit(u) ==
    LET c == calls[u] IN
    /\ c.at = "polling"
    /\ \A w \in Workers : DepUnlocked(c.dep, w)
    /\ rows' = [rows EXCEPT ![c.dep].status = "running"]
    /\ calls' = [calls EXCEPT ![u] = IdleCall]
    /\ UNCHANGED <<tables, stable, containers, launched, routes, again, jobs,
                   called, deployFaults, disturbed>>

\* update_visibility of a deployed app: its row is read, its update flushed ...
ExposeRead(u, a) ==
    /\ status[a] = "deployed" /\ stable[a] # NoPort
    /\ Call1(u, a, [IdleCall EXCEPT !.at = "exposing", !.app = a, !.port = stable[a]])
    /\ UNCHANGED <<tables, world, again, jobs, deployFaults>>

\* ... and its configuration written again with the port read.
ExposeWrite(u) ==
    LET c == calls[u] IN
    /\ c.at = "exposing"
    /\ \A w \in Workers : AppUnlocked(c.app, w)
    /\ routes' = [routes EXCEPT ![SlugOf[c.app]] = c.port]
    /\ calls' = [calls EXCEPT ![u] = IdleCall]
    /\ UNCHANGED <<tables, stable, rows, containers, launched, again, jobs, called,
                   deployFaults, disturbed>>

\* The request fails or its process dies: nothing it has not committed stays.
CallDies(u) ==
    /\ calls[u].at # "idle" /\ Crashes
    /\ DeployFault(calls[u].app)
    /\ calls' = [calls EXCEPT ![u] = IdleCall]
    /\ UNCHANGED <<tables, world, again, jobs, called>>

-----------------------------------------------------------------------------
(* The review side, as far as the deploy side sees it *)

\* A new commit: an update when its upload finds the app deployed, while a
\* pushed one is always initial.
ReviewSideUploads(s) ==
    LET a == AppOf[s] IN
    /\ scans[s].status = "absent"
    /\ \/ scans' = [scans EXCEPT ![s].status = "queued"]
       \/ /\ status[a] = "deployed"
          /\ scans' = [scans EXCEPT ![s].status = "queued", ![s].type = "update",
                                    ![s].prev = LatestApproved(a)]
    /\ status' = [status EXCEPT ![a] = "scanning"]
    /\ UNCHANGED <<approvals, deployQueue, deployVars>>

ReviewSideApproves(s) ==
    /\ scans[s].status = "queued"
    /\ deployQueue[s] < MaxQueued
    /\ scans' = [scans EXCEPT ![s].status = "complete"]
    /\ \E u \in Approvers :
          approvals' = [approvals EXCEPT ![s] =
                           [decision |-> "approved", by |-> u, at |-> Now]]
    /\ status' = [status EXCEPT ![AppOf[s]] = "approved"]
    /\ Enqueue(s)
    /\ UNCHANGED deployVars

\* A rejected scan, or one that failed: an update says of its app that it is
\* still deployed, whatever has been done to its container meanwhile.
ReviewSideReturns(s) ==
    LET returned == IF scans[s].type = "update" THEN {"deployed"}
                    ELSE {"rejected", "failed"}
    IN  /\ scans[s].status = "queued"
        /\ scans' = [scans EXCEPT ![s].status = "failed"]
        /\ \E new \in returned : status' = [status EXCEPT ![AppOf[s]] = new]
        /\ UNCHANGED <<approvals, deployQueue, deployVars>>

-----------------------------------------------------------------------------

WorkerStep(w) ==
    \/ \E s \in Scans : Take(w, s) \/ \E n \in 1..MaxRetries : TakeAgain(w, s, n)
    \/ MarkBuilding(w) \/ BuildFails(w) \/ PickPort(w) \/ PortsExhausted(w)
    \/ Displace(w) \/ Launch(w) \/ LaunchRaises(w) \/ LaunchFails(w)
    \/ LaunchFailsTwice(w)
    \/ WriteRoute(w) \/ CommitRunning(w) \/ CommitFails(w) \/ StopOld(w)
    \/ WorkerRaises(w) \/ WorkerDies(w)

CallStep(u) ==
    \/ \E d \in Deployments : StopContainer(u, d) \/ RestartSend(u, d) \/ PollRead(u, d)
    \/ \E a \in Apps : ExposeRead(u, a)
    \/ StopCommit(u) \/ RestartCommit(u) \/ PollCommit(u) \/ ExposeWrite(u)
    \/ CallDies(u)

DeployStep == (\E w \in Workers : WorkerStep(w)) \/ (\E u \in Callers : CallStep(u))

ReviewSideStep ==
    \E s \in Scans : ReviewSideUploads(s) \/ ReviewSideApproves(s) \/ ReviewSideReturns(s)

DeployLocalInit ==
    /\ stable = [a \in Apps |-> NoPort]
    /\ rows = [d \in Deployments |-> NoRow]
    /\ containers = [c \in Cids |-> NoContainer]
    /\ launched = 0
    /\ routes = [n \in Slugs |-> NoPort]
    /\ again = [s \in Scans |-> [n \in 1..MaxRetries |-> 0]]
    /\ jobs = [w \in Workers |-> IdleJob]
    /\ calls = [u \in Callers |-> IdleCall]
    /\ called = 0
    /\ deployFaults = 0
    /\ disturbed = {}

deployAll == <<tables, deployVars>>

DeployInit == TablesInit /\ DeployLocalInit

DeployNext == DeployStep \/ ReviewSideStep

DeploySpec == DeployInit /\ [][DeployNext]_deployAll

-----------------------------------------------------------------------------
(* Properties *)

DeployTypeOK ==
    /\ TablesTypeOK
    /\ stable \in [Apps -> Port]
    /\ rows \in [Deployments -> Row]
    /\ containers \in [Cids -> Container]
    /\ launched \in 0..MaxLaunches
    /\ routes \in [Slugs -> Port]
    /\ again \in [Scans -> [1..MaxRetries -> Nat]]
    /\ jobs \in [Workers -> Job]
    /\ calls \in [Callers -> Call]
    /\ called \in 0..MaxCalls
    /\ deployFaults \in 0..MaxDeployFaults
    /\ disturbed \subseteq Apps

\* Nothing is under way on app a, and nothing ever overlapped there.
Calm(a) == ~Active(a) /\ a \notin disturbed

\* Between activities that never overlapped, a row that says running is true:
\* its container runs, on the port the row names.
RunningRowIsTrue ==
    \A d \in Deployments :
        rows[d].status = "running" /\ Calm(rows[d].app) =>
            /\ rows[d].cid # NoCid /\ Running(rows[d].cid)
            /\ containers[rows[d].cid].port = rows[d].port

OwnSlug(a) == \A b \in Apps : SlugOf[b] = SlugOf[a] => b = a

\* ... and the app's stable port leads to that container, and so does its route
\* if the app shares its slug with no other.
RouteReachesApp ==
    \A d \in Deployments :
        rows[d].status = "running" /\ Calm(rows[d].app) =>
            /\ stable[rows[d].app] = rows[d].port
            /\ OwnSlug(rows[d].app) => routes[SlugOf[rows[d].app]] = rows[d].port

\* ... and every container that runs is one a deployments row names: none is
\* left behind where no stop request can find it.
NoContainerLeaks ==
    \A c \in Cids : Running(c) /\ Calm(containers[c].app) =>
        \E d \in RowsOf(containers[c].app) : rows[d].cid = c

\* ... and what says stopped is down: no container of a stopped row runs, and
\* an app the stop request left "stopped" has no route of its own (one a returned
\* update calls "deployed" again may get it back with its next visibility).
StoppedIsDown ==
    \A d \in Deployments :
        rows[d].status = "stopped" /\ Calm(rows[d].app) =>
            /\ \A c \in Named(rows[d].app) : ~Running(c)
            /\ status[rows[d].app] = "stopped" /\ OwnSlug(rows[d].app) =>
                   routes[SlugOf[rows[d].app]] = NoPort

-----------------------------------------------------------------------------
(* The inductive invariant behind what is proved *)

\* A job works on the deployments row of its scan's app, and once it has marked
\* the row building, the row is there.
JobHasRow ==
    \A w \in Workers : Busy(w) =>
        /\ jobs[w].scan \in Scans
        /\ jobs[w].at # "loaded" => jobs[w].dep \in Deployments
        /\ jobs[w].dep \in Deployments => jobs[w].dep \in RowsOf(AppOf[jobs[w].scan])

\* So does a request that will write a row.
CallHasRow ==
    \A u \in Callers : calls[u].at \in {"stopping", "restarting", "polling"} =>
        calls[u].dep \in RowsOf(calls[u].app)

\* A row is about a scan of its own app.
RowHasScan ==
    \A d \in Deployments : rows[d].status # "none" =>
        rows[d].scan \in Scans /\ AppOf[rows[d].scan] = rows[d].app

\* So is a container, and an app has at most one.
ContainerHasScan ==
    /\ \A c \in Cids : Exists(c) =>
          /\ c <= launched
          /\ containers[c].scan \in Scans
          /\ AppOf[containers[c].scan] = containers[c].app
    /\ \A b, c \in Cids : Exists(b) /\ Exists(c)
                           /\ containers[b].app = containers[c].app => b = c

DeployInv ==
    /\ DeployTypeOK
    /\ JobHasRow
    /\ CallHasRow
    /\ RowHasScan
    /\ ContainerHasScan

-----------------------------------------------------------------------------
(* Liveness *)

\* The workers keep taking messages and run each task to its end, and uvicorn
\* runs every handler it has started; nobody has to send a request.
DeployFairness ==
    /\ \A w \in Workers : WF_deployAll(WorkerStep(w))
    /\ \A u \in Callers : WF_deployAll(StopCommit(u) \/ RestartCommit(u)
                                            \/ PollCommit(u) \/ ExposeWrite(u))

FairDeploySpec == DeploySpec /\ DeployFairness

\* A deployments row does not stay "building": the task that marked it, or its
\* retry after an error, reaches an outcome and commits it (no process dies, and
\* the task is not retried more often than it may be).
BuildingEnds ==
    \A d \in Deployments : rows[d].status = "building" ~> rows[d].status # "building"

-----------------------------------------------------------------------------
(* What the repository says and the code does not do *)

\* nginx_service.py: "Write a per-app nginx location block": the route of a
\* running app leads to its container.
RouteIsPerApp ==
    \A d \in Deployments :
        rows[d].status = "running" /\ Calm(rows[d].app) =>
            routes[SlugOf[rows[d].app]] = rows[d].port

\* deploy_task.py: "Start new container FIRST -- old container stays live until
\* this succeeds": when the launch of an update fails, the container whose id
\* goes back into the row runs.
OldVersionSurvives ==
    [][\A d \in Deployments :
          rows[d].status = "building" /\ rows'[d].status = "failed"
             /\ rows'[d].cid # NoCid => Running(rows'[d].cid)]_deployAll

=============================================================================
