# GatekeeperAI in TLA+

GatekeeperAI takes an app's source (a ZIP upload or a git push), scans it, lets
an approver decide on it, and deploys what was approved behind nginx. These
modules model that path, from the commit to the routed container, with the
processes that work on it concurrently, and what stands around it: signing in,
accounts and access lists, the scanners, and the Kubernetes backend. They are
checked with TLC on small instances. For all instances TLAPS proves every safety
property the runs check, and that the whole gate implements its abstract
specification; liveness is TLC's.

Paths below are relative to `src/backend` unless they start with `src/`.

## The system

| Part | State it keeps | Operations | Talks to |
|---|---|---|---|
| API (FastAPI, two uvicorn workers): `app/routers` | rows in Postgres through one session per request (`app/deps.py`) | create, upload, trigger, decide, stop, start, poll, visibility, access lists, users, secrets | Celery broker, Docker, nginx files |
| Scan pipeline (Celery): `app/scanners/pipeline.py`, `app/services/approval_service.py` | scan, scan results, approval, app status | one task per scan, retried twice after 30 s | scanners (threads), Redis events, broker |
| Deploy task (Celery): `worker/deploy_task.py` | deployments row, stable port and name of the app | one task per approval or restart, retried twice | Docker host, nginx files |
| Docker host: `app/services/container_service.py` | containers by name, published ports | build, remove by name, run, stop, inspect | |
| nginx: `app/services/nginx_service.py` | one location file per normalised app name | write, remove, reload | |
| Scanners: `app/scanners` | none | five threads per scan; a sum, caps and overrides make the tier | pip-audit, npm, detect-secrets, a language model |
| Event stream: `app/routers/scans.py`, `src/frontend/components/ScanStream.tsx` | one Redis channel per scan; what a page shows | publish, subscribe, fetch | pipeline task |
| Sessions, SSO, passkeys: `app/routers/{auth,sso,passkeys}.py`, `src/frontend/lib/{api,auth}.ts` | refresh tokens, states, exchange codes, challenges in Redis; passkey rows; localStorage | login, refresh, logout, callbacks | identity provider, authenticator |
| Setup, users: `app/routers/{setup,admin}.py` | users, SSO configuration, `.env` | the wizard, create and update users, provision at login | |
| Access lists, app life cycle, secrets: `app/routers/{apps,secrets}.py` | arrays on the app row, secret rows, bare repositories | create, delete, grant, remove, set, unset; `verify_session` for nginx | git directory |
| Kubernetes backend: `app/services/k8s_*.py` | Jobs, Deployment, Ingress and Service, registry | alternative to Docker | API server |
| SLA reminder (Celery beat): `worker/sla_task.py` | none | mails about overdue approvals every 15 minutes | |
| Dockerfile generation, audit, log forwarding, telemetry, forms of the frontend, infra | append-only or none | | |

What is hard about it:

* Each request and each task has its own SQLAlchemy session. `expire_on_commit`
  is off, so a session never reloads a row it has loaded, and SQLAlchemy emits
  no UPDATE for an attribute whose new value is the loaded one. Several sessions
  write `app_submissions.status`.
* Tasks are sent before the commit in some handlers (`apps.py:235`,
  `scans.py:77`, `deployments.py:139`) and after it in others
  (`approvals.py:157`, `pipeline.py:206`).
* Messages are acknowledged when they are delivered; a task that raises is
  retried from its start, although it may have committed before it raised.
* A deploy changes Postgres, Docker and nginx in turn, with no transaction over
  the three, and holds row locks while a container starts.
* Two deploys of one app, and a deploy and a request, may run at once.
* Request handlers read first and write later (arrays, roles, counters), with a
  commit only at the end, and rely on a unique column here and there.
* What must be used once (a state, a code, a challenge, a refresh token) is taken
  from Redis with GETDEL and acted on in later steps. The pages of a browser share
  localStorage and nothing else.
* The Kubernetes backend finds its objects by name, also those another task or a
  request has left there or is deleting.

## Modules

| Module | What it is |
|---|---|
| `GateTables` | The rows all processes share, and the deploy messages in the broker |
| `GateReview` | Upload and trigger requests, the pipeline task, the decide request |
| `GateDeploy` | The deploy task on Docker; stop, start, status and visibility requests; the Docker host; nginx |
| `ReleaseGate` | What the whole promises: at most one verdict per scan; an app runs one commit at a time, and only one whose verdict is granted |
| `GateKeeper` | `GateReview` and `GateDeploy` over the same rows, with the refinement mapping to `ReleaseGate` |
| `GateSignIn` | Password, single sign-on and passkey logins, and the tokens in Redis |
| `GateSession` | The pages of browsers over `GateSignIn`: stored tokens, requests, refresh |
| `GatePeople` | The constants the next two share |
| `GateAccounts` | The users table: setup, administration, provisioning at single sign-on |
| `GateApps` | App rows with their repositories, access lists and secrets |
| `GateAccess` | `GateAccounts` and `GateApps` composed, tokens' roles, and `verify_session` |
| `GateScan` | One scan from inside: scanners, tier, retries, events, and the pages that watch |
| `GateCluster` | The deploy task and the requests on Kubernetes, and the cluster |
| `GateTablesProofs` | Lemmas on the operators of `GateTables` |
| `GateReviewProofs` | Theorems about `GateReview` |
| `GateDeployProofs` | Theorems about `GateDeploy` |
| `GateKeeperProofs` | Theorems about the composition |
| `GateAccessProofs` | Theorems about `GateAccess` |
| `GateSessionProofs` | Theorems about `GateSession` |
| `GateClusterProofs` | Theorems about `GateCluster` |
| `GateScanProofs` | Theorems about `GateScan` |
| `MCGate...` | Definitions that give TLC's instances their constants, and narrow them |

Each component module ends with its properties, then, where there are any, the
statements of the repository that the code does not satisfy.

### GateReview

A scan identifier stands for one upload or trigger request, the row it inserts,
and the task that row's identifier is sent with. `request`, `scanTask` and
`desk` are where the request, the task and each approver's decide request are.

| Action | Code |
|---|---|
| `UploadRead`, `UploadRefused`, `UploadSend` | `upload_zip`: read the app; push the ZIP in a thread; insert, flush, send |
| `TriggerSend` | `trigger_scan` up to its send (type is always initial) |
| `RequestCommit`, `RequestDies` | their commit, or a rollback after the message has left |
| `ScanMissing` | the task finds no row, because the commit is late or never comes, and retries |
| `ScanStart`, `ScanArchiveFails`, `ScanCompletes`, `AutoApprove`, `ScanDispatch` | the commits and the broker call of `_run_with_session`, in order |
| `ScanConflict` | the UNIQUE `approvals.scan_id` refuses the approval of a rerun |
| `ScanRaises`, `ScanWorkerDies` | an exception (rollback and retry), a lost message |
| `DeskOpen`, `DeskCommit`, `DeskDispatch`, `DeskDies` | `decide_approval`: lock and 409; commit; send; crash at any point |

`Written(current, seen, new)` is SQLAlchemy's rule: the column keeps what it has
when the session assigns the value it loaded. A tier is chosen by `\E tier`, so
a rerun may compute another one.

The deploy side appears as an environment (`DeploySide...`) that, for a scan
that has been dispatched, may take or send its message and write the app's
status. The environment is as liberal as possible; `RefinesReview` shows that it
covers what `GateDeploy` does.

### GateDeploy

`jobs[w]` is what worker `w` deploys: where it is, what its session loaded
(`seen...`), the port and the old container it has chosen, and the row locks its
open transaction holds. A job goes through

    loaded -> building -> picked -> starting -> started -> routed -> stopping
                                       \-> failing

with one action per commit, flush or external call of `_run_deploy`: `Take`
(or `TakeAgain` for a retry), `MarkBuilding`, `BuildFails`, `PickPort`,
`PortsExhausted`, `Displace` (flush, then force-remove by name), `Launch`,
`LaunchRaises`, `LaunchFails`, `WriteRoute`, `CommitRunning`, `CommitFails`,
`StopOld`. `WorkerRaises` and `WorkerDies` may strike wherever no handler
catches. Requests are a read step and a commit step each (`StopContainer`,
`StopCommit`, ...). A container's name is its app's (`gka-<name>-<id>`).
nginx files are named by slug, which different apps may share.

`ReviewSide...` stands for the other half of the system where `GateDeploy` is taken
alone: an upload of an initial scan or an update, an approval with its message, and
a scan that is returned, rejected or failed, which leaves the app "deployed" when
it was an update.

`disturbed` is a history variable: the apps on which two activities (deploys or
requests) overlapped, or one was hit by a fault. The safety properties speak
about an app that is `Calm`: nothing is under way and it has never been
disturbed. This is deliberate. With overlapping deploys the code does not keep
the row, Docker and nginx in agreement, so the properties say what holds when operations on one app follow one another,
while operations on other apps interleave freely and fail. A container the stop
request has stopped stays down whatever the review side says; the route stays
away as long as the app is called "stopped" (`StoppedIsDown`; Findings say why no
longer).

Abstractions: the source archive, secrets and image build are one step that may
fail; a flush takes its locks in one step; a handler's last reads and its commit
are one step, so that database deadlocks are between two tasks and never between a
task and a request (`deployments.py:106`, `deploy_task.py:249`); of the failed
starts that leave a created container (`container_service.py:55`) only the one for
a taken port does so here; a container does not exit by itself, so a poll never
writes "stopped" (`deployments.py:249`); status polls that change nothing, logs and
health are left out.

### GateKeeper

Next is a step of `GateReview`'s requests, tasks and desks, or a step of
`GateDeploy`'s workers and callers. The environments of both are dropped. The
review side's commits are not delayed by the deploy task's row locks; that only
adds behaviours.

`verdictOf` maps the approval rows to `ReleaseGate`'s verdicts and `liveIn` maps
the running containers to what each app runs.

### GateSignIn and GateSession

A pair of tokens is a number; `pairs` remembers whose it is and which login it goes
back to, `jtis` which refresh tokens Redis has. The three ways to log in are
separate actions up to the tokens: `PasswordLogin`; `SsoAuthorize`, `SsoCallback`
(takes the state away), `SsoRefused`, `SsoMint`, `SsoExchange`; `KeyRegisterBegin`,
`KeyRegisterComplete`, `KeyBegin`, `KeySign`, `KeyRead`, `KeyVerify`, `KeyCommit`,
`KeyMint`. A callback and an exchange may be asked for again at any time. An
authenticator counts its signatures or does not; a clone signs with a counter
already passed. Nobody presents one assertion twice (`passkeys.py:252`), so the
challenge's single use is modelled by its removal but not put to the test.

`refreshing[p]` is the module variable of page `p`: `idle`, on its way through
`/auth/refresh` (`sent`, `consumed`, `answered`, `refused`), or `stuck`, a promise
that resolved to null and is never reset (`api.ts:41`). A request that is denied
joins the refresh under way (`JoinRefresh`), sends one (`SendRefresh`), or has
nothing to send (`NothingToRefresh`); `RefreshDone` and `RefreshFails` resume all
that wait. `RefreshConsume` and `RefreshMint` are the two halves of the handler,
with `RefreshLost` for whatever goes wrong in between. `raced` is the history of
browsers in which pages crossed each other.

### GateAccounts, GateApps and GateAccess

A request is a record that remembers what it read (`seen`, `had`) and one action
per transaction step; `DeskDies` and `ClerkDies` roll it back. Unique columns are
guards at the commit (or at the flush, where an INSERT waits for another one);
foreign keys make `DeleteCommit` fail. `crossed` and `contested` are histories:
a request committed over what another had committed since it was read.
`GateAccess` adds the role in each user's access token and what nginx asks
(`Passes`): the app is found by a pattern on its container's name, which is why
`Matches` is a constant. The cookie nginx reads is set by `/auth/login` alone
(`auth.py:45`); `SignInAs` gives one to every login.

### GateScan

The source is a record of what there is to find. Each scanner is an operator from
the record to a score and the force-red flag (`SecretsRun`, `DependencyRun`,
`EgressRun`, `PiiRun`, `LlmRun`), or fails with a result that adds nothing: `Failed`,
an error on record (the program is missing, takes too long or writes no JSON), or
`Silent`, which the stored result does not show: the code does not look at exit codes
and takes empty output, or npm's JSON with an error in it, for a clean result
(`secrets_scanner.py:34`, `dependency_scanner.py:65,82`). `saved` remembers which it
was, for the property only. The
dependency score and the worst severity follow the parsers' loop, finding by
finding, as a function of how many have been seen. `Start`,
`Extract`, `ScannerRuns`, `Persist`, `PublishComplete` are the task; `ExtractFails`,
`PublishFailed`, `Raise` and `Crash` its failures. A page loads the scan,
subscribes, lets the server read the row, receives and fetches again.

### GateCluster

One app on Kubernetes. A task goes through `build`, (`stale`, `gone`, `again`), `poll`,
`apply`, `route`, `ready`; a Job of the commit's name that is already there is
deleted and waited for, as in `k8s_build_service.py:83`, each call a step: a Job that
went between the 409 and its deletion fails the deploy. `JobEnds`, `JobGoes` and
`PodMoves` are the cluster. `disturbed` is used as in `GateDeploy`.

`Upload`, `Classify`, `ScanFails`, `Approve` and `Reject` are the review for what it
does to `app.status`, at any time and also during a deploy or a request: an upload
takes the app out of "deployed", a rejected or failed update puts it back, also when
it was stopped. Each is one step, with the choice of writing nothing that a stale
session has (`StatusTo`); how review handlers interleave is `GateReview`'s.
`update_visibility` touches the Ingress only while the status is "deployed"
(`Shows`); `unshown` is the history that the last change of the visibility did not,
and no deploy has written the Ingress since. `ClusterMatchesRow` therefore asks for the
app's visibility on the Ingress unless it is `unshown`, and for no Ingress only of
apps still called stopped.

## Runs

| Run | Instance | Shows |
|---|---|---|
| `review` | 1 app, 2 scans, 2 approvers, 1 fault, 1 retry, slow commits | types and retry bound; what is dispatched is approved; decisions and the tiers they were based on never change; an unsigned approval is a green initial scan's; expedited updates are justified and have a predecessor; the app status is never stuck in scanning or awaiting approval without a cause |
| `review_live` | 1 app, 2 scans, 1 approver, no fault | a committed scan reaches a verdict although its task was sent early; a granted approval is dispatched |
| `deploy` | 1 app, 3 scans, 1 worker, 2 requests | a running row is true; route and stable port lead to the container; no container is left without a row; a stopped app is down |
| `deploy_isolation` | 2 apps, 2 workers, 1 request, 1 fault or crash | what happens to one app, crashes and exhausted ports included, leaves the other's running row true |
| `deploy_live` | 1 app, 2 workers, 2 retries, 1 fault, 1 request | no row stays building, database deadlocks between two deploys included |
| `deploy_route`, `deploy_old_version` | 1 or 2 apps, 2 scans | violations, see Findings |
| `keeper` | 1 app, 2 scans, 1 approver, 1 worker, 1 request | the whole implements `ReleaseGate`; the deploy side is one that `GateReview` allows for; what runs is approved |
| `session` | 1 browser, 2 pages, 2 logins or 3 with passkeys, 2 requests, 5 token pairs, 1 failure or intervention | a login has one valid refresh token at a time and each pair is handed out once; requests of a page never cost it its session; localStorage holds the last login; a passkey login passes only with a counter above those before, until one was overtaken; every request ends |
| `access` | 3 users, 3 requests about accounts, or 3 about 2 apps, 1 crash each | an administrator remains; setup happens once; one account per subject; rows have repositories; the secret is the last one set; nginx lets through whom the answered grants say |
| `scan` | 11 commits, 2 answers of the model, 1 page, 3 faults, 2 retries, 1 broken connection | no scan below red, or below 70, with a finding that forces red unless the program that finds it failed, on record or silently; the tier fits the score; a page shows what was committed, and stops waiting |
| `cluster` | 3 commits (one does not build, one does not get ready), 3 tasks, 3 requests, 2 faults, 1 retry | what is deployed was approved and built; the cluster is what the rows say, with uploads, scans and decisions setting the status at any time; of tasks that delete each other's Jobs one builds |

Every property of a passing run is broken by a mutated definition of the
modelled code, kept in the module before the definition it mutates under a
comment that says "Mutation" or "(mutant)". They are part of no specification.

### Bounds

* `MaxFaults`, `MaxDeployFaults`: one fault reaches every error path; each
  handler has its own, and a second only repeats a path from another state.
* `MaxRetries`: 1 where the number does not matter (one rerun already meets what
  the first run committed), 2 as in the code for `deploy_live`, 0 where retries
  are another run's subject.
* `MaxQueued`: messages of one approval waiting at once, so that a restart
  cannot fill the broker. `DeskDispatch` and `ScanDispatch` are not bounded.
* `MaxCalls`, `MaxLaunches`, `MaxPort`, `Deployments`: two scans are an initial
  deploy and an update or a second initial one, the three of `deploy` are a chain
  of an initial deploy and two more; a container more than scans allows for a
  restart; two ports make ports differ, collide and run out.
* `SlowCommits`: whether a request's commit may take longer than the 30 s retry
  delay. FALSE for liveness, TRUE for safety.

* Two deploys of one app at once are in `deploy_live` (two workers, a restart);
  `deploy` has one worker because its properties speak of undisturbed apps.
  `deploy_isolation` has two workers on two apps; the workers are alike, so states
  that differ by exchanging them are taken as one.

* `MaxPairs` is a pair for each login and each request, so that no refresh runs out
  of numbers; `MaxTicks` 2 lets two counted signatures of one user race, and the third
  passkey login comes after an overtaken one has lowered the counter. `MaxUpsets`
  is one failure, revocation, reload or disabled account, anywhere.
* `MCGateSession`, `MCGateAccess`, `MCGateScan` and `MCGateCluster` keep each
  behaviour to one concern (`OneConcern`), as the product of all of them is too large:
  logins of any kind until they are in the browser, or requests after password
  logins; requests about accounts, or about apps with at most one change of an
  account; scanners on any commit, or pages on a plain one; in `cluster`, behaviours
  in which nothing overlaps, with reviews in between (`OneByOne`), or two deploys
  that meet each other and faults (`Crowd`), restarts of one commit (`SameCommit`),
  or a request that meets deploys (`Meeting`). The theorems' modules do not use
  these restrictions.
* `access` starts from an empty system, and from one with an administrator, two
  users and an app, so that three requests are enough to run into each other.
* The commits of `scan` are one finding of each kind and several that meet a cap or
  a limit of a tier. Three faults use up both retries. One page: pages do not
  meet.
* Three tasks in `cluster`: two that delete each other's Job and one that comes
  later, or an initial deploy, an update and a restart. Its third commit is one whose
  upload or review sets the status while the others deploy; three requests are a
  stop, a change of the visibility and a restart.

Symmetry of scans and workers is used in `deploy` and `keeper`, which check
invariants and safety only, of requests in `access` and of tasks in `cluster`, and
never with liveness.

CHECK_DEADLOCK is off because all bounded work may be done.

### Fairness

`review_live`: uvicorn finishes a handler it has started (a request that has read
answers, one that has sent commits, one that has committed a decision sends it)
and Celery workers keep taking messages. Nobody has to upload or decide, but a
decide request that has loaded its rows commits one of its decisions. `MaxFaults`
is 0: the code does not promise progress after a crash, because messages are
acknowledged on delivery.

`deploy_live`: weak fairness of each worker as a whole (which of a step's
outcomes happens is not fair) and of the second half of each request. `Crashes`
is FALSE and faults are fewer than retries: when retries are used up, or the
process dies, the code leaves the row building.

`session`: weak fairness of the refresh handler with the page's reaction to it, and
of the answer to each request; users owe nothing, and failures may strike once.

`scan`: weak fairness of the task (a worker takes it and runs it, each scanner
returns within its timeout) and of each page's steps. `WaitEnds` names the ways
out that the code leaves: a lost task, one that gave up with the row unfinished, a
broken connection, a scan that failed before the stream was open.

## Findings

* `deploy_route`: two apps of different submitters with the same name share the
  nginx file and the public URL.
* `deploy_old_version`: an update's launch removes the live container before
  `docker run` can fail, although the comments say that the old one keeps running.

Met while modelling, and not runs of their own:

* DESIGN.md:139 says that nothing deploys on a scan result alone; a green initial scan
  does (`app/scanners/pipeline.py:193`; `AutoApprovalOnlyGreenInitial` says that
  nothing else does).
* Two first deploys of one app insert two deployments rows (`worker/deploy_task.py:54`);
  nothing in the schema prevents it, and every later read by `scalar_one_or_none`
  fails. `GateDeploy` allows for it.
* After a request found no refresh token, every 401 of that page is a forced logout
  until it is reloaded (`src/frontend/lib/api.ts:41`).
* A "failed" event made up by the stream (`app/routers/scans.py:142`) is no end to the
  page that receives it, which then closes the stream and waits without one.
* A scanner whose program dies without output, or an npm that answers with an error
  object, is "passed" with score 0 and nothing on record (`app/scanners/secrets_scanner.py:34`,
  `app/scanners/dependency_scanner.py:65,82`): an app with a live key can then come out
  green and deploy itself. `GreenIsEarned` names these outcomes (`Silent`).
* A light finding after a heavy one lowers the dependency score
  (`app/scanners/dependency_scanner.py:137`); `force_red` is not affected.
* The identity provider's groups can take the role from the last administrator
  (`app/routers/sso.py:178`), after which the setup wizard is open again.
* A passkey login overtaken by another replaces the higher counter with its own
  (`app/routers/passkeys.py:294` writes without comparing again), so that a third
  login passes with a counter that was used before. The proof of `KeyIsCurrent` failed
  on this; the property now ends its promise there.
* An update that is rejected or fails its scan leaves the app "deployed"
  (`app/services/approval_service.py:122`, `app/scanners/pipeline.py:221`), and so
  does one whose deploy fails (`worker/deploy_task.py:273`), also when the app was
  stopped meanwhile: the comments there say that the live version keeps running.
  `update_visibility` goes by that status and writes the route again. The proof of
  `StoppedIsDown` for the whole gate failed on this; its route half now speaks of
  apps that are still called stopped. On Kubernetes it is the Ingress that comes back
  (`app/routers/apps.py:265`).
* While an update is in review `update_visibility` leaves route or Ingress as it is,
  because the status is not "deployed" (`app/routers/apps.py:265`): an app made private
  then stays public, and if the update is rejected until the visibility is changed
  again. `ClusterMatchesRow` exempts it (`unshown`).

## What is proved

| Theorem | Says |
|---|---|
| `GateReviewProofs!TypeCorrect` | `Spec => []TypeOK`, the retry bound included |
| `GateReviewProofs!OnlyApprovedIsDispatched` | a deploy message in the broker names a committed approval |
| `GateReviewProofs!AutoApprovalIsJustified` | an approval nobody signed is a green initial scan's |
| `GateReviewProofs!DecisionStands`, `DecidedTierStands` | neither a second approver nor a rerun changes a decision, or the tier it was based on |
| `GateReviewProofs!ExpeditedIsFair` | an update follows an approved scan, and is expedited when no riskier |
| `GateReviewProofs!ScanningIsCaused`, `AwaitingIsActionable`, `StatusInvariant` | statuses written through stale sessions have their reason in scans and approvals |
| `GateDeployProofs!DeployTypeCorrect` | `DeploySpec => []DeployTypeOK` |
| `GateDeployProofs!DeployInductiveInvariant` | tasks and requests find the row they write; rows and containers are about a scan of their app; one container per app |
| `GateDeployProofs!CalmInvariant` | what the one activity of a calm app has done so far to row, containers, route and port |
| `GateDeployProofs!RunningIsTrue`, `RouteIsTrue` | a running row names a running container on its port; stable port and route lead there |
| `GateDeployProofs!NothingLeaks`, `StoppedMeansDown` | every running container of a calm app is in a row; a stopped row has none, a stopped app no route |
| `GateKeeperProofs!DeploySideIsAllowedFor` | the whole implements `GateReview`, with the deploy side for its environment |
| `GateKeeperProofs!OnlyApprovedCodeRuns` | every container is of an approved scan |
| `GateKeeperProofs!TheGateIsKept` | the whole implements `ReleaseGate` |
| `GateKeeperProofs!CalmThroughout`, `WhatIsToldIsSo` | the calm invariant of deploying, and the four properties that follow, hold with the real review side |
| `GateAccessProofs!AccessTypeCorrect`, `AccessInvariant` | types, foreign keys, and the inductive invariant of accounts and apps |
| `GateAccessProofs!AdminsRemain`, `SetupHappensOnce`, `SubjectsAreUnique` | an administrator remains; setup succeeds once; one account per subject |
| `GateAccessProofs!ReposAreRight`, `SecretsAreLast`, `ListsAreFollowed` | repositories match rows; a secret is the last one set; nginx follows the grants |
| `GateSessionProofs!SessionTypeCorrect`, `SessionInvariant` | types, and the inductive invariant of logins and sessions |
| `GateSessionProofs!LoginsAreSingle` | a login has at most one valid refresh token; each pair is received once |
| `GateSessionProofs!NobodyIsThrownOut`, `StoredTokensAreCurrent` | requests of a page keep their session; localStorage holds the last login |
| `GateSessionProofs!KeysAreCurrent` | the action property on passkey counters, for any number of logins |
| `GateClusterProofs!ClusterTypeCorrect`, `BuildInvariant` | types; Jobs, tasks and images belong together |
| `GateClusterProofs!TheImageIsBuilt`, `SomeoneDoesBuild` | a Deployment runs an approved commit's own image; of tasks that replace each other's Job one builds |
| `GateClusterProofs!ClusterFollowsRow`, `CalmInvariant` | between activities that did not overlap, among any uploads, scans and decisions, the cluster is what the rows say |
| `GateScanProofs!ScanInvariant`, `ScanTypeCorrect` | the inductive invariant of a scan and its pages; scores are numbers, retries bounded |
| `GateScanProofs!GreenScansAreEarned` | no finding that forces red is lost unless the program that finds it failed, on record or silently, for any findings in any order; tier and score agree |
| `GateScanProofs!WhatIsShownIsCommitted` | pages show what was committed, any number of them |

They hold for any finite set of scans and any apps, approvers, workers, accounts,
browsers, pages and requests, with crashes and faults at any point. The assumptions
are those of the component modules: `TablesAssumption` (a scan has an app; finitely
many scans and some retry bound; the null values are nobody and no scan),
`ReviewAssumption` and `DeployAssumption` (some app exists; deployments rows are
finitely many), and for the others that the null values are none of the things
they stand for, that the bounds are natural numbers, and that the commits and the
model's answers of `GateScan` are records of the kind the scanners read.
The `Max...` constants may be any natural numbers (`MaxQueued` a positive one).

### The argument

*Review.* `IInv` adds four parts to what is to be shown.
`RequestOrder`: a request sends the task first and commits the row afterwards, so
a scan without a sent request has neither row nor task. `WorkIsCommitted`: a scan
no other session can see has no approval and no task at work on it; with it, a
request that rolls back takes nothing away that others rely on.
`TaskOwnsApproval`: as long as the task can still run, an approval can only be the
one it granted itself. This is what makes a rerun harmless: it meets either no
approval, or its own, and in the second case only an equal routing gets past the
UNIQUE constraint. `DeskOwnsApproval`: an open decide request works on an
undecided approval that no other has open, which is the row lock. Without these
neither `DispatchedOnlyApproved` nor `DecisionIsFinal` is inductive.

`StatusInv` is about what sessions have loaded. SQLAlchemy writes nothing when the
new value equals the loaded one, so a verdict may leave a "scanning" that another
request committed meanwhile. What holds is that some scan of the app causes it
whose task has not begun, or was begun when the status was "scanning" already
(`Causes`): that task's verdict differs from what it loaded and overwrites it.
`Awaits` says the same of approvals and open desks. An app that is deployed, or was
when an upload loaded it, has an approved scan (`DeployedInv`), and of finitely many
approved scans one was decided last (`LatestApprovedExists`).

*Deploy.* `DeployInv`: a job that is past its first commit, and a request that will
commit, has a deployments row of its app (`JobHasRow`, `CallHasRow`); a row or a
container that exists is about a scan of that app (`RowHasScan`,
`ContainerHasScan`); containers are numbered in the order of their creation. These
hold although sessions are stale and deploys overlap, because no step removes a
row or gives it to another app.

The agreement of rows, Docker and nginx needs more, because a deploy takes them
apart and puts them together again. `CalmInv` says of each app that was never
disturbed:

* it has at most one activity and one deployments row (`Alone`, `OneRow`);
* when nothing is under way it is `Settled`: a container of its name that runs is
  its row's, on the row's port, with the stable port and the route leading to it
  (`Led`); a running row has such a container and a stopped one none (`Told`); a
  stopped app has no route (`Hidden`);
* a job (`JobGoes`) or request (`CallGoes`) under way has left of this what its
  stage says. Until `Displace` the old container is `Led`; after it there is no
  container of the name; after `Launch` there is exactly the new one, on the
  port the job carries; after `WriteRoute` the route leads there; when the row is
  committed, the app is settled again, and what remains is to stop an old
  container that has another name. What its session has loaded is still what
  the row says, which is why a `Written` that writes nothing does no harm.

`CidsAreOwn` and `OwnSlug` keep apps apart: a container an app's row or job names was
made for it, so no other app's job removes it, and the file of its route is its
own. A step for another app then leaves all of the above alone (`ElsewhereCalm`),
crashes and exhausted ports included; a step that overlaps or fails where the
code does not recover makes the app disturbed. The four properties follow from
`Settled`.

*The whole.* `OnlyDispatched`: whatever scan is in the broker, with a worker, in a
deployments row or in a container was dispatched by the review side. Each step of
a worker or request is then a `DeploySide...` step or stutters
(`DeployStepMaps`): a commit through a stale session writes a status, or nothing
when the value equals the one loaded. So `IInv` holds of the whole; with
`DispatchedOnlyApproved` everything that runs is approved. For `ReleaseGate`, an
`AutoApprove` or a `DeskCommit` is `Decide`, a `Launch` is `GoLive`, a removal is
`Retire` (an app has one container at most), and every other step stutters. The
pipeline and the desks touch no row, container or route, and never set an app to
"stopped" (`ReviewStopsNothing`), so `CalmInv` holds of the whole as well.

*Accounts and apps.* `AccessInv` follows each request from what it read to what it
writes: as long as nothing crossed, what a desk or a clerk holds in its session is
what the rows still say, so its write is the one a request alone would make. The
count of administrators, the owner of a subject and the list of an app are then
changed by one request at a time, and the history variables (`setups`, `intended`,
`wrote`) agree with the rows.

*Sessions.* `FlowsInv` and `PairsInv` give a login one chance to get its first pair: a
state, a callback, an exchange code or a row read. `ChancesInv` carries this on: a
login has one valid refresh token, or one refresh that consumed it and has not
minted its successor. `RefreshesInv` and `PlacesInv` say where the pairs are: each was
received once, into one browser, and is stored there or on its way to be
refreshed. Where pages of a browser did not cross and nothing failed (`CalmInv`) the
one refresh under way has a valid token, so it cannot be refused, and nobody is
thrown out. `KeyInv` follows the counter of a passkey: what a login read is still
there when it commits, or the login was overtaken.

*Kubernetes.* `BuildInv` holds of every behaviour: a Job that succeeded has left the
image of its commit, and a commit without an image has a task that will see to it
(`SeenTo`): one that waits for the Job it deleted to go, polls the Job there is, or
has yet to create it. `CalmInv` of `GateClusterProofs` follows the one activity of a
calm behaviour through its stages, while reviews move the app's status. They touch
neither the row nor the cluster and never set "stopped" (`ReviewCalm`), so while the
status is the one a stop has left nothing has come back (`CalmStopped`), and a task
knows what it will overwrite but for statuses a review has set (`CalmTasks`).

*Scans.* The parsers' loop is a recursive function of the number of findings
seen. That it exists (`LoopIsDefined`), has a natural number for a total, and keeps a
"critical" once it has met one (`DependencyHeeds`) is shown by induction over the
findings, which takes the form of a set of numbers that has 0 and the successors
of its members (`EveryNumber`, from the well-foundedness of `<`). `TierHeeds` draws
the conclusion for the tier, whatever the sum. For the pages, `RowInv` says that
an attempt that has not yet completed the scan finds it incomplete, unless it
started over; so while `reruns` is 0 a row that says complete is not written
again, and a page that was told of it (`Told`), or shows it, agrees with it
(`PagesInv`).

### What is only model-checked

* Liveness (`ScanSettles`, `ApprovedIsDispatched`, `BuildingEnds`, `RequestSettles`,
  `WaitEnds`): fairness and ENABLED are out of the prover's reach.
* That the models' instances reach what the properties are about: the mutants of
  each run.

Every invariant and action property of the passing runs, and both refinements of
`keeper`, are theorems. The runs of `session`, `access`, `scan` and `cluster` narrow
their instances (`OneConcern`); the theorems do not.

## What is not modelled

* How findings are recognised in the source (regular expressions, Luhn, the output
  of the tools): `GateScan` starts from what there is to find.
* Passwords, signatures, encryption of secrets and client secrets, rate limits: a
  check passes or not.
* Names of users and the `email` an administrator sees; comments, mails, audit
  records, telemetry, generated Dockerfiles: they change nothing that the
  properties speak of.
* The SLA reminder: it keeps no state.
* The forms and lists of the frontend; the dashboards that poll.
* `infra/`, `scripts/` and the examples.
* Kubernetes Services and Secrets beside the Ingress and the Deployment they are
  written with; start_app and delete_app of `k8s_app_service.py`, which no handler
  calls.

## Plan

1. That a row left "starting" by a restart is repaired by the next poll.
2. What a route of an app whose container is gone may lead to, and for how long.
3. How far rows, containers and routes of a disturbed app may come apart: what an
   overlap of two deploys can leave, and which next operation brings them together.
