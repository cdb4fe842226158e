# Stackport: verification project

TLA+ models of the parts of Stackport where order, interleaving, crashes and retries decide
whether it is correct: the action registry, automatic deploys and their webhooks, the operations
of a project and its deployment history, the outbox of browser alerts, the public routes and
ports, network groups, the move of mount directories, the live view of an action in the browser,
and Stackport's own update. TLC checks the models on small instances; TLAPS proves what they
promise for all values of their constants, but for liveness and for the parts section 5 names.
Paths such as
`history.ts` are below `src/src/`; `client/` and `stackport.sh` are below `src/`.

## 1. Inventory

Stackport is one Node process with one SQLite database (better-sqlite3: every statement and
transaction is synchronous), beside Docker, git, nginx, certbot and GitHub. Code between two
`await`s runs without interruption; that is the atomicity of the models of the server. A second
process, the stdio MCP server, shares the database but not the memory. The update script is a
shell program on the host: there every command is a step.

| Component | State | Operations | Hard behaviour | Correct when |
| --- | --- | --- | --- | --- |
| **Deployment history** `modules/deployments/history.ts` | rows of `project_deployments`: revision, `active`/`superseded`/`failed`, rolled back, unhealthy | record success, failure, rollback; mark unhealthy; prune; choose a target | long sequences, the retention limit | one active row; pruning never changes what a rollback does; rollbacks keep going back |
| **Project operations** `modules/deployments/operations.ts` | checkout, images, containers, Compose snapshot, history | deploy, build, pull, compose, recreate, restart, service redeploy, force rebuild, stop, rollback | partial failure, crash between steps, pause in the middle, rollback inside a deploy | history and snapshot tell what runs; alerts tell the truth |
| **Action registry** `modules/actions/registry.ts` | `actions`, `cancelers` maps; rows of `actions` | `tryStart`, `finish`, `cancel`, boot | finish by key from two callers, crash | one action per slot, each slot released, outcomes final |
| **Action feed** `modules/actions/log.ts`, `transports/socket`, `client/src/context`, `client/src/hooks` | output buffers, log files, rooms; the page's tracker and output view | number, replay, reset; resync over REST | messages lost with a connection, answers overtaken by a newer one | a page shows each chunk once and in order; its list of running actions settles on the truth |
| **Automatic deploys** `modules/automation` | `pending` map, `last_commit_sha`, `pending_deploy_sha`, `hook_status`, deliveries | poll, webhook, queue, wake-up, pause, trigger and branch changes | rows read before an await, lost and repeated deliveries, lost queue | the tip is taken in the end, never backwards, never a branch that was only selected |
| **GitHub hooks** `modules/automation/githubWebhooks.ts` | trigger, `hook_public_id`, `github_hook_id`; the hooks on GitHub | enable, disable, reinstall, move, delete | overlapping requests, lost answers, crashes between a write and its request | no hook nobody knows; a webhook project has its URL |
| **Push outbox** `modules/notifications/push` | `push_events`, `push_deliveries`, `push_subscriptions`, worker | enqueue, claim, send, commit, suspend, cancel, clean up | late answers, crash between claim and outcome, retry limit | each delivery settles, once, within its attempts |
| **Health checker** `modules/deployments/health.ts` | `last_status`, incident key | probe, open and close an incident | a stale answer | inside the push outbox |
| **Ingress** `modules/ingress` | domains, certificates, nginx's files and what it serves | route, issue, renew, publish, apply, restore | applies at once, failures half-way, restarts | nginx serves what the rows say, from a file it accepts |
| **TCP proxies and networks** `modules/ingress/tcp.ts`, `networks.ts` | `tcp_exposures`, proxy containers, ingress networks | expose, remove, reconcile, attach | docker fails twice, two requests for one port, a deploy meanwhile | a public port is open exactly if its row says so |
| **Network groups** `compose/groupNetworks.ts`, `projects/networkGroups.ts` | membership, group networks, connected containers | assign, sync after `up`, leave, reconcile, prune | syncs overlap, a prune meets a join | containers are on the network of their project's group only |
| **Mount migrations** `modules/maintenance/migrations` | original and managed directories, `volumes_managed`, `legacy_mount_sources` | copy, verify, switch, clean up | deploys beside it, a return to the old release | no data lost; a deploy starts on the newest data |
| **Self-update** `stackport.sh`, `modules/maintenance/selfUpdate.ts` | checkout, image tags, container, database, backup, `state.env` | update, automatic rollback, rollback, repair, tell the outcome | every command can fail or be the last | the server runs an accepted release and can be updated again |
| Single-flight cache `shared/singleFlightCache.ts`, `integrations/docker` | value, age, flight | get, invalidate | invalidate during a fetch | no result older than its invalidation |
| Uploads `modules/deployments/upload.ts` | live, staging and backup directories | validate, swap | crash between two renames | the live directory is old or new, never missing |
| Previews, Compose preparation | files | rewrite, check, diff | none: sequential | unit-tested functions |
| Projects, credentials, identity, containers, observability, e-mail, client pages | rows, sockets, views | CRUD, streams | none of the above | outside this project |

How they interact: routes, tools and automatic deploys take a project's slot with
`actionRegistry.tryStart`; the runner they pass is an operation. Its events with `done` set call
`finish` of the slot (`application/realtime.ts`), as its return does. `finish` calls listeners;
that of `autoDeploy.ts` starts the queued commit in a `setImmediate`, those of the socket manager
tell the pages. Operations write the history, and `gateOnHealth` enqueues alerts in the
transaction that marks a revision unhealthy; after each `up` they put the new containers on the
project's ingress and group networks. The health checker opens and closes incidents in the
transaction that stores the status. The worker drains the outbox on its own timer. Every change
of a route, a certificate or a project ends in `writeNginxConfig`, mostly without a slot. At boot
`index.ts` starts the push worker, marks interrupted actions, publishes the app, reconciles
ingress networks, TCP proxies and network groups, and clears queue markers; nothing else is
repaired.

`PROJECT.json` lists every component with its sources, and under `hazards` every place where
this code is hard to test, with the property that covers it or the reason why none does.

## 2. Modules

Every definition that stands for code names its lines in `PROJECT.json` under `map`. A *history
variable* (commented "history" or "observed") is read by properties only: it records the event
after which the code promises nothing, and each is listed with its property below.

**DeploymentHistory.** The table of one project as a function from ids to rows. A *revision* is
what `sameRevision` compares (commit, Compose file name, effective text); `Unrestorable` ones
lack a commit or a file. `Prune` is part of each insert, as in the code; `TakeId` is
AUTOINCREMENT. **HistoryAudit** adds four history variables: the table had nothing been pruned
(`full`), the revision the latest default rollback left (`left`), whether there was a rollback,
and whether one went to a revision that an earlier one had moved away from (`returned`).

**ActionRegistry.** `current` is the `actions` map, `record` the objects, `row` the table,
`runner` where each asynchronous function is, `canceler` the `cancelers` map. A runner works,
waits for a child, and ends; the only runners that go on after their `done` event are those
whose sync was blocked, which still await `git rev-parse HEAD` (`BlockedDone`, phase "tail").
Only project slots have events and children. Ids of runs that are over are used again, so
behaviours are infinite over a finite set. `Spawn` models `run()`; previews that call it outside
the slot are not modelled (see the hazards).

**AutoDeploy** extends ActionRegistry with one project. A commit is a branch and a position on
it. `poll` holds the row read by `selectProjectsToPoll`, kept across the await of
`fetchBranchList`; `PollApply` decides on it, as the code does. `wake` says that a `setImmediate`
callback holds the object now in `pending`: replacing the object disarms it. Deliveries of any
pushed commit arrive at any time, in any order, or never. In the code a poll goes through the
projects one after the other; the row of a later project is older still when it is used, which
`PollSelect` at any earlier time includes.

**PushPromise / PushOutbox.** PushPromise is what `docs/web-push-reliability.md` promises,
without leases, workers or crashes: an event waits for a set of browsers at once or never, and
each delivery is settled, once. PushOutbox is the code: tables, leases, attempts, the worker
(`up`, `stopping`, `down`) and the request of each attempt. The refinement mapping is `Fate`.
The claim, the eligibility check and the start of a request are one action because
`drainBatch` runs them in one turn. The health incident is part of it because
`leaseIsEligible` reads it: `HealthDown` and `HealthUp` are the two transactions of
`checkOnce`. The lease's token is implied: nothing is claimed while a call is open, so a call
owns its row exactly while the row is leased.

**ProjectDeploy** extends DeploymentHistory with the checkout, images, containers and snapshot
of a project and the operation in flight. An operation is cut at its awaits: pull, prepare,
build, up, snapshot, record, probe, and checkout for a rollback. Docker and git are external: a
step may fail after having done part of its work (`BuildStops`, `UpStops`, `PullFails`), and
`Mixed` stands for the parts of several revisions. `Crash` lets the current child finish or not
and forgets the operation. An automatic rollback runs nested in the operation that failed its
check (`op.nested`), as in `gateOnHealth`. `drift` is a history variable: what happened to the
containers since the last recorded `up` that the code does not record. `policy` stands for the
health check and `auto_rollback_unhealthy`, which the operation reads when it starts, while
the check itself is read when the gate is reached.

**TcpProxies / Ingress.** TcpProxies has every statement of `tcp.ts` that changes a row or a
container; a *job* is a request, or the reconcile at boot, between two waits for docker. Ingress
extends it with domains, the app's own route, certificates, the file nginx reads (`file`), what
nginx runs (`served`) and the project networks. A *flow* is one caller of `writeNginxConfig`
with what it does before and after: its steps are load, read routes, render, validate, back up,
replace, check, activate, restore. `reconcileIngressNetworks` at a restart is one step,
although a request could meet it half-way. Wherever nginx is connected to a project's network
(a load, an attach, a deploy, the start of a proxy, a restart) the connect may fail, which the code
logs at most: the project is then in `cut`, until a later connect. `cut` has the routed projects
nginx is off since it was recreated or its last connect failed. History: `stale` (an apply failed,
was lost, overlapped another or was refused as busy), `mixed` (two flows wrote the file at once, one died,
or a reload's answer was lost), `crossed` (a route changed during a deploy, or attaching failed),
`contended` (a port was being exposed and removed at once),
`unserved` (docker failed a row twice).

**GroupNetworks.** `row` is the membership, `container` what runs and which group networks it is
on, `networks` what docker has, `sync` the syncs in progress. A sync reads its project's row,
lists the containers, then per container disconnects, ensures the network and connects, and
ends with a prune of its own; each is one docker command, which may fail, lose its answer, or
meet containers that an `up` has replaced. `ensureNetwork` is one step because both of its
commands accept a network another sync has made. The callers are `assignNetworkGroup`, `up`
(whose slot is busy until its sync ends), DELETE (which may then be refused) and the boot, which
goes through the projects in a group one by one. History: `upset` (projects that were touched
and not yet synced by a sync that ran alone to its end), `loose` (networks a failed or cut sync,
or containers that went away, left for the next prune).

**ActionFeed.** The server's half numbers chunks per action, keeps the newest action's in memory
and the rest in a log file that a write stream fills later; `replay` sends what the page lacks,
or resets the page to what the file has by then. The page's half is the tracker (`running`, `finished`,
`waiters`), the reconnecting socket and one output view. Socket messages keep their order and
die with the connection; REST answers arrive in any order. History: `remounted` (a live chunk
for an earlier view of the action was under way when the view was mounted), `skipped` (a reset
read a log behind its stream), `late` (an answer that a newer connection had overtaken),
`unsynced` (a REST call of the latest resync failed).

**SelfUpdate.** One action per command of `stackport.sh` (update, its automatic rollback,
`rollback`, repair) and the app's detached updater with `notifySelfUpdateOutcome`. A release is
good, does not build, never answers `/health`, or answers it and is broken otherwise; one may
migrate the database so that earlier ones do not start. The commands of `create_update_backup` and
`restore_update_backup` run with `set -e` off: after one that fails (`Copy`, `Stop`, `Restore`) the
next runs all the same. `mishaps` records deaths, broken swaps, copies to the host that failed,
restores whose stop, cp, rm or chown failed (the database is then one of `Damaged`), apps too slow
to answer, rollbacks to a release rolled back from, and a backup left over.

**GithubHook.** One project and the hooks on GitHub. A call writes the row, awaits GitHub and
writes again; several are in flight, GitHub refuses, an answer is lost, the process dies. GitHub
refuses a second hook with the same URL. History: `overlapped`, `cut`, `failed`, `cleared` (the
repository was taken away from a project with a webhook).

**MountMigration.** Two directories per mount with a version of each file (its modification
time), the migration's copy-verify-switch, the cleanup's checks and `rm`, deploys that mount one
directory or the other, the app's writes, restarts, also into the release before the move. A
deploy in flight keeps the `volumes_managed` it read. `docker ps` with its inspects is one step;
an `rm -rf` or `cp -a` that is cut has done any part of its work. History: `raced` (a deploy ran
beside a copy), `crossed` (a deploy brought an original into use between the checks of a cleanup
and its `rm`), `early` (an original was deleted before the switch), `reverted` (the old release
ran in between).

## 3. Runs

`tlc -config <run>.cfg <module>`; the `.cfg` has the run's name. Numbers are distinct states.

| Run | Shows | Bounds and why they are enough |
| --- | --- | --- |
| MCParts (3.4 M) | history: one active row, a bounded table, a failed attempt keeps the fallback, pruning is invisible before any rollback and never substitutes an older target after one; hooks: none strays, a webhook project has its URL at every moment; mounts: nothing lost, deploys start on their data; groups: containers follow the rows, no empty network stays | four modules that share no state, as a disjoint union: `part` says which of them a behaviour is of. History: retention 2 (20 in the code) and 6 attempts, so the limit is passed with the active row and the target both outside the window; three revisions, one unrestorable: active, target and other. Hooks: two repositories, two calls at once, four requests, one failure. Mounts: two mounts, one file, two versions of it, one fault or change of release: enough for one mount copied and the other not. Groups: two projects with one service, all in no group or in the same one, two groups, two syncs at once, two changes and one outage: a move, a deploy beside it, two leaves at once |
| MCHistoryReturns | **violated**: two default rollbacks return to the revision the first left | retention 20 as in the code, so pruning plays no part; 4 attempts suffice |
| MCRegistry | rows follow slots, busy slots have runners and are released, outcomes are final | a project slot and a slot without events; three records: one that holds the slot, one in its tail, one new |
| MCRegistryOverlap | **violated**: two runners work for one slot | the same |
| MCAutoDeploy | marker and queue agree, a queued commit is watched, commits are recorded when they start, polling goes forward, the tip is taken | one project, two branches, two records, three pushes, operator requests or restarts in any mix; polls, deliveries and wake-ups are unbounded. Three allow a queued commit, its replacement and a restart |
| MCAutoDeployBranch | **violated**: selecting another branch deploys its old head | four operations |
| MCPush | deliveries settle once, in the end, within their attempts; the outbox implements PushPromise | one health and one deploy event, one browser, two attempts (12), two operator requests, crashes or stops; enough for a takeover, a refund and a late answer. All events share a claim as the code's batches do |
| MCDeploy (2.2 M) | history and snapshot tell what runs; an automatic rollback never nests; alerts are true | two good revisions and one without a Compose file, retention 2; a project without rows (three rows) or one that lived through two healthy deploys (four), so that a deploy, its rollback and what would follow fit; crashes, pauses and setting changes unbounded |
| MCDeployRestart | **violated**: a restart starts another revision's images | as a fresh MCDeploy |
| MCIngress (2.7 M) | nginx serves what the rows say; its file is what it runs, and one it accepts; no HTTPS block without its certificate; forwarded services are on the network; TCP proxies follow their rows | one project, two domains, two targets, two flows and two jobs at a time, one port, two changes and one fault or restart, a failed connect of nginx included; the first start counts as a change or, if it has a domain to publish, as the fault; an installation in use may begin with nginx off the network. Two applies overlap, fail, or meet a deploy |
| MCActionFeed (4.4 M) | output faithful; tracker settles | two actions, two chunks, two connections, two messages under way, one REST failure or restart: a replay overlaps live output, a switch of views and a reconnection |
| MCSelfUpdate (1.0 M) | versions agree; updatable again; a failed update is told of | three releases (a bad one before or after a good one, or two that never answer; one breaking migration), three scripts, one fault: an update, its automatic rollback and another update or rollback |

Symmetry is used in runs of safety properties only. `CHECK_DEADLOCK FALSE` stands where a bound
on attempts, operations, chunks or faults stops the model, not the program; MCRegistry checks
deadlock. Domain predicates ("a variable has its type") are stated and proved for the history
and the registry, where the other proofs use them, and not checked as runs.

Each property of a passing run has a mutant in `PROJECT.json`: an operator `Mut...` next to the
definition it replaces, with a plausible bug (a dropped guard, a missing reset, a status that is
forgotten), that TLC must find.

### What the violated runs say

1. `MCHistoryReturns`: deploy A, B and B again, then roll back twice. Only the active B row is
   marked as rolled back from (`history.ts` l.98); the older B row is then the newest candidate.
   The comment at l.167-169, `Stackport.md` l.66 and the test `rollback.test.ts` l.37 say rolling
   back twice keeps going back.
2. `MCRegistryOverlap`: a blocked sync finishes its slot before its runner is through
   (`operations.ts` l.1109), and the runner's return finishes whatever action took the slot
   since (`registry.ts` l.170, l.263). `Stackport.md` l.322 says one action per slot.
3. `MCAutoDeployBranch`: the poll uses the branch and baseline of the row it read before the
   await (`githubPolling.ts` l.395), which undoes the reset its comment at l.240-244 explains.
4. `MCDeployRestart`: `restartBlocker` compares commits, not images; after a failed deploy whose
   build had replaced images and a checkout of the active commit, `--no-build` starts the newer
   ones (`operations.ts` l.1283; the comment is at l.1280).

### Divergences met while modelling, without a run of their own

The properties exclude these by the history variable named; each is what the code does.

* **Ingress.** A DELETE of an exposure or of its project that overtakes the creation leaves a
  running proxy without a row (`ingress/tcp.ts` l.210-221, `application/http/projects.ts`
  l.1266-1287; `contended`), although `Stackport.md` l.58 says a removal also removes the proxy.
  Docker failing twice leaves a row with neither container nor `last_error` (`unserved`). A
  publish is saved though its apply is answered "busy", a snippet edit without a legacy port is
  not applied, and overlapping applies may restore the older backup (`stale`, `mixed`). A connect
  of nginx to a project's network that fails is put off or logged (`networks.ts` l.64-68, 82-94):
  the apply, attach or deploy goes on and succeeds, and nginx forwards to what it cannot reach until
  another caller connects it (`cut`).
* **Network groups.** Two overlapping syncs of one project, one with the membership from before a
  change, can leave its container on both groups' networks while both report success; the comment
  at `groupNetworks.ts` l.74-75 says every other container is on no group network. A delete that
  is refused because a TCP proxy cannot be removed has already taken the containers off the
  network, and a project whose leave was cut by a restart is not among those the boot reconciles
  (`networkGroups.ts` l.39); both last until the next deploy (`upset`).
* **Action feed.** A view mounted again on the same action while a live chunk is under way drops
  the replay it gets (`useActionOutput.ts` l.48; `remounted`); two views of one action share one
  room without a count. A reset reads the log file behind its write stream (`skipped`). An answer
  of GET /actions/running that a reconnection has overtaken brings ended actions back (`late`),
  and a failed REST call is swallowed (`unsynced`).
* **Self-update.** `set -e` is off inside `if ! create_update_backup`, so a failed `docker cp` or
  `rm` there goes unnoticed (`stackport.sh` l.601-602, 739), although `Stackport.md` l.109 says
  the update stops. It is off in `restore_update_backup ... || true` too (l.805): after a failed cp
  of the snapshot (l.778) the WAL is removed (l.779) and the app started (l.781) on what is left, and
  after a stop that failed (l.777) the file is replaced under a running app (`restore`). After an
  automatic rollback `state.env` and the kept image name the version
  that failed, so `stackport rollback` installs it again (l.809-811; `Stackport.md` l.110). A cut
  VACUUM leaves `.backup-tmp.sqlite`, on which every later update aborts. Repair starts containers
  missing from `docker ps`, not unhealthy ones (`Stackport.md` l.112), and the backup needs a
  running app. A death between checkout and swap makes the next update say "already up to date".
  Nothing keeps two scripts apart.
* **GitHub hooks.** Clearing the repository keeps the trigger "webhook" without a URL, and setting
  one again installs no hook (`githubWebhooks.ts` l.266; `cleared`). A move drops the warning of
  `disableWebhook` (l.268; the comment is at l.262) and writes the trigger it read before its
  awaits (l.269). Overlapping requests orphan hooks (l.157, l.190; `overlapped`); a lost answer to
  a create makes GitHub refuse every reinstall (`failed`).
* **Mounts.** `listSources` (`cleanupMounts.ts` l.137) lists what was copied, not what was
  switched: after a run in which one mount was copied and another failed, the cleanup deletes the
  copied mount's original while deploys still use the originals, although the comment at l.8-9
  says "once the project runs from its managed copy". The next deploy starts on an empty
  directory, and the migration then asks to clear the managed copy, the only data left (`early`).
* **Automatic deploys.** `updateProject` resets the baseline when the branch changes but leaves
  the queue alone: a commit queued before the branch was changed and changed back is deployed
  after a newer one that a poll meanwhile took as the baseline. `PollingMovesForward` therefore
  speaks of deploys only, not of baselines. A commit is recorded when its deploy starts: if a crash
  cuts that deploy short, no poll takes the commit for new, and it stays undeployed until the next
  push or an operator's deploy.
* **History.** An explicit rollback to a revision that an earlier rollback had left unmarks none of
  its older rows. With a limit of at least three and three revisions, pruning may then drop the
  target the whole history would offer and leave an older one in its place (`returned`). The run's
  limit of two is too small for it; it was found by the proof.
* **Uploads.** A crash between the two renames (`upload.ts` l.110) leaves no live directory, only
  its `.bak`; nothing at boot repairs it.

## 4. Fairness

* `RegistrySpec`: a child exits and a tail returns (weak): `run()` kills its child after a
  timeout. A runner that can return again and again does (strong): it spawns finitely many
  children. Nothing is assumed of cancellations or restarts.
* `AutoSpec`: `setImmediate` callbacks run, the poll timer fires, a fetched poll is applied and
  runners end (weak); a fetch succeeds if it is tried again and again (strong: GitHub does not
  fail for ever, and `PollFail` may happen any finite number of times in a row). Webhook
  deliveries are not fair: they may all be lost. `TipIsTaken` therefore holds thanks to the
  poller and the webhook safety check, which is on by default.
* `PushSpec`: time passes (`Expire`), a request times out or is answered (`Complete`,
  `Suspend`), a stopped process boots again and a running worker polls. No fairness of the push
  service is assumed, nor that the identity is ever repaired.
* `UpdateSpec`: the commands of a script end (the script does not bound them, so a docker that
  hangs for ever is outside the claim), and the timer of `startSelfUpdateNotifications` fires
  (every 15 s). `OutcomeIsTold` needs both.
* `IngressSpec`: flows go on, since every command has a timeout. No property of the run
  depends on it: all are safety properties.
* History, ProjectDeploy, ActionFeed, GithubHook, MountMigration and GroupNetworks have safety
  properties only.

## 5. Proofs

`tlapm <module>.tla` for each of the eight modules below; the longest, IngressProofs and
PartsProofs, take several minutes. Each first proves `Init => Inv` and
`Inv /\ [Next]_vars => Inv'` with one lemma or step per action, then its theorems. The assumptions are those of the modules (sets of nodes and
records are sets, bounds are naturals, the null values are outside the sets they stand beside);
where more is assumed it is said below.

**DeploymentHistoryProofs**, from `HistoryAssumption`: `HistoryTypeCorrect`, `OneActive`,
`BoundedHistory`, `FailureTheorem`. `AtMostOneActive` is not inductive alone: `HistoryInv`
says of the table that its rows are well-formed and their ids in `1..lastId`, so finitely many
(`IsTable`) and one active row, not rolled back from (`IsSingle`); a new id is therefore not in
use. That the table is finite matters because `Max` over its ids, which both `ActiveId` and
`DefaultTarget` are, exists only then: `MaxOfBounded` derives it from the well-ordering of the
naturals (`LeastNatural`), and `NewestOfSubset` says when a smaller set has the same newest
element, which is how pruning leaves the target alone. `BoundedHistory` counts: the newest rows
are at most the retention limit (`NewestFew`), the active row and the target add two
(`PruneBounded`). `FailureTheorem` is an action property: inserting a failed row
(`FailedRow`) and then pruning (`RejectedKeepsFallback`) changes neither the active row nor the
default target.

**IngressProofs**, from `IngressAssumption` and `TcpAssumption` (there are finitely many public
ports), proves every property of run MCIngress for any number of projects, domains, targets,
ports, flows, jobs, changes and faults. It has four inductive invariants, each with one lemma per
step.

* `SoundInv`, for `FilesAreSound`: every flow's backup holds no snippet nginx rejects, and neither
  does the configuration of a flow between validation and activation (`GoodFlow`): a flow that
  fails puts its backup back, and its file may be overwritten by another's at any time.
* `RouteInv`, for `Serving`, `FileIsLive` and `Certificates`. `solo` in a flow's record says that
  no other apply overlapped its own, and `SoloAlone` that no other is in one. While nothing is in
  doubt there is one apply at most (`OneApply`), so its backup is what nginx runs and the file is
  that or what it wrote (`DiskInv`); what it loaded, the routes it read and what it rendered are
  what the rows say now, or a flow is yet to load (`ServeInv`, by `Fresh` and `Coming`); and an
  HTTPS block without its certificate is of a deletion whose apply is still to come (`CertInv`, by
  `Waits`). Most actions are `Around` an apply: they change rows or certificates and leave a flow
  that will load them, or a doubt, behind; `AroundInv` proves the invariant for all of them.
* `TcpInv`, for `ProxiesFollow`. Outside the contended ports, a job that starts or removes an
  exposure is at the row it thinks it is at (`Agrees`), and a row without its container and
  without an error has a job that will see to it (`Serves`, in `PortInv`). A job that starts a
  port and one that takes it away are never at it together, or the port is contended (`Apart`).
* `NetInv`, for `Upstreams`, together with the other two. `NetAt` says of each project that what is
  routed to it is on its network, under its alias, with nginx joined unless the project is in `cut`,
  and is in what a deploy in progress will attach; or a flow or a job is about to attach it
  (`Pending`); or it is one of the   recorded crossings. A change of a route is followed by a flow at `network`, a new exposure by a
  job at `attach`; the other steps bring no new target (`NoNewTarget`) and keep who waits
  (`FlowsWait`, `JobsWait`). The proof needs neither that a deploy is over nor that no apply
  failed, so the property does not ask for it.

**ProjectDeployProofs**: `DeployKeepsHistory` is a refinement, `DeploySpec => HistorySpec`: every
insert, mark and prune of an operation is an action of DeploymentHistory, so its theorems hold in
use (`HistoryInUse`). `DeployInv` adds to what the table says (`HistoryInv`) the shape of `op` at
each step (`Shape`), that the row a rollback goes to is still there and restorable (`Taken`,
`OnTarget`), and what has been brought up but not recorded yet (`Upped`, `Probed`): only these make
`HistoryIsRunning` and `SnapshotIsRunning` survive the steps between `up` and the row. An action
property, `RecoveryReported`, also needs `Replaced` (the row that failed its check is still in the
table and marked), and `RetentionLimit > 1`: with a limit of one the row a rollback replaced is
pruned by the one that replaces it. The code keeps 20.

**AutoDeployProofs**, first about ActionRegistry, from `RegistryAssumption`: `RegistryTypeCorrect`,
`RowsFollow`, `BusySlotsHaveRunners`, `OutcomesAreFinal`. The invariant is strengthened by
`RunnersHaveKeys` (the record of a runner that is not gone has a slot) and `HeldByOwnSlot` (the
record a slot holds names that slot): without them a finish by key could touch a record held by
another slot. The proof also makes the flaw of run MCRegistryOverlap precise: finish by key keeps
rows, slots and outcomes consistent; it is the exclusion of runners alone that fails.
Then about AutoDeploy: `AutoUsesRegistry` (`AutoSpec => RegistryInit /\ [][RegistryNext]_registryVars`)
carries the registry's invariant over; `AutoInv` adds types, `MarkerMatchesQueue`,
`QueueIsWatched` and `InOrder`, which orders the commits of a branch along their way: what a poll
read, what is queued, what runs, what is recorded. `PollingGoesForward` needs all of `InOrder`.
It was restated for the proof: an earlier form, about baselines, held only by the bound of the run.

**PushOutboxProofs**: `PushInv` ties a delivery's row to its call and its counters: an event that
is not in the table has no deliveries (`Unknown`), every request was counted before it was made
(`Counted`), the row of a call in flight is leased or settled (`InFlight`), and an accepted request
is about to be recorded or was (`Answered`). `SubmissionsBounded` follows from `Counted`;
`PromiseKept` shows for each action that `Fate` makes it a step of PushPromise or a stutter. The
promise's liveness, `DeliveriesSettle`, stays with TLC.

**SelfUpdateProofs**: `UpdateInv` has a clause for every command of an update (`Updating`) and of a
rollback (`RollingBack`), and for the two places a script begins at: at rest (`Level`) and where a
rollback does (`Beginning`). They carry two facts from command to command. One is which of the
checkout, the tags, the container and state.env name the old release already and which the new one.
The other is that there is a way back: the database is `Usable` by the release the rollback goes to,
or that release is the older of the two and the snapshot of the update between them is (`Paired`,
which an operator's rollback turns round: it holds of both orders). So a rollback that finds no
snapshot needs none, and one that finds one restores a database its release runs on; only then is
`Recheck` sure to succeed. The clauses are asked only while nothing happened that breaks the promise
(`Sane`: no script died past its point of change, no swap broke, no copy to the host and no command of
a restore failed, and no rollback went back to a release that had been rolled back from).

**PartsProofs** has the modules of MCParts, which share no state. *GithubHook*: `HookInv` says what
each call is for while it waits (`Purposes`), that ids are not reused (`HookIds`), and, of a call
that is the only one, which hook it is about to create, keep or delete (`LoneCall`); `TriggerHasUrl`
is inductive with `Purposes`. *MountMigration*: `MountInv` says what holds before the switch
(`BeforeSwitch`: an original with data is not deleted), when an original may be removed
(`Removable`), in which directory the newest data is while nothing went wrong (`InPlace`), and
that the mounts the migration is done with were copied (`CopiedSoFar`). *HistoryAudit*: a simulation
between the pruned table and the full one. `Beside` says that the full table has every row of
`rows` and the same active row, and that each row dropped lies deeper than the retention limit;
`Gap` that of the rows older than a dropped one only the fallback is left; `Covered`, while no
rollback returned, that a row dropped although newer than the fallback is of the revision that
runs, so that no rollback would choose it; `Visible`, before any rollback, that the targets agree.
*GroupNetworks*: `GroupInv` is `GroupsFollowRows` with the local state of every sync
(`Shaped`, one clause per position), `AloneOK` and `Watched`. `AloneOK` is the heart: of a sync that
works alone, the containers it is done with are where it wants them, the one it is at is on what
it has not left yet of what it saw, and the others are as it saw them; so that its end makes its
project follow its row. `Watched` says of each network without a container that a sync is yet to
list the networks, or to inspect or remove this one: two syncs that leave at once never leave a
network to one another. A step of one sync changes neither for the others (`LocalStep`,
`WatchStep`), which leaves one lemma per command.

**ActionFeedProofs**, from `FeedAssumption`: `FeedHolds`, and from it `TrackerAlwaysSettles` and
`OutputAlwaysFaithful`. Neither property says anything before all is quiet, so `FeedInv` says what
is under way. `TrackerInv`: a running action is shown, or its note is on the wire, or the resync of
this connection has yet to read or has read it (`Heard`); an ended one that the page still shows or
waits for has its note on the wire, a GET under way, or is missing from what the resync read
(`Told`); a note is true, and a "started" of an ended action has its "finished" behind it
(`NotesTrue`). `OutputInv`: a message has chunks its action had (`Sound`); the messages of an
action come in the order of where they bring the view (`InOrder`) and, after a reset, without a gap
(`NoGaps`); each continues what is shown or a message before it (`Continues`); and one of them
brings the view where its action is and another, or a note, tells it of the end (`Ends`). `InOrder`
carries the proof of `Receive`: when the last message that was to bring the view there is taken, one
behind it does, or the view is there. A replay of an action that is no longer in memory ends its
output (`Closing`): it sets nextSeq back to 0 below what is shown, which does no harm only because
no chunk can follow.

Model-checked only: what needs fairness (`SlotIsReleased`, `TipIsTaken`, `DeliveriesSettle`,
`OutcomeIsTold`), which TLAPS does not prove.

## 6. Not modelled

* Time: intervals, back-off, leases and lifetimes are "may happen at any later time".
* Failing database writes: `persist()` in the registry swallows them.
* `snapshotDeployedCompose` swallows a failed copy; in the model the copy succeeds.
* A kill between synchronous writes that no await separates, such as the two of `enableWebhook`
  (`githubWebhooks.ts` l.143, l.146), which are one step: `GithubHook` crashes at the awaits.
* Uploaded projects; dropping one service's volumes (a stop also stands for stop-and-purge); the
  rewriting and checking of the Compose file, whose refusals are failures of `up` or `build`.
* Containers that docker starts again on its own with the group networks they had when stopped;
  the helper container of a mount copy that outlives the restart of the app.
* The single-flight cache: no modelled decision reads a cached value; its flaw is a hazard.
* The nginx template editor, the trusted-proxy address, parsing of certbot's answers.
* An install of Stackport (SelfUpdate starts at its end), its rerun and uninstall, and two
  scripts at once.
* The stdio MCP process running operations beside the server (only its pause, in AutoDeploy), the
  confirmations of MCP tools, and the preview that runs git outside its slot (a hazard).
* The `deploy_blocked` alert, written in the transaction of its failed row.
* Two processes with a health checker: only the server has one.
* Retention of deliveries, logs and action rows (30 days or more), except `Cleanup`.
* The components marked `not_modelled` in `PROJECT.json`, with the reason there.

The map covers about an eighth of the implementation. Nearly half of the rest is the React
client's pages and forms; what remains of the server is CRUD routes, text generation (nginx,
Compose, e-mail), parsing and byte streams, which keep no state across an `await` and are
better tested than model-checked.

## 7. Plan

Done: the modules of section 2, the runs of section 3 and the proofs of section 5. Next:

1. **Uploads** in ProjectDeploy: the two renames, the crash between them, and the Compose file
   that is recorded after them.
2. **SingleFlightCache** with its users in `integrations/docker/statusCache.ts`: a value read
   after an invalidation was fetched after it.
3. Compose policy and nginx generation as pure operators, checked against a reference.
