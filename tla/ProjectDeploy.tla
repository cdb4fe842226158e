--------------------------- MODULE ProjectDeploy ---------------------------
(***************************************************************************)
(* What one project's operations do to its checkout, its images, its       *)
(* containers and its deployment history                                   *)
(* (src/src/modules/deployments/operations.ts).                            *)
(*                                                                         *)
(* One operation runs at a time: the project's slot in the action          *)
(* registry (ActionRegistry) sees to that.  An operation is a sequence of  *)
(* steps, cut where the code awaits a child process or the file system;    *)
(* between two steps the project can be paused or its settings changed,    *)
(* and the server can crash.  Nothing is repaired at boot.                 *)
(*                                                                         *)
(* A revision is a commit with its Compose file.  Docker and git are       *)
(* external: a step of theirs succeeds or fails, and a failure leaves what *)
(* it had already done.                                                    *)
(***************************************************************************)
EXTENDS DeploymentHistory

CONSTANTS NoRevision,   \* nothing checked out, built, running or copied yet
          Mixed,        \* parts of several revisions
          Broken        \* revisions without the project's Compose file

ASSUME DeployAssumption ==
  /\ Broken \subseteq Revisions
  /\ NoRevision \notin Revisions /\ Mixed \notin Revisions /\ NoRevision # Mixed

VARIABLES head,      \* the commit checked out
          images,    \* the revision all its services' images were built from
          running,   \* the revision its containers are from
          snapshot,  \* .stackport-deployed-compose.snapshot
          paused,    \* projects.paused
          policy,    \* health check: "none", "verify", or "rollback" (auto_rollback_unhealthy)
          op,        \* the operation in flight, or AtRest
          alerts,    \* notifications enqueued for it, or for the last one
          drift      \* history variable: what has happened to the containers that the
                     \* history does not tell, since the last recorded up

dockerVars == <<head, images, running, snapshot>>
deployVars == <<historyVars, dockerVars, paused, policy, op, alerts, drift>>

Operation ==
  {"deploy", "build", "pull", "compose", "recreate", "restart", "service", "force", "stop", "rollback"}

Idle == op.step = "idle"

AtRest == [kind |-> "none", step |-> "idle",
           rev |-> NoRevision,  \* the revision being rolled back to
           auto |-> FALSE,      \* autoRollbackUnhealthy, as read when it started
           nested |-> FALSE,    \* inside an automatic rollback
           since |-> 0]         \* lastId when it started

Goto(step) == op' = [op EXCEPT !.step = step]

\* An automatic rollback runs inside the operation whose health check failed
Kind == IF op.nested THEN "rollback" ELSE op.kind

MutEndAlerts(ok) == IF op.nested THEN {"rollback_recovered"} ELSE {}

\* and reports its outcome to it
EndAlerts(ok) ==
  IF ~op.nested THEN {} ELSE IF ok THEN {"rollback_recovered"} ELSE {"rollback_failed"}

\* The operation returns, adding the given alerts to those of its end
End(ok, more) == op' = AtRest /\ alerts' = alerts \cup more \cup EndAlerts(ok)

\* Some of one revision with some of another
Together(r, s) == IF r = s THEN r ELSE Mixed

-----------------------------------------------------------------------------
(* Starting an operation *)

ActiveRevision == IF ActiveId(rows) = NoRow THEN NoRevision ELSE rows[ActiveId(rows)].rev

\* restartBlocker finds nothing against it
Restartable == ActiveRevision \in Unrestorable \cup {NoRevision, head}

NeedsCheckout == {"compose", "recreate", "restart", "service", "force"}

FirstStep(kind) ==
  CASE kind \in {"deploy", "build", "pull"} -> "pull"
    [] kind = "rollback" -> "checkout"
    [] kind = "stop" -> "down"
    [] OTHER -> "prepare"

\* A project without a health check may have auto_rollback_unhealthy on; a check added
\* while the operation runs then finds it so
AutoRead == IF policy = "none" THEN BOOLEAN ELSE {policy = "rollback"}

Begin(kind, rev) ==
  /\ Idle
  /\ \E auto \in AutoRead :
       /\ lastId + (IF auto /\ kind # "rollback" THEN 2 ELSE 1) <= MaxRows
       /\ op' = [kind |-> kind, step |-> FirstStep(kind), rev |-> rev,
                 auto |-> auto, nested |-> FALSE, since |-> lastId]
  /\ alerts' = {}
  /\ UNCHANGED <<historyVars, dockerVars, paused, policy, drift>>

\* Any operation but a rollback; only a stop is let through on a paused project
Start(kind) ==
  /\ kind # "rollback"
  /\ kind = "stop" \/ ~paused
  /\ kind \in NeedsCheckout => head # NoRevision
  /\ kind = "restart" => Restartable
  /\ Begin(kind, NoRevision)

\* rollbackProject, to the default target or to one picked by id
StartRollback(i) == ~paused /\ Begin("rollback", rows[i].rev)

-----------------------------------------------------------------------------
(* The checkout *)

\* ensureRepo fails: reset, fetch, rev-parse, pinned commit not on the branch, checkout; a
\* fresh clone or a checkout that was cut short has moved the head by then
PullFails ==
  /\ op.step = "pull"
  /\ head' \in Revisions \cup {head}
  /\ End(FALSE, {})
  /\ UNCHANGED <<historyVars, images, running, snapshot, paused, policy, drift>>

\* ensureRepo checks out r, whatever the branches hold by now, and syncAfterPull accepts it
Pull(r) ==
  /\ op.step = "pull" /\ r \notin Broken
  /\ head' = r
  /\ IF op.kind = "pull" THEN End(TRUE, {}) ELSE Goto("prepare") /\ UNCHANGED alerts
  /\ UNCHANGED <<historyVars, images, running, snapshot, paused, policy, drift>>

\* The Compose file is gone: the attempt is recorded as blocked, a pull's too
PullBlocked(r) ==
  /\ op.step = "pull" /\ r \in Broken
  /\ head' = r
  /\ RecordFailed(r)
  /\ End(FALSE, {})
  /\ UNCHANGED <<images, running, snapshot, paused, policy, drift>>

\* The target's commit, with its stored Compose text written over the file's
Checkout ==
  /\ op.step = "checkout"
  /\ head' = op.rev
  /\ Goto("up")
  /\ UNCHANGED <<historyVars, images, running, snapshot, paused, policy, alerts, drift>>

\* git refuses, or the text cannot be written
CheckoutFails ==
  /\ op.step = "checkout"
  /\ head' \in {head, op.rev}
  /\ End(FALSE, {})
  /\ UNCHANGED <<historyVars, images, running, snapshot, paused, policy, drift>>

-----------------------------------------------------------------------------
(* Before docker compose *)

\* writeEnvFiles throws, or the service is not in the Compose file
PrepareFails ==
  /\ op.step = "prepare"
  /\ End(FALSE, {})
  /\ UNCHANGED <<historyVars, dockerVars, paused, policy, drift>>

\* ensureBuildCapacity refuses: a failed row, except from a force rebuild
NoCapacity ==
  /\ op.step = "prepare" /\ op.kind # "service"
  /\ IF op.kind = "force" THEN UNCHANGED historyVars ELSE RecordFailed(head)
  /\ End(FALSE, {})
  /\ UNCHANGED <<dockerVars, paused, policy, drift>>

Prepared ==
  /\ op.step = "prepare"
  /\ op.kind = "service" => head \notin Broken
  /\ Goto(IF op.kind \in {"build", "force"} THEN "build" ELSE "up")
  /\ UNCHANGED <<historyVars, dockerVars, paused, policy, alerts, drift>>

-----------------------------------------------------------------------------
(* docker compose build, up and down (runCompose): what each does to the host *)

BuildDone == head \notin Broken /\ images' = head

\* With the images of some services rebuilt; a set that lacks some still lacks some
PartlyBuilt == IF images = NoRevision THEN NoRevision ELSE Together(images, head)

BuildStops == images' \in {images, IF head \in Broken THEN images ELSE PartlyBuilt}

\* `--no-build` and the `up` of a force rebuild take the images there are; a single
\* service's `up` builds only its own
ImagesUsed ==
  CASE Kind \in {"restart", "force"} -> images
    [] Kind = "service" -> PartlyBuilt
    [] OTHER -> head

Started == IF Kind = "service" THEN Together(running, head) ELSE Together(ImagesUsed, head)

\* Drift: a rebuild leaves no row, a restart takes the images on trust; "unfinished" goes
\* with the snapshot and the row
UpDrift ==
  CASE Kind = "service" -> drift \cup {"changed"}
    [] Kind \in {"restart", "force"} -> {Kind, "unfinished"}
    [] OTHER -> {"unfinished"}

UpDone ==
  /\ head \notin Broken
  /\ Kind = "restart" => images # NoRevision
  /\ images' = ImagesUsed /\ running' = Started /\ drift' = UpDrift

\* It may stop before, while or after building, and with some of the containers started
UpStops ==
  /\ \/ BuildStops /\ Kind # "restart"
     \/ images' = images
     \/ images' = ImagesUsed /\ head \notin Broken
  /\ \/ running' = running
     \/ running' = Together(running, Started) /\ head \notin Broken
  /\ drift' = IF running' = running THEN drift ELSE drift \cup {"changed"}

\* With the snapshot's Compose file, or the checkout's if there is none yet
DownDone == running' = NoRevision /\ drift' = drift \cup {"changed"}

-----------------------------------------------------------------------------
(* and the steps around it *)

Build ==
  /\ op.step = "build"
  /\ BuildDone
  /\ IF op.kind = "force" THEN Goto("up") /\ UNCHANGED alerts ELSE End(TRUE, {})
  /\ UNCHANGED <<historyVars, head, running, snapshot, paused, policy, drift>>

BuildFails ==
  /\ op.step = "build"
  /\ BuildStops
  /\ End(FALSE, {})
  /\ UNCHANGED <<historyVars, head, running, snapshot, paused, policy, drift>>

\* A single service's `up` copies no Compose file and records nothing
Up ==
  /\ op.step = "up"
  /\ UpDone
  /\ IF Kind = "service" THEN End(TRUE, {}) ELSE Goto("snapshot") /\ UNCHANGED alerts
  /\ UNCHANGED <<historyVars, head, snapshot, paused, policy>>

UpFails ==
  /\ op.step = "up"
  /\ UpStops
  /\ IF Kind \in {"service", "force"} THEN UNCHANGED historyVars ELSE RecordFailed(head)
  /\ End(FALSE, {})
  /\ UNCHANGED <<head, snapshot, paused, policy>>

Down ==
  /\ op.step = "down"
  /\ \/ DownDone /\ End(TRUE, {})
     \/ UNCHANGED <<running, drift>> /\ End(FALSE, {})
  /\ UNCHANGED <<historyVars, head, images, snapshot, paused, policy>>

MutSnapshot ==
  /\ op.step = "snapshot"
  /\ snapshot' = IF Kind = "force" THEN snapshot ELSE head
  /\ IF Kind = "force" THEN End(TRUE, {}) /\ drift' = drift \ {"unfinished"}
                       ELSE Goto("record") /\ UNCHANGED <<alerts, drift>>
  /\ UNCHANGED <<historyVars, head, images, running, paused, policy>>

\* snapshotDeployedCompose; a force rebuild ends with it, without a row
Snapshot ==
  /\ op.step = "snapshot"
  /\ snapshot' = head
  /\ IF Kind = "force" THEN End(TRUE, {}) /\ drift' = drift \ {"unfinished"}
                       ELSE Goto("record") /\ UNCHANGED <<alerts, drift>>
  /\ UNCHANGED <<historyVars, head, images, running, paused, policy>>

-----------------------------------------------------------------------------
(* The row and the health check *)

MutRecord ==
  /\ op.step = "record"
  /\ TakeId
  /\ rows' = IF op.nested THEN Rejected(rows, lastId + 1, head)
                          ELSE Recorded(rows, lastId + 1, head, Kind = "rollback")
  /\ drift' = drift \ {"unfinished"}
  /\ IF policy # "none" /\ ~paused THEN Goto("probe") /\ UNCHANGED alerts ELSE End(TRUE, {})
  /\ UNCHANGED <<dockerVars, paused, policy>>

\* recordSuccessfulDeployment, and in the same turn gateOnHealth's decision to probe
Record ==
  /\ op.step = "record"
  /\ TakeId
  /\ rows' = Recorded(rows, lastId + 1, head, Kind = "rollback")
  /\ drift' = drift \ {"unfinished"}
  /\ IF policy # "none" /\ ~paused THEN Goto("probe") /\ UNCHANGED alerts ELSE End(TRUE, {})
  /\ UNCHANGED <<dockerVars, paused, policy>>

Healthy ==
  /\ op.step = "probe"
  /\ End(TRUE, {})
  /\ UNCHANGED <<historyVars, dockerVars, paused, policy, drift>>

MutRollsBack == op.auto

\* A rollback's own check is never followed by another rollback
RollsBack == op.auto /\ Kind # "rollback"

CanRestore == ~paused /\ DefaultTarget(rows) # NoRow

\* The grace period is over: the row is marked and, with the setting on, rolled back from
Unhealthily ==
  /\ op.step = "probe"
  /\ MarkUnhealthy
  /\ \/ ~RollsBack /\ End(FALSE, {"unhealthy"})
     \/ RollsBack /\ ~CanRestore /\ End(FALSE, {"unhealthy", "rollback_failed"})
     \/ /\ RollsBack /\ CanRestore
        /\ op' = [op EXCEPT !.step = "checkout", !.nested = TRUE,
                            !.rev = rows[DefaultTarget(rows)].rev]
        /\ alerts' = alerts \cup {"unhealthy"}
  /\ UNCHANGED <<dockerVars, paused, policy, drift>>

-----------------------------------------------------------------------------
(* Between the steps *)

SetPaused ==
  /\ paused' = ~paused
  /\ UNCHANGED <<historyVars, dockerVars, policy, op, alerts, drift>>

\* The project's health check is set up, dropped, or told to roll back
SetPolicy(p) ==
  /\ policy' = p
  /\ UNCHANGED <<historyVars, dockerVars, paused, op, alerts, drift>>

\* The server goes down; git and Docker may finish the step they were given
Crash ==
  /\ ~Idle
  /\ CASE op.step = "pull" ->
            (\E r \in Revisions \cup {head} : head' = r) /\ UNCHANGED <<images, running, drift>>
       [] op.step = "checkout" -> head' \in {head, op.rev} /\ UNCHANGED <<images, running, drift>>
       [] op.step = "build" -> (BuildDone \/ BuildStops) /\ UNCHANGED <<head, running, drift>>
       [] op.step = "up" -> (UpDone \/ UpStops) /\ UNCHANGED head
       [] op.step = "down" -> (DownDone \/ UNCHANGED <<running, drift>>) /\ UNCHANGED <<head, images>>
       [] OTHER -> UNCHANGED <<head, images, running, drift>>
  /\ op' = AtRest
  /\ UNCHANGED <<historyVars, snapshot, paused, policy, alerts>>

-----------------------------------------------------------------------------
DeployInit ==
  /\ HistoryInit
  /\ head = NoRevision /\ images = NoRevision /\ running = NoRevision /\ snapshot = NoRevision
  /\ paused = FALSE
  /\ policy \in {"none", "verify", "rollback"}
  /\ op = AtRest
  /\ alerts = {}
  /\ drift = {}

DeployNext ==
  \/ \E kind \in Operation : Start(kind)
  \/ \E i \in ExplicitTargets(rows) : StartRollback(i)
  \/ \E r \in Revisions : Pull(r) \/ PullBlocked(r)
  \/ PullFails \/ Checkout \/ CheckoutFails
  \/ PrepareFails \/ NoCapacity \/ Prepared
  \/ Build \/ BuildFails \/ Up \/ UpFails \/ Down \/ Snapshot
  \/ Record \/ Healthy \/ Unhealthily
  \/ SetPaused \/ \E p \in {"none", "verify", "rollback"} \ {policy} : SetPolicy(p)
  \/ Crash

DeploySpec == DeployInit /\ [][DeployNext]_deployVars

-----------------------------------------------------------------------------
(* Stackport.md l.62, "the exact bytes that actually ran": the active row is the revision
   whose containers run, unless the containers were since changed by something that records
   nothing, by an `up` that failed or was cut short, or by a restart.  This holds through
   pulls, builds, blocked deploys, failed rollbacks, pauses and crashes. *)
HistoryIsRunning == drift = {} => running = ActiveRevision

(* The comment of snapshotDeployedCompose (operations.ts l.652-660): the Compose file a stop
   works from is the one of the running containers; after a force rebuild too. *)
SnapshotIsRunning == drift \subseteq {"force"} => snapshot = running

(* Stackport.md l.246, "a rollback that fails its own check never triggers another": an
   automatic rollback is the only one of its operation, and is never part of a rollback. *)
OneRollback ==
  op.nested => /\ op.kind # "rollback"
               /\ lastId - op.since = IF op.step = "probe" THEN 2 ELSE 1

(* When an operation that failed its health check returns after an automatic rollback, it
   tells one outcome of that rollback; and it says recovered only if the active row is a
   healthy one, of the revision that runs, and the row it replaced is marked both unhealthy
   and rolled back from. *)
RecoveryIsTrue ==
  [][op.nested /\ Idle' /\ ~Crash =>
       \/ alerts' = {"unhealthy", "rollback_failed"}
       \/ /\ alerts' = {"unhealthy", "rollback_recovered"}
          /\ ~rows'[ActiveId(rows')].unhealthy
          /\ running' = ActiveRevision'
          /\ \E i \in DOMAIN rows' : i > op.since /\ rows'[i].unhealthy /\ rows'[i].rolledBack]_deployVars

(* The comment of restartProject (operations.ts l.1280), "from the images already built for
   the running revision": a restart of a project that runs its active revision starts that
   revision again. *)
RestartKeepsRevision ==
  [][/\ op.kind = "restart" /\ op.step = "up" /\ op'.step = "snapshot"
     /\ running = ActiveRevision /\ running \in Revisions
     => running' = running]_deployVars

=============================================================================
