----------------------------- MODULE AutoDeploy -----------------------------
(***************************************************************************)
(* Automatic deploys of one GitHub project: the poller and the webhook     *)
(* handler find commits, requestAutoDeploy starts one or queues it behind  *)
(* the action that holds the project's slot, and the slot's finish wakes   *)
(* the queue up (src/src/modules/automation).  Composed with the slot of   *)
(* ActionRegistry.                                                         *)
(*                                                                         *)
(* A commit is a branch and its position on it: a push moves the tip by    *)
(* one.  Time is left out: a poll may start whenever none is running, and  *)
(* of a webhook project whenever the safety check may be due.  A webhook   *)
(* delivery of any pushed commit arrives at any time, any number of times, *)
(* in any order, or never.                                                 *)
(***************************************************************************)
EXTENDS ActionRegistry

CONSTANTS Slot,        \* projectRepoKey of the project
          Branches, InitialBranch,
          NoCommit,
          MaxOps       \* bound: pushes, operator requests and restarts in a behaviour

ASSUME AutoAssumption ==
  /\ Slot \in RepoKeys
  /\ InitialBranch \in Branches
  /\ MaxOps \in Nat

VARIABLES head,      \* GitHub: the tip of each branch
          project,   \* the project's row: what the operator set
          lastSha,   \* last_commit_sha
          marker,    \* pending_deploy_sha
          hook,      \* hook_status
          handled,   \* hook_deliveries: the deliveries recorded
          pending,   \* the `pending` map of autoDeploy.ts
          wake,      \* a setImmediate callback holds the object that is in `pending` now
          poll,      \* the poll in flight
          meta,      \* record.meta.commitSha of the automatic deploys
          ops        \* counts towards MaxOps

projectVars == <<head, project, hook, handled, poll, ops>>
queueVars == <<lastSha, marker, pending, wake, meta>>
autoVars == <<registryVars, projectVars, queueVars>>

Triggers == {"poller", "webhook", "manual"}
Commits == Branches \X (1..(MaxOps + 1))
Tip(b) == <<b, head[b]>>

\* The row selectProjectsToPoll read, as rowToProject gives it, and what fetchBranchList answered
IdlePoll == [phase |-> "idle", last |-> NoCommit, marker |-> NoCommit, seen |-> NoCommit,
             trigger |-> "manual", branch |-> InitialBranch]

AutoInit ==
  /\ RegistryInit
  /\ head = [b \in Branches |-> 1]
  /\ \E t \in {"poller", "webhook"} :
       /\ project = [branch |-> InitialBranch, paused |-> FALSE, trigger |-> t]
       /\ hook = IF t = "webhook" THEN "waiting" ELSE "none"
  /\ lastSha = NoCommit /\ marker = NoCommit /\ handled = {}
  /\ pending = NoCommit /\ wake = FALSE
  /\ poll = IdlePoll
  /\ meta = [i \in Ids |-> NoCommit]
  /\ ops = 0

Operate == ops < MaxOps /\ ops' = ops + 1

-----------------------------------------------------------------------------
(* The queue: autoDeploy.ts *)

MutStart(c) ==
  \E i \in Ids :
    /\ TryStart(Slot, i)
    /\ lastSha' = c /\ marker' = NoCommit
    /\ meta' = [meta EXCEPT ![i] = c]
    /\ UNCHANGED <<pending, wake>>

\* requestAutoDeploy when tryStart gives the slot: pending.delete, then recordCommit
Start(c) ==
  \E i \in Ids :
    /\ TryStart(Slot, i)
    /\ lastSha' = c /\ marker' = NoCommit
    /\ meta' = [meta EXCEPT ![i] = c]
    /\ pending' = NoCommit /\ wake' = FALSE

MutQueueRecords(c) ==
  /\ IsRunning(Slot)
  /\ pending' = c /\ marker' = c /\ wake' = FALSE /\ lastSha' = c
  /\ UNCHANGED <<registryVars, meta>>

\* ... and when the slot is busy: a new object in `pending`, which no callback holds
Queue(c) ==
  /\ IsRunning(Slot)
  /\ pending' = c /\ marker' = c /\ wake' = FALSE
  /\ UNCHANGED <<registryVars, lastSha, meta>>

RequestAutoDeploy(c) == Start(c) \/ Queue(c)

\* clearPendingAutoDeploy
ClearPending == pending' = NoCommit /\ marker' = (IF pending = NoCommit THEN marker ELSE NoCommit)
                /\ wake' = FALSE

MutOnFinish == wake' = wake

\* The finish listener: finish only calls it for a record that was running
OnFinish == wake' = (wake \/ (IsRunning(Slot) /\ pending # NoCommit))

\* The setImmediate callback, while the object it holds is the one in `pending`
Wake ==
  /\ wake
  /\ IF project.paused \/ project.trigger = "manual"
       THEN ClearPending /\ UNCHANGED <<registryVars, lastSha, meta>>
       ELSE RequestAutoDeploy(pending)
  /\ UNCHANGED projectVars

-----------------------------------------------------------------------------
(* The slot: every action of the project, automatic or not *)

\* Any other action of the project: deploy, build, stop, rollback, ... asked for by the operator
OtherAction ==
  /\ Operate
  /\ \E i \in Ids : TryStart(Slot, i) /\ meta' = [meta EXCEPT ![i] = NoCommit]
  /\ UNCHANGED <<head, project, hook, handled, poll, lastSha, marker, pending, wake>>

\* A runner ends or emits "done"; whether it succeeded, and what becomes of its children,
\* nothing here reads
RunnerEnds(i) ==
  /\ Return(i, TRUE) \/ BlockedDone(i) \/ TailReturn(i)
  /\ OnFinish
  /\ UNCHANGED <<projectVars, lastSha, marker, pending, meta>>

MutRebootKeepsMarkers ==
  /\ Operate
  /\ Restart
  /\ pending' = NoCommit /\ wake' = FALSE
  /\ poll' = IdlePoll
  /\ meta' = [i \in Ids |-> NoCommit]
  /\ UNCHANGED <<head, project, hook, handled, lastSha, marker>>

\* The process dies and boots: the queue and the poll are lost, resetPendingAutoDeploys runs
Reboot ==
  /\ Operate
  /\ Restart
  /\ pending' = NoCommit /\ wake' = FALSE /\ marker' = NoCommit
  /\ poll' = IdlePoll
  /\ meta' = [i \in Ids |-> NoCommit]
  /\ UNCHANGED <<head, project, hook, handled, lastSha>>

-----------------------------------------------------------------------------
(* The poller: GitHubPoller.poll, one project *)

MutPollSelect ==
  /\ poll.phase = "idle"
  /\ ~project.paused /\ project.trigger = "poller"
  /\ poll' = [phase |-> "fetching", last |-> lastSha, marker |-> marker, seen |-> NoCommit,
              trigger |-> project.trigger, branch |-> project.branch]
  /\ UNCHANGED <<registryVars, queueVars, head, project, hook, handled, ops>>

\* selectProjectsToPoll, with the webhook safety check on and possibly due
PollSelect ==
  /\ poll.phase = "idle"
  /\ ~project.paused /\ project.trigger \in {"poller", "webhook"}
  /\ poll' = [phase |-> "fetching", last |-> lastSha, marker |-> marker, seen |-> NoCommit,
              trigger |-> project.trigger, branch |-> project.branch]
  /\ UNCHANGED <<registryVars, queueVars, head, project, hook, handled, ops>>

\* GitHub reads the tip; the answer is on its way
PollFetch ==
  /\ poll.phase = "fetching"
  /\ poll' = [poll EXCEPT !.phase = "fetched", !.seen = Tip(poll.branch)]
  /\ UNCHANGED <<registryVars, queueVars, head, project, hook, handled, ops>>

\* fetchBranchList throws, or the branch is not in its list
PollFail ==
  /\ poll.phase = "fetching"
  /\ poll' = IdlePoll
  /\ UNCHANGED <<registryVars, queueVars, head, project, hook, handled, ops>>

\* The turn after the await.  It decides on the row read before it.
PollApply ==
  /\ poll.phase = "fetched"
  /\ poll' = IdlePoll
  /\ IF poll.last = NoCommit
       THEN lastSha' = poll.seen /\ UNCHANGED <<registryVars, marker, pending, wake, meta, hook>>
     ELSE IF poll.seen # poll.last
       THEN /\ RequestAutoDeploy(poll.seen)
            /\ hook' = IF poll.trigger = "webhook" /\ poll.marker # poll.seen
                         THEN "failing" ELSE hook
     ELSE UNCHANGED <<registryVars, queueVars, hook>>
  /\ UNCHANGED <<head, project, handled, ops>>

-----------------------------------------------------------------------------
(* The webhook: routes/githubHooks.ts, one synchronous handler *)

\* "duplicate"; and without a hook the id in the URL is unknown
Deliverable(c) == project.trigger = "webhook" /\ c \notin handled

Deliver(c) ==
  /\ Deliverable(c)
  /\ c[2] \in 2..head[c[1]]
  /\ handled' = handled \cup {c} /\ hook' = "verified"
  /\ IF project.paused \/ c[1] # project.branch \/ c = lastSha
       THEN UNCHANGED <<registryVars, queueVars>>
       ELSE RequestAutoDeploy(c)
  /\ UNCHANGED <<head, project, poll, ops>>

-----------------------------------------------------------------------------
(* GitHub and the operator *)

Push(b) ==
  /\ Operate
  /\ head' = [head EXCEPT ![b] = @ + 1]
  /\ UNCHANGED <<registryVars, queueVars, project, hook, handled, poll>>

\* The pause and resume routes; the MCP server of stdio.ts, another process, cannot clear the queue
SetPaused(viaMcp) ==
  /\ Operate
  /\ project' = [project EXCEPT !.paused = ~@]
  /\ IF project'.paused /\ ~viaMcp THEN ClearPending ELSE UNCHANGED <<pending, marker, wake>>
  /\ UNCHANGED <<registryVars, head, hook, handled, poll, lastSha, meta>>

\* PUT /deploy-trigger, the turn that writes deploy_trigger, with enableWebhook and disableWebhook
SetTrigger(t) ==
  /\ Operate
  /\ t # project.trigger
  /\ project' = [project EXCEPT !.trigger = t]
  /\ hook' = IF t = "webhook" THEN "waiting" ELSE "none"
  /\ IF t = "manual" THEN ClearPending ELSE UNCHANGED <<pending, marker, wake>>
  /\ UNCHANGED <<registryVars, head, handled, poll, lastSha, meta>>

\* updateProject with another auto_deploy_branch: resetGithubTrackingIfChanged
SetBranch(b) ==
  /\ Operate
  /\ b # project.branch
  /\ project' = [project EXCEPT !.branch = b]
  /\ lastSha' = NoCommit
  /\ UNCHANGED <<registryVars, head, hook, handled, poll, marker, pending, wake, meta>>

AutoNext ==
  \/ Wake \/ OtherAction \/ Reboot
  \/ \E i \in Ids : RunnerEnds(i)
  \/ PollSelect \/ PollFetch \/ PollFail \/ PollApply
  \/ \E c \in Commits : Deliver(c)
  \/ \E b \in Branches : Push(b) \/ SetBranch(b)
  \/ \E viaMcp \in BOOLEAN : SetPaused(viaMcp)
  \/ \E t \in Triggers : SetTrigger(t)

\* setImmediate callbacks run; the poll timer fires; GitHub does not fail for ever; runners end
AutoFairness ==
  /\ WF_autoVars(Wake)
  /\ WF_autoVars(PollSelect) /\ SF_autoVars(PollFetch) /\ WF_autoVars(PollApply)
  /\ \A i \in Ids : WF_autoVars(RunnerEnds(i))

AutoSpec == AutoInit /\ [][AutoNext]_autoVars /\ AutoFairness

-----------------------------------------------------------------------------
(* The "queued" commit the project's page shows (pending_deploy_sha) is the one the
   process would deploy: a marker never announces a deploy that will not start
   (autoDeploy.ts l.90-91), and no queued deploy is hidden. *)
MarkerMatchesQueue == marker = pending

(* A queued commit has something that will take it up: the action that holds the slot,
   or a callback that holds this very object (the setImmediate of the finish listener
   gives up when the object was replaced). *)
QueueIsWatched == pending # NoCommit => IsRunning(Slot) \/ wake

(* A commit becomes last_commit_sha only as the first baseline or in the turn that
   starts its deploy, so a restart before that leaves it new to the poller
   (autoDeploy.ts l.50-52). *)
RecordedWhenStarted ==
  [][lastSha' \notin {lastSha, NoCommit} =>
       \/ poll.phase = "fetched" /\ poll.last = NoCommit /\ lastSha' = poll.seen
       \/ \E i \in Ids : runner[i] = "gone" /\ runner'[i] = "working" /\ meta'[i] = lastSha']_autoVars

(* Polling alone never deploys backwards: until a webhook delivery was handled, no automatic
   deploy is of an earlier commit than one of the same branch that was deployed before it,
   whatever the order of polls, queueing, wake-ups and changes of branch.  (The baseline may
   go back: a commit queued before the branch is changed, and changed back, is deployed over
   the baseline taken since.) *)
PollingMovesForward ==
  [][handled' = {} =>
       \A i, j \in Ids :
         /\ runner[i] = "gone" /\ runner'[i] = "working" /\ meta'[i] # NoCommit
         /\ meta[j] # NoCommit /\ meta[j][1] = meta'[i][1]
         => meta[j][2] <= meta'[i][2]]_autoVars

(* Once pushes, operators and restarts are quiet, a project that is not paused and not
   manual ends with the tip of its branch as the last commit taken: no delivery that was
   lost or ignored, no queue lost in a restart and no failed poll loses it for good
   (Stackport.md l.248). *)
TipIsTaken ==
  <>[](~project.paused /\ project.trigger # "manual")
    => <>[](lastSha = Tip(project.branch))

(* githubPolling.ts l.240-243: another auto-deploy branch invalidates the commit
   baseline, since "switching branches made the next poll treat the other branch's head
   as a "new commit" and auto-deploy it immediately": no automatic deploy of a branch
   whose only commit was there before the project watched it. *)
NewBranchIsNotDeployed ==
  [][\A i \in Ids : runner[i] = "gone" /\ runner'[i] = "working" /\ meta'[i] # NoCommit
        => meta'[i][2] > 1]_autoVars

=============================================================================
