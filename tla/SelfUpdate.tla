---------------------------- MODULE SelfUpdate ----------------------------
(***************************************************************************)
(* Stackport's own update and rollback: src/stackport.sh on the host, and  *)
(* the app's part in it, which starts a detached updater container and     *)
(* tells of its outcome (src/src/modules/maintenance/selfUpdate.ts).       *)
(*                                                                         *)
(* A script is a sequence of commands; each action is one command, or the  *)
(* commands nothing can be observed between, and the script may die at any *)
(* of them: the host goes down, or a failing command meets `set -e`.  One  *)
(* script runs at a time here; the code has no lock (see the README).      *)
(*                                                                         *)
(* Releases are numbered along the branch.  A release may not build, may   *)
(* never answer /health ("deaf"), or may answer it without being able to   *)
(* serve its UI or to update itself again ("crippled"); it migrates the    *)
(* database when it starts, and a breaking migration leaves a database on  *)
(* which earlier releases do not start.                                    *)
(***************************************************************************)
EXTENDS Integers, FiniteSets

CONSTANTS Last,      \* releases are 1 .. Last
          MaxRuns,   \* bound: scripts started
          MaxFaults  \* bound: failures of commands, deaths of scripts, images pruned

ASSUME UpdateAssumption ==
  /\ Last \in Nat \ {0}
  /\ MaxRuns \in Nat /\ MaxFaults \in Nat

VARIABLES quality, breaking,  \* what each release is like; nobody knows before it runs
          head,       \* the checkout in APP_DIR
          latest,     \* the image tagged stackport-stackport:latest
          kept,       \* the image tagged stackport:previous
          container,  \* the app's container: its image, and whether it is to run
          db,         \* the database: its schema, and enqueued_self_update_outcome
          backup,     \* the newest backup of each update, from and to
          leftover,   \* data/.backup-tmp.sqlite is there
          state,      \* update/state.env
          script, updater,
          mishaps,    \* what went wrong so far (observed)
          runs, faults

releases == <<quality, breaking>>
images == <<latest, kept, container>>
data == <<db, backup, leftover>>
updateVars == <<releases, head, images, data, state, script, updater, mishaps, runs, faults>>

Release == 1 .. Last
None == 0
Quality == {"good", "deaf", "crippled", "unbuildable"}
Pair == {p \in Release \X Release : p[1] < p[2]}

\* A database: its schema (0: a file that is none) and the last outcome told of
NoDb == [schema |-> 0, told |-> 0]

\* /health answers when release v runs on database d
Works(v, d) ==
  /\ v # None /\ quality[v] \notin {"deaf", "unbuildable"}
  /\ d.schema # 0
  /\ \A u \in breaking : ~(v < u /\ u <= d.schema)

Healthy == container.on /\ Works(container.image, db)

\* verify_running_version: /health, /health/ready, the UI and updaterSelfTest.js
Accepted == Healthy /\ quality[container.image] = "good"

-----------------------------------------------------------------------------
(* Scripts *)

(* update: fetch stage vacuum copy keep note checkout swap verify accept; *)
(* rollback: begin back reswap health stop restore start recheck retag settle *)
NoScript == [pc |-> "none", current |-> None, target |-> None, from |-> None, copy |-> NoDb, detached |-> FALSE]
AtRest == script.pc = "none"
At(pc) == script.pc = pc
Go(pc) == script' = [script EXCEPT !.pc = pc]

Ok == UNCHANGED faults
Fault == faults < MaxFaults /\ faults' = faults + 1
Mishap(m) == mishaps' = mishaps \cup {m}
Smooth == UNCHANGED mishaps

\* the script ends; Docker keeps the outcome of the updater's container (getSelfUpdateStatus)
Exit(outcome) ==
  /\ script' = NoScript
  /\ updater' = IF script.detached THEN [updater EXCEPT !.outcome = outcome] ELSE updater

\* a container of image v starts, and with it migrations that only a working release is sure to end
Migrated(v) ==
  IF db.schema = 0 \/ v <= db.schema THEN {db}
  ELSE LET new == [db EXCEPT !.schema = v] IN IF quality[v] = "deaf" THEN {db, new} ELSE {new}
Created(v) == container' = [image |-> v, on |-> TRUE] /\ db' \in Migrated(v)

\* swap_to_image
SwapTo(v) == latest' = v /\ Created(v)

\* it fails: at the tag, or at `up` before the old container is gone, after, or once the new one runs
SwapBreaks(v) ==
  \/ UNCHANGED <<latest, container, db>>
  \/ latest' = v /\ UNCHANGED <<container, db>>
  \/ latest' = v /\ container' = [image |-> None, on |-> FALSE] /\ UNCHANGED db
  \/ SwapTo(v)

-----------------------------------------------------------------------------
(* update_stackport *)

\* fetch, and a target that is not behind the checkout; the branch may be at any release
Fetch ==
  /\ At("fetch")
  /\ \/ /\ Ok
        /\ \E r \in Release :
             IF r <= head
               THEN Exit("success")
               ELSE /\ script' = [script EXCEPT !.pc = "stage", !.current = head, !.target = r]
                    /\ UNCHANGED updater
     \/ Fault /\ Exit("failed")
  /\ UNCHANGED <<releases, head, images, data, state, mishaps, runs>>

\* stage_update: a worktree of its own, the new CLI's selfcheck, the image
Stage ==
  /\ At("stage")
  /\ \/ /\ quality[script.target] # "unbuildable"
        /\ Go("vacuum") /\ Ok /\ UNCHANGED <<updater, state>>
     \/ /\ IF quality[script.target] = "unbuildable" THEN Ok ELSE Fault
        /\ Exit("failed") /\ state' = [state EXCEPT !.last = "failed"]
  /\ UNCHANGED <<releases, head, images, data, mishaps, runs>>

\* VACUUM INTO in the running container: it does not overwrite a file, and can be cut short
Vacuum ==
  /\ At("vacuum")
  /\ \/ /\ container.on /\ db.schema # 0 /\ ~leftover
        /\ leftover' = TRUE
        /\ script' = [script EXCEPT !.pc = "copy", !.copy = db]
        /\ Ok /\ Smooth /\ UNCHANGED updater
     \/ /\ ~Healthy \/ leftover
        /\ Exit("failed") /\ Ok /\ Smooth /\ UNCHANGED leftover
     \/ Exit("failed") /\ Fault /\ Mishap("leftover") /\ leftover' = TRUE
  /\ UNCHANGED <<releases, head, images, db, backup, state, runs>>

\* docker cp and rm; in the condition of an `if`, a failure of either goes unnoticed
Copy ==
  /\ At("copy")
  /\ \E copied, removed \in BOOLEAN :
       /\ backup' = [backup EXCEPT ![<<script.current, script.target>>] = IF copied THEN script.copy ELSE NoDb]
       /\ leftover' = ~removed
       /\ mishaps' = mishaps \cup (IF copied THEN {} ELSE {"copy"}) \cup (IF removed THEN {} ELSE {"leftover"})
       /\ IF copied /\ removed THEN Ok ELSE Fault
  /\ Go("keep")
  /\ UNCHANGED <<releases, head, images, db, state, updater, runs>>

\* the running image is tagged stackport:previous
Keep ==
  /\ At("keep")
  /\ kept' = IF container.image = None THEN kept ELSE container.image
  /\ Go("note") /\ Ok
  /\ UNCHANGED <<releases, head, latest, container, data, state, updater, mishaps, runs>>

\* state_set previous
Note ==
  /\ At("note")
  /\ state' = [state EXCEPT !.previous = script.current]
  /\ Go("checkout") /\ Ok
  /\ UNCHANGED <<releases, head, images, data, updater, mishaps, runs>>

CheckOut ==
  /\ At("checkout")
  /\ head' = script.target
  /\ Go("swap") /\ Ok
  /\ UNCHANGED <<releases, images, data, state, updater, mishaps, runs>>

\* not accepted: rolled back by the same script
Rejected == Go("begin") /\ state' = [state EXCEPT !.last = "failed"]

Swap ==
  /\ At("swap")
  /\ \/ SwapTo(script.target) /\ Go("verify") /\ Ok /\ Smooth /\ UNCHANGED state
     \/ SwapBreaks(script.target) /\ Rejected /\ Fault /\ Mishap("swap")
  /\ UNCHANGED <<releases, head, kept, backup, leftover, updater, runs>>

MutVerify ==
  /\ At("verify")
  /\ \/ Healthy /\ Go("accept") /\ Ok /\ UNCHANGED state
     \/ ~Healthy /\ Rejected /\ Ok
     \/ Healthy /\ Rejected /\ Fault
  /\ UNCHANGED <<releases, head, images, data, updater, mishaps, runs>>

\* verify_running_version; a slow host fails it too
Verify ==
  /\ At("verify")
  /\ \/ Accepted /\ Go("accept") /\ Ok /\ UNCHANGED state
     \/ ~Accepted /\ Rejected /\ Ok
     \/ Accepted /\ Rejected /\ Fault
  /\ UNCHANGED <<releases, head, images, data, updater, mishaps, runs>>

\* what the update records; the CLI is the new release's from now on
Accept ==
  /\ At("accept")
  /\ state' = [state EXCEPT !.current = script.target, !.last = "success"]
  /\ Exit("success") /\ Ok
  /\ UNCHANGED <<releases, head, images, data, mishaps, runs>>

-----------------------------------------------------------------------------
(* rollback_stackport *)

\* "again": the release it goes back to is one that had been rolled back from
Begin ==
  /\ At("begin") /\ Ok
  /\ IF state.previous = None
       THEN Exit("failed") /\ Smooth
       ELSE /\ script' = [script EXCEPT !.pc = "back", !.current = head, !.target = state.previous,
                                        !.from = container.image]
            /\ UNCHANGED updater
            /\ IF quality[state.previous] = "good" THEN Smooth ELSE Mishap("again")
  /\ UNCHANGED <<releases, head, images, data, state, runs>>

Back ==
  /\ At("back")
  /\ head' = script.target
  /\ Go("reswap") /\ Ok
  /\ UNCHANGED <<releases, images, data, state, updater, mishaps, runs>>

\* swap_to_image of the kept image, or `up --build` of the checkout without one; failures are ignored
Reswap ==
  /\ At("reswap")
  /\ LET image == IF kept = None THEN head ELSE kept
     IN \/ SwapTo(image) /\ Ok /\ Smooth
        \/ SwapBreaks(image) /\ Fault /\ Mishap("swap")
  /\ Go("health")
  /\ UNCHANGED <<releases, head, kept, backup, leftover, state, updater, runs>>

\* a slow start looks like a release that cannot use the database
Health ==
  /\ At("health")
  /\ \/ Healthy /\ Go("retag") /\ Ok
     \/ ~Healthy /\ Go("stop") /\ Ok
     \/ Healthy /\ Go("stop") /\ Fault
  /\ UNCHANGED <<releases, head, images, data, state, updater, mishaps, runs>>

\* the snapshot restore_update_backup finds: that of the newest update between these two releases
Found ==
  LET p == <<script.target, script.current>> IN IF p \in Pair THEN backup[p] ELSE NoDb

\* restore_update_backup: no snapshot, or the container is stopped first; a stop that fails is ignored
Stop ==
  /\ At("stop")
  /\ \/ Found = NoDb /\ Go("recheck") /\ UNCHANGED container /\ Ok /\ Smooth
     \/ Found # NoDb /\ Go("restore") /\ container' = [container EXCEPT !.on = FALSE] /\ Ok /\ Smooth
     \/ Found # NoDb /\ Go("restore") /\ container.on /\ UNCHANGED container /\ Fault /\ Mishap("restore")
  /\ UNCHANGED <<releases, head, latest, kept, data, state, updater, runs>>

\* no database the app can use, or an earlier state of this one, now that its WAL is gone
Damaged == {NoDb} \cup [schema : 1 .. db.schema, told : 0 .. db.told]

\* cp, rm of the WAL and chown; under `|| true` the next command runs after one that failed.
\* An app that was not stopped goes on writing to the file.
Restore ==
  /\ At("restore")
  /\ \/ db' = Found /\ Ok /\ Smooth
     \/ container.on /\ db' = NoDb /\ Ok /\ Smooth
     \/ db' \in Damaged /\ Fault /\ Mishap("restore")
  /\ Go("start")
  /\ UNCHANGED <<releases, head, images, backup, leftover, state, updater, runs>>

\* `up` with the image that is latest now; it leaves a container that still runs it alone
StartRestored ==
  /\ At("start")
  /\ \/ ~(container.on /\ container.image = latest) /\ Created(latest) /\ Ok /\ Smooth
     \/ container.on /\ container.image = latest /\ UNCHANGED <<container, db>> /\ Ok /\ Smooth
     \/ UNCHANGED <<container, db>> /\ Fault /\ Mishap("swap")
  /\ Go("recheck")
  /\ UNCHANGED <<releases, head, latest, kept, backup, leftover, state, updater, runs>>

Recheck ==
  /\ At("recheck")
  /\ \/ Healthy /\ Go("retag") /\ Ok /\ Smooth /\ UNCHANGED updater
     \/ ~Healthy /\ Exit("failed") /\ Ok /\ Smooth
     \/ Healthy /\ Exit("failed") /\ Fault /\ Mishap("slow")
  /\ UNCHANGED <<releases, head, images, data, state, runs>>

MutRetag ==
  /\ At("retag")
  /\ Go("settle") /\ Ok
  /\ UNCHANGED <<releases, head, images, data, state, updater, mishaps, runs>>

\* the image rolled back from becomes the previous one
Retag ==
  /\ At("retag")
  /\ kept' = IF script.from = None THEN kept ELSE script.from
  /\ Go("settle") /\ Ok
  /\ UNCHANGED <<releases, head, latest, container, data, state, updater, mishaps, runs>>

\* and so does its release
Settle ==
  /\ At("settle")
  /\ state' = [current |-> script.target, previous |-> script.current, last |-> "rolled-back"]
  /\ Exit("rolled-back") /\ Ok
  /\ UNCHANGED <<releases, head, images, data, mishaps, runs>>

-----------------------------------------------------------------------------
(* Around the scripts *)

ScriptStep ==
  \/ Fetch \/ Stage \/ Vacuum \/ Copy \/ Keep \/ Note \/ CheckOut \/ Swap \/ Verify \/ Accept
  \/ Begin \/ Back \/ Reswap \/ Health \/ Stop \/ Restore \/ StartRestored \/ Recheck \/ Retag \/ Settle

\* the script dies at its next command, which may have taken effect in part
Die ==
  /\ ~AtRest /\ Fault
  /\ Exit("failed")
  /\ Mishap(IF script.pc \in {"fetch", "stage", "vacuum", "keep"} THEN "early"
            ELSE IF At("copy") THEN "leftover" ELSE "died")
  /\ IF At("restore") THEN db' \in {db, NoDb} /\ UNCHANGED <<latest, container>>
     ELSE IF At("swap") THEN SwapBreaks(script.target)
     ELSE IF At("reswap") THEN SwapBreaks(IF kept = None THEN head ELSE kept)
     ELSE UNCHANGED <<latest, container, db>>
  /\ UNCHANGED <<releases, head, kept, backup, leftover, state, runs>>

\* an operator runs the CLI
RunCli(pc) ==
  /\ AtRest /\ runs < MaxRuns
  /\ runs' = runs + 1
  /\ script' = [NoScript EXCEPT !.pc = pc]
  /\ UNCHANGED <<releases, head, images, data, state, updater, mishaps, faults>>

\* startSelfUpdate: refused while an updater is active; the last one's container goes first
StartSelfUpdate ==
  /\ AtRest /\ runs < MaxRuns
  /\ Healthy /\ updater.outcome # "running"
  /\ runs' = runs + 1
  /\ \/ /\ updater' = [id |-> runs + 1, outcome |-> "running"]
        /\ script' = [NoScript EXCEPT !.pc = "fetch", !.detached = TRUE]
        /\ Ok /\ UNCHANGED db
     \/ /\ updater' = [id |-> runs + 1, outcome |-> "none"]
        /\ db' = [db EXCEPT !.told = runs + 1]
        /\ Fault /\ UNCHANGED script
  /\ UNCHANGED <<releases, head, images, backup, leftover, state, mishaps>>

MutNotify ==
  /\ Accepted /\ updater.outcome = "failed" /\ db.told # updater.id
  /\ db' = [db EXCEPT !.told = updater.id]
  /\ UNCHANGED <<releases, head, images, backup, leftover, state, script, updater, mishaps, runs, faults>>

\* notifySelfUpdateOutcome: the alert and its mark in one transaction of the app that runs by then
Notify ==
  /\ Accepted /\ updater.outcome \in {"failed", "rolled-back"} /\ db.told # updater.id
  /\ db' = [db EXCEPT !.told = updater.id]
  /\ UNCHANGED <<releases, head, images, backup, leftover, state, script, updater, mishaps, runs, faults>>

\* repair_stackport: a container that is not in `docker ps` is started from the latest image
Repair ==
  /\ AtRest /\ ~container.on
  /\ Created(latest)
  /\ UNCHANGED <<releases, head, latest, kept, backup, leftover, state, script, updater, mishaps, runs, faults>>

\* somebody prunes the images no container uses
ImagesPruned ==
  /\ AtRest /\ kept # None /\ Fault
  /\ kept' = None
  /\ UNCHANGED <<releases, head, latest, container, data, state, script, updater, mishaps, runs>>

\* install_stackport has come to its end
UpdateInit ==
  /\ quality \in {q \in [Release -> Quality] : q[1] = "good"}
  /\ breaking \in SUBSET (Release \ {1})
  /\ head = 1 /\ latest = 1 /\ kept = None /\ container = [image |-> 1, on |-> TRUE]
  /\ db = [schema |-> 1, told |-> 0] /\ backup = [p \in Pair |-> NoDb] /\ leftover = FALSE
  /\ state = [current |-> 1, previous |-> None, last |-> "success"]
  /\ script = NoScript /\ updater = [id |-> 0, outcome |-> "none"]
  /\ mishaps = {} /\ runs = 0 /\ faults = 0

UpdateNext ==
  \/ ScriptStep \/ Die \/ RunCli("fetch") \/ RunCli("begin")
  \/ StartSelfUpdate \/ Notify \/ Repair \/ ImagesPruned

\* the commands end, and checkSelfUpdateNotification runs on a timer
UpdateFairness == WF_updateVars(ScriptStep) /\ WF_updateVars(Notify)
UpdateSpec == UpdateInit /\ [][UpdateNext]_updateVars /\ UpdateFairness

-----------------------------------------------------------------------------
(* Properties *)

(* At rest the checkout, the tags, the container and state.env name the    *)
(* same releases, whatever was refused, failed or was rolled back; the     *)
(* next update compares the checkout, and the next rollback swaps to the   *)
(* kept image and records its release.  Not promised after a script died   *)
(* once it had begun to change them, after a swap broke, and after a       *)
(* rollback that could not be completed: its snapshot was not copied to    *)
(* the host, a stop, cp, rm or chown of its restore failed unnoticed, it   *)
(* went back to a release rolled back from before, or the restored app was *)
(* too slow to answer.                                                     *)
VersionsAgree ==
  AtRest /\ mishaps \cap {"died", "swap", "copy", "restore", "again", "slow"} = {} =>
    /\ latest = head /\ container.image = head /\ state.current = head
    /\ kept # None => kept = state.previous

(* At rest Stackport runs a release that was accepted, on a database it    *)
(* can use, and nothing stands in the way of the next update: a release    *)
(* that does not build, start, serve or migrate well is taken back.  Not   *)
(* promised after the temporary snapshot was left behind, a script died    *)
(* once it had begun to change things, a swap broke, a snapshot was lost   *)
(* on its way to the host, a stop, cp, rm or chown of the restore failed   *)
(* (the script ignores it), or a rollback went back to a release that had  *)
(* been rolled back from.                                                  *)
UpdatableAgain ==
  AtRest /\ mishaps \cap {"leftover", "died", "swap", "copy", "restore", "again"} = {} =>
    Accepted /\ ~leftover

(* An update that was started from the app and does not succeed is told    *)
(* of, in the end, by whichever release runs by then, unless another       *)
(* update replaced it or no release that could tell runs any more.         *)
OutcomeIsTold ==
  \A i \in 1 .. MaxRuns :
    updater.id = i /\ updater.outcome = "running"
      ~> \/ updater.id # i \/ updater.outcome = "success" \/ db.told = i
         \/ [](~Accepted)
=============================================================================
