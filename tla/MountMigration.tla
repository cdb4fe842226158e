--------------------------- MODULE MountMigration ---------------------------
(***************************************************************************)
(* The move of a project's mount directories (src/src/modules/maintenance/ *)
(* migrations): the migration that copies the data of each writable mount  *)
(* into a directory Stackport owns and switches the project to it, the     *)
(* cleanup that later deletes the originals, and what runs beside them:    *)
(* deploys, which mount one directory or the other, the app, which writes, *)
(* and restarts, also into the release from before the move.               *)
(*                                                                         *)
(* A directory is there or not and holds a version of each file (0: none); *)
(* versions are modification times, which `cp -a` keeps.  A dry run takes  *)
(* the same way and changes nothing; it is left out.                       *)
(***************************************************************************)
EXTENDS Integers, FiniteSets

CONSTANTS Mounts, Files,
          MaxVersion,  \* bound: versions of a file
          MaxFaults    \* bound: failed commands, deaths and changes of release

ASSUME MountAssumption == MaxVersion \in Nat \ {0} /\ MaxFaults \in Nat

VARIABLES original, copy,  \* the two directories of each mount
          newest,      \* the last version of each file the app wrote
          switched,    \* projects.volumes_managed
          recorded,    \* the row of legacy_mount_sources of each mount
          release,     \* "old": from before managed directories
          containers,  \* the project's containers and what they mount
          deploy,      \* the directories a deploy in flight is to mount
          migration, cleanup,
          raced, crossed, early, reverted,  \* history: see ComeUp, Remove and ProcessRestarts
          faults

observed == <<raced, crossed, early, reverted>>
mountVars == <<original, copy, newest, switched, recorded, release, containers, deploy,
               migration, cleanup, observed, faults>>

Version == 0 .. MaxVersion
Directory == [here : BOOLEAN, file : [Files -> Version]]
EmptyDirectory == [here |-> TRUE, file |-> [f \in Files |-> 0]]
NoDirectory == [EmptyDirectory EXCEPT !.here = FALSE]
HasData(d) == \E f \in Files : d.file[f] # 0

AtRest == [pc |-> "idle", todo |-> {}, mount |-> {}, problem |-> FALSE]

Fault == faults < MaxFaults /\ faults' = faults + 1
FaultFree == UNCHANGED faults

\* A project from before the move, up or not, or a new one whose repository brings files.
MountInit ==
  /\ original \in [Mounts -> {d \in Directory : /\ d.here \/ d = NoDirectory
                                                /\ \A f \in Files : d.file[f] <= 1}]
  /\ copy = [m \in Mounts |-> NoDirectory]
  /\ newest = [m \in Mounts |-> original[m].file]
  /\ switched \in BOOLEAN
  /\ recorded = [m \in Mounts |-> "none"]
  /\ release = "new"
  /\ containers \in {[state |-> "none", on |-> "original"]}
                    \cup IF switched \/ \E m \in Mounts : ~original[m].here THEN {}
                         ELSE {[state |-> "running", on |-> "original"]}
  /\ deploy = "none"
  /\ migration = AtRest /\ cleanup = AtRest
  /\ raced = FALSE /\ crossed = FALSE /\ early = FALSE /\ reverted = FALSE
  /\ faults = 0

-----------------------------------------------------------------------------
(* The project *)

\* isVolumesManaged is read here, before the `up`; the old release does not know it.
StartDeploy ==
  /\ deploy = "none"
  /\ deploy' = IF release = "new" /\ switched THEN "copy" ELSE "original"
  /\ UNCHANGED <<original, copy, newest, switched, recorded, release, containers, migration,
                 cleanup, observed, faults>>

\* seedManagedDirectory fills a directory beside it and renames it into place.
Seeded(m) == IF original[m].here THEN original[m] ELSE EmptyDirectory

Seed(m) ==
  /\ deploy = "copy" /\ ~copy[m].here
  /\ copy' = [copy EXCEPT ![m] = Seeded(m)]
  /\ UNCHANGED <<original, newest, switched, recorded, release, containers, deploy, migration,
                 cleanup, observed, faults>>

Copying == migration.pc \in {"mounts", "copy", "verify"}

\* Containers come up on their directories; those of the original are created when missing.
ComeUp(on) ==
  /\ containers' = [state |-> "running", on |-> on]
  /\ original' = IF on = "copy" THEN original
                 ELSE [m \in Mounts |-> [original[m] EXCEPT !.here = TRUE]]
  /\ raced' = (raced \/ (on = "original" /\ release = "new" /\ (Copying \/ switched)))
  /\ crossed' = (crossed \/ (on = "original" /\ cleanup.pc \in {"cover", "remove"}))

Up ==
  /\ deploy # "none"
  /\ deploy = "copy" => \A m \in Mounts : copy[m].here
  /\ ComeUp(deploy)
  /\ deploy' = "none"
  /\ UNCHANGED <<copy, newest, switched, recorded, release, migration, cleanup, early, reverted,
                 faults>>

\* A preparation or an `up` fails, before or after the old containers were removed.
DeployFails ==
  /\ deploy # "none" /\ Fault
  /\ deploy' = "none"
  /\ containers' \in {containers, [containers EXCEPT !.state = "none"]}
  /\ UNCHANGED <<original, copy, newest, switched, recorded, release, migration, cleanup, observed>>

\* `compose down`
StopProject ==
  /\ deploy = "none" /\ containers.state # "none"
  /\ containers' = [containers EXCEPT !.state = "none"]
  /\ UNCHANGED <<original, copy, newest, switched, recorded, release, deploy, migration, cleanup,
                 observed, faults>>

\* Containers exit, or are started again by docker, with the mounts they have.
ContainersExit ==
  /\ containers.state = "running"
  /\ containers' = [containers EXCEPT !.state = "stopped"]
  /\ UNCHANGED <<original, copy, newest, switched, recorded, release, deploy, migration, cleanup,
                 observed, faults>>

Revive ==
  /\ containers.state = "stopped"
  /\ ComeUp(containers.on)
  /\ UNCHANGED <<copy, newest, switched, recorded, release, deploy, migration, cleanup, early,
                 reverted, faults>>

Write(m, f) ==
  /\ containers.state = "running" /\ newest[m][f] < MaxVersion
  /\ LET v == newest[m][f] + 1 IN
     /\ newest' = [newest EXCEPT ![m][f] = v]
     /\ original' = IF containers.on = "copy" THEN original
                    ELSE [original EXCEPT ![m].here = TRUE, ![m].file[f] = v]
     /\ copy' = IF containers.on = "copy" THEN [copy EXCEPT ![m].file[f] = v] ELSE copy
  /\ UNCHANGED <<switched, recorded, release, containers, deploy, migration, cleanup, observed,
                 faults>>

-----------------------------------------------------------------------------
(* The migration *)

StartMigration ==
  /\ release = "new" /\ migration.pc = "idle" /\ ~switched
  /\ migration' = [AtRest EXCEPT !.pc = "check"]
  /\ UNCHANGED <<original, copy, newest, switched, recorded, release, containers, deploy, cleanup,
                 observed, faults>>

\* `docker ps -q`: a project that runs, or a listing that fails, is left alone.
CheckStopped ==
  /\ migration.pc = "check"
  /\ \/ /\ containers.state = "running" /\ FaultFree
        /\ migration' = AtRest
     \/ /\ Fault
        /\ migration' = AtRest
     \/ /\ containers.state # "running" /\ FaultFree
        /\ migration' = [AtRest EXCEPT !.pc = "mounts", !.todo = Mounts]
  /\ UNCHANGED <<original, copy, newest, switched, recorded, release, containers, deploy, cleanup,
                 observed>>

NextMount(job, m, bad) ==
  [job EXCEPT !.pc = "mounts", !.todo = @ \ {m}, !.mount = {}, !.problem = @ \/ bad]

\* "could not tell" is read as "starts empty".
MutProbe(m) ==
  /\ migration.pc = "mounts" /\ m \in migration.todo
  /\ copy' = [copy EXCEPT ![m].here = TRUE]
  /\ \/ Fault /\ migration' = NextMount(migration, m, FALSE)
     \/ /\ FaultFree
        /\ migration' = IF HasData(original[m])
                        THEN [migration EXCEPT !.pc = "copy", !.mount = {m}]
                        ELSE NextMount(migration, m, FALSE)
  /\ UNCHANGED <<original, newest, switched, recorded, release, containers, deploy, cleanup,
                 observed>>

\* A directory that cannot be created ends the whole run.
Probe(m) ==
  /\ migration.pc = "mounts" /\ m \in migration.todo
  /\ \/ /\ Fault
        /\ migration' \in {NextMount(migration, m, TRUE), AtRest}
        /\ UNCHANGED copy
     \/ /\ FaultFree
        /\ copy' = [copy EXCEPT ![m].here = TRUE]
        /\ migration' = IF HasData(original[m])
                        THEN [migration EXCEPT !.pc = "copy", !.mount = {m}]
                        ELSE NextMount(migration, m, FALSE)
  /\ UNCHANGED <<original, newest, switched, recorded, release, containers, deploy, cleanup,
                 observed>>

\* `cp -a` of the files in fs over what the copy holds
Overlay(m, fs) ==
  [copy EXCEPT ![m].file = [f \in Files |-> IF f \in fs /\ original[m].file[f] # 0
                                            THEN original[m].file[f] ELSE copy[m].file[f]]]

\* It copies all, or breaks off and says so, or leaves a damaged copy and says nothing.
CopyFiles(m) ==
  /\ migration.pc = "copy" /\ migration.mount = {m}
  /\ \/ /\ FaultFree
        /\ copy' = Overlay(m, Files)
        /\ migration' = [migration EXCEPT !.pc = "verify"]
     \/ /\ Fault
        /\ \E fs \in SUBSET Files : copy' = Overlay(m, fs)
        /\ migration' \in {NextMount(migration, m, TRUE), [migration EXCEPT !.pc = "verify"]}
  /\ UNCHANGED <<original, newest, switched, recorded, release, containers, deploy, cleanup,
                 observed>>

\* `diff -rq` of the two
Matches(m) == copy[m].file = original[m].file

Verify(m) ==
  /\ migration.pc = "verify" /\ migration.mount = {m}
  /\ \/ /\ Matches(m) /\ FaultFree
        /\ recorded' = [recorded EXCEPT ![m] = "copied"]
        /\ migration' = NextMount(migration, m, FALSE)
     \/ /\ IF Matches(m) THEN Fault ELSE FaultFree
        /\ migration' = NextMount(migration, m, TRUE)
        /\ UNCHANGED recorded
  /\ UNCHANGED <<original, copy, newest, switched, release, containers, deploy, cleanup, observed>>

EndMigration ==
  /\ migration.pc = "mounts" /\ migration.todo = {}
  /\ switched' = ~migration.problem
  /\ migration' = AtRest
  /\ UNCHANGED <<original, copy, newest, recorded, release, containers, deploy, cleanup, observed,
                 faults>>

-----------------------------------------------------------------------------
(* The cleanup *)

\* listSources asks for recorded copies only, not whether the project was switched.
Sources == {m \in Mounts : recorded[m] = "copied"}

StartCleanup ==
  /\ release = "new" /\ cleanup.pc = "idle" /\ Sources # {}
  /\ cleanup' = [AtRest EXCEPT !.pc = "mounts", !.todo = Sources]
  /\ UNCHANGED <<original, copy, newest, switched, recorded, release, containers, deploy,
                 migration, observed, faults>>

Skip(m) == cleanup' = NextMount(cleanup, m, FALSE)
Proceed(m, pc) == cleanup' = [cleanup EXCEPT !.pc = pc, !.mount = {m}]

ProbeOriginal(m) ==
  /\ cleanup.pc = "mounts" /\ m \in cleanup.todo
  /\ \/ Fault /\ Skip(m) /\ UNCHANGED recorded
     \/ /\ ~original[m].here /\ FaultFree /\ Skip(m)
        /\ recorded' = [recorded EXCEPT ![m] = "removed"]
     \/ original[m].here /\ FaultFree /\ Proceed(m, "managed") /\ UNCHANGED recorded
  /\ UNCHANGED <<original, copy, newest, switched, release, containers, deploy, migration, observed>>

\* A file of another version counts as covered.
MutCovers(m) == \A f \in Files : original[m].file[f] # 0 => copy[m].file[f] # 0

\* The original holds nothing the copy lacks and nothing newer than it.
Covers(m) ==
  \A f \in Files : original[m].file[f] # 0 =>
    copy[m].file[f] # 0 /\ copy[m].file[f] >= original[m].file[f]

\* No container, running or stopped, mounts the original.
Unused == containers.state = "none" \/ containers.on = "copy"

\* One check of the cleanup: it fails, forbids the removal, or leads on.
Check(m, pc, allowed, next) ==
  /\ cleanup.pc = pc /\ cleanup.mount = {m}
  /\ \/ Fault /\ Skip(m)
     \/ ~allowed /\ FaultFree /\ Skip(m)
     \/ allowed /\ FaultFree /\ Proceed(m, next)
  /\ UNCHANGED <<original, copy, newest, switched, recorded, release, containers, deploy,
                 migration, observed>>

ProbeManaged(m) == Check(m, "managed", copy[m].here /\ HasData(copy[m]), "list")
ListContainers(m) == Check(m, "list", Unused, "cover")
Compare(m) == Check(m, "cover", Covers(m), "remove")

\* What `rm -rf` may leave when it is broken off
Remains(m) == {d \in Directory : d.here /\ \A f \in Files : d.file[f] \in {0, original[m].file[f]}}

Remove(m) ==
  /\ cleanup.pc = "remove" /\ cleanup.mount = {m}
  /\ \/ /\ FaultFree
        /\ original' = [original EXCEPT ![m] = NoDirectory]
        /\ Proceed(m, "mark")
     \/ /\ Fault
        /\ \E d \in Remains(m) : original' = [original EXCEPT ![m] = d]
        /\ Skip(m)
  /\ early' = (early \/ ~switched)
  /\ UNCHANGED <<copy, newest, switched, recorded, release, containers, deploy, migration, raced,
                 crossed, reverted>>

MarkRemoved(m) ==
  /\ cleanup.pc = "mark" /\ cleanup.mount = {m}
  /\ recorded' = [recorded EXCEPT ![m] = "removed"]
  /\ Skip(m)
  /\ UNCHANGED <<original, copy, newest, switched, release, containers, deploy, migration, observed,
                 faults>>

EndCleanup ==
  /\ cleanup.pc = "mounts" /\ cleanup.todo = {}
  /\ cleanup' = AtRest
  /\ UNCHANGED <<original, copy, newest, switched, recorded, release, containers, deploy,
                 migration, observed, faults>>

-----------------------------------------------------------------------------
\* The process ends, and starts in the same release or the other; a docker command in flight is
\* carried out in part or whole.
ProcessRestarts ==
  /\ release' \in {"new", "old"}
  /\ IF release = "old" /\ release' = "new" THEN FaultFree ELSE Fault
  /\ reverted' = (reverted \/ release' = "old")
  /\ deploy' = "none" /\ migration' = AtRest /\ cleanup' = AtRest
  /\ IF migration.pc = "copy"
     THEN \E m \in migration.mount, fs \in SUBSET Files : copy' = Overlay(m, fs)
     ELSE UNCHANGED copy
  /\ IF cleanup.pc = "remove"
     THEN /\ \E m \in cleanup.mount :
               original' \in {[original EXCEPT ![m] = d] : d \in Remains(m) \cup {NoDirectory}}
          /\ early' = (early \/ ~switched)
     ELSE UNCHANGED <<original, early>>
  /\ UNCHANGED <<newest, switched, recorded, containers, raced, crossed>>

MigrationNext ==
  \/ StartMigration \/ CheckStopped \/ EndMigration
  \/ \E m \in Mounts : Probe(m) \/ CopyFiles(m) \/ Verify(m)

CleanupNext ==
  \/ StartCleanup \/ EndCleanup
  \/ \E m \in Mounts : \/ ProbeOriginal(m) \/ ProbeManaged(m) \/ ListContainers(m)
                       \/ Compare(m) \/ Remove(m) \/ MarkRemoved(m)

MountNext ==
  \/ StartDeploy \/ Up \/ DeployFails \/ StopProject \/ ContainersExit \/ Revive
  \/ \E m \in Mounts : Seed(m) \/ \E f \in Files : Write(m, f)
  \/ MigrationNext \/ CleanupNext \/ ProcessRestarts

MountSpec == MountInit /\ [][MountNext]_mountVars

-----------------------------------------------------------------------------
(* Properties *)

\* The newest version of every file the app wrote is in the original or in the managed directory,
\* whatever fails or dies, and after the old release ran on the originals again, unless a deploy
\* brought them into use between the checks of a cleanup and its `rm`.
NothingLost ==
  crossed \/ \A m \in Mounts, f \in Files :
               newest[m][f] \in {original[m].file[f], copy[m].file[f]}

OnItsData ==
  \A m \in Mounts :
    newest[m] = IF containers'.on = "copy" THEN copy'[m].file ELSE original'[m].file

\* A deploy brings the project up on the newest data it wrote, before, during and after the move,
\* unless it ran beside a copy, a cleanup deleted an original before the switch, or the old release
\* ran in between.
StartsOnItsData ==
  [][Up => OnItsData \/ raced' \/ early \/ reverted]_mountVars
=============================================================================
