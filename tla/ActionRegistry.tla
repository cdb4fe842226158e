--------------------------- MODULE ActionRegistry ---------------------------
(***************************************************************************)
(* The action runner, src/src/modules/actions/registry.ts: one slot per    *)
(* key, the record of the latest action on each slot, its row in the       *)
(* actions table, and the runner, the async function tryStart was given.   *)
(*                                                                         *)
(* A runner ends its record in two ways: by returning (the .then and       *)
(* .catch of tryStart) and, for project actions, by emitting an event with *)
(* done set (emitProjectDeploy in src/src/application/realtime.ts).  Both  *)
(* call finish with the KEY of the slot.  After most "done" events the     *)
(* runner returns in the same turn of the event loop; after a deploy or a  *)
(* pull that syncAfterPull blocked it first awaits `git rev-parse HEAD`:   *)
(* the phase "tail".                                                       *)
(*                                                                         *)
(* An id stands for a record's UUID.  The ids of runs that are over are    *)
(* used again, so behaviours are unbounded; the row of such a run is then  *)
(* forgotten, as retention forgets it in the source.                       *)
(***************************************************************************)
EXTENDS Integers, FiniteSets

CONSTANTS Keys,      \* slots: a project's repo slot, a domain's SSL slot, nginx, ...
          RepoKeys,  \* those of projectRepoKey: only their runners emit "done" events and
                     \* spawn children that can be cancelled
          Ids,       \* record ids
          NoKey, NoId

ASSUME RegistryAssumption ==
  /\ RepoKeys \subseteq Keys
  /\ NoKey \notin Keys
  /\ NoId \notin Ids

VARIABLES current,   \* the `actions` map: key |-> latest record
          record,    \* record objects: key, in-memory status, meta.cancelledByUser
          row,       \* status column of the actions table
          runner,    \* where the async function of each record is
          canceler   \* the `cancelers` map: key |-> the record whose child process it signals

registryVars == <<current, record, row, runner, canceler>>

Statuses == {"none", "running", "success", "failed"}
RowStatuses == Statuses \cup {"cancelled", "interrupted"}
\* "command": a child process of this runner is alive
Phases == {"working", "command", "tail", "gone"}

Record == [key : Keys \cup {NoKey}, status : Statuses, byUser : BOOLEAN]

NoRecord == [key |-> NoKey, status |-> "none", byUser |-> FALSE]

IsRunning(k) == current[k] # NoId /\ record[current[k]].status = "running"

Alive(i) == runner[i] \in {"working", "command"}

-----------------------------------------------------------------------------
RegistryInit ==
  /\ current = [k \in Keys |-> NoId]
  /\ record = [i \in Ids |-> NoRecord]
  /\ row = [i \in Ids |-> "none"]
  /\ runner = [i \in Ids |-> "gone"]
  /\ canceler = [k \in Keys |-> NoId]

IsFree(i) == runner[i] = "gone" /\ \A k \in Keys : current[k] # i

\* tryStart: refused while the slot's record is running
TryStart(k, i) ==
  /\ ~IsRunning(k)
  /\ IsFree(i)
  /\ current' = [current EXCEPT ![k] = i]
  /\ record' = [record EXCEPT ![i] = [key |-> k, status |-> "running", byUser |-> FALSE]]
  /\ row' = [row EXCEPT ![i] = "running"]
  /\ runner' = [runner EXCEPT ![i] = "working"]
  /\ UNCHANGED canceler

MutFinishLeavesRow(k, ok) ==
  IF IsRunning(k)
    THEN /\ record' = [record EXCEPT ![current[k]].status = IF ok THEN "success" ELSE "failed"]
         /\ canceler' = [canceler EXCEPT ![k] = NoId]
         /\ UNCHANGED row
    ELSE UNCHANGED <<record, row, canceler>>

MutFinishTwice(k, ok) ==
  IF current[k] # NoId
    THEN /\ record' = [record EXCEPT ![current[k]].status = IF ok THEN "success" ELSE "failed"]
         /\ row' = [row EXCEPT ![current[k]] = IF ok THEN "success" ELSE "failed"]
         /\ canceler' = [canceler EXCEPT ![k] = NoId]
    ELSE UNCHANGED <<record, row, canceler>>

\* finish(key, ok): whatever record the slot holds now, if it is running
Finish(k, ok) ==
  IF IsRunning(k)
    THEN LET i == current[k] IN
         /\ record' = [record EXCEPT ![i].status = IF ok THEN "success" ELSE "failed"]
         /\ row' = [row EXCEPT ![i] = IF ok THEN "success"
                                      ELSE IF record[i].byUser THEN "cancelled" ELSE "failed"]
         /\ canceler' = [canceler EXCEPT ![k] = NoId]
    ELSE UNCHANGED <<record, row, canceler>>

\* run() of deployments/operations.ts: spawn a child and register its kill switch
Spawn(i) ==
  /\ runner[i] = "working" /\ record[i].key \in RepoKeys
  /\ runner' = [runner EXCEPT ![i] = "command"]
  /\ canceler' = [canceler EXCEPT ![record[i].key] = i]
  /\ UNCHANGED <<current, record, row>>

\* The child closes, on its own, by its timeout or by a signal
Exit(i) ==
  /\ runner[i] = "command"
  /\ runner' = [runner EXCEPT ![i] = "working"]
  /\ UNCHANGED <<current, record, row, canceler>>

MutReturnWithoutFinish(i, ok) ==
  /\ runner[i] = "working"
  /\ runner' = [runner EXCEPT ![i] = "gone"]
  /\ UNCHANGED <<current, record, row, canceler>>

\* The runner ends: a "done" event and its return in one turn, a return without one, or a throw
Return(i, ok) ==
  /\ runner[i] = "working"
  /\ Finish(record[i].key, ok)
  /\ runner' = [runner EXCEPT ![i] = "gone"]
  /\ UNCHANGED current

\* The sync-blocked exit of a deploy or a pull: "done" is out, `git rev-parse HEAD` was spawned
\* in the same turn, and the runner has not returned
BlockedDone(i) ==
  LET k == record[i].key IN
  /\ runner[i] = "working" /\ k \in RepoKeys
  /\ IF IsRunning(k)
       THEN /\ record' = [record EXCEPT ![current[k]].status = "failed"]
            /\ row' = [row EXCEPT ![current[k]] =
                         IF record[current[k]].byUser THEN "cancelled" ELSE "failed"]
       ELSE UNCHANGED <<record, row>>
  /\ canceler' = [canceler EXCEPT ![k] = i]
  /\ runner' = [runner EXCEPT ![i] = "tail"]
  /\ UNCHANGED current

\* That runner returns {ok: false}: finish is called a second time for its key
TailReturn(i) ==
  /\ runner[i] = "tail"
  /\ Finish(record[i].key, FALSE)
  /\ runner' = [runner EXCEPT ![i] = "gone"]
  /\ UNCHANGED current

\* cancel(key): tag the record and signal the child; the runner then ends through Exit and Return
Cancel(k) ==
  /\ IsRunning(k)
  /\ canceler[k] # NoId
  /\ record' = [record EXCEPT ![current[k]].byUser = TRUE]
  /\ UNCHANGED <<current, row, runner, canceler>>

\* The process dies and boots again: memory and child processes are gone, markInterruptedActions
\* runs before anything can start
Restart ==
  /\ current' = [k \in Keys |-> NoId]
  /\ record' = [i \in Ids |-> NoRecord]
  /\ row' = [i \in Ids |-> IF row[i] = "running" THEN "interrupted" ELSE row[i]]
  /\ runner' = [i \in Ids |-> "gone"]
  /\ canceler' = [k \in Keys |-> NoId]

RunnerStep(i) ==
  \/ Spawn(i) \/ Exit(i) \/ BlockedDone(i) \/ TailReturn(i)
  \/ \E ok \in BOOLEAN : Return(i, ok)

RegistryNext ==
  \/ \E k \in Keys : Cancel(k) \/ (\E i \in Ids : TryStart(k, i))
  \/ \E i \in Ids : RunnerStep(i)
  \/ Restart

\* Children have timeouts and a runner spawns finitely many of them, so it cannot put off its
\* return for ever.
RunnerFairness ==
  \A i \in Ids : /\ WF_registryVars(Exit(i))
                 /\ SF_registryVars(\E ok \in BOOLEAN : Return(i, ok))
                 /\ WF_registryVars(TailReturn(i))

RegistrySpec == RegistryInit /\ [][RegistryNext]_registryVars /\ RunnerFairness

-----------------------------------------------------------------------------
(* Every variable has its type. *)
RegistryTypeOK ==
  /\ current \in [Keys -> Ids \cup {NoId}]
  /\ record \in [Ids -> Record]
  /\ row \in [Ids -> RowStatuses]
  /\ runner \in [Ids -> Phases]
  /\ canceler \in [Keys -> Ids \cup {NoId}]

(* The actions table says "running" of exactly the record that holds its slot
   (INSERT in tryStart, UPDATE in finish, markInterruptedActions). *)
RowsFollowSlots ==
  \A i \in Ids : row[i] = "running" <=> \E k \in Keys : current[k] = i /\ IsRunning(k)

(* A slot that refuses new actions has a runner that can still release it: no early
   return, blocked sync or second finish leaves a slot busy for ever. *)
BusySlotHasRunner == \A k \in Keys : IsRunning(k) => Alive(current[k])

(* A run's outcome is final: no later finish, restart or runner of another action
   rewrites it; only a new run on a recycled id does. *)
OutcomeIsFinal ==
  [][\A i \in Ids : row[i] \notin {"none", "running"} /\ row'[i] # row[i]
       => row'[i] = "running" /\ ~Alive(i)]_registryVars

(* Every action ends: a busy slot is released. *)
SlotIsReleased == \A k \in Keys : IsRunning(k) ~> ~IsRunning(k)

(* Stackport.md l.322: the runner "allows one action per slot": no two runners work
   for one key at a time. *)
OneWorkerPerSlot ==
  \A i, j \in Ids : Alive(i) /\ Alive(j) /\ record[i].key = record[j].key => i = j

=============================================================================
