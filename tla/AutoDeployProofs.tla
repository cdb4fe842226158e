--------------------------- MODULE AutoDeployProofs ---------------------------
(***************************************************************************)
(* ActionRegistry and AutoDeploy, which uses it.                           *)
(*                                                                         *)
(* ActionRegistry is proved for every set of slots and of record ids: the  *)
(* actions table says "running" of exactly the records that hold a slot,   *)
(* a busy slot has a runner, and an outcome once written stays.  That a    *)
(* busy slot is released in the end is left to TLC.                        *)
(*                                                                         *)
(* AutoDeploy is proved for every set of branches, of record ids and of    *)
(* other slots, and for any number of pushes, operator requests and        *)
(* restarts: it uses the action runner as ActionRegistry allows, the       *)
(* commit shown as queued is the one that is, it has something that will   *)
(* take it up, a commit is recorded when its deploy starts, and polling    *)
(* alone deploys no commit after a later one.  That the tip is deployed in *)
(* the end is left to TLC.                                                 *)
(***************************************************************************)
EXTENDS AutoDeploy, TLAPS

-----------------------------------------------------------------------------
(* ActionRegistry: the inductive invariant *)

(* What makes them inductive: a runner works for a slot, and a record is held by no slot
   but its own. *)
RunnersHaveKeys == \A i \in Ids : runner[i] # "gone" => record[i].key \in Keys

HeldByOwnSlot == \A k \in Keys : current[k] # NoId => record[current[k]].key = k

RegistryInv == /\ RegistryTypeOK
               /\ RunnersHaveKeys
               /\ HeldByOwnSlot
               /\ RowsFollowSlots
               /\ BusySlotHasRunner

(* A record is in at most one slot. *)
LEMMA OneSlot ==
  ASSUME RegistryInv, NEW k \in Keys, NEW j \in Keys,
         current[k] = current[j], current[k] # NoId
  PROVE  k = j
BY DEF RegistryInv, HeldByOwnSlot

-----------------------------------------------------------------------------
(* Ending the action of a slot *)

\* What every way of ending the action of slot k does to the records and their rows
Ends(k) ==
  /\ current' = current
  /\ \/ /\ IsRunning(k)
        /\ \E s \in {"success", "failed"}, w \in RowStatuses \ {"none", "running"} :
             /\ record' = [record EXCEPT ![current[k]].status = s]
             /\ row' = [row EXCEPT ![current[k]] = w]
     \/ ~IsRunning(k) /\ UNCHANGED <<record, row>>

LEMMA FinishEnds ==
  ASSUME NEW k \in Keys, NEW ok \in BOOLEAN, Finish(k, ok), current' = current
  PROVE  Ends(k)
BY DEF Finish, Ends, RowStatuses, Statuses

LEMMA EndsTypes ==
  ASSUME RegistryInv, NEW k \in Keys, Ends(k)
  PROVE  /\ current' \in [Keys -> Ids \cup {NoId}]
         /\ record' \in [Ids -> Record]
         /\ row' \in [Ids -> RowStatuses]
         /\ \A i \in Ids : record'[i].key = record[i].key
         /\ HeldByOwnSlot'
<1>1. RegistryTypeOK /\ HeldByOwnSlot
  BY DEF RegistryInv
<1>2. CASE UNCHANGED <<record, row>>
  BY <1>1, <1>2 DEF Ends, RegistryTypeOK, HeldByOwnSlot
<1>3. ASSUME IsRunning(k), NEW s \in {"success", "failed"},
             NEW w \in RowStatuses \ {"none", "running"},
             record' = [record EXCEPT ![current[k]].status = s],
             row' = [row EXCEPT ![current[k]] = w]
      PROVE  /\ record' \in [Ids -> Record] /\ row' \in [Ids -> RowStatuses]
             /\ \A i \in Ids : record'[i].key = record[i].key
             /\ HeldByOwnSlot'
  <2>1. current[k] \in Ids
    BY <1>1, <1>3 DEF IsRunning, RegistryTypeOK
  <2>2. s \in Statuses
    BY DEF Statuses
  <2>3. record' \in [Ids -> Record]
    BY <1>1, <1>3, <2>1, <2>2 DEF RegistryTypeOK, Record
  <2>4. row' \in [Ids -> RowStatuses]
    BY <1>1, <1>3, <2>1 DEF RegistryTypeOK
  <2>5. \A i \in Ids : record'[i].key = record[i].key
    BY <1>1, <1>3, <2>1 DEF RegistryTypeOK, Record
  <2>6. current' = current /\ current \in [Keys -> Ids \cup {NoId}]
    BY <1>1 DEF Ends, RegistryTypeOK
  <2>7. HeldByOwnSlot'
    BY <1>1, <2>5, <2>6 DEF HeldByOwnSlot
  <2> QED
    BY <2>3, <2>4, <2>5, <2>7
<1> QED
  BY <1>1, <1>2, <1>3 DEF Ends, RegistryTypeOK

(* Afterwards slot k is free, the others are as they were, and so are their rows. *)
LEMMA EndsSlots ==
  ASSUME RegistryInv, NEW k \in Keys, Ends(k)
  PROVE  /\ ~IsRunning(k)'
         /\ \A j \in Keys \ {k} : IsRunning(j)' = IsRunning(j)
         /\ RowsFollowSlots'
<1>1. RegistryTypeOK /\ RowsFollowSlots
  BY DEF RegistryInv
<1>2. CASE ~IsRunning(k) /\ UNCHANGED <<record, row>>
  BY <1>1, <1>2 DEF Ends, IsRunning, RowsFollowSlots
<1>3. ASSUME IsRunning(k), NEW s \in {"success", "failed"},
             NEW w \in RowStatuses \ {"none", "running"},
             record' = [record EXCEPT ![current[k]].status = s],
             row' = [row EXCEPT ![current[k]] = w]
      PROVE  /\ ~IsRunning(k)'
             /\ \A j \in Keys \ {k} : IsRunning(j)' = IsRunning(j)
             /\ RowsFollowSlots'
  <2> DEFINE i == current[k]
  <2>1. i \in Ids /\ i # NoId /\ current' = current
    BY <1>1, <1>3 DEF IsRunning, RegistryTypeOK, Ends
  <2>2. record'[i].status = s /\ row'[i] = w
    BY <1>1, <1>3, <2>1 DEF RegistryTypeOK, Record
  <2>3. \A j \in Ids \ {i} : record'[j] = record[j] /\ row'[j] = row[j]
    BY <1>1, <1>3, <2>1 DEF RegistryTypeOK
  <2>4. \A j \in Keys \ {k} : current[j] # i
    BY <2>1, OneSlot
  <2>5. ~IsRunning(k)'
    BY <2>1, <2>2 DEF IsRunning
  <2>6. \A j \in Keys : current[j] # NoId => current[j] \in Ids
    BY <1>1 DEF RegistryTypeOK
  <2>7. ASSUME NEW j \in Keys \ {k} PROVE IsRunning(j)' = IsRunning(j)
    BY <2>1, <2>3, <2>4, <2>6 DEF IsRunning
  <2>8. ASSUME NEW n \in Ids
        PROVE  (row[n] = "running")' <=> \E j \in Keys : (current[j] = n /\ IsRunning(j))'
    <3>1. CASE n = i
      BY <2>1, <2>2, <2>4, <2>5, <3>1
    <3>2. CASE n # i
      <4>1. (row[n] = "running")' <=> \E j \in Keys : current[j] = n /\ IsRunning(j)
        BY <1>1, <2>3, <3>2 DEF RowsFollowSlots
      <4> QED
        BY <2>1, <2>7, <3>2, <4>1
    <3> QED
      BY <3>1, <3>2
  <2> QED
    BY <2>5, <2>7, <2>8 DEF RowsFollowSlots
<1> QED
  BY <1>2, <1>3 DEF Ends

(* When the runner that ends is the one of its own slot's action, busy slots keep theirs. *)
LEMMA EndsRunner ==
  ASSUME RegistryInv, NEW i \in Ids, NEW phase \in Phases,
         record[i].key \in Keys, Ends(record[i].key), runner' = [runner EXCEPT ![i] = phase]
  PROVE  BusySlotHasRunner'
<1>1. RegistryTypeOK /\ HeldByOwnSlot /\ BusySlotHasRunner
  BY DEF RegistryInv
<1>2. SUFFICES ASSUME NEW j \in Keys, IsRunning(j)' PROVE Alive(current[j])'
  BY DEF BusySlotHasRunner
<1>3. j # record[i].key /\ IsRunning(j)
  BY <1>2, EndsSlots
<1>4. current[j] # NoId /\ current[j] \in Ids /\ current[j] # i
  BY <1>1, <1>3 DEF IsRunning, RegistryTypeOK, HeldByOwnSlot
<1>5. Alive(current[j])
  BY <1>1, <1>3 DEF BusySlotHasRunner
<1>6. runner'[current[j]] = runner[current[j]] /\ current' = current
  BY <1>1, <1>4 DEF RegistryTypeOK, Ends
<1> QED
  BY <1>5, <1>6 DEF Alive

(* One lemma for the ways a runner moves on while its slot's action ends: Return,
   BlockedDone and TailReturn. *)
LEMMA EndsKeepInv ==
  ASSUME RegistryInv, NEW i \in Ids, NEW phase \in Phases,
         runner[i] # "gone", Ends(record[i].key), runner' = [runner EXCEPT ![i] = phase],
         canceler' \in [Keys -> Ids \cup {NoId}]
  PROVE  RegistryInv'
<1>1. RegistryTypeOK /\ RunnersHaveKeys
  BY DEF RegistryInv
<1>2. record[i].key \in Keys
  BY <1>1 DEF RunnersHaveKeys
<1>3. runner' \in [Ids -> Phases]
  BY <1>1 DEF RegistryTypeOK
<1>4. RegistryTypeOK' /\ HeldByOwnSlot' /\ \A j \in Ids : record'[j].key = record[j].key
  BY <1>2, <1>3, EndsTypes DEF RegistryTypeOK
<1>5. RunnersHaveKeys'
  BY <1>1, <1>2, <1>4 DEF RunnersHaveKeys, RegistryTypeOK
<1>6. RowsFollowSlots'
  BY <1>2, EndsSlots
<1>7. BusySlotHasRunner'
  BY <1>2, EndsRunner
<1> QED
  BY <1>4, <1>5, <1>6, <1>7 DEF RegistryInv

-----------------------------------------------------------------------------
(* The other actions *)

LEMMA InitInv == RegistryInit => RegistryInv
<1> SUFFICES ASSUME RegistryInit PROVE RegistryInv
  OBVIOUS
<1>1. RegistryTypeOK
  BY DEF RegistryInit, RegistryTypeOK, NoRecord, Record, Statuses, RowStatuses, Phases
<1>2. RunnersHaveKeys /\ HeldByOwnSlot /\ RowsFollowSlots /\ BusySlotHasRunner
  BY DEF RegistryInit, RunnersHaveKeys, HeldByOwnSlot, RowsFollowSlots, BusySlotHasRunner, IsRunning
<1> QED
  BY <1>1, <1>2 DEF RegistryInv

LEMMA TryStartInv ==
  ASSUME RegistryInv, NEW k \in Keys, NEW i \in Ids, TryStart(k, i)
  PROVE  RegistryInv'
<1> DEFINE fresh == [key |-> k, status |-> "running", byUser |-> FALSE]
<1>1. /\ RegistryTypeOK /\ RunnersHaveKeys /\ HeldByOwnSlot
      /\ RowsFollowSlots /\ BusySlotHasRunner /\ i # NoId
  BY RegistryAssumption DEF RegistryInv
<1>2. /\ ~IsRunning(k) /\ runner[i] = "gone" /\ \A j \in Keys : current[j] # i
      /\ current' = [current EXCEPT ![k] = i] /\ record' = [record EXCEPT ![i] = fresh]
      /\ row' = [row EXCEPT ![i] = "running"] /\ runner' = [runner EXCEPT ![i] = "working"]
      /\ canceler' = canceler
  BY DEF TryStart, IsFree
<1>3. fresh \in Record /\ "running" \in RowStatuses /\ "working" \in Phases
  BY DEF Record, Statuses, RowStatuses, Phases
<1>4. RegistryTypeOK'
  BY <1>1, <1>2, <1>3 DEF RegistryTypeOK
<1>5. /\ current'[k] = i /\ record'[i] = fresh /\ row'[i] = "running" /\ runner'[i] = "working"
      /\ \A j \in Keys \ {k} : current'[j] = current[j]
      /\ \A n \in Ids \ {i} : record'[n] = record[n] /\ row'[n] = row[n] /\ runner'[n] = runner[n]
  BY <1>1, <1>2 DEF RegistryTypeOK
<1>6. \A j \in Keys : current[j] # NoId => current[j] \in Ids \ {i}
  BY <1>1, <1>2 DEF RegistryTypeOK
<1>7. RunnersHaveKeys'
  BY <1>1, <1>5 DEF RunnersHaveKeys
<1>8. HeldByOwnSlot'
  BY <1>1, <1>5, <1>6 DEF HeldByOwnSlot
<1>9. IsRunning(k)' /\ \A j \in Keys \ {k} : IsRunning(j)' = IsRunning(j)
  BY <1>1, <1>5, <1>6 DEF IsRunning
<1>10. RowsFollowSlots'
  <2>1. ASSUME NEW n \in Ids
        PROVE  (row[n] = "running")' <=> \E j \in Keys : (current[j] = n /\ IsRunning(j))'
    <3>1. CASE n = i
      BY <1>5, <1>9, <3>1
    <3>2. CASE n # i
      <4>1. (row[n] = "running")' <=> \E j \in Keys : current[j] = n /\ IsRunning(j)
        BY <1>1, <1>5, <3>2 DEF RowsFollowSlots
      <4>2. (\E j \in Keys : current[j] = n /\ IsRunning(j))
              <=> \E j \in Keys \ {k} : current[j] = n /\ IsRunning(j)
        BY <1>2
      <4> QED
        BY <1>5, <1>9, <3>2, <4>1, <4>2
    <3> QED
      BY <3>1, <3>2
  <2> QED
    BY <2>1 DEF RowsFollowSlots
<1>11. BusySlotHasRunner'
  <2>1. SUFFICES ASSUME NEW j \in Keys, IsRunning(j)' PROVE Alive(current[j])'
    BY DEF BusySlotHasRunner
  <2>2. CASE j = k
    BY <1>5, <2>2 DEF Alive
  <2>3. CASE j # k
    <3>1. IsRunning(j) /\ current'[j] = current[j] /\ current[j] \in Ids \ {i}
      BY <1>5, <1>6, <1>9, <2>1, <2>3 DEF IsRunning
    <3> QED
      BY <1>1, <1>5, <3>1 DEF BusySlotHasRunner, Alive
  <2> QED
    BY <2>2, <2>3
<1> QED
  BY <1>4, <1>7, <1>8, <1>10, <1>11 DEF RegistryInv

(* A child spawned or closed changes the phase of a live runner to another live phase. *)
LEMMA CommandInv ==
  ASSUME RegistryInv, NEW i \in Ids, Spawn(i) \/ Exit(i)
  PROVE  RegistryInv'
<1>1. /\ RegistryTypeOK /\ RunnersHaveKeys /\ HeldByOwnSlot
      /\ RowsFollowSlots /\ BusySlotHasRunner
  BY DEF RegistryInv
<1>2. /\ current' = current /\ record' = record /\ row' = row /\ Alive(i)
      /\ \E p \in {"working", "command"} : runner' = [runner EXCEPT ![i] = p]
      /\ canceler' \in [Keys -> Ids \cup {NoId}]
  BY <1>1 DEF Spawn, Exit, Alive, RegistryTypeOK
<1>3. RegistryTypeOK'
  BY <1>1, <1>2 DEF RegistryTypeOK, Phases
<1>4. \A n \in Ids : Alive(n) => Alive(n)'
  BY <1>1, <1>2 DEF RegistryTypeOK, Alive
<1>5. \A n \in Ids : runner'[n] # "gone" => runner[n] # "gone"
  BY <1>1, <1>2 DEF RegistryTypeOK, Alive
<1>6. RunnersHaveKeys' /\ HeldByOwnSlot' /\ RowsFollowSlots'
  BY <1>1, <1>2, <1>5 DEF RunnersHaveKeys, HeldByOwnSlot, RowsFollowSlots, IsRunning
<1>7. BusySlotHasRunner'
  <2>1. \A k \in Keys : IsRunning(k) => current[k] \in Ids
    BY <1>1 DEF IsRunning, RegistryTypeOK
  <2>2. ASSUME NEW k \in Keys, IsRunning(k)' PROVE Alive(current[k])'
    <3>1. IsRunning(k)
      BY <1>2, <2>2 DEF IsRunning
    <3> QED
      BY <1>1, <1>2, <1>4, <2>1, <3>1 DEF BusySlotHasRunner, Alive
  <2> QED
    BY <2>2 DEF BusySlotHasRunner
<1> QED
  BY <1>3, <1>6, <1>7 DEF RegistryInv

LEMMA CancelInv ==
  ASSUME RegistryInv, NEW k \in Keys, Cancel(k)
  PROVE  RegistryInv'
<1>1. /\ RegistryTypeOK /\ RunnersHaveKeys /\ HeldByOwnSlot
      /\ RowsFollowSlots /\ BusySlotHasRunner
  BY DEF RegistryInv
<1>2. /\ current' = current /\ row' = row /\ runner' = runner /\ canceler' = canceler
      /\ record' = [record EXCEPT ![current[k]].byUser = TRUE] /\ current[k] \in Ids
  BY <1>1 DEF Cancel, IsRunning, RegistryTypeOK
<1>3. RegistryTypeOK' /\ \A n \in Ids : /\ record'[n].key = record[n].key
                                        /\ record'[n].status = record[n].status
  BY <1>1, <1>2 DEF RegistryTypeOK, Record
<1>4. \A j \in Keys : current[j] # NoId => current[j] \in Ids
  BY <1>1 DEF RegistryTypeOK
<1>5. \A j \in Keys : IsRunning(j)' = IsRunning(j)
  BY <1>2, <1>3, <1>4 DEF IsRunning
<1>6. RunnersHaveKeys' /\ HeldByOwnSlot'
  BY <1>1, <1>2, <1>3, <1>4 DEF RunnersHaveKeys, HeldByOwnSlot
<1>7. RowsFollowSlots' /\ BusySlotHasRunner'
  BY <1>1, <1>2, <1>5 DEF RowsFollowSlots, BusySlotHasRunner, Alive
<1> QED
  BY <1>3, <1>6, <1>7 DEF RegistryInv

LEMMA RestartInv ==
  ASSUME RegistryInv, Restart
  PROVE  RegistryInv'
<1>1. RegistryTypeOK /\ row' = [i \in Ids |-> IF row[i] = "running" THEN "interrupted" ELSE row[i]]
  BY DEF RegistryInv, Restart
<1>2. row' \in [Ids -> RowStatuses] /\ \A i \in Ids : row'[i] # "running"
  BY <1>1 DEF RegistryTypeOK, RowStatuses
<1>3. RegistryTypeOK'
  BY <1>2 DEF Restart, RegistryTypeOK, NoRecord, Record, Statuses, Phases
<1>4. RunnersHaveKeys' /\ HeldByOwnSlot' /\ RowsFollowSlots' /\ BusySlotHasRunner'
  BY <1>2 DEF Restart, RunnersHaveKeys, HeldByOwnSlot, RowsFollowSlots, BusySlotHasRunner, IsRunning
<1> QED
  BY <1>3, <1>4 DEF RegistryInv

-----------------------------------------------------------------------------
(* The runner's ends *)

LEMMA ReturnEnds ==
  ASSUME RegistryInv, NEW i \in Ids,
         \/ \E ok \in BOOLEAN : Return(i, ok)
         \/ BlockedDone(i)
         \/ TailReturn(i)
  PROVE  /\ runner[i] # "gone" /\ Ends(record[i].key)
         /\ \E p \in Phases : runner' = [runner EXCEPT ![i] = p]
         /\ canceler' \in [Keys -> Ids \cup {NoId}]
<1>1. RegistryTypeOK /\ RunnersHaveKeys
  BY DEF RegistryInv
<1>2. ASSUME NEW ok \in BOOLEAN, Finish(record[i].key, ok), current' = current,
             runner[i] # "gone"
      PROVE  Ends(record[i].key) /\ canceler' \in [Keys -> Ids \cup {NoId}]
  <2>1. record[i].key \in Keys
    BY <1>1, <1>2 DEF RunnersHaveKeys
  <2>2. canceler' = canceler \/ canceler' = [canceler EXCEPT ![record[i].key] = NoId]
    BY <1>2 DEF Finish
  <2> QED
    BY <1>1, <1>2, <2>1, <2>2, FinishEnds DEF RegistryTypeOK
<1>3. ASSUME NEW ok \in BOOLEAN, Return(i, ok)
      PROVE  /\ runner[i] # "gone" /\ Finish(record[i].key, ok) /\ current' = current
             /\ runner' = [runner EXCEPT ![i] = "gone"]
  BY <1>3 DEF Return
<1>4. CASE TailReturn(i)
  <2>1. /\ runner[i] # "gone" /\ Finish(record[i].key, FALSE) /\ current' = current
        /\ runner' = [runner EXCEPT ![i] = "gone"]
    BY <1>4 DEF TailReturn
  <2> QED
    BY <1>2, <2>1 DEF Phases
<1>5. CASE BlockedDone(i)
  <2>1. /\ runner[i] = "working" /\ current' = current
        /\ runner' = [runner EXCEPT ![i] = "tail"]
        /\ canceler' = [canceler EXCEPT ![record[i].key] = i]
    BY <1>5 DEF BlockedDone
  <2>2. Ends(record[i].key)
    BY <1>5 DEF BlockedDone, Ends, RowStatuses, Statuses
  <2> QED
    BY <1>1, <2>1, <2>2 DEF Phases, RegistryTypeOK
<1> QED
  BY <1>2, <1>3, <1>4, <1>5 DEF Phases

LEMMA NextInv == RegistryInv /\ [RegistryNext]_registryVars => RegistryInv'
<1> SUFFICES ASSUME RegistryInv, [RegistryNext]_registryVars PROVE RegistryInv'
  OBVIOUS
<1>1. ASSUME NEW k \in Keys, Cancel(k) PROVE RegistryInv'
  BY <1>1, CancelInv
<1>2. ASSUME NEW k \in Keys, NEW i \in Ids, TryStart(k, i) PROVE RegistryInv'
  BY <1>2, TryStartInv
<1>3. ASSUME NEW i \in Ids, Spawn(i) \/ Exit(i) PROVE RegistryInv'
  BY <1>3, CommandInv
<1>4. ASSUME NEW i \in Ids,
             (\E ok \in BOOLEAN : Return(i, ok)) \/ BlockedDone(i) \/ TailReturn(i)
      PROVE  RegistryInv'
  BY <1>4, ReturnEnds, EndsKeepInv
<1>5. CASE Restart
  BY <1>5, RestartInv
<1>6. CASE UNCHANGED registryVars
  BY <1>6 DEF registryVars, RegistryInv, RegistryTypeOK, RunnersHaveKeys, HeldByOwnSlot,
              RowsFollowSlots, BusySlotHasRunner, IsRunning, Alive
<1> QED
  BY <1>1, <1>2, <1>3, <1>4, <1>5, <1>6 DEF RegistryNext, RunnerStep

(* Every variable of the registry has its type. *)
THEOREM RegistryTypeCorrect == RegistrySpec => []RegistryTypeOK
<1>1. RegistryInv => RegistryTypeOK
  BY DEF RegistryInv
<1> QED
  BY InitInv, NextInv, <1>1, PTL DEF RegistrySpec

(* The actions table says "running" of a record exactly while it holds its slot: no finish,
   second finish, cancel or restart leaves one behind (registry.ts, finish and
   markInterruptedActions). *)
THEOREM RowsFollow == RegistrySpec => []RowsFollowSlots
<1>1. RegistryInv => RowsFollowSlots
  BY DEF RegistryInv
<1> QED
  BY InitInv, NextInv, <1>1, PTL DEF RegistrySpec

(* A slot that refuses new actions has a runner that can release it. *)
THEOREM BusySlotsHaveRunners == RegistrySpec => []BusySlotHasRunner
<1>1. RegistryInv => BusySlotHasRunner
  BY DEF RegistryInv
<1> QED
  BY InitInv, NextInv, <1>1, PTL DEF RegistrySpec

-----------------------------------------------------------------------------
(* The action property *)

LEMMA EndsIsFinal ==
  ASSUME RegistryInv, NEW k \in Keys, Ends(k), NEW i \in Ids, row[i] # "running"
  PROVE  row'[i] = row[i]
<1>1. RegistryTypeOK /\ RowsFollowSlots
  BY DEF RegistryInv
<1>2. CASE row' = row
  BY <1>2
<1>3. ASSUME IsRunning(k), NEW w \in RowStatuses, row' = [row EXCEPT ![current[k]] = w]
      PROVE  row'[i] = row[i]
  <2>1. current[k] # i
    BY <1>1, <1>3 DEF RowsFollowSlots
  <2> QED
    BY <1>1, <1>3, <2>1 DEF RegistryTypeOK
<1> QED
  BY <1>2, <1>3 DEF Ends

(* An outcome in the actions table is never written over, except by a new run on a recycled
   id: finish, which is called by key, cannot reach a record that is over. *)
THEOREM OutcomesAreFinal == RegistrySpec => OutcomeIsFinal
<1> DEFINE Final == \A i \in Ids : row[i] \notin {"none", "running"} /\ row'[i] # row[i]
                                    => row'[i] = "running" /\ ~Alive(i)
<1>1. RegistryInv /\ [RegistryNext]_registryVars => [Final]_registryVars
  <2> SUFFICES ASSUME RegistryInv, RegistryNext, NEW i \in Ids,
                      row[i] \notin {"none", "running"}, row'[i] # row[i]
               PROVE  row'[i] = "running" /\ ~Alive(i)
    BY DEF registryVars
  <2>1. RegistryTypeOK /\ RunnersHaveKeys
    BY DEF RegistryInv
  <2>2. ASSUME NEW k \in Keys, NEW j \in Ids, TryStart(k, j)
        PROVE  row'[i] = "running" /\ ~Alive(i)
    BY <2>1, <2>2 DEF TryStart, IsFree, Alive, RegistryTypeOK
  <2>3. ASSUME NEW k \in Keys, Cancel(k) PROVE FALSE
    BY <2>3 DEF Cancel
  <2>4. ASSUME NEW j \in Ids, Spawn(j) \/ Exit(j) PROVE FALSE
    BY <2>4 DEF Spawn, Exit
  <2>5. ASSUME NEW j \in Ids,
               (\E ok \in BOOLEAN : Return(j, ok)) \/ BlockedDone(j) \/ TailReturn(j)
        PROVE  FALSE
    <3>1. runner[j] # "gone" /\ Ends(record[j].key)
      BY <2>5, ReturnEnds
    <3>2. record[j].key \in Keys
      BY <2>1, <3>1 DEF RunnersHaveKeys
    <3> QED
      BY <3>1, <3>2, EndsIsFinal
  <2>6. CASE Restart
    BY <2>1, <2>6 DEF Restart, RegistryTypeOK
  <2> QED
    BY <2>2, <2>3, <2>4, <2>5, <2>6 DEF RegistryNext, RunnerStep
<1> QED
  BY InitInv, NextInv, <1>1, PTL DEF RegistrySpec, OutcomeIsFinal

-----------------------------------------------------------------------------
(* AutoDeploy: the inductive invariants *)

Commit == Branches \X Nat

AutoTypeOK ==
  /\ head \in [Branches -> Nat]
  /\ project \in [branch : Branches, paused : BOOLEAN, trigger : Triggers]
  /\ pending \in Commit \cup {NoCommit}
  /\ wake \in BOOLEAN
  /\ poll \in [phase : {"idle", "fetching", "fetched"}, last : Commit \cup {NoCommit},
               marker : Commit \cup {NoCommit}, seen : Commit \cup {NoCommit},
               trigger : Triggers, branch : Branches]
  /\ lastSha \in Commit \cup {NoCommit} /\ marker \in Commit \cup {NoCommit}
  /\ meta \in [Ids -> Commit \cup {NoCommit}]
  /\ poll.phase = "fetched" => poll.seen \in Commit

\* c is not after d if they are of one branch
NotAfter(c, d) == c[1] = d[1] => c[2] <= d[2]

\* Without deliveries: the commits deployed, then the one queued, then the one a poll brings,
\* then the tip of the branch
InOrder ==
  handled = {} =>
    /\ \A i \in Ids : meta[i] # NoCommit =>
         /\ meta[i][2] <= head[meta[i][1]]
         /\ pending # NoCommit => NotAfter(meta[i], pending)
         /\ poll.phase = "fetched" => NotAfter(meta[i], poll.seen)
    /\ pending # NoCommit =>
         /\ pending[2] <= head[pending[1]]
         /\ poll.phase = "fetched" => NotAfter(pending, poll.seen)
    /\ poll.phase = "fetched" => poll.seen[2] <= head[poll.seen[1]]

AutoInv == RegistryInv /\ AutoTypeOK /\ MarkerMatchesQueue /\ QueueIsWatched /\ InOrder

-----------------------------------------------------------------------------
(* The slot *)

LEMMA SlotIsKey == Slot \in Keys
BY RegistryAssumption, AutoAssumption

(* What happens to the slot is what the registry lets happen to any. *)
LEMMA RegistryStep == [AutoNext]_autoVars => [RegistryNext]_registryVars
<1> SUFFICES ASSUME [AutoNext]_autoVars PROVE RegistryNext \/ UNCHANGED registryVars
  BY DEF registryVars
<1>1. ASSUME NEW i \in Ids, TryStart(Slot, i) PROVE RegistryNext
  BY <1>1, SlotIsKey DEF RegistryNext
<1>2. ASSUME NEW c, RequestAutoDeploy(c) PROVE RegistryNext \/ UNCHANGED registryVars
  BY <1>1, <1>2 DEF RequestAutoDeploy, Start, Queue
<1>3. CASE Wake
  BY <1>2, <1>3 DEF Wake
<1>4. CASE OtherAction
  BY <1>1, <1>4 DEF OtherAction
<1>5. CASE Reboot
  BY <1>5 DEF Reboot, RegistryNext
<1>6. ASSUME NEW i \in Ids, RunnerEnds(i) PROVE RegistryNext
  <2>1. TRUE \in BOOLEAN
    OBVIOUS
  <2>2. (\E ok \in BOOLEAN : Return(i, ok)) \/ BlockedDone(i) \/ TailReturn(i)
    BY <1>6, <2>1 DEF RunnerEnds
  <2> QED
    BY <2>2 DEF RegistryNext, RunnerStep
<1>7. CASE PollSelect \/ PollFetch \/ PollFail
  BY <1>7 DEF PollSelect, PollFetch, PollFail
<1>8. CASE PollApply
  BY <1>2, <1>8 DEF PollApply
<1>9. ASSUME NEW c \in Commits, Deliver(c) PROVE RegistryNext \/ UNCHANGED registryVars
  BY <1>2, <1>9 DEF Deliver
<1>10. ASSUME NEW b \in Branches, Push(b) \/ SetBranch(b) PROVE UNCHANGED registryVars
  BY <1>10 DEF Push, SetBranch
<1>11. ASSUME NEW viaMcp \in BOOLEAN, SetPaused(viaMcp) PROVE UNCHANGED registryVars
  BY <1>11 DEF SetPaused
<1>12. ASSUME NEW t \in Triggers, SetTrigger(t) PROVE UNCHANGED registryVars
  BY <1>12 DEF SetTrigger
<1>13. CASE UNCHANGED autoVars
  BY <1>13 DEF autoVars
<1> QED
  BY <1>3, <1>4, <1>5, <1>6, <1>7, <1>8, <1>9, <1>10, <1>11, <1>12, <1>13 DEF AutoNext

(* An action that was started holds the slot, and its runner is at work. *)
LEMMA StartedRuns ==
  ASSUME RegistryInv, NEW i \in Ids, TryStart(Slot, i)
  PROVE  IsRunning(Slot)' /\ runner[i] = "gone" /\ runner'[i] = "working"
<1>1. RegistryTypeOK /\ i # NoId
  BY RegistryAssumption DEF RegistryInv
<1>2. current'[Slot] = i /\ record'[i].status = "running"
  BY <1>1, SlotIsKey DEF TryStart, RegistryTypeOK
<1> QED
  BY <1>1, <1>2 DEF TryStart, IsFree, IsRunning, RegistryTypeOK

-----------------------------------------------------------------------------
(* The request of a deploy, from wherever it comes *)

\* Whether it starts one or queues it
LEMMA RequestEffect ==
  ASSUME AutoInv, NEW c \in Commit \cup {NoCommit}, RequestAutoDeploy(c)
  PROVE  /\ pending' \in Commit \cup {NoCommit} /\ wake' \in BOOLEAN
         /\ lastSha' \in Commit \cup {NoCommit} /\ marker' \in Commit \cup {NoCommit}
         /\ meta' \in [Ids -> Commit \cup {NoCommit}]
         /\ MarkerMatchesQueue' /\ QueueIsWatched'
         /\ pending' \in {c, NoCommit}
         /\ \A i \in Ids : meta'[i] = meta[i] \/ (meta'[i] = c /\ pending' = NoCommit)
         /\ \/ lastSha' = lastSha
            \/ /\ lastSha' = c
               /\ \E i \in Ids : runner[i] = "gone" /\ runner'[i] = "working" /\ meta'[i] = c
<1>1. AutoTypeOK /\ RegistryInv
  BY DEF AutoInv
<1>2. ASSUME NEW i \in Ids, TryStart(Slot, i), lastSha' = c, marker' = NoCommit,
             meta' = [meta EXCEPT ![i] = c], pending' = NoCommit, wake' = FALSE
      PROVE  /\ meta' \in [Ids -> Commit \cup {NoCommit}]
             /\ \A n \in Ids : meta'[n] = meta[n] \/ meta'[n] = c
             /\ meta'[i] = c /\ runner[i] = "gone" /\ runner'[i] = "working"
  BY <1>1, <1>2, StartedRuns DEF AutoTypeOK
<1>3. CASE Start(c)
  <2>1. PICK i \in Ids : /\ TryStart(Slot, i) /\ lastSha' = c /\ marker' = NoCommit
                         /\ meta' = [meta EXCEPT ![i] = c] /\ pending' = NoCommit /\ wake' = FALSE
    BY <1>3 DEF Start
  <2>2. MarkerMatchesQueue' /\ QueueIsWatched'
    BY <2>1 DEF MarkerMatchesQueue, QueueIsWatched
  <2> QED
    BY <1>2, <2>1, <2>2
<1>4. CASE Queue(c)
  <2>1. /\ IsRunning(Slot) /\ pending' = c /\ marker' = c /\ wake' = FALSE
        /\ UNCHANGED <<lastSha, meta, current, record>>
    BY <1>4 DEF Queue, registryVars
  <2>2. MarkerMatchesQueue' /\ QueueIsWatched'
    BY <2>1 DEF MarkerMatchesQueue, QueueIsWatched, IsRunning
  <2> QED
    BY <1>1, <2>1, <2>2 DEF AutoTypeOK
<1> QED
  BY <1>3, <1>4 DEF RequestAutoDeploy

(* Dropping what is queued. *)
LEMMA ClearEffect ==
  ASSUME AutoInv, ClearPending
  PROVE  /\ pending' = NoCommit /\ marker' = NoCommit /\ wake' = FALSE
         /\ MarkerMatchesQueue' /\ QueueIsWatched'
BY DEF AutoInv, ClearPending, MarkerMatchesQueue, QueueIsWatched

-----------------------------------------------------------------------------
(* The steps *)

\* What AutoInv says besides the registry's part
QueueInv == AutoTypeOK /\ MarkerMatchesQueue /\ QueueIsWatched /\ InOrder

LEMMA WakeKeeps ==
  ASSUME AutoInv, Wake
  PROVE  QueueInv'
<1>1. UNCHANGED <<head, project, handled, poll>>
  BY DEF Wake, projectVars
<1>2. CASE RequestAutoDeploy(pending)
  <2>1. pending \in Commit \cup {NoCommit}
    BY DEF AutoInv, AutoTypeOK
  <2>2. AutoTypeOK' /\ MarkerMatchesQueue' /\ QueueIsWatched'
    BY <1>1, <1>2, <2>1, RequestEffect DEF AutoInv, AutoTypeOK
  <2>3. /\ pending' \in {pending, NoCommit}
        /\ \A i \in Ids : meta'[i] = meta[i] \/ (meta'[i] = pending /\ pending' = NoCommit)
    BY <1>2, <2>1, RequestEffect
  <2>4. InOrder'
    BY <1>1, <2>3 DEF AutoInv, InOrder, NotAfter
  <2> QED
    BY <2>2, <2>4 DEF QueueInv
<1>3. CASE ClearPending /\ UNCHANGED <<lastSha, meta>>
  <2>1. /\ pending' = NoCommit /\ marker' = NoCommit /\ wake' = FALSE
        /\ MarkerMatchesQueue' /\ QueueIsWatched'
    BY <1>3, ClearEffect
  <2>2. AutoTypeOK' /\ InOrder'
    BY <1>1, <1>3, <2>1 DEF AutoInv, AutoTypeOK, InOrder, NotAfter
  <2> QED
    BY <2>1, <2>2 DEF QueueInv
<1> QED
  BY <1>2, <1>3 DEF Wake

LEMMA OtherActionKeeps ==
  ASSUME AutoInv, OtherAction
  PROVE  QueueInv'
<1>1. PICK i \in Ids : TryStart(Slot, i) /\ meta' = [meta EXCEPT ![i] = NoCommit]
  BY DEF OtherAction
<1>2. UNCHANGED <<head, project, handled, poll, lastSha, marker, pending, wake>>
  BY DEF OtherAction
<1>3. IsRunning(Slot)'
  BY <1>1, StartedRuns DEF AutoInv
<1>4. /\ meta' \in [Ids -> Commit \cup {NoCommit}]
      /\ \A n \in Ids : meta'[n] \in {meta[n], NoCommit}
  BY <1>1 DEF AutoInv, AutoTypeOK
<1>5. AutoTypeOK' /\ MarkerMatchesQueue' /\ QueueIsWatched'
  BY <1>2, <1>3, <1>4 DEF AutoInv, AutoTypeOK, MarkerMatchesQueue, QueueIsWatched
<1>6. InOrder'
  BY <1>2, <1>4 DEF AutoInv, InOrder, NotAfter
<1> QED
  BY <1>5, <1>6 DEF QueueInv

(* Whoever ends the action of the slot, the finish listener hands over what is queued. *)
LEMMA RunnerEndsKeeps ==
  ASSUME AutoInv, NEW i \in Ids, RunnerEnds(i)
  PROVE  QueueInv'
<1>1. UNCHANGED <<head, project, handled, poll, lastSha, marker, pending, meta>>
      /\ wake' = (wake \/ (IsRunning(Slot) /\ pending # NoCommit))
  BY DEF RunnerEnds, projectVars, OnFinish
<1>2. AutoTypeOK' /\ MarkerMatchesQueue' /\ InOrder'
  BY <1>1 DEF AutoInv, AutoTypeOK, MarkerMatchesQueue, InOrder, NotAfter
<1>3. QueueIsWatched'
  BY <1>1 DEF AutoInv, QueueIsWatched
<1> QED
  BY <1>2, <1>3 DEF QueueInv

LEMMA RebootKeeps ==
  ASSUME AutoInv, Reboot
  PROVE  QueueInv'
<1>1. /\ pending' = NoCommit /\ wake' = FALSE /\ marker' = NoCommit /\ poll' = IdlePoll
      /\ meta' = [i \in Ids |-> NoCommit]
      /\ UNCHANGED <<head, project, handled, lastSha>>
  BY DEF Reboot
<1>2. AutoTypeOK'
  BY <1>1, AutoAssumption DEF AutoInv, AutoTypeOK, IdlePoll, Triggers
<1>3. MarkerMatchesQueue' /\ QueueIsWatched' /\ InOrder'
  BY <1>1 DEF MarkerMatchesQueue, QueueIsWatched, InOrder, IdlePoll
<1> QED
  BY <1>2, <1>3 DEF QueueInv

\* A poll that goes on, or ends without a commit
LEMMA PollKeeps ==
  ASSUME AutoInv, PollSelect \/ PollFetch \/ PollFail
  PROVE  QueueInv'
<1>1. UNCHANGED <<current, record, lastSha, marker, pending, wake, meta, head, project, handled>>
  BY DEF PollSelect, PollFetch, PollFail, queueVars, registryVars
<1>2. AutoTypeOK
  BY DEF AutoInv
<1>3. MarkerMatchesQueue' /\ QueueIsWatched'
  BY <1>1 DEF AutoInv, MarkerMatchesQueue, QueueIsWatched, IsRunning
<1>4. CASE PollSelect
  <2>1. AutoTypeOK' /\ poll'.phase = "fetching"
    BY <1>1, <1>2, <1>4 DEF PollSelect, AutoTypeOK
  <2>2. InOrder'
    BY <1>1, <2>1 DEF AutoInv, InOrder
  <2> QED
    BY <1>3, <2>1, <2>2 DEF QueueInv
<1>5. CASE PollFail
  <2>1. AutoTypeOK' /\ poll'.phase = "idle"
    BY <1>1, <1>2, <1>5, AutoAssumption DEF PollFail, AutoTypeOK, IdlePoll, Triggers
  <2>2. InOrder'
    BY <1>1, <2>1 DEF AutoInv, InOrder
  <2> QED
    BY <1>3, <2>1, <2>2 DEF QueueInv
<1>6. CASE PollFetch
  <2>1. poll' = [poll EXCEPT !.phase = "fetched", !.seen = Tip(poll.branch)]
        /\ Tip(poll.branch) \in Commit
    BY <1>2, <1>6 DEF PollFetch, Tip, AutoTypeOK, Commit
  <2>2. AutoTypeOK' /\ poll'.phase = "fetched" /\ poll'.seen[1] = poll.branch
        /\ poll'.seen[2] = head[poll.branch] /\ poll.branch \in Branches
    BY <1>1, <1>2, <2>1 DEF AutoTypeOK, Tip
  <2>3. InOrder'
    <3>1. \A c : c[2] <= head[c[1]] => NotAfter(c, poll'.seen)
      BY <2>2 DEF NotAfter
    <3>2. poll'.seen[2] <= head[poll'.seen[1]]
      BY <1>2, <2>2 DEF AutoTypeOK
    <3>3. handled' = {} => /\ \A i \in Ids : meta[i] # NoCommit =>
                                /\ meta[i][2] <= head[meta[i][1]]
                                /\ pending # NoCommit => NotAfter(meta[i], pending)
                           /\ pending # NoCommit => pending[2] <= head[pending[1]]
      BY <1>1 DEF AutoInv, InOrder
    <3> QED
      BY <1>1, <2>2, <3>1, <3>2, <3>3 DEF InOrder
  <2> QED
    BY <1>3, <2>2, <2>3 DEF QueueInv
<1> QED
  BY <1>4, <1>5, <1>6

(* The commit a poll brings is not before any that is deployed or queued. *)
LEMMA PollApplyKeeps ==
  ASSUME AutoInv, PollApply
  PROVE  QueueInv'
<1>1. /\ poll.phase = "fetched" /\ poll.seen \in Commit /\ poll' = IdlePoll
      /\ UNCHANGED <<head, project, handled>>
  BY DEF PollApply, AutoInv, AutoTypeOK
<1>2. poll' \in [phase : {"idle", "fetching", "fetched"}, last : Commit \cup {NoCommit},
               marker : Commit \cup {NoCommit}, seen : Commit \cup {NoCommit},
               trigger : Triggers, branch : Branches] /\ poll'.phase = "idle"
  BY <1>1, AutoAssumption DEF IdlePoll, Triggers
<1>3. CASE RequestAutoDeploy(poll.seen)
  <2>1. AutoTypeOK' /\ MarkerMatchesQueue' /\ QueueIsWatched'
    BY <1>1, <1>2, <1>3, RequestEffect DEF AutoInv, AutoTypeOK
  <2>2. /\ pending' \in {poll.seen, NoCommit}
        /\ \A i \in Ids : meta'[i] = meta[i] \/ (meta'[i] = poll.seen /\ pending' = NoCommit)
    BY <1>1, <1>3, RequestEffect
  <2>3. InOrder'
    BY <1>1, <1>2, <2>2 DEF AutoInv, InOrder, NotAfter
  <2> QED
    BY <2>1, <2>3 DEF QueueInv
<1>4. CASE lastSha' \in {lastSha, poll.seen} /\ UNCHANGED <<current, record, marker, pending, wake, meta>>
  <2>1. AutoTypeOK'
    BY <1>1, <1>2, <1>4 DEF AutoInv, AutoTypeOK
  <2>2. MarkerMatchesQueue' /\ QueueIsWatched'
    BY <1>4 DEF AutoInv, MarkerMatchesQueue, QueueIsWatched, IsRunning
  <2>3. InOrder'
    BY <1>1, <1>2, <1>4 DEF AutoInv, InOrder
  <2> QED
    BY <2>1, <2>2, <2>3 DEF QueueInv
<1> QED
  BY <1>3, <1>4 DEF PollApply, registryVars, queueVars

\* Deliveries come in any order: there is nothing to say of InOrder once one was handled
LEMMA DeliverKeeps ==
  ASSUME AutoInv, NEW c \in Commits, Deliver(c)
  PROVE  QueueInv'
<1>1. handled' # {} /\ UNCHANGED <<head, project, poll>>
  BY DEF Deliver
<1>2. InOrder'
  BY <1>1 DEF InOrder
<1>3. c \in Commit
  BY AutoAssumption DEF Commits, Commit
<1>4. CASE RequestAutoDeploy(c)
  <2>1. AutoTypeOK' /\ MarkerMatchesQueue' /\ QueueIsWatched'
    BY <1>1, <1>3, <1>4, RequestEffect DEF AutoInv, AutoTypeOK
  <2> QED
    BY <1>2, <2>1 DEF QueueInv
<1>5. CASE UNCHANGED <<registryVars, queueVars>>
  <2>1. UNCHANGED <<current, record, lastSha, marker, pending, wake, meta>>
    BY <1>5 DEF registryVars, queueVars
  <2>2. AutoTypeOK' /\ MarkerMatchesQueue' /\ QueueIsWatched'
    BY <1>1, <2>1 DEF AutoInv, AutoTypeOK, MarkerMatchesQueue, QueueIsWatched, IsRunning
  <2> QED
    BY <1>2, <2>2 DEF QueueInv
<1> QED
  BY <1>4, <1>5 DEF Deliver

LEMMA PushKeeps ==
  ASSUME AutoInv, NEW b \in Branches, Push(b)
  PROVE  QueueInv'
<1>1. /\ head' = [head EXCEPT ![b] = @ + 1]
      /\ UNCHANGED <<current, record, lastSha, marker, pending, wake, meta, project, handled, poll>>
  BY DEF Push, registryVars, queueVars
<1>2. AutoTypeOK' /\ \A a \in Branches : head[a] \in Nat /\ head'[a] \in Nat /\ head[a] <= head'[a]
  BY <1>1 DEF AutoInv, AutoTypeOK
<1>3. MarkerMatchesQueue' /\ QueueIsWatched'
  BY <1>1 DEF AutoInv, MarkerMatchesQueue, QueueIsWatched, IsRunning
<1>4. \A c \in Commit : c[2] <= head[c[1]] => c[2] <= head'[c[1]]
  BY <1>2 DEF Commit
<1>5. InOrder'
  <2>1. \A i \in Ids : meta[i] # NoCommit => meta[i] \in Commit
    BY DEF AutoInv, AutoTypeOK
  <2>2. (pending # NoCommit => pending \in Commit) /\ (poll.phase = "fetched" => poll.seen \in Commit)
    BY DEF AutoInv, AutoTypeOK
  <2> QED
    BY <1>1, <1>4, <2>1, <2>2 DEF AutoInv, InOrder, NotAfter
<1> QED
  BY <1>2, <1>3, <1>5 DEF QueueInv

(* The operator's settings: another branch, paused or not, another trigger. *)
LEMMA SettingsKeep ==
  ASSUME AutoInv,
         \/ \E b \in Branches : SetBranch(b)
         \/ \E viaMcp \in BOOLEAN : SetPaused(viaMcp)
         \/ \E t \in Triggers : SetTrigger(t)
  PROVE  QueueInv'
<1>1. /\ UNCHANGED <<current, record, meta, head, handled, poll>>
      /\ lastSha' \in {lastSha, NoCommit}
      /\ ClearPending \/ UNCHANGED <<pending, marker, wake>>
  BY DEF SetBranch, SetPaused, SetTrigger, registryVars
<1>2. project' \in [branch : Branches, paused : BOOLEAN, trigger : Triggers]
  BY DEF SetBranch, SetPaused, SetTrigger, AutoInv, AutoTypeOK
<1>3. CASE ClearPending
  <2>1. /\ pending' = NoCommit /\ marker' = NoCommit /\ wake' = FALSE
        /\ MarkerMatchesQueue' /\ QueueIsWatched'
    BY <1>3, ClearEffect
  <2>2. AutoTypeOK' /\ InOrder'
    BY <1>1, <1>2, <2>1 DEF AutoInv, AutoTypeOK, InOrder, NotAfter
  <2> QED
    BY <2>1, <2>2 DEF QueueInv
<1>4. CASE UNCHANGED <<pending, marker, wake>>
  <2>1. AutoTypeOK' /\ InOrder'
    BY <1>1, <1>2, <1>4 DEF AutoInv, AutoTypeOK, InOrder, NotAfter
  <2>2. MarkerMatchesQueue' /\ QueueIsWatched'
    BY <1>1, <1>4 DEF AutoInv, MarkerMatchesQueue, QueueIsWatched, IsRunning
  <2> QED
    BY <2>1, <2>2 DEF QueueInv
<1> QED
  BY <1>1, <1>3, <1>4

-----------------------------------------------------------------------------
LEMMA AutoInitInv == AutoInit => AutoInv
<1> SUFFICES ASSUME AutoInit PROVE AutoInv
  OBVIOUS
<1>1. RegistryInv
  BY InitInv DEF AutoInit
<1>2. AutoTypeOK
  <2>1. project \in [branch : Branches, paused : BOOLEAN, trigger : Triggers]
    BY AutoAssumption DEF AutoInit, Triggers
  <2>2. /\ poll \in [phase : {"idle", "fetching", "fetched"}, last : Commit \cup {NoCommit},
                    marker : Commit \cup {NoCommit}, seen : Commit \cup {NoCommit},
                    trigger : Triggers, branch : Branches]
        /\ poll.phase # "fetched"
    BY AutoAssumption DEF AutoInit, IdlePoll, Triggers
  <2> QED
    BY <2>1, <2>2 DEF AutoInit, AutoTypeOK
<1>3. MarkerMatchesQueue /\ QueueIsWatched /\ InOrder
  BY DEF AutoInit, MarkerMatchesQueue, QueueIsWatched, InOrder, IdlePoll
<1> QED
  BY <1>1, <1>2, <1>3 DEF AutoInv

LEMMA AutoNextInv == AutoInv /\ [AutoNext]_autoVars => AutoInv'
<1> SUFFICES ASSUME AutoInv, [AutoNext]_autoVars PROVE AutoInv'
  OBVIOUS
<1>1. RegistryInv'
  BY RegistryStep, NextInv DEF AutoInv
<1>2. SUFFICES QueueInv'
  BY <1>1 DEF QueueInv, AutoInv
<1>3. CASE UNCHANGED autoVars
  <2>1. UNCHANGED <<current, record, head, project, handled, poll, lastSha, marker, pending, wake, meta>>
    BY <1>3 DEF autoVars, registryVars, projectVars, queueVars
  <2>2. AutoTypeOK' /\ MarkerMatchesQueue'
    BY <2>1 DEF AutoInv, AutoTypeOK, MarkerMatchesQueue
  <2>3. QueueIsWatched' /\ InOrder'
    BY <2>1 DEF AutoInv, QueueIsWatched, IsRunning, InOrder, NotAfter
  <2> QED
    BY <2>2, <2>3 DEF QueueInv
<1> QED
  BY <1>3, WakeKeeps, OtherActionKeeps, RunnerEndsKeeps, RebootKeeps, PollKeeps, PollApplyKeeps,
     DeliverKeeps, PushKeeps, SettingsKeep DEF AutoNext

LEMMA AutoInvariant == AutoSpec => []AutoInv
BY AutoInitInv, AutoNextInv, PTL DEF AutoSpec

-----------------------------------------------------------------------------
(* Automatic deploys, their restarts included, use the action runner only as the registry
   lets itself be used: what is proved of it is true of it in use. *)
THEOREM AutoUsesRegistry == AutoSpec => RegistryInit /\ [][RegistryNext]_registryVars
<1>1. AutoInit => RegistryInit
  BY DEF AutoInit
<1> QED
  BY <1>1, RegistryStep, PTL DEF AutoSpec

(* autoDeploy.ts l.90-91: the commit the project's page shows as queued is the one that is. *)
THEOREM MarkersMatch == AutoSpec => []MarkerMatchesQueue
<1>1. AutoInv => MarkerMatchesQueue
  BY DEF AutoInv
<1> QED
  BY AutoInvariant, <1>1, PTL

(* A queued commit has an action whose end wakes it up, or a callback that holds it. *)
THEOREM QueueWatched == AutoSpec => []QueueIsWatched
<1>1. AutoInv => QueueIsWatched
  BY DEF AutoInv
<1> QED
  BY AutoInvariant, <1>1, PTL

(* autoDeploy.ts l.50-52: last_commit_sha is written as the first baseline, or in the turn
   that starts the commit's deploy. *)
THEOREM RecordedOnStart == AutoSpec => RecordedWhenStarted
<1> DEFINE Started == \/ poll.phase = "fetched" /\ poll.last = NoCommit /\ lastSha' = poll.seen
                      \/ \E i \in Ids : runner[i] = "gone" /\ runner'[i] = "working" /\ meta'[i] = lastSha'
<1>1. AutoInv /\ [AutoNext]_autoVars => [lastSha' \notin {lastSha, NoCommit} => Started]_autoVars
  <2> SUFFICES ASSUME AutoInv, AutoNext, lastSha' \notin {lastSha, NoCommit} PROVE Started
    OBVIOUS
  <2>1. ASSUME NEW c \in Commit \cup {NoCommit}, RequestAutoDeploy(c) PROVE Started
    BY <2>1, RequestEffect
  <2>2. CASE Wake
    BY <2>1, <2>2 DEF Wake, AutoInv, AutoTypeOK
  <2>3. CASE PollApply
    BY <2>1, <2>3 DEF PollApply, AutoInv, AutoTypeOK, queueVars
  <2>4. ASSUME NEW c \in Commits, Deliver(c) PROVE Started
    <3>1. c \in Commit
      BY AutoAssumption DEF Commits, Commit
    <3> QED
      BY <2>1, <2>4, <3>1 DEF Deliver, queueVars
  <2>5. ~(OtherAction \/ Reboot \/ PollSelect \/ PollFetch \/ PollFail)
    BY DEF OtherAction, Reboot, PollSelect, PollFetch, PollFail, queueVars
  <2>6. ASSUME NEW i \in Ids, RunnerEnds(i) PROVE FALSE
    BY <2>6 DEF RunnerEnds
  <2>7. ASSUME NEW b \in Branches, Push(b) \/ SetBranch(b) PROVE FALSE
    BY <2>7 DEF Push, SetBranch, queueVars
  <2>8. ASSUME NEW viaMcp \in BOOLEAN, SetPaused(viaMcp) PROVE FALSE
    BY <2>8 DEF SetPaused
  <2>9. ASSUME NEW t \in Triggers, SetTrigger(t) PROVE FALSE
    BY <2>9 DEF SetTrigger
  <2> QED
    BY <2>2, <2>3, <2>4, <2>5, <2>6, <2>7, <2>8, <2>9 DEF AutoNext
<1> QED
  BY AutoInvariant, <1>1, PTL DEF AutoSpec, RecordedWhenStarted

-----------------------------------------------------------------------------
(* The order of deploys *)

(* An automatic deploy starts from the queue, from a poll, or from a delivery. *)
LEMMA StartsFrom ==
  ASSUME AutoInv, AutoNext, NEW i \in Ids,
         runner[i] = "gone", runner'[i] = "working", meta'[i] # NoCommit, handled' = {}
  PROVE  /\ handled = {}
         /\ \/ pending # NoCommit /\ meta'[i] = pending
            \/ poll.phase = "fetched" /\ meta'[i] = poll.seen
<1>1. RegistryTypeOK /\ AutoTypeOK
  BY DEF AutoInv, RegistryInv
<1>2. ASSUME NEW c \in Commit \cup {NoCommit}, RequestAutoDeploy(c) PROVE meta'[i] = c
  <2>1. ~Queue(c)
    BY DEF Queue, registryVars
  <2>2. PICK n \in Ids : TryStart(Slot, n) /\ meta' = [meta EXCEPT ![n] = c]
    BY <1>2, <2>1 DEF RequestAutoDeploy, Start
  <2>3. n = i
    BY <1>1, <2>2 DEF TryStart, RegistryTypeOK
  <2> QED
    BY <1>1, <2>2, <2>3 DEF AutoTypeOK
<1>3. CASE Wake
  <2>1. pending \in Commit \cup {NoCommit} /\ ~UNCHANGED registryVars
    BY <1>1 DEF AutoTypeOK, registryVars
  <2> QED
    BY <1>2, <1>3, <2>1 DEF Wake, projectVars
<1>4. CASE PollApply
  <2>1. poll.seen \in Commit \cup {NoCommit} /\ ~UNCHANGED registryVars
    BY <1>1 DEF AutoTypeOK, registryVars
  <2> QED
    BY <1>2, <1>4, <2>1 DEF PollApply
<1>5. CASE OtherAction
  <2>1. PICK n \in Ids : TryStart(Slot, n) /\ meta' = [meta EXCEPT ![n] = NoCommit]
    BY <1>5 DEF OtherAction
  <2>2. n = i
    BY <1>1, <2>1 DEF TryStart, RegistryTypeOK
  <2> QED
    BY <1>1, <2>1, <2>2 DEF AutoTypeOK
<1>6. ~Reboot
  BY DEF Reboot
<1>7. ASSUME NEW n \in Ids, RunnerEnds(n) PROVE FALSE
  <2>1. \E p \in {"gone", "tail"} : runner' = [runner EXCEPT ![n] = p]
    BY <1>7 DEF RunnerEnds, Return, BlockedDone, TailReturn
  <2> QED
    BY <1>1, <2>1 DEF RegistryTypeOK
<1>8. ~(PollSelect \/ PollFetch \/ PollFail)
  BY DEF PollSelect, PollFetch, PollFail, registryVars
<1>9. \A c \in Commits : ~Deliver(c)
  BY DEF Deliver
<1>10. \A b \in Branches : ~(Push(b) \/ SetBranch(b))
  BY DEF Push, SetBranch, registryVars
<1>11. \A viaMcp \in BOOLEAN : ~SetPaused(viaMcp)
  BY DEF SetPaused, registryVars
<1>12. \A t \in Triggers : ~SetTrigger(t)
  BY DEF SetTrigger, registryVars
<1> QED
  BY <1>3, <1>4, <1>5, <1>6, <1>7, <1>8, <1>9, <1>10, <1>11, <1>12 DEF AutoNext

(* Until a delivery was handled no automatic deploy is of an earlier commit than one of the
   same branch before it: the queue holds one commit, the latest asked for, and a start
   empties it. *)
THEOREM PollingGoesForward == AutoSpec => PollingMovesForward
<1> DEFINE Forward ==
      handled' = {} =>
        \A i, j \in Ids :
          /\ runner[i] = "gone" /\ runner'[i] = "working" /\ meta'[i] # NoCommit
          /\ meta[j] # NoCommit /\ meta[j][1] = meta'[i][1]
          => meta[j][2] <= meta'[i][2]
<1>1. AutoInv /\ [AutoNext]_autoVars => [Forward]_autoVars
  <2> SUFFICES ASSUME AutoInv, AutoNext, handled' = {}, NEW i \in Ids, NEW j \in Ids,
                      runner[i] = "gone", runner'[i] = "working", meta'[i] # NoCommit,
                      meta[j] # NoCommit, meta[j][1] = meta'[i][1]
               PROVE  meta[j][2] <= meta'[i][2]
    OBVIOUS
  <2>1. /\ handled = {}
        /\ \/ pending # NoCommit /\ meta'[i] = pending
           \/ poll.phase = "fetched" /\ meta'[i] = poll.seen
    BY StartsFrom
  <2> QED
    BY <2>1 DEF AutoInv, InOrder, NotAfter
<1> QED
  BY AutoInvariant, <1>1, PTL DEF AutoSpec, PollingMovesForward

=============================================================================
