------------------------ MODULE ProjectDeployProofs ------------------------
(***************************************************************************)
(* ProjectDeploy proved for every set of revisions, retention limit and    *)
(* bound on rows.  A project's operations use its history as               *)
(* DeploymentHistory allows, so what is proved of the table holds of them; *)
(* what runs is what the history and the snapshot say it is, and an        *)
(* automatic rollback is the only one of its operation and reports what    *)
(* came of it.                                                             *)
(***************************************************************************)
EXTENDS ProjectDeploy, DeploymentHistoryProofs

-----------------------------------------------------------------------------
(* The inductive invariant, part by part *)

Step == {"idle", "pull", "checkout", "prepare", "build", "up", "down", "snapshot", "record", "probe"}

\* What an operation is made of
Shape ==
  /\ op \in [kind : Operation \cup {"none"}, step : Step, rev : Revisions \cup {NoRevision},
             auto : BOOLEAN, nested : BOOLEAN, since : Nat]
  /\ head \in Revisions \cup {NoRevision}
  /\ Idle <=> op = AtRest
  /\ op.nested => op.kind # "rollback"
  /\ Kind = "rollback" => op.step \in {"checkout", "up", "snapshot", "record", "probe"}
  /\ op.step = "checkout" => Kind = "rollback"
  /\ op.step \in {"prepare", "build", "up", "snapshot", "record"} => head \in Revisions
  /\ op.step \in {"record", "probe"} => Kind # "force"

\* The rows it has recorded
Taken ==
  ~Idle => lastId = op.since + (IF op.nested THEN 1 ELSE 0) + (IF op.step = "probe" THEN 1 ELSE 0)

\* A rollback is to a row the table still offers
OnTarget ==
  Kind = "rollback" /\ op.step # "probe" =>
    /\ \E i \in ExplicitTargets(rows) : op.rev = rows[i].rev
    /\ op.step # "checkout" => head = op.rev

\* What drift is between an `up` and its row
Unfinished == IF Kind \in {"restart", "force"} THEN {Kind, "unfinished"} ELSE {"unfinished"}

\* What an `up` has left behind
Upped ==
  /\ op.step = "up" /\ Kind = "force" => images = head
  /\ op.step \in {"snapshot", "record"} => /\ drift = Unfinished
                                           /\ Kind # "restart" => running = head
  /\ op.step = "record" => snapshot = head

\* The row the health check is about, and after a rollback the one before it
Probed ==
  /\ op.step = "probe" /\ ~op.nested => ActiveId(rows) = lastId
  /\ op.step = "probe" /\ op.nested => /\ ActiveId(rows) = lastId /\ ~rows[lastId].unhealthy
                                       /\ drift = {}
  /\ op.nested /\ op.step # "probe" => /\ ActiveId(rows) = lastId /\ rows[lastId].unhealthy
  /\ ~Idle => alerts = IF op.nested THEN {"unhealthy"} ELSE {}

\* with the row rolled back from still there
Replaced ==
  op.nested /\ op.step = "probe" =>
    /\ op.since + 1 \in DOMAIN rows
    /\ rows[op.since + 1].unhealthy /\ rows[op.since + 1].rolledBack

DeployInv == /\ HistoryInv
             /\ Shape /\ Taken /\ OnTarget /\ Upped /\ Probed
             /\ HistoryIsRunning /\ SnapshotIsRunning

-----------------------------------------------------------------------------
(* What the writes do to the active row and to the targets of a rollback *)

RevisionOf(t) == IF ActiveId(t) = NoRow THEN NoRevision ELSE t[ActiveId(t)].rev

(* The active id, if there is one, is a row's. *)
LEMMA ActiveIsRow ==
  ASSUME NEW t, NEW n \in Nat, IsTable(t, n)
  PROVE  ActiveId(t) # NoRow => /\ ActiveId(t) \in ActiveIds(t) /\ ActiveId(t) \in DOMAIN t
                                /\ t[ActiveId(t)] \in Row
<1>1. ActiveIds(t) \in SUBSET (1..n)
  BY DEF ActiveIds, IsTable
<1>2. ActiveId(t) # NoRow => ActiveId(t) \in ActiveIds(t)
  BY <1>1, NewestOfIds DEF ActiveId, NewestOf
<1> QED
  BY <1>2 DEF ActiveIds, IsTable

(* A success leaves its own row as the active one, of its revision and not yet unhealthy. *)
LEMMA RecordedActive ==
  ASSUME NEW t, NEW n \in Nat, IsTable(t, n), NEW r \in Revisions, NEW rollback \in BOOLEAN
  PROVE  LET R == Recorded(t, n + 1, r, rollback)
         IN  ActiveId(R) = n + 1 /\ R[n + 1] = NewRow(r, "active") /\ RevisionOf(R) = r
<1> DEFINE A == Activate(t, n + 1, r, rollback)
           R == Recorded(t, n + 1, r, rollback)
<1>1. IsTable(A, n + 1) /\ IsSingle(A) /\ n + 1 \in Nat
  BY ActivateSingle
<1>2. n + 1 \in DOMAIN A /\ A[n + 1] = NewRow(r, "active")
  BY DEF Activate, WithRow
<1>3. R = Prune(A)
  BY DEF Recorded
<1> HIDE DEF A, R
<1>4. ActiveIds(R) = ActiveIds(A) /\ IsTable(R, n + 1) /\ \A i \in DOMAIN R : R[i] = A[i]
  BY <1>1, <1>3, PruneKeeps
<1>5. n + 1 \in ActiveIds(A)
  BY <1>2 DEF ActiveIds, NewRow
<1>6. ActiveIds(R) = {n + 1}
  BY <1>1, <1>4, <1>5 DEF IsSingle
<1>7. n + 1 \in DOMAIN R
  BY <1>4, <1>5 DEF ActiveIds
<1>8. ActiveIds(R) \in SUBSET (1..(n + 1))
  BY <1>4 DEF ActiveIds, IsTable
<1>9. ActiveId(R) \in ActiveIds(R)
  BY <1>1, <1>6, <1>8, NewestOfIds DEF ActiveId
<1>10. ActiveId(R) = n + 1 /\ n + 1 # NoRow
  BY <1>6, <1>9 DEF NoRow
<1>11. R[n + 1] = NewRow(r, "active")
  BY <1>2, <1>4, <1>7
<1>12. RevisionOf(R) = r
  BY <1>10, <1>11 DEF RevisionOf, NewRow
<1> QED
  BY <1>10, <1>11, <1>12 DEF R

(* A failure leaves the revision that the history says is running. *)
LEMMA RejectedActive ==
  ASSUME NEW t, NEW n \in Nat, IsTable(t, n), NEW r \in Revisions
  PROVE  RevisionOf(Rejected(t, n + 1, r)) = RevisionOf(t)
<1> DEFINE W == WithRow(t, n + 1, NewRow(r, "failed"))
           P == Rejected(t, n + 1, r)
<1>1. IsTable(W, n + 1) /\ ActiveIds(W) = ActiveIds(t) /\ \A i \in DOMAIN t : W[i] = t[i]
  BY FailedRow
<1>2. P = Prune(W) /\ n + 1 \in Nat
  BY DEF Rejected
<1>3. ActiveId(P) = ActiveId(t)
  BY RejectedKeepsFallback
<1> HIDE DEF W, P
<1>4. ActiveIds(P) = ActiveIds(t) /\ \A i \in DOMAIN P : P[i] = W[i]
  BY <1>1, <1>2, PruneKeeps
<1>5. ASSUME ActiveId(t) # NoRow PROVE P[ActiveId(t)] = t[ActiveId(t)]
  <2>1. ActiveId(t) \in ActiveIds(P) /\ ActiveId(t) \in DOMAIN t
    BY <1>4, <1>5, ActiveIsRow
  <2> QED
    BY <1>1, <1>4, <2>1 DEF ActiveIds
<1>6. RevisionOf(P) = RevisionOf(t)
  BY <1>3, <1>5 DEF RevisionOf
<1> QED
  BY <1>6 DEF P

(* The health check's mark leaves the running revision and what a rollback may restore. *)
LEMMA UnhealthyActive ==
  ASSUME NEW t, NEW n \in Nat, IsTable(t, n)
  PROVE  LET U == Unhealthy(t)
         IN  /\ ActiveId(U) = ActiveId(t) /\ RevisionOf(U) = RevisionOf(t)
             /\ ActiveId(t) # NoRow => U[ActiveId(t)].unhealthy
             /\ ExplicitTargets(U) = ExplicitTargets(t)
             /\ \A i \in DOMAIN t : U[i].rev = t[i].rev
<1> DEFINE U == Unhealthy(t)
<1>1. /\ DOMAIN U = DOMAIN t
      /\ \A i \in DOMAIN t : U[i] = IF t[i].status = "active"
                                     THEN [t[i] EXCEPT !.unhealthy = TRUE] ELSE t[i]
  BY DEF Unhealthy
<1> HIDE DEF U
<1>2. ASSUME NEW i \in DOMAIN t
      PROVE  /\ U[i].status = t[i].status /\ U[i].rev = t[i].rev
             /\ t[i].status = "active" => U[i].unhealthy
  <2>1. t[i] \in Row
    BY DEF IsTable
  <2> QED
    BY <1>1, <2>1 DEF Row
<1>3. ActiveIds(U) = ActiveIds(t)
  BY <1>1, <1>2 DEF ActiveIds
<1>4. ActiveId(U) = ActiveId(t)
  BY <1>3 DEF ActiveId
<1>5. ActiveId(t) # NoRow => ActiveId(t) \in DOMAIN t /\ t[ActiveId(t)].status = "active"
  BY ActiveIsRow DEF ActiveIds
<1>6. RevisionOf(U) = RevisionOf(t) /\ (ActiveId(t) # NoRow => U[ActiveId(t)].unhealthy)
  BY <1>2, <1>4, <1>5 DEF RevisionOf
<1>7. ExplicitTargets(U) = ExplicitTargets(t)
  <2>1. ASSUME NEW i \in DOMAIN t
        PROVE  i \in ExplicitTargets(U) <=> i \in ExplicitTargets(t)
    BY <1>1, <1>2, <1>4, <1>5 DEF ExplicitTargets, IsRestorable, IsRunningRevision
  <2>2. ExplicitTargets(U) \subseteq DOMAIN t /\ ExplicitTargets(t) \subseteq DOMAIN t
    BY <1>1 DEF ExplicitTargets
  <2> QED
    BY <2>1, <2>2
<1> QED
  BY <1>2, <1>4, <1>6, <1>7 DEF U

(* The default target, if there is one, is among those that may be picked. *)
LEMMA DefaultIsTarget ==
  ASSUME NEW t, NEW n \in Nat, IsTable(t, n), DefaultTarget(t) # NoRow
  PROVE  DefaultTarget(t) \in ExplicitTargets(t)
<1>1. DefaultCandidates(t) \in SUBSET (1..n)
  BY DEF DefaultCandidates, IsTable
<1>2. DefaultTarget(t) \in DefaultCandidates(t)
  BY <1>1, NewestOfIds DEF DefaultTarget, NewestOf
<1> QED
  BY <1>2 DEF DefaultCandidates, ExplicitTargets

-----------------------------------------------------------------------------
(* Every step of an operation is one of the table's, or leaves the table alone. *)
LEMMA HistoryStep == DeployInv /\ [DeployNext]_deployVars => [HistoryNext]_historyVars
<1> SUFFICES ASSUME DeployInv, [DeployNext]_deployVars
             PROVE  HistoryNext \/ UNCHANGED historyVars
  BY DEF historyVars
<1>1. ASSUME NEW r \in Revisions, RecordFailed(r) PROVE HistoryNext
  BY <1>1 DEF HistoryNext
<1>2. op.step \in {"prepare", "build", "up", "snapshot", "record"} => head \in Revisions
  BY DEF DeployInv, Shape
<1>3. ASSUME NEW r \in Revisions, Pull(r) \/ PullBlocked(r)
      PROVE  HistoryNext \/ UNCHANGED historyVars
  BY <1>1, <1>3 DEF Pull, PullBlocked
<1>4. CASE NoCapacity
  BY <1>1, <1>2, <1>4 DEF NoCapacity
<1>5. CASE UpFails
  BY <1>1, <1>2, <1>5 DEF UpFails
<1>6. CASE Record
  <2>1. head \in Revisions /\ TakeId
        /\ rows' = Recorded(rows, lastId + 1, head, Kind = "rollback")
    BY <1>2, <1>6 DEF Record
  <2>2. CASE Kind = "rollback"
    <3>1. PICK i \in ExplicitTargets(rows) : head = rows[i].rev
      BY <1>6, <2>2 DEF DeployInv, OnTarget, Record
    <3>2. RecordRollback(i)
      BY <2>1, <2>2, <3>1 DEF RecordRollback
    <3> QED
      BY <3>2 DEF HistoryNext
  <2>3. CASE Kind # "rollback"
    <3>1. RecordSuccess(head)
      BY <2>1, <2>3 DEF RecordSuccess
    <3> QED
      BY <2>1, <3>1 DEF HistoryNext
  <2> QED
    BY <2>2, <2>3
<1>7. CASE Unhealthily
  BY <1>7 DEF Unhealthily, HistoryNext
<1>8. ASSUME NEW kind \in Operation, Start(kind) PROVE UNCHANGED historyVars
  BY <1>8 DEF Start, Begin
<1>9. ASSUME NEW i \in ExplicitTargets(rows), StartRollback(i) PROVE UNCHANGED historyVars
  BY <1>9 DEF StartRollback, Begin
<1>10. CASE PullFails \/ Checkout \/ CheckoutFails \/ PrepareFails \/ Prepared
  BY <1>10 DEF PullFails, Checkout, CheckoutFails, PrepareFails, Prepared
<1>11. CASE Build \/ BuildFails \/ Up \/ Down \/ Snapshot \/ Healthy
  BY <1>11 DEF Build, BuildFails, Up, Down, Snapshot, Healthy
<1>12. CASE SetPaused \/ Crash
  BY <1>12 DEF SetPaused, Crash
<1>13. ASSUME NEW p, SetPolicy(p) PROVE UNCHANGED historyVars
  BY <1>13 DEF SetPolicy
<1>14. CASE UNCHANGED deployVars
  BY <1>14 DEF deployVars
<1> QED
  BY <1>3, <1>4, <1>5, <1>6, <1>7, <1>8, <1>9, <1>10, <1>11, <1>12, <1>13, <1>14 DEF DeployNext

(* A failed attempt leaves the revision the history says is running. *)
LEMMA FailedKeepsActive ==
  ASSUME HistoryInv, NEW r \in Revisions, RecordFailed(r)
  PROVE  ActiveRevision' = ActiveRevision
<1>1. lastId \in Nat /\ IsTable(rows, lastId)
  BY HistoryAssumption DEF HistoryInv
<1>2. RevisionOf(rows') = RevisionOf(rows)
  BY <1>1, RejectedActive DEF RecordFailed
<1> QED
  BY <1>2 DEF ActiveRevision, RevisionOf

(* The parts that are about the operation in flight hold again once it has returned. *)
LEMMA EndKeeps ==
  ASSUME op' = AtRest, head' \in Revisions \cup {NoRevision}
  PROVE  Shape' /\ Taken' /\ OnTarget' /\ Upped' /\ Probed'
<1>1. /\ op'.step = "idle" /\ op'.kind = "none" /\ op'.nested = FALSE /\ Kind' = "none"
      /\ Idle'
  BY DEF AtRest, Kind, Idle
<1>2. Shape'
  <2>1. op' \in [kind : Operation \cup {"none"}, step : Step, rev : Revisions \cup {NoRevision},
                 auto : BOOLEAN, nested : BOOLEAN, since : Nat]
    BY DEF AtRest, Step
  <2> QED
    BY <1>1, <2>1 DEF Shape
<1> QED
  BY <1>1, <1>2 DEF Taken, OnTarget, Upped, Probed

\* The invariant but for the table's part
OpInv == Shape /\ Taken /\ OnTarget /\ Upped /\ Probed /\ HistoryIsRunning /\ SnapshotIsRunning

(* An operation that starts. *)
LEMMA BeginKeeps ==
  ASSUME DeployInv, NEW kind \in Operation, NEW rev \in Revisions \cup {NoRevision},
         Begin(kind, rev), kind \in NeedsCheckout => head # NoRevision,
         kind = "rollback" => \E i \in ExplicitTargets(rows) : rev = rows[i].rev
  PROVE  OpInv'
<1>1. PICK auto \in BOOLEAN :
        op' = [kind |-> kind, step |-> FirstStep(kind), rev |-> rev,
               auto |-> auto, nested |-> FALSE, since |-> lastId]
  BY DEF Begin, AutoRead
<1>2. UNCHANGED <<rows, lastId, head, images, running, snapshot, drift>>
  BY DEF Begin, historyVars, dockerVars
<1>3. Kind' = kind /\ kind # "none"
  BY <1>1 DEF Kind, Operation
<1>4. /\ kind = "rollback" => FirstStep(kind) = "checkout"
      /\ kind # "rollback" => FirstStep(kind) \in {"pull", "prepare", "down"}
      /\ FirstStep(kind) = "prepare" => kind \in NeedsCheckout
  BY DEF FirstStep, Operation, NeedsCheckout
<1>5. lastId \in Nat
  BY HistoryAssumption DEF DeployInv, HistoryInv
<1>6. Shape'
  BY <1>1, <1>2, <1>3, <1>4, <1>5 DEF Shape, Idle, AtRest, Step, DeployInv
<1>7. Taken'
  BY <1>1, <1>2, <1>4, <1>5 DEF Taken
<1>8. OnTarget'
  BY <1>1, <1>2, <1>3, <1>4 DEF OnTarget
<1>9. Upped' /\ Probed'
  BY <1>1, <1>4 DEF Upped, Probed, Begin
<1> QED
  BY <1>2, <1>6, <1>7, <1>8, <1>9 DEF OpInv, DeployInv, HistoryIsRunning, SnapshotIsRunning, ActiveRevision

(* Steps that leave the containers and the snapshot alone, and add to the history a failed
   row at most, keep what the two say. *)
LEMMA AsideKeeps ==
  ASSUME HistoryInv, HistoryIsRunning, SnapshotIsRunning,
         UNCHANGED <<running, snapshot, drift>>,
         UNCHANGED historyVars \/ \E r \in Revisions : RecordFailed(r)
  PROVE  HistoryIsRunning' /\ SnapshotIsRunning'
<1>1. ActiveRevision' = ActiveRevision
  BY FailedKeepsActive DEF historyVars, ActiveRevision
<1> QED
  BY <1>1 DEF HistoryIsRunning, SnapshotIsRunning

(* So an operation may end at any of them. *)
LEMMA EndAsideKeeps ==
  ASSUME DeployInv, op' = AtRest, head' \in Revisions \cup {NoRevision},
         UNCHANGED <<running, snapshot, drift>>,
         UNCHANGED historyVars \/ \E r \in Revisions : RecordFailed(r)
  PROVE  OpInv'
BY AsideKeeps, EndKeeps DEF OpInv, DeployInv

(* It may also move on from one, with the checkout it needs. *)
LEMMA PullKeeps ==
  ASSUME DeployInv, NEW r \in Revisions, Pull(r)
  PROVE  OpInv'
<1>1. /\ op.step = "pull" /\ head' = r
      /\ UNCHANGED <<rows, lastId, images, running, snapshot, drift>>
  BY DEF Pull, historyVars
<1>2. CASE op.kind = "pull"
  BY <1>1, <1>2, EndAsideKeeps DEF Pull, End
<1>3. CASE op.kind # "pull"
  <2>1. op' = [op EXCEPT !.step = "prepare"] /\ ~op.nested /\ Kind # "rollback" /\ alerts' = alerts
    BY <1>1, <1>3 DEF Pull, Goto, DeployInv, Shape, Kind
  <2>2. op'.step = "prepare" /\ op'.nested = op.nested /\ op'.since = op.since /\ Kind' = Kind
    BY <2>1 DEF DeployInv, Shape, Kind
  <2>3. Shape'
    BY <1>1, <2>1, <2>2 DEF Shape, DeployInv, Step, Idle, AtRest
  <2>4. Taken' /\ OnTarget' /\ Upped' /\ Probed'
    BY <1>1, <2>1, <2>2 DEF Taken, OnTarget, Upped, Probed, DeployInv, Idle
  <2> QED
    BY <1>1, <2>3, <2>4, AsideKeeps DEF OpInv, DeployInv, historyVars
<1> QED
  BY <1>2, <1>3

LEMMA CheckoutKeeps ==
  ASSUME DeployInv, Checkout
  PROVE  OpInv'
<1>1. /\ op.step = "checkout" /\ head' = op.rev /\ op' = [op EXCEPT !.step = "up"]
      /\ UNCHANGED <<rows, lastId, images, running, snapshot, drift, alerts>>
  BY DEF Checkout, historyVars, Goto
<1>2. op'.step = "up" /\ op'.nested = op.nested /\ op'.since = op.since /\ Kind' = Kind
      /\ op'.rev = op.rev
  BY <1>1 DEF DeployInv, Shape, Kind
<1>3. Kind = "rollback" /\ \E i \in ExplicitTargets(rows) : op.rev = rows[i].rev
  BY <1>1 DEF DeployInv, Shape, OnTarget
<1>4. head' \in Revisions
  <2>1. \A i \in ExplicitTargets(rows) : rows[i].rev \in Revisions
    BY DEF DeployInv, HistoryInv, IsTable, ExplicitTargets, Row
  <2> QED
    BY <1>1, <1>3, <2>1
<1>5. Shape'
  BY <1>1, <1>2, <1>3, <1>4 DEF Shape, DeployInv, Step, Idle, AtRest
<1>6. Taken' /\ OnTarget'
  BY <1>1, <1>2, <1>3 DEF Taken, OnTarget, DeployInv, Idle
<1>7. Upped' /\ Probed'
  BY <1>1, <1>2, <1>3 DEF Upped, Probed, DeployInv, Idle
<1> QED
  BY <1>1, <1>5, <1>6, <1>7, AsideKeeps DEF OpInv, DeployInv, historyVars

LEMMA PreparedKeeps ==
  ASSUME DeployInv, Prepared
  PROVE  OpInv'
<1> DEFINE next == IF op.kind \in {"build", "force"} THEN "build" ELSE "up"
<1>1. /\ op.step = "prepare" /\ op' = [op EXCEPT !.step = next]
      /\ UNCHANGED <<rows, lastId, head, images, running, snapshot, drift, alerts>>
  BY DEF Prepared, historyVars, dockerVars, Goto
<1>2. op'.step = next /\ op'.nested = op.nested /\ op'.since = op.since /\ Kind' = Kind
  BY <1>1 DEF DeployInv, Shape, Kind
<1>3. Kind # "rollback" /\ ~op.nested /\ head \in Revisions
  BY <1>1 DEF DeployInv, Shape, Kind
<1>4. Shape'
  BY <1>1, <1>2, <1>3 DEF Shape, DeployInv, Step, Idle, AtRest
<1>5. Taken' /\ OnTarget' /\ Upped' /\ Probed'
  BY <1>1, <1>2, <1>3 DEF Taken, OnTarget, Upped, Probed, DeployInv, Idle, Kind
<1> QED
  BY <1>1, <1>4, <1>5, AsideKeeps DEF OpInv, DeployInv, historyVars

LEMMA BuildKeeps ==
  ASSUME DeployInv, Build
  PROVE  OpInv'
<1>1. /\ op.step = "build" /\ images' = head
      /\ UNCHANGED <<rows, lastId, head, running, snapshot, drift>>
  BY DEF Build, BuildDone, historyVars
<1>2. CASE op.kind # "force"
  BY <1>1, <1>2, EndAsideKeeps DEF Build, End, DeployInv, Shape, historyVars
<1>3. CASE op.kind = "force"
  <2>1. op' = [op EXCEPT !.step = "up"] /\ Kind # "rollback" /\ ~op.nested /\ alerts' = alerts
    BY <1>1, <1>3 DEF Build, Goto, DeployInv, Shape, Kind
  <2>2. op'.step = "up" /\ op'.nested = op.nested /\ op'.since = op.since /\ Kind' = Kind
    BY <2>1 DEF DeployInv, Shape, Kind
  <2>3. Shape'
    BY <1>1, <2>1, <2>2 DEF Shape, DeployInv, Step, Idle, AtRest
  <2>4. Taken' /\ OnTarget' /\ Upped' /\ Probed'
    BY <1>1, <2>1, <2>2 DEF Taken, OnTarget, Upped, Probed, DeployInv, Idle
  <2> QED
    BY <1>1, <2>3, <2>4, AsideKeeps DEF OpInv, DeployInv, historyVars
<1> QED
  BY <1>2, <1>3

(* An `up` that is done leaves drift not empty, and its containers are from the checkout's
   revision unless it was a restart's or a service's. *)
LEMMA UpKeeps ==
  ASSUME DeployInv, Up
  PROVE  OpInv'
<1>1. /\ op.step = "up" /\ UpDone
      /\ UNCHANGED <<rows, lastId, head, snapshot>>
  BY DEF Up, historyVars
<1>2. "changed" \in drift' \/ "unfinished" \in drift'
  BY <1>1 DEF UpDone, UpDrift
<1>3. HistoryIsRunning' /\ SnapshotIsRunning'
  BY <1>2 DEF HistoryIsRunning, SnapshotIsRunning
<1>4. CASE Kind = "service"
  BY <1>1, <1>3, <1>4, EndKeeps DEF Up, End, OpInv, DeployInv, Shape
<1>5. CASE Kind # "service"
  <2>1. op' = [op EXCEPT !.step = "snapshot"] /\ alerts' = alerts
    BY <1>5 DEF Up, Goto
  <2>2. op'.step = "snapshot" /\ op'.nested = op.nested /\ op'.since = op.since /\ Kind' = Kind
        /\ op'.rev = op.rev
    BY <2>1 DEF DeployInv, Shape, Kind
  <2>3. Shape'
    BY <1>1, <2>1, <2>2 DEF Shape, DeployInv, Step, Idle, AtRest
  <2>4. Taken' /\ OnTarget' /\ Probed'
    BY <1>1, <2>1, <2>2 DEF Taken, OnTarget, Probed, DeployInv, Idle
  <2>5. drift' = Unfinished'
    BY <1>1, <1>5, <2>2 DEF UpDone, UpDrift, Unfinished
  <2>6. Kind # "restart" => ImagesUsed = head
    BY <1>1, <1>5 DEF ImagesUsed, DeployInv, Upped
  <2>7. Kind # "restart" => running' = head
    BY <1>1, <1>5, <2>6 DEF UpDone, Started, Together
  <2>8. Upped'
    BY <1>1, <2>2, <2>5, <2>7 DEF Upped
  <2> QED
    BY <1>3, <2>3, <2>4, <2>8 DEF OpInv
<1> QED
  BY <1>4, <1>5

(* One that fails has changed drift if it has changed the containers. *)
LEMMA StopsKeeps ==
  ASSUME DeployInv, UpStops, UNCHANGED snapshot,
         UNCHANGED historyVars \/ \E r \in Revisions : RecordFailed(r)
  PROVE  HistoryIsRunning' /\ SnapshotIsRunning'
<1>1. CASE running' = running
  BY <1>1, AsideKeeps DEF UpStops, DeployInv
<1>2. CASE running' # running
  BY <1>2 DEF UpStops, HistoryIsRunning, SnapshotIsRunning
<1> QED
  BY <1>1, <1>2

LEMMA UpFailsKeeps ==
  ASSUME DeployInv, UpFails
  PROVE  OpInv'
<1>1. op.step = "up" /\ op' = AtRest /\ UpStops /\ UNCHANGED <<head, snapshot>>
  BY DEF UpFails, End
<1>2. head \in Revisions
  BY <1>1 DEF DeployInv, Shape
<1>3. UNCHANGED historyVars \/ \E r \in Revisions : RecordFailed(r)
  BY <1>2 DEF UpFails
<1> QED
  BY <1>1, <1>2, <1>3, StopsKeeps, EndKeeps DEF OpInv

LEMMA DownKeeps ==
  ASSUME DeployInv, Down
  PROVE  OpInv'
<1>1. op' = AtRest /\ UNCHANGED <<rows, lastId, head, snapshot>>
      /\ (DownDone \/ UNCHANGED <<running, drift>>)
  BY DEF Down, End, historyVars
<1>2. CASE DownDone
  <2>1. HistoryIsRunning' /\ SnapshotIsRunning'
    BY <1>2 DEF DownDone, HistoryIsRunning, SnapshotIsRunning
  <2> QED
    BY <1>1, <2>1, EndKeeps DEF OpInv, DeployInv, Shape
<1>3. CASE UNCHANGED <<running, drift>>
  BY <1>1, <1>3, EndAsideKeeps DEF DeployInv, Shape, historyVars
<1> QED
  BY <1>1, <1>2, <1>3

(* The snapshot is the running containers' Compose file, unless they are a restart's. *)
LEMMA SnapshotKeeps ==
  ASSUME DeployInv, Snapshot
  PROVE  OpInv'
<1>1. /\ op.step = "snapshot" /\ snapshot' = head
      /\ UNCHANGED <<rows, lastId, head, images, running>>
  BY DEF Snapshot, historyVars
<1>2. drift = Unfinished /\ (Kind # "restart" => running = head) /\ head \in Revisions
  BY <1>1 DEF DeployInv, Upped, Shape
<1>3. CASE Kind = "force"
  <2>1. op' = AtRest /\ drift' = {"force"}
    BY <1>2, <1>3 DEF Snapshot, End, Unfinished
  <2>2. HistoryIsRunning' /\ SnapshotIsRunning'
    BY <1>1, <1>2, <1>3, <2>1 DEF HistoryIsRunning, SnapshotIsRunning
  <2> QED
    BY <1>1, <1>2, <2>1, <2>2, EndKeeps DEF OpInv
<1>4. CASE Kind # "force"
  <2>1. op' = [op EXCEPT !.step = "record"] /\ alerts' = alerts /\ drift' = drift
    BY <1>4 DEF Snapshot, Goto
  <2>2. op'.step = "record" /\ op'.nested = op.nested /\ op'.since = op.since /\ Kind' = Kind
        /\ op'.rev = op.rev
    BY <2>1 DEF DeployInv, Shape, Kind
  <2>3. Shape'
    BY <1>1, <1>4, <2>1, <2>2 DEF Shape, DeployInv, Step, Idle, AtRest
  <2>4. Taken' /\ OnTarget' /\ Probed'
    BY <1>1, <2>1, <2>2 DEF Taken, OnTarget, Probed, DeployInv, Idle
  <2>5. Upped'
    BY <1>1, <1>2, <2>1, <2>2 DEF Upped, Unfinished
  <2>6. "unfinished" \in drift'
    BY <1>2, <2>1 DEF Unfinished
  <2>7. HistoryIsRunning' /\ SnapshotIsRunning'
    BY <2>6 DEF HistoryIsRunning, SnapshotIsRunning
  <2> QED
    BY <2>3, <2>4, <2>5, <2>7 DEF OpInv
<1> QED
  BY <1>3, <1>4

(* With its row the history says what runs, again unless it was a restart. *)
LEMMA RecordKeeps ==
  ASSUME DeployInv, Record
  PROVE  OpInv'
<1>1. /\ op.step = "record" /\ lastId' = lastId + 1
      /\ rows' = Recorded(rows, lastId + 1, head, Kind = "rollback")
      /\ drift' = drift \ {"unfinished"}
      /\ UNCHANGED <<head, images, running, snapshot>>
  BY DEF Record, TakeId, dockerVars
<1>2. /\ drift = Unfinished /\ (Kind # "restart" => running = head) /\ head \in Revisions
      /\ snapshot = head /\ Kind # "force"
  BY <1>1 DEF DeployInv, Upped, Shape
<1>3. lastId \in Nat /\ IsTable(rows, lastId)
  BY HistoryAssumption DEF DeployInv, HistoryInv
<1>4. ActiveId(rows') = lastId' /\ rows'[lastId'] = NewRow(head, "active") /\ ActiveRevision' = head
  <2>1. (Kind = "rollback") \in BOOLEAN
    OBVIOUS
  <2>2. RevisionOf(rows') = head /\ ActiveId(rows') = lastId + 1
        /\ rows'[lastId + 1] = NewRow(head, "active")
    BY <1>1, <1>2, <1>3, <2>1, RecordedActive
  <2> QED
    BY <1>1, <2>2 DEF RevisionOf, ActiveRevision
<1>5. drift' = IF Kind = "restart" THEN {"restart"} ELSE {}
  BY <1>1, <1>2 DEF Unfinished
<1>6. HistoryIsRunning' /\ SnapshotIsRunning'
  BY <1>1, <1>2, <1>4, <1>5 DEF HistoryIsRunning, SnapshotIsRunning
<1>7. CASE op' = AtRest
  BY <1>1, <1>2, <1>6, <1>7, EndKeeps DEF OpInv
<1>8. CASE op' = [op EXCEPT !.step = "probe"] /\ alerts' = alerts
  <2>1. op'.step = "probe" /\ op'.nested = op.nested /\ op'.since = op.since /\ Kind' = Kind
        /\ op'.rev = op.rev
    BY <1>8 DEF DeployInv, Shape, Kind
  <2>2. Shape'
    BY <1>1, <1>2, <1>8, <2>1 DEF Shape, DeployInv, Step, Idle, AtRest
  <2>3. Taken'
    BY <1>1, <1>3, <2>1 DEF Taken, DeployInv, Shape, Idle
  <2>4. OnTarget' /\ Upped'
    BY <2>1 DEF OnTarget, Upped
  <2>5. Probed'
    <3>1. /\ op.nested => drift' = {}
          /\ alerts' = IF op.nested THEN {"unhealthy"} ELSE {}
      BY <1>1, <1>5, <1>8 DEF DeployInv, Probed, Kind, Idle
    <3>2. ~rows'[lastId'].unhealthy
      BY <1>4 DEF NewRow
    <3> QED
      BY <1>4, <2>1, <3>1, <3>2 DEF Probed
  <2> QED
    BY <1>6, <2>2, <2>3, <2>4, <2>5 DEF OpInv
<1> QED
  BY <1>7, <1>8 DEF Record, End, Goto

(* The failed check's mark, and the rollback it may turn into. *)
LEMMA UnhealthilyKeeps ==
  ASSUME DeployInv, Unhealthily
  PROVE  OpInv'
<1>1. /\ op.step = "probe" /\ rows' = Unhealthy(rows) /\ lastId' = lastId
      /\ UNCHANGED <<head, images, running, snapshot, drift>>
  BY DEF Unhealthily, MarkUnhealthy, dockerVars
<1>2. lastId \in Nat /\ IsTable(rows, lastId)
  BY HistoryAssumption DEF DeployInv, HistoryInv
<1>3. /\ ActiveId(rows') = ActiveId(rows) /\ RevisionOf(rows') = RevisionOf(rows)
      /\ ActiveId(rows) # NoRow => rows'[ActiveId(rows)].unhealthy
      /\ ExplicitTargets(rows') = ExplicitTargets(rows)
      /\ \A i \in DOMAIN rows : rows'[i].rev = rows[i].rev
  BY <1>1, <1>2, UnhealthyActive
<1>4. HistoryIsRunning' /\ SnapshotIsRunning'
  <2>1. ActiveRevision' = ActiveRevision
    BY <1>3 DEF RevisionOf, ActiveRevision
  <2> QED
    BY <1>1, <2>1 DEF HistoryIsRunning, SnapshotIsRunning, DeployInv
<1>5. CASE op' = AtRest
  BY <1>1, <1>4, <1>5, EndKeeps DEF OpInv, DeployInv, Shape
<1>6. CASE /\ RollsBack /\ CanRestore
           /\ op' = [op EXCEPT !.step = "checkout", !.nested = TRUE,
                               !.rev = rows[DefaultTarget(rows)].rev]
           /\ alerts' = alerts \cup {"unhealthy"}
  <2> DEFINE d == DefaultTarget(rows)
  <2>1. d \in ExplicitTargets(rows) /\ d \in DOMAIN rows /\ rows[d].rev \in Revisions
    <3>1. d \in ExplicitTargets(rows)
      BY <1>2, <1>6, DefaultIsTarget DEF CanRestore
    <3> QED
      BY <1>2, <3>1 DEF ExplicitTargets, IsTable, Row
  <2> HIDE DEF d
  <2>2. ~op.nested /\ op.kind # "rollback" /\ op.kind \in Operation \cup {"none"}
    BY <1>6 DEF RollsBack, Kind, DeployInv, Shape
  <2>3. /\ op' \in [kind : Operation \cup {"none"}, step : Step, rev : Revisions \cup {NoRevision},
                    auto : BOOLEAN, nested : BOOLEAN, since : Nat]
        /\ op'.step = "checkout" /\ op'.nested /\ op'.since = op.since /\ op'.rev = rows[d].rev
        /\ op'.kind = op.kind /\ Kind' = "rollback"
    BY <1>6, <2>1 DEF DeployInv, Shape, Step, Kind, d
  <2>4. Shape'
    BY <1>1, <2>2, <2>3 DEF Shape, DeployInv, Idle, AtRest
  <2>5. lastId = op.since + 1
    BY <1>1, <2>2 DEF DeployInv, Taken, Shape, Idle
  <2>6. Taken'
    BY <1>1, <2>3, <2>5 DEF Taken, Shape, DeployInv
  <2>7. OnTarget'
    BY <1>3, <2>1, <2>3 DEF OnTarget
  <2>8. Upped'
    BY <2>3 DEF Upped
  <2>9. alerts' = {"unhealthy"} /\ ActiveId(rows) = lastId /\ lastId # NoRow
    BY <1>1, <1>6, <2>2, <2>5 DEF DeployInv, Probed, Shape, Idle, NoRow
  <2>10. Probed'
    BY <1>1, <1>3, <2>3, <2>9 DEF Probed
  <2> QED
    BY <1>4, <2>4, <2>6, <2>7, <2>8, <2>10 DEF OpInv
<1> QED
  BY <1>5, <1>6 DEF Unhealthily, End

(* Between the steps: settings, and a crash, which may have let the step's child finish. *)
LEMMA SettingsKeep ==
  ASSUME DeployInv, UNCHANGED <<historyVars, dockerVars, op, alerts, drift>>
  PROVE  OpInv'
<1>1. UNCHANGED <<rows, lastId, head, images, running, snapshot, op, alerts, drift>>
  BY DEF historyVars, dockerVars
<1>2. Shape' /\ Taken' /\ OnTarget'
  BY <1>1 DEF DeployInv, Shape, Idle, Kind, Taken, OnTarget
<1>3. Upped' /\ Probed'
  BY <1>1 DEF DeployInv, Upped, Probed, Kind, Idle, Unfinished
<1> QED
  BY <1>1, <1>2, <1>3, AsideKeeps DEF OpInv, DeployInv, historyVars

LEMMA CrashKeeps ==
  ASSUME DeployInv, Crash
  PROVE  OpInv'
<1>1. op' = AtRest /\ snapshot' = snapshot /\ UNCHANGED historyVars
  BY DEF Crash
<1>2. head' \in Revisions \cup {NoRevision}
  BY DEF Crash, DeployInv, Shape
<1>3. CASE UNCHANGED <<running, drift>>
  BY <1>1, <1>2, <1>3, EndAsideKeeps
<1>4. CASE op.step = "up"
  <2>1. UpDone \/ UpStops
    BY <1>4 DEF Crash
  <2>2. UpDone => HistoryIsRunning' /\ SnapshotIsRunning'
    <3>1. UpDone => "changed" \in drift' \/ "unfinished" \in drift'
      BY DEF UpDone, UpDrift
    <3> QED
      BY <3>1 DEF HistoryIsRunning, SnapshotIsRunning
  <2>3. UpStops => HistoryIsRunning' /\ SnapshotIsRunning'
    BY <1>1, StopsKeeps
  <2> QED
    BY <1>1, <1>2, <2>1, <2>2, <2>3, EndKeeps DEF OpInv
<1>5. CASE DownDone
  <2>1. HistoryIsRunning' /\ SnapshotIsRunning'
    BY <1>5 DEF DownDone, HistoryIsRunning, SnapshotIsRunning
  <2> QED
    BY <1>1, <1>2, <2>1, EndKeeps DEF OpInv
<1> QED
  BY <1>3, <1>4, <1>5 DEF Crash

LEMMA DeployInitInv == DeployInit => DeployInv
<1> SUFFICES ASSUME DeployInit PROVE DeployInv
  OBVIOUS
<1>1. HistoryInv
  BY InitInv DEF DeployInit
<1>2. op = AtRest /\ head = NoRevision
  BY DEF DeployInit
<1>3. op \in [kind : Operation \cup {"none"}, step : Step, rev : Revisions \cup {NoRevision},
             auto : BOOLEAN, nested : BOOLEAN, since : Nat]
  BY <1>2 DEF AtRest, Step
<1>4. Shape /\ Taken /\ OnTarget /\ Upped /\ Probed
  BY <1>2, <1>3 DEF Shape, Taken, OnTarget, Upped, Probed, Idle, Kind, AtRest
<1>5. ActiveRevision = NoRevision
  BY DEF DeployInit, HistoryInit, ActiveRevision, ActiveId, ActiveIds, NewestOf
<1> QED
  BY <1>1, <1>4, <1>5 DEF DeployInv, HistoryIsRunning, SnapshotIsRunning, DeployInit

LEMMA DeployNextInv == DeployInv /\ [DeployNext]_deployVars => DeployInv'
<1> SUFFICES ASSUME DeployInv, [DeployNext]_deployVars PROVE DeployInv'
  OBVIOUS
<1>1. HistoryInv'
  BY HistoryStep, NextInv DEF DeployInv
<1>2. SUFFICES OpInv'
  BY <1>1 DEF OpInv, DeployInv
<1>3. head \in Revisions \cup {NoRevision} /\ op.rev \in Revisions \cup {NoRevision}
  BY DEF DeployInv, Shape
<1>4. op.step \in {"prepare", "up"} => head \in Revisions
  BY DEF DeployInv, Shape
<1>5. ASSUME NEW kind \in Operation, Start(kind) PROVE OpInv'
  BY <1>5, BeginKeeps DEF Start
<1>6. ASSUME NEW i \in ExplicitTargets(rows), StartRollback(i) PROVE OpInv'
  <2>1. rows[i].rev \in Revisions
    BY DEF DeployInv, HistoryInv, IsTable, ExplicitTargets, Row
  <2>2. "rollback" \in Operation /\ "rollback" \notin NeedsCheckout
    BY DEF Operation, NeedsCheckout
  <2> QED
    BY <1>6, <2>1, <2>2, BeginKeeps DEF StartRollback
<1>7. ASSUME NEW r \in Revisions, Pull(r) PROVE OpInv'
  BY <1>7, PullKeeps
<1>8. ASSUME NEW r \in Revisions, PullBlocked(r) PROVE OpInv'
  BY <1>8, EndAsideKeeps DEF PullBlocked, End
<1>9. CASE PullFails
  BY <1>3, <1>9, EndAsideKeeps DEF PullFails, End
<1>10. CASE CheckoutFails
  BY <1>3, <1>10, EndAsideKeeps DEF CheckoutFails, End
<1>11. CASE PrepareFails
  BY <1>3, <1>11, EndAsideKeeps DEF PrepareFails, End, dockerVars
<1>12. CASE NoCapacity
  BY <1>3, <1>4, <1>12, EndAsideKeeps DEF NoCapacity, End, dockerVars
<1>13. CASE BuildFails
  BY <1>3, <1>13, EndAsideKeeps DEF BuildFails, End
<1>14. CASE Healthy
  BY <1>3, <1>14, EndAsideKeeps DEF Healthy, End, dockerVars
<1>15. CASE SetPaused \/ (\E p \in {"none", "verify", "rollback"} \ {policy} : SetPolicy(p))
            \/ UNCHANGED deployVars
  BY <1>15, SettingsKeep DEF SetPaused, SetPolicy, deployVars
<1> QED
  BY <1>5, <1>6, <1>7, <1>8, <1>9, <1>10, <1>11, <1>12, <1>13, <1>14, <1>15, CheckoutKeeps,
     PreparedKeeps, BuildKeeps, UpKeeps, UpFailsKeeps, DownKeeps, SnapshotKeeps, RecordKeeps,
     UnhealthilyKeeps, CrashKeeps DEF DeployNext

LEMMA DeployInvariant == DeploySpec => []DeployInv
BY DeployInitInv, DeployNextInv, PTL DEF DeploySpec

-----------------------------------------------------------------------------
(* The operations of a project, with their failures, pauses and crashes, write its history
   only as DeploymentHistory has it written: a success, a failure, a rollback to a row that
   may be restored, or the verdict of a health check.  What is proved of the table alone
   is therefore true of it in use. *)
THEOREM DeployKeepsHistory == DeploySpec => HistorySpec
<1>1. DeployInit => HistoryInit
  BY DEF DeployInit
<1> QED
  BY <1>1, DeployInvariant, HistoryStep, PTL DEF DeploySpec, HistorySpec

(* A project's history is well formed, has at most one active row and stays bounded, whatever
   its operations went through (history.ts l.3-5, l.75). *)
THEOREM HistoryInUse == DeploySpec => [](HistoryTypeOK /\ AtMostOneActive /\ HistoryBounded)
BY DeployKeepsHistory, HistoryTypeCorrect, OneActive, BoundedHistory, PTL

(* Stackport.md l.62: the active row is the revision whose containers run, unless something
   that records nothing has since changed them. *)
THEOREM HistoryTellsWhatRuns == DeploySpec => []HistoryIsRunning
<1>1. DeployInv => HistoryIsRunning
  BY DEF DeployInv
<1> QED
  BY DeployInvariant, <1>1, PTL

(* operations.ts l.652-660: the Compose file a stop works from is the one of the running
   containers, a force rebuild's too. *)
THEOREM SnapshotTellsWhatRuns == DeploySpec => []SnapshotIsRunning
<1>1. DeployInv => SnapshotIsRunning
  BY DEF DeployInv
<1> QED
  BY DeployInvariant, <1>1, PTL

(* Stackport.md l.246: "a rollback that fails its own check never triggers another". *)
THEOREM NoSecondRollback == DeploySpec => []OneRollback
<1>1. DeployInv => OneRollback
  <2> SUFFICES ASSUME DeployInv, op.nested
               PROVE  /\ op.kind # "rollback"
                      /\ lastId - op.since = IF op.step = "probe" THEN 2 ELSE 1
    BY DEF OneRollback
  <2>1. op.kind # "rollback" /\ ~Idle /\ op.since \in Nat
    BY DEF DeployInv, Shape, AtRest
  <2>2. lastId = op.since + 1 + (IF op.step = "probe" THEN 1 ELSE 0)
    BY <2>1 DEF DeployInv, Taken
  <2> QED
    BY <2>1, <2>2
<1> QED
  BY DeployInvariant, <1>1, PTL

-----------------------------------------------------------------------------
(* What a rollback reports.  The row rolled back from is the newest but one when the
   rollback's own row is added, and pruning protects no such row: it stays because the
   retention limit is more than one (RETENTION_LIMIT is 20). *)

LEMMA PreviousStays ==
  ASSUME RetentionLimit > 1, NEW t, NEW n \in Nat, IsTable(t, n), ActiveId(t) = n, n # NoRow,
         NEW r \in Revisions, NEW rollback \in BOOLEAN
  PROVE  LET R == Recorded(t, n + 1, r, rollback)
         IN  n \in DOMAIN R /\ (rollback => R[n].rolledBack) /\ R[n].unhealthy = t[n].unhealthy
<1> DEFINE A == Activate(t, n + 1, r, rollback)
           R == Recorded(t, n + 1, r, rollback)
<1>1. n \in DOMAIN t /\ t[n] \in Row /\ t[n].status = "active"
  BY ActiveIsRow DEF ActiveIds
<1>2. IsTable(A, n + 1) /\ n + 1 \in Nat /\ RetentionLimit \in Nat
  <2>1. IsTable(A, n + 1)
    BY ActivateSingle
  <2> QED
    BY <2>1, HistoryAssumption
<1>3. DOMAIN A = DOMAIN t \cup {n + 1}
  BY DEF Activate, WithRow
<1>4. A[n] = [t[n] EXCEPT !.status = "superseded", !.rolledBack = @ \/ rollback]
  BY <1>1 DEF Activate, WithRow
<1>5. (rollback => A[n].rolledBack) /\ A[n].unhealthy = t[n].unhealthy
  BY <1>1, <1>4 DEF Row
<1>6. R = Prune(A)
  BY DEF Recorded
<1> HIDE DEF A, R
<1>7. n \in Newest(DOMAIN A)
  <2>1. {j \in DOMAIN A : j > n} = {n + 1}
    BY <1>2, <1>3 DEF IsTable
  <2>2. Cardinality({j \in DOMAIN A : j > n}) = 1
    BY <2>1, FS_Singleton
  <2> QED
    BY <1>1, <1>2, <1>3, <2>2 DEF Newest
<1>8. n \in DOMAIN R
  BY <1>6, <1>7 DEF Prune, Keep
<1>9. R[n] = A[n]
  BY <1>2, <1>6, <1>8, PruneKeeps
<1> QED
  BY <1>5, <1>8, <1>9 DEF R

(* The row of an automatic rollback: active and not unhealthy, of the revision that runs,
   and the one before it is marked. *)
LEMMA RollbackRecorded ==
  ASSUME RetentionLimit > 1, DeployInv, op.nested, Record
  PROVE  /\ op.since \in Nat /\ op.since + 1 \in DOMAIN rows'
         /\ rows'[op.since + 1].unhealthy /\ rows'[op.since + 1].rolledBack
         /\ ~rows'[ActiveId(rows')].unhealthy /\ running' = ActiveRevision'
<1>1. /\ op.step = "record" /\ Kind = "rollback" /\ op.since \in Nat /\ head \in Revisions
      /\ rows' = Recorded(rows, lastId + 1, head, Kind = "rollback") /\ running' = running
  BY DEF Record, Kind, DeployInv, Shape, dockerVars
<1>2. lastId = op.since + 1 /\ lastId # NoRow /\ lastId \in Nat /\ IsTable(rows, lastId)
  BY <1>1, HistoryAssumption DEF DeployInv, Taken, Idle, HistoryInv, NoRow
<1>3. ActiveId(rows) = lastId /\ rows[lastId].unhealthy /\ running = head
  BY <1>1 DEF DeployInv, Probed, Upped
<1>4. lastId \in DOMAIN rows' /\ rows'[lastId].rolledBack /\ rows'[lastId].unhealthy
  <2>1. (Kind = "rollback") \in BOOLEAN
    OBVIOUS
  <2> QED
    BY <1>1, <1>2, <1>3, <2>1, PreviousStays
<1>5. RevisionOf(rows') = head /\ rows'[ActiveId(rows')] = NewRow(head, "active")
  <2> DEFINE R == Recorded(rows, lastId + 1, head, Kind = "rollback")
  <2>1. (Kind = "rollback") \in BOOLEAN
    OBVIOUS
  <2>2. /\ ActiveId(R) = lastId + 1 /\ R[lastId + 1] = NewRow(head, "active")
        /\ RevisionOf(R) = head
    BY <1>1, <1>2, <2>1, RecordedActive
  <2> QED
    BY <1>1, <2>2
<1>6. ActiveRevision' = RevisionOf(rows')
  BY DEF ActiveRevision, RevisionOf
<1>7. ~rows'[ActiveId(rows')].unhealthy
  BY <1>5 DEF NewRow
<1> QED
  BY <1>1, <1>2, <1>3, <1>4, <1>5, <1>6, <1>7

\* A step that ends in the probe is the row's, or one that changes neither
LEMMA ProbeFollows ==
  ASSUME DeployInv, [DeployNext]_deployVars, op'.step = "probe"
  PROVE  Record \/ UNCHANGED <<op, rows>>
<1>1. \A s \in Step : Goto(s) => op'.step = s
  BY DEF Goto, DeployInv, Shape
<1>2. op' # AtRest
  BY DEF AtRest
<1>3. ASSUME NEW kind \in Operation, NEW rev, Begin(kind, rev) PROVE FALSE
  BY <1>3 DEF Begin, FirstStep
<1>4. ASSUME NEW r, Pull(r) \/ PullBlocked(r) PROVE FALSE
  BY <1>1, <1>2, <1>4 DEF Pull, PullBlocked, End, Step
<1>5. ~(PullFails \/ CheckoutFails \/ PrepareFails \/ NoCapacity \/ BuildFails \/ UpFails \/ Down
       \/ Healthy \/ Crash)
  BY <1>2 DEF PullFails, CheckoutFails, PrepareFails, NoCapacity, BuildFails, UpFails, Down,
              Healthy, Crash, End
<1>6. ~(Checkout \/ Prepared \/ Build \/ Up \/ Snapshot)
  BY <1>1, <1>2 DEF Checkout, Prepared, Build, Up, Snapshot, End, Step
<1>7. ~Unhealthily
  <2>1. op \in [kind : Operation \cup {"none"}, step : Step, rev : Revisions \cup {NoRevision},
               auto : BOOLEAN, nested : BOOLEAN, since : Nat]
    BY DEF DeployInv, Shape
  <2> QED
    BY <1>2, <2>1 DEF Unhealthily, End
<1>8. ASSUME NEW p, SetPolicy(p) PROVE UNCHANGED <<op, rows>>
  BY <1>8 DEF SetPolicy, historyVars
<1>9. CASE SetPaused \/ UNCHANGED deployVars
  BY <1>9 DEF SetPaused, deployVars, historyVars
<1>10. "rollback" \in Operation
  BY DEF Operation
<1> QED
  BY <1>3, <1>4, <1>5, <1>6, <1>7, <1>8, <1>9, <1>10 DEF DeployNext, Start, StartRollback

LEMMA ReplacedNext ==
  ASSUME RetentionLimit > 1, DeployInv, Replaced, [DeployNext]_deployVars
  PROVE  Replaced'
<1> SUFFICES ASSUME op'.nested, op'.step = "probe"
             PROVE  /\ op'.since + 1 \in DOMAIN rows'
                    /\ rows'[op'.since + 1].unhealthy /\ rows'[op'.since + 1].rolledBack
  BY DEF Replaced
<1>1. CASE Record
  <2>1. op' = [op EXCEPT !.step = "probe"]
    <3>1. op' # AtRest
      BY DEF AtRest
    <3> QED
      BY <1>1, <3>1 DEF Record, Goto, End
  <2>2. op.nested /\ op'.since = op.since
    BY <2>1 DEF DeployInv, Shape
  <2> QED
    BY <1>1, <2>2, RollbackRecorded
<1>2. CASE UNCHANGED <<op, rows>>
  BY <1>2 DEF Replaced
<1> QED
  BY <1>1, <1>2, ProbeFollows

(* An operation with an automatic rollback that returns tells one outcome of it, and says
   recovered only if that is what the history and the containers show: for every retention
   limit that keeps more than the newest row. *)
THEOREM RecoveryReported == ASSUME RetentionLimit > 1 PROVE DeploySpec => RecoveryIsTrue
<1> DEFINE Told ==
      \/ alerts' = {"unhealthy", "rollback_failed"}
      \/ /\ alerts' = {"unhealthy", "rollback_recovered"}
         /\ ~rows'[ActiveId(rows')].unhealthy
         /\ running' = ActiveRevision'
         /\ \E i \in DOMAIN rows' : i > op.since /\ rows'[i].unhealthy /\ rows'[i].rolledBack
<1>1. DeployInit => Replaced
  BY DEF DeployInit, Replaced, AtRest
<1>2. DeployInv /\ Replaced /\ [DeployNext]_deployVars => Replaced'
  BY ReplacedNext
<1>3. DeployInv /\ Replaced /\ [DeployNext]_deployVars
        => [op.nested /\ Idle' /\ ~Crash => Told]_deployVars
  <2> SUFFICES ASSUME DeployInv, Replaced, DeployNext, op.nested, Idle', ~Crash
               PROVE  Told
    OBVIOUS
  <2>1. /\ Kind = "rollback" /\ ~Idle /\ alerts = {"unhealthy"} /\ op.since \in Nat
        /\ op.step \in {"checkout", "up", "snapshot", "record", "probe"}
    BY DEF DeployInv, Shape, Probed, Kind, AtRest
  <2>2. \A s \in Step : Goto(s) => op'.step = s
    BY DEF Goto, DeployInv, Shape
  <2>3. op'.step = "idle"
    BY DEF Idle
  <2>4. ASSUME NEW more \in SUBSET {"unhealthy"}, End(FALSE, more) PROVE Told
    BY <2>1, <2>4 DEF End, EndAlerts
  <2>5. ASSUME End(TRUE, {}) PROVE alerts' = {"unhealthy", "rollback_recovered"}
    BY <2>1, <2>5 DEF End, EndAlerts
  <2>6. CASE CheckoutFails \/ UpFails
    BY <2>4, <2>6 DEF CheckoutFails, UpFails
  <2>7. CASE Record
    <3>1. End(TRUE, {})
      BY <2>2, <2>3, <2>7 DEF Record, Step
    <3> QED
      BY <2>5, <2>7, <3>1, RollbackRecorded
  <2>8. CASE Healthy
    <3>1. /\ op.step = "probe" /\ End(TRUE, {}) /\ UNCHANGED <<rows, running>>
      BY <2>8 DEF Healthy, historyVars, dockerVars
    <3>2. /\ op.since + 1 \in DOMAIN rows
          /\ rows[op.since + 1].unhealthy /\ rows[op.since + 1].rolledBack
      BY <3>1 DEF Replaced
    <3>3. ~rows[ActiveId(rows)].unhealthy /\ running = ActiveRevision
      BY <3>1 DEF DeployInv, Probed, HistoryIsRunning
    <3> QED
      BY <2>1, <2>5, <3>1, <3>2, <3>3 DEF ActiveRevision
  <2>9. CASE Unhealthily
    <3>1. End(FALSE, {"unhealthy"})
      BY <2>1, <2>9 DEF Unhealthily, RollsBack
    <3> QED
      BY <2>4, <3>1
  <2>10. ~(Checkout \/ Up \/ Snapshot)
    BY <2>1, <2>2, <2>3 DEF Checkout, Up, Snapshot, Step
  <2>11. ASSUME NEW r, Pull(r) \/ PullBlocked(r) PROVE FALSE
    BY <2>1, <2>11 DEF Pull, PullBlocked
  <2>12. ~(PullFails \/ PrepareFails \/ NoCapacity \/ Prepared \/ Build \/ BuildFails \/ Down)
    BY <2>1 DEF PullFails, PrepareFails, NoCapacity, Prepared, Build, BuildFails, Down
  <2>13. ASSUME NEW kind, NEW rev, Begin(kind, rev) PROVE FALSE
    BY <2>1, <2>13 DEF Begin
  <2>14. op' # op
    BY <2>1, <2>3 DEF Idle
  <2>15. ~SetPaused /\ \A p : ~SetPolicy(p)
    BY <2>14 DEF SetPaused, SetPolicy
  <2> QED
    BY <2>6, <2>7, <2>8, <2>9, <2>10, <2>11, <2>12, <2>13, <2>15 DEF DeployNext, Start, StartRollback
<1> QED
  BY <1>1, <1>2, <1>3, DeployInvariant, PTL DEF DeploySpec, RecoveryIsTrue

=============================================================================
