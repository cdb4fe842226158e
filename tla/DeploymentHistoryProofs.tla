---------------------- MODULE DeploymentHistoryProofs ----------------------
(***************************************************************************)
(* DeploymentHistory proved for every set of revisions, retention limit    *)
(* and bound on rows: the table is well formed, has at most one active     *)
(* row and a bounded number of rows, and a failed attempt leaves the       *)
(* active row and the default rollback target where they were.             *)
(***************************************************************************)
EXTENDS DeploymentHistory, FiniteSetTheorems, TLAPS

-----------------------------------------------------------------------------
(* Largest elements *)

(* A non-empty set of naturals has a least element. *)
LEMMA LeastNatural ==
  ASSUME NEW S \in SUBSET Nat, S # {}
  PROVE  \E m \in S : \A x \in S : m <= x
<1> DEFINE L == OpToRel(<, Nat)
<1>1. \A x, y \in Nat : x < y => <<x, y>> \in L
  BY DEF OpToRel
<1>2. IsWellFoundedOn(L, Nat)
  BY NatLessThanWellFounded
<1> HIDE DEF L
<1>3. PICK m \in S : \A x \in S : ~ (<<x, m>> \in L)
  BY <1>2, WFMin
<1>4. \A x \in S : ~ (x < m)
  BY <1>1, <1>3
<1> QED
  BY <1>4

(* If it has a bound it has a largest element, and Max is it. *)
LEMMA MaxOfBounded ==
  ASSUME NEW S \in SUBSET Nat, S # {}, NEW n \in Nat, \A x \in S : x <= n
  PROVE  Max(S) \in S /\ \A x \in S : x <= Max(S)
<1> DEFINE T == {n - x : x \in S}
<1>1. ASSUME NEW x \in S PROVE n - x \in Nat
  <2>1. x \in Nat /\ x <= n
    OBVIOUS
  <2> QED
    BY <2>1
<1>2. T \in SUBSET Nat /\ T # {} /\ \A x \in S : n - x \in T
  BY <1>1
<1>3. \A t \in T : \E y \in S : t = n - y
  OBVIOUS
<1> HIDE DEF T
<1>4. PICK t \in T : \A u \in T : t <= u
  BY <1>2, LeastNatural
<1>5. PICK y \in S : t = n - y
  BY <1>3
<1>6. \A x \in S : y >= x
  BY <1>2, <1>4, <1>5
<1>7. Max(S) \in S /\ \A x \in S : Max(S) >= x
  BY <1>6 DEF Max
<1> QED
  BY <1>7

(* Ids are naturals and rows have a bound on theirs: what NewestOf returns. *)
LEMMA NewestOfIds ==
  ASSUME NEW n \in Nat, NEW S \in SUBSET (1..n)
  PROVE  /\ S = {} => NewestOf(S) = NoRow
         /\ S # {} => NewestOf(S) \in S /\ \A x \in S : x <= NewestOf(S)
<1>1. S \in SUBSET Nat /\ \A x \in S : x <= n
  OBVIOUS
<1> QED
  BY <1>1, MaxOfBounded DEF NewestOf

(* Dropping elements other than the newest leaves the newest. *)
LEMMA NewestOfSubset ==
  ASSUME NEW n \in Nat, NEW S \in SUBSET (1..n), NEW R \in SUBSET S,
         S # {} => NewestOf(S) \in R
  PROVE  NewestOf(R) = NewestOf(S)
<1>1. CASE S = {}
  BY <1>1 DEF NewestOf
<1>2. CASE S # {}
  <2>1. NewestOf(S) \in R /\ \A x \in S : x <= NewestOf(S)
    BY <1>2, NewestOfIds
  <2>2. NewestOf(R) \in R /\ \A x \in R : x <= NewestOf(R)
    BY <2>1, NewestOfIds
  <2>3. NewestOf(S) \in Nat /\ NewestOf(R) \in Nat
    <3>1. NewestOf(S) \in 1..n /\ NewestOf(R) \in 1..n
      BY <2>1, <2>2
    <3> QED
      BY <3>1
  <2> QED
    BY <2>1, <2>2, <2>3
<1> QED
  BY <1>1, <1>2

-----------------------------------------------------------------------------
(* Tables *)

\* A table whose ids go up to n
IsTable(t, n) == /\ t = [i \in DOMAIN t |-> t[i]]
                 /\ DOMAIN t \subseteq 1..n
                 /\ \A i \in DOMAIN t : t[i] \in Row

\* and that AtMostOneActive describes
IsSingle(t) == /\ \A i, j \in ActiveIds(t) : i = j
               /\ \A i \in ActiveIds(t) : ~t[i].rolledBack

(* Pruning keeps the rows it keeps as they are, the active row among them. *)
LEMMA PruneKeeps ==
  ASSUME NEW t, NEW n \in Nat, IsTable(t, n)
  PROVE  /\ DOMAIN Prune(t) \subseteq DOMAIN t
         /\ \A i \in DOMAIN Prune(t) : Prune(t)[i] = t[i]
         /\ ActiveIds(Prune(t)) = ActiveIds(t)
         /\ IsTable(Prune(t), n)
<1>1. /\ DOMAIN Prune(t) = ActiveIds(t) \cup ({DefaultTarget(t)} \cap DOMAIN t) \cup Newest(DOMAIN t)
      /\ \A i \in DOMAIN Prune(t) : Prune(t)[i] = t[i]
      /\ Prune(t) = [i \in DOMAIN Prune(t) |-> Prune(t)[i]]
  BY DEF Prune, Keep
<1>2. DOMAIN Prune(t) \subseteq DOMAIN t
  BY <1>1 DEF ActiveIds, Newest
<1>3. ActiveIds(Prune(t)) = ActiveIds(t)
  BY <1>1, <1>2 DEF ActiveIds
<1>4. IsTable(Prune(t), n)
  BY <1>1, <1>2 DEF IsTable
<1> QED
  BY <1>1, <1>2, <1>3, <1>4

(* So it leaves at most one active row if there was at most one. *)
LEMMA PruneSingle ==
  ASSUME NEW t, NEW n \in Nat, IsTable(t, n), IsSingle(t)
  PROVE  IsSingle(Prune(t))
<1>1. ActiveIds(Prune(t)) \subseteq DOMAIN Prune(t)
  BY DEF ActiveIds
<1> QED
  BY <1>1, PruneKeeps DEF IsSingle

(* A successful deploy or rollback leaves its own row as the one active row. *)
LEMMA ActivateSingle ==
  ASSUME NEW t, NEW n \in Nat, IsTable(t, n),
         NEW r \in Revisions, NEW rollback \in BOOLEAN
  PROVE  /\ IsTable(Activate(t, n + 1, r, rollback), n + 1)
         /\ IsSingle(Activate(t, n + 1, r, rollback))
<1> DEFINE A == Activate(t, n + 1, r, rollback)
<1>1. A = [i \in DOMAIN t \cup {n + 1} |->
            IF i = n + 1 THEN NewRow(r, "active")
            ELSE IF t[i].status = "active"
              THEN [t[i] EXCEPT !.status = "superseded", !.rolledBack = @ \/ rollback]
              ELSE t[i]]
  <2>1. n + 1 \notin DOMAIN t
    BY DEF IsTable
  <2> QED
    BY <2>1 DEF Activate, WithRow
<1>2. DOMAIN A = DOMAIN t \cup {n + 1} /\ DOMAIN t \subseteq 1..n
  BY <1>1 DEF IsTable
<1>3. A[n + 1] = NewRow(r, "active") /\ NewRow(r, "active") \in Row
  BY <1>1 DEF NewRow, Row
<1>4. ASSUME NEW i \in DOMAIN t
      PROVE  A[i] \in Row /\ A[i].status # "active"
  <2>1. i # n + 1 /\ t[i] \in Row
    BY DEF IsTable
  <2>2. CASE t[i].status = "active"
    <3>1. A[i] = [t[i] EXCEPT !.status = "superseded", !.rolledBack = @ \/ rollback]
      BY <1>1, <2>1, <2>2
    <3> QED
      BY <2>1, <3>1 DEF Row
  <2>3. CASE t[i].status # "active"
    BY <1>1, <2>1, <2>3
  <2> QED
    BY <2>2, <2>3
<1>5. IsTable(A, n + 1)
  <2>1. A = [i \in DOMAIN A |-> A[i]]
    BY <1>1
  <2> HIDE DEF A
  <2>2. DOMAIN A \subseteq 1..(n + 1)
    BY <1>2
  <2>3. \A i \in DOMAIN A : A[i] \in Row
    BY <1>2, <1>3, <1>4
  <2> QED
    BY <2>1, <2>2, <2>3 DEF IsTable
<1>6. ActiveIds(A) = {n + 1}
  <2> HIDE DEF A
  <2> QED
    BY <1>2, <1>3, <1>4 DEF ActiveIds, NewRow
<1>7. IsSingle(A)
  <2> HIDE DEF A
  <2> QED
    BY <1>3, <1>6 DEF IsSingle, NewRow
<1> QED
  BY <1>5, <1>7

(* A failed attempt adds a row that is not active. *)
LEMMA FailedRow ==
  ASSUME NEW t, NEW n \in Nat, IsTable(t, n), NEW r \in Revisions
  PROVE  LET W == WithRow(t, n + 1, NewRow(r, "failed"))
         IN  /\ IsTable(W, n + 1)
             /\ DOMAIN W = DOMAIN t \cup {n + 1}
             /\ \A i \in DOMAIN t : W[i] = t[i]
             /\ W[n + 1].status = "failed"
             /\ ActiveIds(W) = ActiveIds(t)
<1> DEFINE W == WithRow(t, n + 1, NewRow(r, "failed"))
<1>1. /\ DOMAIN W = DOMAIN t \cup {n + 1}
      /\ W[n + 1] = NewRow(r, "failed")
      /\ W = [i \in DOMAIN W |-> W[i]]
  BY DEF WithRow
<1>2. \A i \in DOMAIN t : W[i] = t[i]
  BY DEF WithRow, IsTable
<1> HIDE DEF W
<1>3. W[n + 1] \in Row /\ W[n + 1].status = "failed"
  BY <1>1 DEF NewRow, Row
<1>4. IsTable(W, n + 1)
  <2>1. DOMAIN W \subseteq 1..(n + 1)
    BY <1>1 DEF IsTable
  <2>2. \A i \in DOMAIN W : W[i] \in Row
    BY <1>1, <1>2, <1>3 DEF IsTable
  <2> QED
    BY <1>1, <2>1, <2>2 DEF IsTable
<1>5. ActiveIds(W) = ActiveIds(t)
  BY <1>1, <1>2, <1>3 DEF ActiveIds
<1> QED
  BY <1>1, <1>2, <1>3, <1>4, <1>5 DEF W

(* The health check's mark changes neither which row is active nor anything else. *)
LEMMA UnhealthyKeeps ==
  ASSUME NEW t, NEW n \in Nat, IsTable(t, n), IsSingle(t)
  PROVE  /\ IsTable(Unhealthy(t), n) /\ IsSingle(Unhealthy(t))
         /\ DOMAIN Unhealthy(t) = DOMAIN t
<1> DEFINE U == Unhealthy(t)
<1>1. /\ DOMAIN U = DOMAIN t
      /\ U = [i \in DOMAIN U |-> U[i]]
      /\ \A i \in DOMAIN t : U[i] = IF t[i].status = "active"
                                     THEN [t[i] EXCEPT !.unhealthy = TRUE] ELSE t[i]
  BY DEF Unhealthy
<1> HIDE DEF U
<1>2. ASSUME NEW i \in DOMAIN t
      PROVE  U[i] \in Row /\ U[i].status = t[i].status /\ U[i].rolledBack = t[i].rolledBack
  <2>1. t[i] \in Row
    BY DEF IsTable
  <2> QED
    BY <1>1, <2>1 DEF Row
<1>3. ActiveIds(U) = ActiveIds(t)
  BY <1>1, <1>2 DEF ActiveIds
<1>4. \A i \in ActiveIds(t) : i \in DOMAIN t
  BY DEF ActiveIds
<1>5. IsTable(U, n)
  BY <1>1, <1>2 DEF IsTable
<1>6. IsSingle(U)
  BY <1>2, <1>3, <1>4 DEF IsSingle
<1> QED
  BY <1>1, <1>5, <1>6 DEF U

-----------------------------------------------------------------------------
(* The inductive invariant: HistoryTypeOK and AtMostOneActive, in the terms of the lemmas *)

HistoryInv == /\ lastId \in 0..MaxRows
              /\ IsTable(rows, lastId)
              /\ IsSingle(rows)

LEMMA InitInv == HistoryInit => HistoryInv
<1> SUFFICES ASSUME HistoryInit PROVE HistoryInv
  OBVIOUS
<1>1. rows = <<>> /\ lastId = 0 /\ MaxRows \in Nat
  BY HistoryAssumption DEF HistoryInit
<1>2. DOMAIN rows = {} /\ rows = [i \in DOMAIN rows |-> rows[i]]
  BY <1>1
<1>3. IsTable(rows, lastId)
  BY <1>2 DEF IsTable
<1>4. IsSingle(rows)
  BY <1>2 DEF IsSingle, ActiveIds
<1> QED
  BY <1>1, <1>3, <1>4 DEF HistoryInv

LEMMA NextInv == HistoryInv /\ [HistoryNext]_historyVars => HistoryInv'
<1> SUFFICES ASSUME HistoryInv, [HistoryNext]_historyVars PROVE HistoryInv'
  OBVIOUS
<1>1. lastId \in Nat /\ MaxRows \in Nat /\ IsTable(rows, lastId) /\ IsSingle(rows)
  BY HistoryAssumption DEF HistoryInv
<1>2. TakeId => lastId' = lastId + 1 /\ lastId' \in 0..MaxRows
  BY <1>1 DEF TakeId, HistoryInv
<1>3. ASSUME NEW r \in Revisions, NEW rollback \in BOOLEAN,
             TakeId, rows' = Recorded(rows, lastId + 1, r, rollback)
      PROVE  HistoryInv'
  <2> DEFINE A == Activate(rows, lastId + 1, r, rollback)
  <2>1. IsTable(A, lastId + 1) /\ IsSingle(A)
    BY <1>1, ActivateSingle
  <2>2. rows' = Prune(A)
    BY <1>3 DEF Recorded
  <2> HIDE DEF A
  <2>3. IsTable(rows', lastId + 1) /\ IsSingle(rows') /\ lastId + 1 \in Nat
    BY <1>1, <2>1, <2>2, PruneKeeps, PruneSingle
  <2> QED
    BY <1>2, <1>3, <2>3 DEF HistoryInv
<1>4. ASSUME NEW r \in Revisions, RecordSuccess(r) PROVE HistoryInv'
  BY <1>3, <1>4 DEF RecordSuccess
<1>5. ASSUME NEW r \in Revisions, RecordFailed(r) PROVE HistoryInv'
  <2> DEFINE W == WithRow(rows, lastId + 1, NewRow(r, "failed"))
  <2>1. IsTable(W, lastId + 1) /\ ActiveIds(W) = ActiveIds(rows)
        /\ \A i \in DOMAIN rows : W[i] = rows[i]
    BY <1>1, FailedRow
  <2>2. rows' = Prune(W) /\ TakeId
    BY <1>5 DEF RecordFailed, Rejected
  <2> HIDE DEF W
  <2>3. IsSingle(W)
    BY <1>1, <2>1 DEF IsSingle, ActiveIds
  <2>4. IsTable(rows', lastId + 1) /\ IsSingle(rows') /\ lastId + 1 \in Nat
    BY <1>1, <2>1, <2>2, <2>3, PruneKeeps, PruneSingle
  <2> QED
    BY <1>2, <2>2, <2>4 DEF HistoryInv
<1>6. ASSUME NEW i \in ExplicitTargets(rows), RecordRollback(i) PROVE HistoryInv'
  <2>1. rows[i].rev \in Revisions
    BY <1>1 DEF ExplicitTargets, IsTable, Row
  <2> QED
    BY <1>3, <1>6, <2>1 DEF RecordRollback
<1>7. CASE MarkUnhealthy
  <2>1. rows' = Unhealthy(rows) /\ lastId' = lastId
    BY <1>7 DEF MarkUnhealthy
  <2>2. IsTable(rows', lastId) /\ IsSingle(rows')
    BY <1>1, <2>1, UnhealthyKeeps
  <2> QED
    BY <2>1, <2>2 DEF HistoryInv
<1>8. CASE UNCHANGED historyVars
  <2>1. rows' = rows /\ lastId' = lastId
    BY <1>8 DEF historyVars
  <2> QED
    BY <2>1 DEF HistoryInv
<1> QED
  BY <1>4, <1>5, <1>6, <1>7, <1>8 DEF HistoryNext

(* The table is well formed, under ids that were handed out and never given twice: for
   every retention limit and every sequence of deploys, failures, rollbacks and verdicts. *)
THEOREM HistoryTypeCorrect == HistorySpec => []HistoryTypeOK
<1>1. HistoryInv => HistoryTypeOK
  BY DEF HistoryInv, HistoryTypeOK, IsTable
<1> QED
  BY InitInv, NextInv, <1>1, PTL DEF HistorySpec

(* At most one row is active, and it is not one that a rollback has moved away from
   (history.ts l.3-5). *)
THEOREM OneActive == HistorySpec => []AtMostOneActive
<1>1. HistoryInv => AtMostOneActive
  BY DEF HistoryInv, AtMostOneActive, IsSingle
<1> QED
  BY InitInv, NextInv, <1>1, PTL DEF HistorySpec

-----------------------------------------------------------------------------
(* The size of the table *)

(* The newest rows of a table are no more than the retention limit. *)
LEMMA NewestFew ==
  ASSUME NEW n \in Nat, NEW S \in SUBSET (1..n)
  PROVE  /\ IsFiniteSet(Newest(S))
         /\ Cardinality(Newest(S)) \in Nat /\ Cardinality(Newest(S)) <= RetentionLimit
<1>1. IsFiniteSet(S)
  <2>1. IsFiniteSet(1..n)
    BY FS_Interval
  <2> QED
    BY <2>1, FS_Subset
<1>2. Newest(S) \subseteq S /\ RetentionLimit \in Nat
  BY HistoryAssumption DEF Newest
<1>3. IsFiniteSet(Newest(S)) /\ Cardinality(Newest(S)) \in Nat
  BY <1>1, <1>2, FS_Subset, FS_CardinalityType
<1>4. CASE Newest(S) = {}
  BY <1>2, <1>3, <1>4, FS_EmptySet
<1>5. CASE Newest(S) # {}
  <2>1. Newest(S) \in SUBSET Nat
    <3>1. S \in SUBSET Nat
      OBVIOUS
    <3> QED
      BY <1>2, <3>1
  <2>2. PICK m \in Newest(S) : \A x \in Newest(S) : m <= x
    BY <1>5, <2>1, LeastNatural
  <2> DEFINE H == {j \in S : j > m}
  <2>3. Cardinality(H) < RetentionLimit
    BY DEF Newest
  <2>4. IsFiniteSet(H) /\ Cardinality(H) \in Nat
    <3>1. H \subseteq S
      OBVIOUS
    <3> QED
      BY <1>1, <3>1, FS_Subset, FS_CardinalityType
  <2>5. m \notin H /\ Newest(S) \subseteq H \cup {m}
    BY <1>2, <2>1, <2>2
  <2> HIDE DEF H
  <2>6. IsFiniteSet(H \cup {m}) /\ Cardinality(H \cup {m}) = Cardinality(H) + 1
    BY <2>4, <2>5, FS_AddElement
  <2>7. Cardinality(Newest(S)) <= Cardinality(H) + 1
    BY <2>5, <2>6, FS_Subset
  <2> QED
    BY <1>2, <1>3, <2>3, <2>4, <2>7
<1> QED
  BY <1>3, <1>4, <1>5

(* One more element makes a finite set at most one larger. *)
LEMMA AddOne ==
  ASSUME NEW S, IsFiniteSet(S), NEW x
  PROVE  /\ IsFiniteSet(S \cup {x}) /\ Cardinality(S \cup {x}) \in Nat
         /\ Cardinality(S \cup {x}) <= Cardinality(S) + 1
<1>1. Cardinality(S) \in Nat
  BY FS_CardinalityType
<1>2. CASE x \in S
  <2>1. S \cup {x} = S
    BY <1>2
  <2>2. IsFiniteSet(S \cup {x}) /\ Cardinality(S \cup {x}) = Cardinality(S)
    BY <2>1, Zenon
  <2> QED
    BY <1>1, <2>2
<1>3. CASE x \notin S
  <2>1. IsFiniteSet(S \cup {x}) /\ Cardinality(S \cup {x}) = Cardinality(S) + 1
    BY <1>3, FS_AddElement
  <2> QED
    BY <1>1, <2>1
<1> QED
  BY <1>2, <1>3

(* Pruning leaves the newest rows and two more at most: an active row and a target. *)
LEMMA PruneBounded ==
  ASSUME NEW t, NEW n \in Nat, IsTable(t, n), IsSingle(t)
  PROVE  Cardinality(DOMAIN Prune(t)) <= RetentionLimit + 2
<1> DEFINE N == Newest(DOMAIN t)
           a == ActiveId(t)
           d == DefaultTarget(t)
<1>1. DOMAIN t \in SUBSET (1..n) /\ RetentionLimit \in Nat
  BY HistoryAssumption DEF IsTable
<1>2. IsFiniteSet(N) /\ Cardinality(N) \in Nat /\ Cardinality(N) <= RetentionLimit
  BY <1>1, NewestFew
<1>3. ActiveIds(t) \subseteq {a}
  <2>1. ActiveIds(t) \in SUBSET (1..n)
    BY <1>1 DEF ActiveIds
  <2>2. ActiveIds(t) # {} => a \in ActiveIds(t)
    BY <2>1, NewestOfIds DEF ActiveId
  <2> QED
    BY <2>2 DEF IsSingle
<1>4. DOMAIN Prune(t) \subseteq (N \cup {a}) \cup {d}
  BY <1>3 DEF Prune, Keep
<1> HIDE DEF N, a, d
<1>5. /\ IsFiniteSet(N \cup {a}) /\ Cardinality(N \cup {a}) \in Nat
      /\ Cardinality(N \cup {a}) <= Cardinality(N) + 1
  BY <1>2, AddOne
<1>6. /\ IsFiniteSet((N \cup {a}) \cup {d}) /\ Cardinality((N \cup {a}) \cup {d}) \in Nat
      /\ Cardinality((N \cup {a}) \cup {d}) <= Cardinality(N \cup {a}) + 1
  BY <1>5, AddOne
<1>7. /\ Cardinality(DOMAIN Prune(t)) <= Cardinality((N \cup {a}) \cup {d})
      /\ Cardinality(DOMAIN Prune(t)) \in Nat
  BY <1>4, <1>6, FS_Subset, FS_CardinalityType
<1> QED
  BY <1>1, <1>2, <1>5, <1>6, <1>7

LEMMA NextBounded ==
  HistoryInv /\ HistoryBounded /\ [HistoryNext]_historyVars => HistoryBounded'
<1> SUFFICES ASSUME HistoryInv, HistoryBounded, [HistoryNext]_historyVars
             PROVE  HistoryBounded'
  OBVIOUS
<1>1. lastId \in Nat /\ IsTable(rows, lastId) /\ IsSingle(rows)
  BY HistoryAssumption DEF HistoryInv
<1>2. ASSUME NEW r \in Revisions, NEW rollback \in BOOLEAN,
             rows' = Recorded(rows, lastId + 1, r, rollback)
      PROVE  HistoryBounded'
  <2> DEFINE A == Activate(rows, lastId + 1, r, rollback)
  <2>1. IsTable(A, lastId + 1) /\ IsSingle(A) /\ lastId + 1 \in Nat
    BY <1>1, ActivateSingle
  <2>2. rows' = Prune(A)
    BY <1>2 DEF Recorded
  <2> HIDE DEF A
  <2> QED
    BY <2>1, <2>2, PruneBounded DEF HistoryBounded
<1>3. ASSUME NEW r \in Revisions, RecordFailed(r) PROVE HistoryBounded'
  <2> DEFINE W == WithRow(rows, lastId + 1, NewRow(r, "failed"))
  <2>1. /\ IsTable(W, lastId + 1) /\ lastId + 1 \in Nat
        /\ ActiveIds(W) = ActiveIds(rows) /\ \A i \in DOMAIN rows : W[i] = rows[i]
    <3>1. /\ IsTable(W, lastId + 1) /\ ActiveIds(W) = ActiveIds(rows)
          /\ \A i \in DOMAIN rows : W[i] = rows[i]
      BY <1>1, FailedRow
    <3> HIDE DEF W
    <3> QED
      BY <1>1, <3>1
  <2>2. rows' = Prune(W)
    BY <1>3 DEF RecordFailed, Rejected
  <2> HIDE DEF W
  <2>3. IsSingle(W)
    BY <1>1, <2>1 DEF IsSingle, ActiveIds
  <2> QED
    BY <2>1, <2>2, <2>3, PruneBounded DEF HistoryBounded
<1>4. ASSUME NEW i \in ExplicitTargets(rows), RecordRollback(i) PROVE HistoryBounded'
  <2>1. rows[i].rev \in Revisions
    BY <1>1 DEF ExplicitTargets, IsTable, Row
  <2> QED
    BY <1>2, <1>4, <2>1 DEF RecordRollback
<1>5. CASE MarkUnhealthy
  <2>1. DOMAIN rows' = DOMAIN rows
    BY <1>1, <1>5, UnhealthyKeeps DEF MarkUnhealthy
  <2> QED
    BY <2>1 DEF HistoryBounded
<1>6. CASE UNCHANGED historyVars
  BY <1>6 DEF historyVars, HistoryBounded
<1> QED
  BY <1>2, <1>3, <1>4, <1>5, <1>6 DEF HistoryNext, RecordSuccess

(* Whatever the order of successes, failures and rollbacks, the table holds at most the
   retention limit and two protected rows (tests/rollback.test.ts l.86). *)
THEOREM BoundedHistory == HistorySpec => []HistoryBounded
<1>1. HistoryInit => HistoryBounded
  <2> SUFFICES ASSUME HistoryInit PROVE HistoryBounded
    OBVIOUS
  <2>1. DOMAIN rows = {} /\ RetentionLimit \in Nat
    BY HistoryAssumption DEF HistoryInit
  <2> QED
    BY <2>1, FS_EmptySet DEF HistoryBounded
<1> QED
  BY InitInv, NextInv, NextBounded, <1>1, PTL DEF HistorySpec

-----------------------------------------------------------------------------
(* A failed attempt *)

(* It keeps the active row, every candidate of a default rollback that pruning keeps, and
   above all the one that would be chosen. *)
LEMMA RejectedKeepsFallback ==
  ASSUME NEW t, NEW n \in Nat, IsTable(t, n), NEW r \in Revisions
  PROVE  /\ ActiveId(Rejected(t, n + 1, r)) = ActiveId(t)
         /\ DefaultTarget(Rejected(t, n + 1, r)) = DefaultTarget(t)
<1> DEFINE W == WithRow(t, n + 1, NewRow(r, "failed"))
           P == Prune(W)
<1>1. /\ IsTable(W, n + 1) /\ ActiveIds(W) = ActiveIds(t)
      /\ DOMAIN W = DOMAIN t \cup {n + 1}
      /\ \A i \in DOMAIN t : W[i] = t[i]
      /\ W[n + 1].status = "failed"
  BY FailedRow
<1>2. Rejected(t, n + 1, r) = P
  BY DEF Rejected
<1> HIDE DEF W
<1>3. n + 1 \in Nat
  OBVIOUS
<1>4. /\ DOMAIN P \subseteq DOMAIN W
      /\ \A i \in DOMAIN P : P[i] = W[i]
      /\ ActiveIds(P) = ActiveIds(t)
  BY <1>1, <1>3, PruneKeeps
<1>5. ActiveId(P) = ActiveId(t) /\ ActiveId(W) = ActiveId(t)
  BY <1>1, <1>4 DEF ActiveId
<1>6. ActiveId(t) # NoRow => ActiveId(t) \in ActiveIds(t)
  <2>1. ActiveIds(t) \in SUBSET (1..n)
    BY DEF ActiveIds, IsTable
  <2> QED
    BY <2>1, NewestOfIds DEF ActiveId, NewestOf
<1>7. ActiveId(t) # NoRow => /\ ActiveId(t) \in DOMAIN t /\ ActiveId(t) \in DOMAIN P
                             /\ W[ActiveId(t)] = t[ActiveId(t)]
                             /\ P[ActiveId(t)] = t[ActiveId(t)]
  BY <1>1, <1>4, <1>6 DEF ActiveIds
<1>8. DefaultCandidates(W) = DefaultCandidates(t)
  <2>1. ASSUME NEW i \in DOMAIN t
        PROVE  i \in DefaultCandidates(W) <=> i \in DefaultCandidates(t)
    BY <1>1, <1>5, <1>7, <2>1 DEF DefaultCandidates, IsRestorable, IsRunningRevision
  <2>2. DefaultCandidates(W) \subseteq DOMAIN t /\ DefaultCandidates(t) \subseteq DOMAIN t
    BY <1>1 DEF DefaultCandidates
  <2> QED
    BY <2>1, <2>2
<1>9. DefaultCandidates(P) = DefaultCandidates(W) \cap DOMAIN P
  <2>1. ASSUME NEW i \in DOMAIN P
        PROVE  i \in DefaultCandidates(P) <=> i \in DefaultCandidates(W)
    BY <1>4, <1>5, <1>7, <2>1 DEF DefaultCandidates, IsRestorable, IsRunningRevision
  <2>2. DefaultCandidates(P) \subseteq DOMAIN P
    BY DEF DefaultCandidates
  <2> QED
    BY <2>1, <2>2
<1>10. DefaultCandidates(W) # {} => DefaultTarget(W) \in DefaultCandidates(P)
  <2>1. DefaultCandidates(W) \in SUBSET (1..(n + 1))
    BY <1>1 DEF DefaultCandidates, IsTable
  <2>2. SUFFICES ASSUME DefaultCandidates(W) # {}
                 PROVE  DefaultTarget(W) \in DefaultCandidates(P)
    OBVIOUS
  <2>3. DefaultTarget(W) \in DefaultCandidates(W)
    BY <1>3, <2>1, <2>2, NewestOfIds DEF DefaultTarget
  <2>4. DefaultTarget(W) \in DOMAIN P
    <3>1. DefaultTarget(W) \in DOMAIN W
      BY <2>3 DEF DefaultCandidates
    <3> QED
      BY <3>1 DEF Prune, Keep
  <2> QED
    BY <1>9, <2>3, <2>4
<1>11. DefaultTarget(P) = DefaultTarget(W)
  <2>1. DefaultCandidates(W) \in SUBSET (1..(n + 1))
    BY <1>1 DEF DefaultCandidates, IsTable
  <2>2. DefaultCandidates(P) \in SUBSET DefaultCandidates(W)
    BY <1>9
  <2> HIDE DEF P
  <2> QED
    BY <1>3, <1>10, <2>1, <2>2, NewestOfSubset DEF DefaultTarget
<1>12. DefaultTarget(W) = DefaultTarget(t)
  BY <1>8 DEF DefaultTarget
<1> QED
  BY <1>2, <1>5, <1>11, <1>12

(* history.ts l.75: "Failed attempts must not evict the running artifact or its default
   rollback target". *)
THEOREM FailureTheorem == HistorySpec => FailureKeepsFallback
<1> DEFINE Keeps == (\E r \in Revisions : RecordFailed(r)) =>
                      /\ ActiveId(rows') = ActiveId(rows)
                      /\ DefaultTarget(rows') = DefaultTarget(rows)
<1>1. HistoryInv => Keeps
  <2> SUFFICES ASSUME HistoryInv, NEW r \in Revisions, RecordFailed(r)
               PROVE  /\ ActiveId(rows') = ActiveId(rows)
                      /\ DefaultTarget(rows') = DefaultTarget(rows)
    OBVIOUS
  <2>1. lastId \in Nat /\ IsTable(rows, lastId)
    BY HistoryAssumption DEF HistoryInv
  <2>2. rows' = Rejected(rows, lastId + 1, r)
    BY DEF RecordFailed
  <2> QED
    BY <2>1, <2>2, RejectedKeepsFallback
<1>2. HistoryInv => [Keeps]_historyVars
  BY <1>1
<1> QED
  BY InitInv, NextInv, <1>2, PTL DEF HistorySpec, FailureKeepsFallback

=============================================================================
