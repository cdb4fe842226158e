------------------------- MODULE DeploymentHistory -------------------------
(***************************************************************************)
(* The project_deployments table of one project, as                        *)
(* src/src/modules/deployments/history.ts keeps it: one row per deploy     *)
(* attempt, at most one of them active, pruned after every insert, and the *)
(* choice of the revision a rollback restores.                             *)
(*                                                                         *)
(* A revision stands for what sameRevision compares: the commit, the name  *)
(* of the Compose file and the effective Compose text.  Row ids are the    *)
(* table's integer keys; 0 is "no row", the value pruneOldDeployments      *)
(* itself uses.                                                            *)
(***************************************************************************)
EXTENDS Integers, FiniteSets, FiniteSetsExt

CONSTANTS Revisions,       \* revisions a deploy can bring up
          Unrestorable,    \* those recorded without a commit or Compose file
          RetentionLimit,  \* RETENTION_LIMIT, 20 in the source
          MaxRows          \* bound: deploy attempts recorded in a behaviour

ASSUME HistoryAssumption ==
  /\ Revisions # {}
  /\ Unrestorable \subseteq Revisions
  /\ RetentionLimit \in Nat \ {0}
  /\ MaxRows \in Nat

VARIABLES rows,    \* the table: id |-> row
          lastId   \* the largest id handed out

historyVars == <<rows, lastId>>

NoRow == 0

Row == [rev : Revisions,
        status : {"active", "failed", "superseded"},
        rolledBack : BOOLEAN,    \* rolled_back_at is set
        unhealthy : BOOLEAN]     \* health_failed_at is set

NewRow(r, s) == [rev |-> r, status |-> s, rolledBack |-> FALSE, unhealthy |-> FALSE]

-----------------------------------------------------------------------------
(* Queries *)

NewestOf(S) == IF S = {} THEN NoRow ELSE Max(S)

ActiveIds(t) == {i \in DOMAIN t : t[i].status = "active"}

\* "ORDER BY id DESC LIMIT 1" over the active rows
ActiveId(t) == NewestOf(ActiveIds(t))

IsRestorable(row) ==
  /\ row.status \in {"active", "superseded"}
  /\ row.rev \notin Unrestorable

\* `active && sameRevision(row, active)`
IsRunningRevision(t, i) == ActiveId(t) # NoRow /\ t[i].rev = t[ActiveId(t)].rev

MutDefaultCandidatesWithFailed(t) ==
  {i \in DOMAIN t : /\ t[i].status # "active"
                    /\ ~t[i].rolledBack
                    /\ t[i].rev \notin Unrestorable
                    /\ ~IsRunningRevision(t, i)}

DefaultCandidates(t) ==
  {i \in DOMAIN t : /\ t[i].status = "superseded"
                    /\ ~t[i].rolledBack
                    /\ IsRestorable(t[i])
                    /\ ~IsRunningRevision(t, i)}

\* resolveRollbackTarget without a deployment id
DefaultTarget(t) == NewestOf(DefaultCandidates(t))

\* resolveRollbackTarget with one: every id it accepts
ExplicitTargets(t) == {i \in DOMAIN t : IsRestorable(t[i]) /\ ~IsRunningRevision(t, i)}

-----------------------------------------------------------------------------
(* Writes *)

Newest(S) == {i \in S : Cardinality({j \in S : j > i}) < RetentionLimit}

Keep(t, S) == [i \in S |-> t[i]]

MutPruneByAgeOnly(t) == Keep(t, ActiveIds(t) \cup Newest(DOMAIN t))

MutPruneKeepsSuperseded(t) ==
  Keep(t, {i \in DOMAIN t : t[i].status # "failed"} \cup Newest(DOMAIN t))

MutPruneProtectsOldest(t) ==
  Keep(t, ActiveIds(t) \cup Newest(DOMAIN t)
          \cup (IF DefaultCandidates(t) = {} THEN {} ELSE {Min(DefaultCandidates(t))}))

\* pruneOldDeployments: the active row, the default rollback target and the newest rows stay
Prune(t) ==
  Keep(t, ActiveIds(t) \cup ({DefaultTarget(t)} \cap DOMAIN t) \cup Newest(DOMAIN t))

WithRow(t, id, row) == [i \in DOMAIN t \cup {id} |-> IF i = id THEN row ELSE t[i]]

MutActivateKeepingOldActive(t, id, r, rollback) == WithRow(t, id, NewRow(r, "active"))

\* The transaction of recordSuccessfulDeployment
Activate(t, id, r, rollback) ==
  LET superseded == [i \in DOMAIN t |->
        IF t[i].status = "active"
          THEN [t[i] EXCEPT !.status = "superseded", !.rolledBack = @ \/ rollback]
          ELSE t[i]]
  IN  WithRow(superseded, id, NewRow(r, "active"))

\* recordSuccessfulDeployment and recordFailedDeployment, the prune included
Recorded(t, id, r, rollback) == Prune(Activate(t, id, r, rollback))
Rejected(t, id, r) == Prune(WithRow(t, id, NewRow(r, "failed")))

\* markActiveDeploymentUnhealthy
Unhealthy(t) == [i \in DOMAIN t |-> IF t[i].status = "active"
                                      THEN [t[i] EXCEPT !.unhealthy = TRUE] ELSE t[i]]

-----------------------------------------------------------------------------
(* The table on its own: every caller's use of it, in any order *)

HistoryInit == rows = <<>> /\ lastId = 0

\* AUTOINCREMENT: an id is never given twice, whatever was pruned
TakeId == lastId < MaxRows /\ lastId' = lastId + 1

\* A whole-stack `up` succeeded (runProjectAction)
RecordSuccess(r) == TakeId /\ rows' = Recorded(rows, lastId + 1, r, FALSE)

\* An attempt failed or was blocked
RecordFailed(r) == TakeId /\ rows' = Rejected(rows, lastId + 1, r)

\* rollbackProject brought row i up again, either the default target or a row picked by id
RecordRollback(i) == TakeId /\ rows' = Recorded(rows, lastId + 1, rows[i].rev, TRUE)

\* The post-deploy health check failed
MarkUnhealthy == rows' = Unhealthy(rows) /\ UNCHANGED lastId

HistoryNext ==
  \/ \E r \in Revisions : RecordSuccess(r) \/ RecordFailed(r)
  \/ \E i \in ExplicitTargets(rows) : RecordRollback(i)
  \/ MarkUnhealthy

HistorySpec == HistoryInit /\ [][HistoryNext]_historyVars

-----------------------------------------------------------------------------
(* The table has well-formed rows, under ids that were handed out. *)
HistoryTypeOK ==
  /\ lastId \in 0..MaxRows
  /\ DOMAIN rows \subseteq 1..lastId
  /\ \A i \in DOMAIN rows : rows[i] \in Row

(* history.ts l.3-5: "At most one `active` row per project at a time", and it is
   never one a rollback moved away from. *)
AtMostOneActive ==
  /\ \A i, j \in ActiveIds(rows) : i = j
  /\ \A i \in ActiveIds(rows) : ~rows[i].rolledBack

(* A failed or blocked attempt changes neither the active row nor what a default
   rollback would restore, however many there are (history.ts l.73-74). *)
FailureKeepsFallback ==
  [][(\E r \in Revisions : RecordFailed(r)) =>
        /\ ActiveId(rows') = ActiveId(rows)
        /\ DefaultTarget(rows') = DefaultTarget(rows)]_historyVars

(* The protected rows are at most two beyond the retention limit
   (tests/rollback.test.ts l.86). *)
HistoryBounded == Cardinality(DOMAIN rows) <= RetentionLimit + 2

=============================================================================
