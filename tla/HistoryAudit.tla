---------------------------- MODULE HistoryAudit ----------------------------
(***************************************************************************)
(* DeploymentHistory beside what it must be compared with: the table as it *)
(* would be had nothing ever been pruned, and the revision the latest      *)
(* rollback moved away from.  Both are history variables: no action of the *)
(* table reads them.                                                       *)
(***************************************************************************)
EXTENDS DeploymentHistory

CONSTANT NoRevision

VARIABLES full,       \* the rows, never pruned
          left,       \* what the latest default rollback left, until something else is deployed
          rolledEver, \* some rollback was recorded
          returned    \* some rollback went to a revision an earlier one had moved away from

auditVars == <<rows, lastId, full, left, rolledEver, returned>>

AuditInit ==
  HistoryInit /\ full = <<>> /\ left = NoRevision /\ rolledEver = FALSE /\ returned = FALSE

Deploys(r) ==
  /\ RecordSuccess(r)
  /\ full' = Activate(full, lastId + 1, r, FALSE)
  /\ left' = NoRevision
  /\ UNCHANGED <<rolledEver, returned>>

Fails(r) ==
  /\ RecordFailed(r)
  /\ full' = WithRow(full, lastId + 1, NewRow(r, "failed"))
  /\ UNCHANGED <<left, rolledEver, returned>>

RollsBack(i) ==
  /\ RecordRollback(i)
  /\ full' = Activate(full, lastId + 1, rows[i].rev, TRUE)
  /\ left' = IF i = DefaultTarget(rows) /\ ActiveId(rows) # NoRow
               THEN rows[ActiveId(rows)].rev ELSE NoRevision
  /\ rolledEver' = TRUE /\ returned' = (returned \/ rows[i].rolledBack)

FailsHealth ==
  MarkUnhealthy /\ full' = Unhealthy(full) /\ UNCHANGED <<left, rolledEver, returned>>

AuditNext ==
  \/ \E r \in Revisions : Deploys(r) \/ Fails(r)
  \/ \E i \in ExplicitTargets(rows) : RollsBack(i)
  \/ FailsHealth

AuditSpec == AuditInit /\ [][AuditNext]_auditVars

-----------------------------------------------------------------------------
TargetRevision(t) == IF DefaultTarget(t) = NoRow THEN NoRevision ELSE t[DefaultTarget(t)].rev

(* While every revision brought up can be restored and none was rolled back, pruning
   is invisible: the default rollback goes where it would go had every row been kept,
   however many failed attempts there were (pruneOldDeployments). *)
PruningInvisible ==
  /\ ~rolledEver
  /\ \A i \in DOMAIN full : full[i].status = "failed" \/ full[i].rev \notin Unrestorable
  => DefaultTarget(rows) = DefaultTarget(full)

(* Afterwards pruning may leave no default target, but makes no older revision stand in for
   the one the full history would choose, as long as nobody rolled back to a revision that a
   rollback had moved away from: a default rollback never does. *)
PruningNeverSubstitutes == returned \/ DefaultTarget(rows) \in {DefaultTarget(full), NoRow}

(* history.ts l.167-169: a default rollback goes to a revision "no rollback has moved
   away from, so rolling back twice keeps going back instead of returning to the
   revision the first rollback left". *)
RollbackKeepsGoingBack == left # NoRevision => TargetRevision(rows) # left

=============================================================================
