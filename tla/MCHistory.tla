----------------------------- MODULE MCHistory -----------------------------
EXTENDS HistoryAudit, TLC

\* Revisions that a rollback can restore are interchangeable.
MCSymmetry == Permutations(Revisions \ Unrestorable)
=============================================================================
