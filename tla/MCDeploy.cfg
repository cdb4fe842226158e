SPECIFICATION MCSpec
CONSTANTS
  NoRevision = NoRevision
  Mixed = Mixed
  Revisions = {a, b, x}
  Broken = {x}
  Unrestorable = {}
  RetentionLimit = 2
  MaxRows = 4
  FreshRows = 3
SYMMETRY MCSymmetry
CHECK_DEADLOCK FALSE
INVARIANTS
  HistoryIsRunning
  SnapshotIsRunning
  OneRollback
PROPERTIES
  RecoveryIsTrue
