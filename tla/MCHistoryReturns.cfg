SPECIFICATION AuditSpec
CONSTANTS
  NoRevision = NoRevision
  Revisions = {a, b, c}
  Unrestorable = {}
  RetentionLimit = 20
  MaxRows = 6
SYMMETRY MCSymmetry
INVARIANTS
  RollbackKeepsGoingBack
