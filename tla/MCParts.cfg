SPECIFICATION MCSpec
CONSTANTS
  NoRevision = NoRevision
  Revisions = {a, b, c}
  Unrestorable = {c}
  RetentionLimit = 2
  MaxRows = 6
  Repos = {r1, r2}
  NoRepo = NoRepo
  Calls = {c1, c2}
  MaxRequests = 4
  MaxFailures = 1
  db = db
  uploads = uploads
  Mounts = {db, uploads}
  Files = {f}
  MaxVersion = 2
  MaxFaults = 1
  g1 = g1
  Projects = {p1, p2}
  Services = {web}
  Groups = {g1, g2}
  NoGroup = NoGroup
  Syncs = {s1, s2}
  MaxChanges = 2
  MaxOutages = 1
CHECK_DEADLOCK FALSE
INVARIANTS
  AtMostOneActive
  HistoryBounded
  PruningInvisible
  PruningNeverSubstitutes
  NoStrayHook
  TriggerHasUrl
  NothingLost
  GroupsFollowRows
  NoEmptyNetwork
PROPERTIES
  FailureKeepsFallback
  StartsOnItsData
