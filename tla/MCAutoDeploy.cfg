SPECIFICATION AutoSpec
CONSTANTS
  Keys = {repo}
  RepoKeys = {repo}
  Slot = repo
  Ids = {i1, i2}
  NoKey = NoKey
  NoId = NoId
  NoCommit = NoCommit
  Branches = {main, dev}
  InitialBranch = main
  MaxOps = 3
INVARIANTS
  MarkerMatchesQueue
  QueueIsWatched
PROPERTIES
  RecordedWhenStarted
  PollingMovesForward
  TipIsTaken
CHECK_DEADLOCK FALSE
