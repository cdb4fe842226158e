SPECIFICATION MCSpec
CONSTANTS
  Last = 3
  MaxRuns = 3
  MaxFaults = 1
CHECK_DEADLOCK FALSE
INVARIANTS
  VersionsAgree
  UpdatableAgain
PROPERTIES
  OutcomeIsTold
