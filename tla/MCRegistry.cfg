SPECIFICATION RegistrySpec
CONSTANTS
  Keys = {repo, nginx}
  RepoKeys = {repo}
  Ids = {i1, i2, i3}
  NoKey = NoKey
  NoId = NoId
INVARIANTS
  RowsFollowSlots
  BusySlotHasRunner
PROPERTIES
  OutcomeIsFinal
  SlotIsReleased
