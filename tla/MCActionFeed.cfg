CONSTANTS
  Ids = {a1, a2}
  NoId = NoId
  MaxSeq = 2
  MaxConns = 2
  MaxWire = 2
  MaxFaults = 1
SPECIFICATION FeedSpec
SYMMETRY Symmetries
CHECK_DEADLOCK FALSE
INVARIANT OutputFaithful
INVARIANT TrackerSettles
