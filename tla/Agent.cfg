SPECIFICATION FairSpec
CONSTANTS
  None = None
  Rules <- TwoRules
  Slug <- OwnSlugs
  Severities <- TwoRanks
  RingCap = 2
  LineCap = 1
  MaxSeq = 4
  MaxFaults = 1
INVARIANTS NothingLost RecordedFirst AckedOnce IncidentTellsItsEvents NoPhantom
PROPERTIES NothingForgotten EventuallyAcked
CHECK_DEADLOCK FALSE
