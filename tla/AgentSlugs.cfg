SPECIFICATION Spec
CONSTANTS
  None = None
  Rules <- AlikeRules
  Slug <- SameSlug
  Severities <- SameRank
  RingCap = 2
  LineCap = 2
  MaxSeq = 3
  MaxFaults = 0
INVARIANT OneRulePerIncident
CHECK_DEADLOCK FALSE
