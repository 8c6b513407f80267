SPECIFICATION FairSpec
CONSTANTS
  SeqMax = 4
  Missing = Missing
  Corrupt = Corrupt
  MaxSeen = 3
  MaxBatch = 2
  MaxFaults = 2
INVARIANTS PersistedFirst OrderPreserved FollowAccounted FiredExit
PROPERTIES CounterSteps StopsWhenAsked
