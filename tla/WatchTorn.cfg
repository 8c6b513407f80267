SPECIFICATION Spec
CONSTANTS
  SeqMax = 4
  Missing = Missing
  Corrupt = Corrupt
  MaxSeen = 3
  MaxBatch = 2
  MaxFaults = 2
INVARIANT EveryDropWarned
