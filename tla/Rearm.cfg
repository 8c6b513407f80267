SPECIFICATION FairSpec
CONSTANTS
  NaN = NaN
  NoBaseline = NoBaseline
  Unavailable = Unavailable
  None = None
  SeriesOrder <- TwoSeries
  Rules <- MixedRules
  Readings <- TwoReadings
  Samples <- MixedSamples
  Deadline = 4
  MaxPolls = 4
INVARIANTS NeverHoldsFired ExitIsEarned RefiresInTime
PROPERTY SoleConditionKeepsProducing
