SPECIFICATION FairSpec
CONSTANTS
  NaN = NaN
  NoBaseline = NoBaseline
  Unavailable = Unavailable
  None = None
  SeriesOrder <- TwoSeries
  Rules <- TwoRules
  Readings <- TwoReadings
  Samples <- TwoSamples
  Deadline = 3
  MaxPolls = 3
PROPERTY KeepsProducing
