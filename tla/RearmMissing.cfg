SPECIFICATION FairSpec
CONSTANTS
  NaN = NaN
  NoBaseline = NoBaseline
  Unavailable = Unavailable
  None = None
  SeriesOrder <- OneSeries
  Rules <- MissingRules
  Readings <- OneReadings
  Samples <- OneSamples
  Deadline = 3
  MaxPolls = 3
PROPERTY KeepsProducing
