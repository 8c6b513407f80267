SPECIFICATION Spec
CONSTANTS
  NaN = NaN
  NoBaseline = NoBaseline
  Unavailable = Unavailable
  SeriesOrder <- PairOrder
  Rules <- PairRules
  Readings <- PairReadings
  Samples <- PairSamples
  MaxTicks = 4
INVARIANT OrderTotal
PROPERTIES AnnouncesChanges ImplementsEpisodes
CHECK_DEADLOCK FALSE
