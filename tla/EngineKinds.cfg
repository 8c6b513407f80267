SPECIFICATION Spec
CONSTANTS
  NaN = NaN
  NoBaseline = NoBaseline
  Unavailable = Unavailable
  SeriesOrder <- KindsOrder
  Rules <- KindsRules
  Readings <- KindsReadings
  Samples <- KindsSamples
  MaxTicks = 6
PROPERTIES NoFalseAllClear ImplementsEpisodes
CHECK_DEADLOCK FALSE
