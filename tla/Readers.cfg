SPECIFICATION Spec
CONSTANTS
  NaN = NaN
  NoBaseline = NoBaseline
  Unavailable = Unavailable
  SeriesOrder <- MCSeriesOrder
  Rules <- MCRules
  Readings <- MCReadings
  Samples <- MCSamples
  Polled <- MCPolled
  Recorded <- MCRecorded
  Unset = Unset
  Blank = Blank
  NoDay = NoDay
  NoWindow = NoWindow
  NoInstant = NoInstant
  Null = Null
  Occurs <- MCOccurs
  DefaultInterval = 2
  DefaultRetention = 1
  DefaultLogDir = "logs"
  MaxSamples = 3
  DayLength = 4
  Second = 2
  LastDay = 3
  Instants <- MCInstants
  MaxFragments = 7
  Worlds <- MCWorlds
  Requests <- MCRequests
  MaxSeconds = 50
  Earliest <- MCEarliest
  GapMultiplier = 1
  MaxGaps = 2
  NumberBase = 2
  ViolationCap = 2
  ConfigFiles <- MCConfigFiles
  RowsPerGroup = 2
  Incidents <- MCIncidents
  MaxAge = 2
  FreshMultiple = 1
  Density <- MCDensity
  MaxSingleGap = 2
INVARIANTS RecordsInTheirDay RolloverPurges WindowCovered GapsAreLargest FitIsNaive ViolationsExact RulesAreValid ExportComplete VerdictsAreEarned
PROPERTIES HistoryKept
CHECK_DEADLOCK FALSE
