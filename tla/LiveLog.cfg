SPECIFICATION Spec
CONSTANTS
  SizeMax <- MCSizeMax
  Magic = 42
  MaxSensorCount = 8
  MaxEntryCount = 20
  MaxTotalSize = 21
  LastType = 8
  Images <- MCImages
  Updates <- MCUpdates
  Cuts <- MCCuts
  NoMeaning = NoMeaning
  NoImage = NoImage
  Unset = Unset
  Blank = 0
  Occurs <- MCOccurs
  DefaultInterval = 2
  DefaultRetention = 1
  DefaultLogDir = "logs"
  Horizon = 5
  Commands <- MCCommands
INVARIANTS HandlesBalanced ReadsInBounds UntornIsExact
PROPERTIES StopsOnSignal
