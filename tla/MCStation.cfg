CONSTANTS
  Tests = 5
  Retry = 3
  ShortCount = 1
  CounterModulus = 5
  OvercurrentTime = 2
  RetryCount = 2
  TryModulus = 8
  LastBit = 1
  PomTries = 3
  Repeats = 2
  TrackPool = 4
  Requests <- EveryKind
  MaxQueue = 1
  Addresses = {2, 12, 13}
  ConstTrains <- OneConst
  FileTrains <- FileOfTwo
  Throttles = {"a", "b"}
  Queries <- SomeQueries
  MaxSearches = 1
  MaxEntries = 3
  Writable <- SomeEdits
SPECIFICATION StationSpec
INVARIANTS ProtectionTypeOK ReportsAgree OutputOffWhenTold PtInv EverybodyAnswered NodesInStep
PROPERTIES ShortLatched OverloadSwitchedOff PortRecovers ResultCorrect EveryRequestReturns SearchEnds
