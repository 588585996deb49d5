SPECIFICATION FairSpec
CONSTANTS
  Cases <- MostCases
  NotGiven = NotGiven
  Word32 = 65536
  MaxFiles = 6
  DimWord = 8
  MedianSize = 5
  NameLength = 10
  GroupLimit = 64
  Faults = {"memory", "write", "device", "clock", "job"}
  MaxFaults = 1
INVARIANTS
  SavedIsFiltered
  GpuCloseToCpu
  AcceptedIsRunnable
  CrashesForAReason
  LeavesNothing
  LogIsTrue
PROPERTIES
  Ends
