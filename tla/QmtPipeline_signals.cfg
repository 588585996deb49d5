SPECIFICATION FairSpec
CONSTANTS
  r1 = r1  r2 = r2  w1 = w1  w2 = w2  x1 = x1  x2 = x2
  Readers <- OneReader
  Workers <- TwoWorkers
  Writers <- OneWriter
  FileCnt = 3
  Capacity = 2
  MaxMem = 3
  Mem <- MixedMem
  Faults = {"write"}
  MaxFaults = 1
PROPERTIES
  WorkersStopAfterReaders
