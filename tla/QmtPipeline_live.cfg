SPECIFICATION FairSpec
CONSTANTS
  r1 = r1  r2 = r2  w1 = w1  w2 = w2  x1 = x1  x2 = x2
  Readers <- TwoReaders
  Workers <- OneWorker
  Writers <- TwoWriters
  FileCnt = 3
  Capacity = 1
  MaxMem = 3
  Mem <- MixedMem
  Faults = {"malloc", "work", "strdup", "write"}
  MaxFaults = 2
PROPERTIES
  Returns
  ReadersReturn
  OthersWritten
