SPECIFICATION Spec
CONSTANTS
  r1 = r1  r2 = r2  w1 = w1  w2 = w2  x1 = x1  x2 = x2
  Readers <- TwoReaders
  Workers <- TwoWorkers
  Writers <- TwoWriters
  FileCnt = 3
  Capacity = 2
  MaxMem = 3
  Mem <- MixedMem
  Faults = {"read", "malloc", "node", "work", "write"}
  MaxFaults = 2
INVARIANTS
  OneOwner
  CountMatchesDisk
  LeaveWhenWritten
  FreesEmptyQueues
PROPERTIES
  ImplementsBatch
SYMMETRY Symmetry
