SPECIFICATION Spec
CONSTANTS
  r1 = r1  r2 = r2  w1 = w1  w2 = w2  x1 = x1  x2 = x2
  Readers <- TwoReaders
  Workers <- TwoWorkers
  Writers <- TwoWriters
  FileCnt = 4
  Capacity = 2
  MaxMem = 3
  Mem <- MixedMem
  Faults = {"create", "strdup"}
  MaxFaults = 2
INVARIANTS
  TypeOK
  NothingLost
  SignalsAfterImages
  NoStrandedReader
  NoStrandedWorker
  WakeupsSuffice
SYMMETRY Symmetry
CHECK_DEADLOCK FALSE
