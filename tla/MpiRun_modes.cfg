SPECIFICATION FairSpec
CONSTANTS
  Jobs <- MostJobs
  MedianSize = 3
  Faults = {"call", "write"}
  MaxFaults = 1
INVARIANTS
  TypeOK
  SavedIsFiltered
  CountsAgree
  DiesForAReason
  NobodyLeavesEarly
PROPERTIES
  EveryRankEnds
  ImplementsMpiJob
