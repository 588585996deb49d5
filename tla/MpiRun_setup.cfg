SPECIFICATION FairSpec
CONSTANTS
  Jobs <- SetupJobs
  MedianSize = 3
  Faults = {}
  MaxFaults = 0
PROPERTIES
  EveryRankEnds
CHECK_DEADLOCK FALSE
