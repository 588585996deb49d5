SPECIFICATION Spec
CONSTANTS
  Jobs <- MedianJobs
  MedianSize = 3
  Faults = {}
  MaxFaults = 0
INVARIANTS
  SavedIsFiltered
CHECK_DEADLOCK FALSE
