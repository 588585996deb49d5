SPECIFICATION FairSpec
CONSTANTS
  t1 = t1  t2 = t2  t3 = t3
  Threads <- MCThreads
  Word = 8
  Jobs <- AllJobs
INVARIANTS
  TypeOK
  ComputedOnce
  SavedComplete
PROPERTIES
  Ends
