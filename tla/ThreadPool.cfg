CONSTANTS
  p1 = p1
  p2 = p2
  w1 = w1
  w2 = w2
  w3 = w3
  NoJob = NoJob
  Producers = {p1, p2}
  Workers = {w1, w2, w3}
  MaxJobs = 2
SPECIFICATION FairSpec
INVARIANTS
  TypeOK
  WorkConserving
PROPERTIES
  ImplementsTaskPool
  EveryJobStarts
  ShutdownCompletes
CHECK_DEADLOCK FALSE
