CONSTANTS
  t1 = t1
  t2 = t2
  k1 = k1
  k2 = k2
  k3 = k3
  v1 = v1
  v2 = v2
  NoValue = NoValue
  Threads = {t1, t2}
  Keys = {k1, k2}
  Values = {v1}
  ShardCount = 2
  HashOf <- Hash
  MaxOps = 1
SPECIFICATION FairSpec
PROPERTIES
  ImplementsAsyncStore
  FuturesSettle
  TasksRun
CHECK_DEADLOCK FALSE
