CONSTANTS
  t1 = t1
  t2 = t2
  k1 = k1
  k2 = k2
  k3 = k3
  v1 = v1
  v2 = v2
  NoValue = NoValue
  Threads = {t1, t2}
  Keys = {k1}
  Values = {v1, v2}
  ShardCount = 1
  HashOf <- Hash
  MaxOps = 2
SPECIFICATION Spec
SYMMETRY ClientSymmetry
INVARIANTS
  TypeOK
  NoTaskLost
  NoLostWakeup
  StorageIsReplay
  AsyncReadsExact
  IteratorStaysValid
  NoPromiseForgotten
CHECK_DEADLOCK FALSE
