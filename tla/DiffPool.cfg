SPECIFICATION FairSpec
CONSTANTS
  l1 = l1
  l2 = l2
  l3 = l3
  Jobs = {l1, l2, l3}
  Parallelism = 2
INVARIANTS
  AtMostParallelism
  TempFilesAccounted
PROPERTIES
  NoWorkerWritesAfterWait
  AlwaysReturns
  ImplementsBatch
