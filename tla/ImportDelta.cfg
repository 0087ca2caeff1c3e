SPECIFICATION Spec
CONSTANTS
  a = a
  b = b
  c = c
  d = d
  p1 = p1
  p2 = p2
  t1 = t1
  t2 = t2
  NoTag = NoTag
  NoDiffID = NoDiffID
  Tar <- MCTar
  Importers = {p1, p2}
  Jobs <- MCJobs
  InitialLayers <- MCLayers
  InitialImages <- MCImages
  MaxFaults = 2
INVARIANTS
  DamageIsConfined
  SourceIsTheOldImage
  SuccessStoresTheTarget
  FailedForceLeavesUntagged
PROPERTY
  TagStaysComplete
