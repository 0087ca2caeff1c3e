SPECIFICATION SpecAgain
CONSTANTS
  a = a
  b = b
  c = c
  NoDiffID = NoDiffID
  MaxRuns = 3
  Tar <- MCTar
  Deltas <- MCDeltas
  Sources <- MCSources
INVARIANTS
  SuccessIsThisTarget
  OneBlobAtRisk
