SPECIFICATION Spec
CONSTANTS
  a = a
  b = b
  c = c
  NoDiffID = NoDiffID
  Tar <- MCTar
  Pairs <- MCPairs
  Readers = {"archive", "storage"}
  Sources <- MCSources
INVARIANTS
  RebuildsTheNewImage
  OnlyFaultsReject
