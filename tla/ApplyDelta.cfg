SPECIFICATION Spec
CONSTANTS
  a = a
  b = b
  c = c
  d = d
  NoDiffID = NoDiffID
  Tar <- MCTar
  Deltas <- MCDeltas
  Sources <- MCSources
INVARIANTS
  PublishedIsComplete
  ErrorPublishesNothing
PROPERTIES
  NothingAfterIndex
  PublishesTheTarget
