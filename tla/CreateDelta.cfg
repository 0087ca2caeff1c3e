SPECIFICATION Spec
CONSTANTS
  a = a
  b = b
  c = c
  NoDiffID = NoDiffID
  Tar <- MCTar
  Pairs <- MCPairs
  Readers = {"archive", "storage"}
  Signatures <- MCSignatures
INVARIANTS
  PublishedDeltaIsComplete
  ErrorPublishesNothing
PROPERTY
  PublishesTheDelta
