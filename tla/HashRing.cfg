SPECIFICATION FairSpec
CONSTANTS
  RING_SLOTS = 3
  Lengths = {0, 1, 3, 7}
INVARIANTS
  
  HashedInOrder
  ErrorsReported
  MissingTailBounded
PROPERTY
  ReturnsUnlessInitFails
