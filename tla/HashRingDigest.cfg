SPECIFICATION Spec
CONSTANTS
  RING_SLOTS = 3
  Lengths = {0, 1, 3, 7}
INVARIANT
  DigestComplete
