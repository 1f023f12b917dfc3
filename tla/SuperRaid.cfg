SPECIFICATION FairSpec
CONSTANTS
  NBlocks = 2
  MaxVersion = 3
  Env = {}
INVARIANTS
  OneTrusted RecoveryPowerExclusive
PROPERTIES
  FrozenStable AtomicSnapshot PrepareTerminates RecoveryTerminates
