SPECIFICATION Spec
CONSTANTS
  NBlocks = 2
  MaxVersion = 2
  Env = {"boot_io", "recovery_io", "early_writeback", "slow_recovery", "evict", "retry"}
INVARIANTS
  ReleaseAfterPeerGood

