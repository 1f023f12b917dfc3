SPECIFICATION FairSpec
CONSTANTS
  Threads = {t1, t2, t3}
  NoThread = NoThread
  Ops = {"write_iter", "splice_write", "setattr", "unlink", "page_mkwrite", "statfs", "sync", "disable_write"}
  MaxCalls = 1
  MaxStores = 1
  PreemptRt = TRUE
INVARIANTS FrozenSynced
PROPERTIES FrozenUnchanged EveryCallReturns
CHECK_DEADLOCK FALSE
