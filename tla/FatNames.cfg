SPECIFICATION Spec
CONSTANTS
  Inodes = {i1, i2, i3}
  Positions = {p1, p2, p3}
  Chains = {c1, c2, c3}
  Root = root
  RootChain = rootchain
  Nothing = nothing
  p1 = p1
  p2 = p2
  p3 = p3
  c1 = c1
  c2 = c2
  c3 = c3
  Mounted <- MCMounted
  MaxCalls = 3
SYMMETRY Symmetry
INVARIANTS OneInode CleanIsWritten ChainsOwned NothingLeaks DotDotRight NlinkCounts
CHECK_DEADLOCK FALSE
