SPECIFICATION Spec
CONSTANTS
  Files = {f1, f2}
  NClusters = 3
  MaxNr = 2
  PerBlock = 3
  MaxErrors = 1
INVARIANTS ChainsDisjoint CountExact NoLeak TrimFreeInBlock
PROPERTY NoSpaceIsReal
SYMMETRY Symmetry
