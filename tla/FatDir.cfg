SPECIFICATION Spec
CONSTANTS
  Names = {"l1", "l2", "s", "m"}
  Files = {f1, f2, f3}
  Kind <- MCKind
  Base <- MCBase
  Number <- MCNumber
  LongSlots <- MCLongSlots
  NumTail = 1
  MaxTail = 3
  dir_per_block = 2
  dir_per_clus = 2
  FAT_MAX_DIR_SIZE = 6
  MaxErrors = 1
INVARIANTS NamesFind NegativeTrue NoOrphans
PROPERTIES ShowsDirectory KeepsFiles
SYMMETRY Symmetry
