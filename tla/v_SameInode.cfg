CONSTANTS
  Caller = {t}
  Loader = {l1, l2}
  Name = {f, g}
  Slot = {1, 2}
  LastSector = 4
  Length = {1}
  Inodes = {1, 2, 3}
  MaxOpen = 3
  Overlap = TRUE

SPECIFICATION Spec

INVARIANT SameInode
