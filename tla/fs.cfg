CONSTANTS
  Caller = {t}
  Loader = {l1, l2}
  Name = {f, g}
  Slot = {1, 2}
  LastSector = 5
  Length = {1, 2}
  Inodes = {1, 2, 3}
  MaxOpen = 2
  Overlap = FALSE

SPECIFICATION Spec

INVARIANTS
  DiskConsistent
  OpenKeepsSectors

PROPERTIES
  TextStable
