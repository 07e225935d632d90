CONSTANTS
  NULL = NULL
  Null = NULL
  Thread = {t1, t2, t3}
  Pages = 3
  Desc = {d1, d2}
  BlockCount = 2
  BigPages = 2
  NONE = NULL
  e1 = e1
  e2 = e2
  e3 = e3
  e4 = e4
  e5 = e5
  Elem = {e1, e2, e3, e4}
  List = {l1, l2}
  Value = {1, 2, 3, 4}
  Item = {e1, e2, e3, e4, e5}
  KeyOf <- MCKeyOf
  HashOf <- MCHashOf
  MinBuckets = 1
  BEST_ELEMS_PER_BUCKET = 1
  Blocks = {6}
  Texts <- MCTexts
  Sizes = {0, 1, 2, 3, 4, 5}
  Arrays <- MCArrays
  Lines <- MCLines
  Headers <- MCHeaders
  Formats <- MCFormats
  FileLength = 33
  PGSIZE = 32
  PHYS_BASE = 128
  AddressSpace = 160
  ThreadSize = 24
  W = 4
  IntBits = 30
  BufSize = 16
SPECIFICATION Spec
SYMMETRY Symmetry
INVARIANTS ListsAreSequences TableIsSet WalkIsComplete StringsExact
  StdlibExact ArgumentsReachMain SegmentsExact FormatsExact PagesOwnedOnce BlocksExact
