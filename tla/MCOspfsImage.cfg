CONSTANTS
  NDIRECT = 1
  NINDIRECT = 2
  NBLOCKS = 20
  NINODES = 5
  Procs = {}
  Names = {a, b, c}
  Offsets = {}
  Counts = {}
  Sizes = {}
  Listing = TRUE
  Room = 3
  MaxDirLinks = 2
  NSLOTS = 6
  BLKINODES = 2
  BLKBITSIZE = 24
  Size <- MCSize
  HostInos = {7}
  MaxEntries = 4
  MaxDepth = 2
  MaxMounted = 3
SYMMETRY Symmetry
VIEW ImageView
SPECIFICATION ImageSpec
INVARIANTS
  LinksCounted
  ListedOnce
  ImageHoldsTree
  CacheSuffices
\* The program ends, or abort() ends it.
CHECK_DEADLOCK FALSE
