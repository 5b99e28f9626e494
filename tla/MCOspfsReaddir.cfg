CONSTANTS
  NDIRECT = 1
  NINDIRECT = 2
  NBLOCKS = 8
  NINODES = 4
  Procs = {}
  Names = {a, b}
  Offsets = {}
  Counts = {}
  Sizes = {}
  Listing = TRUE
  Room = 3
  MaxDirLinks = 2
SPECIFICATION Spec
INVARIANT EveryEntryListed
