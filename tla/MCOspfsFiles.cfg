CONSTANTS
  NDIRECT = 1
  NINDIRECT = 2
  NBLOCKS = 8
  NINODES = 4
  Procs = {p1, p2}
  Names = {a, b}
  Offsets = {0}
  Counts = {2}
  Sizes = {0}
  Listing = FALSE
  Room = 3
  MaxDirLinks = 1
SYMMETRY Symmetry
VIEW View
SPECIFICATION Spec
INVARIANTS
  BlocksApart
  NoSpaceNoChange
PROPERTIES
  OnlyReuseLoses
  AppendsArrive
\* Nothing follows once memory outside the disk has been used (Sane).
CHECK_DEADLOCK FALSE
