---------------------------- MODULE OspfsFormat -----------------------------
(***************************************************************************)
(* ospfsformat (lab3/ospfsformat.c): a directory tree of the host becomes  *)
(* an OSPFS image.  The tree is read entry by entry; blocks and inodes are *)
(* given out in ascending order and filled in through the block cache.     *)
(*                                                                         *)
(* Sizes are counted in words, and a directory entry takes one, as in      *)
(* OspfsDisk, whose functions read the image.  What a block holds is kept  *)
(* by the way it is used: words, names of entries, inodes, bits.           *)
(***************************************************************************)
EXTENDS OspfsDisk, Sequences

CONSTANTS
  NSLOTS,      \* the slots of the block cache, 16
  BLKINODES,   \* OSPFS_BLKINODES, the inodes of a block
  BLKBITSIZE,  \* OSPFS_BLKBITSIZE, the bits of a block
  Size,        \* Size[x]: the size of a host file whose contents are x
  HostInos,    \* inode numbers of host files with several links
  MaxEntries,  \* bound on the entries of the host tree
  MaxDepth     \* bound on the depth of its directories

ASSUME FormatAssumption ==
  /\ NSLOTS \in Nat \ {0} /\ BLKINODES \in Nat \ {0}
  /\ BLKBITSIZE >= NBLOCKS
  /\ HostInos \subseteq Nat \ {0}
  /\ DOMAIN Size \subseteq Nat /\ Size \in [DOMAIN Size -> Nat]

(* One block holds the whole bitmap: main() takes at most 8192 blocks.     *)
OSPFS_FREEMAP_BLK == FREEMAP_BLK
nbitblock == 1
ninodeblock == (NINODES + BLKINODES - 1) \div BLKINODES
os_firstinob == OSPFS_FREEMAP_BLK + nbitblock

NoInode == [size |-> 0, ftype |-> "REG", nlink |-> 0,
            direct |-> [k \in 0 .. NDIRECT-1 |-> 0], indirect |-> 0, indirect2 |-> 0]

ZeroBlock == [u |-> [i \in Word |-> 0], names |-> [i \in Word |-> NoName],
              ino |-> [k \in 0 .. BLKINODES-1 |-> NoInode], bits |-> {}, super |-> FALSE]

Cache == INSTANCE BlockCache WITH Zero <- ZeroBlock

VARIABLES
  img,       \* the formatter: its cache, nextb, nextinode and hardlinks
  dirs,      \* the directories that writedirectory() is in, the root first
  stage,     \* how far main() has come
  link_contents, \* -c
  written    \* history: the entries of the host tree so far

formatVars == <<img, dirs, stage, link_contents, written>>

-----------------------------------------------------------------------------
(* The cache of the formatter f.                                           *)
Get(f, b, clr, type) == [f EXCEPT !.cache = Cache!GetBlk(@, b, clr, type)]
Put(f, b) == [f EXCEPT !.cache = Cache!PutBlk(@, b)]
Data(f, b) == Cache!Data(f.cache, b)
SetData(f, b, data) == [f EXCEPT !.cache = Cache!SetData(@, b, data)]
SetU(f, b, i, n) == SetData(f, b, [Data(f, b) EXCEPT !.u[i] = n])
Dies(f, reason) == [f EXCEPT !.cache = Cache!Abort(@, reason)]

(* getblk(nextb++, 1, type): block f.nextb.                                *)
NewBlk(f, type) == Get([f EXCEPT !.nextb = @ + 1], f.nextb, TRUE, type)

(* An inode, through a pointer into its block.                             *)
InoBlk(ino) == os_firstinob + ino \div BLKINODES
TheIno(f, ino) == Data(f, InoBlk(ino)).ino[ino % BLKINODES]
SetIno(f, ino, oi) ==
  SetData(f, InoBlk(ino), [Data(f, InoBlk(ino)) EXCEPT !.ino[ino % BLKINODES] = oi])

(* TLC expands a LET at every use, but not a parameter: what the formatter *)
(* has become in the meantime is handed on as a parameter.                 *)
AllMarked(f) ==
  Put(SetData(f, OSPFS_FREEMAP_BLK, [ZeroBlock EXCEPT !.bits = 0 .. BLKBITSIZE-1]),
      OSPFS_FREEMAP_BLK)

OpenDisk ==
  LET f == [cache |-> Cache!EmptyCache, nextb |-> os_firstinob + ninodeblock,
            nextinode |-> 0, hardlinks |-> {}]
      cleared[k \in 0 .. ninodeblock] ==
        IF k = 0 THEN AllMarked(Get(f, OSPFS_FREEMAP_BLK, FALSE, "bits"))
        ELSE Put(Get(cleared[k-1], os_firstinob + k-1, TRUE, "inodes"), os_firstinob + k-1)
  IN  cleared[ninodeblock]

-----------------------------------------------------------------------------
(* storeblk(): block b becomes the nblk-th of inode ino.                   *)
StoreDirect(f, ino, b, nblk) ==
  SetIno(f, ino, [TheIno(f, ino) EXCEPT !.direct[nblk] = b])

(* The block of pointers old, or a new one if there is none.               *)
PtrBlk(f, old) == IF old = 0 THEN f.nextb ELSE old
GetPtrBlk(f, old) == IF old = 0 THEN NewBlk(f, "bits") ELSE Get(f, old, FALSE, "bits")

(* Block number b becomes the i-th in the block of pointers ind.           *)
Point(f, ind, i, b) == Put(SetU(f, ind, i, b), ind)

StoreIndirect(f, ino, b, nblk) ==
  LET oi == TheIno(f, ino)
      ind == PtrBlk(f, oi.indirect)
  IN  Point(SetIno(GetPtrBlk(f, oi.indirect), ino, [oi EXCEPT !.indirect = ind]),
            ind, nblk - NDIRECT, b)

(* In block ind2, which is lent out, the block of pointers is number j.    *)
PointDeep(f, ind2, j, i, b) ==
  LET old == Data(f, ind2).u[j]
      ind == PtrBlk(f, old)
  IN  Put(Point(SetU(GetPtrBlk(f, old), ind2, j, ind), ind, i, b), ind2)

WithIndirect2(f, ino) ==
  LET oi == TheIno(f, ino)
  IN  SetIno(GetPtrBlk(f, oi.indirect2), ino,
             [oi EXCEPT !.indirect2 = PtrBlk(f, oi.indirect2)])

(* Fault: the place within the last block is counted from the first one.   *)
StoreDoublyShifted(f, ino, b, nblk) ==
  PointDeep(WithIndirect2(f, ino), PtrBlk(f, TheIno(f, ino).indirect2),
            (nblk - NDIRECT - NINDIRECT) \div NINDIRECT, nblk % NINDIRECT, b)

StoreDoubly(f, ino, b, nblk) ==
  LET off == nblk - NDIRECT - NINDIRECT
  IN  PointDeep(WithIndirect2(f, ino), PtrBlk(f, TheIno(f, ino).indirect2),
                off \div NINDIRECT, off % NINDIRECT, b)

StoreBlk(f, ino, b, nblk) ==
  IF nblk < NDIRECT THEN StoreDirect(f, ino, b, nblk)
  ELSE IF nblk < NDIRECT + NINDIRECT THEN StoreIndirect(f, ino, b, nblk)
  ELSE IF nblk < MAXFILEBLKS THEN StoreDoubly(f, ino, b, nblk)
  ELSE Dies(f, "file too large")

(* allocinode(): inode f.nextinode, whose block stays lent out.            *)
AllocInode(f) ==
  IF f.nextinode = NINODES THEN Dies(f, "not enough inodes")
  ELSE Get([f EXCEPT !.nextinode = @ + 1], InoBlk(f.nextinode), FALSE, "inodes")

(* allocdirentry() of a name that is not too long: the place of the entry, *)
(* in a block that stays lent out.  It is looked for in the last block.    *)
NewDirBlk(f, dir) ==
  LET nblk == Size2NBlocks(TheIno(f, dir).size)
      grown(g) == SetIno(g, dir, [TheIno(g, dir) EXCEPT !.size = @ + NINDIRECT])
  IN  [b |-> f.nextb, i |-> 0, f |-> grown(StoreBlk(NewBlk(f, "dir"), dir, f.nextb, nblk))]

FreeIn(f, b) == {i \in Word : Data(f, b).u[i] = 0}
InLast(f, b) ==
  IF FreeIn(f, b) # {} THEN [b |-> b, i |-> Min(FreeIn(f, b)), f |-> f]
  ELSE [b |-> 0, i |-> 0, f |-> Put(f, b)]

(* The directory block to which word i of the block ind points; ind is     *)
(* given back.                                                             *)
DirBlkIn(f, ind, i) == Data(f, ind).u[i]
Through(f, ind, i) == Put(Get(f, DirBlkIn(f, ind, i), FALSE, "dir"), ind)

LastDirect(f, b) == InLast(Get(f, b, FALSE, "dir"), b)

LastIndirect(f, ind, i) == InLast(Through(f, ind, i), DirBlkIn(f, ind, i))

LastDeep(f, ind, i, ind2) ==
  InLast(Put(Through(f, ind, i), ind2), DirBlkIn(f, ind, i))

LastDoubly(f, ind2, off) ==
  LET ind == Data(f, ind2).u[off \div NINDIRECT]
  IN  LastDeep(Get(f, ind, FALSE, "bits"), ind, off % NINDIRECT, ind2)

InLastBlk(f, dir) ==
  LET oi == TheIno(f, dir)
      nblk == Size2NBlocks(oi.size) - 1
  IN  IF nblk < 0 THEN [b |-> 0, i |-> 0, f |-> f]
      ELSE IF nblk < NDIRECT THEN LastDirect(f, oi.direct[nblk])
      ELSE IF nblk < NDIRECT + NINDIRECT
      THEN LastIndirect(Get(f, oi.indirect, FALSE, "bits"), oi.indirect, nblk - NDIRECT)
      ELSE LastDoubly(Get(f, oi.indirect2, FALSE, "bits"), oi.indirect2,
                      nblk - NDIRECT - NINDIRECT)

OrNewBlk(at, dir) == IF at.b = 0 THEN NewDirBlk(at.f, dir) ELSE at
WithName(at, name) ==
  [at EXCEPT !.f = SetData(at.f, at.b, [Data(at.f, at.b) EXCEPT !.names[at.i] = name])]

AllocDirentry(f, dir, name) == WithName(OrNewBlk(InLastBlk(f, dir), dir), name)

-----------------------------------------------------------------------------
(* Word number off of a file whose contents are x: no block's number.      *)
Datum(x, off) == -(x * MAXFILEBLKS * NINDIRECT + off + 1)

FileBlk(x, nblk) ==
  [ZeroBlock EXCEPT !.u = [i \in Word |->
     LET off == nblk * NINDIRECT + i IN IF off < Size[x] THEN Datum(x, off) ELSE 0]]

(* The loop of writefile() over the blocks of the file, by turns.  Block   *)
(* nextb is fetched before the end of the file is known.                   *)
CopyBlk(f, b, ino, x, k) ==
  LET left == Size[x] - k * NINDIRECT
      filled == [SetData(f, b, FileBlk(x, k)) EXCEPT !.nextb = b + 1]
  IN  IF left = 0 THEN [f |-> Put(f, b), over |-> TRUE]
      ELSE [f |-> Put(StoreBlk(filled, ino, b, k), b), over |-> left < NINDIRECT]

CopyTurn(at, ino, x, k) ==
  IF at.over THEN at
  ELSE CopyBlk(Get(at.f, at.f.nextb, TRUE, "file"), at.f.nextb, ino, x, k)

Sized(f, ino, size) == SetIno(f, ino, [TheIno(f, ino) EXCEPT !.size = size])

FileCopied(f, ino, x) ==
  LET after[k \in Nat] ==
        IF k = 0 THEN [f |-> f, over |-> FALSE] ELSE CopyTurn(after[k-1], ino, x, k-1)
  IN  Sized(after[Size[x] \div NINDIRECT + 1].f, ino, Size[x])

(* get_hardlink() and add_hardlink().  The digest of the contents stands   *)
(* for them; a symbolic link has none.                                     *)
NoDigest == 0
Same(link, host, x) ==
  (host # 0 /\ link.host = host) \/ (link_contents /\ x # NoDigest /\ link.digest = x)
Known(f, host, x) ==
  IF host # 0 \/ (link_contents /\ x # NoDigest)
  THEN {link \in f.hardlinks : Same(link, host, x)} ELSE {}
Remember(f, host, x, ino) ==
  IF host # 0 \/ (link_contents /\ x # NoDigest)
  THEN [f EXCEPT !.hardlinks = @ \cup
         {[host |-> host, digest |-> IF link_contents THEN x ELSE NoDigest, ino |-> ino]}]
  ELSE f

Counted(f, ino) == SetIno(f, ino, [TheIno(f, ino) EXCEPT !.nlink = @ + 1])
OneMore(f, ino) == Counted(Get(f, InoBlk(ino), FALSE, "inodes"), ino)

NewInode(f, ino, ftype, size) ==
  SetIno(f, ino, [TheIno(f, ino) EXCEPT !.nlink = 1, !.ftype = ftype, !.size = size])

Filled(f, ino, is, x) ==
  IF is = "REG" THEN FileCopied(NewInode(f, ino, is, 0), ino, x) ELSE NewInode(f, ino, is, 1)

(* What writefile() and addsymlink() share, from the entry on.             *)
EntryIs(at, host, is, x) ==
  LET known == {link.ino : link \in Known(at.f, host, x)}
      ino == IF known = {} THEN at.f.nextinode ELSE Min(known)
      named(f) == SetU(f, at.b, at.i, ino)
      done == IF known # {} THEN named(OneMore(at.f, ino))
              ELSE Filled(Remember(named(AllocInode(at.f)), host, x, ino), ino, is, x)
  IN  Put(Put(done, at.b), InoBlk(ino))

WithEntry(f, dir, name, host, is, x) == EntryIs(AllocDirentry(f, dir, name), host, is, x)

WriteFile(f, dir, name, host, x) == WithEntry(f, dir, name, host, "REG", x)
AddSymlink(f, dir, name, host) == WithEntry(f, dir, name, host, "SYMLINK", NoDigest)

(* writedirectory() up to its loop: the blocks of the entry and of the     *)
(* inode stay lent out until the directory is done.                        *)
DirIs(at, dir) ==
  LET ino == at.f.nextinode
      named == SetU(AllocInode(at.f), at.b, at.i, ino)
  IN  [f |-> NewInode(Counted(named, dir), ino, "DIR", 0), b |-> at.b]

EnterDir(f, dir, name) == DirIs(AllocDirentry(f, dir, name), dir)

(* finishfs() and flushdisk().                                             *)
UsedMarked(f) ==
  LET bits == Data(f, OSPFS_FREEMAP_BLK).bits \ (0 .. f.nextb-1)
      kept == IF NBLOCKS # nbitblock * BLKBITSIZE THEN bits \ (NBLOCKS .. BLKBITSIZE-1) ELSE bits
  IN  Put(SetData(f, OSPFS_FREEMAP_BLK, [ZeroBlock EXCEPT !.bits = kept]), OSPFS_FREEMAP_BLK)

FinishFs(f) ==
  LET marked == UsedMarked(Get(f, OSPFS_FREEMAP_BLK, FALSE, "bits"))
  IN  Put(SetData(Get(marked, 1, TRUE, "super"), 1, [ZeroBlock EXCEPT !.super = TRUE]), 1)

FlushDisk(f) == [f EXCEPT !.cache = Cache!FlushDisk(@)]

-----------------------------------------------------------------------------
(* main(): inodes up to the root's.  The root's block stays lent out.      *)
WithRoot(f) ==
  LET zeroth(g) == Put(SetIno(g, 0, [TheIno(g, 0) EXCEPT !.nlink = 1]), InoBlk(0))
  IN  NewInode(AllocInode(zeroth(AllocInode(f))), ROOT_INO, "DIR", 0)

FormatInit ==
  /\ img = WithRoot(OpenDisk)
  /\ dirs = <<[ino |-> ROOT_INO, b |-> 0]>>
  /\ stage = "tree"
  /\ link_contents \in BOOLEAN
  /\ written = {}

Depth == Len(dirs)
Here == dirs[Depth].ino
Unused(name) == ~\E e \in written : e.dir = Here /\ e.name = name

(* The program goes on, or has called abort().                             *)
Reaches(f, next) ==
  IF f.cache.abort = Cache!Fine
  THEN img' = f /\ stage' = next
  ELSE img' = [img EXCEPT !.cache.abort = f.cache.abort] /\ stage' = "dead"

Becomes(f) == Reaches(f, stage)

Writes(name, is, host, x) ==
  LET entry == [dir |-> Here, name |-> name, is |-> is, host |-> host, x |-> x] IN
  /\ Unused(name) /\ Cardinality(written) < MaxEntries
  /\ \A e \in written : host # 0 /\ e.host = host => e.is = is /\ e.x = x
  /\ written' = written \cup {entry}

(* The next entry that readdir() finds, or a file or -l on the command     *)
(* line.  host is the inode number of a file with several links, which is  *)
(* the same file wherever it comes up.                                     *)
FileIsNext(name, host, x) ==
  /\ stage = "tree" /\ Writes(name, "REG", host, x)
  /\ Becomes(WriteFile(img, Here, name, host, x))
  /\ UNCHANGED <<dirs, link_contents>>

SymlinkIsNext(name, host) ==
  /\ stage = "tree" \/ (stage = "links" /\ host = 0)
  /\ Writes(name, "SYMLINK", host, NoDigest)
  /\ Becomes(AddSymlink(img, Here, name, host))
  /\ UNCHANGED <<dirs, link_contents>>

GoesInto(entered) ==
  /\ Becomes(entered.f)
  /\ dirs' = Append(dirs, [ino |-> img.nextinode, b |-> entered.b])

DirIsNext(name) ==
  /\ stage = "tree" /\ Depth <= MaxDepth
  /\ Writes(name, "DIR", 0, img.nextinode)
  /\ GoesInto(EnterDir(img, Here, name))
  /\ UNCHANGED link_contents

DirEnds ==
  /\ stage = "tree" /\ Depth > 1
  /\ img' = Put(Put(img, dirs[Depth].b), InoBlk(Here))
  /\ dirs' = SubSeq(dirs, 1, Depth-1)
  /\ UNCHANGED <<stage, link_contents, written>>

(* The end of the root directory, or of the arguments: -l links follow.    *)
TreeEnds ==
  /\ stage = "tree" /\ Depth = 1
  /\ stage' = "links"
  /\ UNCHANGED <<img, dirs, link_contents, written>>

Finish ==
  /\ stage = "links"
  /\ Reaches(FlushDisk(FinishFs(Put(img, InoBlk(ROOT_INO)))), "done")
  /\ UNCHANGED <<dirs, link_contents, written>>

FormatNext ==
  \/ \E name \in Names :
       \/ \E host \in HostInos \cup {0}, x \in DOMAIN Size : FileIsNext(name, host, x)
       \/ \E host \in HostInos \cup {0} : SymlinkIsNext(name, host)
       \/ DirIsNext(name)
  \/ DirEnds
  \/ TreeEnds
  \/ Finish

FormatSpec == FormatInit /\ [][FormatNext]_formatVars

(* The image as the module ospfs finds it.                                 *)
Image(f) ==
  LET disk == f.cache.disk
  IN  [free  |-> disk[OSPFS_FREEMAP_BLK].bits,
       inode |-> [i \in Ino |-> disk[InoBlk(i)].ino[i % BLKINODES]],
       words |-> [b \in Block |-> disk[b].u],
       names |-> [b \in Block |-> disk[b].names],
       wild  |-> FALSE]

-----------------------------------------------------------------------------
(* Pointers into the cache are used only while their blocks are lent out,  *)
(* no block is borrowed as two different things at a time, and the cache   *)
(* suffices for directories (slots - 6) / 2 below the root: what "panic:   *)
(* block cache full" (ospfsformat.c:231) guards does not happen before.    *)
CacheSuffices ==
  /\ img.cache.abort \notin {"stray pointer", "assertion failed"}
  /\ img.cache.abort = "cache full" => 2 * Depth + 4 > NSLOTS
=============================================================================
