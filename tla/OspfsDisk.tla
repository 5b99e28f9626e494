----------------------------- MODULE OspfsDisk ------------------------------
(***************************************************************************)
(* The disk of OSPFS (lab3/ospfsmod.c): the free-block bitmap, the inodes  *)
(* and the blocks, and the functions that grow and shrink a file.  Each of *)
(* these functions runs without sleeping, so each is an operator from the  *)
(* disk it finds to the disk it leaves, with its return value.             *)
(*                                                                         *)
(* Sizes and offsets are counted in words, the 4 bytes of a block pointer: *)
(* a block has NINDIRECT of them.  A directory entry takes one word here   *)
(* (32 in the code), whose number is od_ino and whose name is in names.    *)
(***************************************************************************)
EXTENDS Integers, FiniteSets, FiniteSetsExt, TLC

CONSTANTS
  NDIRECT,    \* OSPFS_NDIRECT, 10
  NINDIRECT,  \* OSPFS_NINDIRECT, 256
  NBLOCKS,    \* os_nblocks
  NINODES,    \* os_ninodes
  Names       \* names of files

(* NINDIRECT divides 2^32: uint32_t arithmetic modulo NINDIRECT is that of *)
(* the integers.                                                           *)
ASSUME SizesAssumption ==
  /\ NDIRECT \in Nat \ {0}
  /\ NINDIRECT \in Nat \ {0, 1} /\ \E k \in 1 .. 32 : NINDIRECT = 2^k
  /\ NBLOCKS \in Nat \ 0 .. 4
  /\ NINODES \in Nat \ 0 .. 2

FREEMAP_BLK == 2
Block == 0 .. NBLOCKS-1
DataBlock == FREEMAP_BLK+2 .. NBLOCKS-1
Ino   == 0 .. NINODES-1
ROOT_INO == 1
Word  == 0 .. NINDIRECT-1
MAXFILEBLKS == NDIRECT + NINDIRECT + NINDIRECT * NINDIRECT
NoName == ""

Size2NBlocks(size) == (size + NINDIRECT - 1) \div NINDIRECT

(* What a function leaves and returns.                                     *)
Returns(r, d) == [ret |-> r, disk |-> d]

GetWord(d, b, i) == d.words[b][i]
PutWord(d, b, i, n) == [d EXCEPT !.words[b][i] = n]

(* Memory outside ospfs_data has been used: nothing is known any more.     *)
Strayed(d) == [d EXCEPT !.wild = TRUE]

-----------------------------------------------------------------------------
(* The bitmap.                                                             *)

(* Fault: the search begins with the block of the bitmap itself.           *)
AllocateFirst(d) ==
  Min({b \in Block : b >= FREEMAP_BLK /\ (b \in d.free \/ b = FREEMAP_BLK)})

(* The block that allocate_block() finds, 0 when the disk is full.         *)
Allocatable(d) ==
  LET found == {b \in d.free : b > FREEMAP_BLK}
  IN  IF found = {} THEN 0 ELSE Min(found)

Taken(d, b) == [d EXCEPT !.free = @ \ {b}]

(* Fault: the bit is left as it is.                                        *)
FreeForgets(d, b) == d

(* free_block(); the empty statement after its test changes nothing, for   *)
(* the bit is only set.                                                    *)
FreeBlock(d, b) ==
  [d EXCEPT !.free = @ \cup ({b} \cap FREEMAP_BLK+1 .. NBLOCKS-1)]

-----------------------------------------------------------------------------
(* Where the b-th block of a file is recorded.                             *)
IndirIndex(b) ==
  IF b < NDIRECT THEN -1
  ELSE IF b < NDIRECT + NINDIRECT THEN 0
  ELSE (b - NDIRECT - NINDIRECT) \div NINDIRECT

DirectIndex(b) ==
  IF b < NDIRECT THEN b
  ELSE IF b < NINDIRECT THEN b - NDIRECT
  ELSE (b - NDIRECT - NINDIRECT) % NINDIRECT

(* ospfs_inode_blockno(): 0 where the file has nothing, NBLOCKS (any       *)
(* number of a block not on the disk) where the search leaves the disk.    *)

BlockNo(d, ino, offset) ==
  LET oi == d.inode[ino]
      b  == offset \div NINDIRECT
      off == b - NDIRECT - NINDIRECT
      indirect == GetWord(d, oi.indirect2, off \div NINDIRECT)
  IN  IF offset >= oi.size \/ oi.ftype = "SYMLINK" THEN 0
      ELSE IF b < NDIRECT THEN oi.direct[b]
      ELSE IF off < 0 THEN GetWord(d, oi.indirect, b - NDIRECT)
      ELSE IF indirect \notin Block THEN NBLOCKS
      ELSE GetWord(d, indirect, off % NINDIRECT)

-----------------------------------------------------------------------------
(* add_block().                                                            *)
Grown(d, ino) == Returns("ok", [d EXCEPT !.inode[ino].size = @ + NINDIRECT])

AddDirect(d, ino, new, index) ==
  Grown([Taken(d, new) EXCEPT !.inode[ino].direct[index] = new], ino)

(* The first block of an indirect block brings that along; without room    *)
(* for it the new block is given back.                                     *)
AddIndirect(d, ino, new, index) ==
  LET d1 == Taken(d, new)
      indirect == IF index = 0 THEN Allocatable(d1) ELSE d.inode[ino].indirect
      d2 == [Taken(d1, indirect) EXCEPT !.inode[ino].indirect = indirect]
  IN  IF index = 0 /\ indirect = 0 THEN Returns("EIO", FreeBlock(d1, new))
      ELSE Grown(PutWord(IF index = 0 THEN d2 ELSE d1, indirect, index, new), ino)

(* Beyond the first indirect block of the doubly indirect one.  The new    *)
(* block's number goes into the block that allocated[1] names: the new     *)
(* doubly indirect block, or block 0.                                      *)
AddDoubly(d, ino, new, which, index) ==
  LET d1 == Taken(d, new)
      second == IF index = 0 THEN Allocatable(d1) ELSE 0
      d2 == IF second = 0 THEN d1
            ELSE [Taken(d1, second) EXCEPT !.inode[ino].indirect2 = second]
      indirect == Allocatable(d2)
      back == FreeBlock(d2, new)
  IN  IF index = 0 /\ second = 0 THEN Returns("EIO", FreeBlock(d1, new))
      ELSE IF indirect = 0 THEN
        Returns("EIO", IF second = 0 THEN back
                       ELSE [FreeBlock(back, second) EXCEPT !.inode[ino].indirect2 = 0])
      ELSE Grown(PutWord(PutWord(Taken(d2, indirect),
                                 d2.inode[ino].indirect2, which, indirect),
                         second, index, new), ino)

AddBlock(d, ino) ==
  LET n == Size2NBlocks(d.inode[ino].size)
      new == Allocatable(d)
      which == IndirIndex(n)
  IN  IF n >= MAXFILEBLKS \/ new = 0 THEN Returns("ENOSPC", d)
      ELSE IF which = -1 THEN AddDirect(d, ino, new, DirectIndex(n))
      ELSE IF which = 0 THEN AddIndirect(d, ino, new, DirectIndex(n))
      ELSE AddDoubly(d, ino, new, which, DirectIndex(n))

-----------------------------------------------------------------------------
(* remove_block(), which never fails on a file that has a block.           *)
RemoveDirect(d, ino, index) ==
  [FreeBlock(d, d.inode[ino].direct[index]) EXCEPT !.inode[ino].direct[index] = 0]

RemoveIndirect(d, ino, index) ==
  LET indirect == d.inode[ino].indirect
      d1 == PutWord(FreeBlock(d, GetWord(d, indirect, index)), indirect, index, 0)
  IN  IF index # 0 THEN d1
      ELSE [FreeBlock(d1, indirect) EXCEPT !.inode[ino].indirect = 0]

RemoveDoubly(d, ino, which, index) ==
  LET second == d.inode[ino].indirect2
      indirect == GetWord(d, second, which)
      d1 == PutWord(FreeBlock(d, GetWord(d, indirect, index)), indirect, index, 0)
  IN  IF indirect \notin Block THEN Strayed(d)
      ELSE IF index # 0 THEN d1
      ELSE PutWord(FreeBlock(d1, indirect), second, which, 0)

RemoveBlock(d, ino) ==
  LET n == Size2NBlocks(d.inode[ino].size) - 1
      which == IndirIndex(n)
      d1 == IF which = -1 THEN RemoveDirect(d, ino, DirectIndex(n))
            ELSE IF which = 0 THEN RemoveIndirect(d, ino, DirectIndex(n))
            ELSE RemoveDoubly(d, ino, which, DirectIndex(n))
  IN  [d1 EXCEPT !.inode[ino].size = @ - NINDIRECT]

-----------------------------------------------------------------------------
(* change_size(): its loops, as functions of the number of turns made.     *)
GrowTurn(r, ino, nblocks) ==
  IF r.ret = "ok" /\ Size2NBlocks(r.disk.inode[ino].size) < nblocks
  THEN AddBlock(r.disk, ino) ELSE r

GrowTo(d, ino, nblocks) ==
  LET after[k \in Nat] ==
        IF k = 0 THEN Returns("ok", d) ELSE GrowTurn(after[k-1], ino, nblocks)
  IN  after[nblocks]

ShrinkTurn(d, ino, nblocks) ==
  IF Size2NBlocks(d.inode[ino].size) > nblocks THEN RemoveBlock(d, ino) ELSE d

ShrinkTo(d, ino, nblocks) ==
  LET after[k \in Nat] ==
        IF k = 0 THEN d ELSE ShrinkTurn(after[k-1], ino, nblocks)
  IN  after[Size2NBlocks(d.inode[ino].size)]

(* Fault: a file that could not grow keeps the blocks it got.              *)
ChangeSizeKeeps(d, ino, size) ==
  LET grown == GrowTo(d, ino, Size2NBlocks(size))
  IN  IF grown.ret # "ok" THEN grown
      ELSE Returns("ok", [ShrinkTo(grown.disk, ino, Size2NBlocks(size))
                           EXCEPT !.inode[ino].size = size])

ChangeSize(d, ino, size) ==
  LET grown == GrowTo(d, ino, Size2NBlocks(size))
      old == Size2NBlocks(d.inode[ino].size)
  IN  CASE grown.ret = "ENOSPC" -> Returns("ENOSPC", ShrinkTo(grown.disk, ino, old))
        [] grown.ret = "EIO"    -> grown
        [] OTHER -> Returns("ok", [ShrinkTo(grown.disk, ino, Size2NBlocks(size))
                                    EXCEPT !.inode[ino].size = size])

-----------------------------------------------------------------------------
(* The root directory, one word per entry.                                 *)
Entries(d) == 0 .. d.inode[ROOT_INO].size - 1
At(d, off) == <<BlockNo(d, ROOT_INO, off), off % NINDIRECT>>
EntryIno(d, off) == d.words[At(d, off)[1]][At(d, off)[2]]
EntryName(d, off) == d.names[At(d, off)[1]][At(d, off)[2]]

(* find_direntry(): is there an entry of that name?                        *)
Named(d, name) == {off \in Entries(d) : EntryIno(d, off) # 0 /\ EntryName(d, off) = name}

(* create_blank_direntry(): the first blank entry, or the last one of a    *)
(* new block, whose entries are cleared.                                   *)
BlankDirentry(d) ==
  LET blank == {off \in Entries(d) : EntryIno(d, off) = 0}
      added == AddBlock(d, ROOT_INO)
      off == added.disk.inode[ROOT_INO].size - 1
      b == At(added.disk, off)[1]
  IN  IF blank # {} THEN [off |-> Min(blank), ret |-> "ok", disk |-> d]
      ELSE IF added.ret # "ok" THEN [off |-> 0, ret |-> added.ret, disk |-> added.disk]
      ELSE [off |-> off, ret |-> "ok",
            disk |-> [added.disk EXCEPT !.words[b] = [i \in Word |-> 0],
                                        !.names[b] = [i \in Word |-> NoName]]]

(* Fill in an entry, or blank it; the name of a blank one is never read.   *)
SetEntry(d, off, ino, name) ==
  [d EXCEPT !.words[At(d, off)[1]][At(d, off)[2]] = ino,
            !.names[At(d, off)[1]][At(d, off)[2]] = name]
=============================================================================
