---------------------------- MODULE OspfsProofs ----------------------------
(***************************************************************************)
(* Proofs about the module ospfs, for disks of any size and any number of  *)
(* writers: no block has two uses, a growth that finds no space changes    *)
(* nothing, blocks get lost only where an inode is reused, link counts     *)
(* equal names, concurrent appends all arrive, and a listing repeats       *)
(* nothing.                                                                *)
(***************************************************************************)
EXTENDS Ospfs, FiniteSetTheorems, WellFoundedInduction, TLAPS

(* The blocks a file has before it outgrows its indirect block.            *)
Small == NDIRECT + NINDIRECT
NBlocks(d, i) == Size2NBlocks(d.inode[i].size)

-----------------------------------------------------------------------------
(* Numbers of blocks and words.                                            *)

LEMMA Constants ==
  /\ NINDIRECT \in Nat /\ NINDIRECT >= 2 /\ NDIRECT \in Nat /\ NDIRECT >= 1
  /\ NBLOCKS \in Nat /\ NBLOCKS >= 6 /\ NINODES \in Nat /\ NINODES >= 3
  /\ 0 \in Block /\ Block \subseteq Nat /\ DataBlock \subseteq Block /\ 0 \notin DataBlock
  /\ NBLOCKS \notin Block
  /\ Ino \subseteq Nat /\ 0 \in Ino /\ ROOT_INO \in Ino /\ 2 \in Ino
  /\ Small \in Nat /\ 0 \in Word
  BY SizesAssumption, UseAssumption
     DEF FREEMAP_BLK, Block, DataBlock, Ino, ROOT_INO, Small, Word

LEMMA Division ==
  /\ \A x \in Int : x \div NINDIRECT \in Int /\ x % NINDIRECT \in Word
  /\ \A x \in Int : x = (x \div NINDIRECT) * NINDIRECT + (x % NINDIRECT)
  /\ \A k \in Int : k * NINDIRECT \in Int
  BY Constants DEF Word

LEMMA Multiples ==
  /\ \A a, b \in Int : a <= b => a * NINDIRECT <= b * NINDIRECT
  /\ \A a, b \in Int : a < b => a * NINDIRECT + NINDIRECT <= b * NINDIRECT
  BY Constants

LEMMA WordOfBlock ==
  \A k \in Int, j \in Word :
    (k * NINDIRECT + j) \div NINDIRECT = k /\ (k * NINDIRECT + j) % NINDIRECT = j
  BY Constants DEF Word

(* The sizes a file has, also in between.                                  *)
FileSize == {x \in Int : x + NINDIRECT >= 1}

LEMMA BlocksOfSize ==
  ASSUME NEW x \in Int
  PROVE  /\ Size2NBlocks(x) \in Int
         /\ \A k \in Int : k < Size2NBlocks(x) <=> k * NINDIRECT < x
<1> DEFINE y == x + NINDIRECT - 1
           q == y \div NINDIRECT
<1>1. y \in Int /\ q \in Int /\ y = q * NINDIRECT + (y % NINDIRECT) /\ y % NINDIRECT \in Word
      /\ Size2NBlocks(x) = q
  BY Constants, Division DEF Size2NBlocks
<1>2. ASSUME NEW k \in Int, k < q PROVE k * NINDIRECT < x
  <2>1. k * NINDIRECT + NINDIRECT <= q * NINDIRECT
    BY <1>1, <1>2, Multiples
  <2>2. k * NINDIRECT \in Int /\ q * NINDIRECT \in Int
    BY <1>1, Division
  <2> QED BY <1>1, <2>1, <2>2, Constants DEF Word
<1>3. ASSUME NEW k \in Int, ~(k < q) PROVE ~(k * NINDIRECT < x)
  <2>1. q * NINDIRECT <= k * NINDIRECT
    BY <1>1, <1>3, Multiples
  <2>2. k * NINDIRECT \in Int /\ q * NINDIRECT \in Int
    BY <1>1, Division
  <2> QED BY <1>1, <2>1, <2>2, Constants DEF Word
<1> HIDE DEF q, y
<1> QED BY <1>1, <1>2, <1>3

LEMMA SizeSteps ==
  /\ \A x \in FileSize : Size2NBlocks(x) \in Nat
  /\ \A x \in Int, j \in Int : Size2NBlocks(x + j * NINDIRECT) = Size2NBlocks(x) + j
  /\ \A x \in Int : Size2NBlocks(x + NINDIRECT) = Size2NBlocks(x) + 1
  /\ \A x \in Int : Size2NBlocks(x - NINDIRECT) = Size2NBlocks(x) - 1
  /\ \A x \in Int : x > Small * NINDIRECT <=> Size2NBlocks(x) > Small
  /\ \A x \in FileSize : Size2NBlocks(x) > 0 => x - NINDIRECT \in FileSize
<1>1. ASSUME NEW x \in FileSize PROVE Size2NBlocks(x) \in Nat
  <2>1. x \in Int /\ (-1) * NINDIRECT < x /\ -1 \in Int
    BY Constants DEF FileSize
  <2>2. -1 < Size2NBlocks(x) /\ Size2NBlocks(x) \in Int
    BY <2>1, BlocksOfSize
  <2> QED BY <2>2
<1>2. ASSUME NEW x \in Int, NEW j \in Int
      PROVE  Size2NBlocks(x + j * NINDIRECT) = Size2NBlocks(x) + j
  <2> DEFINE y == x + NINDIRECT - 1
  <2>1. y \in Int /\ y = (y \div NINDIRECT) * NINDIRECT + (y % NINDIRECT)
        /\ y % NINDIRECT \in Word /\ y \div NINDIRECT \in Int
    BY Constants, Division
  <2>2. y + j * NINDIRECT = (y \div NINDIRECT + j) * NINDIRECT + (y % NINDIRECT)
    BY <2>1, Constants DEF Word
  <2>3. (y + j * NINDIRECT) \div NINDIRECT = y \div NINDIRECT + j
    BY <2>1, <2>2, WordOfBlock
  <2>4. x + j * NINDIRECT + NINDIRECT - 1 = y + j * NINDIRECT
    BY Constants, Division
  <2> QED BY <2>3, <2>4 DEF Size2NBlocks
<1>3. \A x \in Int : Size2NBlocks(x + NINDIRECT) = Size2NBlocks(x) + 1
                     /\ Size2NBlocks(x - NINDIRECT) = Size2NBlocks(x) - 1
  <2> TAKE x \in Int
  <2>1. 1 * NINDIRECT = NINDIRECT /\ (-1) * NINDIRECT = -NINDIRECT
        /\ x + (-NINDIRECT) = x - NINDIRECT /\ Size2NBlocks(x) \in Int
    BY Constants, BlocksOfSize
  <2> QED BY <1>2, <2>1
<1>4. \A x \in Int : x > Small * NINDIRECT <=> Size2NBlocks(x) > Small
  <2> TAKE x \in Int
  <2>1. Small \in Int /\ Small * NINDIRECT \in Int /\ Size2NBlocks(x) \in Int
    BY Constants, Division, BlocksOfSize
  <2>2. Small < Size2NBlocks(x) <=> Small * NINDIRECT < x
    BY <2>1, BlocksOfSize
  <2> QED BY <2>1, <2>2
<1>5. \A x \in FileSize : Size2NBlocks(x) > 0 => x - NINDIRECT \in FileSize
  BY BlocksOfSize, Constants DEF FileSize
<1> QED BY <1>1, <1>2, <1>3, <1>4, <1>5

-----------------------------------------------------------------------------
(* Recursion.                                                              *)

(* Of some natural numbers one is the smallest.                            *)
LEMMA LeastExists ==
  ASSUME NEW T, T \subseteq Nat, IsFiniteSet(T), T # {}
  PROVE  \E k \in T : \A j \in T : k <= j
<1> DEFINE Below(k) == {j \in T : j < k}
           B == {Below(k) : k \in T}
<1>1. IsWellFoundedOn(StrictSubsetOrdering(T), SUBSET T)
  BY FS_StrictSubsetOrderingWellFounded, FS_FiniteSubsetsOfFinite
<1>2. B \subseteq SUBSET T /\ B # {}
  OBVIOUS
<1>3. PICK U \in B : \A V \in B : ~(<<V, U>> \in StrictSubsetOrdering(T))
  BY <1>1, <1>2, WFMin
<1>4. PICK k \in T : U = Below(k)
  BY <1>3
<1>5. ASSUME NEW j \in T, ~(k <= j) PROVE FALSE
  <2>1. j < k /\ j \in Nat /\ k \in Nat
    BY <1>5
  <2>2. Below(j) \subseteq Below(k)
    <3> SUFFICES ASSUME NEW x \in T, x < j PROVE x < k
      OBVIOUS
    <3> QED BY <2>1
  <2>3. j \in Below(k) /\ j \notin Below(j)
    BY <2>1
  <2>4. <<Below(j), Below(k)>> \in StrictSubsetOrdering(T)
    BY <2>2, <2>3, Zenon DEF StrictSubsetOrdering
  <2>5. Below(j) \in B
    OBVIOUS
  <2> QED BY <1>3, <1>4, <2>4, <2>5
<1> QED BY <1>5

(* Induction over a set of numbers.                                        *)
LEMMA Reached ==
  ASSUME NEW S, 0 \in S, \A k \in Nat : k \in S => k+1 \in S, NEW m \in Nat
  PROVE  m \in S
<1> SUFFICES ASSUME m \notin S PROVE FALSE
  OBVIOUS
<1> DEFINE T == {k \in 0 .. m : k \notin S}
<1>1. IsFiniteSet(T) /\ T # {} /\ T \subseteq Nat
  <2>1. IsFiniteSet(0 .. m) /\ m \in 0 .. m
    BY FS_Interval
  <2> QED BY <2>1, FS_Subset
<1>2. PICK k \in T : \A j \in T : k <= j
  BY <1>1, LeastExists
<1>3. k \in Nat /\ k # 0 /\ k-1 \in Nat /\ (k-1)+1 = k /\ k-1 \in 0 .. m /\ ~(k <= k-1)
  OBVIOUS
<1> QED BY <1>2, <1>3

(* Whatever a step g makes of an element of S, it can be repeated.         *)
LEMMA Repeated ==
  ASSUME NEW S, NEW x \in S, NEW g \in [S -> S]
  PROVE  \E f \in [Nat -> S] : f[0] = x /\ \A k \in Nat : f[k+1] = g[f[k]]
<1> DEFINE Good(c, k) == /\ c \in [0 .. k -> S]
                         /\ c[0] = x
                         /\ \A j \in Nat : j < k => c[j+1] = g[c[j]]
           T == {k \in Nat : \E c : Good(c, k)}
           c_(k) == CHOOSE c : Good(c, k)
<1>1. 0 \in T
  <2>1. Good([k \in 0 .. 0 |-> x], 0)
    OBVIOUS
  <2> QED BY <2>1
<1>2. ASSUME NEW k \in Nat, k \in T PROVE k+1 \in T
  <2>1. PICK c : Good(c, k)
    BY <1>2
  <2> DEFINE d == [j \in 0 .. k+1 |-> IF j = k+1 THEN g[c[k]] ELSE c[j]]
  <2>2. c[k] \in S /\ g[c[k]] \in S
    BY <2>1
  <2>3. d \in [0 .. k+1 -> S] /\ d[0] = x
    BY <2>1, <2>2
  <2>4. ASSUME NEW j \in Nat, j < k+1 PROVE d[j+1] = g[d[j]]
    <3>1. d[j] = c[j]
      BY <2>4
    <3>2. CASE j = k
      BY <3>1, <3>2
    <3>3. CASE j # k
      <4>1. j < k /\ j+1 \in 0 .. k /\ j+1 # k+1 /\ j+1 \in 0 .. k+1
        BY <2>4, <3>3
      <4> QED BY <2>1, <3>1, <4>1
    <3> QED BY <3>2, <3>3
  <2>5. Good(d, k+1)
    BY <2>3, <2>4
  <2> HIDE DEF d, Good
  <2> QED BY <2>5
<1>3. ASSUME NEW k \in Nat PROVE Good(c_(k), k)
  <2> HIDE DEF T
  <2>1. k \in T
    BY <1>1, <1>2, Reached
  <2> USE DEF T
  <2>2. \E c : Good(c, k)
    BY <2>1
  <2> HIDE DEF Good, T
  <2> QED BY <2>2
<1> HIDE DEF c_
<1>4. ASSUME NEW m \in Nat, NEW k \in Nat, k <= m PROVE c_(m)[k] = c_(k)[k]
  <2> DEFINE U == {j \in Nat : j <= k => c_(m)[j] = c_(k)[j]}
  <2>1. 0 \in U
    BY <1>3
  <2>2. ASSUME NEW j \in Nat, j \in U PROVE j+1 \in U
    <3> SUFFICES ASSUME j+1 <= k PROVE c_(m)[j+1] = c_(k)[j+1]
      OBVIOUS
    <3>1. j < k /\ j < m /\ c_(m)[j] = c_(k)[j]
      BY <1>4, <2>2
    <3> QED BY <1>3, <3>1
  <2> HIDE DEF U
  <2>3. k \in U
    BY <2>1, <2>2, Reached
  <2> QED BY <2>3 DEF U
<1> DEFINE f == [k \in Nat |-> c_(k)[k]]
<1>5. f \in [Nat -> S]
  BY <1>3
<1>6. f[0] = x
  BY <1>3
<1>7. ASSUME NEW k \in Nat PROVE f[k+1] = g[f[k]]
  <2>1. f[k+1] = c_(k+1)[k+1] /\ f[k] = c_(k)[k]
    OBVIOUS
  <2>2. c_(k+1)[k+1] = g[c_(k+1)[k]]
    BY <1>3
  <2>3. c_(k+1)[k] = c_(k)[k]
    BY <1>4
  <2> QED BY <2>1, <2>2, <2>3
<1> HIDE DEF f
<1> QED BY <1>5, <1>6, <1>7

(* The least of some numbers.                                              *)
LEMMA MinFacts ==
  ASSUME NEW T, T \subseteq Nat, IsFiniteSet(T), T # {}
  PROVE  Min(T) \in T /\ \A x \in T : Min(T) <= x
  BY LeastExists DEF Min

-----------------------------------------------------------------------------
(* Types: they hold whatever size files have.                              *)

Value == Nat \cup Procs

Inode ==
  [size : FileSize, ftype : {"REG", "DIR", "SYMLINK"}, nlink : Int,
   direct : [0 .. NDIRECT-1 -> Block], indirect : Block, indirect2 : Block]

Disk ==
  [free : SUBSET Block, inode : [Ino -> Inode],
   words : [Block -> [Word -> Value]],
   names : [Block -> [Word -> Names \cup {NoName}]], wild : BOOLEAN]

Result == [ret : {"ok", "ENOSPC", "EIO"}, disk : Disk]

(* All that is done to the blocks of one inode, but for its size.          *)
Rearranged(d, r, ino) ==
  /\ r \in Disk /\ r.names = d.names /\ r.wild = d.wild
  /\ \A i \in Ino \ {ino} : r.inode[i] = d.inode[i]
  /\ r.inode[ino].ftype = d.inode[ino].ftype
  /\ r.inode[ino].nlink = d.inode[ino].nlink
  /\ r.inode[ino].size = d.inode[ino].size

LEMMA DiskTyped ==
  ASSUME NEW d \in Disk, NEW i \in Ino
  PROVE  /\ d.inode[i] \in Inode /\ d.inode[i].size \in FileSize
         /\ d.inode[i].indirect \in Block /\ d.inode[i].indirect2 \in Block
         /\ d.free \subseteq Block /\ IsFiniteSet(d.free)
         /\ NBlocks(d, i) \in Nat
<1>1. IsFiniteSet(Block)
  BY Constants, FS_Interval DEF Block
<1>2. d.inode[i] \in Inode /\ d.free \subseteq Block
  BY DEF Disk
<1> QED BY <1>1, <1>2, FS_Subset, SizeSteps DEF Inode, NBlocks

LEMMA AllocatableFacts ==
  ASSUME NEW d \in Disk
  PROVE  /\ Allocatable(d) \in Block /\ Allocatable(d) \in Value
         /\ Allocatable(d) # 0 => Allocatable(d) \in d.free
<1> DEFINE found == {b \in d.free : b > FREEMAP_BLK}
<1>1. found \subseteq Nat /\ IsFiniteSet(found) /\ d.free \subseteq Block
  <2>1. d.free \subseteq Block /\ IsFiniteSet(d.free)
    BY DiskTyped, Constants
  <2> QED BY <2>1, Constants, FS_Subset
<1>2. CASE found = {}
  BY <1>2, Constants DEF Allocatable, Value
<1>3. CASE found # {}
  <2>1. Min(found) \in found
    BY <1>1, <1>3, MinFacts
  <2>2. Allocatable(d) = Min(found)
    BY <1>3 DEF Allocatable
  <2> HIDE DEF found
  <2>3. Allocatable(d) \in d.free
    BY <2>1, <2>2 DEF found
  <2> QED BY <1>1, <2>3, Constants DEF Value
<1> QED BY <1>2, <1>3

LEMMA RearrangedTrans ==
  ASSUME NEW d, NEW e, NEW r, NEW ino, Rearranged(d, e, ino), Rearranged(e, r, ino)
  PROVE  Rearranged(d, r, ino)
  BY DEF Rearranged

LEMMA TakenKeeps ==
  ASSUME NEW d \in Disk, NEW ino \in Ino, NEW b PROVE Rearranged(d, Taken(d, b), ino)
  BY DEF Disk, Taken, Rearranged

LEMMA FreeKeeps ==
  ASSUME NEW d \in Disk, NEW ino \in Ino, NEW b PROVE Rearranged(d, FreeBlock(d, b), ino)
<1>1. FREEMAP_BLK+1 .. NBLOCKS-1 \subseteq Block
  BY Constants DEF FREEMAP_BLK, Block
<1> QED BY <1>1 DEF Disk, FreeBlock, Rearranged

LEMMA PutWordKeeps ==
  ASSUME NEW d \in Disk, NEW ino \in Ino, NEW b, NEW i, NEW n \in Value
  PROVE  Rearranged(d, PutWord(d, b, i, n), ino)
<1>1. [d.words EXCEPT ![b][i] = n] \in [Block -> [Word -> Value]]
  BY DEF Disk
<1>2. PutWord(d, b, i, n) = [d EXCEPT !.words = [d.words EXCEPT ![b][i] = n]]
  BY DEF PutWord
<1> QED BY <1>1, <1>2 DEF Disk, Rearranged

(* The inode's record of its blocks changes.                               *)
LEMMA RecordKeeps ==
  ASSUME NEW d \in Disk, NEW ino \in Ino, NEW b \in Block, NEW k
  PROVE  /\ Rearranged(d, [d EXCEPT !.inode[ino].direct[k] = b], ino)
         /\ Rearranged(d, [d EXCEPT !.inode[ino].indirect = b], ino)
         /\ Rearranged(d, [d EXCEPT !.inode[ino].indirect2 = b], ino)
<1> DEFINE oi == d.inode[ino]
<1>1. oi \in Inode
  BY DEF Disk
<1>2. ASSUME NEW o \in Inode, o.ftype = oi.ftype, o.nlink = oi.nlink, o.size = oi.size
      PROVE  Rearranged(d, [d EXCEPT !.inode[ino] = o], ino)
  BY <1>2 DEF Disk, Rearranged
<1>3. /\ [oi EXCEPT !.direct[k] = b] \in Inode
      /\ [oi EXCEPT !.indirect = b] \in Inode
      /\ [oi EXCEPT !.indirect2 = b] \in Inode
  BY <1>1 DEF Inode
<1>4. /\ Rearranged(d, [d EXCEPT !.inode[ino] = [oi EXCEPT !.direct[k] = b]], ino)
      /\ Rearranged(d, [d EXCEPT !.inode[ino] = [oi EXCEPT !.indirect = b]], ino)
      /\ Rearranged(d, [d EXCEPT !.inode[ino] = [oi EXCEPT !.indirect2 = b]], ino)
  BY <1>1, <1>2, <1>3 DEF Inode
<1>5. /\ [d EXCEPT !.inode[ino].direct[k] = b] = [d EXCEPT !.inode[ino] = [oi EXCEPT !.direct[k] = b]]
      /\ [d EXCEPT !.inode[ino].indirect = b] = [d EXCEPT !.inode[ino] = [oi EXCEPT !.indirect = b]]
      /\ [d EXCEPT !.inode[ino].indirect2 = b] = [d EXCEPT !.inode[ino] = [oi EXCEPT !.indirect2 = b]]
  BY DEF Disk
<1> QED BY <1>4, <1>5

SetInode(d, ino, o) == [d EXCEPT !.inode[ino] = o]

LEMMA InodeSet ==
  ASSUME NEW d \in Disk, NEW ino \in Ino, NEW o \in Inode,
         NEW r, r = SetInode(d, ino, o)
  PROVE  /\ r \in Disk /\ r.free = d.free /\ r.words = d.words /\ r.names = d.names
         /\ r.wild = d.wild /\ r.inode[ino] = o
         /\ \A i \in Ino \ {ino} : r.inode[i] = d.inode[i]
<1>1. [d.inode EXCEPT ![ino] = o] \in [Ino -> Inode]
  BY DEF Disk
<1>2. r = [d EXCEPT !.inode = [d.inode EXCEPT ![ino] = o]]
  BY DEF SetInode
<1>3. /\ [d.inode EXCEPT ![ino] = o][ino] = o
      /\ \A i \in Ino \ {ino} : [d.inode EXCEPT ![ino] = o][i] = d.inode[i]
  BY DEF Disk
<1> QED BY <1>1, <1>2, <1>3 DEF Disk

LEMMA GrownTyped ==
  ASSUME NEW d \in Disk, NEW ino \in Ino
  PROVE  /\ Grown(d, ino).ret = "ok" /\ Grown(d, ino) \in Result
         /\ Grown(d, ino).disk.names = d.names /\ Grown(d, ino).disk.wild = d.wild
         /\ Grown(d, ino).disk.free = d.free /\ Grown(d, ino).disk.words = d.words
         /\ Grown(d, ino).disk.inode =
              [d.inode EXCEPT ![ino] = [d.inode[ino] EXCEPT !.size = @ + NINDIRECT]]
         /\ \A i \in Ino \ {ino} : Grown(d, ino).disk.inode[i] = d.inode[i]
         /\ Grown(d, ino).disk.inode[ino] = [d.inode[ino] EXCEPT !.size = @ + NINDIRECT]
<1> DEFINE oi == d.inode[ino]
           o == [oi EXCEPT !.size = @ + NINDIRECT]
<1>1. oi \in Inode /\ oi.size + NINDIRECT \in FileSize
  BY DiskTyped, Constants DEF FileSize
<1>2. o \in Inode
  BY <1>1 DEF Inode
<1>3. Grown(d, ino) = Returns("ok", [d EXCEPT !.inode = [d.inode EXCEPT ![ino] = o]])
  BY DEF Grown
<1>4. [d.inode EXCEPT ![ino] = o] \in [Ino -> Inode]
  BY <1>2 DEF Disk
<1> HIDE DEF o
<1>5. [d EXCEPT !.inode = [d.inode EXCEPT ![ino] = o]] \in Disk
  BY <1>4 DEF Disk
<1>6. [d.inode EXCEPT ![ino] = o][ino] = o
      /\ \A i \in Ino \ {ino} : [d.inode EXCEPT ![ino] = o][i] = d.inode[i]
  BY DEF Disk
<1>7. /\ [d EXCEPT !.inode = [d.inode EXCEPT ![ino] = o]].inode = [d.inode EXCEPT ![ino] = o]
      /\ [d EXCEPT !.inode = [d.inode EXCEPT ![ino] = o]].names = d.names
      /\ [d EXCEPT !.inode = [d.inode EXCEPT ![ino] = o]].wild = d.wild
      /\ [d EXCEPT !.inode = [d.inode EXCEPT ![ino] = o]].free = d.free
      /\ [d EXCEPT !.inode = [d.inode EXCEPT ![ino] = o]].words = d.words
  BY DEF Disk
<1> DEFINE e == [d EXCEPT !.inode = [d.inode EXCEPT ![ino] = o]]
<1>8. Grown(d, ino).ret = "ok" /\ Grown(d, ino).disk = e /\ Grown(d, ino) \in Result
  BY <1>3, <1>5 DEF Returns, Result
<1> QED BY <1>6, <1>7, <1>8 DEF o

(* What add_block() may do: the file grows by a block, or no inode changes *)
(* its size.                                                               *)
Adds(d, r, ino) ==
  /\ r \in Result /\ r.disk.names = d.names /\ r.disk.wild = d.wild
  /\ \A i \in Ino \ {ino} : r.disk.inode[i] = d.inode[i]
  /\ r.disk.inode[ino].ftype = d.inode[ino].ftype
  /\ r.disk.inode[ino].nlink = d.inode[ino].nlink
  /\ r.disk.inode[ino].size =
       IF r.ret = "ok" THEN d.inode[ino].size + NINDIRECT ELSE d.inode[ino].size

LEMMA GrownAdds ==
  ASSUME NEW d \in Disk, NEW ino \in Ino, NEW e, Rearranged(d, e, ino)
  PROVE  Adds(d, Grown(e, ino), ino)
<1>1. e \in Disk
  BY DEF Rearranged
<1>2. e.inode[ino] \in Inode
  BY <1>1, DiskTyped
<1>3. LET o == [e.inode[ino] EXCEPT !.size = @ + NINDIRECT]
      IN o.ftype = e.inode[ino].ftype /\ o.nlink = e.inode[ino].nlink
         /\ o.size = e.inode[ino].size + NINDIRECT
  BY <1>2 DEF Inode
<1> DEFINE g == Grown(e, ino)
           o == [e.inode[ino] EXCEPT !.size = @ + NINDIRECT]
<1>4. /\ g.ret = "ok" /\ g \in Result /\ g.disk.names = e.names /\ g.disk.wild = e.wild
      /\ g.disk.inode = [e.inode EXCEPT ![ino] = o]
  BY <1>1, GrownTyped
<1> HIDE DEF g, o
<1>5. g.disk.inode[ino] = o /\ \A i \in Ino \ {ino} : g.disk.inode[i] = e.inode[i]
  BY <1>1, <1>4 DEF Disk
<1>6. o.ftype = e.inode[ino].ftype /\ o.nlink = e.inode[ino].nlink
      /\ o.size = e.inode[ino].size + NINDIRECT
  BY <1>3 DEF o
<1>7. Adds(d, g, ino)
  BY <1>4, <1>5, <1>6 DEF Adds, Rearranged
<1> QED BY <1>7 DEF g

LEMMA FailedAdds ==
  ASSUME NEW d \in Disk, NEW ino \in Ino, NEW e, Rearranged(d, e, ino),
         NEW why \in {"EIO", "ENOSPC"}
  PROVE  Adds(d, Returns(why, e), ino)
<1>1. Returns(why, e).ret = why /\ Returns(why, e).disk = e /\ Returns(why, e) \in Result
  BY DEF Returns, Result, Rearranged
<1> QED BY <1>1 DEF Adds, Rearranged

LEMMA AddTyped ==
  ASSUME NEW d \in Disk, NEW ino \in Ino
  PROVE  Adds(d, AddBlock(d, ino), ino)
<1> DEFINE n == Size2NBlocks(d.inode[ino].size)
           new == Allocatable(d)
           which == IndirIndex(n)
           index == DirectIndex(n)
<1>1. Rearranged(d, d, ino)
  BY DEF Rearranged
<1>2. new \in Block /\ new \in Value
  BY AllocatableFacts
<1> DEFINE d1 == Taken(d, new)
<1>3. Rearranged(d, d1, ino) /\ d1 \in Disk
  BY TakenKeeps DEF Rearranged
<1>4. Adds(d, Returns("ENOSPC", d), ino)
  BY <1>1, FailedAdds
<1>5. Adds(d, AddDirect(d, ino, new, index), ino)
  <2>1. Rearranged(d1, [d1 EXCEPT !.inode[ino].direct[index] = new], ino)
    BY <1>2, <1>3, RecordKeeps
  <2> DEFINE e == [d1 EXCEPT !.inode[ino].direct[index] = new]
  <2>2. Rearranged(d, e, ino)
    BY <1>3, <2>1, RearrangedTrans
  <2>3. AddDirect(d, ino, new, index) = Grown(e, ino)
    BY DEF AddDirect
  <2> HIDE DEF e
  <2> QED BY <2>2, <2>3, GrownAdds
<1>6. Adds(d, AddIndirect(d, ino, new, index), ino)
  <2> DEFINE indirect == IF index = 0 THEN Allocatable(d1) ELSE d.inode[ino].indirect
             d2 == [Taken(d1, indirect) EXCEPT !.inode[ino].indirect = indirect]
             e == PutWord(IF index = 0 THEN d2 ELSE d1, indirect, index, new)
             f == FreeBlock(d1, new)
  <2>1. indirect \in Block
    BY <1>3, AllocatableFacts, DiskTyped
  <2>2. Rearranged(d, f, ino)
    BY <1>3, FreeKeeps, RearrangedTrans
  <2>3. Rearranged(d, Taken(d1, indirect), ino) /\ Taken(d1, indirect) \in Disk
    BY <1>3, TakenKeeps, RearrangedTrans DEF Rearranged
  <2>4. Rearranged(d, d2, ino)
    <3> DEFINE t == Taken(d1, indirect)
    <3> HIDE DEF t, indirect
    <3>1. Rearranged(t, [t EXCEPT !.inode[ino].indirect = indirect], ino)
      BY <2>1, <2>3, RecordKeeps DEF t
    <3> QED BY <2>3, <3>1, RearrangedTrans DEF t
  <2>5. d2 \in Disk
    BY <2>4 DEF Rearranged
  <2>6. Rearranged(d, e, ino)
    <3>1. CASE index = 0
      BY <1>2, <2>4, <2>5, <3>1, PutWordKeeps, RearrangedTrans
    <3>2. CASE index # 0
      BY <1>2, <1>3, <3>2, PutWordKeeps, RearrangedTrans
    <3> QED BY <3>1, <3>2
  <2>7. AddIndirect(d, ino, new, index) = Returns("EIO", f)
        \/ AddIndirect(d, ino, new, index) = Grown(e, ino)
    BY DEF AddIndirect
  <2> HIDE DEF e, f
  <2> QED BY <2>2, <2>6, <2>7, GrownAdds, FailedAdds
<1>7. Adds(d, AddDoubly(d, ino, new, which, index), ino)
  <2> DEFINE second == IF index = 0 THEN Allocatable(d1) ELSE 0
             d2 == IF second = 0 THEN d1
                   ELSE [Taken(d1, second) EXCEPT !.inode[ino].indirect2 = second]
             indirect == Allocatable(d2)
             back == FreeBlock(d2, new)
             d3 == [FreeBlock(back, second) EXCEPT !.inode[ino].indirect2 = 0]
             d4 == PutWord(Taken(d2, indirect), d2.inode[ino].indirect2, which, indirect)
             d5 == PutWord(d4, second, index, new)
  <2>0. 0 \in Block
    BY Constants
  <2>1. second \in Block
    BY <1>3, <2>0, AllocatableFacts
  <2>2. Rearranged(d, d2, ino) /\ d2 \in Disk
    <3>1. Rearranged(d, Taken(d1, second), ino) /\ Taken(d1, second) \in Disk
      BY <1>3, TakenKeeps, RearrangedTrans DEF Rearranged
    <3> DEFINE t == Taken(d1, second)
               u == [t EXCEPT !.inode[ino].indirect2 = second]
    <3> HIDE DEF t
    <3>2. Rearranged(t, u, ino)
      BY <2>1, <3>1, RecordKeeps DEF t
    <3> HIDE DEF u
    <3>3. Rearranged(d, u, ino)
      BY <3>1, <3>2, RearrangedTrans DEF t
    <3>4. d2 = IF second = 0 THEN d1 ELSE u
      BY DEF t, u
    <3> HIDE DEF d2, d1, second
    <3> QED BY <1>3, <3>3, <3>4 DEF Rearranged
  <2> HIDE DEF d2
  <2>3. indirect \in Block /\ indirect \in Value
    BY <2>2, AllocatableFacts
  <2>4. Rearranged(d, back, ino) /\ back \in Disk
    BY <2>2, FreeKeeps, RearrangedTrans DEF Rearranged
  <2> HIDE DEF back
  <2>5. Rearranged(d, d3, ino)
    <3>1. Rearranged(d, FreeBlock(back, second), ino) /\ FreeBlock(back, second) \in Disk
      BY <2>4, FreeKeeps, RearrangedTrans DEF Rearranged
    <3> HIDE DEF second
    <3>2. Rearranged(FreeBlock(back, second), d3, ino)
      BY <3>1, <2>0, RecordKeeps
    <3> QED BY <3>1, <3>2, RearrangedTrans
  <2> HIDE DEF indirect
  <2>6. Rearranged(d, d4, ino) /\ d4 \in Disk
    <3>1. Rearranged(d, Taken(d2, indirect), ino) /\ Taken(d2, indirect) \in Disk
      BY <2>2, TakenKeeps, RearrangedTrans DEF Rearranged
    <3>2. Rearranged(d, d4, ino)
      BY <2>3, <3>1, PutWordKeeps, RearrangedTrans
    <3> QED BY <3>2 DEF Rearranged
  <2>7. Rearranged(d, d5, ino)
    <3> HIDE DEF d4, second, n, which, index, new
    <3> QED BY <1>2, <2>6, PutWordKeeps, RearrangedTrans
  <2>8. Rearranged(d, FreeBlock(d1, new), ino)
    BY <1>3, FreeKeeps, RearrangedTrans
  <2>9. \/ AddDoubly(d, ino, new, which, index) = Returns("EIO", FreeBlock(d1, new))
        \/ AddDoubly(d, ino, new, which, index) = Returns("EIO", back)
        \/ AddDoubly(d, ino, new, which, index) = Returns("EIO", d3)
        \/ AddDoubly(d, ino, new, which, index) = Grown(d5, ino)
    BY Zenon DEF AddDoubly, d2, back, indirect
  <2> HIDE DEF back, d3, d5
  <2> QED BY <2>4, <2>5, <2>7, <2>8, <2>9, GrownAdds, FailedAdds
<1> HIDE DEF new, which, index, n
<1>8. \/ AddBlock(d, ino) = Returns("ENOSPC", d)
      \/ AddBlock(d, ino) = AddDirect(d, ino, new, index)
      \/ AddBlock(d, ino) = AddIndirect(d, ino, new, index)
      \/ AddBlock(d, ino) = AddDoubly(d, ino, new, which, index)
  BY DEF AddBlock, n, new, which, index
<1> QED BY <1>4, <1>5, <1>6, <1>7, <1>8

(* What remove_block() may do to a file that has a block.                  *)
Removes(d, r, ino) ==
  /\ r \in Disk /\ r.names = d.names
  /\ \A i \in Ino \ {ino} : r.inode[i] = d.inode[i]
  /\ r.inode[ino].ftype = d.inode[ino].ftype
  /\ r.inode[ino].nlink = d.inode[ino].nlink
  /\ r.inode[ino].size = d.inode[ino].size - NINDIRECT

LEMMA RemoveTyped ==
  ASSUME NEW d \in Disk, NEW ino \in Ino, NBlocks(d, ino) > 0
  PROVE  Removes(d, RemoveBlock(d, ino), ino)
<1> DEFINE n == Size2NBlocks(d.inode[ino].size) - 1
           which == IndirIndex(n)
           index == DirectIndex(n)
           Done(e) == /\ e \in Disk /\ e.names = d.names
                      /\ \A i \in Ino \ {ino} : e.inode[i] = d.inode[i]
                      /\ e.inode[ino].ftype = d.inode[ino].ftype
                      /\ e.inode[ino].nlink = d.inode[ino].nlink
                      /\ e.inode[ino].size = d.inode[ino].size
<1>1. \A e : Rearranged(d, e, ino) => Done(e)
  BY DEF Rearranged
<1>2. 0 \in Value /\ 0 \in Block
  BY Constants DEF Value
<1>3. Done(RemoveDirect(d, ino, index))
  <2> DEFINE e == FreeBlock(d, d.inode[ino].direct[index])
  <2>0. Rearranged(d, e, ino)
    BY FreeKeeps
  <2>1. Rearranged(d, e, ino) /\ e \in Disk
    BY <2>0 DEF Rearranged
  <2>2. Rearranged(d, [e EXCEPT !.inode[ino].direct[index] = 0], ino)
    <3> HIDE DEF e, n, index
    <3> QED BY <1>2, <2>1, RecordKeeps, RearrangedTrans
  <2> QED BY <1>1, <2>2 DEF RemoveDirect
<1>4. Done(RemoveIndirect(d, ino, index))
  <2> DEFINE indirect == d.inode[ino].indirect
             e == FreeBlock(d, GetWord(d, indirect, index))
             d1 == PutWord(e, indirect, index, 0)
             f == FreeBlock(d1, indirect)
  <2>1. Rearranged(d, e, ino) /\ e \in Disk
    BY FreeKeeps DEF Rearranged
  <2>2. Rearranged(d, d1, ino) /\ d1 \in Disk
    <3>1. Rearranged(d, d1, ino)
      BY <1>2, <2>1, PutWordKeeps, RearrangedTrans
    <3> QED BY <3>1 DEF Rearranged
  <2>3. Rearranged(d, f, ino) /\ f \in Disk
    <3>1. Rearranged(d, f, ino)
      BY <2>2, FreeKeeps, RearrangedTrans
    <3> QED BY <3>1 DEF Rearranged
  <2>4. Rearranged(d, [f EXCEPT !.inode[ino].indirect = 0], ino)
    <3> HIDE DEF f
    <3> QED BY <1>2, <2>3, RecordKeeps, RearrangedTrans
  <2>5. \/ RemoveIndirect(d, ino, index) = d1
        \/ RemoveIndirect(d, ino, index) = [f EXCEPT !.inode[ino].indirect = 0]
    BY DEF RemoveIndirect
  <2> HIDE DEF d1, f, Done
  <2> QED BY <1>1, <2>2, <2>4, <2>5
<1>5. Done(RemoveDoubly(d, ino, which, index))
  <2> DEFINE second == d.inode[ino].indirect2
             indirect == GetWord(d, second, which)
             e == FreeBlock(d, GetWord(d, indirect, index))
             d1 == PutWord(e, indirect, index, 0)
             f == FreeBlock(d1, indirect)
             g == PutWord(f, second, which, 0)
  <2>1. Rearranged(d, e, ino) /\ e \in Disk
    BY FreeKeeps DEF Rearranged
  <2>2. Rearranged(d, d1, ino) /\ d1 \in Disk
    <3>1. Rearranged(d, d1, ino)
      BY <1>2, <2>1, PutWordKeeps, RearrangedTrans
    <3> QED BY <3>1 DEF Rearranged
  <2>3. Rearranged(d, f, ino) /\ f \in Disk
    <3>1. Rearranged(d, f, ino)
      BY <2>2, FreeKeeps, RearrangedTrans
    <3> QED BY <3>1 DEF Rearranged
  <2>4. Rearranged(d, g, ino)
    BY <1>2, <2>3, PutWordKeeps, RearrangedTrans
  <2>5. Done(Strayed(d))
    BY DEF Strayed, Disk
  <2>6. \/ RemoveDoubly(d, ino, which, index) = Strayed(d)
        \/ RemoveDoubly(d, ino, which, index) = d1
        \/ RemoveDoubly(d, ino, which, index) = g
    BY DEF RemoveDoubly
  <2> HIDE DEF d1, g, Done
  <2> QED BY <1>1, <2>2, <2>4, <2>5, <2>6
<1>6. ASSUME NEW e, Done(e) PROVE Removes(d, [e EXCEPT !.inode[ino].size = @ - NINDIRECT], ino)
  <2> DEFINE oi == e.inode[ino]
             o == [oi EXCEPT !.size = @ - NINDIRECT]
  <2>1. oi \in Inode /\ oi.size = d.inode[ino].size
    BY <1>6, DiskTyped
  <2>2. oi.size - NINDIRECT \in FileSize
    BY <2>1, SizeSteps, DiskTyped DEF NBlocks
  <2>3. o \in Inode /\ o.size = oi.size - NINDIRECT /\ o.ftype = oi.ftype /\ o.nlink = oi.nlink
    BY <2>1, <2>2 DEF Inode
  <2>4. [e EXCEPT !.inode[ino].size = @ - NINDIRECT] = [e EXCEPT !.inode[ino] = o]
    BY <1>6 DEF Disk
  <2> HIDE DEF o
  <2>5. Removes(d, [e EXCEPT !.inode[ino] = o], ino)
    BY <1>6, <2>1, <2>3 DEF Disk, Removes
  <2> QED BY <2>4, <2>5
<1>7. \E e : Done(e) /\ RemoveBlock(d, ino) = [e EXCEPT !.inode[ino].size = @ - NINDIRECT]
  <2> HIDE DEF Done, n, which, index
  <2>1. \E e : /\ e = RemoveDirect(d, ino, index) \/ e = RemoveIndirect(d, ino, index)
                  \/ e = RemoveDoubly(d, ino, which, index)
               /\ RemoveBlock(d, ino) = [e EXCEPT !.inode[ino].size = @ - NINDIRECT]
    <3> USE DEF n, which, index
    <3> QED BY DEF RemoveBlock
  <2> QED BY <1>3, <1>4, <1>5, <2>1
<1> QED BY <1>6, <1>7

-----------------------------------------------------------------------------
(* The loops of change_size().                                             *)

LEMMA GrowTurnTyped ==
  ASSUME NEW r \in Result, NEW ino \in Ino, NEW n \in Nat
  PROVE  /\ GrowTurn(r, ino, n) \in Result
         /\ GrowTurn(r, ino, n) = r \/ Adds(r.disk, GrowTurn(r, ino, n), ino)
<1>1. r.disk \in Disk
  BY DEF Result
<1>2. Adds(r.disk, AddBlock(r.disk, ino), ino)
  BY <1>1, AddTyped
<1> QED BY <1>2 DEF GrowTurn, Adds

LEMMA GrowLoop ==
  ASSUME NEW d \in Disk, NEW ino \in Ino, NEW n \in Nat
  PROVE  \E f \in [Nat -> Result] :
           /\ f[0] = Returns("ok", d)
           /\ \A k \in Nat : f[k+1] = GrowTurn(f[k], ino, n)
           /\ GrowTo(d, ino, n) = f[n]
<1> DEFINE g == [r \in Result |-> GrowTurn(r, ino, n)]
           x == Returns("ok", d)
           Loops(f) == f = [k \in Nat |-> IF k = 0 THEN Returns("ok", d)
                                          ELSE GrowTurn(f[k-1], ino, n)]
<1>1. x \in Result /\ g \in [Result -> Result]
  BY GrowTurnTyped DEF Returns, Result
<1>2. PICK f \in [Nat -> Result] : f[0] = x /\ \A k \in Nat : f[k+1] = g[f[k]]
  <2> HIDE DEF g
  <2>1. PICK y \in Result : y = Returns("ok", d)
    BY <1>1
  <2>3. PICK h : h = g
    OBVIOUS
  <2>4. h \in [Result -> Result]
    BY <1>1, <2>3
  <2> HIDE DEF x, Loops
  <2>5. \E f \in [Nat -> Result] : f[0] = y /\ \A k \in Nat : f[k+1] = h[f[k]]
    BY y \in Result, <2>4, Repeated, SMTT(60)
  <2>2. \E f \in [Nat -> Result] : f[0] = y /\ \A k \in Nat : f[k+1] = g[f[k]]
    BY <2>3, <2>5
  <2> QED BY <2>1, <2>2 DEF x
<1>3. Loops(f)
  <2> DEFINE h == [k \in Nat |-> IF k = 0 THEN Returns("ok", d)
                                 ELSE GrowTurn(f[k-1], ino, n)]
  <2>1. ASSUME NEW k \in Nat PROVE f[k] = h[k]
    <3>1. CASE k = 0
      BY <1>2, <3>1
    <3>2. CASE k # 0
      <4>1. k-1 \in Nat /\ (k-1)+1 = k
        BY <3>2
      <4>2. f[k] = g[f[k-1]]
        BY <1>2, <4>1
      <4>3. f[k-1] \in Result
        BY <1>2, <4>1
      <4>4. g[f[k-1]] = GrowTurn(f[k-1], ino, n)
        BY <4>3
      <4> QED BY <3>2, <4>2, <4>4
    <3> QED BY <3>1, <3>2
  <2> HIDE DEF x
  <2> QED BY <1>2, <2>1
<1>4. PICK w : w = CHOOSE f_ : Loops(f_)
  OBVIOUS
<1>5. Loops(w)
  <2> HIDE DEF Loops
  <2> QED BY <1>3, <1>4
<1>6. GrowTo(d, ino, n) = w[n]
  BY <1>4 DEF GrowTo
<1>7. w[0] = x /\ \A k \in Nat : w[k+1] = GrowTurn(w[k], ino, n)
  <2>1. \A k \in Nat : k+1 \in Nat /\ k+1 # 0 /\ (k+1)-1 = k
    OBVIOUS
  <2>2. \A k \in Nat : w[k] = IF k = 0 THEN Returns("ok", d) ELSE GrowTurn(w[k-1], ino, n)
    BY <1>5, Zenon
  <2> QED BY <2>1, <2>2
<1>8. w \in [Nat -> Result]
  <2> DEFINE T == {k \in Nat : w[k] \in Result}
  <2>1. 0 \in T
    BY <1>1, <1>7
  <2>2. ASSUME NEW k \in Nat, k \in T PROVE k+1 \in T
    <3>1. w[k] \in Result /\ w[k+1] = GrowTurn(w[k], ino, n)
      BY <1>7, <2>2
    <3>2. GrowTurn(w[k], ino, n) \in Result
      BY <3>1, GrowTurnTyped
    <3> QED BY <3>1, <3>2
  <2> HIDE DEF T
  <2>3. \A k \in Nat : k \in T
    BY <2>1, <2>2, Reached
  <2>4. \A k \in Nat : w[k] \in Result
    BY <2>3 DEF T
  <2>5. w = [k \in Nat |-> w[k]]
    <3>1. w = [k \in Nat |-> IF k = 0 THEN Returns("ok", d) ELSE GrowTurn(w[k-1], ino, n)]
      BY <1>5
    <3> QED BY <3>1
  <2> QED BY <2>4, <2>5
<1> QED BY <1>6, <1>7, <1>8

LEMMA ShrinkTurnTyped ==
  ASSUME NEW d \in Disk, NEW ino \in Ino, NEW n \in Nat
  PROVE  ShrinkTurn(d, ino, n) \in Disk
<1>1. NBlocks(d, ino) > n => Removes(d, RemoveBlock(d, ino), ino)
  BY RemoveTyped, DiskTyped
<1> QED BY <1>1 DEF ShrinkTurn, NBlocks, Removes

LEMMA ShrinkLoop ==
  ASSUME NEW d \in Disk, NEW ino \in Ino, NEW n \in Nat
  PROVE  \E f \in [Nat -> Disk] :
           /\ f[0] = d
           /\ \A k \in Nat : f[k+1] = ShrinkTurn(f[k], ino, n)
           /\ ShrinkTo(d, ino, n) = f[NBlocks(d, ino)]
<1> DEFINE g == [r \in Disk |-> ShrinkTurn(r, ino, n)]
           Loops(f) == f = [k \in Nat |-> IF k = 0 THEN d
                                          ELSE ShrinkTurn(f[k-1], ino, n)]
<1>1. g \in [Disk -> Disk]
  BY ShrinkTurnTyped
<1>2. PICK f \in [Nat -> Disk] : f[0] = d /\ \A k \in Nat : f[k+1] = g[f[k]]
  <2> HIDE DEF g
  <2> QED BY <1>1, Repeated
<1>3. Loops(f)
  <2> DEFINE h == [k \in Nat |-> IF k = 0 THEN d ELSE ShrinkTurn(f[k-1], ino, n)]
  <2>1. ASSUME NEW k \in Nat PROVE f[k] = h[k]
    <3>1. CASE k = 0
      BY <1>2, <3>1
    <3>2. CASE k # 0
      <4>1. k-1 \in Nat /\ (k-1)+1 = k
        BY <3>2
      <4>2. f[k] = g[f[k-1]]
        BY <1>2, <4>1
      <4>3. f[k-1] \in Disk
        BY <1>2, <4>1
      <4>4. g[f[k-1]] = ShrinkTurn(f[k-1], ino, n)
        BY <4>3
      <4> QED BY <3>2, <4>2, <4>4
    <3> QED BY <3>1, <3>2
  <2> QED BY <1>2, <2>1
<1>4. PICK w : w = CHOOSE f_ : Loops(f_)
  OBVIOUS
<1>5. Loops(w)
  <2> HIDE DEF Loops
  <2> QED BY <1>3, <1>4
<1>6. ShrinkTo(d, ino, n) = w[NBlocks(d, ino)]
  BY <1>4 DEF ShrinkTo, NBlocks
<1>7. w[0] = d /\ \A k \in Nat : w[k+1] = ShrinkTurn(w[k], ino, n)
  <2>1. \A k \in Nat : k+1 \in Nat /\ k+1 # 0 /\ (k+1)-1 = k
    OBVIOUS
  <2>2. \A k \in Nat : w[k] = IF k = 0 THEN d ELSE ShrinkTurn(w[k-1], ino, n)
    BY <1>5, Zenon
  <2> QED BY <2>1, <2>2
<1>8. w \in [Nat -> Disk]
  <2> DEFINE T == {k \in Nat : w[k] \in Disk}
  <2>1. 0 \in T
    BY <1>7
  <2>2. ASSUME NEW k \in Nat, k \in T PROVE k+1 \in T
    BY <1>7, <2>2, ShrinkTurnTyped
  <2> HIDE DEF T
  <2>3. \A k \in Nat : k \in T
    BY <2>1, <2>2, Reached
  <2>4. \A k \in Nat : w[k] \in Disk
    BY <2>3 DEF T
  <2>5. w = [k \in Nat |-> w[k]]
    <3>1. w = [k \in Nat |-> IF k = 0 THEN d ELSE ShrinkTurn(w[k-1], ino, n)]
      BY <1>5
    <3> QED BY <3>1
  <2> QED BY <2>4, <2>5
<1> QED BY <1>6, <1>7, <1>8

-----------------------------------------------------------------------------
(* Who has which block, as long as no file outgrows its indirect block.    *)

(* The k-th block of a file, or its indirect block for k = -1.             *)
Place == -1 .. Small-1

Rec(d, i, k) ==
  IF k = -1 THEN d.inode[i].indirect
  ELSE IF k < NDIRECT THEN d.inode[i].direct[k]
  ELSE d.words[d.inode[i].indirect][k-NDIRECT]

Has(d, i, k) ==
  /\ d.inode[i].ftype # "SYMLINK"
  /\ IF k = -1 THEN NBlocks(d, i) > NDIRECT ELSE k < NBlocks(d, i)

Pool(d) == d.free \cup {Rec(d, s[1], s[2]) : s \in {t \in Ino \X Place : Has(d, t[1], t[2])}}

OneUse(d) ==
  /\ d.free \subseteq DataBlock
  /\ \A i \in Ino, k \in Place : Has(d, i, k) => Rec(d, i, k) \in DataBlock \ d.free
  /\ \A i, j \in Ino, k, l \in Place :
       Has(d, i, k) /\ Has(d, j, l) /\ Rec(d, i, k) = Rec(d, j, l) => i = j /\ k = l

(* What an inode does not use is 0.                                        *)
Tidy(oi) ==
  /\ Size2NBlocks(oi.size) <= Small
  /\ \A k \in 0 .. NDIRECT-1 : k >= Size2NBlocks(oi.size) => oi.direct[k] = 0
  /\ Size2NBlocks(oi.size) <= NDIRECT \/ oi.ftype = "SYMLINK" => oi.indirect = 0
  /\ oi.indirect2 = 0

Sound(d) == d \in Disk /\ OneUse(d) /\ \A i \in Ino : Tidy(d.inode[i])

LEMMA PoolFacts ==
  ASSUME NEW d, NEW b
  PROVE  b \in Pool(d) <=> b \in d.free \/ \E i \in Ino, k \in Place : Has(d, i, k) /\ b = Rec(d, i, k)
<1>1. ASSUME NEW i \in Ino, NEW k \in Place, Has(d, i, k), b = Rec(d, i, k) PROVE b \in Pool(d)
  <2>1. <<i, k>> \in {t \in Ino \X Place : Has(d, t[1], t[2])} /\ <<i, k>>[1] = i /\ <<i, k>>[2] = k
    BY <1>1
  <2> QED BY <1>1, <2>1 DEF Pool
<1>2. ASSUME b \in Pool(d)
      PROVE  b \in d.free \/ \E i \in Ino, k \in Place : Has(d, i, k) /\ b = Rec(d, i, k)
  BY <1>2 DEF Pool
<1>3. b \in d.free => b \in Pool(d)
  BY DEF Pool
<1> QED BY <1>1, <1>2, <1>3

(* r has what d has, and in the places Q of ino blocks that are free in d. *)
Extends(d, r, ino, Q) ==
  /\ Q \subseteq Place
  /\ \A i \in Ino, k \in Place :
       /\ Has(r, i, k) <=> Has(d, i, k) \/ (i = ino /\ k \in Q)
       /\ Has(d, i, k) => Rec(r, i, k) = Rec(d, i, k)
       /\ Has(d, i, k) => ~(i = ino /\ k \in Q)
  /\ \A k, l \in Q : Rec(r, ino, k) = Rec(r, ino, l) => k = l
  /\ \A k \in Q : Rec(r, ino, k) \in d.free
  /\ r.free = d.free \ {Rec(r, ino, k) : k \in Q}

LEMMA ExtendsKeeps ==
  ASSUME NEW d, NEW r, NEW ino \in Ino, NEW Q, Extends(d, r, ino, Q), OneUse(d)
  PROVE  OneUse(r) /\ Pool(r) = Pool(d)
<1>1. OneUse(r)
  <2>1. r.free \subseteq DataBlock
    BY DEF Extends, OneUse
  <2>2. ASSUME NEW i \in Ino, NEW k \in Place, Has(r, i, k)
        PROVE  Rec(r, i, k) \in DataBlock \ r.free
    <3>1. CASE Has(d, i, k)
      BY <3>1 DEF Extends, OneUse
    <3>2. CASE i = ino /\ k \in Q
      BY <3>2 DEF Extends, OneUse
    <3> QED BY <2>2, <3>1, <3>2 DEF Extends
  <2>3. ASSUME NEW i \in Ino, NEW j \in Ino, NEW k \in Place, NEW l \in Place,
               Has(r, i, k), Has(r, j, l), Rec(r, i, k) = Rec(r, j, l)
        PROVE  i = j /\ k = l
    <3>1. CASE Has(d, i, k) /\ Has(d, j, l)
      BY <2>3, <3>1 DEF Extends, OneUse
    <3>2. CASE Has(d, i, k) /\ j = ino /\ l \in Q
      BY <2>3, <3>2 DEF Extends, OneUse
    <3>3. CASE Has(d, j, l) /\ i = ino /\ k \in Q
      BY <2>3, <3>3 DEF Extends, OneUse
    <3>4. CASE i = ino /\ k \in Q /\ j = ino /\ l \in Q
      BY <2>3, <3>4 DEF Extends
    <3> QED BY <2>3, <3>1, <3>2, <3>3, <3>4 DEF Extends
  <2> QED BY <2>1, <2>2, <2>3 DEF OneUse
<1>2. ASSUME NEW b PROVE b \in Pool(r) <=> b \in Pool(d)
  <2>1. ASSUME b \in Pool(r) PROVE b \in Pool(d)
    <3>1. CASE b \in r.free
      BY <3>1, PoolFacts DEF Extends
    <3>2. ASSUME NEW i \in Ino, NEW k \in Place, Has(r, i, k), b = Rec(r, i, k)
          PROVE  b \in Pool(d)
      BY <3>2, PoolFacts DEF Extends
    <3> QED BY <2>1, <3>1, <3>2, PoolFacts
  <2>2. ASSUME b \in Pool(d) PROVE b \in Pool(r)
    <3>1. ASSUME NEW i \in Ino, NEW k \in Place, Has(d, i, k), b = Rec(d, i, k)
          PROVE  b \in Pool(r)
      BY <3>1, PoolFacts DEF Extends
    <3>2. CASE b \in d.free
      <4>1. CASE b \in r.free
        BY <4>1, PoolFacts
      <4>2. CASE b \notin r.free
        <5>1. PICK k \in Q : b = Rec(r, ino, k)
          BY <3>2, <4>2 DEF Extends
        <5>2. k \in Place /\ Has(r, ino, k)
          BY DEF Extends
        <5> QED BY <5>1, <5>2, PoolFacts
      <4> QED BY <4>1, <4>2
    <3> QED BY <2>2, <3>1, <3>2, PoolFacts
  <2> QED BY <2>1, <2>2
<1> QED BY <1>1, <1>2

LEMMA ExtendsBack ==
  ASSUME NEW d, NEW r, NEW ino \in Ino, NEW Q, Extends(r, d, ino, Q), OneUse(d),
         r.free = d.free \cup {Rec(d, ino, k) : k \in Q}
  PROVE  OneUse(r)
<1>1. \A k \in Q : Has(d, ino, k) /\ k \in Place /\ Rec(d, ino, k) \in DataBlock
  BY DEF Extends, OneUse
<1>2. r.free \subseteq DataBlock
  BY <1>1 DEF OneUse
<1>3. ASSUME NEW i \in Ino, NEW k \in Place, Has(r, i, k)
      PROVE  Rec(r, i, k) \in DataBlock \ r.free
  <2>1. Has(d, i, k) /\ Rec(r, i, k) = Rec(d, i, k) /\ ~(i = ino /\ k \in Q)
    BY <1>3 DEF Extends
  <2>2. Rec(d, i, k) \in DataBlock /\ Rec(d, i, k) \notin d.free
    BY <2>1 DEF OneUse
  <2>3. ASSUME NEW l \in Q, Rec(d, i, k) = Rec(d, ino, l) PROVE FALSE
    BY <1>1, <2>1, <2>3 DEF OneUse
  <2> QED BY <2>1, <2>2, <2>3
<1>4. ASSUME NEW i \in Ino, NEW j \in Ino, NEW k \in Place, NEW l \in Place,
             Has(r, i, k), Has(r, j, l), Rec(r, i, k) = Rec(r, j, l)
      PROVE  i = j /\ k = l
  BY <1>4 DEF Extends, OneUse
<1> QED BY <1>2, <1>3, <1>4 DEF OneUse

LEMMA Indices ==
  /\ \A n \in Nat : n < NDIRECT => IndirIndex(n) = -1 /\ DirectIndex(n) = n
  /\ \A n \in NDIRECT .. Small-1 : IndirIndex(n) = 0 /\ DirectIndex(n) = n - NDIRECT
  /\ IndirIndex(Small) = 0 /\ DirectIndex(Small) = 0
<1>1. \A n \in Nat : n < NDIRECT => IndirIndex(n) = -1 /\ DirectIndex(n) = n
  BY DEF IndirIndex, DirectIndex
<1>2. ASSUME NEW n \in NDIRECT .. Small-1
      PROVE  IndirIndex(n) = 0 /\ DirectIndex(n) = n - NDIRECT
  <2>1. IndirIndex(n) = 0
    BY <1>2, Constants DEF IndirIndex, Small
  <2>2. CASE n < NINDIRECT
    BY <2>1, <2>2, Constants DEF DirectIndex, Small
  <2>3. CASE ~(n < NINDIRECT)
    <3>1. DirectIndex(n) = (n - NDIRECT - NINDIRECT) % NINDIRECT
      BY <2>3, Constants DEF DirectIndex
    <3>2. n - NDIRECT \in Word /\ n - NDIRECT - NINDIRECT = (-1) * NINDIRECT + (n - NDIRECT)
      BY <1>2, Constants DEF Word, Small
    <3>3. ((-1) * NINDIRECT + (n - NDIRECT)) % NINDIRECT = n - NDIRECT
      BY <3>2, WordOfBlock
    <3> QED BY <2>1, <3>1, <3>2, <3>3
  <2> QED BY <2>2, <2>3
<1>3. IndirIndex(Small) = 0 /\ DirectIndex(Small) = 0
  <2>1. Small - NDIRECT - NINDIRECT = 0 /\ ~(Small < NDIRECT) /\ ~(Small < NINDIRECT)
        /\ ~(Small < NDIRECT + NINDIRECT)
    BY Constants DEF Small
  <2>2. 0 \div NINDIRECT = 0 /\ 0 % NINDIRECT = 0
    BY Constants
  <2> QED BY <2>1, <2>2 DEF IndirIndex, DirectIndex
<1> QED BY <1>1, <1>2, <1>3

(* ino has been resized, perhaps on the way to its size.                   *)
Reshapes(d, r, ino) ==
  /\ Sound(r) /\ r.names = d.names /\ r.wild = d.wild
  /\ \A i \in Ino \ {ino} : r.inode[i] = d.inode[i]
  /\ r.inode[ino].ftype = d.inode[ino].ftype
  /\ r.inode[ino].nlink = d.inode[ino].nlink
  /\ r.inode[ino].indirect2 = d.inode[ino].indirect2
  /\ \A i \in Ino, k \in Place : Has(d, i, k) /\ Has(r, i, k) =>
       /\ Rec(r, i, k) = Rec(d, i, k)
       /\ k # -1 => r.words[Rec(d, i, k)] = d.words[Rec(d, i, k)]
  /\ Pool(r) = Pool(d)

LEMMA SoundFacts ==
  ASSUME NEW d, Sound(d), NEW i \in Ino
  PROVE  /\ d \in Disk /\ OneUse(d) /\ Tidy(d.inode[i]) /\ d.inode[i] \in Inode
         /\ NBlocks(d, i) \in Nat /\ NBlocks(d, i) <= Small
         /\ d.free \subseteq DataBlock
  BY DiskTyped DEF Sound, Tidy, NBlocks, OneUse

LEMMA PlaceFacts ==
  /\ -1 \in Place /\ \A k \in 0 .. Small-1 : k \in Place
  /\ \A k \in Place : k = -1 \/ k \in 0 .. NDIRECT-1 \/ (k \in NDIRECT .. Small-1 /\ k-NDIRECT \in Word)
  BY Constants DEF Place, Small, Word

(* The new block is recorded in the inode.                                 *)
LEMMA AddDirectKeeps ==
  ASSUME NEW d, Sound(d), NEW ino \in Ino, d.inode[ino].ftype # "SYMLINK",
         NEW n, n = NBlocks(d, ino), n < NDIRECT, NEW new \in d.free
  PROVE  Reshapes(d, AddDirect(d, ino, new, n).disk, ino)
<1> DEFINE oi == d.inode[ino]
           o1 == [oi EXCEPT !.direct[n] = new]
           e == [Taken(d, new) EXCEPT !.inode[ino].direct[n] = new]
           r == Grown(e, ino).disk
<1>0. /\ d \in Disk /\ OneUse(d) /\ oi \in Inode /\ n \in Nat /\ n \in 0 .. NDIRECT-1
      /\ new \in DataBlock /\ new \in Block /\ Tidy(oi)
  <2>1. d \in Disk /\ OneUse(d) /\ oi \in Inode /\ n \in Nat /\ Tidy(oi)
        /\ d.free \subseteq DataBlock
    BY SoundFacts
  <2>2. n \in 0 .. NDIRECT-1
    BY <2>1, Constants
  <2>3. new \in DataBlock
    BY <2>1
  <2> QED BY <2>1, <2>2, <2>3, Constants
<1>1. o1 \in Inode /\ o1.direct = [oi.direct EXCEPT ![n] = new] /\ o1.size = oi.size
      /\ o1.ftype = oi.ftype /\ o1.nlink = oi.nlink /\ o1.indirect = oi.indirect
      /\ o1.indirect2 = oi.indirect2
  BY <1>0 DEF Inode
<1>2. e \in Disk /\ e.free = d.free \ {new} /\ e.words = d.words /\ e.names = d.names
      /\ e.wild = d.wild /\ e.inode[ino] = o1 /\ \A i \in Ino \ {ino} : e.inode[i] = d.inode[i]
  <2>1. Taken(d, new) \in Disk
    BY <1>0, TakenKeeps DEF Rearranged
  <2>2. e \in Disk
    BY <1>0, <2>1, RecordKeeps DEF Rearranged
  <2> QED BY <1>0, <2>2 DEF Taken, Disk
<1>3. AddDirect(d, ino, new, n).disk = r
  BY DEF AddDirect
<1> HIDE DEF e, o1
<1>4. /\ r \in Disk /\ r.free = d.free \ {new} /\ r.words = d.words /\ r.names = d.names
      /\ r.wild = d.wild /\ \A i \in Ino \ {ino} : r.inode[i] = d.inode[i]
      /\ r.inode[ino] = [o1 EXCEPT !.size = @ + NINDIRECT]
  <2>1. Grown(e, ino) \in Result
    BY <1>2, GrownTyped
  <2>2. r \in Disk
    BY <2>1 DEF Result
  <2>3. r.inode[ino] = [e.inode[ino] EXCEPT !.size = @ + NINDIRECT]
    BY <1>2, GrownTyped
  <2>4. /\ r.free = e.free /\ r.words = e.words /\ r.names = e.names /\ r.wild = e.wild
        /\ \A i \in Ino \ {ino} : r.inode[i] = e.inode[i]
    BY <1>2, GrownTyped
  <2> QED BY <1>2, <2>2, <2>3, <2>4
<1> HIDE DEF r
<1>5. /\ r.inode[ino].size = oi.size + NINDIRECT /\ r.inode[ino].ftype = oi.ftype
      /\ r.inode[ino].nlink = oi.nlink /\ r.inode[ino].indirect = oi.indirect
      /\ r.inode[ino].indirect2 = oi.indirect2
      /\ r.inode[ino].direct = [oi.direct EXCEPT ![n] = new]
  BY <1>1, <1>4 DEF Inode
<1>6. NBlocks(r, ino) = n + 1 /\ \A i \in Ino \ {ino} : NBlocks(r, i) = NBlocks(d, i)
  <2>1. oi.size \in Int
    BY <1>0 DEF Inode, FileSize
  <2> QED BY <1>4, <1>5, <2>1, SizeSteps DEF NBlocks
<1>7. ASSUME NEW i \in Ino, NEW k \in Place
      PROVE  /\ Has(r, i, k) <=> Has(d, i, k) \/ (i = ino /\ k \in {n})
             /\ Has(d, i, k) => Rec(r, i, k) = Rec(d, i, k)
             /\ Has(d, i, k) => ~(i = ino /\ k \in {n})
  <2>1. CASE i # ino
    BY <1>4, <1>6, <2>1 DEF Has, Rec
  <2>2. CASE i = ino
    <3>1. Has(d, ino, k) <=> (k = -1 /\ n > NDIRECT) \/ (k # -1 /\ k < n)
      BY DEF Has
    <3>2. Has(r, ino, k) <=> (k = -1 /\ n+1 > NDIRECT) \/ (k # -1 /\ k < n+1)
      BY <1>5, <1>6 DEF Has
    <3>3. k \in Int /\ n \in 0 .. NDIRECT-1 /\ NDIRECT \in Nat
      BY <1>0, Constants DEF Place
    <3>4. Has(r, ino, k) <=> Has(d, ino, k) \/ k = n
      BY <3>1, <3>2, <3>3
    <3>5. Has(d, ino, k) => k # n /\ k \in 0 .. NDIRECT-1
      BY <3>1, <3>3, PlaceFacts
    <3>6. Has(d, ino, k) => Rec(r, ino, k) = Rec(d, ino, k)
      <4> SUFFICES ASSUME Has(d, ino, k) PROVE Rec(r, ino, k) = Rec(d, ino, k)
        OBVIOUS
      <4>1. k # -1 /\ k < NDIRECT /\ k # n /\ k \in 0 .. NDIRECT-1
        BY <3>3, <3>5
      <4>2. r.inode[ino].direct[k] = oi.direct[k]
        BY <1>0, <1>5, <4>1 DEF Inode
      <4> QED BY <4>1, <4>2 DEF Rec
    <3> QED BY <2>2, <3>4, <3>5, <3>6
  <2> QED BY <2>1, <2>2
<1>8. Rec(r, ino, n) = new
  <2>1. n # -1 /\ n \in 0 .. NDIRECT-1
    BY <1>0
  <2> QED BY <1>0, <1>5, <2>1 DEF Rec, Inode
<1>9. Extends(d, r, ino, {n})
  <2>1. {n} \subseteq Place
    BY <1>0, PlaceFacts, Constants DEF Small
  <2>2. {Rec(r, ino, k) : k \in {n}} = {new}
    BY <1>8
  <2> QED BY <1>4, <1>7, <1>8, <2>1, <2>2 DEF Extends
<1>10. OneUse(r) /\ Pool(r) = Pool(d)
  BY <1>0, <1>9, ExtendsKeeps
<1>11. ASSUME NEW i \in Ino PROVE Tidy(r.inode[i])
  <2>1. CASE i # ino
    BY <1>4, <2>1 DEF Sound
  <2>2. CASE i = ino
    <3>1. Size2NBlocks(r.inode[ino].size) = n + 1 /\ Size2NBlocks(oi.size) = n
      BY <1>6 DEF NBlocks
    <3>2. ASSUME NEW k \in 0 .. NDIRECT-1, k >= n + 1 PROVE r.inode[ino].direct[k] = 0
      <4>1. k # n /\ k >= n
        BY <1>0, <3>2
      <4> QED BY <1>0, <1>5, <3>1, <4>1 DEF Tidy, Inode
    <3>3. r.inode[ino].indirect = 0
      <4>1. n <= NDIRECT
        BY <1>0, Constants
      <4> QED BY <1>0, <1>5, <3>1, <4>1 DEF Tidy
    <3>4. r.inode[ino].indirect2 = 0
      BY <1>0, <1>5 DEF Tidy
    <3> QED BY <1>0, <2>2, <3>1, <3>2, <3>3, <3>4, Constants DEF Tidy, Small
  <2> QED BY <2>1, <2>2
<1>12. Sound(r)
  BY <1>4, <1>10, <1>11 DEF Sound
<1> QED BY <1>3, <1>4, <1>5, <1>7, <1>10, <1>12 DEF Reshapes

(* The new block is recorded in the indirect block ind, which may be new.  *)
Recorded(d, r, ino, new, ind) ==
  LET n == NBlocks(d, ino) IN
  /\ d.inode[ino].ftype # "SYMLINK" /\ n \in NDIRECT .. Small-1
  /\ r \in Disk /\ new \in d.free /\ ind \in Block
  /\ \/ n # NDIRECT /\ ind = d.inode[ino].indirect /\ r.free = d.free \ {new}
     \/ n = NDIRECT /\ ind \in d.free \ {new} /\ r.free = (d.free \ {new}) \ {ind}
  /\ r.words = [d.words EXCEPT ![ind][n - NDIRECT] = new]
  /\ r.names = d.names /\ r.wild = d.wild
  /\ \A i \in Ino \ {ino} : r.inode[i] = d.inode[i]
  /\ r.inode[ino].size = d.inode[ino].size + NINDIRECT
  /\ r.inode[ino].ftype = d.inode[ino].ftype
  /\ r.inode[ino].nlink = d.inode[ino].nlink
  /\ r.inode[ino].direct = d.inode[ino].direct
  /\ r.inode[ino].indirect = ind
  /\ r.inode[ino].indirect2 = d.inode[ino].indirect2

LEMMA IndirectGrows ==
  ASSUME NEW d, Sound(d), NEW ino \in Ino, NEW r, NEW new, NEW ind,
         Recorded(d, r, ino, new, ind)
  PROVE  Reshapes(d, r, ino)
<1> SUFFICES
      ASSUME NEW n, n = NBlocks(d, ino), d.inode[ino].ftype # "SYMLINK",
         n \in NDIRECT .. Small-1, new \in d.free,
         ind \in Block, r \in Disk,
         \/ n # NDIRECT /\ ind = d.inode[ino].indirect /\ r.free = d.free \ {new}
         \/ n = NDIRECT /\ ind \in d.free \ {new} /\ r.free = (d.free \ {new}) \ {ind},
         r.words = [d.words EXCEPT ![ind][n - NDIRECT] = new],
         r.names = d.names, r.wild = d.wild,
         \A i \in Ino \ {ino} : r.inode[i] = d.inode[i],
         r.inode[ino].size = d.inode[ino].size + NINDIRECT,
         r.inode[ino].ftype = d.inode[ino].ftype,
         r.inode[ino].nlink = d.inode[ino].nlink,
         r.inode[ino].direct = d.inode[ino].direct,
         r.inode[ino].indirect = ind,
         r.inode[ino].indirect2 = d.inode[ino].indirect2
      PROVE Reshapes(d, r, ino)
  BY DEF Recorded
<1> DEFINE Q == IF n = NDIRECT THEN {-1, n} ELSE {n}
<1>0. /\ d \in Disk /\ OneUse(d) /\ d.inode[ino] \in Inode /\ n \in Nat /\ n - NDIRECT \in Word
      /\ n >= NDIRECT /\ n < Small /\ NDIRECT \in Nat /\ NDIRECT >= 1 /\ Small \in Nat
      /\ n \in Place /\ -1 \in Place
  <2>1. d \in Disk /\ OneUse(d) /\ d.inode[ino] \in Inode /\ n \in Nat
    BY SoundFacts
  <2>2. n - NDIRECT \in Word /\ n >= NDIRECT /\ n < Small /\ NDIRECT \in Nat /\ NDIRECT >= 1
        /\ Small \in Nat
    BY Constants DEF Word, Small
  <2>3. n \in Place /\ -1 \in Place
    BY <2>1, <2>2, PlaceFacts
  <2> QED BY <2>1, <2>2, <2>3
<1>1. NBlocks(r, ino) = n + 1 /\ \A i \in Ino \ {ino} : NBlocks(r, i) = NBlocks(d, i)
  <2>1. d.inode[ino].size \in Int
    BY <1>0 DEF Inode, FileSize
  <2> QED BY <2>1, SizeSteps DEF NBlocks
<1>2. /\ \A k \in Place : Has(d, ino, k) <=> (k = -1 /\ n > NDIRECT) \/ (k # -1 /\ k < n)
      /\ \A k \in Place : Has(r, ino, k) <=> (k = -1 /\ n+1 > NDIRECT) \/ (k # -1 /\ k < n+1)
  BY <1>1 DEF Has
(* Nobody's data, and nobody else's indirect block, is where the number of *)
(* the new block goes.                                                     *)
<1>3. ASSUME NEW i \in Ino, NEW k \in Place, Has(d, i, k), k # -1 \/ i # ino
      PROVE  Rec(d, i, k) # ind
  <2>1. CASE ind \in d.free
    BY <1>0, <1>3, <2>1 DEF OneUse
  <2>2. CASE n # NDIRECT /\ ind = d.inode[ino].indirect
    <3>1. Has(d, ino, -1) /\ Rec(d, ino, -1) = ind
      BY <1>0, <1>2, <2>2 DEF Rec
    <3> QED BY <1>0, <1>3, <3>1 DEF OneUse
  <2> QED BY <2>1, <2>2
<1>4. \A b \in Block : b # ind => r.words[b] = d.words[b]
  BY <1>0 DEF Disk
<1>5. /\ r.words[ind][n - NDIRECT] = new
      /\ \A j \in Word : j # n - NDIRECT => r.words[ind][j] = d.words[ind][j]
  BY <1>0 DEF Disk
<1>6. ASSUME NEW i \in Ino, NEW k \in Place, Has(d, i, k)
      PROVE  Rec(r, i, k) = Rec(d, i, k)
  <2>1. CASE i # ino
    <3>1. r.inode[i] = d.inode[i]
      BY <2>1
    <3>2. CASE k = -1 \/ k \in 0 .. NDIRECT-1
      BY <1>0, <3>1, <3>2 DEF Rec
    <3>3. CASE k \in NDIRECT .. Small-1
      <4>1. Has(d, i, -1) /\ d.inode[i].indirect = Rec(d, i, -1)
        <5>1. NBlocks(d, i) \in Nat
          BY SoundFacts
        <5> QED BY <1>0, <1>6, <3>3, <5>1 DEF Has, Rec
      <4>2. d.inode[i].indirect # ind
        BY <1>0, <1>3, <2>1, <4>1
      <4>3. d.inode[i].indirect \in Block
        BY <1>0, DiskTyped
      <4> QED BY <1>4, <3>1, <4>2, <4>3 DEF Rec
    <3> QED BY <3>2, <3>3, PlaceFacts
  <2>2. CASE i = ino /\ k = -1
    BY <1>0, <1>2, <1>6, <2>2 DEF Rec
  <2>3. CASE i = ino /\ k \in 0 .. NDIRECT-1
    BY <1>0, <2>3 DEF Rec
  <2>4. CASE i = ino /\ k \in NDIRECT .. Small-1 /\ k-NDIRECT \in Word
    <3>1. k < n /\ n # NDIRECT
      BY <1>0, <1>2, <1>6, <2>4
    <3>2. ind = d.inode[ino].indirect /\ k - NDIRECT # n - NDIRECT /\ k # -1 /\ ~(k < NDIRECT)
      BY <1>0, <2>4, <3>1
    <3> QED BY <1>5, <2>4, <3>2 DEF Rec
  <2> QED BY <2>1, <2>2, <2>3, <2>4, PlaceFacts
<1>7. Rec(r, ino, n) = new /\ Rec(r, ino, -1) = ind
  BY <1>0, <1>5 DEF Rec
<1>8. Extends(d, r, ino, Q)
  <2>1. Q \subseteq Place
    BY <1>0
  <2>2. ASSUME NEW i \in Ino, NEW k \in Place
        PROVE  /\ Has(r, i, k) <=> Has(d, i, k) \/ (i = ino /\ k \in Q)
               /\ Has(d, i, k) => ~(i = ino /\ k \in Q)
    <3>1. CASE i # ino
      BY <1>1, <3>1 DEF Has
    <3>2. CASE i = ino
      <4>1. k \in Int
        BY DEF Place
      <4> QED BY <1>0, <1>2, <3>2, <4>1
    <3> QED BY <3>1, <3>2
  <2>3. \A k \in Q : Rec(r, ino, k) \in d.free
    BY <1>7
  <2>4. \A k, l \in Q : Rec(r, ino, k) = Rec(r, ino, l) => k = l
    BY <1>7
  <2>5. r.free = d.free \ {Rec(r, ino, k) : k \in Q}
    <3>1. CASE n = NDIRECT
      <4>1. {Rec(r, ino, k) : k \in Q} = {new, ind}
        BY <1>7, <3>1
      <4> QED BY <3>1, <4>1
    <3>2. CASE n # NDIRECT
      <4>1. {Rec(r, ino, k) : k \in Q} = {new}
        BY <1>7, <3>2
      <4> QED BY <3>2, <4>1
    <3> QED BY <3>1, <3>2
  <2> HIDE DEF Q
  <2> QED BY <1>6, <2>1, <2>2, <2>3, <2>4, <2>5 DEF Extends
<1>9. OneUse(r) /\ Pool(r) = Pool(d)
  <2> HIDE DEF Q
  <2> QED BY <1>0, <1>8, ExtendsKeeps
<1>10. ASSUME NEW i \in Ino PROVE Tidy(r.inode[i])
  <2>1. CASE i # ino
    BY <2>1 DEF Sound
  <2>2. CASE i = ino
    <3>1. Tidy(d.inode[ino])
      BY DEF Sound
    <3> QED BY <1>0, <1>1, <2>2, <3>1 DEF Tidy, NBlocks
  <2> QED BY <2>1, <2>2
<1>11. Sound(r)
  BY <1>9, <1>10 DEF Sound
<1>12. ASSUME NEW i \in Ino, NEW k \in Place, Has(d, i, k), k # -1
       PROVE  r.words[Rec(d, i, k)] = d.words[Rec(d, i, k)]
  <2>1. Rec(d, i, k) \in Block
    BY <1>0, <1>12, Constants DEF OneUse
  <2> QED BY <1>3, <1>4, <1>12, <2>1
<1> QED BY <1>6, <1>9, <1>11, <1>12 DEF Reshapes

LEMMA ReshapesItself ==
  ASSUME NEW d, Sound(d), NEW ino \in Ino PROVE Reshapes(d, d, ino)
  BY DEF Reshapes

LEMMA GivenBack ==
  ASSUME NEW d, Sound(d), NEW b \in d.free PROVE FreeBlock(Taken(d, b), b) = d
<1>1. b \in DataBlock /\ d \in Disk
  BY SoundFacts, Constants
<1>2. {b} \cap FREEMAP_BLK+1 .. NBLOCKS-1 = {b}
  BY <1>1, Constants DEF DataBlock, FREEMAP_BLK
<1> QED BY <1>1, <1>2 DEF FreeBlock, Taken, Disk

LEMMA AddIndirectKeeps ==
  ASSUME NEW d, Sound(d), NEW ino \in Ino, d.inode[ino].ftype # "SYMLINK",
         NEW n, n = NBlocks(d, ino), n \in NDIRECT .. Small-1, NEW new \in d.free,
         NEW a, a = AddIndirect(d, ino, new, n - NDIRECT)
  PROVE  Reshapes(d, a.disk, ino) /\ (a.ret # "ok" => a.disk = d)
<1> DEFINE oi == d.inode[ino]
           d1 == Taken(d, new)
           index == n - NDIRECT
<1>0. d \in Disk /\ oi \in Inode /\ NDIRECT \in Nat /\ n \in Nat /\ new \in Block /\ new \in Value
      /\ d.free \subseteq DataBlock /\ 0 \notin DataBlock /\ d.free \subseteq Block
  <2>1. d \in Disk /\ oi \in Inode /\ d.free \subseteq DataBlock /\ n \in Nat
    BY SoundFacts
  <2>2. new \in Block /\ d.free \subseteq Block
    BY <2>1, Constants
  <2> QED BY <2>1, <2>2, Constants DEF Value
<1>1. d1 \in Disk /\ d1.free = d.free \ {new} /\ d1.inode = d.inode /\ d1.words = d.words
      /\ d1.names = d.names /\ d1.wild = d.wild
  BY <1>0 DEF Taken, Disk
<1> HIDE DEF d1
<1>2. CASE n # NDIRECT
  <2> DEFINE e == PutWord(d1, oi.indirect, index, new)
             r == Grown(e, ino).disk
  <2>1. a = Grown(e, ino)
    BY <1>0, <1>2 DEF AddIndirect, d1
  <2>2. e \in Disk /\ e.free = d1.free /\ e.inode = d1.inode /\ e.names = d1.names
        /\ e.wild = d1.wild /\ e.words = [d1.words EXCEPT ![oi.indirect][index] = new]
    <3>1. Rearranged(d1, e, ino)
      BY <1>0, <1>1, PutWordKeeps
    <3> QED BY <1>1, <3>1 DEF Rearranged, PutWord, Disk
  <2> HIDE DEF e
  <2>3. /\ r \in Disk /\ r.free = e.free /\ r.words = e.words /\ r.names = e.names
        /\ r.wild = e.wild /\ \A i \in Ino \ {ino} : r.inode[i] = e.inode[i]
        /\ r.inode[ino] = [e.inode[ino] EXCEPT !.size = @ + NINDIRECT]
        /\ Grown(e, ino).ret = "ok"
    <3>1. Grown(e, ino) \in Result
      BY <2>2, GrownTyped
    <3>2. r \in Disk
      BY <3>1 DEF Result
    <3>3. /\ r.free = e.free /\ r.words = e.words /\ r.names = e.names
          /\ r.wild = e.wild /\ \A i \in Ino \ {ino} : r.inode[i] = e.inode[i]
          /\ Grown(e, ino).ret = "ok"
      BY <2>2, GrownTyped
    <3>4. r.inode[ino] = [e.inode[ino] EXCEPT !.size = @ + NINDIRECT]
      BY <2>2, GrownTyped
    <3> QED BY <3>2, <3>3, <3>4
  <2> HIDE DEF r
  <2>4. /\ r.inode[ino].size = oi.size + NINDIRECT /\ r.inode[ino].ftype = oi.ftype
        /\ r.inode[ino].nlink = oi.nlink /\ r.inode[ino].indirect = oi.indirect
        /\ r.inode[ino].indirect2 = oi.indirect2 /\ r.inode[ino].direct = oi.direct
    BY <1>0, <1>1, <2>2, <2>3 DEF Inode
  <2>5. r.free = d.free \ {new} /\ r.words = [d.words EXCEPT ![oi.indirect][n - NDIRECT] = new]
        /\ r.names = d.names /\ r.wild = d.wild
        /\ \A i \in Ino \ {ino} : r.inode[i] = d.inode[i]
    BY <1>1, <2>2, <2>3
  <2>6. Recorded(d, r, ino, new, oi.indirect)
    BY <1>0, <1>2, <2>3, <2>4, <2>5 DEF Recorded, Inode
  <2>7. Reshapes(d, r, ino)
    BY <2>6, IndirectGrows
  <2> QED BY <2>1, <2>3, <2>7 DEF r
<1>3. CASE n = NDIRECT
  <2> DEFINE ind == Allocatable(d1)
             d2 == [Taken(d1, ind) EXCEPT !.inode[ino].indirect = ind]
             e == PutWord(d2, ind, index, new)
             r == Grown(e, ino).disk
  <2>0. index = 0
    BY <1>0, <1>3
  <2>1. ind \in Block /\ (ind # 0 => ind \in d1.free)
    BY <1>1, AllocatableFacts
  <2>2. CASE ind = 0
    <3>1. a = Returns("EIO", FreeBlock(d1, new))
      BY <2>0, <2>2 DEF AddIndirect, d1
    <3>2. FreeBlock(d1, new) = d
      BY GivenBack DEF d1
    <3>3. a.disk = d
      BY <3>1, <3>2 DEF Returns
    <3> QED BY <3>3, ReshapesItself
  <2>3. CASE ind # 0
    <3>1. a = Grown(e, ino)
      BY <2>0, <2>3 DEF AddIndirect, d1
    <3>2. /\ Taken(d1, ind) \in Disk /\ Taken(d1, ind).free = d1.free \ {ind}
          /\ Taken(d1, ind).words = d.words /\ Taken(d1, ind).inode = d.inode
          /\ Taken(d1, ind).names = d.names /\ Taken(d1, ind).wild = d.wild
      BY <1>1 DEF Taken, Disk
    <3> DEFINE o2 == [oi EXCEPT !.indirect = ind]
    <3>3. /\ o2 \in Inode /\ o2.size = oi.size /\ o2.ftype = oi.ftype /\ o2.nlink = oi.nlink
          /\ o2.direct = oi.direct /\ o2.indirect2 = oi.indirect2 /\ o2.indirect = ind
      BY <1>0, <2>1 DEF Inode
    <3> HIDE DEF ind
    <3>4. d2 \in Disk /\ d2.free = d1.free \ {ind} /\ d2.words = d.words /\ d2.names = d.names
          /\ d2.wild = d.wild /\ d2.inode[ino] = o2
          /\ \A i \in Ino \ {ino} : d2.inode[i] = d.inode[i]
      <4>1. d2 \in Disk
        BY <2>1, <3>2, RecordKeeps DEF Rearranged
      <4> QED BY <1>0, <3>2, <4>1 DEF Disk
    <3> HIDE DEF d2, o2
    <3>5. e \in Disk /\ e.free = d2.free /\ e.inode = d2.inode /\ e.names = d2.names
          /\ e.wild = d2.wild /\ e.words = [d2.words EXCEPT ![ind][index] = new]
      <4>1. Rearranged(d2, e, ino)
        BY <1>0, <3>4, PutWordKeeps
      <4> QED BY <3>4, <4>1 DEF Rearranged, PutWord, Disk
    <3> HIDE DEF e
    <3>6. /\ r \in Disk /\ r.free = e.free /\ r.words = e.words /\ r.names = e.names
          /\ r.wild = e.wild /\ \A i \in Ino \ {ino} : r.inode[i] = e.inode[i]
          /\ r.inode[ino] = [e.inode[ino] EXCEPT !.size = @ + NINDIRECT]
          /\ Grown(e, ino).ret = "ok"
      <4>1. Grown(e, ino) \in Result
        BY <3>5, GrownTyped
      <4>2. r \in Disk
        BY <4>1 DEF Result
      <4>3. /\ r.free = e.free /\ r.words = e.words /\ r.names = e.names
            /\ r.wild = e.wild /\ \A i \in Ino \ {ino} : r.inode[i] = e.inode[i]
            /\ Grown(e, ino).ret = "ok"
        BY <3>5, GrownTyped
      <4>4. r.inode[ino] = [e.inode[ino] EXCEPT !.size = @ + NINDIRECT]
        BY <3>5, GrownTyped
      <4> QED BY <4>2, <4>3, <4>4
    <3> HIDE DEF r
    <3>7. /\ r.inode[ino].size = oi.size + NINDIRECT /\ r.inode[ino].ftype = oi.ftype
          /\ r.inode[ino].nlink = oi.nlink /\ r.inode[ino].indirect = ind
          /\ r.inode[ino].indirect2 = oi.indirect2 /\ r.inode[ino].direct = oi.direct
      BY <3>3, <3>4, <3>5, <3>6 DEF Inode
    <3>8. r.free = (d.free \ {new}) \ {ind} /\ r.words = [d.words EXCEPT ![ind][n - NDIRECT] = new]
          /\ r.names = d.names /\ r.wild = d.wild
          /\ \A i \in Ino \ {ino} : r.inode[i] = d.inode[i]
      BY <1>1, <3>4, <3>5, <3>6
    <3>9. ind \in d.free \ {new}
      BY <1>1, <2>1, <2>3
    <3>10. Reshapes(d, r, ino)
      <4>1. Recorded(d, r, ino, new, ind)
        BY <1>3, <2>1, <3>6, <3>7, <3>8, <3>9 DEF Recorded
      <4> QED BY <4>1, IndirectGrows
    <3> QED BY <3>1, <3>6, <3>10 DEF r
  <2> QED BY <2>2, <2>3
<1> QED BY <1>2, <1>3

LEMMA AddKeeps ==
  ASSUME NEW d, Sound(d), NEW ino \in Ino, d.inode[ino].ftype # "SYMLINK",
         NEW a, a = AddBlock(d, ino), NBlocks(a.disk, ino) <= Small
  PROVE  Reshapes(d, a.disk, ino) /\ (a.ret # "ok" => a.disk = d)
<1> DEFINE n == NBlocks(d, ino)
           new == Allocatable(d)
<1>1. d \in Disk /\ n \in Nat /\ n <= Small /\ NDIRECT \in Nat /\ Small \in Nat
  BY SoundFacts, Constants
<1>2. CASE a.disk = d
  BY <1>2, ReshapesItself
<1>3. CASE a.disk # d
  <2>1. ~(n >= MAXFILEBLKS \/ new = 0)
    BY <1>3 DEF AddBlock, Returns, NBlocks
  <2>2. new \in d.free
    BY <1>1, <2>1, AllocatableFacts
  <2>3. CASE n < NDIRECT
    <3>1. IndirIndex(n) = -1 /\ DirectIndex(n) = n
      BY <1>1, <2>3, Indices
    <3>2. a = AddDirect(d, ino, new, n)
      BY <2>1, <3>1 DEF AddBlock, NBlocks
    <3>3. a.ret = "ok"
      <4>1. a = Grown([Taken(d, new) EXCEPT !.inode[ino].direct[n] = new], ino)
        BY <3>2 DEF AddDirect
      <4> QED BY <4>1 DEF Grown, Returns
    <3> HIDE DEF n, new
    <3>4. n = NBlocks(d, ino)
      BY DEF n
    <3>5. Reshapes(d, AddDirect(d, ino, new, n).disk, ino)
      BY <2>2, <2>3, <3>4, AddDirectKeeps
    <3> QED BY <3>2, <3>3, <3>5
  <2>4. CASE n \in NDIRECT .. Small-1
    <3>1. IndirIndex(n) = 0 /\ DirectIndex(n) = n - NDIRECT
      BY <2>4, Indices
    <3>2. a = AddIndirect(d, ino, new, n - NDIRECT)
      BY <2>1, <3>1 DEF AddBlock, NBlocks
    <3>3. n = NBlocks(d, ino)
      OBVIOUS
    <3> HIDE DEF n, new
    <3> QED BY <2>2, <2>4, <3>2, <3>3, AddIndirectKeeps
  <2>5. CASE n = Small
    <3>1. IndirIndex(n) = 0 /\ DirectIndex(n) = 0
      BY <2>5, Indices
    <3>2. a = AddIndirect(d, ino, new, 0)
      BY <2>1, <3>1 DEF AddBlock, NBlocks
    <3>3. a.ret # "ok"
      <4> SUFFICES ASSUME a.ret = "ok" PROVE FALSE
        OBVIOUS
      <4>1. Adds(d, a, ino)
        BY <1>1, AddTyped
      <4>2. a.disk.inode[ino].size = d.inode[ino].size + NINDIRECT /\ d.inode[ino].size \in Int
        BY <1>1, <4>1, DiskTyped DEF Adds, FileSize
      <4>3. NBlocks(a.disk, ino) = n + 1
        BY <4>2, SizeSteps DEF NBlocks
      <4> QED BY <1>1, <2>5, <4>3
    <3>4. a = Returns("EIO", FreeBlock(Taken(d, new), new)) \/ a.ret = "ok"
      <4>1. \A e : Grown(e, ino).ret = "ok"
        BY DEF Grown, Returns
      <4>2. a = Returns("EIO", FreeBlock(Taken(d, new), new)) \/ \E e : a = Grown(e, ino)
        <5> HIDE DEF new
        <5> QED BY <3>2 DEF AddIndirect
      <4> QED BY <4>1, <4>2
    <3>5. a.disk = d
      <4> HIDE DEF new
      <4>1. FreeBlock(Taken(d, new), new) = d
        BY <2>2, GivenBack
      <4> QED BY <3>3, <3>4, <4>1 DEF Returns
    <3> QED BY <1>3, <3>5
  <2> QED BY <1>1, <2>3, <2>4, <2>5
<1> QED BY <1>2, <1>3

(* The last block of ino has been given back, with the indirect block that *)
(* recorded only that one.                                                 *)
LastPlaces(n) == IF n - 1 = NDIRECT THEN {-1, n - 1} ELSE {n - 1}

Unrecorded(d, r, ino) ==
  LET n == NBlocks(d, ino) IN
  /\ d.inode[ino].ftype # "SYMLINK" /\ n > 0 /\ r \in Disk
  /\ r.free = d.free \cup {Rec(d, ino, k) : k \in LastPlaces(n)}
  /\ r.names = d.names /\ r.wild = d.wild
  /\ \A i \in Ino \ {ino} : r.inode[i] = d.inode[i]
  /\ r.inode[ino].size = d.inode[ino].size - NINDIRECT
  /\ r.inode[ino].ftype = d.inode[ino].ftype
  /\ r.inode[ino].nlink = d.inode[ino].nlink
  /\ r.inode[ino].indirect2 = d.inode[ino].indirect2
  /\ Tidy(r.inode[ino])
  /\ \A i \in Ino, k \in Place : Has(d, i, k) /\ ~(i = ino /\ k \in LastPlaces(n)) =>
       /\ Rec(r, i, k) = Rec(d, i, k)
       /\ k # -1 => r.words[Rec(d, i, k)] = d.words[Rec(d, i, k)]

LEMMA UnrecordedKeeps ==
  ASSUME NEW d, Sound(d), NEW ino \in Ino, NEW r, Unrecorded(d, r, ino)
  PROVE  Reshapes(d, r, ino) /\ NBlocks(r, ino) = NBlocks(d, ino) - 1
<1> DEFINE n == NBlocks(d, ino)
           Q == LastPlaces(n)
<1>0. /\ d \in Disk /\ OneUse(d) /\ n \in Nat /\ n <= Small /\ n > 0 /\ n-1 \in Nat
      /\ NDIRECT \in Nat /\ NDIRECT >= 1 /\ Small \in Nat
      /\ n-1 \in Place /\ -1 \in Place
  <2>1. d \in Disk /\ OneUse(d) /\ n \in Nat /\ n <= Small
    BY SoundFacts
  <2>2. n > 0 /\ NDIRECT \in Nat /\ NDIRECT >= 1 /\ Small \in Nat
    BY Constants DEF Unrecorded
  <2> HIDE DEF n
  <2>3. n-1 \in Place /\ -1 \in Place /\ n-1 \in Nat
    BY <2>1, <2>2, PlaceFacts
  <2> QED BY <2>1, <2>2, <2>3
<1>1. NBlocks(r, ino) = n - 1 /\ \A i \in Ino \ {ino} : NBlocks(r, i) = NBlocks(d, i)
  <2>1. d.inode[ino].size \in Int
    BY <1>0, DiskTyped DEF FileSize
  <2> QED BY <2>1, SizeSteps DEF NBlocks, Unrecorded
<1>2. ASSUME NEW i \in Ino, NEW k \in Place
      PROVE  /\ Has(d, i, k) <=> Has(r, i, k) \/ (i = ino /\ k \in Q)
             /\ Has(r, i, k) => ~(i = ino /\ k \in Q)
  <2>1. CASE i # ino
    BY <1>1, <2>1 DEF Has, Unrecorded
  <2>2. CASE i = ino
    <3>1. /\ Has(d, ino, k) <=> (k = -1 /\ n > NDIRECT) \/ (k # -1 /\ k < n)
          /\ Has(r, ino, k) <=> (k = -1 /\ n-1 > NDIRECT) \/ (k # -1 /\ k < n-1)
      BY <1>1 DEF Has, Unrecorded
    <3>2. k \in Int /\ (k \in Q <=> k = n-1 \/ (k = -1 /\ n-1 = NDIRECT))
      BY DEF Place, LastPlaces
    <3> HIDE DEF Q, n
    <3> QED BY <1>0, <2>2, <3>1, <3>2
  <2> QED BY <2>1, <2>2
<1>3. Q \subseteq Place /\ \A k \in Q : Has(d, ino, k)
  <2>1. Q \subseteq Place
    BY <1>0 DEF LastPlaces
  <2> QED BY <1>2, <2>1
<1> HIDE DEF n
<1>4. Extends(r, d, ino, Q)
  <2>1. ASSUME NEW i \in Ino, NEW k \in Place, Has(r, i, k)
        PROVE  Rec(d, i, k) = Rec(r, i, k)
    BY <1>2, <2>1 DEF Unrecorded, n
  <2>2. \A k, l \in Q : Rec(d, ino, k) = Rec(d, ino, l) => k = l
    BY <1>0, <1>3 DEF OneUse
  <2>3. r.free = d.free \cup {Rec(d, ino, k) : k \in Q}
    BY DEF Unrecorded, n
  <2>4. \A k \in Q : Rec(d, ino, k) \notin d.free
    BY <1>0, <1>3 DEF OneUse
  <2> HIDE DEF Q
  <2>5. \A k \in Q : Rec(d, ino, k) \in r.free
    BY <2>3
  <2>6. d.free = r.free \ {Rec(d, ino, k) : k \in Q}
    BY <2>3, <2>4
  <2> QED BY <1>2, <1>3, <2>1, <2>2, <2>5, <2>6 DEF Extends
<1>5. OneUse(r)
  <2>1. r.free = d.free \cup {Rec(d, ino, k) : k \in Q}
    BY DEF Unrecorded, n
  <2> HIDE DEF Q
  <2> QED BY <1>0, <1>4, <2>1, ExtendsBack
<1>6. Pool(r) = Pool(d)
  <2> HIDE DEF Q
  <2> QED BY <1>4, <1>5, ExtendsKeeps
<1>7. Sound(r)
  <2>1. ASSUME NEW i \in Ino PROVE Tidy(r.inode[i])
    BY DEF Sound, Unrecorded
  <2> QED BY <1>5, <2>1 DEF Sound, Unrecorded
<1>8. ASSUME NEW i \in Ino, NEW k \in Place, Has(d, i, k), Has(r, i, k)
      PROVE  /\ Rec(r, i, k) = Rec(d, i, k)
             /\ k # -1 => r.words[Rec(d, i, k)] = d.words[Rec(d, i, k)]
  BY <1>2, <1>8 DEF Unrecorded, n
<1> QED BY <1>1, <1>6, <1>7, <1>8 DEF Reshapes, Unrecorded, n

Smaller(d, ino) == [d EXCEPT !.inode[ino].size = @ - NINDIRECT]

LEMMA SmallerFacts ==
  ASSUME NEW d \in Disk, NEW ino \in Ino, NBlocks(d, ino) > 0
  PROVE  LET r == Smaller(d, ino) IN
         /\ r \in Disk /\ r.free = d.free /\ r.words = d.words /\ r.names = d.names
         /\ r.wild = d.wild /\ \A i \in Ino \ {ino} : r.inode[i] = d.inode[i]
         /\ r.inode[ino].size = d.inode[ino].size - NINDIRECT
         /\ r.inode[ino].ftype = d.inode[ino].ftype
         /\ r.inode[ino].nlink = d.inode[ino].nlink
         /\ r.inode[ino].direct = d.inode[ino].direct
         /\ r.inode[ino].indirect = d.inode[ino].indirect
         /\ r.inode[ino].indirect2 = d.inode[ino].indirect2
<1> DEFINE oi == d.inode[ino]
           o == [oi EXCEPT !.size = @ - NINDIRECT]
<1>1. oi \in Inode /\ oi.size - NINDIRECT \in FileSize
  BY DiskTyped, SizeSteps DEF NBlocks
<1>2. /\ o \in Inode /\ o.size = oi.size - NINDIRECT /\ o.ftype = oi.ftype /\ o.nlink = oi.nlink
      /\ o.direct = oi.direct /\ o.indirect = oi.indirect /\ o.indirect2 = oi.indirect2
  BY <1>1 DEF Inode
<1>3. Smaller(d, ino) = SetInode(d, ino, o)
  BY DEF Smaller, SetInode
<1> HIDE DEF o
<1> QED BY <1>2, <1>3, InodeSet

LEMMA RemoveDirectKeeps ==
  ASSUME NEW d, Sound(d), NEW ino \in Ino, d.inode[ino].ftype # "SYMLINK",
         NEW m, m = NBlocks(d, ino) - 1, m \in 0 .. NDIRECT-1, NEW r,
         r = Smaller(RemoveDirect(d, ino, m), ino)
  PROVE  Unrecorded(d, r, ino)
<1> DEFINE oi == d.inode[ino]
           b == oi.direct[m]
           e == FreeBlock(d, b)
           o1 == [oi EXCEPT !.direct[m] = 0]
           f == [e EXCEPT !.inode[ino].direct[m] = 0]
<1>0. /\ d \in Disk /\ OneUse(d) /\ oi \in Inode /\ m \in Nat /\ NDIRECT \in Nat /\ NDIRECT >= 1
      /\ Tidy(oi) /\ oi.size \in FileSize /\ m \in Place /\ m # -1 /\ m < NDIRECT
      /\ NBlocks(d, ino) = m + 1 /\ NBlocks(d, ino) > 0
  <2>1. d \in Disk /\ OneUse(d) /\ oi \in Inode /\ Tidy(oi) /\ oi.size \in FileSize
        /\ NBlocks(d, ino) \in Nat
    BY SoundFacts, DiskTyped
  <2>2. m \in Place
    BY PlaceFacts, Constants DEF Small
  <2> QED BY <2>1, <2>2, Constants
<1>1. Has(d, ino, m) /\ Rec(d, ino, m) = b
  BY <1>0 DEF Has, Rec
<1>2. b \in DataBlock
  BY <1>0, <1>1 DEF OneUse
<1>3. LastPlaces(NBlocks(d, ino)) = {m}
  BY <1>0 DEF LastPlaces
<1>4. e \in Disk /\ e.free = d.free \cup {b} /\ e.words = d.words /\ e.names = d.names
      /\ e.wild = d.wild /\ e.inode = d.inode
  <2>1. {b} \cap FREEMAP_BLK+1 .. NBLOCKS-1 = {b}
    BY <1>2, Constants DEF DataBlock, FREEMAP_BLK
  <2>2. e \in Disk
    BY <1>0, FreeKeeps DEF Rearranged
  <2> HIDE DEF b
  <2> QED BY <1>0, <2>1, <2>2 DEF FreeBlock, Disk
<1> HIDE DEF b, e
<1>5. o1 \in Inode /\ o1.direct = [oi.direct EXCEPT ![m] = 0] /\ o1.size = oi.size
      /\ o1.ftype = oi.ftype /\ o1.nlink = oi.nlink /\ o1.indirect = oi.indirect
      /\ o1.indirect2 = oi.indirect2
  BY <1>0, Constants DEF Inode
<1>6. f \in Disk /\ f.free = e.free /\ f.words = e.words /\ f.names = e.names
      /\ f.wild = e.wild /\ f.inode[ino] = o1 /\ \A i \in Ino \ {ino} : f.inode[i] = d.inode[i]
  <2>1. f \in Disk
    BY <1>4, Constants, RecordKeeps DEF Rearranged
  <2> QED BY <1>4, <2>1 DEF Disk
<1>7. r = Smaller(f, ino)
  BY DEF RemoveDirect, f, e, b
<1> HIDE DEF f, o1
<1>8. /\ r \in Disk /\ r.free = f.free /\ r.words = f.words /\ r.names = f.names
      /\ r.wild = f.wild /\ \A i \in Ino \ {ino} : r.inode[i] = f.inode[i]
  <2>1. NBlocks(f, ino) > 0
    BY <1>0, <1>5, <1>6 DEF NBlocks
  <2> QED BY <1>6, <1>7, <2>1, SmallerFacts
<1>9. /\ r.inode[ino].size = oi.size - NINDIRECT /\ r.inode[ino].ftype = oi.ftype
      /\ r.inode[ino].nlink = oi.nlink /\ r.inode[ino].indirect = oi.indirect
      /\ r.inode[ino].indirect2 = oi.indirect2
      /\ r.inode[ino].direct = [oi.direct EXCEPT ![m] = 0]
  <2>1. NBlocks(f, ino) > 0
    BY <1>0, <1>5, <1>6 DEF NBlocks
  <2> QED BY <1>5, <1>6, <1>7, <2>1, SmallerFacts
<1>10. Tidy(r.inode[ino])
  <2>1. Size2NBlocks(oi.size - NINDIRECT) = m
    BY <1>0, SizeSteps DEF NBlocks, FileSize
  <2>2. ASSUME NEW k \in 0 .. NDIRECT-1, k >= m PROVE r.inode[ino].direct[k] = 0
    <3>1. CASE k = m
      BY <1>0, <1>9, <3>1 DEF Inode
    <3>2. CASE k # m
      <4>1. k >= NBlocks(d, ino)
        BY <1>0, <2>2, <3>2
      <4>2. oi.direct[k] = 0
        BY <1>0, <4>1 DEF Tidy, NBlocks
      <4> QED BY <1>0, <1>9, <3>2, <4>2 DEF Inode
    <3> QED BY <3>1, <3>2
  <2>3. oi.indirect = 0
    BY <1>0 DEF Tidy, NBlocks
  <2> QED BY <1>0, <1>9, <2>1, <2>2, <2>3, Constants DEF Tidy, Small
<1>11. ASSUME NEW i \in Ino, NEW k \in Place, Has(d, i, k), ~(i = ino /\ k \in {m})
       PROVE  Rec(r, i, k) = Rec(d, i, k)
  <2>1. CASE i # ino
    BY <1>4, <1>6, <1>8, <2>1 DEF Rec
  <2>2. CASE i = ino
    <3>1. k # m /\ (k = -1 \/ k < m + 1)
      BY <1>0, <1>11, <2>2 DEF Has
    <3>2. k = -1 \/ (k \in 0 .. NDIRECT-1 /\ k # m)
      BY <1>0, <3>1, PlaceFacts
    <3>3. k \in 0 .. NDIRECT-1 /\ k # m => r.inode[ino].direct[k] = oi.direct[k]
      BY <1>0, <1>9 DEF Inode
    <3> QED BY <1>0, <1>9, <2>2, <3>2, <3>3 DEF Rec
  <2> QED BY <2>1, <2>2
<1>12. {Rec(d, ino, k) : k \in {m}} = {b}
  BY <1>1
<1> QED BY <1>0, <1>3, <1>4, <1>6, <1>8, <1>9, <1>10, <1>11, <1>12 DEF Unrecorded

LEMMA Given ==
  ASSUME NEW d \in Disk, NEW b \in DataBlock
  PROVE  LET r == FreeBlock(d, b) IN
         /\ r \in Disk /\ r.free = d.free \cup {b} /\ r.words = d.words /\ r.names = d.names
         /\ r.wild = d.wild /\ r.inode = d.inode
<1>1. {b} \cap FREEMAP_BLK+1 .. NBLOCKS-1 = {b}
  BY Constants DEF DataBlock, FREEMAP_BLK
<1>2. FreeBlock(d, b) \in Disk
  BY FreeKeeps, Constants DEF Rearranged
<1> QED BY <1>1, <1>2 DEF FreeBlock, Disk

LEMMA RemoveIndirectKeeps ==
  ASSUME NEW d, Sound(d), NEW ino \in Ino, d.inode[ino].ftype # "SYMLINK",
         NEW m, m = NBlocks(d, ino) - 1, m \in NDIRECT .. Small-1, NEW r,
         r = Smaller(RemoveIndirect(d, ino, m - NDIRECT), ino)
  PROVE  Unrecorded(d, r, ino)
<1> DEFINE oi == d.inode[ino]
           index == m - NDIRECT
           ind == oi.indirect
           b == d.words[ind][index]
           d1 == FreeBlock(d, b)
           d2 == PutWord(d1, ind, index, 0)
           d3 == FreeBlock(d2, ind)
           e == IF index # 0 THEN d2 ELSE [d3 EXCEPT !.inode[ino].indirect = 0]
<1>0. /\ d \in Disk /\ OneUse(d) /\ oi \in Inode /\ m \in Nat /\ NDIRECT \in Nat /\ NDIRECT >= 1
      /\ Tidy(oi) /\ oi.size \in FileSize /\ m \in Place /\ -1 \in Place /\ m >= NDIRECT /\ m < Small
      /\ Small \in Nat /\ index \in Word /\ NBlocks(d, ino) = m + 1 /\ NBlocks(d, ino) > 0
      /\ Block \subseteq Nat /\ DataBlock \subseteq Block /\ 0 \in Value /\ 0 \in Block
  <2>1. d \in Disk /\ OneUse(d) /\ oi \in Inode /\ Tidy(oi) /\ oi.size \in FileSize
        /\ NBlocks(d, ino) \in Nat
    BY SoundFacts, DiskTyped
  <2>2. m \in Place /\ -1 \in Place /\ index \in Word
    BY PlaceFacts, Constants DEF Small, Word
  <2>3. 0 \in Value
    BY DEF Value
  <2> QED BY <2>1, <2>2, <2>3, Constants
<1>1. Has(d, ino, m) /\ Rec(d, ino, m) = b /\ Has(d, ino, -1) /\ Rec(d, ino, -1) = ind
  BY <1>0 DEF Has, Rec
<1>2. b \in DataBlock /\ ind \in DataBlock /\ b # ind
  <2>1. b \in DataBlock /\ ind \in DataBlock
    BY <1>0, <1>1 DEF OneUse
  <2>2. m # -1
    BY <1>0
  <2> HIDE DEF b, ind
  <2> QED BY <1>0, <1>1, <2>1, <2>2 DEF OneUse
<1> DEFINE Q == IF index = 0 THEN {-1, m} ELSE {m}
<1>3. LastPlaces(NBlocks(d, ino)) = Q
  BY <1>0 DEF LastPlaces
<1> HIDE DEF b, ind
<1>4. d1 \in Disk /\ d1.free = d.free \cup {b} /\ d1.words = d.words /\ d1.names = d.names
      /\ d1.wild = d.wild /\ d1.inode = d.inode
  BY <1>0, <1>2, Given
<1> HIDE DEF d1
<1>5. d2 \in Disk /\ d2.free = d.free \cup {b} /\ d2.inode = d.inode /\ d2.names = d.names
      /\ d2.wild = d.wild /\ d2.words = [d.words EXCEPT ![ind][index] = 0]
  <2>1. Rearranged(d1, d2, ino)
    BY <1>0, <1>4, PutWordKeeps
  <2> QED BY <1>4, <2>1 DEF Rearranged, PutWord, Disk
<1> HIDE DEF d2
<1>6. d3 \in Disk /\ d3.free = d.free \cup {b, ind} /\ d3.inode = d.inode /\ d3.names = d.names
      /\ d3.wild = d.wild /\ d3.words = [d.words EXCEPT ![ind][index] = 0]
  <2>1. d3 \in Disk /\ d3.free = d2.free \cup {ind} /\ d3.words = d2.words /\ d3.names = d2.names
        /\ d3.wild = d2.wild /\ d3.inode = d2.inode
    BY <1>2, <1>5, Given
  <2> QED BY <1>5, <2>1
<1> HIDE DEF d3
<1>7. /\ e \in Disk /\ e.free = d.free \cup {Rec(d, ino, k) : k \in Q}
      /\ e.names = d.names /\ e.wild = d.wild
      /\ e.words = [d.words EXCEPT ![ind][index] = 0]
      /\ \A i \in Ino \ {ino} : e.inode[i] = d.inode[i]
      /\ e.inode[ino].size = oi.size /\ e.inode[ino].ftype = oi.ftype
      /\ e.inode[ino].nlink = oi.nlink /\ e.inode[ino].direct = oi.direct
      /\ e.inode[ino].indirect = (IF index = 0 THEN 0 ELSE ind)
      /\ e.inode[ino].indirect2 = oi.indirect2
  <2>1. CASE index # 0
    <3>1. {Rec(d, ino, k) : k \in Q} = {b}
      BY <1>1, <2>1
    <3> QED BY <1>5, <2>1, <3>1 DEF ind
  <2>2. CASE index = 0
    <3>1. {Rec(d, ino, k) : k \in Q} = {b, ind}
      BY <1>1, <2>2
    <3> DEFINE o == [oi EXCEPT !.indirect = 0]
    <3>2. /\ o \in Inode /\ o.size = oi.size /\ o.ftype = oi.ftype /\ o.nlink = oi.nlink
          /\ o.direct = oi.direct /\ o.indirect = 0 /\ o.indirect2 = oi.indirect2
      BY <1>0 DEF Inode
    <3>3. e = SetInode(d3, ino, o)
      BY <1>6, <2>2 DEF SetInode, Disk
    <3> HIDE DEF o, e
    <3>4. /\ e \in Disk /\ e.free = d3.free /\ e.words = d3.words /\ e.names = d3.names
          /\ e.wild = d3.wild /\ e.inode[ino] = o
          /\ \A i \in Ino \ {ino} : e.inode[i] = d3.inode[i]
      BY <1>6, <3>2, <3>3, InodeSet
    <3> QED BY <1>6, <2>2, <3>1, <3>2, <3>4
  <2> QED BY <2>1, <2>2
<1>8. r = Smaller(e, ino)
  BY DEF RemoveIndirect, GetWord, e, d3, d2, d1, b, ind
<1> HIDE DEF e, Q
<1>9. NBlocks(e, ino) > 0
  BY <1>0, <1>7 DEF NBlocks
<1>10. /\ r \in Disk /\ r.free = e.free /\ r.words = e.words /\ r.names = e.names
       /\ r.wild = e.wild /\ \A i \in Ino \ {ino} : r.inode[i] = d.inode[i]
  BY <1>7, <1>8, <1>9, SmallerFacts
<1>11. /\ r.inode[ino].size = oi.size - NINDIRECT /\ r.inode[ino].ftype = oi.ftype
       /\ r.inode[ino].nlink = oi.nlink /\ r.inode[ino].direct = oi.direct
       /\ r.inode[ino].indirect = (IF index = 0 THEN 0 ELSE ind)
       /\ r.inode[ino].indirect2 = oi.indirect2
  BY <1>7, <1>8, <1>9, SmallerFacts
<1>12. Tidy(r.inode[ino])
  <2>1. Size2NBlocks(oi.size - NINDIRECT) = m
    BY <1>0, SizeSteps DEF NBlocks, FileSize
  <2>2. \A k \in 0 .. NDIRECT-1 : ~(k >= m)
    BY <1>0
  <2>3. m <= NDIRECT => index = 0
    BY <1>0
  <2> QED BY <1>0, <1>11, <2>1, <2>2, <2>3 DEF Tidy
<1>13. ASSUME NEW i \in Ino, NEW k \in Place, Has(d, i, k), ~(i = ino /\ k \in Q)
       PROVE  /\ Rec(r, i, k) = Rec(d, i, k)
              /\ k # -1 => r.words[Rec(d, i, k)] = d.words[Rec(d, i, k)]
  <2>1. \A c \in Block : c # ind => r.words[c] = d.words[c]
    BY <1>0, <1>7, <1>10 DEF Disk
  <2>2. \A j \in Word : j # index => r.words[ind][j] = d.words[ind][j]
    <3>1. ind \in Block /\ r.words = [d.words EXCEPT ![ind][index] = 0]
      BY <1>0, <1>2, <1>7, <1>10
    <3>2. d.words \in [Block -> [Word -> Value]] /\ index \in Word
      BY <1>0 DEF Disk
    <3> HIDE DEF index, ind
    <3> QED BY <3>1, <3>2
  <2>3. k # -1 \/ i # ino => Rec(d, i, k) \in Block /\ Rec(d, i, k) # ind
    BY <1>0, <1>1, <1>13 DEF OneUse
  <2>4. Rec(r, i, k) = Rec(d, i, k)
    <3>1. CASE i # ino
      <4>1. r.inode[i] = d.inode[i]
        BY <1>10, <3>1
      <4>2. CASE k = -1 \/ k \in 0 .. NDIRECT-1
        BY <1>0, <4>1, <4>2 DEF Rec
      <4>3. CASE k \in NDIRECT .. Small-1
        <5>1. Has(d, i, -1) /\ d.inode[i].indirect = Rec(d, i, -1)
          <6>1. NBlocks(d, i) \in Nat
            BY SoundFacts
          <6> QED BY <1>0, <1>13, <4>3, <6>1 DEF Has, Rec
        <5>2. d.inode[i].indirect # ind /\ d.inode[i].indirect \in Block
          BY <1>0, <1>1, <3>1, <5>1 DEF OneUse
        <5> QED BY <2>1, <4>1, <5>2 DEF Rec
      <4> QED BY <4>2, <4>3, PlaceFacts
    <3>2. CASE i = ino /\ k = -1
      BY <1>0, <1>1, <1>11, <1>13, <3>2 DEF Rec, Q
    <3>3. CASE i = ino /\ k \in 0 .. NDIRECT-1
      BY <1>0, <1>11, <3>3 DEF Rec
    <3>4. CASE i = ino /\ k \in NDIRECT .. Small-1 /\ k-NDIRECT \in Word
      <4>1. k < m
        <5>1. k < m + 1 /\ k # m
          <6>1. k # -1 /\ m \in Q
            BY <1>0, <3>4 DEF Q
          <6> QED BY <1>0, <1>13, <3>4, <6>1 DEF Has
        <5> QED BY <1>0, <3>4, <5>1
      <4>2. index # 0 /\ k - NDIRECT # index /\ k # -1 /\ ~(k < NDIRECT)
        BY <1>0, <3>4, <4>1
      <4> QED BY <1>11, <2>2, <3>4, <4>2 DEF Rec, ind
    <3> QED BY <3>1, <3>2, <3>3, <3>4, PlaceFacts
  <2> QED BY <2>1, <2>3, <2>4
<1> QED BY <1>0, <1>3, <1>7, <1>10, <1>11, <1>12, <1>13 DEF Unrecorded

LEMMA RemoveKeeps ==
  ASSUME NEW d, Sound(d), NEW ino \in Ino, d.inode[ino].ftype # "SYMLINK",
         NBlocks(d, ino) > 0
  PROVE  Reshapes(d, RemoveBlock(d, ino), ino)
         /\ NBlocks(RemoveBlock(d, ino), ino) = NBlocks(d, ino) - 1
<1> DEFINE m == NBlocks(d, ino) - 1
           r == RemoveBlock(d, ino)
<1>1. m \in Nat /\ m < Small /\ NDIRECT \in Nat /\ Small \in Nat
  BY SoundFacts, Constants
<1>2. CASE m < NDIRECT
  <2>1. IndirIndex(m) = -1 /\ DirectIndex(m) = m /\ m \in 0 .. NDIRECT-1
    BY <1>1, <1>2, Indices
  <2>2. r = Smaller(RemoveDirect(d, ino, m), ino)
    BY <2>1 DEF RemoveBlock, NBlocks, Smaller
  <2> HIDE DEF r
  <2> QED BY <2>1, <2>2, RemoveDirectKeeps, UnrecordedKeeps DEF r
<1>3. CASE ~(m < NDIRECT)
  <2>1. m \in NDIRECT .. Small-1
    BY <1>1, <1>3
  <2>2. IndirIndex(m) = 0 /\ DirectIndex(m) = m - NDIRECT
    BY <2>1, Indices
  <2>3. r = Smaller(RemoveIndirect(d, ino, m - NDIRECT), ino)
    <3>1. m = Size2NBlocks(d.inode[ino].size) - 1
      BY DEF NBlocks
    <3> HIDE DEF m
    <3>2. 0 # -1
      OBVIOUS
    <3>3. RemoveBlock(d, ino) = Smaller(IF IndirIndex(m) = -1 THEN RemoveDirect(d, ino, DirectIndex(m))
            ELSE IF IndirIndex(m) = 0 THEN RemoveIndirect(d, ino, DirectIndex(m))
            ELSE RemoveDoubly(d, ino, IndirIndex(m), DirectIndex(m)), ino)
      BY <3>1, Zenon DEF RemoveBlock, Smaller
    <3> QED BY <2>2, <3>2, <3>3
  <2> HIDE DEF r
  <2> QED BY <2>1, <2>3, RemoveIndirectKeeps, UnrecordedKeeps DEF r
<1> QED BY <1>2, <1>3

-----------------------------------------------------------------------------
(* The loops again, and change_size().                                     *)

LEMMA ReshapesTrans ==
  ASSUME NEW d, NEW e, NEW r, NEW ino \in Ino, Sound(d), Reshapes(d, e, ino), Reshapes(e, r, ino),
         NBlocks(e, ino) >= NBlocks(d, ino) \/ NBlocks(e, ino) >= NBlocks(r, ino)
  PROVE  Reshapes(d, r, ino)
<1>1. Sound(e) /\ Sound(r)
  BY DEF Reshapes
<1>2. NBlocks(d, ino) \in Nat /\ NBlocks(e, ino) \in Nat /\ NBlocks(r, ino) \in Nat
  BY <1>1, SoundFacts
<1>3. ASSUME NEW i \in Ino, NEW k \in Place, Has(d, i, k), Has(r, i, k)
      PROVE  /\ Rec(r, i, k) = Rec(d, i, k)
             /\ k # -1 => r.words[Rec(d, i, k)] = d.words[Rec(d, i, k)]
  <2>1. Has(e, i, k)
    <3>1. CASE i # ino
      <4>1. e.inode[i] = d.inode[i]
        BY <3>1 DEF Reshapes
      <4> QED BY <1>3, <4>1 DEF Has, NBlocks
    <3>2. CASE i = ino
      <4>1. k \in Int /\ NDIRECT \in Nat /\ e.inode[ino].ftype # "SYMLINK"
        BY <1>3, <3>2, Constants DEF Place, Reshapes, Has
      <4> QED BY <1>2, <1>3, <3>2, <4>1 DEF Has
    <3> QED BY <3>1, <3>2
  <2>2. /\ Rec(e, i, k) = Rec(d, i, k)
        /\ k # -1 => e.words[Rec(d, i, k)] = d.words[Rec(d, i, k)]
    BY <1>3, <2>1 DEF Reshapes
  <2>3. /\ Rec(r, i, k) = Rec(e, i, k)
        /\ k # -1 => r.words[Rec(e, i, k)] = e.words[Rec(e, i, k)]
    BY <1>3, <2>1 DEF Reshapes
  <2> QED BY <2>2, <2>3
<1>4. \A i \in Ino \ {ino} : r.inode[i] = d.inode[i]
  BY DEF Reshapes
<1> QED BY <1>3, <1>4 DEF Reshapes

LEMMA OneMore == \A j \in Int : (j+1) * NINDIRECT = j * NINDIRECT + NINDIRECT
  BY Constants

(* The file as it is after some turns, if it has not outgrown its indirect *)
(* block by then.                                                          *)
GrownSoFar(d, r, ino, n, k) ==
  NBlocks(r.disk, ino) <= Small =>
    /\ Reshapes(d, r.disk, ino)
    /\ NBlocks(r.disk, ino) >= NBlocks(d, ino)
    /\ NBlocks(r.disk, ino) > NBlocks(d, ino) => NBlocks(r.disk, ino) <= n
    /\ r.ret = "ok" => NBlocks(r.disk, ino) >= k \/ NBlocks(r.disk, ino) >= n
    /\ r.disk.inode[ino].size =
         d.inode[ino].size + (NBlocks(r.disk, ino) - NBlocks(d, ino)) * NINDIRECT

LEMMA GrowStep ==
  ASSUME NEW d, Sound(d), NEW ino \in Ino, d.inode[ino].ftype # "SYMLINK",
         NEW n \in Nat, NEW k \in Nat, NEW r \in Result, GrownSoFar(d, r, ino, n, k)
  PROVE  GrownSoFar(d, GrowTurn(r, ino, n), ino, n, k+1)
<1> DEFINE t == GrowTurn(r, ino, n)
           a == AddBlock(r.disk, ino)
<1>1. r.disk \in Disk /\ NBlocks(r.disk, ino) \in Nat /\ NBlocks(d, ino) \in Nat
      /\ d.inode[ino].size \in Int /\ r.disk.inode[ino].size \in Int /\ Small \in Nat
  BY SoundFacts, DiskTyped, Constants DEF Result, FileSize
<1>2. CASE ~(r.ret = "ok" /\ NBlocks(r.disk, ino) < n)
  <2>1. t = r
    BY <1>2 DEF GrowTurn, NBlocks
  <2> QED BY <1>1, <1>2, <2>1 DEF GrownSoFar
<1>3. CASE r.ret = "ok" /\ NBlocks(r.disk, ino) < n
  <2>1. t = a
    BY <1>3 DEF GrowTurn, NBlocks
  <2>2. Adds(r.disk, a, ino)
    BY <1>1, AddTyped
  <2> HIDE DEF t, a
  <2>3. NBlocks(a.disk, ino) = IF a.ret = "ok" THEN NBlocks(r.disk, ino) + 1 ELSE NBlocks(r.disk, ino)
    BY <1>1, <2>2, SizeSteps DEF Adds, NBlocks
  <2> SUFFICES ASSUME NBlocks(a.disk, ino) <= Small PROVE GrownSoFar(d, a, ino, n, k+1)
    BY <2>1 DEF GrownSoFar, t
  <2>4. NBlocks(r.disk, ino) <= Small
    BY <1>1, <2>3
  <2>5. Reshapes(d, r.disk, ino) /\ NBlocks(r.disk, ino) >= NBlocks(d, ino)
    BY <2>4 DEF GrownSoFar
  <2>6. Sound(r.disk) /\ r.disk.inode[ino].ftype # "SYMLINK"
    BY <2>5 DEF Reshapes
  <2>7. Reshapes(r.disk, a.disk, ino)
    BY <2>6, AddKeeps DEF a
  <2>8. Reshapes(d, a.disk, ino)
    BY <2>5, <2>7, ReshapesTrans
  <2>9. r.disk.inode[ino].size =
          d.inode[ino].size + (NBlocks(r.disk, ino) - NBlocks(d, ino)) * NINDIRECT
    BY <2>4 DEF GrownSoFar
  <2>10. a.disk.inode[ino].size =
           d.inode[ino].size + (NBlocks(a.disk, ino) - NBlocks(d, ino)) * NINDIRECT
    <3>1. CASE a.ret # "ok"
      BY <2>2, <2>3, <2>9, <3>1 DEF Adds
    <3>2. CASE a.ret = "ok"
      <4>1. PICK j \in Int : j = NBlocks(r.disk, ino) - NBlocks(d, ino)
        BY <1>1
      <4>2. NBlocks(a.disk, ino) - NBlocks(d, ino) = j + 1
        BY <1>1, <2>3, <3>2, <4>1
      <4>3. (j+1) * NINDIRECT = j * NINDIRECT + NINDIRECT /\ j * NINDIRECT \in Int /\ NINDIRECT \in Int
        BY OneMore, Division, Constants
      <4>4. a.disk.inode[ino].size = r.disk.inode[ino].size + NINDIRECT
        BY <2>2, <3>2 DEF Adds
      <4>5. r.disk.inode[ino].size = d.inode[ino].size + j * NINDIRECT
        BY <2>9, <4>1
      <4> HIDE DEF a
      <4>6. a.disk.inode[ino].size = d.inode[ino].size + (j+1) * NINDIRECT
        BY <1>1, <4>3, <4>4, <4>5
      <4> QED BY <4>2, <4>6
    <3> QED BY <3>1, <3>2
  <2>11. a.ret = "ok" => NBlocks(a.disk, ino) >= k+1 \/ NBlocks(a.disk, ino) >= n
    BY <1>1, <1>3, <2>3, <2>4 DEF GrownSoFar
  <2>12. NBlocks(a.disk, ino) >= NBlocks(d, ino)
         /\ (NBlocks(a.disk, ino) > NBlocks(d, ino) => NBlocks(a.disk, ino) <= n)
    BY <1>1, <1>3, <2>3, <2>5
  <2> QED BY <2>8, <2>10, <2>11, <2>12 DEF GrownSoFar
<1> QED BY <1>2, <1>3

LEMMA GrowKeeps ==
  ASSUME NEW d, Sound(d), NEW ino \in Ino, d.inode[ino].ftype # "SYMLINK", NEW n \in Nat
  PROVE  GrowTo(d, ino, n) \in Result /\ GrownSoFar(d, GrowTo(d, ino, n), ino, n, n)
<1>1. d \in Disk
  BY DEF Sound
<1>2. PICK f \in [Nat -> Result] : /\ f[0] = Returns("ok", d)
                                   /\ \A k \in Nat : f[k+1] = GrowTurn(f[k], ino, n)
                                   /\ GrowTo(d, ino, n) = f[n]
  BY <1>1, GrowLoop
<1> DEFINE T == {k \in Nat : GrownSoFar(d, f[k], ino, n, k)}
<1>3. 0 \in T
  <2>1. f[0].disk = d
    BY <1>2 DEF Returns
  <2>2. NBlocks(d, ino) \in Nat /\ d.inode[ino].size \in Int
    BY SoundFacts, DiskTyped DEF FileSize
  <2>3. (NBlocks(d, ino) - NBlocks(d, ino)) * NINDIRECT = 0
    BY <2>2, Constants
  <2> QED BY <2>1, <2>2, <2>3, ReshapesItself DEF GrownSoFar
<1>4. ASSUME NEW k \in Nat, k \in T PROVE k+1 \in T
  <2>1. f[k] \in Result /\ GrownSoFar(d, f[k], ino, n, k) /\ f[k+1] = GrowTurn(f[k], ino, n)
    BY <1>2, <1>4
  <2>2. GrownSoFar(d, f[k+1], ino, n, k+1)
    BY <2>1, GrowStep
  <2> QED BY <2>2
<1> HIDE DEF T
<1>5. n \in T
  BY <1>3, <1>4, Reached
<1> QED BY <1>2, <1>5 DEF T

ShrunkSoFar(d, r, ino, n, k) ==
  /\ Reshapes(d, r, ino)
  /\ NBlocks(r, ino) <= NBlocks(d, ino)
  /\ NBlocks(r, ino) + k <= NBlocks(d, ino) \/ NBlocks(r, ino) <= n
  /\ NBlocks(r, ino) >= n \/ NBlocks(r, ino) = NBlocks(d, ino)
  /\ r.inode[ino].size = d.inode[ino].size + (NBlocks(r, ino) - NBlocks(d, ino)) * NINDIRECT

LEMMA ShrinkStep ==
  ASSUME NEW d, Sound(d), NEW ino \in Ino, d.inode[ino].ftype # "SYMLINK",
         NEW n \in Nat, NEW k \in Nat, NEW r, ShrunkSoFar(d, r, ino, n, k)
  PROVE  ShrunkSoFar(d, ShrinkTurn(r, ino, n), ino, n, k+1)
<1> DEFINE t == RemoveBlock(r, ino)
<1>1. Reshapes(d, r, ino) /\ Sound(r) /\ r.inode[ino].ftype # "SYMLINK"
  BY DEF ShrunkSoFar, Reshapes
<1>2. r \in Disk /\ NBlocks(r, ino) \in Nat /\ NBlocks(d, ino) \in Nat
      /\ d.inode[ino].size \in Int /\ r.inode[ino].size \in Int
  BY <1>1, SoundFacts, DiskTyped DEF FileSize
<1>3. CASE ~(NBlocks(r, ino) > n)
  <2>1. ShrinkTurn(r, ino, n) = r
    BY <1>3 DEF ShrinkTurn, NBlocks
  <2> QED BY <1>2, <1>3, <2>1 DEF ShrunkSoFar
<1>4. CASE NBlocks(r, ino) > n
  <2>1. ShrinkTurn(r, ino, n) = t
    BY <1>4 DEF ShrinkTurn, NBlocks
  <2>2. NBlocks(r, ino) > 0
    BY <1>2, <1>4
  <2>3. Reshapes(r, t, ino) /\ NBlocks(t, ino) = NBlocks(r, ino) - 1
    BY <1>1, <2>2, RemoveKeeps
  <2>4. t.inode[ino].size = r.inode[ino].size - NINDIRECT
    BY <1>2, <2>2, RemoveTyped DEF Removes
  <2> HIDE DEF t
  <2>5. Reshapes(d, t, ino)
    BY <1>1, <1>2, <2>3, ReshapesTrans
  <2>6. t.inode[ino].size = d.inode[ino].size + (NBlocks(t, ino) - NBlocks(d, ino)) * NINDIRECT
    <3>1. PICK j \in Int : j = NBlocks(t, ino) - NBlocks(d, ino)
      BY <1>2, <2>3
    <3>2. NBlocks(r, ino) - NBlocks(d, ino) = j + 1
      BY <1>2, <2>3, <3>1
    <3>3. (j+1) * NINDIRECT = j * NINDIRECT + NINDIRECT /\ j * NINDIRECT \in Int /\ NINDIRECT \in Int
      BY OneMore, Division, Constants
    <3>4. r.inode[ino].size = d.inode[ino].size + (j+1) * NINDIRECT
      BY <3>2 DEF ShrunkSoFar
    <3>5. t.inode[ino].size = d.inode[ino].size + j * NINDIRECT
      BY <1>2, <2>4, <3>3, <3>4
    <3> QED BY <3>1, <3>5
  <2>7. /\ NBlocks(t, ino) <= NBlocks(d, ino)
        /\ NBlocks(t, ino) + (k+1) <= NBlocks(d, ino) \/ NBlocks(t, ino) <= n
        /\ NBlocks(t, ino) >= n \/ NBlocks(t, ino) = NBlocks(d, ino)
    BY <1>2, <1>4, <2>3 DEF ShrunkSoFar
  <2> QED BY <2>1, <2>5, <2>6, <2>7 DEF ShrunkSoFar
<1> QED BY <1>3, <1>4

LEMMA ShrinkKeeps ==
  ASSUME NEW d, Sound(d), NEW ino \in Ino, d.inode[ino].ftype # "SYMLINK", NEW n \in Nat
  PROVE  LET r == ShrinkTo(d, ino, n) IN
         /\ Reshapes(d, r, ino)
         /\ NBlocks(r, ino) = IF n <= NBlocks(d, ino) THEN n ELSE NBlocks(d, ino)
         /\ r.inode[ino].size = d.inode[ino].size + (NBlocks(r, ino) - NBlocks(d, ino)) * NINDIRECT
<1>1. d \in Disk /\ NBlocks(d, ino) \in Nat /\ d.inode[ino].size \in Int
  BY SoundFacts, DiskTyped DEF Sound, FileSize
<1>2. PICK f \in [Nat -> Disk] : /\ f[0] = d
                                 /\ \A k \in Nat : f[k+1] = ShrinkTurn(f[k], ino, n)
                                 /\ ShrinkTo(d, ino, n) = f[NBlocks(d, ino)]
  BY <1>1, ShrinkLoop
<1> DEFINE T == {k \in Nat : ShrunkSoFar(d, f[k], ino, n, k)}
<1>3. 0 \in T
  <2>1. (NBlocks(d, ino) - NBlocks(d, ino)) * NINDIRECT = 0
    BY <1>1, Constants
  <2>2. ShrunkSoFar(d, d, ino, n, 0)
    BY <1>1, <2>1, ReshapesItself DEF ShrunkSoFar
  <2> QED BY <1>2, <2>2
<1>4. ASSUME NEW k \in Nat, k \in T PROVE k+1 \in T
  <2>1. ShrunkSoFar(d, f[k+1], ino, n, k+1)
    BY <1>2, <1>4, ShrinkStep
  <2> QED BY <2>1
<1> HIDE DEF T
<1>5. NBlocks(d, ino) \in T
  BY <1>1, <1>3, <1>4, Reached
<1>6. ShrunkSoFar(d, ShrinkTo(d, ino, n), ino, n, NBlocks(d, ino))
  BY <1>2, <1>5 DEF T
<1> DEFINE r == ShrinkTo(d, ino, n)
<1> HIDE DEF r
<1>7. Sound(r)
  BY <1>6 DEF ShrunkSoFar, Reshapes, r
<1>8. NBlocks(r, ino) \in Nat
  BY <1>7, SoundFacts
<1>9. NBlocks(r, ino) = IF n <= NBlocks(d, ino) THEN n ELSE NBlocks(d, ino)
  BY <1>1, <1>6, <1>8 DEF ShrunkSoFar, r
<1> QED BY <1>6, <1>9 DEF ShrunkSoFar, r

LEMMA SameAgain ==
  ASSUME NEW d, Sound(d), NEW ino \in Ino, d.inode[ino].ftype # "SYMLINK", NEW r,
         Reshapes(d, r, ino), r.inode[ino].size = d.inode[ino].size
  PROVE  r.inode = d.inode /\ r.free = d.free
<1> DEFINE o == d.inode[ino]  p == r.inode[ino]
<1>1. Sound(r) /\ d \in Disk /\ r \in Disk /\ OneUse(d) /\ OneUse(r) /\ NBlocks(r, ino) = NBlocks(d, ino)
      /\ o \in Inode /\ p \in Inode /\ Tidy(o) /\ Tidy(p)
  BY SoundFacts DEF Reshapes, NBlocks
<1>2. ASSUME NEW i \in Ino, NEW k \in Place
      PROVE  /\ Has(d, i, k) <=> Has(r, i, k)
             /\ Has(d, i, k) => Rec(r, i, k) = Rec(d, i, k)
  <2>1. Has(d, i, k) <=> Has(r, i, k)
    BY <1>1 DEF Has, Reshapes, NBlocks
  <2> QED BY <2>1 DEF Reshapes
<1>3. r.free = d.free
  <2>1. ASSUME NEW b \in d.free PROVE b \in r.free
    <3>1. b \in Pool(r)
      BY PoolFacts DEF Reshapes
    <3> QED BY <1>1, <1>2, <3>1, PoolFacts DEF OneUse
  <2>2. ASSUME NEW b \in r.free PROVE b \in d.free
    <3>1. b \in Pool(d)
      BY PoolFacts DEF Reshapes
    <3> QED BY <1>1, <1>2, <3>1, PoolFacts DEF OneUse
  <2> QED BY <2>1, <2>2
<1>4. p.direct = o.direct
  <2>1. ASSUME NEW k \in 0 .. NDIRECT-1 PROVE p.direct[k] = o.direct[k]
    <3>1. CASE k >= Size2NBlocks(o.size)
      BY <1>1, <3>1 DEF Tidy
    <3>2. CASE ~(k >= Size2NBlocks(o.size))
      <4>1. NBlocks(d, ino) \in Nat /\ k \in Place /\ k # -1 /\ k < NDIRECT
        BY SoundFacts, PlaceFacts, Constants DEF Small
      <4>2. Has(d, ino, k)
        BY <3>2, <4>1 DEF Has, NBlocks
      <4> QED BY <1>2, <4>1, <4>2 DEF Rec
    <3> QED BY <3>1, <3>2
  <2> HIDE DEF o, p
  <2>2. p.direct \in [0 .. NDIRECT-1 -> Block] /\ o.direct \in [0 .. NDIRECT-1 -> Block]
    BY <1>1 DEF Inode
  <2>3. p.direct = [k \in 0 .. NDIRECT-1 |-> p.direct[k]]
        /\ o.direct = [k \in 0 .. NDIRECT-1 |-> o.direct[k]]
    BY <2>2
  <2>4. [k \in 0 .. NDIRECT-1 |-> p.direct[k]] = [k \in 0 .. NDIRECT-1 |-> o.direct[k]]
    BY <2>1
  <2> QED BY <2>3, <2>4, Zenon
<1>5. p.indirect = o.indirect
  <2>1. CASE NBlocks(d, ino) <= NDIRECT
    BY <1>1, <2>1 DEF Tidy, NBlocks
  <2>2. CASE NBlocks(d, ino) > NDIRECT
    <3>1. Has(d, ino, -1) /\ -1 \in Place
      BY <2>2, PlaceFacts DEF Has
    <3> QED BY <1>2, <3>1 DEF Rec
  <2>3. NBlocks(d, ino) \in Nat /\ NDIRECT \in Nat
    BY SoundFacts, Constants
  <2> QED BY <2>1, <2>2, <2>3
<1>6. p.size = o.size /\ p.ftype = o.ftype /\ p.nlink = o.nlink /\ p.indirect2 = o.indirect2
  BY DEF Reshapes
<1>7. p = o
  <2> HIDE DEF o, p
  <2> QED BY <1>1, <1>4, <1>5, <1>6 DEF Inode
<1>8. r.inode = d.inode
  <2>1. \A i \in Ino : r.inode[i] = d.inode[i]
    BY <1>7 DEF Reshapes
  <2> QED BY <1>1, <2>1 DEF Disk
<1> QED BY <1>3, <1>8

LEMMA ChangeKeeps ==
  ASSUME NEW d, Sound(d), NEW ino \in Ino, d.inode[ino].ftype # "SYMLINK", NEW size \in FileSize,
         NBlocks(GrowTo(d, ino, Size2NBlocks(size)).disk, ino) <= Small
  PROVE  LET c == ChangeSize(d, ino, size) IN
         /\ c.ret \in {"ok", "ENOSPC", "EIO"}
         /\ Reshapes(d, c.disk, ino)
         /\ c.ret = "ok" => c.disk.inode[ino].size = size
         /\ c.ret = "ENOSPC" => c.disk.inode = d.inode /\ c.disk.free = d.free
<1> DEFINE n == Size2NBlocks(size)
           old == Size2NBlocks(d.inode[ino].size)
           g == GrowTo(d, ino, n)
           c == ChangeSize(d, ino, size)
<1>0. n \in Nat /\ old \in Nat /\ old = NBlocks(d, ino) /\ d.inode[ino].size \in Int
  BY SizeSteps, SoundFacts, DiskTyped DEF NBlocks, FileSize, Sound
<1>1. g \in Result /\ GrownSoFar(d, g, ino, n, n)
  BY <1>0, GrowKeeps
<1> HIDE DEF n, old
<1>2. /\ Reshapes(d, g.disk, ino) /\ Sound(g.disk) /\ g.disk.inode[ino].ftype # "SYMLINK"
      /\ NBlocks(g.disk, ino) >= NBlocks(d, ino) /\ NBlocks(g.disk, ino) \in Nat
      /\ g.ret = "ok" => NBlocks(g.disk, ino) >= n
      /\ g.disk.inode[ino].size =
           d.inode[ino].size + (NBlocks(g.disk, ino) - NBlocks(d, ino)) * NINDIRECT
      /\ g.ret \in {"ok", "ENOSPC", "EIO"}
  <2>1. NBlocks(g.disk, ino) <= Small
    BY DEF n
  <2> HIDE DEF g
  <2>2. /\ Reshapes(d, g.disk, ino) /\ NBlocks(g.disk, ino) >= NBlocks(d, ino)
        /\ g.ret = "ok" => NBlocks(g.disk, ino) >= n
        /\ g.disk.inode[ino].size =
             d.inode[ino].size + (NBlocks(g.disk, ino) - NBlocks(d, ino)) * NINDIRECT
    BY <1>1, <2>1 DEF GrownSoFar
  <2>3. Sound(g.disk) /\ g.disk.inode[ino].ftype # "SYMLINK"
    BY <2>2 DEF Reshapes
  <2> QED BY <1>1, <2>2, <2>3, SoundFacts DEF Result
<1>3. c = CASE g.ret = "ENOSPC" -> Returns("ENOSPC", ShrinkTo(g.disk, ino, old))
            [] g.ret = "EIO"    -> g
            [] OTHER -> Returns("ok", [ShrinkTo(g.disk, ino, n) EXCEPT !.inode[ino].size = size])
  BY DEF ChangeSize, n, old
<1> HIDE DEF g, c
<1>4. CASE g.ret = "EIO"
  <2>1. c = g
    BY <1>3, <1>4
  <2> QED BY <1>2, <1>4, <2>1 DEF c
<1>5. CASE g.ret = "ENOSPC"
  <2> DEFINE r == ShrinkTo(g.disk, ino, old)
  <2>1. c.ret = "ENOSPC" /\ c.disk = r
    BY <1>3, <1>5 DEF Returns
  <2>2. /\ Reshapes(g.disk, r, ino) /\ NBlocks(r, ino) = NBlocks(d, ino)
        /\ r.inode[ino].size =
             g.disk.inode[ino].size + (NBlocks(r, ino) - NBlocks(g.disk, ino)) * NINDIRECT
    BY <1>0, <1>2, ShrinkKeeps
  <2> HIDE DEF r
  <2>3. Reshapes(d, r, ino)
    BY <1>2, <2>2, ReshapesTrans
  <2>4. r.inode[ino].size = d.inode[ino].size
    <3>1. PICK j \in Int : j = NBlocks(g.disk, ino) - NBlocks(d, ino)
      BY <1>0, <1>2
    <3>2. NBlocks(r, ino) - NBlocks(g.disk, ino) = -j
      BY <1>0, <1>2, <2>2, <3>1
    <3>3. (-j) * NINDIRECT = -(j * NINDIRECT) /\ j * NINDIRECT \in Int
      BY Division, Constants
    <3>4. g.disk.inode[ino].size = d.inode[ino].size + j * NINDIRECT
      BY <1>2, <3>1
    <3>5. r.inode[ino].size = g.disk.inode[ino].size + (-j) * NINDIRECT
      BY <2>2, <3>2
    <3> QED BY <1>0, <3>3, <3>4, <3>5
  <2>5. r.inode = d.inode /\ r.free = d.free
    BY <2>3, <2>4, SameAgain
  <2> QED BY <2>1, <2>3, <2>5 DEF c
<1>6. CASE g.ret = "ok"
  <2> DEFINE s == ShrinkTo(g.disk, ino, n)
             o == [s.inode[ino] EXCEPT !.size = size]
             r == SetInode(s, ino, o)
  <2>1. c.ret = "ok" /\ c.disk = [s EXCEPT !.inode[ino].size = size]
    BY <1>3, <1>6 DEF Returns
  <2>2. Reshapes(g.disk, s, ino) /\ NBlocks(s, ino) = n
    BY <1>0, <1>2, <1>6, ShrinkKeeps
  <2> HIDE DEF s
  <2>3. Reshapes(d, s, ino) /\ Sound(s)
    <3>1. Reshapes(d, s, ino)
      BY <1>2, <2>2, ReshapesTrans
    <3> QED BY <3>1 DEF Reshapes
  <2>4. s \in Disk /\ s.inode[ino] \in Inode /\ OneUse(s)
    BY <2>3, SoundFacts
  <2>5. c.disk = r
    BY <2>1, <2>4 DEF SetInode, Disk
  <2>6. /\ o \in Inode /\ o.size = size /\ o.ftype = s.inode[ino].ftype
        /\ o.nlink = s.inode[ino].nlink /\ o.direct = s.inode[ino].direct
        /\ o.indirect = s.inode[ino].indirect /\ o.indirect2 = s.inode[ino].indirect2
    BY <1>0, <2>4 DEF Inode
  <2> HIDE DEF o
  <2>7. /\ r \in Disk /\ r.free = s.free /\ r.words = s.words /\ r.names = s.names
        /\ r.wild = s.wild /\ r.inode[ino] = o
        /\ \A i \in Ino \ {ino} : r.inode[i] = s.inode[i]
    BY <2>4, <2>6, InodeSet
  <2> HIDE DEF r
  <2>8. \A i \in Ino : NBlocks(r, i) = NBlocks(s, i)
    BY <2>2, <2>6, <2>7 DEF NBlocks, n
  <2>9. ASSUME NEW i \in Ino, NEW k \in Place
        PROVE  Rec(r, i, k) = Rec(s, i, k) /\ (Has(r, i, k) <=> Has(s, i, k))
    BY <2>6, <2>7, <2>8 DEF Rec, Has
  <2>10. Pool(r) = Pool(s)
    <3>1. ASSUME NEW b PROVE b \in Pool(r) <=> b \in Pool(s)
      BY <2>7, <2>9, PoolFacts
    <3> QED BY <3>1
  <2>11. OneUse(r)
    BY <2>4, <2>7, <2>9 DEF OneUse
  <2>12. ASSUME NEW i \in Ino PROVE Tidy(r.inode[i])
    <3>1. Tidy(s.inode[i])
      BY <2>3, SoundFacts
    <3> QED BY <2>6, <2>7, <2>8, <3>1 DEF Tidy, NBlocks
  <2>13. Sound(r)
    BY <2>7, <2>11, <2>12 DEF Sound
  <2>14. Reshapes(d, r, ino)
    <3>1. ASSUME NEW i \in Ino, NEW k \in Place, Has(d, i, k), Has(r, i, k)
          PROVE  /\ Rec(r, i, k) = Rec(d, i, k)
                 /\ k # -1 => r.words[Rec(d, i, k)] = d.words[Rec(d, i, k)]
      BY <2>3, <2>7, <2>9, <3>1 DEF Reshapes
    <3> QED BY <2>3, <2>6, <2>7, <2>10, <2>13, <3>1 DEF Reshapes
  <2> QED BY <2>1, <2>5, <2>6, <2>7, <2>14 DEF c
<1> QED BY <1>2, <1>4, <1>5, <1>6

-----------------------------------------------------------------------------
(* Where a file's words are, and what all places together have.            *)

LEMMA BlockNoIsRec ==
  ASSUME NEW d, Sound(d), NEW i \in Ino, d.inode[i].ftype # "SYMLINK",
         NEW off \in Nat, off < d.inode[i].size
  PROVE  /\ off \div NINDIRECT \in 0 .. Small-1 /\ off \div NINDIRECT \in Place
         /\ Has(d, i, off \div NINDIRECT)
         /\ BlockNo(d, i, off) = Rec(d, i, off \div NINDIRECT)
         /\ BlockNo(d, i, off) \in DataBlock /\ BlockNo(d, i, off) \in Block
<1> DEFINE b == off \div NINDIRECT
           x == d.inode[i].size
<1>1. d \in Disk /\ OneUse(d) /\ NBlocks(d, i) \in Nat /\ NBlocks(d, i) <= Small /\ x \in Int
      /\ Small \in Nat /\ NDIRECT \in Nat /\ NINDIRECT \in Nat /\ NINDIRECT >= 2
  BY SoundFacts, DiskTyped, Constants DEF FileSize
<1>2. b \in Int /\ off = b * NINDIRECT + (off % NINDIRECT) /\ off % NINDIRECT \in 0 .. NINDIRECT-1
      /\ b * NINDIRECT \in Int
  BY Division DEF Word
<1>3. b >= 0
  BY Constants
<1> HIDE DEF b
<1>4. b * NINDIRECT < x
  BY <1>1, <1>2
<1>5. b < NBlocks(d, i)
  BY <1>1, <1>2, <1>4, BlocksOfSize DEF NBlocks
<1>6. b \in 0 .. Small-1 /\ b \in Place /\ b # -1
  BY <1>1, <1>2, <1>3, <1>5, PlaceFacts
<1>7. Has(d, i, b)
  BY <1>5, <1>6 DEF Has
<1>8. BlockNo(d, i, off) = Rec(d, i, b)
  <2>1. ~(off >= x \/ d.inode[i].ftype = "SYMLINK")
    BY <1>1
  <2>2. CASE b < NDIRECT
    BY <1>6, <2>1, <2>2 DEF BlockNo, Rec, b
  <2>3. CASE ~(b < NDIRECT)
    <3>1. b - NDIRECT - NINDIRECT < 0
      BY <1>1, <1>6 DEF Small
    <3> QED BY <1>6, <2>1, <2>3, <3>1 DEF BlockNo, Rec, GetWord, b
  <2> QED BY <2>2, <2>3
<1>9. Rec(d, i, b) \in DataBlock
  BY <1>1, <1>6, <1>7 DEF OneUse
<1> QED BY <1>6, <1>7, <1>8, <1>9, Constants DEF b

LEMMA PlacesAre ==
  ASSUME NEW d, Sound(d), NEW i \in Ino
  PROVE  \A t : t \in Places(d, i) <=> \E k \in Place : Has(d, i, k) /\ t = <<i, k, Rec(d, i, k)>>
<1> DEFINE n == Size2NBlocks(d.inode[i].size)
<1>1. n = NBlocks(d, i) /\ n \in Nat /\ n <= Small /\ d.inode[i].size \in Int
      /\ Small \in Nat /\ NDIRECT \in Nat
  BY SoundFacts, DiskTyped, Constants DEF NBlocks, FileSize, Sound
<1>2. CASE d.inode[i].ftype = "SYMLINK"
  BY <1>2 DEF Places, Has
<1>3. CASE d.inode[i].ftype # "SYMLINK"
  <2>1. ASSUME NEW k \in 0 .. n-1
        PROVE  /\ k \in Place /\ k # -1 /\ Has(d, i, k)
               /\ BlockNo(d, i, k * NINDIRECT) = Rec(d, i, k)
    <3>1. k \in Place /\ k # -1 /\ k \in Int /\ k < n /\ k >= 0
      <4> HIDE DEF n
      <4> QED BY <1>1, PlaceFacts
    <3>2. Has(d, i, k)
      BY <1>1, <1>3, <3>1 DEF Has
    <3>3. k * NINDIRECT < d.inode[i].size
      BY <1>1, <3>1, BlocksOfSize
    <3>4. k * NINDIRECT \in Nat
      BY <3>1, Constants
    <3>5. (k * NINDIRECT) \div NINDIRECT = k
      <4>1. k * NINDIRECT + 0 = k * NINDIRECT
        BY <3>4
      <4>2. (k * NINDIRECT + 0) \div NINDIRECT = k
        BY <3>1, WordOfBlock, Constants
      <4> QED BY <4>1, <4>2
    <3> QED BY <1>3, <3>1, <3>2, <3>3, <3>4, <3>5, BlockNoIsRec
  <2>2. ASSUME NEW k \in Place, Has(d, i, k), k # -1 PROVE k \in 0 .. n-1
    <3>1. k < n
      BY <1>1, <2>2 DEF Has
    <3> HIDE DEF n
    <3> QED BY <1>1, <2>2, <3>1 DEF Place
  <2>3. Has(d, i, -1) <=> n > NDIRECT
    BY <1>1, <1>3 DEF Has
  <2> DEFINE holds == {<<i, k, BlockNo(d, i, k * NINDIRECT)>> : k \in 0 .. n-1}
             more == IF n > NDIRECT THEN {<<i, -1, d.inode[i].indirect>>} ELSE {}
  <2>4. Places(d, i) = holds \cup more
    BY <1>3 DEF Places
  <2> HIDE DEF n
  <2>5. ASSUME NEW t, t \in holds
        PROVE \E k \in Place : Has(d, i, k) /\ t = <<i, k, Rec(d, i, k)>>
    BY <2>1, <2>5
  <2>6. ASSUME NEW t, t \in more
        PROVE \E k \in Place : Has(d, i, k) /\ t = <<i, k, Rec(d, i, k)>>
    <3>1. n > NDIRECT /\ t = <<i, -1, Rec(d, i, -1)>> /\ -1 \in Place
      BY <2>6, PlaceFacts DEF Rec
    <3> QED BY <2>3, <3>1
  <2>7. ASSUME NEW t, NEW k \in Place, Has(d, i, k), t = <<i, k, Rec(d, i, k)>>
        PROVE  t \in holds \cup more
    <3>1. CASE k = -1
      BY <2>3, <2>7, <3>1 DEF Rec
    <3>2. CASE k # -1
      BY <2>1, <2>2, <2>7, <3>2
    <3> QED BY <3>1, <3>2
  <2> QED BY <2>4, <2>5, <2>6, <2>7
<1> QED BY <1>2, <1>3

LEMMA OwnedIs ==
  ASSUME NEW d, Sound(d), NEW b
  PROVE  /\ \A i \in Ino : b \in Owned(Places(d, i)) <=> \E k \in Place : Has(d, i, k) /\ b = Rec(d, i, k)
         /\ b \in Owned(Held(d)) <=> \E i \in Ino, k \in Place : Has(d, i, k) /\ b = Rec(d, i, k)
<1>1. ASSUME NEW i \in Ino
      PROVE  b \in Owned(Places(d, i)) <=> \E k \in Place : Has(d, i, k) /\ b = Rec(d, i, k)
  <2>1. ASSUME b \in Owned(Places(d, i)) PROVE \E k \in Place : Has(d, i, k) /\ b = Rec(d, i, k)
    <3>1. PICK t \in Places(d, i) : b = t[3]
      BY <2>1 DEF Owned
    <3>2. PICK k \in Place : Has(d, i, k) /\ t = <<i, k, Rec(d, i, k)>>
      BY PlacesAre
    <3> QED BY <3>1, <3>2
  <2>2. ASSUME NEW k \in Place, Has(d, i, k), b = Rec(d, i, k) PROVE b \in Owned(Places(d, i))
    <3>1. <<i, k, b>> \in Places(d, i) /\ <<i, k, b>>[3] = b
      BY <2>2, PlacesAre
    <3> QED BY <3>1 DEF Owned
  <2> QED BY <2>1, <2>2
<1>2. b \in Owned(Held(d)) <=> \E i \in Ino : b \in Owned(Places(d, i))
  BY DEF Owned, Held
<1> QED BY <1>1, <1>2

LEMMA LostIs ==
  ASSUME NEW d, Sound(d) PROVE Lost(d) = DataBlock \ Pool(d)
<1>1. \A b : b \in Pool(d) <=> b \in d.free \cup Owned(Held(d))
  BY OwnedIs, PoolFacts
<1> QED BY <1>1 DEF Lost

LEMMA ApartIs ==
  ASSUME NEW d, Sound(d)
  PROVE  /\ Owned(Held(d)) \subseteq DataBlock \ d.free
         /\ Cardinality(Owned(Held(d))) = Cardinality(Held(d))
<1>1. OneUse(d)
  BY DEF Sound
<1>2. Owned(Held(d)) \subseteq DataBlock \ d.free
  BY <1>1, OwnedIs DEF OneUse
<1>3. ASSUME NEW t \in Held(d)
      PROVE  \E i \in Ino, k \in Place : Has(d, i, k) /\ t = <<i, k, Rec(d, i, k)>>
  <2>1. PICK i \in Ino : t \in Places(d, i)
    BY DEF Held
  <2> QED BY <2>1, PlacesAre
<1>4. \A t, u \in Held(d) : t[3] = u[3] => t = u
  <2> SUFFICES ASSUME NEW t \in Held(d), NEW u \in Held(d), t[3] = u[3] PROVE t = u
    OBVIOUS
  <2>1. PICK i \in Ino, k \in Place : Has(d, i, k) /\ t = <<i, k, Rec(d, i, k)>>
    BY <1>3
  <2>2. PICK j \in Ino, l \in Place : Has(d, j, l) /\ u = <<j, l, Rec(d, j, l)>>
    BY <1>3
  <2>3. i = j /\ k = l
    BY <1>1, <2>1, <2>2 DEF OneUse
  <2> QED BY <2>1, <2>2, <2>3
<1>5. IsFiniteSet(Held(d))
  <2>1. IsFiniteSet(DataBlock)
    BY FS_Interval, Constants DEF DataBlock, FREEMAP_BLK
  <2> DEFINE f == [t \in Held(d) |-> t[3]]
  <2>2. f \in Injection(Held(d), DataBlock)
    <3>1. \A t \in Held(d) : t[3] \in DataBlock
      BY <1>2 DEF Owned
    <3> QED BY <1>4, <3>1 DEF Injection, IsInjective
  <2> QED BY <2>1, <2>2, FS_Injection DEF ExistsInjection
<1>6. [t \in Held(d) |-> t[3]] \in Bijection(Held(d), Owned(Held(d)))
  BY <1>4 DEF Owned, Bijection, Injection, Surjection, IsInjective
<1>7. Cardinality(Owned(Held(d))) = Cardinality(Held(d))
  BY <1>5, <1>6, FS_Bijection DEF ExistsBijection
<1> QED BY <1>2, <1>7

-----------------------------------------------------------------------------
(* The entries of the root directory.                                      *)

(* What is written to other blocks than indirect ones moves no block.      *)
LEMMA WordsElsewhere ==
  ASSUME NEW d, Sound(d), NEW r \in Disk, r.inode = d.inode, r.free = d.free, NEW C,
         \A c \in Block \ C : r.words[c] = d.words[c],
         \A i \in Ino : Has(d, i, -1) => d.inode[i].indirect \notin C
  PROVE  /\ Sound(r) /\ Pool(r) = Pool(d)
         /\ \A i \in Ino, k \in Place : /\ Has(r, i, k) <=> Has(d, i, k)
                                        /\ Has(d, i, k) => Rec(r, i, k) = Rec(d, i, k)
<1>1. ASSUME NEW i \in Ino, NEW k \in Place PROVE Has(r, i, k) <=> Has(d, i, k)
  BY DEF Has, NBlocks
<1>2. ASSUME NEW i \in Ino, NEW k \in Place, Has(d, i, k) PROVE Rec(r, i, k) = Rec(d, i, k)
  <2>1. CASE k = -1 \/ k < NDIRECT
    BY <2>1 DEF Rec
  <2>2. CASE ~(k = -1 \/ k < NDIRECT)
    <3>1. d.inode[i].indirect \in Block /\ NBlocks(d, i) \in Nat /\ k \in Int /\ NDIRECT \in Nat
      BY SoundFacts, DiskTyped, Constants DEF Sound, Place
    <3>2. Has(d, i, -1)
      BY <1>2, <2>2, <3>1 DEF Has
    <3>3. r.words[d.inode[i].indirect] = d.words[d.inode[i].indirect]
      BY <3>1, <3>2
    <3> QED BY <2>2, <3>3 DEF Rec
  <2> QED BY <2>1, <2>2
<1>3. OneUse(r)
  <2>1. OneUse(d)
    BY DEF Sound
  <2> QED BY <1>1, <1>2, <2>1 DEF OneUse
<1>4. Pool(r) = Pool(d)
  <2>1. ASSUME NEW b PROVE b \in Pool(r) <=> b \in Pool(d)
    BY <1>1, <1>2, PoolFacts
  <2> QED BY <2>1
<1> QED BY <1>1, <1>2, <1>3, <1>4 DEF Sound

LEMMA EntryPlace ==
  ASSUME NEW d, Sound(d), d.inode[ROOT_INO].ftype = "DIR", NEW off \in Entries(d)
  PROVE  /\ off \in Nat /\ off < d.inode[ROOT_INO].size
         /\ off \div NINDIRECT \in Place /\ off \div NINDIRECT # -1
         /\ Has(d, ROOT_INO, off \div NINDIRECT)
         /\ At(d, off)[1] = Rec(d, ROOT_INO, off \div NINDIRECT) /\ At(d, off)[1] \in DataBlock
         /\ At(d, off)[1] \in Block /\ At(d, off)[2] = off % NINDIRECT /\ off % NINDIRECT \in Word
<1>1. d.inode[ROOT_INO].size \in Int
  BY DiskTyped, Constants DEF Sound, FileSize
<1>2. off \in Nat /\ off < d.inode[ROOT_INO].size
  BY <1>1 DEF Entries
<1>3. off % NINDIRECT \in Word
  BY <1>2, Division
<1>4. /\ off \div NINDIRECT \in 0 .. Small-1 /\ off \div NINDIRECT \in Place
      /\ Has(d, ROOT_INO, off \div NINDIRECT)
      /\ BlockNo(d, ROOT_INO, off) = Rec(d, ROOT_INO, off \div NINDIRECT)
      /\ BlockNo(d, ROOT_INO, off) \in DataBlock /\ BlockNo(d, ROOT_INO, off) \in Block
  BY <1>2, BlockNoIsRec, Constants
<1>5. off \div NINDIRECT # -1
  BY <1>4
<1> QED BY <1>2, <1>3, <1>4, <1>5 DEF At

LEMMA EntryApart ==
  ASSUME NEW d, Sound(d), d.inode[ROOT_INO].ftype = "DIR",
         NEW o \in Entries(d), NEW p \in Entries(d), At(d, o) = At(d, p)
  PROVE  o = p
<1>1. Rec(d, ROOT_INO, o \div NINDIRECT) = Rec(d, ROOT_INO, p \div NINDIRECT)
      /\ o % NINDIRECT = p % NINDIRECT /\ o \in Int /\ p \in Int
  BY EntryPlace
<1>2. o \div NINDIRECT = p \div NINDIRECT
  <2>1. OneUse(d)
    BY DEF Sound
  <2> QED BY <1>1, <2>1, EntryPlace, Constants DEF OneUse
<1> QED BY <1>1, <1>2, Division

LEMMA NoIndirect ==
  ASSUME NEW d, Sound(d), d.inode[ROOT_INO].ftype = "DIR", NEW off \in Entries(d),
         NEW i \in Ino, Has(d, i, -1)
  PROVE  d.inode[i].indirect # At(d, off)[1]
<1>1. OneUse(d) /\ d.inode[i].indirect = Rec(d, i, -1) /\ -1 \in Place
  BY PlaceFacts DEF Sound, Rec
<1>2. PICK k \in Place : k # -1 /\ Has(d, ROOT_INO, k) /\ At(d, off)[1] = Rec(d, ROOT_INO, k)
  BY EntryPlace
<1> QED BY <1>1, <1>2, Constants DEF OneUse

(* The same entries, but for what is said about off.                       *)
EntrySet(d, r, off, x, name) ==
  /\ Entries(r) = Entries(d)
  /\ \A o \in Entries(d) : /\ EntryIno(r, o) = IF o = off THEN x ELSE EntryIno(d, o)
                           /\ EntryName(r, o) = IF o = off THEN name ELSE EntryName(d, o)

LEMMA SetEntryKeeps ==
  ASSUME NEW d, Sound(d), d.inode[ROOT_INO].ftype = "DIR", NEW off \in Entries(d),
         NEW x \in Value, NEW name \in Names \cup {NoName}
  PROVE  LET r == SetEntry(d, off, x, name) IN
         /\ Sound(r) /\ r.inode = d.inode /\ r.free = d.free /\ r.wild = d.wild /\ Pool(r) = Pool(d)
         /\ \A i \in Ino, k \in Place : /\ Has(r, i, k) <=> Has(d, i, k)
                                        /\ Has(d, i, k) => Rec(r, i, k) = Rec(d, i, k)
         /\ \A c \in Block : c # At(d, off)[1] => r.words[c] = d.words[c]
         /\ EntrySet(d, r, off, x, name)
<1> DEFINE r == SetEntry(d, off, x, name)
           b == At(d, off)[1]
           j == At(d, off)[2]
<1>1. b \in Block /\ j \in Word /\ d \in Disk
  BY EntryPlace DEF Sound
<1> HIDE DEF b, j
<1> DEFINE w == [d.words EXCEPT ![b][j] = x]
           n == [d.names EXCEPT ![b][j] = name]
<1>2. w \in [Block -> [Word -> Value]] /\ n \in [Block -> [Word -> Names \cup {NoName}]]
  BY <1>1 DEF Disk
<1>3. /\ \A c \in Block : c # b => w[c] = d.words[c] /\ n[c] = d.names[c]
      /\ \A i \in Word : /\ w[b][i] = IF i = j THEN x ELSE d.words[b][i]
                         /\ n[b][i] = IF i = j THEN name ELSE d.names[b][i]
  BY <1>1 DEF Disk
<1>4. r = [d EXCEPT !.words = w, !.names = n]
  BY DEF SetEntry, b, j
<1> HIDE DEF w, n, r
<1>5. /\ r \in Disk /\ r.inode = d.inode /\ r.free = d.free /\ r.wild = d.wild
      /\ r.words = w /\ r.names = n
  BY <1>1, <1>2, <1>4 DEF Disk
<1>6. /\ Sound(r) /\ Pool(r) = Pool(d)
      /\ \A i \in Ino, k \in Place : /\ Has(r, i, k) <=> Has(d, i, k)
                                     /\ Has(d, i, k) => Rec(r, i, k) = Rec(d, i, k)
  <2>1. \A c \in Block \ {b} : r.words[c] = d.words[c]
    BY <1>3, <1>5
  <2>2. \A i \in Ino : Has(d, i, -1) => d.inode[i].indirect \notin {b}
    BY NoIndirect DEF b
  <2> QED BY <1>5, <2>1, <2>2, WordsElsewhere
<1>7. Entries(r) = Entries(d)
  BY <1>5 DEF Entries
<1>8. ASSUME NEW o \in Entries(d)
      PROVE  /\ EntryIno(r, o) = IF o = off THEN x ELSE EntryIno(d, o)
             /\ EntryName(r, o) = IF o = off THEN name ELSE EntryName(d, o)
  <2>1. At(r, o) = At(d, o)
    <3>1. At(r, o)[1] = At(d, o)[1]
      BY <1>5, <1>6, <1>7, EntryPlace, Constants
    <3> QED BY <3>1 DEF At
  <2>2. At(d, o)[1] \in Block /\ At(d, o)[2] \in Word
    BY EntryPlace
  <2>3. CASE o = off
    BY <1>1, <1>3, <1>5, <2>1, <2>3 DEF EntryIno, EntryName, b, j
  <2>4. CASE o # off
    <3>1. ~(At(d, o)[1] = b /\ At(d, o)[2] = j)
      <4>1. At(d, o) # At(d, off)
        BY <2>4, EntryApart
      <4> QED BY <4>1 DEF At, b, j
    <3> QED BY <1>3, <1>5, <2>1, <2>2, <2>4, <3>1 DEF EntryIno, EntryName
  <2> QED BY <2>3, <2>4
<1>9. \A c \in Block : c # b => r.words[c] = d.words[c]
  BY <1>3, <1>5
<1> QED BY <1>5, <1>6, <1>7, <1>8, <1>9 DEF EntrySet, r, b

(* e has the entries of d, perhaps with blank ones behind them.            *)
Roomier(d, e) ==
  /\ Sound(e) /\ e.wild = d.wild /\ Pool(e) = Pool(d)
  /\ \A i \in Ino \ {ROOT_INO} : e.inode[i] = d.inode[i]
  /\ e.inode[ROOT_INO].ftype = "DIR" /\ e.inode[ROOT_INO].nlink = d.inode[ROOT_INO].nlink
  /\ e.inode[ROOT_INO].size = NBlocks(e, ROOT_INO) * NINDIRECT
  /\ Entries(d) \subseteq Entries(e)
  /\ \A o \in Entries(d) : /\ EntryIno(e, o) = EntryIno(d, o)
                           /\ EntryName(e, o) = EntryName(d, o)
  /\ \A o \in Entries(e) \ Entries(d) : EntryIno(e, o) = 0
  /\ \A i \in Ino, k \in Place : Has(d, i, k) =>
       /\ Has(e, i, k) /\ Rec(e, i, k) = Rec(d, i, k)
       /\ k # -1 => e.words[Rec(d, i, k)] = d.words[Rec(d, i, k)]

Cleared(d, b) == [d EXCEPT !.words[b] = [i \in Word |-> 0], !.names[b] = [i \in Word |-> NoName]]

LEMMA ClearedFacts ==
  ASSUME NEW d \in Disk, NEW b \in Block
  PROVE  LET e == Cleared(d, b) IN
         /\ e \in Disk /\ e.inode = d.inode /\ e.free = d.free /\ e.wild = d.wild
         /\ \A c \in Block : c # b => e.words[c] = d.words[c] /\ e.names[c] = d.names[c]
         /\ \A i \in Word : e.words[b][i] = 0
<1> DEFINE w == [d.words EXCEPT ![b] = [i \in Word |-> 0]]
           n == [d.names EXCEPT ![b] = [i \in Word |-> NoName]]
<1>1. w \in [Block -> [Word -> Value]] /\ n \in [Block -> [Word -> Names \cup {NoName}]]
  BY Constants DEF Disk, Value
<1>2. /\ \A c \in Block : c # b => w[c] = d.words[c] /\ n[c] = d.names[c]
      /\ \A i \in Word : w[b][i] = 0
  BY DEF Disk
<1>3. Cleared(d, b) = [d EXCEPT !.words = w, !.names = n]
  BY DEF Cleared
<1> HIDE DEF w, n
<1> QED BY <1>1, <1>2, <1>3 DEF Disk

(* The block added at the end of the directory, cleared.                   *)
LEMMA ClearsNew ==
  ASSUME NEW d, Sound(d), d.inode[ROOT_INO].ftype = "DIR",
         d.inode[ROOT_INO].size = NBlocks(d, ROOT_INO) * NINDIRECT,
         NEW a, Reshapes(d, a, ROOT_INO),
         a.inode[ROOT_INO].size = d.inode[ROOT_INO].size + NINDIRECT,
         NEW off, off = a.inode[ROOT_INO].size - 1,
         NEW e, e = Cleared(a, At(a, off)[1])
  PROVE  Roomier(d, e) /\ off \in Entries(e) /\ EntryIno(e, off) = 0 /\ e.inode = a.inode
<1> DEFINE N == NBlocks(d, ROOT_INO)
           x == d.inode[ROOT_INO].size
           b == At(a, off)[1]
<1>1. /\ d \in Disk /\ a \in Disk /\ Sound(a) /\ OneUse(a) /\ N \in Nat /\ x \in Int /\ x = N * NINDIRECT
      /\ NINDIRECT \in Nat /\ NINDIRECT >= 2 /\ NBlocks(a, ROOT_INO) = N + 1
      /\ a.inode[ROOT_INO].ftype = "DIR" /\ ROOT_INO \in Ino
  <2>1. Sound(a) /\ a.inode[ROOT_INO].ftype = "DIR"
    BY DEF Reshapes
  <2>2. d \in Disk /\ a \in Disk /\ OneUse(a) /\ N \in Nat
    BY <2>1, SoundFacts, Constants
  <2>3. x \in Int
    BY <2>2, DiskTyped, Constants DEF FileSize
  <2>4. NBlocks(a, ROOT_INO) = N + 1
    BY <2>3, SizeSteps DEF NBlocks
  <2> QED BY <2>1, <2>2, <2>3, <2>4, Constants
<1> HIDE DEF N
<1>2. x \in Nat /\ (N+1) * NINDIRECT = x + NINDIRECT
  BY <1>1
<1>3. off \in Nat /\ off \in Entries(a) /\ Entries(a) = 0 .. x + NINDIRECT - 1 /\ Entries(d) = 0 .. x-1
  BY <1>1, <1>2 DEF Entries
<1>4. \A o \in Entries(a) \ Entries(d) : o \div NINDIRECT = N
  <2> SUFFICES ASSUME NEW o \in Entries(a) \ Entries(d) PROVE o \div NINDIRECT = N
    OBVIOUS
  <2>1. o - x \in Word /\ o = N * NINDIRECT + (o - x)
    <3>1. o \in 0 .. x + NINDIRECT - 1 /\ o \notin 0 .. x-1
      BY <1>3
    <3>2. o \in Int /\ o >= x /\ o <= x + NINDIRECT - 1
      BY <1>1, <1>2, <3>1
    <3> QED BY <1>1, <3>2 DEF Word
  <2> QED BY <1>1, <2>1, WordOfBlock
<1>5. \A o \in Entries(d) : o \div NINDIRECT # N
  <2> SUFFICES ASSUME NEW o \in Entries(d), o \div NINDIRECT = N PROVE FALSE
    OBVIOUS
  <2>1. o \in Int /\ o = N * NINDIRECT + (o % NINDIRECT) /\ o % NINDIRECT \in Word
    BY <1>3, Division
  <2> QED BY <1>1, <1>3, <2>1 DEF Word
<1>6. b \in Block /\ Has(a, ROOT_INO, N) /\ N \in Place /\ b = Rec(a, ROOT_INO, N) /\ N # -1
  <2>1. off \div NINDIRECT = N
    BY <1>1, <1>2, <1>3, <1>4
  <2> QED BY <1>1, <1>3, <2>1, EntryPlace
<1>7. /\ e \in Disk /\ e.inode = a.inode /\ e.free = a.free /\ e.wild = a.wild
      /\ \A c \in Block : c # b => e.words[c] = a.words[c] /\ e.names[c] = a.names[c]
      /\ \A i \in Word : e.words[b][i] = 0
  BY <1>1, <1>6, ClearedFacts
<1>8. /\ Sound(e) /\ Pool(e) = Pool(a)
      /\ \A i \in Ino, k \in Place : /\ Has(e, i, k) <=> Has(a, i, k)
                                     /\ Has(a, i, k) => Rec(e, i, k) = Rec(a, i, k)
  <2>1. \A i \in Ino : Has(a, i, -1) => a.inode[i].indirect \notin {b}
    BY <1>1, <1>3, NoIndirect
  <2>2. \A c \in Block \ {b} : e.words[c] = a.words[c]
    BY <1>7
  <2> HIDE DEF b
  <2> QED BY <1>1, <1>7, <2>1, <2>2, WordsElsewhere
<1> HIDE DEF b
<1>9. ASSUME NEW i \in Ino, NEW k \in Place, Has(d, i, k)
      PROVE  /\ Has(a, i, k) /\ Has(e, i, k)
             /\ Rec(a, i, k) = Rec(d, i, k) /\ Rec(e, i, k) = Rec(d, i, k)
             /\ Rec(d, i, k) # b
             /\ k # -1 => e.words[Rec(d, i, k)] = d.words[Rec(d, i, k)]
  <2>1. Has(a, i, k) /\ ~(i = ROOT_INO /\ k = N)
    <3>1. CASE i # ROOT_INO
      <4>1. a.inode[i] = d.inode[i]
        BY <3>1 DEF Reshapes
      <4> QED BY <1>9, <3>1, <4>1 DEF Has, NBlocks
    <3>2. CASE i = ROOT_INO
      <4>1. k \in Int /\ NDIRECT \in Nat
        BY Constants DEF Place
      <4> QED BY <1>1, <1>6, <1>9, <3>2, <4>1 DEF Has, N
    <3> QED BY <3>1, <3>2
  <2>2. Rec(a, i, k) = Rec(d, i, k) /\ (k # -1 => a.words[Rec(d, i, k)] = d.words[Rec(d, i, k)])
    BY <1>9, <2>1 DEF Reshapes
  <2>3. Rec(d, i, k) # b /\ Rec(d, i, k) \in Block
    <3>1. Rec(a, i, k) # Rec(a, ROOT_INO, N)
      BY <1>1, <1>6, <2>1 DEF OneUse
    <3>2. Rec(a, i, k) \in Block
      BY <1>1, <2>1, Constants DEF OneUse
    <3> QED BY <1>6, <2>2, <3>1, <3>2
  <2> QED BY <1>7, <1>8, <2>1, <2>2, <2>3
<1>10. Entries(e) = Entries(a) /\ e.inode[ROOT_INO].ftype = "DIR" /\ Entries(d) \subseteq Entries(e)
  <2>1. Entries(e) = Entries(a) /\ e.inode[ROOT_INO].ftype = "DIR"
    BY <1>1, <1>7 DEF Entries
  <2>2. 0 .. x-1 \subseteq 0 .. x + NINDIRECT - 1
    BY <1>1
  <2> QED BY <1>3, <2>1, <2>2
<1>11. ASSUME NEW o \in Entries(d)
       PROVE  EntryIno(e, o) = EntryIno(d, o) /\ EntryName(e, o) = EntryName(d, o)
  <2> DEFINE k == o \div NINDIRECT
  <2>1. k \in Place /\ k # -1 /\ Has(d, ROOT_INO, k) /\ At(d, o)[1] = Rec(d, ROOT_INO, k)
        /\ At(d, o)[1] \in Block
    BY EntryPlace
  <2>2. o \in Entries(e) /\ At(e, o)[1] = Rec(e, ROOT_INO, k)
    BY <1>8, <1>10, EntryPlace
  <2> HIDE DEF k
  <2>3. At(e, o)[1] = At(d, o)[1] /\ At(d, o)[1] # b
        /\ e.words[At(d, o)[1]] = d.words[At(d, o)[1]]
    BY <1>1, <1>9, <2>1, <2>2
  <2>4. e.names[At(d, o)[1]] = d.names[At(d, o)[1]]
    BY <1>7, <2>1, <2>3 DEF Reshapes
  <2>5. At(e, o)[2] = At(d, o)[2]
    BY DEF At
  <2> QED BY <2>3, <2>4, <2>5 DEF EntryIno, EntryName
<1>12. ASSUME NEW o \in Entries(e) \ Entries(d) PROVE EntryIno(e, o) = 0
  <2>1. At(e, o)[1] = Rec(e, ROOT_INO, N) /\ At(e, o)[2] \in Word
    BY <1>4, <1>8, <1>10, EntryPlace
  <2>2. Rec(e, ROOT_INO, N) = b
    BY <1>1, <1>6, <1>8
  <2> QED BY <1>7, <2>1, <2>2 DEF EntryIno
<1>13. off \in Entries(e) \ Entries(d)
  <2>1. off = x + NINDIRECT - 1 /\ off >= x
    BY <1>1
  <2>2. off \notin 0 .. x-1
    BY <1>1, <2>1
  <2> QED BY <1>3, <1>10, <2>2
<1>14. e.inode[ROOT_INO].size = NBlocks(e, ROOT_INO) * NINDIRECT
  BY <1>1, <1>2, <1>7 DEF NBlocks
<1>15. Roomier(d, e)
  BY <1>7, <1>8, <1>9, <1>10, <1>11, <1>12, <1>14 DEF Roomier, Reshapes
<1> QED BY <1>7, <1>12, <1>13, <1>15

LEMMA BlankKeeps ==
  ASSUME NEW d, Sound(d), d.inode[ROOT_INO].ftype = "DIR",
         d.inode[ROOT_INO].size = NBlocks(d, ROOT_INO) * NINDIRECT,
         NEW bl, bl = BlankDirentry(d), bl.ret = "ok", NBlocks(bl.disk, ROOT_INO) <= Small
  PROVE  Roomier(d, bl.disk) /\ bl.off \in Entries(bl.disk) /\ EntryIno(bl.disk, bl.off) = 0
<1> DEFINE blank == {off \in Entries(d) : EntryIno(d, off) = 0}
           added == AddBlock(d, ROOT_INO)
           a == added.disk
           off == a.inode[ROOT_INO].size - 1
           e == Cleared(a, At(a, off)[1])
<1>0. d \in Disk /\ ROOT_INO \in Ino /\ d.inode[ROOT_INO].size \in Int
  BY SoundFacts, DiskTyped, Constants DEF Sound, FileSize
<1>1. CASE blank # {}
  <2>1. bl = [off |-> Min(blank), ret |-> "ok", disk |-> d]
    BY <1>1 DEF BlankDirentry
  <2>2. Min(blank) \in blank
    <3>1. Entries(d) \subseteq Nat /\ IsFiniteSet(Entries(d))
      BY <1>0, FS_Interval DEF Entries
    <3>2. blank \subseteq Nat /\ IsFiniteSet(blank)
      BY <3>1, FS_Subset
    <3> HIDE DEF blank
    <3> QED BY <1>1, <3>2, MinFacts
  <2>3. Roomier(d, d)
    BY DEF Roomier
  <2> QED BY <2>1, <2>2, <2>3
<1>2. CASE blank = {}
  <2>1. added.ret = "ok" /\ bl = [off |-> off, ret |-> "ok", disk |-> e]
    <3>1. CASE added.ret = "ok"
      BY <1>2, <3>1 DEF BlankDirentry, Cleared
    <3>2. CASE added.ret # "ok"
      BY <1>2, <3>2 DEF BlankDirentry
    <3> QED BY <3>1, <3>2
  <2>2. Adds(d, added, ROOT_INO)
    BY <1>0, AddTyped
  <2> HIDE DEF added
  <2>3. a \in Disk /\ a.inode[ROOT_INO].size = d.inode[ROOT_INO].size + NINDIRECT
    BY <2>1, <2>2 DEF Adds, Result
  <2>4. e.inode = a.inode
    BY DEF Cleared
  <2>5. NBlocks(a, ROOT_INO) <= Small
    BY <2>1, <2>4 DEF NBlocks
  <2>6. Reshapes(d, a, ROOT_INO)
    BY <1>0, <2>5, AddKeeps DEF added
  <2> HIDE DEF e
  <2>7. Roomier(d, e) /\ off \in Entries(e) /\ EntryIno(e, off) = 0
    BY <2>3, <2>6, ClearsNew DEF e
  <2> QED BY <2>1, <2>7
<1> QED BY <1>1, <1>2

(* Only what is said of the inodes in X changes, and those have no blocks. *)
SameFile(o, p) ==
  /\ o.size = p.size /\ o.ftype = p.ftype /\ o.direct = p.direct
  /\ o.indirect = p.indirect /\ o.indirect2 = p.indirect2

LEMMA InodesKeep ==
  ASSUME NEW d, Sound(d), NEW r \in Disk, r.free = d.free, r.words = d.words,
         NEW X, \A i \in Ino \ X : SameFile(d.inode[i], r.inode[i]),
         \A i \in X : Tidy(r.inode[i]) /\ \A k \in Place : ~Has(r, i, k)
  PROVE  /\ Sound(r)
         /\ \A b \in Pool(d) : b \in Pool(r) \/ \E i \in X \cap Ino, k \in Place : Has(d, i, k) /\ b = Rec(d, i, k)
         /\ X = {} => Pool(r) = Pool(d)
         /\ \A i \in Ino, k \in Place : i \notin X =>
              (Has(r, i, k) <=> Has(d, i, k)) /\ Rec(r, i, k) = Rec(d, i, k)
<1>1. \A i \in Ino, k \in Place : i \notin X =>
              (Has(r, i, k) <=> Has(d, i, k)) /\ Rec(r, i, k) = Rec(d, i, k)
  BY DEF SameFile, Has, Rec, NBlocks
<1>2. OneUse(r)
  <2>1. OneUse(d)
    BY DEF Sound
  <2> QED BY <1>1, <2>1 DEF OneUse
<1>3. ASSUME NEW i \in Ino PROVE Tidy(r.inode[i])
  <2>1. CASE i \in X
    BY <2>1
  <2>2. CASE i \notin X
    BY <2>2 DEF Sound, SameFile, Tidy
  <2> QED BY <2>1, <2>2
<1>4. ASSUME NEW b \in Pool(d)
      PROVE b \in Pool(r) \/ \E i \in X \cap Ino, k \in Place : Has(d, i, k) /\ b = Rec(d, i, k)
  <2>1. CASE b \in d.free
    BY <2>1, PoolFacts
  <2>2. ASSUME NEW i \in Ino, NEW k \in Place, Has(d, i, k), b = Rec(d, i, k)
        PROVE b \in Pool(r) \/ \E i_ \in X \cap Ino, k_ \in Place : Has(d, i_, k_) /\ b = Rec(d, i_, k_)
    <3>1. CASE i \in X
      BY <2>2, <3>1
    <3>2. CASE i \notin X
      <4>1. Has(r, i, k) /\ b = Rec(r, i, k)
        BY <1>1, <2>2, <3>2
      <4> QED BY <4>1, PoolFacts
    <3> QED BY <3>1, <3>2
  <2> QED BY <2>1, <2>2, PoolFacts
<1>5. ASSUME X = {} PROVE Pool(r) = Pool(d)
  <2>1. ASSUME NEW b PROVE b \in Pool(r) <=> b \in Pool(d)
    BY <1>1, <1>5, PoolFacts
  <2> QED BY <2>1
<1> QED BY <1>1, <1>2, <1>3, <1>4, <1>5 DEF Sound

LEMMA FileInodes ==
  \A i : i \in Ino \ 0 .. ROOT_INO <=> i \in Ino /\ i # 0 /\ i # ROOT_INO
<1>1. 0 .. ROOT_INO = {0, ROOT_INO}
  BY DEF ROOT_INO
<1> QED BY <1>1

Naming(d, i) == {off \in Entries(d) : EntryIno(d, off) = i}

DirSound(d) ==
  /\ d.inode[ROOT_INO].ftype = "DIR"
  /\ d.inode[ROOT_INO].size = NBlocks(d, ROOT_INO) * NINDIRECT
  /\ \A off \in Entries(d) : EntryIno(d, off) \in Ino \ {ROOT_INO}
  /\ \A i \in Ino \ 0 .. ROOT_INO : d.inode[i].nlink = Cardinality(Naming(d, i))
  /\ \A o, p \in Entries(d) :
       EntryIno(d, o) # 0 /\ EntryIno(d, p) # 0 /\ EntryName(d, o) = EntryName(d, p) => o = p

LEMMA NamingFinite ==
  ASSUME NEW d \in Disk, NEW i
  PROVE  /\ Entries(d) \subseteq Nat /\ IsFiniteSet(Entries(d))
         /\ Naming(d, i) \subseteq Entries(d) /\ IsFiniteSet(Naming(d, i))
<1>1. d.inode[ROOT_INO].size \in Int
  BY DiskTyped, Constants DEF FileSize
<1>2. Entries(d) \subseteq Nat /\ IsFiniteSet(Entries(d))
  BY <1>1, FS_Interval DEF Entries
<1> QED BY <1>2, FS_Subset DEF Naming

LEMMA DirSame ==
  ASSUME NEW d, DirSound(d), NEW r,
         r.inode[ROOT_INO].ftype = "DIR", r.inode[ROOT_INO].size = d.inode[ROOT_INO].size,
         \A o \in Entries(d) : EntryIno(r, o) = EntryIno(d, o) /\ EntryName(r, o) = EntryName(d, o),
         \A i \in Ino \ 0 .. ROOT_INO : r.inode[i].nlink = d.inode[i].nlink
  PROVE  DirSound(r)
<1>1. Entries(r) = Entries(d) /\ NBlocks(r, ROOT_INO) = NBlocks(d, ROOT_INO)
  BY DEF Entries, NBlocks
<1>2. \A i : Naming(r, i) = Naming(d, i)
  BY <1>1 DEF Naming
<1> QED BY <1>1, <1>2 DEF DirSound

(* Growing and shrinking a file leaves the directory as it is.             *)
LEMMA ReshapeDir ==
  ASSUME NEW d, Sound(d), DirSound(d), NEW ino \in Ino, ino # ROOT_INO,
         NEW r, Reshapes(d, r, ino)
  PROVE  Sound(r) /\ DirSound(r)
<1>1. Sound(r) /\ r.inode[ROOT_INO] = d.inode[ROOT_INO] /\ d.inode[ROOT_INO].ftype = "DIR"
  BY Constants DEF Reshapes, DirSound
<1>2. \A i \in Ino : r.inode[i].nlink = d.inode[i].nlink
  BY DEF Reshapes
<1>3. ASSUME NEW o \in Entries(d)
      PROVE  EntryIno(r, o) = EntryIno(d, o) /\ EntryName(r, o) = EntryName(d, o)
  <2>1. PICK k \in Place : /\ k = o \div NINDIRECT /\ k # -1 /\ Has(d, ROOT_INO, k)
                           /\ At(d, o)[1] = Rec(d, ROOT_INO, k)
    BY <1>1, EntryPlace
  <2>2. o \in Entries(r)
    BY <1>1 DEF Entries
  <2>3. Has(r, ROOT_INO, k) /\ At(r, o)[1] = Rec(r, ROOT_INO, k)
    BY <1>1, <2>1, <2>2, EntryPlace
  <2>4. At(r, o)[1] = At(d, o)[1] /\ r.words[At(d, o)[1]] = d.words[At(d, o)[1]]
    BY <2>1, <2>3, Constants DEF Reshapes
  <2>5. At(r, o)[2] = At(d, o)[2] /\ r.names = d.names
    BY DEF At, Reshapes
  <2> QED BY <2>4, <2>5 DEF EntryIno, EntryName
<1> QED BY <1>1, <1>2, <1>3, DirSame

(* So does writing to other blocks.                                        *)
LEMMA CopiedKeeps ==
  ASSUME NEW d, Sound(d), DirSound(d), NEW b \in Block, NEW r \in Disk,
         r.inode = d.inode, r.free = d.free, r.names = d.names,
         \A c \in Block : c # b => r.words[c] = d.words[c],
         b \notin {At(d, off)[1] : off \in Entries(d)},
         b \notin {d.inode[i].indirect : i \in Ino}
  PROVE  /\ Sound(r) /\ DirSound(r) /\ Pool(r) = Pool(d)
         /\ \A i \in Ino, k \in Place : /\ Has(r, i, k) <=> Has(d, i, k)
                                        /\ Has(d, i, k) => Rec(r, i, k) = Rec(d, i, k)
<1>1. /\ Sound(r) /\ Pool(r) = Pool(d)
      /\ \A i \in Ino, k \in Place : /\ Has(r, i, k) <=> Has(d, i, k)
                                     /\ Has(d, i, k) => Rec(r, i, k) = Rec(d, i, k)
  <2>1. \A c \in Block \ {b} : r.words[c] = d.words[c]
    OBVIOUS
  <2>2. \A i \in Ino : d.inode[i].indirect \notin {b}
    OBVIOUS
  <2> QED BY <2>1, <2>2, WordsElsewhere
<1>2. d.inode[ROOT_INO].ftype = "DIR" /\ Entries(r) = Entries(d)
  BY DEF DirSound, Entries
<1>3. ASSUME NEW o \in Entries(d)
      PROVE  EntryIno(r, o) = EntryIno(d, o) /\ EntryName(r, o) = EntryName(d, o)
  <2>1. At(r, o)[1] = At(d, o)[1] /\ At(d, o)[1] \in Block /\ At(d, o)[1] # b
    BY <1>1, <1>2, EntryPlace, Constants
  <2>2. At(r, o)[2] = At(d, o)[2]
    BY DEF At
  <2> QED BY <2>1, <2>2 DEF EntryIno, EntryName
<1>4. DirSound(r)
  BY <1>2, <1>3, DirSame
<1> QED BY <1>1, <1>4

LEMMA EntriesCarry ==
  ASSUME NEW s, Sound(s), s.inode[ROOT_INO].ftype = "DIR", NEW r, Sound(r),
         r.words = s.words, r.names = s.names, SameFile(s.inode[ROOT_INO], r.inode[ROOT_INO])
  PROVE  /\ r.inode[ROOT_INO].ftype = "DIR" /\ r.inode[ROOT_INO].size = s.inode[ROOT_INO].size
         /\ NBlocks(r, ROOT_INO) = NBlocks(s, ROOT_INO) /\ Entries(r) = Entries(s)
         /\ \A o \in Entries(s) : EntryIno(r, o) = EntryIno(s, o) /\ EntryName(r, o) = EntryName(s, o)
<1>1. /\ r.inode[ROOT_INO].ftype = "DIR" /\ r.inode[ROOT_INO].size = s.inode[ROOT_INO].size
      /\ NBlocks(r, ROOT_INO) = NBlocks(s, ROOT_INO) /\ Entries(r) = Entries(s)
  BY DEF SameFile, NBlocks, Entries
<1>2. ASSUME NEW o \in Entries(s)
      PROVE  EntryIno(r, o) = EntryIno(s, o) /\ EntryName(r, o) = EntryName(s, o)
  <2>1. At(s, o)[1] = Rec(s, ROOT_INO, o \div NINDIRECT)
    BY EntryPlace
  <2>2. At(r, o)[1] = Rec(r, ROOT_INO, o \div NINDIRECT)
    BY <1>1, EntryPlace
  <2>3. Rec(r, ROOT_INO, o \div NINDIRECT) = Rec(s, ROOT_INO, o \div NINDIRECT)
    BY DEF SameFile, Rec
  <2>4. At(r, o)[2] = At(s, o)[2]
    BY DEF At
  <2> QED BY <2>1, <2>2, <2>3, <2>4 DEF EntryIno, EntryName
<1> QED BY <1>1, <1>2

Linked(d, ino, oi, links) ==
  [SetInode(d, ino, oi) EXCEPT !.inode[ROOT_INO].nlink = @ + links]

LEMMA RootLinks ==
  ASSUME NEW d \in Disk, NEW ino \in Ino, ino # ROOT_INO, NEW oi \in Inode, NEW links \in Int
  PROVE  LET r == Linked(d, ino, oi, links) IN
         /\ r \in Disk /\ r.free = d.free /\ r.words = d.words /\ r.names = d.names
         /\ r.wild = d.wild /\ r.inode[ino] = oi
         /\ SameFile(d.inode[ROOT_INO], r.inode[ROOT_INO])
         /\ \A i \in Ino \ {ino, ROOT_INO} : r.inode[i] = d.inode[i]
<1> DEFINE r == Linked(d, ino, oi, links)
           root == d.inode[ROOT_INO]
           o == [root EXCEPT !.nlink = @ + links]
           f == SetInode(d, ino, oi)
<1>1. ROOT_INO \in Ino /\ root \in Inode
  BY DiskTyped, Constants
<1>2. o \in Inode /\ SameFile(root, o)
  BY <1>1 DEF Inode, SameFile
<1>3. /\ f \in Disk /\ f.free = d.free /\ f.words = d.words /\ f.names = d.names
      /\ f.wild = d.wild /\ f.inode[ino] = oi
      /\ \A i \in Ino \ {ino} : f.inode[i] = d.inode[i]
  BY InodeSet
<1>4. r = SetInode(f, ROOT_INO, o)
  <2>1. [d.inode EXCEPT ![ino] = oi][ROOT_INO] = root
    BY <1>1 DEF Disk
  <2> QED BY <2>1 DEF SetInode, Disk, Linked
<1> HIDE DEF f, o
<1>5. LET t == SetInode(f, ROOT_INO, o) IN
      /\ t \in Disk /\ t.free = f.free /\ t.words = f.words /\ t.names = f.names
      /\ t.wild = f.wild /\ t.inode[ROOT_INO] = o
      /\ \A i \in Ino \ {ROOT_INO} : t.inode[i] = f.inode[i]
  BY <1>1, <1>2, <1>3, InodeSet
<1> HIDE DEF r
<1>6. /\ r \in Disk /\ r.free = f.free /\ r.words = f.words /\ r.names = f.names
      /\ r.wild = f.wild /\ r.inode[ROOT_INO] = o
      /\ \A i \in Ino \ {ROOT_INO} : r.inode[i] = f.inode[i]
  BY <1>4, <1>5
<1> QED BY <1>2, <1>3, <1>6 DEF r

(* A name is entered for ino, which becomes oi.                            *)
LEMMA EntersKeeps ==
  ASSUME NEW d, Sound(d), DirSound(d), NEW ino \in Ino \ 0 .. ROOT_INO, NEW name \in Names,
         Named(d, name) = {}, NEW e, Roomier(d, e), NEW off \in Entries(e), EntryIno(e, off) = 0,
         NEW oi \in Inode, oi.nlink = d.inode[ino].nlink + 1, NEW links \in Int,
         NEW r, r = Linked(SetEntry(e, off, ino, name), ino, oi, links),
         ~SameFile(d.inode[ino], oi) =>
            Tidy(oi) /\ (oi.ftype = "SYMLINK" \/ Size2NBlocks(oi.size) = 0)
  PROVE  /\ Sound(r) /\ DirSound(r)
         /\ \A b \in Pool(d) : b \in Pool(r) \/ b \in Owned(Places(d, ino))
         /\ SameFile(d.inode[ino], oi) => Pool(r) = Pool(d)
<1> DEFINE s == SetEntry(e, off, ino, name)
           X == IF SameFile(d.inode[ino], oi) THEN {} ELSE {ino}
<1>1. /\ Sound(e) /\ e.inode[ROOT_INO].ftype = "DIR" /\ ino \in Value /\ ino \in Ino /\ ino # ROOT_INO
      /\ ino # 0 /\ ROOT_INO \in Ino /\ Pool(e) = Pool(d)
  BY FileInodes, Constants DEF Roomier, Value
<1>2. /\ Sound(s) /\ s.inode = e.inode /\ Pool(s) = Pool(e)
      /\ \A i \in Ino, k \in Place : /\ Has(s, i, k) <=> Has(e, i, k)
                                     /\ Has(e, i, k) => Rec(s, i, k) = Rec(e, i, k)
      /\ EntrySet(e, s, off, ino, name)
  BY <1>1, SetEntryKeeps
<1> HIDE DEF s
<1>3. /\ r \in Disk /\ r.free = s.free /\ r.words = s.words /\ r.names = s.names
      /\ r.wild = s.wild /\ r.inode[ino] = oi
      /\ SameFile(s.inode[ROOT_INO], r.inode[ROOT_INO])
      /\ \A i \in Ino \ {ino, ROOT_INO} : r.inode[i] = s.inode[i]
  <2>1. s \in Disk
    BY <1>2 DEF Sound
  <2> QED BY <1>1, <2>1, RootLinks DEF s
<1>4. s.inode[ino] = d.inode[ino]
  BY <1>1, <1>2 DEF Roomier
<1>5. \A i \in Ino \ X : SameFile(s.inode[i], r.inode[i])
  <2> SUFFICES ASSUME NEW i \in Ino \ X PROVE SameFile(s.inode[i], r.inode[i])
    OBVIOUS
  <2>1. CASE i = ino
    BY <1>3, <1>4, <2>1
  <2>2. CASE i = ROOT_INO
    BY <1>3, <2>2
  <2>3. CASE i \in Ino \ {ino, ROOT_INO}
    BY <1>3, <2>3 DEF SameFile
  <2> QED BY <2>1, <2>2, <2>3
<1>6. \A i \in X : Tidy(r.inode[i]) /\ \A k \in Place : ~Has(r, i, k)
  <2> SUFFICES ASSUME NEW i \in X, NEW k \in Place PROVE Tidy(r.inode[i]) /\ ~Has(r, i, k)
    BY PlaceFacts
  <2>0. i = ino /\ ~SameFile(d.inode[ino], oi)
    OBVIOUS
  <2>1. Tidy(oi) /\ (oi.ftype = "SYMLINK" \/ Size2NBlocks(oi.size) = 0)
    BY <2>0
  <2>2. NDIRECT \in Nat /\ k \in Int /\ k >= -1
    BY Constants DEF Place
  <2> HIDE DEF X
  <2> QED BY <1>3, <2>0, <2>1, <2>2 DEF Has, NBlocks
<1>7. /\ Sound(r)
      /\ \A b \in Pool(s) : b \in Pool(r) \/ \E i \in X \cap Ino, k \in Place : Has(s, i, k) /\ b = Rec(s, i, k)
      /\ X = {} => Pool(r) = Pool(s)
  <2> HIDE DEF X
  <2> QED BY <1>2, <1>3, <1>5, <1>6, InodesKeep
<1>8. ASSUME NEW b \in Pool(d) PROVE b \in Pool(r) \/ b \in Owned(Places(d, ino))
  <2> SUFFICES ASSUME b \notin Pool(r) PROVE b \in Owned(Places(d, ino))
    OBVIOUS
  <2>1. PICK i \in X \cap Ino, k \in Place : Has(s, i, k) /\ b = Rec(s, i, k)
    BY <1>1, <1>2, <1>7
  <2>2. i = ino /\ Has(s, ino, k) /\ b = Rec(s, ino, k)
    BY <2>1
  <2>3. Has(e, ino, k) /\ b = Rec(e, ino, k)
    BY <1>1, <1>2, <2>2
  <2>4. Has(d, ino, k)
    BY <1>2, <1>4, <2>3 DEF Has, NBlocks
  <2>5. Rec(e, ino, k) = Rec(d, ino, k)
    BY <1>1, <2>4 DEF Roomier
  <2> QED BY <1>1, <2>3, <2>4, <2>5, OwnedIs
<1>9. DirSound(r)
  <2>1. /\ r.inode[ROOT_INO].ftype = "DIR" /\ r.inode[ROOT_INO].size = e.inode[ROOT_INO].size
        /\ NBlocks(r, ROOT_INO) = NBlocks(e, ROOT_INO) /\ Entries(r) = Entries(e)
        /\ \A o \in Entries(e) : /\ EntryIno(r, o) = IF o = off THEN ino ELSE EntryIno(e, o)
                                 /\ EntryName(r, o) = IF o = off THEN name ELSE EntryName(e, o)
    <3>1. /\ r.inode[ROOT_INO].ftype = "DIR" /\ r.inode[ROOT_INO].size = s.inode[ROOT_INO].size
          /\ NBlocks(r, ROOT_INO) = NBlocks(s, ROOT_INO) /\ Entries(r) = Entries(s)
          /\ \A o \in Entries(s) : EntryIno(r, o) = EntryIno(s, o) /\ EntryName(r, o) = EntryName(s, o)
      BY <1>1, <1>2, <1>3, <1>7, EntriesCarry
    <3> QED BY <1>2, <3>1 DEF EntrySet, NBlocks
  <2>2. /\ Entries(d) \subseteq Entries(e)
        /\ \A o \in Entries(d) : EntryIno(e, o) = EntryIno(d, o) /\ EntryName(e, o) = EntryName(d, o)
        /\ \A o \in Entries(e) \ Entries(d) : EntryIno(e, o) = 0
    BY DEF Roomier
  <2>3. \A o \in Entries(d) : EntryIno(d, o) \in Ino \ {ROOT_INO}
    BY DEF DirSound
  <2>4. ASSUME NEW o \in Entries(r) PROVE EntryIno(r, o) \in Ino \ {ROOT_INO}
    BY <1>1, <2>1, <2>2, <2>3, Constants DEF ROOT_INO
  <2>5. ASSUME NEW i \in Ino \ 0 .. ROOT_INO PROVE r.inode[i].nlink = Cardinality(Naming(r, i))
    <3>1. i # 0 /\ i # ROOT_INO /\ d.inode[i].nlink = Cardinality(Naming(d, i))
      BY FileInodes DEF DirSound
    <3>2. CASE i # ino
      <4>1. Naming(r, i) = Naming(d, i)
        BY <2>1, <2>2, <3>1, <3>2 DEF Naming
      <4>2. r.inode[i] = d.inode[i]
        BY <1>2, <1>3, <3>1, <3>2 DEF Roomier
      <4> QED BY <3>1, <4>1, <4>2
    <3>3. CASE i = ino
      <4>1. Naming(r, ino) = Naming(d, ino) \cup {off}
        BY <1>1, <2>1, <2>2 DEF Naming
      <4>2. off \notin Naming(d, ino)
        BY <1>1, <2>2 DEF Naming
      <4>3. IsFiniteSet(Naming(d, ino))
        BY NamingFinite DEF Sound
      <4>4. Cardinality(Naming(d, ino) \cup {off}) = Cardinality(Naming(d, ino)) + 1
        BY <4>2, <4>3, FS_AddElement
      <4> QED BY <1>3, <3>1, <3>3, <4>1, <4>4
    <3> QED BY <3>2, <3>3
  <2>6. ASSUME NEW o \in Entries(r), NEW p \in Entries(r),
               EntryIno(r, o) # 0, EntryIno(r, p) # 0, EntryName(r, o) = EntryName(r, p)
        PROVE  o = p
    <3>1. \A q \in Entries(d) : EntryIno(d, q) # 0 => EntryName(d, q) # name
      BY DEF Named
    <3>2. CASE o # off /\ p # off
      <4>1. o \in Entries(d) /\ p \in Entries(d)
        BY <2>1, <2>2, <2>6, <3>2
      <4> QED BY <2>1, <2>2, <2>6, <3>2, <4>1 DEF DirSound
    <3>3. CASE o = off /\ p # off
      BY <2>1, <2>2, <2>6, <3>1, <3>3
    <3>4. CASE o # off /\ p = off
      BY <2>1, <2>2, <2>6, <3>1, <3>4
    <3> QED BY <3>2, <3>3, <3>4
  <2>7. r.inode[ROOT_INO].size = NBlocks(r, ROOT_INO) * NINDIRECT
    BY <2>1 DEF Roomier
  <2> QED BY <2>1, <2>4, <2>5, <2>6, <2>7 DEF DirSound
<1>10. SameFile(d.inode[ino], oi) => Pool(r) = Pool(d)
  BY <1>1, <1>2, <1>7
<1> QED BY <1>7, <1>8, <1>9, <1>10

OneLess(d, ino) == [d EXCEPT !.inode[ino].nlink = @ - 1]

LEMMA UnlinkedKeeps ==
  ASSUME NEW d, Sound(d), DirSound(d), NEW off \in Entries(d), EntryIno(d, off) # 0,
         NEW r, r = OneLess(SetEntry(d, off, 0, NoName), EntryIno(d, off))
  PROVE  Sound(r) /\ DirSound(r) /\ Pool(r) = Pool(d)
<1> DEFINE s == SetEntry(d, off, 0, NoName)
           ino == EntryIno(d, off)
           o1 == [s.inode[ino] EXCEPT !.nlink = @ - 1]
<1>1. /\ d.inode[ROOT_INO].ftype = "DIR" /\ 0 \in Value /\ ino \in Ino /\ ino # ROOT_INO
      /\ ino # 0 /\ ROOT_INO \in Ino /\ ino \in Ino \ 0 .. ROOT_INO
  <2>1. d.inode[ROOT_INO].ftype = "DIR" /\ ino \in Ino /\ ino # ROOT_INO
    BY DEF DirSound
  <2> HIDE DEF ino
  <2>2. ino # 0
    BY DEF ino
  <2>3. ino \in Ino \ 0 .. ROOT_INO
    BY <2>1, <2>2, FileInodes
  <2> QED BY <2>1, <2>2, <2>3, Constants DEF Value
<1>2. /\ Sound(s) /\ s.inode = d.inode /\ Pool(s) = Pool(d)
      /\ EntrySet(d, s, off, 0, NoName)
  BY <1>1, SetEntryKeeps
<1> HIDE DEF s, ino
<1>3. s \in Disk /\ s.inode[ino] \in Inode
  BY <1>1, <1>2, SoundFacts
<1>4. o1 \in Inode /\ SameFile(s.inode[ino], o1) /\ o1.nlink = s.inode[ino].nlink - 1
  BY <1>3 DEF Inode, SameFile
<1>5. r = SetInode(s, ino, o1)
  BY <1>3 DEF OneLess, SetInode, Disk, s, ino
<1> HIDE DEF o1
<1>51. LET t == SetInode(s, ino, o1) IN
       /\ t \in Disk /\ t.free = s.free /\ t.words = s.words /\ t.names = s.names
       /\ t.wild = s.wild /\ t.inode[ino] = o1
       /\ \A i \in Ino \ {ino} : t.inode[i] = s.inode[i]
  BY <1>1, <1>3, <1>4, InodeSet
<1>6. /\ r \in Disk /\ r.free = s.free /\ r.words = s.words /\ r.names = s.names
      /\ r.wild = s.wild /\ r.inode[ino] = o1
      /\ \A i \in Ino \ {ino} : r.inode[i] = s.inode[i]
  BY <1>5, <1>51
<1>7. \A i \in Ino \ {} : SameFile(s.inode[i], r.inode[i])
  BY <1>4, <1>6 DEF SameFile
<1>8. Sound(r) /\ Pool(r) = Pool(s)
  <2>1. PICK X : X = {}
    OBVIOUS
  <2>2. /\ \A i \in Ino \ X : SameFile(s.inode[i], r.inode[i])
        /\ \A i \in X : Tidy(r.inode[i]) /\ \A k \in Place : ~Has(r, i, k)
    BY <1>7, <2>1
  <2> QED BY <1>2, <1>6, <2>1, <2>2, InodesKeep
<1>9. DirSound(r)
  <2>1. /\ r.inode[ROOT_INO].ftype = "DIR" /\ r.inode[ROOT_INO].size = d.inode[ROOT_INO].size
        /\ NBlocks(r, ROOT_INO) = NBlocks(d, ROOT_INO) /\ Entries(r) = Entries(d)
        /\ \A o \in Entries(d) : /\ EntryIno(r, o) = IF o = off THEN 0 ELSE EntryIno(d, o)
                                 /\ EntryName(r, o) = IF o = off THEN NoName ELSE EntryName(d, o)
    <3>1. /\ r.inode[ROOT_INO].ftype = "DIR" /\ r.inode[ROOT_INO].size = s.inode[ROOT_INO].size
          /\ NBlocks(r, ROOT_INO) = NBlocks(s, ROOT_INO) /\ Entries(r) = Entries(s)
          /\ \A o \in Entries(s) : EntryIno(r, o) = EntryIno(s, o) /\ EntryName(r, o) = EntryName(s, o)
      BY <1>1, <1>2, <1>6, <1>7, <1>8, EntriesCarry
    <3> QED BY <1>2, <3>1 DEF EntrySet, NBlocks
  <2>2. \A o \in Entries(r) : EntryIno(r, o) \in Ino \ {ROOT_INO}
    BY <2>1, Constants DEF DirSound, ROOT_INO
  <2>3. ASSUME NEW i \in Ino \ 0 .. ROOT_INO PROVE r.inode[i].nlink = Cardinality(Naming(r, i))
    <3>1. i # 0 /\ d.inode[i].nlink = Cardinality(Naming(d, i)) /\ i \in Ino
      BY FileInodes DEF DirSound
    <3>2. CASE i # ino
      <4>1. Naming(r, i) = Naming(d, i)
        BY <2>1, <3>1, <3>2 DEF Naming, ino
      <4>2. r.inode[i] = d.inode[i]
        BY <1>2, <1>6, <3>1, <3>2
      <4> QED BY <3>1, <4>1, <4>2
    <3>3. CASE i = ino
      <4>1. Naming(r, ino) = Naming(d, ino) \ {off}
        BY <1>1, <2>1 DEF Naming
      <4>2. off \in Naming(d, ino)
        BY DEF Naming, ino
      <4>3. IsFiniteSet(Naming(d, ino))
        BY NamingFinite DEF Sound
      <4>4. Cardinality(Naming(d, ino) \ {off}) = Cardinality(Naming(d, ino)) - 1
        BY <4>2, <4>3, FS_RemoveElement
      <4> QED BY <1>2, <1>4, <1>6, <3>1, <3>3, <4>1, <4>4
    <3> QED BY <3>2, <3>3
  <2>4. ASSUME NEW o \in Entries(r), NEW p \in Entries(r),
               EntryIno(r, o) # 0, EntryIno(r, p) # 0, EntryName(r, o) = EntryName(r, p)
        PROVE  o = p
    <3>1. o # off /\ p # off /\ o \in Entries(d) /\ p \in Entries(d)
      BY <2>1, <2>4
    <3> QED BY <2>1, <2>4, <3>1 DEF DirSound
  <2> QED BY <2>1, <2>2, <2>3, <2>4 DEF DirSound
<1> QED BY <1>2, <1>8, <1>9

-----------------------------------------------------------------------------
(* What the callbacks make of a disk is a disk.                            *)

LEMMA ChangeTyped ==
  ASSUME NEW d \in Disk, NEW ino \in Ino, NEW size \in FileSize
  PROVE  /\ GrowTo(d, ino, Size2NBlocks(size)) \in Result
         /\ ChangeSize(d, ino, size) \in Result
<1> DEFINE n == Size2NBlocks(size)
           g == GrowTo(d, ino, n)
           old == Size2NBlocks(d.inode[ino].size)
<1>1. n \in Nat /\ old \in Nat
  BY SizeSteps, DiskTyped DEF NBlocks
<1> HIDE DEF n, old
<1>2. g \in Result
  BY <1>1, GrowLoop
<1> HIDE DEF g
<1>3. g.disk \in Disk /\ g.ret \in {"ok", "ENOSPC", "EIO"}
  BY <1>2 DEF Result
<1>4. \A m \in Nat : ShrinkTo(g.disk, ino, m) \in Disk
  <2> SUFFICES ASSUME NEW m \in Nat PROVE ShrinkTo(g.disk, ino, m) \in Disk
    OBVIOUS
  <2>1. PICK f \in [Nat -> Disk] : ShrinkTo(g.disk, ino, m) = f[NBlocks(g.disk, ino)]
    <3> DEFINE e == g.disk
    <3>1. e \in Disk
      BY <1>3
    <3> HIDE DEF e
    <3>2. \E f \in [Nat -> Disk] : ShrinkTo(e, ino, m) = f[NBlocks(e, ino)]
      BY <3>1, ShrinkLoop
    <3> QED BY <3>2 DEF e
  <2>2. NBlocks(g.disk, ino) \in Nat
    BY <1>3, DiskTyped
  <2> QED BY <2>1, <2>2
<1>5. ChangeSize(d, ino, size) =
        CASE g.ret = "ENOSPC" -> Returns("ENOSPC", ShrinkTo(g.disk, ino, old))
          [] g.ret = "EIO"    -> g
          [] OTHER -> Returns("ok", [ShrinkTo(g.disk, ino, n) EXCEPT !.inode[ino].size = size])
  BY DEF ChangeSize, g, n, old
<1>6. Returns("ENOSPC", ShrinkTo(g.disk, ino, old)) \in Result
  BY <1>1, <1>4 DEF Returns, Result
<1>7. Returns("ok", [ShrinkTo(g.disk, ino, n) EXCEPT !.inode[ino].size = size]) \in Result
  <2> DEFINE s == ShrinkTo(g.disk, ino, n)
             o == [s.inode[ino] EXCEPT !.size = size]
  <2>1. s \in Disk
    BY <1>1, <1>4
  <2> HIDE DEF s
  <2>2. o \in Inode
    BY <2>1, DiskTyped DEF Inode
  <2>3. [s EXCEPT !.inode[ino].size = size] = SetInode(s, ino, o)
    BY <2>1 DEF SetInode, Disk
  <2> HIDE DEF o
  <2>4. SetInode(s, ino, o) \in Disk
    BY <2>1, <2>2, InodeSet
  <2> QED BY <2>3, <2>4 DEF s, Returns, Result
<1> QED BY <1>2, <1>3, <1>5, <1>6, <1>7 DEF g, n

LEMMA StrayedTyped ==
  ASSUME NEW d \in Disk
  PROVE  LET r == Strayed(d) IN
         /\ r \in Disk /\ r.inode = d.inode /\ r.free = d.free /\ r.words = d.words
         /\ r.names = d.names
  BY DEF Strayed, Disk

LEMMA BlankTyped ==
  ASSUME NEW d \in Disk
  PROVE  BlankDirentry(d).disk \in Disk /\ BlankDirentry(d).ret \in {"ok", "ENOSPC", "EIO"}
<1> DEFINE blank == {off \in Entries(d) : EntryIno(d, off) = 0}
           added == AddBlock(d, ROOT_INO)
           off == added.disk.inode[ROOT_INO].size - 1
           b == At(added.disk, off)[1]
           e == [added.disk EXCEPT !.words[b] = [i \in Word |-> 0],
                                   !.names[b] = [i \in Word |-> NoName]]
<1>1. added \in Result
  BY AddTyped, Constants DEF Adds
<1>2. BlankDirentry(d) = IF blank # {} THEN [off |-> Min(blank), ret |-> "ok", disk |-> d]
        ELSE IF added.ret # "ok" THEN [off |-> 0, ret |-> added.ret, disk |-> added.disk]
        ELSE [off |-> off, ret |-> "ok", disk |-> e]
  BY DEF BlankDirentry
<1> HIDE DEF added, blank, b
<1>3. added.disk \in Disk
  BY <1>1 DEF Result
<1>4. e \in Disk
  <2> DEFINE w == [added.disk.words EXCEPT ![b] = [i \in Word |-> 0]]
             n == [added.disk.names EXCEPT ![b] = [i \in Word |-> NoName]]
  <2>1. w \in [Block -> [Word -> Value]] /\ n \in [Block -> [Word -> Names \cup {NoName}]]
    BY <1>3 DEF Disk, Value
  <2>2. e = [added.disk EXCEPT !.words = w, !.names = n]
    OBVIOUS
  <2> HIDE DEF w, n, e
  <2> QED BY <1>3, <2>1, <2>2 DEF Disk
<1> HIDE DEF e, off
<1> QED BY <1>1, <1>2, <1>3, <1>4 DEF Result

LEMMA SetEntryTyped ==
  ASSUME NEW d \in Disk, NEW off, NEW x \in Value, NEW name \in Names \cup {NoName}
  PROVE  SetEntry(d, off, x, name) \in Disk /\ SetEntry(d, off, x, name).inode = d.inode
<1> DEFINE b == At(d, off)[1]
           j == At(d, off)[2]
           w == [d.words EXCEPT ![b][j] = x]
           n == [d.names EXCEPT ![b][j] = name]
<1>1. SetEntry(d, off, x, name) = [d EXCEPT !.words = w, !.names = n]
  BY DEF SetEntry
<1> HIDE DEF b, j
<1>2. w \in [Block -> [Word -> Value]] /\ n \in [Block -> [Word -> Names \cup {NoName}]]
  BY DEF Disk
<1> HIDE DEF w, n
<1> QED BY <1>1, <1>2 DEF Disk

LEMMA LinkedTyped ==
  ASSUME NEW d \in Disk, NEW ino \in Ino, NEW oi \in Inode, NEW links \in Int
  PROVE  Linked(d, ino, oi, links) \in Disk
<1> DEFINE f == SetInode(d, ino, oi)
           o == [f.inode[ROOT_INO] EXCEPT !.nlink = @ + links]
<1>1. f \in Disk /\ ROOT_INO \in Ino
  BY InodeSet, Constants
<1>2. Linked(d, ino, oi, links) = SetInode(f, ROOT_INO, o)
  BY <1>1 DEF Linked, SetInode, Disk
<1> HIDE DEF f
<1>3. o \in Inode
  <2>1. f.inode[ROOT_INO] \in Inode
    BY <1>1, DiskTyped
  <2> QED BY <2>1 DEF Inode
<1> HIDE DEF o
<1> QED BY <1>1, <1>2, <1>3, InodeSet

LEMMA OneLessTyped ==
  ASSUME NEW d \in Disk, NEW ino \in Ino
  PROVE  OneLess(d, ino) \in Disk
<1> DEFINE o == [d.inode[ino] EXCEPT !.nlink = @ - 1]
<1>1. OneLess(d, ino) = SetInode(d, ino, o)
  BY DEF OneLess, SetInode, Disk
<1>2. o \in Inode
  BY DiskTyped DEF Inode
<1> HIDE DEF o
<1> QED BY <1>1, <1>2, InodeSet

LEMMA CopiedTyped ==
  ASSUME disk \in Disk, NEW p \in Procs, NEW b \in Block, NEW n
  PROVE  /\ Copied(p, b, n) \in Disk /\ Copied(p, b, n).inode = disk.inode
         /\ Copied(p, b, n).free = disk.free /\ Copied(p, b, n).names = disk.names
         /\ \A c \in Block : c # b => Copied(p, b, n).words[c] = disk.words[c]
<1> DEFINE first == write[p].pos % NINDIRECT
           new == [i \in Word |-> IF i \in first .. first+n-1 THEN Mark(p) ELSE disk.words[b][i]]
           w == [disk.words EXCEPT ![b] = new]
<1>1. Copied(p, b, n) = [disk EXCEPT !.words = w]
  BY DEF Copied, Disk
<1> HIDE DEF first
<1>2. new \in [Word -> Value]
  BY DEF Mark, Value, Disk
<1> HIDE DEF new
<1>3. w \in [Block -> [Word -> Value]] /\ \A c \in Block : c # b => w[c] = disk.words[c]
  BY <1>2 DEF Disk
<1> HIDE DEF w
<1> QED BY <1>1, <1>3 DEF Disk

LEMMA NewFileTyped ==
  /\ NoFile \in Inode /\ NewFile \in Inode /\ NewFile.nlink = 1 /\ NoFile.nlink = 0
  /\ NewFile.size = 0 /\ NewFile.ftype = "REG" /\ NoFile.size = 0 /\ NoFile.ftype = "REG"
  /\ [NewFile EXCEPT !.size = 1, !.ftype = "SYMLINK"] \in Inode
  /\ Tidy(NewFile) /\ Tidy(NoFile) /\ Tidy([NewFile EXCEPT !.size = 1, !.ftype = "SYMLINK"])
  /\ Size2NBlocks(0) = 0 /\ Size2NBlocks(1) = 1 /\ Size2NBlocks(NINDIRECT) = 1
<1>1. 0 \in FileSize /\ 1 \in FileSize /\ NINDIRECT \in FileSize
  BY Constants DEF FileSize
<1>2. [k \in 0 .. NDIRECT-1 |-> 0] \in [0 .. NDIRECT-1 -> Block]
  BY Constants
<1>3. NoFile \in Inode /\ NoFile.size = 0 /\ NoFile.ftype = "REG" /\ NoFile.nlink = 0
      /\ NoFile.indirect = 0 /\ NoFile.indirect2 = 0
      /\ NoFile.direct = [k \in 0 .. NDIRECT-1 |-> 0]
  BY <1>1, <1>2, Constants DEF NoFile, Inode
<1>4. /\ NewFile \in Inode /\ NewFile.size = 0 /\ NewFile.ftype = "REG" /\ NewFile.nlink = 1
      /\ NewFile.indirect = 0 /\ NewFile.indirect2 = 0
      /\ NewFile.direct = [k \in 0 .. NDIRECT-1 |-> 0]
  BY <1>3 DEF NewFile, Inode
<1> DEFINE s == [NewFile EXCEPT !.size = 1, !.ftype = "SYMLINK"]
<1>5. s \in Inode /\ s.size = 1 /\ s.indirect = 0 /\ s.indirect2 = 0
      /\ s.direct = [k \in 0 .. NDIRECT-1 |-> 0]
  BY <1>1, <1>4 DEF Inode
<1>6. Size2NBlocks(0) = 0 /\ Size2NBlocks(1) = 1 /\ Size2NBlocks(NINDIRECT) = 1
  <2>1. (0 * NINDIRECT + (NINDIRECT - 1)) \div NINDIRECT = 0
        /\ (1 * NINDIRECT + 0) \div NINDIRECT = 1
        /\ (1 * NINDIRECT + (NINDIRECT - 1)) \div NINDIRECT = 1
    BY WordOfBlock, Constants DEF Word
  <2> QED BY <2>1, Constants DEF Size2NBlocks
<1> HIDE DEF s
<1>7. Tidy(NewFile) /\ Tidy(NoFile) /\ Tidy(s)
  BY <1>3, <1>4, <1>5, <1>6, Constants DEF Tidy, Small
<1> QED BY <1>3, <1>4, <1>5, <1>6, <1>7 DEF s

-----------------------------------------------------------------------------
(* The inductive invariant.                                                *)

Entry == (Names \cup {NoName}) \X Nat

TypeInv ==
  /\ disk \in Disk /\ fd \in [Procs -> Ino] /\ large \in BOOLEAN
  /\ ls \in [on : BOOLEAN, f_pos : Int, due : SUBSET Entry, listed : SUBSET Entry]

(* What has been listed is behind the file position and the two dots.      *)
ListInv == \A entry \in ls.listed : entry[2] >= 2 /\ entry[2] < ls.f_pos

SafeInv == ~large => Sound(disk) /\ DirSound(disk) /\ \A p \in Procs : fd[p] # ROOT_INO

LEMMA FirstInodes ==
  ASSUME NEW b \in Block
  PROVE  LET root == [NewFile EXCEPT !.ftype = "DIR", !.size = NINDIRECT, !.direct[0] = b]
             file == [NewFile EXCEPT !.size = 1, !.direct[0] = b]
         IN  /\ root \in Inode /\ root.size = NINDIRECT /\ root.ftype = "DIR" /\ root.nlink = 1
             /\ root.direct[0] = b /\ Tidy(root)
             /\ file \in Inode /\ file.size = 1 /\ file.ftype = "REG" /\ file.nlink = 1
             /\ file.direct[0] = b /\ Tidy(file)
<1> DEFINE root == [NewFile EXCEPT !.ftype = "DIR", !.size = NINDIRECT, !.direct[0] = b]
           file == [NewFile EXCEPT !.size = 1, !.direct[0] = b]
           f == [[k \in 0 .. NDIRECT-1 |-> 0] EXCEPT ![0] = b]
<1>1. NewFile \in Inode /\ NewFile.direct = [k \in 0 .. NDIRECT-1 |-> 0] /\ NewFile.indirect = 0
      /\ NewFile.indirect2 = 0 /\ NewFile.ftype = "REG" /\ NewFile.nlink = 1
  <2>1. NewFile \in Inode /\ NewFile.ftype = "REG" /\ NewFile.nlink = 1
    BY NewFileTyped
  <2> QED BY <2>1 DEF NewFile, NoFile
<1>2. 1 \in FileSize /\ NINDIRECT \in FileSize
  BY Constants DEF FileSize
<1>3. f \in [0 .. NDIRECT-1 -> Block] /\ f[0] = b /\ \A k \in 0 .. NDIRECT-1 : k >= 1 => f[k] = 0
  BY Constants
<1>4. root = [NewFile EXCEPT !.ftype = "DIR", !.size = NINDIRECT, !.direct = f]
      /\ file = [NewFile EXCEPT !.size = 1, !.direct = f]
  BY <1>1
<1> HIDE DEF f, root, file
<1>5. /\ root \in Inode /\ root.size = NINDIRECT /\ root.ftype = "DIR" /\ root.nlink = 1
      /\ root.direct = f /\ root.indirect = 0 /\ root.indirect2 = 0
      /\ file \in Inode /\ file.size = 1 /\ file.ftype = "REG" /\ file.nlink = 1
      /\ file.direct = f /\ file.indirect = 0 /\ file.indirect2 = 0
  BY <1>1, <1>2, <1>3, <1>4 DEF Inode
<1>6. Tidy(root) /\ Tidy(file)
  <2>1. Size2NBlocks(1) = 1 /\ Size2NBlocks(NINDIRECT) = 1 /\ 1 <= Small /\ NDIRECT \in Nat
    BY NewFileTyped, Constants DEF Small
  <2> QED BY <1>3, <1>5, <2>1 DEF Tidy
<1> QED BY <1>3, <1>5, <1>6 DEF root, file

LEMMA InitHolds ==
  ASSUME Init PROVE TypeInv /\ ListInv /\ SafeInv
<1>1. PICK name \in Names :
        LET dirb == FREEMAP_BLK + 2  fileb == FREEMAP_BLK + 3 IN
        disk = [free  |-> fileb+1 .. NBLOCKS-1,
               inode |-> [i \in Ino |->
                 IF i = 0 THEN NewFile
                 ELSE IF i = ROOT_INO THEN [NewFile EXCEPT !.ftype = "DIR",
                            !.size = NINDIRECT, !.direct[0] = dirb]
                 ELSE IF i = 2 THEN [NewFile EXCEPT !.size = 1, !.direct[0] = fileb]
                 ELSE NoFile],
               words |-> [b \in Block |-> IF b = dirb THEN [Blank EXCEPT ![0] = 2] ELSE Blank],
               names |-> [b \in Block |-> [i \in Word |->
                           IF b = dirb /\ i = 0 THEN name ELSE NoName]],
               wild  |-> FALSE]
  BY DEF Init
<1> DEFINE dirb == FREEMAP_BLK + 2
           fileb == FREEMAP_BLK + 3
           root == [NewFile EXCEPT !.ftype = "DIR", !.size = NINDIRECT, !.direct[0] = dirb]
           file == [NewFile EXCEPT !.size = 1, !.direct[0] = fileb]
           free == fileb+1 .. NBLOCKS-1
           inode == [i \in Ino |-> IF i = 0 THEN NewFile ELSE IF i = ROOT_INO THEN root
                                   ELSE IF i = 2 THEN file ELSE NoFile]
           words == [b \in Block |-> IF b = dirb THEN [Blank EXCEPT ![0] = 2] ELSE Blank]
           names == [b \in Block |-> [i \in Word |-> IF b = dirb /\ i = 0 THEN name ELSE NoName]]
<1>2. disk = [free |-> free, inode |-> inode, words |-> words, names |-> names, wild |-> FALSE]
  BY <1>1
<1>3. dirb \in DataBlock /\ fileb \in DataBlock /\ dirb # fileb /\ dirb \in Block /\ fileb \in Block
      /\ free \subseteq DataBlock /\ free \subseteq Block /\ dirb \notin free /\ fileb \notin free
  BY UseAssumption, Constants DEF FREEMAP_BLK, DataBlock, Block
<1>4. /\ root \in Inode /\ root.size = NINDIRECT /\ root.ftype = "DIR" /\ root.nlink = 1
      /\ root.direct[0] = dirb /\ Tidy(root)
      /\ file \in Inode /\ file.size = 1 /\ file.ftype = "REG" /\ file.nlink = 1
      /\ file.direct[0] = fileb /\ Tidy(file)
  BY <1>3, FirstInodes
<1> HIDE DEF dirb, fileb, root, file, free
<1>5. inode \in [Ino -> Inode] /\ \A i \in Ino : Tidy(inode[i])
  BY <1>4, NewFileTyped
<1>6. words \in [Block -> [Word -> Value]] /\ words[dirb][0] = 2
      /\ \A j \in Word : j # 0 => words[dirb][j] = 0
  <2>1. Blank \in [Word -> Value] /\ [Blank EXCEPT ![0] = 2] \in [Word -> Value]
        /\ [Blank EXCEPT ![0] = 2][0] = 2
        /\ \A j \in Word : j # 0 => [Blank EXCEPT ![0] = 2][j] = 0
    BY Constants DEF Blank, Value
  <2> QED BY <1>3, <2>1
<1>7. names \in [Block -> [Word -> Names \cup {NoName}]] /\ names[dirb][0] = name
  BY <1>3, Constants
<1> HIDE DEF inode, words, names
<1>8. /\ disk \in Disk /\ disk.free = free /\ disk.inode = inode /\ disk.words = words
      /\ disk.names = names
  BY <1>2, <1>3, <1>5, <1>6, <1>7 DEF Disk
<1>9. /\ 0 \in Ino /\ ROOT_INO \in Ino /\ 2 \in Ino /\ ROOT_INO # 0 /\ ROOT_INO # 2
      /\ inode[0] = NewFile /\ inode[ROOT_INO] = root /\ inode[2] = file
      /\ \A i \in Ino \ {0, ROOT_INO, 2} : inode[i] = NoFile
  BY Constants DEF inode, ROOT_INO
<1>10. /\ NBlocks(disk, ROOT_INO) = 1 /\ NBlocks(disk, 2) = 1
       /\ \A i \in Ino : i # ROOT_INO /\ i # 2 => NBlocks(disk, i) = 0
  BY <1>4, <1>8, <1>9, NewFileTyped DEF NBlocks
<1>11. ASSUME NEW i \in Ino, NEW k \in Place, Has(disk, i, k)
       PROVE  k = 0 /\ ((i = ROOT_INO /\ Rec(disk, i, k) = dirb) \/ (i = 2 /\ Rec(disk, i, k) = fileb))
  <2>1. k \in Int /\ k >= -1 /\ NDIRECT \in Nat /\ NDIRECT >= 1
    BY Constants DEF Place
  <2>2. k = 0 /\ (i = ROOT_INO \/ i = 2)
    BY <1>10, <1>11, <2>1 DEF Has
  <2> QED BY <1>4, <1>8, <1>9, <2>1, <2>2 DEF Rec
<1>12. Sound(disk)
  <2>1. OneUse(disk)
    BY <1>3, <1>8, <1>11 DEF OneUse
  <2> QED BY <1>5, <1>8, <2>1 DEF Sound
<1>13. /\ Entries(disk) = 0 .. NINDIRECT-1
       /\ \A o \in Entries(disk) : /\ EntryIno(disk, o) = IF o = 0 THEN 2 ELSE 0
  <2>1. Entries(disk) = 0 .. NINDIRECT-1
    BY <1>4, <1>8, <1>9 DEF Entries
  <2>2. ASSUME NEW o \in Entries(disk) PROVE EntryIno(disk, o) = IF o = 0 THEN 2 ELSE 0
    <3>1. o \in Word /\ o = 0 * NINDIRECT + o /\ 0 \in Int
      BY <2>1, Constants DEF Word
    <3>2. o \div NINDIRECT = 0 /\ o % NINDIRECT = o
      BY <3>1, WordOfBlock
    <3>3. At(disk, o)[1] = Rec(disk, ROOT_INO, 0) /\ Has(disk, ROOT_INO, 0) /\ 0 \in Place
      BY <1>4, <1>8, <1>9, <1>12, <3>2, EntryPlace
    <3>4. At(disk, o)[1] = dirb /\ At(disk, o)[2] = o
      BY <1>9, <1>11, <3>2, <3>3 DEF At
    <3> QED BY <1>6, <1>8, <3>1, <3>4 DEF EntryIno
  <2> QED BY <2>1, <2>2
<1>14. DirSound(disk)
  <2>1. \A i \in Ino \ 0 .. ROOT_INO : disk.inode[i].nlink = Cardinality(Naming(disk, i))
    <3> SUFFICES ASSUME NEW i \in Ino \ 0 .. ROOT_INO
                 PROVE  disk.inode[i].nlink = Cardinality(Naming(disk, i))
      OBVIOUS
    <3>1. i # 0 /\ i # ROOT_INO /\ i \in Ino
      BY FileInodes
    <3>2. CASE i = 2
      <4>1. Naming(disk, i) = {0}
        BY <1>13, <3>2, Constants DEF Naming
      <4> QED BY <1>4, <1>8, <1>9, <3>2, <4>1, FS_Singleton
    <3>3. CASE i # 2
      <4>1. Naming(disk, i) = {}
        BY <1>13, <3>1, <3>3 DEF Naming
      <4> QED BY <1>8, <1>9, <3>1, <3>3, <4>1, FS_EmptySet, NewFileTyped
    <3> QED BY <3>2, <3>3
  <2>2. disk.inode[ROOT_INO].size = NBlocks(disk, ROOT_INO) * NINDIRECT
    BY <1>4, <1>8, <1>9, <1>10, Constants
  <2>3. \A o \in Entries(disk) : EntryIno(disk, o) \in Ino \ {ROOT_INO}
    BY <1>9, <1>13
  <2>4. \A o, p \in Entries(disk) : EntryIno(disk, o) # 0 /\ EntryIno(disk, p) # 0 => o = p
    BY <1>13
  <2> QED BY <1>4, <1>8, <1>9, <2>1, <2>2, <2>3, <2>4 DEF DirSound
<1>15. fd = [p \in Procs |-> 0] /\ ls = NotListing /\ large = FALSE
  BY DEF Init
<1>16. TypeInv
  <2>1. ls \in [on : BOOLEAN, f_pos : Int, due : SUBSET Entry, listed : SUBSET Entry]
    BY <1>15 DEF NotListing
  <2> QED BY <1>8, <1>9, <1>15, <2>1 DEF TypeInv
<1>17. ListInv
  BY <1>15 DEF ListInv, NotListing
<1>18. SafeInv
  BY <1>9, <1>12, <1>14, <1>15 DEF SafeInv
<1> QED BY <1>16, <1>17, <1>18

-----------------------------------------------------------------------------
(* The steps.                                                              *)

LEMMA LookupFacts ==
  ASSUME TypeInv, Sane, NEW name, Named(disk, name) # {}
  PROVE  LET off == Min(Named(disk, name)) IN
         /\ off \in Entries(disk) /\ off \in Nat /\ EntryName(disk, off) = name
         /\ Lookup(name) = EntryIno(disk, off) /\ Lookup(name) \in Ino /\ Lookup(name) # 0
<1>1. /\ Named(disk, name) \subseteq Entries(disk) /\ Entries(disk) \subseteq Nat
      /\ IsFiniteSet(Entries(disk))
  BY NamingFinite DEF TypeInv, Named
<1>2. Min(Named(disk, name)) \in Named(disk, name)
  BY <1>1, FS_Subset, MinFacts
<1> QED BY <1>1, <1>2 DEF Named, Lookup, Sane

LEMMA FreeInodeFacts ==
  ASSUME FreeInodes # {}
  PROVE  /\ Min(FreeInodes) \in FreeInodes /\ Min(FreeInodes) \in Ino \ 0 .. ROOT_INO
         /\ Nlink(Min(FreeInodes)) = 0
<1>1. FreeInodes \subseteq Ino /\ Ino \subseteq Nat /\ IsFiniteSet(Ino)
  BY Constants, FS_Interval DEF FreeInodes, Ino
<1>2. Min(FreeInodes) \in FreeInodes
  BY <1>1, FS_Subset, MinFacts
<1> QED BY <1>2, FileInodes DEF FreeInodes, ROOT_INO

(* A disk that is not large is small enough for the lemmas above.          *)
LEMMA NotLarge ==
  ASSUME NEW d \in Disk, ~Large(d), NEW i \in Ino
  PROVE  NBlocks(d, i) <= Small
<1>1. d.inode[i].size \in Int /\ NBlocks(d, i) \in Nat /\ Small \in Nat
  BY DiskTyped, Constants DEF FileSize
<1>2. ~(d.inode[i].size > Small * NINDIRECT)
  BY DEF Large, Small
<1> QED BY <1>1, <1>2, SizeSteps DEF NBlocks

LEMMA EntersIs ==
  ASSUME NEW name, NEW ino, NEW oi, NEW links, Enters(name, ino, oi, links)
  PROVE  LET bl == BlankDirentry(disk) IN
         /\ disk' = Linked(SetEntry(bl.disk, bl.off, ino, name), ino, oi, links)
         /\ bl.ret = "ok" /\ Named(disk, name) = {} /\ fd' = fd /\ ls' = ls
         /\ large' = (large \/ Large(disk'))
  BY DEF Enters, BecomesFor, Linked, SetInode

(* Blocks get lost with the inodes that may be reused, if at all.          *)
Kept ==
  \A b \in Pool(disk) : b \in Pool(disk') \/ \E i \in FreeInodes : b \in Owned(Places(disk, i))

(* What a step makes of a disk of small files.                             *)
Tame == ~large' => ~large /\ Sound(disk') /\ DirSound(disk') /\ Kept

LEMMA SameDisk ==
  ASSUME SafeInv, disk' = disk, large' = large
  PROVE  Tame
  BY DEF SafeInv, Tame, Kept

LEMMA EntersTame ==
  ASSUME TypeInv, SafeInv, NEW name \in Names, NEW ino \in Ino \ 0 .. ROOT_INO, NEW oi \in Inode,
         NEW links \in Int, Enters(name, ino, oi, links), oi.nlink = Nlink(ino) + 1,
         \/ SameFile(disk.inode[ino], oi)
         \/ ino \in FreeInodes /\ Tidy(oi) /\ (oi.ftype = "SYMLINK" \/ Size2NBlocks(oi.size) = 0)
  PROVE  Tame
<1> DEFINE bl == BlankDirentry(disk)
           s == SetEntry(bl.disk, bl.off, ino, name)
<1>1. /\ disk' = Linked(s, ino, oi, links) /\ bl.ret = "ok" /\ Named(disk, name) = {}
      /\ large' = (large \/ Large(disk'))
  BY EntersIs
<1>2. ino \in Ino /\ ino # ROOT_INO /\ ino \in Value /\ ROOT_INO \in Ino
  BY FileInodes, Constants DEF Value
<1>3. bl.disk \in Disk /\ s \in Disk /\ s.inode = bl.disk.inode
  BY <1>2, BlankTyped, SetEntryTyped DEF TypeInv
<1>4. SUFFICES ASSUME ~large' PROVE ~large /\ Sound(disk') /\ DirSound(disk') /\ Kept
  BY DEF Tame
<1>5. ~large /\ ~Large(disk')
  BY <1>1, <1>4
<1>6. Sound(disk) /\ DirSound(disk)
  BY <1>5 DEF SafeInv
<1> HIDE DEF bl
<1>7. NBlocks(bl.disk, ROOT_INO) <= Small
  <2> HIDE DEF s
  <2>1. disk' \in Disk /\ SameFile(s.inode[ROOT_INO], disk'.inode[ROOT_INO])
    BY <1>1, <1>2, <1>3, RootLinks
  <2>2. NBlocks(disk', ROOT_INO) <= Small
    BY <1>2, <1>5, <2>1, NotLarge
  <2> QED BY <1>3, <2>1, <2>2 DEF NBlocks, SameFile
<1>8. /\ Roomier(disk, bl.disk) /\ bl.off \in Entries(bl.disk) /\ EntryIno(bl.disk, bl.off) = 0
  BY <1>1, <1>6, <1>7, BlankKeeps DEF bl, DirSound
<1>9. oi.nlink = disk.inode[ino].nlink + 1
  BY DEF Nlink
<1>10. /\ Sound(disk') /\ DirSound(disk')
       /\ \A b \in Pool(disk) : b \in Pool(disk') \/ b \in Owned(Places(disk, ino))
       /\ SameFile(disk.inode[ino], oi) => Pool(disk') = Pool(disk)
  BY <1>1, <1>6, <1>8, <1>9, EntersKeeps
<1>11. Kept
  BY <1>10 DEF Kept
<1> QED BY <1>5, <1>10, <1>11

LEMMA LargeTyped == \A d : Large(d) \in BOOLEAN
  BY DEF Large

LEMMA StrayedKeeps ==
  ASSUME NEW d, Sound(d), DirSound(d)
  PROVE  Sound(Strayed(d)) /\ DirSound(Strayed(d)) /\ Pool(Strayed(d)) = Pool(d)
<1> DEFINE r == Strayed(d)
<1>1. r \in Disk /\ r.inode = d.inode /\ r.free = d.free /\ r.words = d.words /\ r.names = d.names
  BY StrayedTyped DEF Sound
<1> HIDE DEF r
<1>2. Sound(r) /\ Pool(r) = Pool(d)
  <2> DEFINE C == {}
  <2>1. /\ \A i \in Ino : Has(d, i, -1) => d.inode[i].indirect \notin C
        /\ \A c \in Block \ C : r.words[c] = d.words[c]
    BY <1>1
  <2> HIDE DEF C
  <2> QED BY <1>1, <2>1, WordsElsewhere
<1>3. SameFile(d.inode[ROOT_INO], r.inode[ROOT_INO]) /\ d.inode[ROOT_INO].ftype = "DIR"
  BY <1>1 DEF SameFile, DirSound
<1>4. /\ r.inode[ROOT_INO].ftype = "DIR"
      /\ \A o \in Entries(d) : EntryIno(r, o) = EntryIno(d, o) /\ EntryName(r, o) = EntryName(d, o)
  BY <1>1, <1>2, <1>3, EntriesCarry
<1>5. DirSound(r)
  BY <1>1, <1>4, DirSame
<1> QED BY <1>2, <1>5 DEF r

LEMMA ResizedTame ==
  ASSUME TypeInv, SafeInv, NEW ino \in Ino \ 0 .. ROOT_INO, NEW size \in FileSize,
         ~large, ~Large(Fullest(ino, size)), NEW d, d = disk \/ d = Resized(ino, size).disk
  PROVE  Sound(d) /\ DirSound(d) /\ Pool(d) = Pool(disk)
<1>1. /\ disk \in Disk /\ Sound(disk) /\ DirSound(disk)
      /\ ino \in Ino /\ ino # ROOT_INO
  BY FileInodes DEF TypeInv, SafeInv
<1>2. CASE d = disk
  BY <1>1, <1>2
<1>3. CASE ~IsFile(ino) /\ d = Resized(ino, size).disk
  BY <1>1, <1>3, StrayedKeeps DEF Resized, Returns
<1>4. CASE IsFile(ino) /\ d = Resized(ino, size).disk
  <2>1. d = ChangeSize(disk, ino, size).disk /\ disk.inode[ino].ftype # "SYMLINK"
    BY <1>4 DEF Resized, IsFile
  <2>2. NBlocks(GrowTo(disk, ino, Size2NBlocks(size)).disk, ino) <= Small
    <3>1. GrowTo(disk, ino, Size2NBlocks(size)).disk \in Disk
      BY <1>1, ChangeTyped DEF Result
    <3> QED BY <1>1, <3>1, NotLarge DEF Fullest
  <2>3. Reshapes(disk, d, ino)
    BY <1>1, <2>1, <2>2, ChangeKeeps
  <2> QED BY <1>1, <2>3, ReshapeDir DEF Reshapes
<1> QED BY <1>2, <1>3, <1>4

LEMMA TruncateTame ==
  ASSUME TypeInv, SafeInv, NEW ino \in Ino, NEW size \in Sizes, Truncate(ino, size)
  PROVE  Tame
<1>1. /\ disk' = Resized(ino, size).disk /\ large' = (large \/ Large(Fullest(ino, size)))
      /\ ino \in Ino \ 0 .. ROOT_INO
  BY DEF Truncate, BecomesFor
<1>2. size \in FileSize
  BY UseAssumption, Constants DEF FileSize
<1>3. ASSUME ~large' PROVE ~large /\ Sound(disk') /\ DirSound(disk') /\ Pool(disk') = Pool(disk)
  BY <1>1, <1>2, <1>3, ResizedTame
<1> QED BY <1>3 DEF Tame, Kept

LEMMA BeginsTame ==
  ASSUME TypeInv, SafeInv, NEW p \in Procs, NEW pos \in FileSize, NEW count \in Counts,
         NEW append, Begins(p, pos, count, append)
  PROVE  Tame
<1> DEFINE ino == fd[p]
           d == IF pos + count <= disk.inode[ino].size THEN disk
                ELSE Resized(ino, pos + count).disk
<1>1. /\ disk' = d /\ large' = (large \/ Large(Fullest(ino, pos + count))) /\ ino # 0
  BY DEF Begins, Returns
<1>2. pos + count \in FileSize /\ ino \in Ino
  BY UseAssumption, Constants DEF FileSize, TypeInv
<1>3. ASSUME ~large' PROVE ~large /\ Sound(disk') /\ DirSound(disk') /\ Pool(disk') = Pool(disk)
  <2>1. ~large /\ ~Large(Fullest(ino, pos + count))
    BY <1>1, <1>3
  <2>2. ino \in Ino \ 0 .. ROOT_INO
    BY <1>1, <1>2, <2>1, FileInodes DEF SafeInv
  <2>3. d = disk \/ d = Resized(ino, pos + count).disk
    OBVIOUS
  <2> HIDE DEF d, ino
  <2>4. Sound(d) /\ DirSound(d) /\ Pool(d) = Pool(disk)
    BY <1>2, <2>1, <2>2, <2>3, ResizedTame
  <2> QED BY <1>1, <2>1, <2>4
<1> QED BY <1>3 DEF Tame, Kept

LEMMA CopiesTame ==
  ASSUME TypeInv, SafeInv, NEW p \in Procs, Copies(p)
  PROVE  Tame
<1> DEFINE b == write[p].to
           n == Min({NINDIRECT - (write[p].pos % NINDIRECT), write[p].left})
<1>1. /\ disk' = IF b \in Block \ Structure THEN Copied(p, b, n) ELSE Strayed(disk)
      /\ large' = large
  BY DEF Copies
<1> HIDE DEF n
<1>2. SUFFICES ASSUME ~large' PROVE ~large /\ Sound(disk') /\ DirSound(disk') /\ Kept
  BY DEF Tame
<1>3. ~large /\ disk \in Disk /\ Sound(disk) /\ DirSound(disk)
  BY <1>1, <1>2 DEF TypeInv, SafeInv
<1>4. CASE b \in Block \ Structure
  <2>1. /\ disk' \in Disk /\ disk'.inode = disk.inode
        /\ disk'.free = disk.free /\ disk'.names = disk.names
        /\ \A c \in Block : c # b => disk'.words[c] = disk.words[c]
    BY <1>1, <1>3, <1>4, CopiedTyped
  <2>2. /\ b \notin {At(disk, off)[1] : off \in Entries(disk)}
        /\ b \notin {disk.inode[i].indirect : i \in Ino}
    BY <1>4 DEF Structure
  <2>3. Sound(disk') /\ DirSound(disk') /\ Pool(disk') = Pool(disk)
    BY <1>3, <1>4, <2>1, <2>2, CopiedKeeps
  <2> QED BY <1>3, <2>3 DEF Kept
<1>5. CASE b \notin Block \ Structure
  BY <1>1, <1>3, <1>5, StrayedKeeps DEF Kept
<1> QED BY <1>4, <1>5

LEMMA UnlinkTame ==
  ASSUME TypeInv, SafeInv, Sane, NEW name \in Names, Unlink(name)
  PROVE  Tame
<1> DEFINE off == Min(Named(disk, name))
           ino == Lookup(name)
<1>1. /\ Named(disk, name) # {} /\ disk' = OneLess(SetEntry(disk, off, 0, NoName), ino)
      /\ large' = (large \/ Large(disk))
  BY DEF Unlink, BecomesFor, Unlinked, OneLess
<1>2. off \in Entries(disk) /\ ino = EntryIno(disk, off) /\ ino # 0
  BY <1>1, LookupFacts
<1> HIDE DEF off, ino
<1>3. SUFFICES ASSUME ~large' PROVE ~large /\ Sound(disk') /\ DirSound(disk') /\ Kept
  BY DEF Tame
<1>4. ~large /\ Sound(disk) /\ DirSound(disk)
  BY <1>1, <1>3 DEF SafeInv
<1>5. Sound(disk') /\ DirSound(disk') /\ Pool(disk') = Pool(disk)
  BY <1>1, <1>2, <1>4, UnlinkedKeeps
<1> QED BY <1>4, <1>5 DEF Kept

LEMMA LinkTame ==
  ASSUME TypeInv, SafeInv, Sane, NEW name \in Names, NEW new \in Names, Link(name, new)
  PROVE  Tame
<1> DEFINE ino == Lookup(name)
           oi == [disk.inode[ino] EXCEPT !.nlink = @ + 1]
<1>1. Named(disk, name) # {} /\ Enters(new, ino, oi, 0)
  BY DEF Link
<1>2. ino \in Ino /\ ino # 0 /\ \E off \in Entries(disk) : ino = EntryIno(disk, off)
  BY <1>1, LookupFacts
<1> HIDE DEF ino
<1>3. oi \in Inode /\ oi.nlink = Nlink(ino) + 1 /\ SameFile(disk.inode[ino], oi)
  <2>1. disk.inode[ino] \in Inode
    BY <1>2, DiskTyped DEF TypeInv
  <2> QED BY <2>1 DEF Inode, Nlink, SameFile
<1> HIDE DEF oi
<1>4. large' = (large \/ Large(disk'))
  BY <1>1, EntersIs
<1>5. CASE ~large
  <2>1. ino \in Ino \ 0 .. ROOT_INO
    BY <1>2, <1>5, FileInodes DEF SafeInv, DirSound
  <2> QED BY <1>1, <1>3, <2>1, EntersTame
<1>6. CASE large
  BY <1>4, <1>6 DEF Tame
<1> QED BY <1>5, <1>6

LEMMA NewTame ==
  ASSUME TypeInv, SafeInv, NEW name \in Names, Create(name) \/ Symlink(name)
  PROVE  Tame
<1> DEFINE ino == Min(FreeInodes)
           s == [NewFile EXCEPT !.size = 1, !.ftype = "SYMLINK"]
<1>1. FreeInodes # {} /\ (Enters(name, ino, NewFile, 0) \/ Enters(name, ino, s, 1))
  BY DEF Create, Symlink
<1>2. ino \in FreeInodes /\ ino \in Ino \ 0 .. ROOT_INO /\ Nlink(ino) = 0
  BY <1>1, FreeInodeFacts
<1> HIDE DEF ino
<1>3. /\ NewFile \in Inode /\ NewFile.nlink = Nlink(ino) + 1 /\ Tidy(NewFile)
      /\ Size2NBlocks(NewFile.size) = 0
  BY <1>2, NewFileTyped
<1>4. s \in Inode /\ s.nlink = Nlink(ino) + 1 /\ Tidy(s) /\ s.ftype = "SYMLINK"
  BY <1>2, NewFileTyped DEF Inode
<1> HIDE DEF s
<1>5. CASE Enters(name, ino, NewFile, 0)
  BY <1>2, <1>3, <1>5, EntersTame
<1>6. CASE Enters(name, ino, s, 1)
  BY <1>2, <1>4, <1>6, EntersTame
<1> QED BY <1>1, <1>5, <1>6

(* One case for each action.                                               *)
LEMMA NextTame ==
  ASSUME TypeInv, SafeInv, Next
  PROVE  Tame
<1>0. Sane
  BY DEF Next
<1>1. ASSUME NEW p \in Procs, NEW name \in Names, Open(p, name) PROVE Tame
  BY <1>1, SameDisk DEF Open
<1>2. ASSUME NEW p \in Procs, Close(p) \/ GivesUp(p) PROVE Tame
  BY <1>2, SameDisk DEF Close, GivesUp
<1>3. ASSUME NEW p \in Procs, NEW count \in Counts, AppendWrite(p, count) PROVE Tame
  <2>1. fd[p] \in Ino /\ disk \in Disk
    BY DEF TypeInv
  <2>2. disk.inode[fd[p]].size \in FileSize
    BY <2>1, DiskTyped
  <2> QED BY <1>3, <2>2, BeginsTame DEF AppendWrite
<1>4. ASSUME NEW p \in Procs, NEW count \in Counts, NEW pos \in Offsets, WriteAt(p, pos, count)
      PROVE  Tame
  <2>1. pos \in FileSize
    BY UseAssumption, Constants DEF FileSize
  <2> QED BY <1>4, <2>1, BeginsTame DEF WriteAt
<1>5. ASSUME NEW p \in Procs, Copies(p) PROVE Tame
  BY <1>5, CopiesTame
<1>6. ASSUME NEW ino \in Ino, NEW size \in Sizes, Truncate(ino, size) PROVE Tame
  BY <1>6, TruncateTame
<1>7. ASSUME NEW name \in Names, Create(name) \/ Symlink(name) PROVE Tame
  BY <1>7, NewTame
<1>8. ASSUME NEW name \in Names, Unlink(name) PROVE Tame
  BY <1>0, <1>8, UnlinkTame
<1>9. ASSUME NEW name \in Names, NEW new \in Names, Link(name, new) PROVE Tame
  BY <1>0, <1>9, LinkTame
<1>10. ASSUME ListBegins \/ ListCall \/ ListEnds PROVE Tame
  BY <1>10, SameDisk DEF ListBegins, ListCall, ListEnds
<1>11. FileCalls => Tame
  BY <1>1, <1>2, <1>3, <1>4, <1>5 DEF FileCalls
<1>12. DirCalls => Tame
  BY <1>6, <1>7, <1>8, <1>9, <1>10 DEF DirCalls
<1> QED BY <1>11, <1>12 DEF Next

LEMMA NextSafe ==
  ASSUME TypeInv, SafeInv, Next
  PROVE  SafeInv'
<1>1. Tame
  BY NextTame
<1>2. SUFFICES ASSUME ~large' PROVE \A p \in Procs : fd'[p] # ROOT_INO
  BY <1>1 DEF Tame, SafeInv
<1>3. ~large /\ Sane /\ \A p \in Procs : fd[p] # ROOT_INO
  BY <1>1, <1>2 DEF Tame, SafeInv, Next
<1>4. fd \in [Procs -> Ino] /\ disk.inode[ROOT_INO].ftype = "DIR"
  BY <1>3 DEF TypeInv, SafeInv, DirSound
<1>5. ASSUME NEW p \in Procs, NEW name \in Names, Open(p, name)
      PROVE  \A q \in Procs : fd'[q] # ROOT_INO
  <2>1. Lookup(name) # ROOT_INO /\ fd' = [fd EXCEPT ![p] = Lookup(name)]
    BY <1>4, <1>5 DEF Open, IsFile
  <2> QED BY <1>3, <1>4, <2>1
<1>6. ASSUME NEW p \in Procs, Close(p) PROVE \A q \in Procs : fd'[q] # ROOT_INO
  BY <1>3, <1>4, <1>6 DEF Close, ROOT_INO
<1>7. ASSUME fd' = fd PROVE \A q \in Procs : fd'[q] # ROOT_INO
  BY <1>3, <1>7
<1>8. (\E p \in Procs : (\E name \in Names : Open(p, name)) \/ Close(p)) \/ fd' = fd
  <2>1. \A name, ino, oi, links : Enters(name, ino, oi, links) => fd' = fd
    BY DEF Enters
  <2>2. FileCalls => (\E p \in Procs : (\E name \in Names : Open(p, name)) \/ Close(p)) \/ fd' = fd
    <3>1. \A p, pos, count, append : Begins(p, pos, count, append) => fd' = fd
      BY DEF Begins
    <3>2. \A p, pos, count : AppendWrite(p, count) \/ WriteAt(p, pos, count) => fd' = fd
      BY <3>1 DEF AppendWrite, WriteAt
    <3>3. \A p : Copies(p) \/ GivesUp(p) => fd' = fd
      BY DEF Copies, GivesUp
    <3> QED BY <3>2, <3>3 DEF FileCalls
  <2>3. DirCalls => fd' = fd
    BY <2>1 DEF DirCalls, Truncate, Create, Symlink, Unlink, Link, ListBegins, ListCall, ListEnds
  <2> QED BY <2>2, <2>3 DEF Next
<1> QED BY <1>5, <1>6, <1>7, <1>8

-----------------------------------------------------------------------------
(* The listing.                                                            *)

LEMMA MaxOfTwo ==
  ASSUME NEW a \in Int, NEW b \in Int
  PROVE  Max({a, b}) \in Int /\ Max({a, b}) >= a /\ Max({a, b}) >= b
<1>1. \E x \in {a, b} : \A y \in {a, b} : x >= y
  <2>1. CASE a >= b
    BY <2>1
  <2>2. CASE a < b
    BY <2>2
  <2> QED BY <2>1, <2>2
<1>2. Max({a, b}) \in {a, b} /\ \A y \in {a, b} : Max({a, b}) >= y
  BY <1>1 DEF Max
<1> QED BY <1>2

(* The entries that fit come first.                                        *)
LEMMA FittingFirst ==
  ASSUME disk \in Disk, NEW f_pos \in Int
  PROVE  /\ Fitting(f_pos) \subseteq Ahead(f_pos) /\ Ahead(f_pos) \subseteq Used
         /\ Used \subseteq Entries(disk) /\ Entries(disk) \subseteq Nat
         /\ IsFiniteSet(Ahead(f_pos))
         /\ \A off \in Ahead(f_pos) : off >= f_pos /\ off >= 2
         /\ \A off \in Fitting(f_pos), r \in Ahead(f_pos) \ Fitting(f_pos) : off < r
<1> DEFINE A == Ahead(f_pos)
           upto(off) == {o \in A : o <= off}
           room == Room - Max({0, 2 - f_pos})
<1>1. Used \subseteq Entries(disk) /\ Entries(disk) \subseteq Nat /\ IsFiniteSet(Entries(disk))
  BY NamingFinite DEF Used
<1>2. Max({f_pos, 2}) \in Int /\ Max({f_pos, 2}) >= f_pos /\ Max({f_pos, 2}) >= 2
  BY MaxOfTwo
<1>3. A \subseteq Used /\ \A off \in A : off >= f_pos /\ off >= 2
  BY <1>1, <1>2 DEF Ahead
<1>4. IsFiniteSet(A)
  BY <1>1, <1>3, FS_Subset
<1>5. room \in Int
  <2>1. ASSUME NEW b \in Int PROVE Max({0, b}) \in Int
    BY MaxOfTwo
  <2>2. Max({0, 2 - f_pos}) \in Int
    BY <2>1
  <2> QED BY <2>2, UseAssumption
<1>6. Fitting(f_pos) = {off \in A : Cardinality(upto(off)) <= room}
  BY DEF Fitting
<1> HIDE DEF A, room
<1>7. ASSUME NEW off \in Fitting(f_pos), NEW r \in A \ Fitting(f_pos), r <= off PROVE FALSE
  <2>1. upto(r) \subseteq upto(off) /\ IsFiniteSet(upto(off)) /\ IsFiniteSet(upto(r))
    <3>1. A \subseteq Nat
      BY <1>1, <1>3
    <3>2. off \in Nat /\ r \in Nat
      BY <1>6, <3>1
    <3>3. \A o \in A : o <= r => o <= off
      BY <1>7, <3>1, <3>2
    <3>4. upto(r) \subseteq upto(off) /\ upto(off) \subseteq A
      BY <3>3
    <3> HIDE DEF upto
    <3> QED BY <1>4, <3>4, FS_Subset
  <2> HIDE DEF upto
  <2>2. /\ Cardinality(upto(r)) <= Cardinality(upto(off))
        /\ Cardinality(upto(r)) \in Nat /\ Cardinality(upto(off)) \in Nat
    BY <2>1, FS_Subset, FS_CardinalityType
  <2>3. Cardinality(upto(off)) <= room /\ ~(Cardinality(upto(r)) <= room)
    BY <1>6, <1>7
  <2> QED BY <1>5, <2>2, <2>3
<1>8. \A off \in Fitting(f_pos), r \in A \ Fitting(f_pos) : off < r
  <2>1. A \subseteq Nat /\ Fitting(f_pos) \subseteq A
    BY <1>1, <1>3, <1>6
  <2> SUFFICES ASSUME NEW off \in Fitting(f_pos), NEW r \in A \ Fitting(f_pos) PROVE off < r
    OBVIOUS
  <2>2. off \in Nat /\ r \in Nat
    BY <2>1
  <2>3. ~(r <= off)
    BY <1>7
  <2> QED BY <2>2, <2>3
<1>9. Fitting(f_pos) \subseteq A
  BY <1>6
<1> QED BY <1>1, <1>3, <1>4, <1>8, <1>9 DEF A

LEMMA ListCallBehind ==
  ASSUME TypeInv, ListInv, Sane, ListCall
  PROVE  /\ ListInv' /\ ls'.f_pos \in Int
<1> DEFINE f == ls.f_pos
           refused == Ahead(f) \ Fitting(f)
           next == NextPos(f)
<1>1. /\ ls \in [on : BOOLEAN, f_pos : Int, due : SUBSET Entry, listed : SUBSET Entry]
      /\ disk \in Disk /\ f \in Int
  BY DEF TypeInv
<1>2. /\ ls.on /\ (f < 2 \/ Ahead(f) # {})
      /\ ls'.f_pos = next
      /\ ls'.listed = ls.listed \cup {<<EntryName(disk, off), off>> : off \in Fitting(f)}
  BY <1>1 DEF ListCall, Listed
<1> HIDE DEF f, next
<1>3. /\ Fitting(f) \subseteq Ahead(f) /\ IsFiniteSet(Ahead(f))
      /\ Ahead(f) \subseteq Entries(disk) /\ Entries(disk) \subseteq Nat
      /\ \A off \in Ahead(f) : off >= f /\ off >= 2
      /\ \A off \in Fitting(f), r \in refused : off < r
  BY <1>1, FittingFirst
<1>4. /\ next \in Int /\ \A off \in Fitting(f) : off < next
      /\ Ahead(f) # {} => f < next
  <2>1. CASE refused = {}
    <3> DEFINE size == disk.inode[ROOT_INO].size
    <3>1. next = 128 * size /\ size \in Int
      BY <1>1, <2>1, DiskTyped, Constants DEF NextPos, next, OSPFS_DIRENTRY_SIZE, FileSize
    <3>2. \A off \in Entries(disk) : off < size
      BY <3>1 DEF Entries
    <3> HIDE DEF size
    <3>3. \A off \in Ahead(f) : off < next
      BY <1>3, <3>1, <3>2
    <3> QED BY <1>1, <1>3, <3>1, <3>3
  <2>2. CASE refused # {}
    <3>1. next = Min(refused) + 1
      BY <2>2 DEF NextPos, next
    <3>2. refused \subseteq Nat /\ IsFiniteSet(refused)
      BY <1>3, FS_Subset
    <3> HIDE DEF refused
    <3>3. Min(refused) \in refused
      BY <2>2, <3>2, MinFacts
    <3>4. Min(refused) \in Ahead(f) /\ Min(refused) \in Nat
      BY <3>2, <3>3 DEF refused
    <3> QED BY <1>1, <1>3, <3>1, <3>3, <3>4
  <2> QED BY <2>1, <2>2
<1>5. ASSUME NEW entry \in ls'.listed PROVE entry[2] >= 2 /\ entry[2] < ls'.f_pos
  <2>1. CASE entry \in ls.listed
    <3>1. entry[2] >= 2 /\ entry[2] < f /\ entry[2] \in Int
      BY <1>1, <2>1 DEF ListInv, f, Entry
    <3>2. Ahead(f) # {}
      BY <1>1, <1>2, <3>1
    <3> QED BY <1>1, <1>2, <1>4, <3>1, <3>2
  <2>2. CASE \E off \in Fitting(f) : entry = <<EntryName(disk, off), off>>
    BY <1>2, <1>3, <1>4, <2>2
  <2> QED BY <1>2, <2>1, <2>2
<1> QED BY <1>2, <1>4, <1>5 DEF ListInv

-----------------------------------------------------------------------------
(* The types are kept.                                                     *)

LEMMA EntersTyped ==
  ASSUME TypeInv, NEW name \in Names, NEW ino \in Ino, NEW oi \in Inode, NEW links \in Int,
         Enters(name, ino, oi, links)
  PROVE  disk' \in Disk /\ large' \in BOOLEAN /\ fd' = fd /\ ls' = ls
<1> DEFINE bl == BlankDirentry(disk)
           s == SetEntry(bl.disk, bl.off, ino, name)
<1>1. /\ disk' = Linked(s, ino, oi, links) /\ fd' = fd /\ ls' = ls
      /\ large' = (large \/ Large(disk'))
  BY EntersIs
<1>2. bl.disk \in Disk /\ ino \in Value
  BY BlankTyped, Constants DEF TypeInv, Value
<1>3. s \in Disk
  BY <1>2, SetEntryTyped
<1> HIDE DEF s
<1> QED BY <1>1, <1>3, LinkedTyped, LargeTyped DEF TypeInv

LEMMA ResizedTyped ==
  ASSUME TypeInv, NEW ino \in Ino, NEW size \in FileSize
  PROVE  Resized(ino, size).disk \in Disk
<1>1. disk \in Disk
  BY DEF TypeInv
<1>2. CASE IsFile(ino)
  BY <1>1, <1>2, ChangeTyped DEF Resized, Result
<1>3. CASE ~IsFile(ino)
  BY <1>1, <1>3, StrayedTyped DEF Resized, Returns
<1> QED BY <1>2, <1>3

LEMMA BeginsTyped ==
  ASSUME TypeInv, NEW p \in Procs, NEW pos \in FileSize, NEW count \in Counts,
         NEW append, Begins(p, pos, count, append)
  PROVE  disk' \in Disk /\ large' \in BOOLEAN /\ fd' = fd /\ ls' = ls
<1> DEFINE ino == fd[p]
<1>1. /\ disk' = IF pos + count <= disk.inode[ino].size THEN disk
                 ELSE Resized(ino, pos + count).disk
      /\ large' = (large \/ Large(Fullest(ino, pos + count))) /\ fd' = fd /\ ls' = ls
  BY DEF Begins, Returns
<1>2. pos + count \in FileSize /\ ino \in Ino
  BY UseAssumption, Constants DEF FileSize, TypeInv
<1>3. disk' \in Disk
  BY <1>1, <1>2, ResizedTyped DEF TypeInv
<1>4. large' \in BOOLEAN
  BY <1>1, LargeTyped DEF TypeInv
<1> QED BY <1>1, <1>3, <1>4

LEMMA EntryTyped ==
  ASSUME TypeInv, Sane, NEW off \in Entries(disk)
  PROVE  <<EntryName(disk, off), off>> \in Entry
<1>1. off \in Nat /\ disk \in Disk
  BY NamingFinite DEF TypeInv
<1>2. At(disk, off)[1] \in Block /\ At(disk, off)[2] \in Word
  BY <1>1, Division DEF Sane, At
<1>3. EntryName(disk, off) \in Names \cup {NoName}
  BY <1>1, <1>2 DEF EntryName, Disk
<1> QED BY <1>1, <1>3 DEF Entry

LEMMA NextTyped ==
  ASSUME TypeInv, ListInv, Next
  PROVE  TypeInv' /\ ListInv'
<1>0. /\ Sane /\ disk \in Disk /\ fd \in [Procs -> Ino] /\ large \in BOOLEAN
      /\ ls \in [on : BOOLEAN, f_pos : Int, due : SUBSET Entry, listed : SUBSET Entry]
  BY DEF Next, TypeInv
<1>1. SUFFICES /\ disk' \in Disk /\ large' \in BOOLEAN /\ fd' \in [Procs -> Ino] /\ ListInv'
               /\ ls' \in [on : BOOLEAN, f_pos : Int, due : SUBSET Entry, listed : SUBSET Entry]
  BY DEF TypeInv
<1> DEFINE Typed == disk' \in Disk /\ large' \in BOOLEAN
           Still == fd' = fd /\ ls' = ls
<1>2. ASSUME NEW p \in Procs, NEW name \in Names, Open(p, name)
      PROVE  Typed /\ fd' \in [Procs -> Ino] /\ ls' = ls
  <2>1. Lookup(name) \in Ino
    BY <1>0, <1>2, LookupFacts DEF Open
  <2> QED BY <1>0, <1>2, <2>1 DEF Open
<1>3. ASSUME NEW p \in Procs, Close(p) PROVE Typed /\ fd' \in [Procs -> Ino] /\ ls' = ls
  BY <1>0, <1>3, Constants DEF Close
<1>4. ASSUME NEW p \in Procs, GivesUp(p) PROVE Typed /\ Still
  BY <1>0, <1>4 DEF GivesUp
<1>5. ASSUME NEW p \in Procs, NEW count \in Counts, AppendWrite(p, count) PROVE Typed /\ Still
  <2>1. fd[p] \in Ino
    BY <1>0
  <2>2. disk.inode[fd[p]].size \in FileSize
    BY <1>0, <2>1, DiskTyped
  <2> QED BY <1>5, <2>2, BeginsTyped DEF AppendWrite
<1>6. ASSUME NEW p \in Procs, NEW count \in Counts, NEW pos \in Offsets, WriteAt(p, pos, count)
      PROVE  Typed /\ Still
  <2>1. pos \in FileSize
    BY UseAssumption, Constants DEF FileSize
  <2> QED BY <1>6, <2>1, BeginsTyped DEF WriteAt
<1>7. ASSUME NEW p \in Procs, Copies(p) PROVE Typed /\ Still
  <2> DEFINE n == Min({NINDIRECT - (write[p].pos % NINDIRECT), write[p].left})
  <2>1. /\ Still /\ large' = large
        /\ disk' = IF write[p].to \in Block \ Structure THEN Copied(p, write[p].to, n)
                   ELSE Strayed(disk)
    BY <1>7 DEF Copies
  <2> HIDE DEF n
  <2>2. disk' \in Disk
    BY <1>0, <2>1, CopiedTyped, StrayedTyped
  <2> QED BY <1>0, <2>1, <2>2
<1>8. ASSUME NEW ino \in Ino, NEW size \in Sizes, Truncate(ino, size) PROVE Typed /\ Still
  <2>1. size \in FileSize
    BY UseAssumption, Constants DEF FileSize
  <2>2. /\ Still /\ disk' = Resized(ino, size).disk
        /\ large' = (large \/ Large(Fullest(ino, size)))
    BY <1>8 DEF Truncate, BecomesFor
  <2> QED BY <1>0, <2>1, <2>2, ResizedTyped, LargeTyped
<1>9. ASSUME NEW name \in Names, Create(name) \/ Symlink(name) PROVE Typed /\ Still
  <2>1. Min(FreeInodes) \in Ino
    BY <1>9, FreeInodeFacts DEF Create, Symlink
  <2> DEFINE s == [NewFile EXCEPT !.size = 1, !.ftype = "SYMLINK"]
  <2>2. Enters(name, Min(FreeInodes), NewFile, 0) \/ Enters(name, Min(FreeInodes), s, 1)
    BY <1>9 DEF Create, Symlink
  <2>3. NewFile \in Inode /\ s \in Inode
    BY NewFileTyped
  <2> HIDE DEF s
  <2> QED BY <2>1, <2>2, <2>3, EntersTyped
<1>10. ASSUME NEW name \in Names, NEW new \in Names, Link(name, new) PROVE Typed /\ Still
  <2> DEFINE ino == Lookup(name)
             oi == [disk.inode[ino] EXCEPT !.nlink = @ + 1]
  <2>1. Named(disk, name) # {} /\ Enters(new, ino, oi, 0)
    BY <1>10 DEF Link
  <2>2. ino \in Ino
    BY <1>0, <2>1, LookupFacts
  <2>3. oi \in Inode
    <3>1. disk.inode[ino] \in Inode
      BY <1>0, <2>2, DiskTyped
    <3> QED BY <3>1 DEF Inode
  <2> HIDE DEF ino, oi
  <2> QED BY <2>1, <2>2, <2>3, EntersTyped
<1>11. ASSUME NEW name \in Names, Unlink(name)
       PROVE  Typed /\ fd' = fd /\ ls' \in [on : BOOLEAN, f_pos : Int, due : SUBSET Entry, listed : SUBSET Entry]
              /\ ls'.listed = ls.listed /\ ls'.f_pos = ls.f_pos
  <2> DEFINE off == Min(Named(disk, name))
             ino == Lookup(name)
  <2>1. /\ Named(disk, name) # {} /\ disk' = OneLess(SetEntry(disk, off, 0, NoName), ino)
        /\ large' = (large \/ Large(disk)) /\ fd' = fd
        /\ ls' = [ls EXCEPT !.due = @ \ {<<name, off>>}]
    BY <1>11 DEF Unlink, BecomesFor, Unlinked, OneLess
  <2>2. ino \in Ino
    BY <1>0, <2>1, LookupFacts
  <2> HIDE DEF off, ino
  <2>3. disk' \in Disk
    <3>1. 0 \in Value /\ NoName \in Names \cup {NoName}
      BY DEF Value
    <3>2. SetEntry(disk, off, 0, NoName) \in Disk
      BY <1>0, <3>1, SetEntryTyped
    <3> QED BY <2>1, <2>2, <3>2, OneLessTyped
  <2> QED BY <1>0, <2>1, <2>3, LargeTyped
<1>12. ASSUME ListBegins \/ ListCall \/ ListEnds
       PROVE  Typed /\ fd' = fd /\ ListInv'
              /\ ls' \in [on : BOOLEAN, f_pos : Int, due : SUBSET Entry, listed : SUBSET Entry]
  <2>0. disk' = disk /\ large' = large /\ fd' = fd
    BY <1>12 DEF ListBegins, ListCall, ListEnds
  <2>1. \A S \in SUBSET Entries(disk) : {<<EntryName(disk, off), off>> : off \in S} \in SUBSET Entry
    BY <1>0, EntryTyped
  <2>2. CASE ListBegins
    <3>1. {<<EntryName(disk, off), off>> : off \in Used} \in SUBSET Entry
      BY <2>1 DEF Used
    <3> QED BY <1>0, <2>0, <2>2, <3>1 DEF ListBegins, ListInv
  <2>3. CASE ListCall
    <3>1. ListInv' /\ ls'.f_pos \in Int
      BY <1>0, <2>3, ListCallBehind
    <3>2. Fitting(ls.f_pos) \subseteq Entries(disk)
      BY <1>0, FittingFirst
    <3>3. {<<EntryName(disk, off), off>> : off \in Fitting(ls.f_pos)} \in SUBSET Entry
      BY <2>1, <3>2
    <3>4. ls' = [ls EXCEPT !.f_pos = NextPos(ls.f_pos),
                           !.listed = ls.listed \cup {<<EntryName(disk, off), off>> : off \in Fitting(ls.f_pos)}]
      BY <1>0, <2>3 DEF ListCall
    <3> QED BY <1>0, <2>0, <3>1, <3>3, <3>4
  <2>4. CASE ListEnds
    BY <1>0, <2>0, <2>4 DEF ListEnds, NotListing, ListInv
  <2> QED BY <1>12, <2>2, <2>3, <2>4
<1>13. ASSUME Typed, fd' \in [Procs -> Ino], ls' = ls
       PROVE  /\ Typed /\ fd' \in [Procs -> Ino] /\ ListInv'
              /\ ls' \in [on : BOOLEAN, f_pos : Int, due : SUBSET Entry, listed : SUBSET Entry]
  BY <1>0, <1>13 DEF ListInv
<1>14. ASSUME Typed, Still
       PROVE  /\ Typed /\ fd' \in [Procs -> Ino] /\ ListInv'
              /\ ls' \in [on : BOOLEAN, f_pos : Int, due : SUBSET Entry, listed : SUBSET Entry]
  BY <1>0, <1>14 DEF ListInv
<1>15. ASSUME NEW name \in Names, Unlink(name) PROVE ListInv'
  BY <1>11, <1>15 DEF ListInv
<1> HIDE DEF Typed, Still
<1>16. CASE FileCalls
  BY <1>2, <1>3, <1>4, <1>5, <1>6, <1>7, <1>13, <1>14, <1>16 DEF FileCalls, Typed
<1>17. CASE DirCalls
  BY <1>0, <1>8, <1>9, <1>10, <1>11, <1>12, <1>14, <1>15, <1>17 DEF DirCalls, Typed
<1> QED BY <1>16, <1>17 DEF Next

-----------------------------------------------------------------------------
(* Appends under way.                                                      *)

(* What the file g has in d it has in r, in the same blocks.               *)
Stays(d, r, g) ==
  /\ r.inode[g].ftype = d.inode[g].ftype /\ d.inode[g].size <= r.inode[g].size
  /\ \A k \in Place : Has(d, g, k) =>
       /\ Rec(r, g, k) = Rec(d, g, k)
       /\ k # -1 => r.words[Rec(d, g, k)] = d.words[Rec(d, g, k)]

Reads(d, f, off) == GetWord(d, BlockNo(d, f, off), off % NINDIRECT)

LEMMA StaysReads ==
  ASSUME NEW d, Sound(d), NEW r, Sound(r), NEW g \in Ino, d.inode[g].ftype # "SYMLINK",
         Stays(d, r, g), NEW off \in Nat, off < d.inode[g].size
  PROVE  /\ off < r.inode[g].size /\ BlockNo(r, g, off) = BlockNo(d, g, off)
         /\ Reads(r, g, off) = Reads(d, g, off)
<1> DEFINE k == off \div NINDIRECT
<1>1. /\ r.inode[g].ftype # "SYMLINK" /\ d.inode[g].size <= r.inode[g].size
      /\ d.inode[g].size \in Int /\ r.inode[g].size \in Int
  BY DiskTyped DEF Stays, Sound, FileSize
<1>2. off < r.inode[g].size
  BY <1>1
<1>3. /\ k \in 0 .. Small-1 /\ k \in Place /\ Has(d, g, k) /\ BlockNo(d, g, off) = Rec(d, g, k)
      /\ BlockNo(r, g, off) = Rec(r, g, k)
  BY <1>1, <1>2, BlockNoIsRec
<1>4. k # -1
  BY <1>3, Constants
<1> HIDE DEF k
<1>5. Rec(r, g, k) = Rec(d, g, k) /\ r.words[Rec(d, g, k)] = d.words[Rec(d, g, k)]
  BY <1>3, <1>4 DEF Stays
<1> QED BY <1>2, <1>3, <1>5 DEF Reads, GetWord

LEMMA BlocksMonotone ==
  ASSUME NEW x \in Int, NEW y \in Int, x <= y
  PROVE  Size2NBlocks(x) <= Size2NBlocks(y)
<1> DEFINE k == Size2NBlocks(y)
<1>1. Size2NBlocks(x) \in Int /\ k \in Int
  BY BlocksOfSize
<1>2. ~(k < k)
  BY <1>1
<1>3. ~(k * NINDIRECT < y)
  BY <1>1, <1>2, BlocksOfSize
<1>4. k * NINDIRECT \in Int
  BY <1>1, Division
<1>5. ~(k * NINDIRECT < x)
  BY <1>3, <1>4
<1>6. ~(k < Size2NBlocks(x))
  BY <1>1, <1>5, BlocksOfSize
<1> QED BY <1>1, <1>6

(* The file ino is resized: every other file stays, and ino too if it does *)
(* not shrink.                                                             *)
LEMMA ReshapesStays ==
  ASSUME NEW d, Sound(d), NEW ino \in Ino, NEW r, Reshapes(d, r, ino), NEW g \in Ino,
         g # ino \/ d.inode[ino].size <= r.inode[ino].size
  PROVE  Stays(d, r, g)
<1>1. /\ Sound(r) /\ d.inode[g].size \in FileSize /\ r.inode[g].size \in FileSize
      /\ NBlocks(d, g) \in Nat /\ NBlocks(r, g) \in Nat
  BY DiskTyped DEF Reshapes, Sound
<1>2. r.inode[g].ftype = d.inode[g].ftype /\ d.inode[g].size <= r.inode[g].size
  BY <1>1 DEF Reshapes, FileSize
<1>3. NBlocks(d, g) <= NBlocks(r, g)
  BY <1>1, <1>2, BlocksMonotone DEF NBlocks, FileSize
<1>4. ASSUME NEW k \in Place, Has(d, g, k) PROVE Has(r, g, k)
  <2>1. k \in Int
    BY Constants DEF Place
  <2> QED BY <1>1, <1>2, <1>3, <1>4, <2>1, Constants DEF Has
<1> QED BY <1>2, <1>4 DEF Reshapes, Stays

LEMMA SameStays ==
  ASSUME NEW d \in Disk, NEW r, r.words = d.words, NEW g \in Ino, SameFile(d.inode[g], r.inode[g])
  PROVE  Stays(d, r, g)
<1>1. d.inode[g].size <= r.inode[g].size
  BY DiskTyped DEF SameFile, FileSize
<1> QED BY <1>1 DEF Stays, SameFile, Rec

LEMMA StaysTrans ==
  ASSUME NEW d \in Disk, NEW e \in Disk, NEW r \in Disk, NEW g \in Ino,
         Stays(d, e, g), Stays(e, r, g)
  PROVE  Stays(d, r, g)
<1>1. /\ d.inode[g].size \in Int /\ e.inode[g].size \in Int /\ r.inode[g].size \in Int
      /\ NBlocks(d, g) \in Nat /\ NBlocks(e, g) \in Nat
  BY DiskTyped DEF FileSize
<1>2. /\ e.inode[g].ftype = d.inode[g].ftype /\ d.inode[g].size <= e.inode[g].size
      /\ r.inode[g].ftype = e.inode[g].ftype /\ e.inode[g].size <= r.inode[g].size
  BY DEF Stays
<1>3. NBlocks(d, g) <= NBlocks(e, g)
  BY <1>1, <1>2, BlocksMonotone DEF NBlocks
<1>4. ASSUME NEW k \in Place, Has(d, g, k) PROVE Has(e, g, k)
  <2>1. k \in Int
    BY Constants DEF Place
  <2> QED BY <1>1, <1>2, <1>3, <1>4, <2>1, Constants DEF Has
<1>5. ASSUME NEW k \in Place, Has(d, g, k)
      PROVE  /\ Rec(r, g, k) = Rec(d, g, k)
             /\ k # -1 => r.words[Rec(d, g, k)] = d.words[Rec(d, g, k)]
  <2>1. Has(e, g, k)
    BY <1>4, <1>5
  <2> QED BY <1>5, <2>1 DEF Stays
<1>6. d.inode[g].size <= r.inode[g].size
  BY <1>1, <1>2
<1> QED BY <1>2, <1>5, <1>6 DEF Stays

(* A file gets no smaller than it was or than it is to become, even when   *)
(* change_size() fails.                                                    *)
LEMMA ChangeGrows ==
  ASSUME NEW d, Sound(d), NEW ino \in Ino, d.inode[ino].ftype # "SYMLINK", NEW size \in FileSize,
         NBlocks(GrowTo(d, ino, Size2NBlocks(size)).disk, ino) <= Small,
         NEW x \in Int, x <= d.inode[ino].size, x <= size
  PROVE  x <= ChangeSize(d, ino, size).disk.inode[ino].size
<1> DEFINE n == Size2NBlocks(size)
           grown == GrowTo(d, ino, n)
           c == ChangeSize(d, ino, size)
<1>1. n \in Nat /\ d \in Disk /\ d.inode[ino].size \in Int /\ NBlocks(d, ino) \in Nat
  BY SizeSteps, SoundFacts, DiskTyped DEF FileSize
<1>2. /\ c.ret \in {"ok", "ENOSPC", "EIO"}
      /\ c.ret = "ok" => c.disk.inode[ino].size = size
      /\ c.ret = "ENOSPC" => c.disk.inode = d.inode
  BY ChangeKeeps
<1>3. CASE c.ret = "ok"
  BY <1>2, <1>3
<1>4. CASE c.ret = "ENOSPC"
  BY <1>1, <1>2, <1>4
<1>5. CASE c.ret = "EIO"
  <2>1. grown \in Result /\ GrownSoFar(d, grown, ino, n, n)
    BY <1>1, GrowKeeps
  <2>2. c = grown
    <3>1. grown.ret \in {"ok", "ENOSPC", "EIO"}
      BY <2>1 DEF Result
    <3> HIDE DEF grown
    <3>2. c = CASE grown.ret = "ENOSPC" -> Returns("ENOSPC", ShrinkTo(grown.disk, ino, Size2NBlocks(d.inode[ino].size)))
                [] grown.ret = "EIO"    -> grown
                [] OTHER -> Returns("ok", [ShrinkTo(grown.disk, ino, n) EXCEPT !.inode[ino].size = size])
      BY DEF ChangeSize, grown
    <3> HIDE DEF c
    <3>3. grown.ret = "ENOSPC" => c.ret = "ENOSPC"
      BY <3>2 DEF Returns
    <3>4. grown.ret = "ok" => c.ret = "ok"
      BY <3>2 DEF Returns
    <3> QED BY <1>5, <3>1, <3>2, <3>3, <3>4
  <2> HIDE DEF grown, c
  <2>3. NBlocks(grown.disk, ino) <= Small
    BY DEF grown
  <2>4. /\ NBlocks(grown.disk, ino) >= NBlocks(d, ino)
        /\ grown.disk.inode[ino].size =
             d.inode[ino].size + (NBlocks(grown.disk, ino) - NBlocks(d, ino)) * NINDIRECT
    BY <2>1, <2>3 DEF GrownSoFar
  <2>5. NBlocks(grown.disk, ino) \in Nat
    BY <2>1, DiskTyped DEF Result
  <2>6. /\ 0 * NINDIRECT <= (NBlocks(grown.disk, ino) - NBlocks(d, ino)) * NINDIRECT
        /\ (NBlocks(grown.disk, ino) - NBlocks(d, ino)) * NINDIRECT \in Int
    <3>1. NBlocks(grown.disk, ino) - NBlocks(d, ino) \in Int /\ 0 <= NBlocks(grown.disk, ino) - NBlocks(d, ino)
      BY <1>1, <2>4, <2>5
    <3> QED BY <3>1, Multiples, Division
  <2>7. 0 * NINDIRECT = 0
    BY Constants
  <2> QED BY <1>1, <2>2, <2>4, <2>6, <2>7 DEF c
<1> QED BY <1>2, <1>3, <1>4, <1>5

LEMMA ResizedStays ==
  ASSUME TypeInv, SafeInv, NEW ino \in Ino \ 0 .. ROOT_INO, NEW size \in FileSize,
         ~large, ~Large(Fullest(ino, size)), NEW d, d = disk \/ d = Resized(ino, size).disk,
         NEW g \in Ino, g # ino \/ disk.inode[ino].size <= size
  PROVE  Stays(disk, d, g)
<1>1. disk \in Disk /\ Sound(disk) /\ ino \in Ino
  BY FileInodes DEF TypeInv, SafeInv
<1>2. CASE d = disk
  BY <1>1, <1>2, SameStays DEF SameFile
<1>3. CASE ~IsFile(ino) /\ d = Resized(ino, size).disk
  <2>1. d = Strayed(disk)
    BY <1>3 DEF Resized, Returns
  <2> QED BY <1>1, <2>1, StrayedTyped, SameStays DEF SameFile
<1>4. CASE IsFile(ino) /\ d = Resized(ino, size).disk
  <2>1. d = ChangeSize(disk, ino, size).disk /\ disk.inode[ino].ftype # "SYMLINK"
    BY <1>4 DEF Resized, IsFile
  <2>2. NBlocks(GrowTo(disk, ino, Size2NBlocks(size)).disk, ino) <= Small
    <3>1. GrowTo(disk, ino, Size2NBlocks(size)).disk \in Disk
      BY <1>1, ChangeTyped DEF Result
    <3> QED BY <1>1, <3>1, NotLarge DEF Fullest
  <2>3. Reshapes(disk, d, ino)
    BY <1>1, <2>1, <2>2, ChangeKeeps
  <2>4. g # ino \/ disk.inode[ino].size <= d.inode[ino].size
    <3>1. disk.inode[ino].size \in Int
      BY <1>1, DiskTyped DEF FileSize
    <3> QED BY <1>1, <2>1, <2>2, <3>1, ChangeGrows
  <2> QED BY <1>1, <2>3, <2>4, ReshapesStays
<1> QED BY <1>2, <1>3, <1>4

LEMMA ResizedSize ==
  ASSUME TypeInv, SafeInv, NEW ino \in Ino \ 0 .. ROOT_INO, NEW size \in FileSize,
         ~large, ~Large(Fullest(ino, size)), size >= 0, disk.inode[ino].size >= 0
  PROVE  /\ Resized(ino, size).disk.inode[ino].size >= 0
         /\ Resized(ino, size).ret = "ok" =>
              IsFile(ino) /\ Resized(ino, size).disk.inode[ino].size = size
<1>1. disk \in Disk /\ Sound(disk) /\ ino \in Ino
  BY FileInodes DEF TypeInv, SafeInv
<1>2. CASE ~IsFile(ino)
  <2>1. Resized(ino, size) = Returns("EIO", Strayed(disk))
    BY <1>2 DEF Resized
  <2>2. Strayed(disk).inode = disk.inode
    BY <1>1, StrayedTyped
  <2> QED BY <2>1, <2>2 DEF Returns
<1>3. CASE IsFile(ino)
  <2>1. Resized(ino, size) = ChangeSize(disk, ino, size) /\ disk.inode[ino].ftype # "SYMLINK"
    BY <1>3 DEF Resized, IsFile
  <2>2. NBlocks(GrowTo(disk, ino, Size2NBlocks(size)).disk, ino) <= Small
    <3>1. GrowTo(disk, ino, Size2NBlocks(size)).disk \in Disk
      BY <1>1, ChangeTyped DEF Result
    <3> QED BY <1>1, <3>1, NotLarge DEF Fullest
  <2>3. 0 <= disk.inode[ino].size /\ 0 <= size
    BY <1>1, DiskTyped DEF FileSize
  <2>4. 0 <= ChangeSize(disk, ino, size).disk.inode[ino].size
    BY <1>1, <2>1, <2>2, <2>3, ChangeGrows
  <2>5. ChangeSize(disk, ino, size).ret = "ok" =>
          ChangeSize(disk, ino, size).disk.inode[ino].size = size
    BY <1>1, <2>1, <2>2, ChangeKeeps
  <2>6. ChangeSize(disk, ino, size).disk.inode[ino].size \in Int
    BY <1>1, <2>1, ResizedTyped, DiskTyped DEF FileSize
  <2> QED BY <1>3, <2>1, <2>4, <2>5, <2>6
<1> QED BY <1>2, <1>3

(* The entries of the directory are in nobody else's blocks.               *)
LEMMA SetEntryStays ==
  ASSUME NEW d, Sound(d), d.inode[ROOT_INO].ftype = "DIR", NEW off \in Entries(d),
         NEW x \in Value, NEW name \in Names \cup {NoName}, NEW g \in Ino, g # ROOT_INO
  PROVE  Stays(d, SetEntry(d, off, x, name), g)
<1> DEFINE s == SetEntry(d, off, x, name)
           b == At(d, off)[1]
<1>1. /\ Sound(s) /\ s.inode = d.inode
      /\ \A i \in Ino, k \in Place : Has(d, i, k) => Rec(s, i, k) = Rec(d, i, k)
      /\ \A c \in Block : c # b => s.words[c] = d.words[c]
  BY SetEntryKeeps
<1> HIDE DEF s
<1>2. /\ off \div NINDIRECT \in Place /\ Has(d, ROOT_INO, off \div NINDIRECT)
      /\ b = Rec(d, ROOT_INO, off \div NINDIRECT)
  BY EntryPlace
<1>3. ASSUME NEW k \in Place, Has(d, g, k) PROVE s.words[Rec(d, g, k)] = d.words[Rec(d, g, k)]
  <2>1. OneUse(d) /\ Rec(d, g, k) \in DataBlock /\ ROOT_INO \in Ino
    BY <1>3, Constants DEF Sound, OneUse
  <2>2. Rec(d, g, k) # b
    BY <1>2, <1>3, <2>1 DEF OneUse
  <2> QED BY <1>1, <2>1, <2>2, Constants
<1>4. d.inode[g].size <= s.inode[g].size
  BY <1>1, DiskTyped DEF Sound, FileSize
<1> QED BY <1>1, <1>3, <1>4 DEF Stays, s

LEMMA RoomierStays ==
  ASSUME NEW d, Sound(d), NEW e, Roomier(d, e), NEW g \in Ino, g # ROOT_INO
  PROVE  Stays(d, e, g)
<1>1. e.inode[g] = d.inode[g] /\ d.inode[g].size \in Int
  BY DiskTyped DEF Roomier, Sound, FileSize
<1> QED BY <1>1 DEF Roomier, Stays

LEMMA EntersStays ==
  ASSUME TypeInv, SafeInv, NEW name \in Names, NEW ino \in Ino \ 0 .. ROOT_INO, NEW oi \in Inode,
         NEW links \in Int, Enters(name, ino, oi, links), ~large', NEW g \in Ino, g # ROOT_INO,
         g # ino \/ SameFile(disk.inode[ino], oi)
  PROVE  Stays(disk, disk', g)
<1> DEFINE bl == BlankDirentry(disk)
           s == SetEntry(bl.disk, bl.off, ino, name)
<1>1. /\ disk' = Linked(s, ino, oi, links) /\ bl.ret = "ok"
      /\ large' = (large \/ Large(disk'))
  BY EntersIs
<1>2. ino \in Ino /\ ino # ROOT_INO /\ ino \in Value /\ ROOT_INO \in Ino
  BY FileInodes, Constants DEF Value
<1>3. bl.disk \in Disk /\ s \in Disk /\ s.inode = bl.disk.inode /\ disk \in Disk
  BY <1>2, BlankTyped, SetEntryTyped DEF TypeInv
<1>4. ~large /\ ~Large(disk') /\ Sound(disk) /\ DirSound(disk)
  BY <1>1 DEF SafeInv
<1> HIDE DEF bl
<1>5. /\ disk' \in Disk /\ SameFile(s.inode[ROOT_INO], disk'.inode[ROOT_INO])
      /\ disk'.words = s.words /\ disk'.inode[ino] = oi
      /\ \A i \in Ino \ {ino, ROOT_INO} : disk'.inode[i] = s.inode[i]
  <2> HIDE DEF s
  <2> QED BY <1>1, <1>2, <1>3, RootLinks
<1>6. NBlocks(bl.disk, ROOT_INO) <= Small
  <2> HIDE DEF s
  <2>1. NBlocks(disk', ROOT_INO) <= Small
    BY <1>2, <1>4, <1>5, NotLarge
  <2> QED BY <1>3, <1>5, <2>1 DEF NBlocks, SameFile
<1>7. /\ Roomier(disk, bl.disk) /\ bl.off \in Entries(bl.disk)
  BY <1>1, <1>4, <1>6, BlankKeeps DEF bl, DirSound
<1>8. Stays(disk, bl.disk, g)
  BY <1>4, <1>7, RoomierStays
<1>9. Stays(bl.disk, s, g)
  <2>1. Sound(bl.disk) /\ bl.disk.inode[ROOT_INO].ftype = "DIR"
    BY <1>7 DEF Roomier
  <2> QED BY <1>2, <1>7, <2>1, SetEntryStays
<1>10. Stays(s, disk', g)
  <2>1. s.inode[ino] = disk.inode[ino]
    BY <1>2, <1>3, <1>7 DEF Roomier
  <2> HIDE DEF s
  <2>2. SameFile(s.inode[g], disk'.inode[g])
    BY <1>5, <2>1 DEF SameFile
  <2> QED BY <1>3, <1>5, <2>2, SameStays
<1> HIDE DEF s
<1>11. Stays(disk, s, g)
  BY <1>3, <1>8, <1>9, StaysTrans
<1> QED BY <1>3, <1>5, <1>10, <1>11, StaysTrans

LEMMA UnlinkStays ==
  ASSUME TypeInv, SafeInv, Sane, ~large, NEW name \in Names, Unlink(name),
         NEW g \in Ino, g # ROOT_INO
  PROVE  Stays(disk, disk', g)
<1> DEFINE off == Min(Named(disk, name))
           ino == Lookup(name)
           s == SetEntry(disk, off, 0, NoName)
<1>1. /\ Named(disk, name) # {} /\ disk' = OneLess(s, ino)
  BY DEF Unlink, BecomesFor, Unlinked, OneLess
<1>2. off \in Entries(disk) /\ ino \in Ino
  BY <1>1, LookupFacts
<1> HIDE DEF off, ino
<1>3. disk \in Disk /\ Sound(disk) /\ disk.inode[ROOT_INO].ftype = "DIR" /\ 0 \in Value
  BY Constants DEF TypeInv, SafeInv, DirSound, Value
<1>4. s \in Disk /\ Stays(disk, s, g)
  BY <1>2, <1>3, SetEntryTyped, SetEntryStays
<1> HIDE DEF s
<1>5. /\ disk' \in Disk /\ disk'.words = s.words
      /\ SameFile(s.inode[g], disk'.inode[g])
  <2> DEFINE o1 == [s.inode[ino] EXCEPT !.nlink = @ - 1]
  <2>1. s.inode[ino] \in Inode
    BY <1>2, <1>4, DiskTyped
  <2>2. o1 \in Inode /\ SameFile(s.inode[ino], o1)
    BY <2>1 DEF Inode, SameFile
  <2>3. disk' = SetInode(s, ino, o1)
    BY <1>1, <2>1 DEF OneLess, SetInode, Inode
  <2> HIDE DEF o1
  <2>4. /\ disk' \in Disk /\ disk'.words = s.words /\ disk'.inode[ino] = o1
        /\ \A i \in Ino \ {ino} : disk'.inode[i] = s.inode[i]
    <3>1. \A r : r = SetInode(s, ino, o1) =>
            /\ r \in Disk /\ r.words = s.words /\ r.inode[ino] = o1
            /\ \A i \in Ino \ {ino} : r.inode[i] = s.inode[i]
      BY <1>2, <1>4, <2>2, InodeSet
    <3> QED BY <2>3, <3>1
  <2> QED BY <2>2, <2>4 DEF SameFile
<1> QED BY <1>3, <1>4, <1>5, SameStays, StaysTrans

(* A turn of a write, and its history.                                     *)
IsTurn(w) ==
  w \in [pos : {w.pos}, left : {w.left}, to : {w.to}, span : {w.span}, alone : BOOLEAN]

(* What an undisturbed append w of p to the file f has come to: the rest   *)
(* of its span is before it and inside the file, and what is behind it is  *)
(* p's.                                                                    *)
Progress(d, f, w, p) ==
  /\ f \in Ino \ 0 .. ROOT_INO /\ d.inode[f].ftype = "REG"
  /\ w.pos \in Nat /\ w.left \in Nat \ {0} /\ w.pos + w.left <= d.inode[f].size
  /\ w.to = BlockNo(d, f, w.pos)
  /\ w.pos .. w.pos+w.left-1 \subseteq w.span /\ w.span \subseteq 0 .. w.pos+w.left-1
  /\ \A off \in w.span : off < w.pos => Reads(d, f, off) = Mark(p)

(* Appends of the writers in S to one file are all undisturbed or none is, *)
(* and each has its own part of the file.                                  *)
Appends(d, f, w, S) ==
  /\ \A p \in S : w[p].alone => Progress(d, f[p], w[p], p)
  /\ \A p, q \in S : p # q /\ f[p] = f[q] /\ w[p].alone /\ w[q] # NotWriting =>
       w[q].alone /\ w[p].span \cap w[q].span = {}

WriteInv ==
  /\ write = [p \in Procs |-> write[p]]
  /\ \A p \in Procs : IsTurn(write[p]) /\ (fd[p] = 0 => write[p] = NotWriting)

Sized(d) == \A i \in Ino \ 0 .. ROOT_INO : d.inode[i].size >= 0

AppendInv == WriteInv /\ (~large => Appends(disk, fd, write, Procs) /\ Sized(disk))

LEMMA ProgressStays ==
  ASSUME NEW d, Sound(d), NEW r, Sound(r), NEW f \in Ino, Stays(d, r, f), NEW w, NEW p,
         Progress(d, f, w, p)
  PROVE  Progress(r, f, w, p)
<1>1. /\ d.inode[f].ftype = "REG" /\ w.pos \in Nat /\ w.left \in Nat \ {0}
      /\ w.pos + w.left <= d.inode[f].size /\ w.span \subseteq 0 .. w.pos+w.left-1
      /\ d.inode[f].size \in Int /\ r.inode[f].size \in Int
      /\ d.inode[f].size <= r.inode[f].size /\ r.inode[f].ftype = "REG"
  BY DiskTyped DEF Progress, Sound, FileSize, Stays
<1>2. \A off \in Nat : off < d.inode[f].size =>
        BlockNo(r, f, off) = BlockNo(d, f, off) /\ Reads(r, f, off) = Reads(d, f, off)
  BY <1>1, StaysReads
<1>3. w.pos < d.inode[f].size /\ w.pos + w.left <= r.inode[f].size
  BY <1>1
<1>4. \A off \in w.span : off \in Nat /\ off < d.inode[f].size
  BY <1>1
<1> QED BY <1>1, <1>2, <1>3, <1>4 DEF Progress

LEMMA Clearing ==
  /\ IsTurn(NotWriting) /\ ~NotWriting.alone
  /\ \A w : IsTurn(w) => /\ IsTurn([w EXCEPT !.alone = FALSE])
                         /\ ~[w EXCEPT !.alone = FALSE].alone
<1>1. IsTurn(NotWriting) /\ ~NotWriting.alone
  BY DEF IsTurn, NotWriting
<1>2. ASSUME NEW w, IsTurn(w)
      PROVE  IsTurn([w EXCEPT !.alone = FALSE]) /\ ~[w EXCEPT !.alone = FALSE].alone
  BY <1>2 DEF IsTurn
<1> QED BY <1>1, <1>2

(* What becomes of the writes of S while the files of those that remain    *)
(* undisturbed stay.                                                       *)
LEMMA AppendsStay ==
  ASSUME NEW d, Sound(d), NEW r, Sound(r), NEW S, NEW f, NEW g, NEW w, NEW v,
         Appends(d, f, w, S), \A p \in S : IsTurn(w[p]),
         \A p \in S : \/ v[p] = NotWriting
                      \/ g[p] = f[p] /\ v[p] = w[p]
                      \/ g[p] = f[p] /\ w[p] # NotWriting /\ v[p] = [w[p] EXCEPT !.alone = FALSE],
         \A p, q \in S : /\ f[p] = f[q] /\ v[p].alone /\ w[q].alone /\ v[q] # NotWriting
                         => v[q].alone,
         \A p \in S : v[p].alone /\ f[p] \in Ino => Stays(d, r, f[p])
  PROVE  Appends(r, g, v, S)
<1>1. ASSUME NEW p \in S, v[p].alone
      PROVE  v[p] = w[p] /\ g[p] = f[p] /\ w[p].alone
  BY <1>1, Clearing
<1>2. ASSUME NEW p \in S, v[p] # NotWriting PROVE w[p] # NotWriting /\ g[p] = f[p]
  BY <1>2, Clearing
<1>3. ASSUME NEW p \in S, v[p].alone PROVE Progress(r, g[p], v[p], p)
  <2>1. Progress(d, f[p], w[p], p)
    BY <1>1, <1>3 DEF Appends
  <2>2. f[p] \in Ino
    BY <2>1 DEF Progress
  <2>3. Stays(d, r, f[p])
    BY <1>3, <2>2
  <2> QED BY <1>1, <1>3, <2>1, <2>2, <2>3, ProgressStays
<1>4. ASSUME NEW p \in S, NEW q \in S, p # q, g[p] = g[q], v[p].alone, v[q] # NotWriting
      PROVE  v[q].alone /\ v[p].span \cap v[q].span = {}
  <2>1. v[p] = w[p] /\ g[p] = f[p] /\ w[p].alone /\ w[q] # NotWriting /\ g[q] = f[q]
    BY <1>1, <1>2, <1>4
  <2>2. w[q].alone /\ w[p].span \cap w[q].span = {}
    BY <1>4, <2>1 DEF Appends
  <2>3. v[q].alone
    BY <1>4, <2>1, <2>2
  <2> QED BY <1>1, <2>1, <2>2, <2>3
<1> QED BY <1>3, <1>4 DEF Appends

-----------------------------------------------------------------------------
(* A turn that copies.                                                     *)

LEMMA DataNoStructure ==
  ASSUME Sound(disk), DirSound(disk), NEW f \in Ino, f # ROOT_INO, NEW k \in Place, k # -1,
         Has(disk, f, k)
  PROVE  Rec(disk, f, k) \in Block \ Structure
<1> DEFINE b == Rec(disk, f, k)
<1>1. /\ OneUse(disk) /\ b \in DataBlock /\ b \in Block /\ b # 0 /\ ROOT_INO \in Ino /\ -1 \in Place
      /\ disk.inode[ROOT_INO].ftype = "DIR"
  <2>1. OneUse(disk) /\ disk.inode[ROOT_INO].ftype = "DIR"
    BY DEF Sound, DirSound
  <2>2. b \in DataBlock
    BY <2>1 DEF OneUse
  <2> HIDE DEF b
  <2> QED BY <2>1, <2>2, Constants, PlaceFacts
<1>2. ASSUME NEW off \in Entries(disk) PROVE At(disk, off)[1] # b
  <2>1. /\ off \div NINDIRECT \in Place /\ Has(disk, ROOT_INO, off \div NINDIRECT)
        /\ At(disk, off)[1] = Rec(disk, ROOT_INO, off \div NINDIRECT)
    BY <1>1, EntryPlace
  <2> QED BY <1>1, <2>1 DEF OneUse
<1>3. ASSUME NEW i \in Ino PROVE disk.inode[i].indirect # b /\ disk.inode[i].indirect2 # b
  <2>1. Tidy(disk.inode[i]) /\ NBlocks(disk, i) \in Nat
    BY SoundFacts
  <2>2. disk.inode[i].indirect2 # b
    BY <1>1, <2>1 DEF Tidy
  <2>3. CASE Has(disk, i, -1)
    <3>1. Rec(disk, i, -1) = disk.inode[i].indirect
      BY DEF Rec
    <3>2. Rec(disk, i, -1) # b
      BY <1>1, <2>3 DEF OneUse
    <3> QED BY <2>2, <3>1, <3>2
  <2>4. CASE ~Has(disk, i, -1)
    <3>1. disk.inode[i].indirect = 0
      BY <2>1, <2>4, Constants DEF Has, Tidy, NBlocks
    <3> QED BY <1>1, <2>2, <3>1
  <2> QED BY <2>3, <2>4
<1> HIDE DEF b
<1>4. b \notin Structure
  BY <1>2, <1>3 DEF Structure
<1> QED BY <1>1, <1>4 DEF b

(* The n words of block b from i on become m.                              *)
Overwritten(d, r, b, i, n, m) ==
  /\ r.inode = d.inode
  /\ \A g \in Ino, k \in Place : Has(d, g, k) => Rec(r, g, k) = Rec(d, g, k)
  /\ \A c \in Block : c # b => r.words[c] = d.words[c]
  /\ \A j \in Word : r.words[b][j] = IF j \in i .. i+n-1 THEN m ELSE d.words[b][j]

(* n words are copied from pos on, within one block.                       *)
LEMMA CopyReads ==
  ASSUME NEW d, Sound(d), NEW r, Sound(r), NEW f \in Ino, d.inode[f].ftype # "SYMLINK", NEW pos \in Nat, NEW n \in Nat \ {0},
         pos + n <= d.inode[f].size, (pos % NINDIRECT) + n <= NINDIRECT,
         NEW m, Overwritten(d, r, BlockNo(d, f, pos), pos % NINDIRECT, n, m),
         NEW off \in Nat, off < d.inode[f].size
  PROVE  /\ BlockNo(r, f, off) = BlockNo(d, f, off)
         /\ Reads(r, f, off) = IF off \in pos .. pos+n-1 THEN m ELSE Reads(d, f, off)
<1> DEFINE k == pos \div NINDIRECT
           l == off \div NINDIRECT
           i == pos % NINDIRECT
           j == off % NINDIRECT
           b == BlockNo(d, f, pos)
<1>0. /\ r.inode = d.inode
      /\ \A g \in Ino, x \in Place : Has(d, g, x) => Rec(r, g, x) = Rec(d, g, x)
      /\ \A c \in Block : c # b => r.words[c] = d.words[c]
      /\ \A x \in Word : r.words[b][x] = IF x \in i .. i+n-1 THEN m ELSE d.words[b][x]
  BY DEF Overwritten
<1>1. d.inode[f].size \in Int /\ pos < d.inode[f].size
  BY DiskTyped DEF Sound, FileSize
<1>2. /\ k \in Place /\ k \in 0 .. Small-1 /\ Has(d, f, k) /\ b = Rec(d, f, k) /\ b \in Block
  BY <1>1, BlockNoIsRec
<1>3. /\ l \in Place /\ l \in 0 .. Small-1 /\ Has(d, f, l) /\ BlockNo(d, f, off) = Rec(d, f, l)
      /\ BlockNo(d, f, off) \in Block /\ BlockNo(r, f, off) = Rec(r, f, l)
  BY <1>0, BlockNoIsRec
<1>4. BlockNo(r, f, off) = BlockNo(d, f, off)
  <2> HIDE DEF l
  <2> QED BY <1>0, <1>3
<1>5. /\ k \in Int /\ l \in Int /\ i \in Word /\ j \in Word
      /\ pos = k * NINDIRECT + i /\ off = l * NINDIRECT + j
      /\ k * NINDIRECT \in Int /\ l * NINDIRECT \in Int
      /\ NINDIRECT \in Nat /\ Word = 0 .. NINDIRECT-1
  BY Division, Constants DEF Word
<1>6. Reads(r, f, off) = r.words[Rec(d, f, l)][j] /\ Reads(d, f, off) = d.words[Rec(d, f, l)][j]
  BY <1>3, <1>4 DEF Reads, GetWord
<1> HIDE DEF k, l, i, j, b
<1>7. CASE l = k
  <2>1. off \in pos .. pos+n-1 <=> j \in i .. i+n-1
    <3>1. PICK x \in Int : pos = x + i /\ off = x + j
      BY <1>5, <1>7
    <3>2. i \in Int /\ j \in Int
      BY <1>5
    <3> QED BY <3>1, <3>2
  <2> QED BY <1>0, <1>2, <1>4, <1>5, <1>6, <1>7, <2>1
<1>8. CASE l # k
  <2>1. Rec(d, f, l) # b
    BY <1>2, <1>3, <1>8 DEF Sound, OneUse
  <2>2. off \notin pos .. pos+n-1
    <3>1. CASE l < k
      <4>1. l * NINDIRECT + NINDIRECT <= k * NINDIRECT
        BY <1>5, <3>1, Multiples
      <4> QED BY <1>5, <4>1
    <3>2. CASE k < l
      <4>1. k * NINDIRECT + NINDIRECT <= l * NINDIRECT
        BY <1>5, <3>2, Multiples
      <4>2. i + n <= NINDIRECT
        BY DEF i
      <4> QED BY <1>5, <4>1, <4>2
    <3> QED BY <1>5, <1>8, <3>1, <3>2
  <2>3. Reads(r, f, off) = Reads(d, f, off)
    BY <1>0, <1>3, <1>6, <2>1
  <2> QED BY <1>4, <2>2, <2>3
<1> QED BY <1>7, <1>8

LEMMA TurnIs ==
  ASSUME NEW d, NEW ino, NEW w, IsTurn(w)
  PROVE  LET t == Turn(d, ino, w) IN
         /\ IsTurn(t)
         /\ t = NotWriting => w.left = 0 \/ BlockNo(d, ino, w.pos) = 0
         /\ t # NotWriting =>
              /\ w.left # 0 /\ BlockNo(d, ino, w.pos) # 0 /\ t.to = BlockNo(d, ino, w.pos)
              /\ t.pos = w.pos /\ t.left = w.left /\ t.span = w.span /\ t.alone = w.alone
<1> DEFINE b == BlockNo(d, ino, w.pos)
           u == [w EXCEPT !.to = b]
<1>1. /\ IsTurn(u) /\ u.to = b /\ u.pos = w.pos /\ u.left = w.left /\ u.span = w.span
      /\ u.alone = w.alone
  BY DEF IsTurn
<1>2. Turn(d, ino, w) = IF w.left = 0 \/ b = 0 THEN NotWriting ELSE u
  BY DEF Turn
<1>3. ASSUME u = NotWriting, ~(w.left = 0 \/ b = 0) PROVE FALSE
  BY <1>1, <1>3 DEF NotWriting
<1> HIDE DEF b, u
<1>4. IsTurn(NotWriting)
  BY Clearing
<1> QED BY <1>1, <1>2, <1>3, <1>4 DEF b

(* What a turn leaves of the disk: only words of the block it looked up.   *)
LEMMA CopyBase ==
  ASSUME TypeInv, SafeInv, ~large, NEW p \in Procs, Copies(p)
  PROVE  /\ Sound(disk) /\ DirSound(disk) /\ Sound(disk') /\ disk'.inode = disk.inode
         /\ \A i \in Ino, k \in Place : Has(disk, i, k) => Rec(disk', i, k) = Rec(disk, i, k)
         /\ \A c \in Block : c # write[p].to => disk'.words[c] = disk.words[c]
<1> DEFINE b == write[p].to
           n == Min({NINDIRECT - (write[p].pos % NINDIRECT), write[p].left})
<1>1. disk' = IF b \in Block \ Structure THEN Copied(p, b, n) ELSE Strayed(disk)
  BY DEF Copies
<1> HIDE DEF n
<1>2. disk \in Disk /\ Sound(disk) /\ DirSound(disk)
  BY DEF TypeInv, SafeInv
<1>3. CASE b \in Block \ Structure
  <2>1. /\ disk' \in Disk /\ disk'.inode = disk.inode
        /\ disk'.free = disk.free /\ disk'.names = disk.names
        /\ \A c \in Block : c # b => disk'.words[c] = disk.words[c]
    BY <1>1, <1>2, <1>3, CopiedTyped
  <2>2. /\ b \notin {At(disk, off)[1] : off \in Entries(disk)}
        /\ b \notin {disk.inode[i].indirect : i \in Ino}
    BY <1>3 DEF Structure
  <2> QED BY <1>2, <1>3, <2>1, <2>2, CopiedKeeps
<1>4. CASE b \notin Block \ Structure
  <2>1. disk' = Strayed(disk)
    BY <1>1, <1>4
  <2>2. /\ disk'.inode = disk.inode /\ disk'.words = disk.words
    BY <1>2, <2>1, StrayedTyped
  <2>3. Sound(disk')
    BY <1>2, <2>1, StrayedKeeps
  <2> QED BY <1>2, <2>2, <2>3 DEF Rec
<1> QED BY <1>3, <1>4

(* What a turn of an undisturbed append does to its file.                  *)
LEMMA AloneCopies ==
  ASSUME TypeInv, SafeInv, AppendInv, ~large, NEW p \in Procs, Copies(p), write[p].alone,
         NEW n, n = Min({NINDIRECT - (write[p].pos % NINDIRECT), write[p].left}),
         NEW f, f = fd[p]
  PROVE  /\ f \in Ino /\ disk.inode[f].ftype = "REG" /\ disk.inode[f].size \in Int
         /\ n \in Nat \ {0} /\ n <= write[p].left
         /\ \A off \in Nat : off < disk.inode[f].size =>
              /\ BlockNo(disk', f, off) = BlockNo(disk, f, off)
              /\ Reads(disk', f, off) =
                   IF off \in write[p].pos .. write[p].pos+n-1 THEN Mark(p) ELSE Reads(disk, f, off)
<1> DEFINE w == write[p]
           b == w.to
           k == w.pos \div NINDIRECT
           i == w.pos % NINDIRECT
<1>1. Progress(disk, f, w, p)
  BY DEF AppendInv, Appends
<1>2. /\ f \in Ino /\ f # ROOT_INO /\ disk.inode[f].ftype = "REG" /\ w.pos \in Nat
      /\ w.left \in Nat \ {0} /\ w.pos + w.left <= disk.inode[f].size
      /\ b = BlockNo(disk, f, w.pos) /\ disk.inode[f].size \in Int /\ disk \in Disk
  BY <1>1, FileInodes, DiskTyped DEF Progress, TypeInv, FileSize
<1>3. /\ Sound(disk) /\ DirSound(disk) /\ Sound(disk') /\ disk'.inode = disk.inode
      /\ \A j \in Ino, l \in Place : Has(disk, j, l) => Rec(disk', j, l) = Rec(disk, j, l)
      /\ \A c \in Block : c # b => disk'.words[c] = disk.words[c]
  BY CopyBase
<1>4. i \in Word /\ i \in Int /\ NINDIRECT - i \in Nat \ {0} /\ NINDIRECT \in Nat
  <2>1. w.pos \in Int
    BY <1>2
  <2>2. i \in Word /\ NINDIRECT \in Nat
    BY <2>1, Division, Constants
  <2> HIDE DEF i
  <2> QED BY <2>2 DEF Word
<1> HIDE DEF i
<1>5. n \in Nat \ {0} /\ n <= w.left /\ i + n <= NINDIRECT
  <2> DEFINE T == {NINDIRECT - i, w.left}
  <2>1. T \subseteq Nat /\ T # {} /\ IsFiniteSet(T)
    <3>1. T = {NINDIRECT - i} \cup {w.left} /\ T \subseteq Nat
      BY <1>2, <1>4
    <3>2. IsFiniteSet({NINDIRECT - i}) /\ IsFiniteSet({w.left})
      BY FS_Singleton
    <3> HIDE DEF T
    <3> QED BY <3>1, <3>2, FS_Union
  <2>2. n = Min(T)
    BY DEF i
  <2>3. n \in T /\ \A x \in T : n <= x
    BY <2>1, <2>2, MinFacts
  <2> QED BY <1>2, <1>4, <2>3
<1>6. b \in Block \ Structure
  <2>1. w.pos < disk.inode[f].size
    BY <1>2
  <2>2. k \in 0 .. Small-1 /\ k \in Place /\ Has(disk, f, k) /\ b = Rec(disk, f, k)
    BY <1>2, <1>3, <2>1, BlockNoIsRec
  <2>3. k # -1
    BY <2>2, Constants
  <2> QED BY <1>2, <1>3, <2>2, <2>3, DataNoStructure
<1>7. Overwritten(disk, disk', b, i, n, Mark(p))
  <2>1. disk' = Copied(p, b, n)
    BY <1>6 DEF Copies
  <2>2. disk'.words[b] = [j \in Word |-> IF j \in i .. i+n-1 THEN Mark(p) ELSE disk.words[b][j]]
    BY <1>2, <1>6, <2>1 DEF Copied, Disk, i
  <2>3. \A j \in Word : disk'.words[b][j] =
           IF j \in i .. i+n-1 THEN Mark(p) ELSE disk.words[b][j]
    BY <2>2
  <2> HIDE DEF b
  <2> QED BY <1>3, <2>3 DEF Overwritten
<1> HIDE DEF w, b, k
<1>8. w.pos + n <= disk.inode[f].size /\ (w.pos % NINDIRECT) + n <= NINDIRECT
  BY <1>2, <1>5 DEF i
<1>9. Overwritten(disk, disk', BlockNo(disk, f, w.pos), w.pos % NINDIRECT, n, Mark(p))
  BY <1>2, <1>7 DEF i
<1>10. ASSUME NEW off \in Nat, off < disk.inode[f].size
      PROVE  /\ BlockNo(disk', f, off) = BlockNo(disk, f, off)
             /\ Reads(disk', f, off) =
                  IF off \in w.pos .. w.pos+n-1 THEN Mark(p) ELSE Reads(disk, f, off)
  <2>1. disk.inode[f].ftype # "SYMLINK"
    BY <1>2
  <2> QED BY <1>2, <1>3, <1>5, <1>8, <1>9, <1>10, <2>1, CopyReads
<1> QED BY <1>2, <1>5, <1>10 DEF w

(* What write becomes in a turn of p's write that copies.                  *)
LEMMA CopyWrites ==
  ASSUME WriteInv, NEW p \in Procs, Copies(p),
         NEW n, n = Min({NINDIRECT - (write[p].pos % NINDIRECT), write[p].left}), n \in Nat,
         write[p].pos \in Nat, write[p].left \in Nat
  PROVE  /\ write'[p] = NotWriting =>
              write[p].left - n = 0 \/ BlockNo(disk', fd[p], write[p].pos + n) = 0
         /\ write'[p] # NotWriting =>
              /\ write'[p].pos = write[p].pos + n /\ write'[p].left = write[p].left - n
              /\ write'[p].left # 0 /\ write'[p].to = BlockNo(disk', fd[p], write'[p].pos)
<1> DEFINE w == write[p]
           rest == [w EXCEPT !.pos = @ + n, !.left = @ - n]
           b == w.to
           copied == IF b \in Block \ Structure THEN Copied(p, b, n) ELSE Strayed(disk)
<1>1. disk' = copied /\ write'[p] = Turn(copied, fd[p], rest)
  BY DEF Copies
<1>2. IsTurn(rest) /\ rest.pos = w.pos + n /\ rest.left = w.left - n
  BY DEF WriteInv, IsTurn
<1> HIDE DEF rest, copied, w, b
<1>3. write'[p] = Turn(disk', fd[p], rest)
  BY <1>1
<1> QED BY <1>2, <1>3, TurnIs DEF w

(* The writes go on as they are, but for those whose file has a new owner  *)
(* of a block.                                                             *)
LEMMA CopyOthers ==
  ASSUME WriteInv, NEW p \in Procs, Copies(p)
  PROVE  /\ fd' = fd /\ write' = [q \in Procs |-> write'[q]] /\ write[p] # NotWriting
         /\ IsTurn(write'[p])
         /\ write'[p] # NotWriting => write'[p].span = write[p].span /\ write'[p].alone = write[p].alone
         /\ \A q \in Procs \ {p} :
              \/ write'[q] = write[q] /\ (write[q].alone /\ fd[q] # fd[p] =>
                                            write[p].to \notin Owned(Places(disk, fd[q])))
              \/ /\ write'[q] = [write[q] EXCEPT !.alone = FALSE] /\ write[q] # NotWriting
                 /\ fd[q] # fd[p] /\ write[p].to \in Owned(Places(disk, fd[q]))
<1> DEFINE b == write[p].to
           n == Min({NINDIRECT - (write[p].pos % NINDIRECT), write[p].left})
           copied == IF b \in Block \ Structure THEN Copied(p, b, n) ELSE Strayed(disk)
           rest == [write[p] EXCEPT !.pos = @ + n, !.left = @ - n]
           O(q) == Writing(q) /\ fd[q] # fd[p] /\ b \in Owned(Places(disk, fd[q]))
<1>1. /\ fd' = fd /\ write[p] # NotWriting
      /\ write' = [q \in Procs |-> IF q = p THEN Turn(copied, fd[p], rest)
                                   ELSE IF O(q) THEN [write[q] EXCEPT !.alone = FALSE] ELSE write[q]]
  BY DEF Copies, Writing
<1>2. IsTurn(rest) /\ rest.span = write[p].span /\ rest.alone = write[p].alone
  BY DEF WriteInv, IsTurn
<1>3. ASSUME NEW q \in Procs, write[q].alone PROVE write[q] # NotWriting
  BY <1>3, Clearing
<1> HIDE DEF rest, copied, n
<1>4. write'[p] = Turn(copied, fd[p], rest)
  BY <1>1
<1>5. /\ IsTurn(write'[p])
      /\ write'[p] # NotWriting => write'[p].span = write[p].span /\ write'[p].alone = write[p].alone
  BY <1>2, <1>4, TurnIs
<1>6. \A q \in Procs \ {p} :
        write'[q] = IF O(q) THEN [write[q] EXCEPT !.alone = FALSE] ELSE write[q]
  BY <1>1
<1>7. write' = [q \in Procs |-> write'[q]]
  BY <1>1
<1> QED BY <1>1, <1>3, <1>5, <1>6, <1>7 DEF Writing

(* The rest of an undisturbed append, or its end.                          *)
LEMMA OwnTurn ==
  ASSUME TypeInv, SafeInv, AppendInv, ~large, NEW p \in Procs, Copies(p), write[p].alone
  PROVE  /\ write'[p] # NotWriting => Progress(disk', fd[p], write'[p], p)
         /\ write'[p] = NotWriting => \A off \in write[p].span : Reads(disk', fd[p], off) = Mark(p)
<1> DEFINE w == write[p]
           v == write'[p]
           f == fd[p]
           n == Min({NINDIRECT - (write[p].pos % NINDIRECT), write[p].left})
           size == disk.inode[f].size
<1>1. Progress(disk, f, w, p)
  BY DEF AppendInv, Appends
<1>2. /\ w.pos \in Nat /\ w.left \in Nat \ {0} /\ w.pos + w.left <= size
      /\ w.pos .. w.pos+w.left-1 \subseteq w.span /\ w.span \subseteq 0 .. w.pos+w.left-1
      /\ \A off \in w.span : off < w.pos => Reads(disk, f, off) = Mark(p)
      /\ f \in Ino \ 0 .. ROOT_INO
  BY <1>1 DEF Progress
<1>3. /\ f \in Ino /\ disk.inode[f].ftype = "REG" /\ size \in Int
      /\ n \in Nat \ {0} /\ n <= w.left
      /\ \A off \in Nat : off < size =>
           /\ BlockNo(disk', f, off) = BlockNo(disk, f, off)
           /\ Reads(disk', f, off) =
                IF off \in w.pos .. w.pos+n-1 THEN Mark(p) ELSE Reads(disk, f, off)
  BY AloneCopies
<1>4. Sound(disk) /\ Sound(disk') /\ disk'.inode = disk.inode
  BY CopyBase
<1>5. /\ v = NotWriting => w.left - n = 0 \/ BlockNo(disk', f, w.pos + n) = 0
      /\ v # NotWriting =>
           /\ v.pos = w.pos + n /\ v.left = w.left - n
           /\ v.left # 0 /\ v.to = BlockNo(disk', f, v.pos)
  BY <1>2, <1>3, CopyWrites DEF AppendInv
<1>6. v # NotWriting => v.span = w.span
  BY CopyOthers DEF AppendInv
<1> HIDE DEF w, v, f, n, size
<1>7. \A off \in w.span : off \in Nat /\ off < size
  BY <1>2, <1>3
<1>8. \A off \in w.span : off < w.pos + n => Reads(disk', f, off) = Mark(p)
  BY <1>2, <1>3, <1>7
<1>9. CASE v # NotWriting
  <2>1. /\ v.pos \in Nat /\ v.left \in Nat \ {0} /\ v.pos + v.left = w.pos + w.left
        /\ v.pos >= w.pos /\ v.span = w.span
    BY <1>2, <1>3, <1>5, <1>6, <1>9
  <2>2. v.pos .. v.pos+v.left-1 \subseteq v.span /\ v.span \subseteq 0 .. v.pos+v.left-1
    BY <1>2, <2>1
  <2>3. \A off \in v.span : off < v.pos => Reads(disk', f, off) = Mark(p)
    BY <1>5, <1>8, <1>9, <2>1
  <2>4. Progress(disk', f, v, p)
    BY <1>2, <1>3, <1>4, <1>5, <1>9, <2>1, <2>2, <2>3 DEF Progress, size
  <2> QED BY <1>9, <2>4 DEF v, f
<1>10. CASE v = NotWriting
  <2>1. w.left - n = 0
    <3> SUFFICES ASSUME w.left # n PROVE FALSE
      BY <1>2, <1>3
    <3>1. w.pos + n \in Nat /\ w.pos + n < size
      BY <1>2, <1>3
    <3>2. BlockNo(disk, f, w.pos + n) \in DataBlock
      BY <1>3, <1>4, <3>1, BlockNoIsRec DEF size
    <3>3. BlockNo(disk', f, w.pos + n) # 0
      BY <1>3, <3>1, <3>2, Constants
    <3> QED BY <1>2, <1>3, <1>5, <1>10, <3>3
  <2>2. \A off \in w.span : off < w.pos + n
    BY <1>2, <1>3, <2>1
  <2> QED BY <1>8, <1>10, <2>2 DEF w, v, f
<1> QED BY <1>9, <1>10

LEMMA CopiesAppend ==
  ASSUME TypeInv, SafeInv, AppendInv, ~large, NEW p \in Procs, Copies(p)
  PROVE  Appends(disk', fd', write', Procs)
<1>1. /\ fd' = fd /\ write[p] # NotWriting
      /\ write'[p] # NotWriting => write'[p].span = write[p].span /\ write'[p].alone = write[p].alone
      /\ \A q \in Procs \ {p} :
           \/ write'[q] = write[q] /\ (write[q].alone /\ fd[q] # fd[p] =>
                                         write[p].to \notin Owned(Places(disk, fd[q])))
           \/ /\ write'[q] = [write[q] EXCEPT !.alone = FALSE] /\ write[q] # NotWriting
              /\ fd[q] # fd[p] /\ write[p].to \in Owned(Places(disk, fd[q]))
  BY CopyOthers DEF AppendInv
<1>2. Appends(disk, fd, write, Procs) /\ \A q \in Procs : IsTurn(write[q])
  BY DEF AppendInv, WriteInv
<1>3. /\ Sound(disk) /\ Sound(disk') /\ disk'.inode = disk.inode
      /\ \A i \in Ino, k \in Place : Has(disk, i, k) => Rec(disk', i, k) = Rec(disk, i, k)
      /\ \A c \in Block : c # write[p].to => disk'.words[c] = disk.words[c]
  BY CopyBase
<1>4. ASSUME NEW q \in Procs, write'[q].alone PROVE Progress(disk', fd[q], write'[q], q)
  <2>1. CASE q = p
    <3>1. write'[p] # NotWriting
      BY <1>4, <2>1, Clearing
    <3> QED BY <1>1, <1>4, <2>1, <3>1, OwnTurn
  <2>2. CASE q # p /\ fd[q] # fd[p]
    <3>0. ~(write'[q] = [write[q] EXCEPT !.alone = FALSE])
      BY <1>2, <1>4, Clearing
    <3>1. write'[q] = write[q] /\ write[p].to \notin Owned(Places(disk, fd[q]))
      <4>1. write'[q] = write[q] /\ (write[q].alone /\ fd[q] # fd[p] =>
                                        write[p].to \notin Owned(Places(disk, fd[q])))
        BY <1>1, <2>2, <3>0
      <4> QED BY <1>4, <2>2, <4>1
    <3>2. Progress(disk, fd[q], write[q], q)
      BY <1>2, <1>4, <3>1 DEF Appends
    <3>3. fd[q] \in Ino
      BY <3>2 DEF Progress
    <3>4. ASSUME NEW k \in Place, Has(disk, fd[q], k)
          PROVE  disk'.words[Rec(disk, fd[q], k)] = disk.words[Rec(disk, fd[q], k)]
      <4>1. Rec(disk, fd[q], k) \in Block
        BY <1>3, <3>3, <3>4, Constants DEF Sound, OneUse
      <4>2. Rec(disk, fd[q], k) # write[p].to
        BY <1>3, <3>1, <3>3, <3>4, OwnedIs
      <4> QED BY <1>3, <4>1, <4>2
    <3>5. disk.inode[fd[q]].size \in Int
      BY <3>3, DiskTyped DEF TypeInv, FileSize
    <3>6. Stays(disk, disk', fd[q])
      BY <1>3, <3>3, <3>4, <3>5 DEF Stays
    <3> QED BY <1>3, <3>1, <3>2, <3>3, <3>6, ProgressStays
  <2>3. CASE q # p /\ fd[q] = fd[p]
    <3> DEFINE f == fd[p]
               w == write[q]
               n == Min({NINDIRECT - (write[p].pos % NINDIRECT), write[p].left})
    <3>1. write'[q] = write[q]
      BY <1>1, <2>3
    <3>2. Progress(disk, f, w, q)
      BY <1>2, <1>4, <2>3, <3>1 DEF Appends
    <3>3. write[p].alone /\ write[q].span \cap write[p].span = {}
      BY <1>1, <1>2, <1>4, <2>3, <3>1 DEF Appends
    <3>4. /\ disk.inode[f].size \in Int /\ n \in Nat \ {0} /\ n <= write[p].left
          /\ \A off \in Nat : off < disk.inode[f].size =>
               /\ BlockNo(disk', f, off) = BlockNo(disk, f, off)
               /\ Reads(disk', f, off) =
                    IF off \in write[p].pos .. write[p].pos+n-1 THEN Mark(p) ELSE Reads(disk, f, off)
      BY <3>3, AloneCopies
    <3>5. Progress(disk, f, write[p], p)
      BY <1>2, <3>3 DEF Appends
    <3>6. /\ write[p].pos \in Nat /\ write[p].left \in Nat
          /\ write[p].pos .. write[p].pos+write[p].left-1 \subseteq write[p].span
      BY <3>5 DEF Progress
    <3> HIDE DEF f, w, n
    <3>7. /\ f \in Ino \ 0 .. ROOT_INO /\ disk.inode[f].ftype = "REG"
          /\ w.pos \in Nat /\ w.left \in Nat \ {0} /\ w.pos + w.left <= disk.inode[f].size
          /\ w.to = BlockNo(disk, f, w.pos)
          /\ w.pos .. w.pos+w.left-1 \subseteq w.span /\ w.span \subseteq 0 .. w.pos+w.left-1
          /\ \A off \in w.span : off < w.pos => Reads(disk, f, off) = Mark(q)
      BY <3>2 DEF Progress
    <3>8. write[p].pos .. write[p].pos+n-1 \subseteq write[p].span
      BY <3>4, <3>6
    <3>9. \A off \in w.span : off \in Nat /\ off < disk.inode[f].size
      BY <3>4, <3>7
    <3>10. \A off \in w.span : off \notin write[p].pos .. write[p].pos+n-1
      BY <3>3, <3>8 DEF w
    <3>11. \A off \in w.span : Reads(disk', f, off) = Reads(disk, f, off)
      BY <3>4, <3>9, <3>10
    <3>12. w.pos < disk.inode[f].size
      BY <3>4, <3>7
    <3>13. Progress(disk', f, w, q)
      BY <1>3, <3>4, <3>7, <3>11, <3>12 DEF Progress
    <3> QED BY <2>3, <3>1, <3>13 DEF f, w
  <2> QED BY <2>1, <2>2, <2>3
<1>5. ASSUME NEW q \in Procs, NEW s \in Procs, q # s, fd[q] = fd[s], write'[q].alone,
             write'[s] # NotWriting
      PROVE  write'[s].alone /\ write'[q].span \cap write'[s].span = {}
  <2>1. write'[q] # NotWriting
    BY <1>5, Clearing
  <2>2. write[q].alone /\ write'[q].span = write[q].span
    BY <1>1, <1>2, <1>5, <2>1, Clearing
  <2>3. write[s] # NotWriting
    BY <1>1, <1>5
  <2>4. write[s].alone /\ write[q].span \cap write[s].span = {}
    BY <1>2, <1>5, <2>2, <2>3 DEF Appends
  <2>5. write'[s].alone /\ write'[s].span = write[s].span
    <3>1. CASE s = p
      BY <1>1, <1>5, <2>4, <3>1
    <3>2. CASE s # p
      <4>1. write'[s] = write[s]
        <5>1. CASE q = p
          BY <1>1, <1>5, <3>2, <5>1
        <5>2. CASE q # p
          <6>1. ~(write'[q] = [write[q] EXCEPT !.alone = FALSE])
            BY <1>2, <1>5, Clearing
          <6>2. fd[q] # fd[p] => write[p].to \notin Owned(Places(disk, fd[q]))
            BY <1>1, <2>2, <5>2, <6>1
          <6> QED BY <1>1, <1>5, <3>2, <6>2
        <5> QED BY <5>1, <5>2
      <4> QED BY <2>4, <4>1
    <3> QED BY <3>1, <3>2
  <2> QED BY <2>2, <2>4, <2>5
<1> QED BY <1>1, <1>4, <1>5 DEF Appends

LEMMA CopiesWriteInv ==
  ASSUME WriteInv, NEW p \in Procs, Copies(p)
  PROVE  WriteInv'
<1>1. /\ fd' = fd /\ write' = [q \in Procs |-> write'[q]] /\ write[p] # NotWriting
      /\ IsTurn(write'[p])
      /\ \A q \in Procs \ {p} :
           \/ write'[q] = write[q]
           \/ /\ write'[q] = [write[q] EXCEPT !.alone = FALSE]
              /\ write[q] # NotWriting
  BY CopyOthers
<1>2. \A q \in Procs : IsTurn(write[q]) /\ (fd[q] = 0 => write[q] = NotWriting)
  BY DEF WriteInv
<1>3. ASSUME NEW q \in Procs
      PROVE  IsTurn(write'[q]) /\ (fd'[q] = 0 => write'[q] = NotWriting)
  <2>1. CASE q = p
    BY <1>1, <1>2, <2>1
  <2>2. CASE q # p /\ write'[q] = write[q]
    BY <1>1, <1>2, <2>2
  <2>3. CASE q # p /\ write'[q] = [write[q] EXCEPT !.alone = FALSE] /\ write[q] # NotWriting
    BY <1>1, <1>2, <2>3, Clearing
  <2> QED BY <1>1, <2>1, <2>2, <2>3
<1> QED BY <1>1, <1>3 DEF WriteInv

LEMMA CopiesKeeps ==
  ASSUME TypeInv, SafeInv, AppendInv, NEW p \in Procs, Copies(p)
  PROVE  AppendInv'
<1>1. WriteInv' /\ large' = large
  BY CopiesWriteInv DEF AppendInv, Copies
<1>2. ASSUME ~large PROVE Appends(disk', fd', write', Procs) /\ Sized(disk')
  <2>1. Appends(disk', fd', write', Procs)
    BY <1>2, CopiesAppend
  <2>2. disk'.inode = disk.inode
    BY <1>2, CopyBase
  <2> QED BY <1>2, <2>1, <2>2 DEF AppendInv, Sized
<1> QED BY <1>1, <1>2 DEF AppendInv

-----------------------------------------------------------------------------
(* The other steps.                                                        *)

(* A step after which the writers of the files in X are not alone, all     *)
(* other files staying.                                                    *)
LEMMA BecomesKeeps ==
  ASSUME TypeInv, SafeInv, AppendInv, Tame, NEW X, fd' = fd,
         write' = [p \in Procs |->
           IF fd[p] \in X /\ Writing(p) THEN [write[p] EXCEPT !.alone = FALSE] ELSE write[p]],
         ~large' => Sized(disk') /\ \A g \in Ino \ 0 .. ROOT_INO : g \notin X => Stays(disk, disk', g)
  PROVE  AppendInv'
<1>1. \A p \in Procs : IsTurn(write[p]) /\ (fd[p] = 0 => write[p] = NotWriting)
  BY DEF AppendInv, WriteInv
<1>2. ASSUME NEW p \in Procs
      PROVE  \/ write'[p] = write[p] /\ ~(fd[p] \in X /\ write[p] # NotWriting)
             \/ /\ write'[p] = [write[p] EXCEPT !.alone = FALSE]
                /\ fd[p] \in X /\ write[p] # NotWriting
  BY DEF Writing
<1>3. write' = [p \in Procs |-> write'[p]]
  OBVIOUS
<1>4. WriteInv'
  <2>1. ASSUME NEW p \in Procs
        PROVE  IsTurn(write'[p]) /\ (fd'[p] = 0 => write'[p] = NotWriting)
    BY <1>1, <1>2, Clearing
  <2> QED BY <1>3, <2>1 DEF WriteInv
<1>5. ASSUME ~large' PROVE Appends(disk', fd', write', Procs)
  <2>1. ~large /\ Sound(disk) /\ Sound(disk')
    BY <1>5 DEF Tame, SafeInv
  <2>2. Appends(disk, fd, write, Procs)
    BY <2>1 DEF AppendInv
  <2>3. \A p \in Procs :
          \/ write'[p] = NotWriting
          \/ fd'[p] = fd[p] /\ write'[p] = write[p]
          \/ /\ fd'[p] = fd[p] /\ write[p] # NotWriting
             /\ write'[p] = [write[p] EXCEPT !.alone = FALSE]
    BY <1>2
  <2>4. ASSUME NEW p \in Procs, write'[p].alone
        PROVE  write'[p] = write[p] /\ fd[p] \notin X
    <3>1. ~(write'[p] = [write[p] EXCEPT !.alone = FALSE])
      BY <1>1, <2>4, Clearing
    <3>2. write'[p] = write[p] /\ ~(fd[p] \in X /\ write[p] # NotWriting)
      BY <1>2, <3>1
    <3> QED BY <2>4, <3>2, Clearing
  <2>5. ASSUME NEW p \in Procs, NEW q \in Procs, fd[p] = fd[q], write'[p].alone, write[q].alone,
               write'[q] # NotWriting
        PROVE  write'[q].alone
    BY <1>2, <2>4, <2>5
  <2>6. ASSUME NEW p \in Procs, write'[p].alone, fd[p] \in Ino PROVE Stays(disk, disk', fd[p])
    <3>1. Progress(disk, fd[p], write[p], p)
      BY <2>2, <2>4, <2>6 DEF Appends
    <3>2. fd[p] \in Ino \ 0 .. ROOT_INO
      BY <3>1 DEF Progress
    <3> QED BY <1>5, <2>4, <2>6, <3>2
  <2> QED BY <1>1, <2>1, <2>2, <2>3, <2>5, <2>6, AppendsStay
<1> QED BY <1>4, <1>5 DEF AppendInv

LEMMA StaysSized ==
  ASSUME disk \in Disk, disk' \in Disk, Sized(disk), NEW X,
         \A g \in Ino \ 0 .. ROOT_INO : g \notin X => Stays(disk, disk', g),
         \A g \in Ino \ 0 .. ROOT_INO : g \in X => disk'.inode[g].size >= 0
  PROVE  Sized(disk')
<1>1. ASSUME NEW g \in Ino \ 0 .. ROOT_INO PROVE disk'.inode[g].size >= 0
  <2>1. /\ disk.inode[g].size >= 0 /\ disk.inode[g].size \in Int /\ disk'.inode[g].size \in Int
    BY DiskTyped DEF Sized, FileSize
  <2> QED BY <2>1 DEF Stays
<1> QED BY <1>1 DEF Sized

(* A step that changes no disk and no write, but for ending some.          *)
LEMMA EndsKeep ==
  ASSUME TypeInv, SafeInv, AppendInv, disk' = disk, large' = large,
         write' = [p \in Procs |-> write'[p]],
         \A p \in Procs : \/ write'[p] = NotWriting
                          \/ fd'[p] = fd[p] /\ write'[p] = write[p]
  PROVE  AppendInv'
<1>1. \A p \in Procs : IsTurn(write[p]) /\ (fd[p] = 0 => write[p] = NotWriting)
  BY DEF AppendInv, WriteInv
<1>2. \A p \in Procs : IsTurn(write'[p]) /\ (fd'[p] = 0 => write'[p] = NotWriting)
  BY <1>1, Clearing
<1>3. ASSUME ~large PROVE Appends(disk, fd', write', Procs)
  <2>1. disk \in Disk /\ Sound(disk) /\ Appends(disk, fd, write, Procs)
    BY <1>3 DEF TypeInv, SafeInv, AppendInv
  <2>2. \A g \in Ino : Stays(disk, disk, g)
    BY <2>1, SameStays DEF SameFile
  <2>3. \A p \in Procs : write'[p].alone => write'[p] # NotWriting
    BY Clearing
  <2>4. \A p, q \in Procs : /\ fd[p] = fd[q] /\ write'[p].alone /\ write[q].alone
                            /\ write'[q] # NotWriting
                            => write'[q].alone
    OBVIOUS
  <2> QED BY <1>1, <2>1, <2>2, <2>4, AppendsStay
<1> QED BY <1>2, <1>3 DEF AppendInv, WriteInv

LEMMA FilesKeep ==
  ASSUME TypeInv, SafeInv, AppendInv, NEW p \in Procs,
         (\E name \in Names : Open(p, name)) \/ Close(p) \/ GivesUp(p)
  PROVE  AppendInv'
<1>1. write = [q \in Procs |-> write[q]] /\ fd \in [Procs -> Ino]
      /\ \A q \in Procs : fd[q] = 0 => write[q] = NotWriting
  BY DEF AppendInv, WriteInv, TypeInv
<1>2. CASE \E name \in Names : Open(p, name)
  <2>1. disk' = disk /\ large' = large /\ write' = write /\ write[p] = NotWriting
        /\ \A q \in Procs \ {p} : fd'[q] = fd[q]
    BY <1>1, <1>2 DEF Open
  <2>2. \A q \in Procs : write'[q] = NotWriting \/ (fd'[q] = fd[q] /\ write'[q] = write[q])
    BY <2>1
  <2> QED BY <1>1, <2>1, <2>2, EndsKeep
<1>3. CASE Close(p)
  <2>1. disk' = disk /\ large' = large /\ write' = write /\ write[p] = NotWriting
        /\ \A q \in Procs \ {p} : fd'[q] = fd[q]
    BY <1>1, <1>3 DEF Close, Writing
  <2>2. \A q \in Procs : write'[q] = NotWriting \/ (fd'[q] = fd[q] /\ write'[q] = write[q])
    BY <2>1
  <2> QED BY <1>1, <2>1, <2>2, EndsKeep
<1>4. CASE GivesUp(p)
  <2>1. disk' = disk /\ large' = large /\ fd' = fd
        /\ write' = [q \in Procs |-> IF q = p THEN NotWriting ELSE write[q]]
    BY <1>1, <1>4 DEF GivesUp
  <2>2. write' = [q \in Procs |-> write'[q]]
    BY <2>1
  <2>3. \A q \in Procs : write'[q] = NotWriting \/ (fd'[q] = fd[q] /\ write'[q] = write[q])
    BY <2>1
  <2> QED BY <2>1, <2>2, <2>3, EndsKeep
<1> QED BY <1>2, <1>3, <1>4

LEMMA ListsKeep ==
  ASSUME TypeInv, SafeInv, AppendInv, disk' = disk, large' = large, fd' = fd, write' = write
  PROVE  AppendInv'
  BY DEF AppendInv, WriteInv

LEMMA TruncateKeeps ==
  ASSUME TypeInv, SafeInv, AppendInv, NEW ino \in Ino, NEW size \in Sizes, Truncate(ino, size)
  PROVE  AppendInv'
<1>1. /\ disk' = Resized(ino, size).disk /\ large' = (large \/ Large(Fullest(ino, size)))
      /\ ino \in Ino \ 0 .. ROOT_INO /\ fd' = fd
      /\ write' = [p \in Procs |->
           IF fd[p] \in {ino} /\ Writing(p) THEN [write[p] EXCEPT !.alone = FALSE] ELSE write[p]]
  BY DEF Truncate, BecomesFor
<1>2. size \in FileSize /\ size \in Nat
  BY UseAssumption, Constants DEF FileSize
<1>3. Tame
  BY TruncateTame
<1>4. ASSUME ~large'
      PROVE  Sized(disk') /\ \A g \in Ino \ 0 .. ROOT_INO : g \notin {ino} => Stays(disk, disk', g)
  <2>1. ~large /\ ~Large(Fullest(ino, size)) /\ Sized(disk) /\ disk \in Disk
    BY <1>1, <1>4 DEF AppendInv, TypeInv
  <2>2. \A g \in Ino \ 0 .. ROOT_INO : g \notin {ino} => Stays(disk, disk', g)
    BY <1>1, <1>2, <2>1, FileInodes, ResizedStays
  <2>3. disk'.inode[ino].size >= 0
    BY <1>1, <1>2, <2>1, ResizedSize DEF Sized
  <2>4. disk' \in Disk
    BY <1>1, <1>2, ResizedTyped
  <2>5. \A g \in Ino \ 0 .. ROOT_INO : g \in {ino} => disk'.inode[g].size >= 0
    BY <2>3
  <2> QED BY <2>1, <2>2, <2>4, <2>5, StaysSized
<1> QED BY <1>1, <1>3, <1>4, BecomesKeeps

LEMMA EntersInode ==
  ASSUME TypeInv, NEW name \in Names, NEW ino \in Ino \ 0 .. ROOT_INO, NEW oi \in Inode,
         NEW links \in Int, Enters(name, ino, oi, links)
  PROVE  disk'.inode[ino] = oi
<1> DEFINE bl == BlankDirentry(disk)
           s == SetEntry(bl.disk, bl.off, ino, name)
<1>1. disk' = Linked(s, ino, oi, links)
  BY EntersIs
<1>2. ino \in Ino /\ ino # ROOT_INO /\ ino \in Value
  BY FileInodes, Constants DEF Value
<1>3. bl.disk \in Disk /\ s \in Disk
  BY <1>2, BlankTyped, SetEntryTyped DEF TypeInv
<1> HIDE DEF s, bl
<1> QED BY <1>1, <1>2, <1>3, RootLinks

LEMMA EnteringKeeps ==
  ASSUME TypeInv, SafeInv, AppendInv, NEW name \in Names, NEW ino \in Ino \ 0 .. ROOT_INO,
         NEW oi \in Inode, NEW links \in Int, Enters(name, ino, oi, links), Tame,
         SameFile(disk.inode[ino], oi) \/ (Nlink(ino) = 0 /\ oi.size >= 0)
  PROVE  AppendInv'
<1> DEFINE X == IF Nlink(ino) = 0 THEN {ino} ELSE {}
<1>1. /\ fd' = fd
      /\ write' = [p \in Procs |->
           IF fd[p] \in X /\ Writing(p) THEN [write[p] EXCEPT !.alone = FALSE] ELSE write[p]]
  BY DEF Enters, BecomesFor
<1>2. ASSUME ~large'
      PROVE  Sized(disk') /\ \A g \in Ino \ 0 .. ROOT_INO : g \notin X => Stays(disk, disk', g)
  <2>1. ~large /\ Sized(disk) /\ disk \in Disk /\ ino \in Ino
    BY <1>2 DEF Tame, AppendInv, TypeInv
  <2>2. disk' \in Disk /\ disk'.inode[ino] = oi
    BY <2>1, EntersTyped, EntersInode
  <2>3. \A g \in Ino \ 0 .. ROOT_INO :
          g # ino \/ SameFile(disk.inode[ino], oi) => Stays(disk, disk', g)
    BY <1>2, FileInodes, EntersStays
  <2>4. CASE SameFile(disk.inode[ino], oi)
    <3>1. \A g \in Ino \ 0 .. ROOT_INO : Stays(disk, disk', g)
      BY <2>3, <2>4
    <3>2. Sized(disk')
      <4> DEFINE Y == {}
      <4>1. \A g \in Ino \ 0 .. ROOT_INO : g \in Y => disk'.inode[g].size >= 0
        OBVIOUS
      <4> HIDE DEF Y
      <4> QED BY <2>1, <2>2, <3>1, <4>1, StaysSized
    <3> QED BY <3>1, <3>2
  <2>5. CASE Nlink(ino) = 0 /\ oi.size >= 0
    <3>1. /\ \A g \in Ino \ 0 .. ROOT_INO : g \notin {ino} => Stays(disk, disk', g)
          /\ \A g \in Ino \ 0 .. ROOT_INO : g \in {ino} => disk'.inode[g].size >= 0
      BY <2>2, <2>3, <2>5
    <3> QED BY <2>1, <2>2, <2>5, <3>1, StaysSized
  <2> QED BY <2>4, <2>5
<1> HIDE DEF X
<1> QED BY <1>1, <1>2, BecomesKeeps

LEMMA NewKeeps ==
  ASSUME TypeInv, SafeInv, AppendInv, NEW name \in Names, Create(name) \/ Symlink(name)
  PROVE  AppendInv'
<1> DEFINE ino == Min(FreeInodes)
           s == [NewFile EXCEPT !.size = 1, !.ftype = "SYMLINK"]
<1>1. FreeInodes # {} /\ (Enters(name, ino, NewFile, 0) \/ Enters(name, ino, s, 1))
  BY DEF Create, Symlink
<1>2. ino \in Ino \ 0 .. ROOT_INO /\ Nlink(ino) = 0
  BY <1>1, FreeInodeFacts
<1>3. NewFile \in Inode /\ s \in Inode /\ NewFile.size >= 0 /\ s.size >= 0
  <2>1. NewFile \in Inode /\ s \in Inode /\ NewFile.size = 0
    BY NewFileTyped
  <2>2. s.size = 1
    BY <2>1 DEF Inode
  <2> HIDE DEF s
  <2> QED BY <2>1, <2>2
<1>4. Tame
  BY NewTame
<1> HIDE DEF ino, s
<1>5. CASE Enters(name, ino, NewFile, 0)
  BY <1>2, <1>3, <1>4, <1>5, EnteringKeeps
<1>6. CASE Enters(name, ino, s, 1)
  BY <1>2, <1>3, <1>4, <1>6, EnteringKeeps
<1> QED BY <1>1, <1>5, <1>6

LEMMA LinkKeeps ==
  ASSUME TypeInv, SafeInv, AppendInv, Sane, NEW name \in Names, NEW new \in Names, Link(name, new)
  PROVE  AppendInv'
<1> DEFINE ino == Lookup(name)
           oi == [disk.inode[ino] EXCEPT !.nlink = @ + 1]
<1>1. Named(disk, name) # {} /\ Enters(new, ino, oi, 0)
  BY DEF Link
<1>2. ino \in Ino /\ ino # 0 /\ \E off \in Entries(disk) : ino = EntryIno(disk, off)
  BY <1>1, LookupFacts
<1> HIDE DEF ino
<1>3. oi \in Inode /\ SameFile(disk.inode[ino], oi)
  <2>1. disk.inode[ino] \in Inode
    BY <1>2, DiskTyped DEF TypeInv
  <2> QED BY <2>1 DEF Inode, SameFile
<1> HIDE DEF oi
<1>4. Tame
  BY LinkTame
<1>5. CASE ~large
  <2>1. ino \in Ino \ 0 .. ROOT_INO
    BY <1>2, <1>5, FileInodes DEF SafeInv, DirSound
  <2> QED BY <1>1, <1>3, <1>4, <2>1, EnteringKeeps
<1>6. CASE large
  <2> DEFINE X == IF Nlink(ino) = 0 THEN {ino} ELSE {}
  <2>1. /\ fd' = fd
        /\ write' = [p \in Procs |->
             IF fd[p] \in X /\ Writing(p) THEN [write[p] EXCEPT !.alone = FALSE] ELSE write[p]]
    BY <1>1 DEF Enters, BecomesFor
  <2>2. large'
    BY <1>1, <1>6, EntersIs
  <2> HIDE DEF X
  <2> QED BY <1>4, <2>1, <2>2, BecomesKeeps
<1> QED BY <1>5, <1>6

LEMMA UnlinkKeeps ==
  ASSUME TypeInv, SafeInv, AppendInv, Sane, NEW name \in Names, Unlink(name)
  PROVE  AppendInv'
<1> DEFINE X == {}
           off == Min(Named(disk, name))
           ino == Lookup(name)
<1>1. /\ fd' = fd /\ disk' = OneLess(SetEntry(disk, off, 0, NoName), ino) /\ Named(disk, name) # {}
      /\ write' = [p \in Procs |->
           IF fd[p] \in X /\ Writing(p) THEN [write[p] EXCEPT !.alone = FALSE] ELSE write[p]]
  BY DEF Unlink, BecomesFor, Unlinked, OneLess
<1>2. Tame
  BY UnlinkTame
<1>3. ASSUME ~large'
      PROVE  Sized(disk') /\ \A g \in Ino \ 0 .. ROOT_INO : g \notin X => Stays(disk, disk', g)
  <2>1. ~large /\ Sized(disk) /\ disk \in Disk /\ disk' \in Disk
    BY <1>2, <1>3 DEF Tame, Sound, AppendInv, TypeInv
  <2>2. \A g \in Ino \ 0 .. ROOT_INO : Stays(disk, disk', g)
    BY <2>1, FileInodes, UnlinkStays
  <2>3. \A g \in Ino \ 0 .. ROOT_INO : g \in X => disk'.inode[g].size >= 0
    OBVIOUS
  <2> HIDE DEF X
  <2> QED BY <2>1, <2>2, <2>3, StaysSized
<1> HIDE DEF X
<1> QED BY <1>1, <1>2, <1>3, BecomesKeeps

-----------------------------------------------------------------------------
(* A write that begins.                                                    *)

(* What becomes of the writes, p's turn being the first of its own.        *)
LEMMA BeginsIs ==
  ASSUME TypeInv, WriteInv, NEW p \in Procs, NEW pos, NEW count, NEW append \in BOOLEAN,
         Begins(p, pos, count, append), NEW f, f = fd[p], NEW size, size = disk.inode[f].size,
         NEW c, c = IF pos + count <= size THEN Returns("ok", disk) ELSE Resized(f, pos + count)
  PROVE  /\ f # 0 /\ write[p] = NotWriting /\ fd' = fd /\ disk' = c.disk
         /\ large' = (large \/ Large(Fullest(f, pos + count)))
         /\ write' = [q \in Procs |-> write'[q]]
         /\ IsTurn(write'[p])
         /\ write'[p] # NotWriting =>
              /\ c.ret = "ok" /\ write'[p].pos = pos /\ write'[p].left = count
              /\ write'[p].to = BlockNo(disk', f, pos) /\ write'[p].span = size .. size+count-1
              /\ write'[p].alone <=>
                   append /\ \A q \in Procs \ {p} : fd[q] = f /\ write[q] # NotWriting => write[q].alone
         /\ \A q \in Procs \ {p} :
              write'[q] = IF fd[q] = f /\ write[q] # NotWriting /\ ~append
                          THEN [write[q] EXCEPT !.alone = FALSE] ELSE write[q]
<1> DEFINE others == {q \in Procs \ {p} : fd[q] = f /\ Writing(q)}
           begun == [pos |-> pos, left |-> count, to |-> 0, span |-> size .. size+count-1,
                     alone |-> append /\ \A q \in others : write[q].alone]
<1>1. /\ f # 0 /\ ~Writing(p) /\ fd' = fd /\ disk' = c.disk
      /\ large' = (large \/ Large(Fullest(f, pos + count)))
      /\ write' = [q \in Procs |->
           IF q = p /\ c.ret = "ok" THEN Turn(c.disk, f, begun)
           ELSE IF q \in others /\ ~append THEN [write[q] EXCEPT !.alone = FALSE]
           ELSE write[q]]
  BY DEF Begins
<1>2. /\ IsTurn(begun) /\ begun.pos = pos /\ begun.left = count /\ begun.span = size .. size+count-1
      /\ begun.alone <=> append /\ \A q \in others : write[q].alone
  BY DEF IsTurn
<1>3. /\ others \subseteq Procs \ {p} /\ p \notin others
      /\ \A q \in Procs \ {p} : q \in others <=> fd[q] = f /\ write[q] # NotWriting
  BY DEF Writing
<1> HIDE DEF begun, others
<1>4. write[p] = NotWriting
  BY <1>1 DEF Writing
<1>5. write'[p] = IF c.ret = "ok" THEN Turn(disk', f, begun) ELSE NotWriting
  BY <1>1, <1>3, <1>4
<1>6. IsTurn(write'[p])
  BY <1>2, <1>5, TurnIs, Clearing
<1>7. ASSUME write'[p] # NotWriting
      PROVE  /\ c.ret = "ok" /\ write'[p].pos = pos /\ write'[p].left = count
             /\ write'[p].to = BlockNo(disk', f, pos) /\ write'[p].span = size .. size+count-1
             /\ write'[p].alone = begun.alone
  <2>1. c.ret = "ok" /\ write'[p] = Turn(disk', f, begun)
    BY <1>5, <1>7
  <2> QED BY <1>2, <1>7, <2>1, TurnIs
<1>8. begun.alone <=>
        append /\ \A q \in Procs \ {p} : fd[q] = f /\ write[q] # NotWriting => write[q].alone
  BY <1>2, <1>3
<1>9. \A q \in Procs \ {p} :
        write'[q] = IF fd[q] = f /\ write[q] # NotWriting /\ ~append
                    THEN [write[q] EXCEPT !.alone = FALSE] ELSE write[q]
  BY <1>1, <1>3
<1>10. write' = [q \in Procs |-> write'[q]]
  BY <1>1
<1> QED BY <1>1, <1>4, <1>6, <1>7, <1>8, <1>9, <1>10

LEMMA BeginsStays ==
  ASSUME TypeInv, SafeInv, AppendInv, NEW f \in Ino \ 0 .. ROOT_INO, NEW pos \in FileSize,
         NEW count \in Counts, ~large, ~Large(Fullest(f, pos + count)), disk' \in Disk,
         NEW size, size = disk.inode[f].size,
         NEW c, c = IF pos + count <= size THEN Returns("ok", disk) ELSE Resized(f, pos + count),
         disk' = c.disk
  PROVE  /\ size \in Nat /\ count \in Nat \ {0}
         /\ \A g \in Ino : g # f \/ size <= pos + count => Stays(disk, disk', g)
         /\ Sized(disk')
         /\ c.ret = "ok" /\ pos = size => IsFile(f) /\ disk'.inode[f].size = size + count
<1>1. /\ disk \in Disk /\ f \in Ino /\ size \in Int /\ size >= 0 /\ Sized(disk)
      /\ count \in Nat \ {0} /\ pos + count \in FileSize /\ pos \in Int
  <2>1. disk \in Disk /\ f \in Ino /\ Sized(disk) /\ count \in Nat \ {0}
    BY UseAssumption, FileInodes DEF TypeInv, AppendInv
  <2>2. size \in Int /\ size >= 0
    BY <2>1, DiskTyped DEF FileSize, Sized
  <2> QED BY <2>1, <2>2, Constants DEF FileSize
<1>2. disk' = disk \/ disk' = Resized(f, pos + count).disk
  BY DEF Returns
<1>3. \A g \in Ino : g # f \/ size <= pos + count => Stays(disk, disk', g)
  BY <1>1, <1>2, ResizedStays
<1>4. CASE pos + count <= size
  <2>1. disk' = disk /\ ~(pos = size)
    BY <1>1, <1>4 DEF Returns
  <2> QED BY <1>1, <1>3, <2>1
<1>5. CASE ~(pos + count <= size)
  <2>1. c = Resized(f, pos + count) /\ pos + count >= 0
    BY <1>1, <1>5
  <2>2. /\ disk'.inode[f].size >= 0
        /\ c.ret = "ok" => IsFile(f) /\ disk'.inode[f].size = pos + count
    BY <1>1, <2>1, ResizedSize
  <2>3. Sized(disk')
    <3> DEFINE X == {f}
    <3>1. /\ \A g \in Ino \ 0 .. ROOT_INO : g \notin X => Stays(disk, disk', g)
          /\ \A g \in Ino \ 0 .. ROOT_INO : g \in X => disk'.inode[g].size >= 0
      BY <1>3, <2>2
    <3> HIDE DEF X
    <3> QED BY <1>1, <3>1, StaysSized
  <2> QED BY <1>1, <1>3, <2>2, <2>3
<1> QED BY <1>4, <1>5

(* p's write beside those of the others.                                   *)
LEMMA AppendsWith ==
  ASSUME NEW d, NEW f, NEW w, NEW p \in Procs, Appends(d, f, w, Procs \ {p}),
         w[p].alone => Progress(d, f[p], w[p], p),
         \A q \in Procs \ {p} :
           f[q] = f[p] /\ w[q] # NotWriting /\ w[p] # NotWriting /\ (w[q].alone \/ w[p].alone) =>
             w[q].alone /\ w[p].alone /\ w[q].span \cap w[p].span = {}
  PROVE  Appends(d, f, w, Procs)
<1>1. \A q \in Procs : w[q].alone => w[q] # NotWriting
  BY Clearing
<1>2. ASSUME NEW q \in Procs, NEW s \in Procs, q # s, f[q] = f[s], w[q].alone, w[s] # NotWriting
      PROVE  w[s].alone /\ w[q].span \cap w[s].span = {}
  <2>1. CASE q # p /\ s # p
    BY <1>2, <2>1 DEF Appends
  <2>2. CASE q = p
    BY <1>1, <1>2, <2>2
  <2>3. CASE s = p
    BY <1>1, <1>2, <2>3
  <2> QED BY <2>1, <2>2, <2>3
<1>3. ASSUME NEW q \in Procs, w[q].alone PROVE Progress(d, f[q], w[q], q)
  BY <1>3 DEF Appends
<1> QED BY <1>2, <1>3 DEF Appends

LEMMA BeginsOthers ==
  ASSUME TypeInv, SafeInv, AppendInv, NEW p \in Procs, NEW f \in Ino, NEW append \in BOOLEAN,
         ~large, Sound(disk'), fd' = fd,
         \A q \in Procs \ {p} :
           write'[q] = IF fd[q] = f /\ write[q] # NotWriting /\ ~append
                       THEN [write[q] EXCEPT !.alone = FALSE] ELSE write[q],
         \A g \in Ino : g # f \/ append => Stays(disk, disk', g)
  PROVE  Appends(disk', fd', write', Procs \ {p})
<1> DEFINE S == Procs \ {p}
<1>1. Sound(disk) /\ Appends(disk, fd, write, S) /\ \A q \in S : IsTurn(write[q])
  BY DEF SafeInv, AppendInv, WriteInv, Appends
<1>2. ASSUME NEW q \in S
      PROVE  \/ write'[q] = NotWriting
             \/ fd'[q] = fd[q] /\ write'[q] = write[q]
             \/ /\ fd'[q] = fd[q] /\ write[q] # NotWriting
                /\ write'[q] = [write[q] EXCEPT !.alone = FALSE]
  OBVIOUS
<1>3. ASSUME NEW q \in S, write'[q].alone
      PROVE  write'[q] = write[q] /\ (fd[q] # f \/ append)
  <2>1. ~(write'[q] = [write[q] EXCEPT !.alone = FALSE])
    BY <1>1, <1>3, Clearing
  <2>2. write'[q] = write[q] /\ ~(fd[q] = f /\ write[q] # NotWriting /\ ~append)
    BY <2>1
  <2> QED BY <1>3, <2>2, Clearing
<1>4. ASSUME NEW q \in S, NEW s \in S, fd[q] = fd[s], write'[q].alone, write[s].alone,
             write'[s] # NotWriting
      PROVE  write'[s].alone
  BY <1>3, <1>4
<1>5. ASSUME NEW q \in S, write'[q].alone, fd[q] \in Ino PROVE Stays(disk, disk', fd[q])
  BY <1>3, <1>5
<1> HIDE DEF S
<1>6. Appends(disk', fd', write', S)
  BY <1>1, <1>2, <1>4, <1>5, AppendsStay
<1> QED BY <1>6 DEF S

LEMMA BeginsKeeps ==
  ASSUME TypeInv, SafeInv, AppendInv, NEW p \in Procs, NEW pos \in FileSize, NEW count \in Counts,
         NEW append \in BOOLEAN, Begins(p, pos, count, append),
         append => pos = disk.inode[fd[p]].size
  PROVE  AppendInv'
<1> DEFINE f == fd[p]
           size == disk.inode[f].size
           c == IF pos + count <= size THEN Returns("ok", disk) ELSE Resized(f, pos + count)
           v == write'[p]
<1>1. /\ f # 0 /\ write[p] = NotWriting /\ fd' = fd /\ disk' = c.disk
      /\ large' = (large \/ Large(Fullest(f, pos + count)))
      /\ write' = [q \in Procs |-> write'[q]]
      /\ IsTurn(v)
      /\ v # NotWriting =>
           /\ c.ret = "ok" /\ v.pos = pos /\ v.left = count
           /\ v.to = BlockNo(disk', f, pos) /\ v.span = size .. size+count-1
           /\ v.alone <=>
                append /\ \A q \in Procs \ {p} : fd[q] = f /\ write[q] # NotWriting => write[q].alone
      /\ \A q \in Procs \ {p} :
           write'[q] = IF fd[q] = f /\ write[q] # NotWriting /\ ~append
                       THEN [write[q] EXCEPT !.alone = FALSE] ELSE write[q]
  BY BeginsIs DEF AppendInv
<1>2. \A q \in Procs : IsTurn(write[q]) /\ (fd[q] = 0 => write[q] = NotWriting)
  BY DEF AppendInv, WriteInv
<1>3. Tame
  BY BeginsTame
<1> HIDE DEF c, v, size, f
<1>4. WriteInv'
  <2>1. ASSUME NEW q \in Procs
        PROVE  IsTurn(write'[q]) /\ (fd'[q] = 0 => write'[q] = NotWriting)
    <3>1. CASE q = p
      BY <1>1, <3>1 DEF f, v
    <3>2. CASE q # p
      BY <1>1, <1>2, <3>2, Clearing
    <3> QED BY <3>1, <3>2
  <2> QED BY <1>1, <2>1 DEF WriteInv
<1>5. ASSUME ~large' PROVE Appends(disk', fd', write', Procs) /\ Sized(disk')
  <2>1. /\ ~large /\ ~Large(Fullest(f, pos + count)) /\ Sound(disk') /\ disk' \in Disk
        /\ append => pos = size
    BY <1>1, <1>3, <1>5 DEF Tame, Sound, f, size
  <2>2. /\ Appends(disk, fd, write, Procs) /\ f \in Ino \ 0 .. ROOT_INO /\ f \in Ino
    BY <1>1, <2>1, FileInodes DEF AppendInv, TypeInv, SafeInv, f
  <2>3. /\ size \in Nat /\ count \in Nat \ {0}
        /\ \A g \in Ino : g # f \/ size <= pos + count => Stays(disk, disk', g)
        /\ Sized(disk')
        /\ c.ret = "ok" /\ pos = size => IsFile(f) /\ disk'.inode[f].size = size + count
    BY <1>1, <2>1, <2>2, BeginsStays DEF c, size
  <2>4. \A g \in Ino : g # f \/ append => Stays(disk, disk', g)
    BY <2>1, <2>3
  <2>5. Appends(disk', fd', write', Procs \ {p})
    BY <1>1, <2>1, <2>2, <2>4, BeginsOthers
  <2>6. ASSUME v.alone PROVE Progress(disk', f, v, p)
    <3>1. /\ v # NotWriting /\ append /\ pos = size /\ c.ret = "ok"
          /\ v.pos = size /\ v.left = count /\ v.to = BlockNo(disk', f, v.pos)
          /\ v.span = size .. size+count-1
      BY <1>1, <2>1, <2>6, Clearing
    <3>2. disk.inode[f].ftype = "REG" /\ disk'.inode[f].size = size + count
      BY <2>3, <3>1 DEF IsFile
    <3>3. disk'.inode[f].ftype = "REG"
      BY <2>2, <2>4, <3>1, <3>2 DEF Stays
    <3>4. v.pos .. v.pos+v.left-1 \subseteq v.span /\ v.span \subseteq 0 .. v.pos+v.left-1
      BY <2>3, <3>1
    <3>5. \A off \in v.span : ~(off < v.pos)
      BY <2>3, <3>1
    <3> QED BY <2>2, <2>3, <3>1, <3>2, <3>3, <3>4, <3>5 DEF Progress
  <2>7. ASSUME NEW q \in Procs \ {p}, fd[q] = f, write'[q] # NotWriting, v # NotWriting,
               write'[q].alone \/ v.alone
        PROVE  write'[q].alone /\ v.alone /\ write'[q].span \cap v.span = {}
    <3>1. write[q] # NotWriting
      BY <1>1, <2>7
    <3>2. append
      <4> SUFFICES ASSUME ~append PROVE FALSE
        OBVIOUS
      <4>1. write'[q] = [write[q] EXCEPT !.alone = FALSE] /\ ~v.alone
        BY <1>1, <2>7, <3>1
      <4> QED BY <1>2, <2>7, <4>1, Clearing
    <3>3. write'[q] = write[q]
      BY <1>1, <3>2
    <3>4. write[q].alone /\ v.alone
      <4>1. CASE v.alone
        BY <1>1, <2>7, <3>1, <4>1
      <4>2. CASE write[q].alone
        <5>1. ASSUME NEW s \in Procs \ {p}, fd[s] = f, write[s] # NotWriting PROVE write[s].alone
          BY <2>2, <2>7, <4>2, <5>1 DEF Appends
        <5> QED BY <1>1, <2>7, <3>2, <4>2, <5>1
      <4> QED BY <2>7, <3>3, <4>1, <4>2
    <3>5. Progress(disk, f, write[q], q)
      BY <2>2, <2>7, <3>4 DEF Appends
    <3>6. \A off \in write[q].span : off \in Nat /\ off < size
      <4>1. /\ write[q].pos \in Nat /\ write[q].left \in Nat
            /\ write[q].pos + write[q].left <= size
            /\ write[q].span \subseteq 0 .. write[q].pos+write[q].left-1
        BY <3>5 DEF Progress, size
      <4> QED BY <2>3, <4>1
    <3>7. \A off \in v.span : ~(off < size)
      BY <1>1, <2>3, <2>7
    <3> QED BY <3>3, <3>4, <3>6, <3>7
  <2>8. Appends(disk', fd', write', Procs)
    BY <1>1, <2>5, <2>6, <2>7, AppendsWith DEF f, v
  <2> QED BY <2>3, <2>8
<1> QED BY <1>4, <1>5 DEF AppendInv

LEMMA NextAppends ==
  ASSUME TypeInv, SafeInv, AppendInv, [Next]_vars
  PROVE  AppendInv'
<1>1. CASE UNCHANGED vars
  BY <1>1, ListsKeep DEF vars
<1>2. Next => Sane
  BY DEF Next
<1>3. ASSUME NEW p \in Procs, NEW count \in Counts, AppendWrite(p, count) PROVE AppendInv'
  <2>1. disk.inode[fd[p]].size \in FileSize
    BY DiskTyped DEF TypeInv
  <2>2. Begins(p, disk.inode[fd[p]].size, count, TRUE)
    BY <1>3 DEF AppendWrite
  <2> QED BY <2>1, <2>2, BeginsKeeps
<1>4. ASSUME NEW p \in Procs, NEW count \in Counts, NEW pos \in Offsets, WriteAt(p, pos, count)
      PROVE  AppendInv'
  <2>1. pos \in FileSize
    BY UseAssumption, Constants DEF FileSize
  <2>2. Begins(p, pos, count, FALSE)
    BY <1>4 DEF WriteAt
  <2> QED BY <2>1, <2>2, BeginsKeeps
<1>5. ASSUME FileCalls PROVE AppendInv'
  BY <1>3, <1>4, <1>5, FilesKeep, CopiesKeeps DEF FileCalls
<1>6. ASSUME ListBegins \/ ListCall \/ ListEnds PROVE AppendInv'
  <2>1. disk' = disk /\ large' = large /\ fd' = fd /\ write' = write
    BY <1>6 DEF ListBegins, ListCall, ListEnds
  <2> QED BY <2>1, ListsKeep
<1>7. ASSUME Sane, DirCalls PROVE AppendInv'
  BY <1>6, <1>7, TruncateKeeps, NewKeeps, UnlinkKeeps, LinkKeeps DEF DirCalls
<1> QED BY <1>1, <1>2, <1>5, <1>7 DEF Next

LEMMA InitAppends ==
  ASSUME Init
  PROVE  AppendInv
<1>1. write = [p \in Procs |-> NotWriting] /\ fd = [p \in Procs |-> 0]
  BY DEF Init
<1>2. \A p \in Procs : write[p] = NotWriting
  BY <1>1
<1>3. WriteInv
  BY <1>1, <1>2, Clearing DEF WriteInv
<1>4. Appends(disk, fd, write, Procs)
  BY <1>2, Clearing DEF Appends
<1>5. Sized(disk)
  <2>1. ASSUME NEW i \in Ino \ 0 .. ROOT_INO PROVE disk.inode[i].size >= 0
    <3>1. \/ disk.inode[i] = NoFile \/ disk.inode[i].size = 1
      <4>1. i \in Ino /\ i # 0 /\ i # ROOT_INO
        BY FileInodes
      <4>2. disk.inode[i] = IF i = 2 THEN [NewFile EXCEPT !.size = 1, !.direct[0] = FREEMAP_BLK + 3]
                            ELSE NoFile
        BY <4>1 DEF Init
      <4> QED BY <4>2, NewFileTyped DEF Inode
    <3> QED BY <3>1, NewFileTyped
  <2> QED BY <2>1 DEF Sized
<1> QED BY <1>3, <1>4, <1>5 DEF AppendInv

-----------------------------------------------------------------------------
(* The theorems.                                                           *)

Inv == TypeInv /\ ListInv /\ SafeInv

LEMMA InvKept ==
  ASSUME Inv, [Next]_vars
  PROVE  Inv'
<1>1. CASE Next
  BY <1>1, NextTyped, NextSafe DEF Inv
<1>2. CASE UNCHANGED vars
  BY <1>2 DEF Inv, TypeInv, ListInv, SafeInv, vars
<1> QED BY <1>1, <1>2

(* The invariant holds, whatever the callbacks of ospfsmod.c do and in     *)
(* whatever order: the disk, the open files and the listing have their     *)
(* types, and on a disk of small files every block has one use at most and *)
(* the root directory's entries agree with the inodes.                     *)
THEOREM InvHolds == Spec => []Inv
<1>1. Init => Inv
  BY InitHolds DEF Inv
<1>2. Inv /\ [Next]_vars => Inv'
  BY InvKept
<1> QED BY <1>1, <1>2, PTL DEF Spec

(* What holds where the invariant does always holds: add_block() and       *)
(* remove_block() give no block to two places of files.                    *)
THEOREM NoBlockTwice == Spec => []BlocksApart
<1>1. Inv => BlocksApart
  BY ApartIs DEF Inv, SafeInv, BlocksApart
<1> QED BY <1>1, InvHolds, PTL

(* A growth by change_size() that finds no space, to whatever size, leaves *)
(* the inodes and the bitmap as they were.                                 *)
LEMMA FailedGrowth ==
  ASSUME Inv, ~large, NEW i \in Ino, IsFile(i), NEW size \in FileSize, ~Large(Fullest(i, size)),
         ChangeSize(disk, i, size).ret = "ENOSPC"
  PROVE  /\ ChangeSize(disk, i, size).disk.inode = disk.inode
         /\ ChangeSize(disk, i, size).disk.free = disk.free
<1>1. Sound(disk) /\ disk \in Disk /\ disk.inode[i].ftype # "SYMLINK"
  BY DEF Inv, TypeInv, SafeInv, IsFile
<1>2. GrowTo(disk, i, Size2NBlocks(size)).disk \in Disk
  BY <1>1, ChangeTyped DEF Result
<1>3. NBlocks(GrowTo(disk, i, Size2NBlocks(size)).disk, i) <= Small
  BY <1>2, NotLarge DEF Fullest
<1> QED BY <1>1, <1>3, ChangeKeeps

(* Growing fails without a trace (ospfsmod.c:938).                         *)
THEOREM FailsCleanly == Spec => []NoSpaceNoChange
<1>1. ASSUME Inv PROVE NoSpaceNoChange
  <2> SUFFICES ASSUME ~large, NEW i \in {j \in Ino : IsFile(j)},
                      NEW nblocks \in 1 .. NDIRECT+NINDIRECT+1,
                      ChangeSize(disk, i, nblocks * NINDIRECT).ret = "ENOSPC",
                      ~Large(Fullest(i, nblocks * NINDIRECT))
               PROVE  /\ ChangeSize(disk, i, nblocks * NINDIRECT).disk.inode = disk.inode
                      /\ ChangeSize(disk, i, nblocks * NINDIRECT).disk.free = disk.free
    BY DEF NoSpaceNoChange
  <2>1. nblocks * NINDIRECT \in FileSize
    <3>1. nblocks \in Int /\ 0 <= nblocks /\ nblocks * NINDIRECT \in Int
      BY Division, Constants
    <3>2. 0 * NINDIRECT <= nblocks * NINDIRECT
      BY <3>1, Multiples
    <3> QED BY <3>1, <3>2, Constants DEF FileSize
  <2> QED BY <1>1, <2>1, FailedGrowth
<1> QED BY <1>1, InvHolds, PTL

(* The link counts that ospfs_create(), ospfs_link() and ospfs_unlink()    *)
(* keep are those of the names, and no name is entered twice.              *)
THEOREM LinksAreNames == Spec => []LinksCounted
<1>1. ASSUME Inv PROVE LinksCounted
  <2> SUFFICES ASSUME ~large
               PROVE  /\ \A i \in Ino \ 0 .. ROOT_INO :
                           Nlink(i) = Cardinality({off \in Entries(disk) : EntryIno(disk, off) = i})
                      /\ \A name \in Names : Cardinality(Named(disk, name)) <= 1
    BY DEF LinksCounted
  <2>1. DirSound(disk)
    BY <1>1 DEF Inv, SafeInv
  <2>2. \A i \in Ino \ 0 .. ROOT_INO :
          Nlink(i) = Cardinality({off \in Entries(disk) : EntryIno(disk, off) = i})
    BY <2>1 DEF DirSound, Naming, Nlink
  <2>3. ASSUME NEW name \in Names PROVE Cardinality(Named(disk, name)) <= 1
    <3>1. CASE Named(disk, name) = {}
      BY <3>1, FS_EmptySet
    <3>2. ASSUME NEW off \in Named(disk, name) PROVE Cardinality(Named(disk, name)) <= 1
      <4>1. Named(disk, name) = {off}
        BY <2>1, <3>2 DEF Named, DirSound
      <4> QED BY <4>1, FS_Singleton
    <3> QED BY <3>1, <3>2
  <2> QED BY <2>2, <2>3
<1> QED BY <1>1, InvHolds, PTL

(* No callback loses a block, but for those that reuse an inode whose last *)
(* name is gone: what change_size() takes and does not keep it gives back. *)
THEOREM LosesOnlyByReuse == Spec => OnlyReuseLoses
<1> DEFINE Loses == Lost(disk') \ Lost(disk) \subseteq
                      UNION {Owned(Places(disk, i)) : i \in FreeInodes}
<1>1. ASSUME Inv, [Next]_vars PROVE [~large' => Loses]_disk
  <2>1. CASE Next
    <3> SUFFICES ASSUME ~large' PROVE Loses
      OBVIOUS
    <3>1. ~large /\ Sound(disk') /\ Kept
      BY <1>1, <2>1, NextTame DEF Inv, Tame
    <3>2. Sound(disk)
      BY <1>1, <3>1 DEF Inv, SafeInv
    <3>3. Lost(disk') = DataBlock \ Pool(disk') /\ Lost(disk) = DataBlock \ Pool(disk)
      BY <3>1, <3>2, LostIs
    <3>4. ASSUME NEW b \in Lost(disk') \ Lost(disk)
          PROVE  b \in UNION {Owned(Places(disk, i)) : i \in FreeInodes}
      <4>1. b \in Pool(disk) /\ b \notin Pool(disk')
        BY <3>3
      <4>2. \E i \in FreeInodes : b \in Owned(Places(disk, i))
        BY <3>1, <4>1 DEF Kept
      <4> QED BY <4>2
    <3> QED BY <3>4
  <2>2. CASE UNCHANGED vars
    BY <2>2 DEF vars
  <2> QED BY <1>1, <2>1, <2>2
<1>2. Inv /\ [Next]_vars => [~large' => Loses]_disk
  BY <1>1
<1> QED BY <1>2, InvHolds, PTL DEF Spec, OnlyReuseLoses

(* Whatever comes and goes between its calls, ospfs_dir_readdir() gives no *)
(* entry twice that stays.                                                 *)
THEOREM NothingListedTwice == Spec => []ListedOnce
<1>1. ASSUME Inv PROVE ListedOnce
  <2>1. /\ disk \in Disk /\ ls.f_pos \in Int /\ \A entry \in ls.listed : entry[2] < ls.f_pos
        /\ \A entry \in ls.listed : entry[2] \in Int
    BY <1>1 DEF Inv, TypeInv, ListInv, Entry
  <2>2. ASSUME NEW off \in Fitting(ls.f_pos) PROVE off >= ls.f_pos
    BY <2>1, FittingFirst
  <2> QED BY <2>1, <2>2 DEF ListedOnce
<1> QED BY <1>1, InvHolds, PTL

(* What ospfs_write() adds where the file ended is all there when its last *)
(* block has been copied, whatever the others appended in the meantime.    *)
THEOREM AppendsWholly == Spec => AppendsArrive
<1> DEFINE Arrives == \A p \in Procs :
             Copies(p) /\ write[p].alone /\ write'[p] = NotWriting /\ ~large =>
               \A off \in write[p].span :
                 GetWord(disk', BlockNo(disk', fd[p], off), off % NINDIRECT) = Mark(p)
<1>1. Init => Inv /\ AppendInv
  BY InitHolds, InitAppends DEF Inv
<1>2. Inv /\ AppendInv /\ [Next]_vars => Inv' /\ AppendInv'
  BY InvKept, NextAppends DEF Inv
<1>3. Inv /\ AppendInv => [Arrives]_vars
  <2>1. ASSUME Inv, AppendInv PROVE Arrives
    BY <2>1, OwnTurn DEF Inv, Reads
  <2> QED BY <2>1
<1> QED BY <1>1, <1>2, <1>3, PTL DEF Spec, AppendsArrive
=============================================================================
