------------------------- MODULE OspfsFormatProofs --------------------------
(***************************************************************************)
(* Proofs about ospfsformat.  Its block cache is transparent: whatever     *)
(* slot a block is in, or none, whichever slot makes room, and however     *)
(* many slots there are, what a block holds changes by writing to it and   *)
(* by nothing else, and the final flush brings all of it to the disk.  And *)
(* its cache suffices: for every host tree the formatter uses pointers     *)
(* into lent blocks only, never borrows a block as two things, and runs    *)
(* out of slots in deep directories only.                                  *)
(***************************************************************************)
EXTENDS OspfsFormat, FiniteSetTheorems, WellFoundedInduction, TLAPS

(* What the constants are.                                                 *)
Sizes ==
  /\ NSLOTS \in Nat \ {0} /\ BLKINODES \in Nat \ {0}
  /\ HostInos \subseteq Nat
  /\ DOMAIN Size \subseteq Nat /\ Size \in [DOMAIN Size -> Nat]

(* What an inode and a block may hold.                                     *)
InodeType ==
  [size : Nat, ftype : {"REG", "DIR", "SYMLINK"}, nlink : Nat,
   direct : [0 .. NDIRECT-1 -> Nat], indirect : Nat, indirect2 : Nat]

Value ==
  [u : [Word -> Int], names : [Word -> Names \cup {NoName}],
   ino : [0 .. BLKINODES-1 -> InodeType], bits : SUBSET Int, super : BOOLEAN]

(* The types of blocks, and why the formatter gives up, if it does.        *)
Kind == {"super", "bits", "inodes", "dir", "file"}
Reason ==
  {Cache!Fine, "past end of disk", "cache full", "stray pointer", "assertion failed",
   "file too large", "not enough inodes"}

SlotType == [bno : Nat, busy : Nat, used : Nat, type : Kind, data : Value]
CacheType ==
  [slot : [Cache!Slot -> SlotType], disk : [Cache!CachedBlock -> Value], abort : Reason]

(* No block is in two slots, and a slot in use holds a block of the disk.  *)
Distinct(c) ==
  \A s, x \in Cache!Slot :
    c.slot[s].used > 0 /\ c.slot[x].used > 0 /\ c.slot[s].bno = c.slot[x].bno => s = x

OnDisk(c) ==
  \A s \in Cache!Slot : c.slot[s].used > 0 => c.slot[s].bno \in Cache!CachedBlock

Sound(c) == c \in CacheType /\ Distinct(c) /\ OnDisk(c)

-----------------------------------------------------------------------------
(* Constants.                                                              *)
LEMMA Constants ==
  ASSUME Sizes
  PROVE  /\ NSLOTS \in Nat /\ NSLOTS > 0 /\ BLKINODES \in Nat /\ BLKINODES > 0
         /\ NBLOCKS \in Nat /\ NINODES \in Nat /\ NINODES > 2
         /\ NINDIRECT \in Nat /\ NINDIRECT > 1 /\ NDIRECT \in Nat /\ NDIRECT > 0
         /\ Ino \subseteq Nat /\ ROOT_INO \in Ino /\ 0 \in Ino /\ Word \subseteq Nat
         /\ NoInode \in InodeType /\ ZeroBlock \in Value
         /\ Cache!Fine \in Reason /\ "super" \in Kind
<1>1. /\ NSLOTS \in Nat /\ NSLOTS > 0 /\ BLKINODES \in Nat /\ BLKINODES > 0
      /\ NBLOCKS \in Nat /\ NINODES \in Nat /\ NINODES > 2
      /\ NINDIRECT \in Nat /\ NINDIRECT > 1 /\ NDIRECT \in Nat /\ NDIRECT > 0
      /\ Ino \subseteq Nat /\ ROOT_INO \in Ino /\ 0 \in Ino /\ Word \subseteq Nat
  BY SizesAssumption DEF Sizes, Ino, Word, ROOT_INO
<1>2. NoInode \in InodeType
  BY <1>1 DEF NoInode, InodeType
<1>3. ZeroBlock \in Value
  BY <1>1, <1>2 DEF ZeroBlock, Value
<1> QED BY <1>1, <1>2, <1>3 DEF Reason, Kind

-----------------------------------------------------------------------------
(* The slot of a block.                                                    *)
LEMMA SlotOfHolds ==
  ASSUME NEW c, NEW b, Cache!Holding(c, b) # {}
  PROVE  Cache!SlotOf(c, b) \in Cache!Holding(c, b)
BY DEF Cache!SlotOf

(* That slot is one of the cache's, and in use.                            *)
LEMMA SlotOfIsThere ==
  ASSUME NEW c, NEW b, Cache!Holding(c, b) # {}
  PROVE  Cache!SlotOf(c, b) \in Cache!Slot /\ c.slot[Cache!SlotOf(c, b)].bno = b
           /\ c.slot[Cache!SlotOf(c, b)].used > 0
BY SlotOfHolds DEF Cache!Holding

(* No other slot holds the block.                                          *)
LEMMA SlotOfIsOnly ==
  ASSUME NEW c, Distinct(c), NEW s \in Cache!Slot, c.slot[s].used > 0
  PROVE  /\ Cache!Holding(c, c.slot[s].bno) # {}
         /\ Cache!SlotOf(c, c.slot[s].bno) = s
<1>1. s \in Cache!Holding(c, c.slot[s].bno)
  BY DEF Cache!Holding
<1>2. Cache!SlotOf(c, c.slot[s].bno) \in Cache!Holding(c, c.slot[s].bno)
  BY <1>1, SlotOfHolds
<1> QED BY <1>1, <1>2 DEF Cache!Holding, Distinct

(* A set of numbers that is not empty has a least one.                     *)
LEMMA LeastNatural ==
  ASSUME NEW T \in SUBSET Nat, T # {}
  PROVE  \E x \in T : \A y \in T : x <= y
<1>1. PICK x \in T : \A y \in T : ~(<<y, x>> \in OpToRel(<, Nat))
  BY WFMin, NatLessThanWellFounded, Zenon
<1>2. \A y \in T : ~(y < x)
  BY <1>1, Zenon DEF OpToRel
<1>3. \A y \in T : x <= y
  <2> TAKE y \in T
  <2>1. x \in Nat /\ y \in Nat
    OBVIOUS
  <2> QED BY <2>1, <1>2, SMT
<1> QED BY <1>3, Zenon

(* getblk() takes an idle slot if there is one.                            *)
LEMMA LeastIsIdle ==
  ASSUME Sizes, NEW c \in CacheType, Cache!Idle(c) # {}
  PROVE  Cache!Least(c) \in Cache!Idle(c)
<1> DEFINE U == {c.slot[s].used : s \in Cache!Idle(c)}
<1>1. \A s \in Cache!Slot : c.slot[s].used \in Nat
  BY DEF CacheType, SlotType
<1>2. U \in SUBSET Nat /\ U # {}
  BY <1>1 DEF Cache!Idle
<1>3. PICK m \in U : \A y \in U : m <= y
  BY <1>2, LeastNatural
<1> DEFINE T == {s \in Cache!Idle(c) : c.slot[s].used = m}
<1>4. T \in SUBSET Nat /\ T # {}
  BY <1>3 DEF Cache!Idle, Cache!Slot
<1>5. PICK s \in T : \A y \in T : s <= y
  BY <1>4, LeastNatural
<1>6. \A x \in Cache!Idle(c) : \/ c.slot[s].used < c.slot[x].used
                               \/ c.slot[s].used = c.slot[x].used /\ s <= x
  <2> SUFFICES ASSUME NEW x \in Cache!Idle(c)
               PROVE  \/ c.slot[s].used < c.slot[x].used
                      \/ c.slot[s].used = c.slot[x].used /\ s <= x
    OBVIOUS
  <2>1. c.slot[s].used = m /\ m \in Nat /\ c.slot[x].used \in Nat /\ m <= c.slot[x].used
    BY <1>1, <1>2, <1>3 DEF Cache!Idle
  <2>2. c.slot[x].used = m => s <= x
    BY <1>5
  <2> QED BY <2>1, <2>2
<1> QED BY <1>6 DEF Cache!Least

-----------------------------------------------------------------------------
(* What a slot and a cache keep of each other.                             *)
LEMMA SlotsTyped ==
  ASSUME NEW c \in CacheType, NEW s \in Cache!Slot
  PROVE  /\ c.slot[s] \in SlotType
         /\ c.slot[s].bno \in Nat
         /\ c.slot[s].busy \in Nat
         /\ c.slot[s].used \in Nat
         /\ c.slot[s].data \in Value
BY DEF CacheType, SlotType

(* Looking a block up depends on the slots only.                           *)
LEMMA ContentsAt ==
  ASSUME NEW c, Distinct(c), NEW b \in Cache!CachedBlock
  PROVE  /\ \A s \in Cache!Slot : c.slot[s].used > 0 /\ c.slot[s].bno = b
                              => Cache!Contents(c)[b] = c.slot[s].data
         /\ (\A s \in Cache!Slot : ~(c.slot[s].used > 0 /\ c.slot[s].bno = b))
              => Cache!Contents(c)[b] = c.disk[b]
<1>1. ASSUME NEW s \in Cache!Slot, c.slot[s].used > 0, c.slot[s].bno = b
      PROVE  Cache!Contents(c)[b] = c.slot[s].data
  BY <1>1, SlotOfIsOnly DEF Cache!Contents
<1>2. ASSUME \A s \in Cache!Slot : ~(c.slot[s].used > 0 /\ c.slot[s].bno = b)
      PROVE  Cache!Contents(c)[b] = c.disk[b]
  BY <1>2 DEF Cache!Contents, Cache!Holding
<1> QED BY <1>1, <1>2

(* The number of slots in use, with one more, is positive.                 *)
LEMMA LastRank ==
  ASSUME Sizes, NEW c, NEW s \in Cache!Slot
  PROVE  Cardinality({x \in Cache!Slot : x = s \/ c.slot[x].used > 0}) \in Nat \ {0}
<1> DEFINE U == {x \in Cache!Slot : x = s \/ c.slot[x].used > 0}
<1>1. IsFiniteSet(Cache!Slot)
  BY FS_Interval, Constants DEF Cache!Slot
<1>2. IsFiniteSet(U)
  BY <1>1, FS_Subset
<1>3. U # {}
  OBVIOUS
<1>4. Cardinality(U) \in Nat /\ Cardinality(U) # 0
  BY <1>2, <1>3, FS_CardinalityType, FS_EmptySet
<1> QED BY <1>4

(* The instance counts as this module does.                                *)
LEMMA SameCardinality ==
  ASSUME NEW S PROVE Cache!Cardinality(S) = Cardinality(S)
BY Zenon DEF Cache!Cardinality, Cardinality

(* Becoming the one used last changes the ranks, and in use are the slots  *)
(* that were and this one.                                                 *)
LEMMA TouchedKeeps ==
  ASSUME Sizes, NEW c \in CacheType, NEW s \in Cache!Slot
  PROVE  /\ Cache!Touched(c, s) \in CacheType
         /\ Cache!Touched(c, s).disk = c.disk
         /\ Cache!Touched(c, s).abort = c.abort
         /\ \A x \in Cache!Slot :
              /\ Cache!Touched(c, s).slot[x].used > 0 <=> x = s \/ c.slot[x].used > 0
              /\ Cache!Touched(c, s).slot[x].bno = c.slot[x].bno
              /\ Cache!Touched(c, s).slot[x].busy = c.slot[x].busy
              /\ Cache!Touched(c, s).slot[x].type = c.slot[x].type
              /\ Cache!Touched(c, s).slot[x].data = c.slot[x].data
<1> DEFINE rank == c.slot[s].used
           last == Cache!Cardinality({x \in Cache!Slot : x = s \/ c.slot[x].used > 0})
           slots == [x \in Cache!Slot |-> IF x = s THEN [c.slot[s] EXCEPT !.used = last]
                                    ELSE Cache!Aged(c.slot[x], rank)]
<1>1. Cache!Touched(c, s) = [c EXCEPT !.slot = slots]
  BY DEF Cache!Touched
<1>2. last \in Nat \ {0}
  BY LastRank, SameCardinality
<1> HIDE DEF last
<1>3. /\ slots[s] \in SlotType
      /\ slots[s].used > 0
      /\ slots[s].bno = c.slot[s].bno
      /\ slots[s].busy = c.slot[s].busy
      /\ slots[s].type = c.slot[s].type
      /\ slots[s].data = c.slot[s].data
  BY <1>2, SlotsTyped DEF SlotType
<1>4. ASSUME NEW x \in Cache!Slot, x # s
      PROVE  /\ slots[x] \in SlotType
             /\ slots[x].used > 0 <=> c.slot[x].used > 0
             /\ slots[x].bno = c.slot[x].bno
             /\ slots[x].busy = c.slot[x].busy
             /\ slots[x].type = c.slot[x].type
             /\ slots[x].data = c.slot[x].data
  <2>1. slots[x] = Cache!Aged(c.slot[x], rank)
    BY <1>4
  <2>2. rank \in Nat /\ c.slot[x] \in SlotType
    BY SlotsTyped
  <2> HIDE DEF slots, rank
  <2> QED BY <2>1, <2>2 DEF Cache!Aged, SlotType
<1>5. slots = [x \in Cache!Slot |-> slots[x]]
  OBVIOUS
<1> HIDE DEF slots
<1>6. slots \in [Cache!Slot -> SlotType]
  BY <1>3, <1>4, <1>5
<1>7. /\ Cache!Touched(c, s) \in CacheType
      /\ Cache!Touched(c, s).disk = c.disk
      /\ Cache!Touched(c, s).abort = c.abort
      /\ Cache!Touched(c, s).slot = slots
  BY <1>1, <1>6 DEF CacheType
<1> QED BY <1>3, <1>4, <1>7

-----------------------------------------------------------------------------
(* Flushing a slot brings its block to the disk and changes nothing else.  *)
LEMMA FlushKeeps ==
  ASSUME NEW c, Sound(c), NEW s \in Cache!Slot
  PROVE  /\ Cache!FlushB(c, s) \in CacheType
         /\ Cache!FlushB(c, s).slot = c.slot
         /\ Cache!FlushB(c, s).abort = c.abort
         /\ c.slot[s].used > 0 => Cache!FlushB(c, s).disk[c.slot[s].bno] = c.slot[s].data
         /\ \A b \in Cache!CachedBlock :
              c.slot[s].used = 0 \/ b # c.slot[s].bno => Cache!FlushB(c, s).disk[b] = c.disk[b]
<1>1. c \in CacheType /\ c.slot[s].data \in Value /\ c.slot[s].used \in Nat
  BY SlotsTyped DEF Sound
<1>2. CASE c.slot[s].used = 0
  BY <1>1, <1>2 DEF Cache!FlushB, CacheType
<1>3. CASE c.slot[s].used > 0
  <2>1. c.slot[s].bno \in Cache!CachedBlock
    BY <1>3 DEF Sound, OnDisk
  <2>2. Cache!FlushB(c, s) = [c EXCEPT !.disk[c.slot[s].bno] = c.slot[s].data]
    BY <1>3, <1>1 DEF Cache!FlushB
  <2> DEFINE disk == [c.disk EXCEPT ![c.slot[s].bno] = c.slot[s].data]
  <2>3. Cache!FlushB(c, s) = [c EXCEPT !.disk = disk]
    BY <2>2, <1>1 DEF CacheType
  <2>4. /\ disk \in [Cache!CachedBlock -> Value]
        /\ disk[c.slot[s].bno] = c.slot[s].data
        /\ \A b \in Cache!CachedBlock : b # c.slot[s].bno => disk[b] = c.disk[b]
    BY <2>1, <1>1 DEF CacheType
  <2> HIDE DEF disk
  <2>5. /\ Cache!FlushB(c, s) \in CacheType
        /\ Cache!FlushB(c, s).slot = c.slot
        /\ Cache!FlushB(c, s).abort = c.abort
        /\ Cache!FlushB(c, s).disk = disk
    BY <2>3, <2>4, <1>1 DEF CacheType
  <2> QED BY <2>4, <2>5, <1>3
<1> QED BY <1>1, <1>2, <1>3

(* Slot s has been lent out once more, for block b; of the others none has *)
(* changed but for its rank.                                               *)
LentIn(c, d, s, b, type) ==
  /\ d.slot[s].used > 0 /\ d.slot[s].bno = b
  /\ d.slot[s].busy = c.slot[s].busy + 1 /\ d.slot[s].type = type
  /\ \A x \in Cache!Slot \ {s} :
       /\ d.slot[x].used > 0 <=> c.slot[x].used > 0
       /\ d.slot[x].bno = c.slot[x].bno
       /\ d.slot[x].busy = c.slot[x].busy
       /\ d.slot[x].type = c.slot[x].type

(* Lending slot s, which holds block b and is the only one to do so, out:  *)
(* the cache stays sound, every block but b holds what it held, b what the *)
(* slot held unless it is cleared, and nothing that was lent is evicted.   *)
LEMMA LendKeeps ==
  ASSUME Sizes, NEW c \in CacheType, Distinct(c), OnDisk(c), c.abort = Cache!Fine,
         NEW s \in Cache!Slot, NEW b \in Cache!CachedBlock, c.slot[s].bno = b,
         \A x \in Cache!Slot : c.slot[x].used > 0 /\ c.slot[x].bno = b => x = s,
         NEW clr \in BOOLEAN, NEW type \in Kind,
         Cache!Lend(c, s, clr, type).abort = Cache!Fine
  PROVE  LET d == Cache!Lend(c, s, clr, type)
         IN  /\ Sound(d)
             /\ \A x \in Cache!CachedBlock :
                  Cache!Contents(d)[x] = IF x # b THEN Cache!Contents(c)[x]
                                   ELSE IF clr THEN ZeroBlock ELSE c.slot[s].data
             /\ d.disk = c.disk
             /\ LentIn(c, d, s, b, type)
             /\ Cache!Lent(d, b)
             /\ \A x \in Cache!CachedBlock : Cache!Lent(c, x) => Cache!Lent(d, x)
<1> DEFINE old == c.slot[s]
           new == [bno |-> old.bno, busy |-> old.busy + 1, used |-> old.used,
                   type |-> type, data |-> IF clr THEN ZeroBlock ELSE old.data]
           lent == [c EXCEPT !.slot[s] = new]
           d == Cache!Lend(c, s, clr, type)
<1>1. Cache!Abort(c, "assertion failed").abort # Cache!Fine
  BY DEF Cache!Abort, Cache!Fine, CacheType
<1>2. d = Cache!Touched(lent, s)
  <2>1. d = IF old.type # type /\ old.busy # 0
            THEN Cache!Abort(c, "assertion failed") ELSE Cache!Touched(lent, s)
    BY Zenon DEF Cache!Lend
  <2> HIDE DEF d, lent
  <2> QED BY <1>1, <2>1 DEF d
<1>3. /\ old.bno \in Nat
      /\ old.busy \in Nat
      /\ old.used \in Nat
      /\ old.data \in Value
  BY SlotsTyped
<1>4. new \in SlotType
  BY <1>3, Constants DEF SlotType
<1>5. /\ new.bno = b
      /\ new.busy = old.busy + 1
      /\ new.type = type
      /\ new.data = IF clr THEN ZeroBlock ELSE c.slot[s].data
  OBVIOUS
<1> HIDE DEF new
<1>6. /\ lent \in CacheType
      /\ lent.disk = c.disk
      /\ lent.slot[s] = new
      /\ \A x \in Cache!Slot : x # s => lent.slot[x] = c.slot[x]
  BY <1>4 DEF CacheType
<1>7. new.used = old.used
  BY DEF new
<1> HIDE DEF lent, old
<1>8. /\ d \in CacheType
      /\ d.disk = c.disk
      /\ \A x \in Cache!Slot :
           /\ d.slot[x].used > 0 <=> x = s \/ c.slot[x].used > 0
           /\ d.slot[x].bno = c.slot[x].bno
           /\ x # s => /\ d.slot[x].data = c.slot[x].data
                       /\ d.slot[x].busy = c.slot[x].busy
                       /\ d.slot[x].type = c.slot[x].type
      /\ d.slot[s].data = IF clr THEN ZeroBlock ELSE c.slot[s].data
      /\ d.slot[s].busy = c.slot[s].busy + 1
      /\ d.slot[s].type = type
  <2> HIDE DEF d
  <2>1. /\ d \in CacheType
        /\ d.disk = lent.disk
        /\ \A x \in Cache!Slot :
             /\ d.slot[x].used > 0 <=> x = s \/ lent.slot[x].used > 0
             /\ d.slot[x].bno = lent.slot[x].bno
             /\ d.slot[x].busy = lent.slot[x].busy
             /\ d.slot[x].type = lent.slot[x].type
             /\ d.slot[x].data = lent.slot[x].data
    BY <1>2, <1>6, TouchedKeeps
  <2>2. /\ lent.slot[s].bno = c.slot[s].bno
        /\ lent.slot[s].used = c.slot[s].used
        /\ lent.slot[s].busy = c.slot[s].busy + 1
        /\ lent.slot[s].type = type
        /\ lent.slot[s].data = IF clr THEN ZeroBlock ELSE c.slot[s].data
    BY <1>5, <1>6, <1>7 DEF old
  <2> QED BY <1>6, <2>1, <2>2
<1> HIDE DEF d
<1>9. Distinct(d)
  BY <1>8 DEF Distinct
<1>10. OnDisk(d)
  BY <1>8 DEF OnDisk
<1>11. \A x \in Cache!CachedBlock :
         Cache!Contents(d)[x] = IF x # b THEN Cache!Contents(c)[x]
                          ELSE IF clr THEN ZeroBlock ELSE c.slot[s].data
  <2> TAKE x \in Cache!CachedBlock
  <2>1. CASE x = b
    BY <2>1, <1>8, <1>9, ContentsAt
  <2>2. CASE x # b
    <3>1. CASE \E y \in Cache!Slot : c.slot[y].used > 0 /\ c.slot[y].bno = x
      BY <2>2, <3>1, <1>8, <1>9, ContentsAt
    <3>2. CASE \A y \in Cache!Slot : ~(c.slot[y].used > 0 /\ c.slot[y].bno = x)
      <4>1. \A y \in Cache!Slot : ~(d.slot[y].used > 0 /\ d.slot[y].bno = x)
        BY <2>2, <3>2, <1>8
      <4> QED BY <4>1, <2>2, <3>2, <1>8, <1>9, ContentsAt
    <3> QED BY <3>1, <3>2
  <2> QED BY <2>1, <2>2
<1>12. Cache!Lent(d, b)
  <2>1. Cache!Holding(d, b) # {} /\ Cache!SlotOf(d, b) = s
    BY <1>8, <1>9, SlotOfIsOnly
  <2>2. d.slot[s].busy > 0
    BY <1>8, <1>3 DEF old
  <2> QED BY <2>1, <2>2 DEF Cache!Lent
<1>13. ASSUME NEW x \in Cache!CachedBlock, Cache!Lent(c, x)
       PROVE  Cache!Lent(d, x)
  <2> DEFINE y == Cache!SlotOf(c, x)
  <2>1. y \in Cache!Slot /\ c.slot[y].bno = x /\ c.slot[y].used > 0 /\ c.slot[y].busy > 0
    BY <1>13, SlotOfIsThere DEF Cache!Lent
  <2> HIDE DEF y
  <2>2. Cache!Holding(d, x) # {} /\ Cache!SlotOf(d, x) = y
    BY <2>1, <1>8, <1>9, SlotOfIsOnly
  <2>3. d.slot[y].busy > 0
    BY <2>1, <1>8, SlotsTyped
  <2> QED BY <2>2, <2>3 DEF Cache!Lent
<1>14. LentIn(c, d, s, b, type)
  BY <1>8 DEF LentIn
<1> QED BY <1>8, <1>9, <1>10, <1>11, <1>12, <1>13, <1>14 DEF Sound, d

(* Bringing block b into an idle slot, which first writes back what the    *)
(* slot held: all blocks hold what they held, wherever that is now.        *)
LEMMA LoadKeeps ==
  ASSUME Sizes, NEW c, Sound(c), NEW b \in Cache!CachedBlock, Cache!Holding(c, b) = {},
         NEW s \in Cache!Idle(c), NEW type \in Kind
  PROVE  LET m == Cache!Load(c, s, b, type)
         IN  /\ m \in CacheType
             /\ m.abort = c.abort
             /\ Distinct(m)
             /\ OnDisk(m)
             /\ m.slot[s].bno = b /\ m.slot[s].busy = 0
             /\ \A x \in Cache!Slot : x # s => m.slot[x] = c.slot[x]
             /\ m.slot[s].data = Cache!Contents(c)[b]
             /\ \A x \in Cache!Slot : m.slot[x].used > 0 /\ m.slot[x].bno = b => x = s
             /\ \A x \in Cache!CachedBlock : x # b => Cache!Contents(m)[x] = Cache!Contents(c)[x]
             /\ \A x \in Cache!CachedBlock : Cache!Lent(c, x) => Cache!Lent(m, x)
<1> DEFINE f == Cache!FlushB(c, s)
           new == [bno |-> b, busy |-> 0, used |-> c.slot[s].used, type |-> type,
                   data |-> f.disk[b]]
           m == Cache!Load(c, s, b, type)
<1>1. c \in CacheType /\ Distinct(c) /\ OnDisk(c)
  BY DEF Sound
<1>2. s \in Cache!Slot /\ c.slot[s].busy = 0
  BY DEF Cache!Idle
<1>3. \A x \in Cache!Slot : ~(c.slot[x].used > 0 /\ c.slot[x].bno = b)
  BY DEF Cache!Holding
<1>4. /\ f \in CacheType
      /\ f.slot = c.slot
      /\ f.abort = c.abort
      /\ c.slot[s].used > 0 => f.disk[c.slot[s].bno] = c.slot[s].data
      /\ \A x \in Cache!CachedBlock :
           c.slot[s].used = 0 \/ x # c.slot[s].bno => f.disk[x] = c.disk[x]
  BY <1>2, FlushKeeps
<1> HIDE DEF f
<1>5. c.slot[s].used \in Nat /\ b \in Nat /\ f.disk[b] \in Value
  <2>1. c.slot[s].used \in Nat
    BY <1>1, <1>2, SlotsTyped
  <2>2. b \in Nat
    BY Constants DEF Cache!CachedBlock
  <2>3. f.disk[b] \in Value
    BY <1>4 DEF CacheType
  <2> QED BY <2>1, <2>2, <2>3
<1>6. f.disk[b] = Cache!Contents(c)[b]
  <2>1. f.disk[b] = c.disk[b]
    BY <1>2, <1>3, <1>4, <1>5
  <2> QED BY <2>1, <1>1, <1>3, ContentsAt
<1>7. new \in SlotType
  BY <1>5 DEF SlotType
<1>8. m = [f EXCEPT !.slot[s] = new]
  BY DEF Cache!Load, f
<1>9. /\ new.bno = b /\ new.busy = 0
      /\ new.used = c.slot[s].used
      /\ new.data = f.disk[b]
  OBVIOUS
<1> HIDE DEF new, m
<1>10. /\ m \in CacheType
       /\ m.abort = c.abort
       /\ m.disk = f.disk
       /\ m.slot[s] = new
       /\ \A x \in Cache!Slot : x # s => m.slot[x] = c.slot[x]
  BY <1>2, <1>4, <1>7, <1>8 DEF CacheType
<1>11. \A x \in Cache!Slot : m.slot[x].used > 0 /\ m.slot[x].bno = b => x = s
  BY <1>3, <1>10
<1>12. Distinct(m)
  BY <1>1, <1>2, <1>3, <1>9, <1>10 DEF Distinct
<1>13. OnDisk(m)
  BY <1>1, <1>9, <1>10 DEF OnDisk
<1>14. ASSUME NEW x \in Cache!CachedBlock, x # b
       PROVE  Cache!Contents(m)[x] = Cache!Contents(c)[x]
  <2>1. CASE \E y \in Cache!Slot : y # s /\ c.slot[y].used > 0 /\ c.slot[y].bno = x
    <3>1. PICK y \in Cache!Slot : y # s /\ c.slot[y].used > 0 /\ c.slot[y].bno = x
      BY <2>1
    <3>2. m.slot[y] = c.slot[y]
      BY <3>1, <1>10
    <3> QED BY <3>1, <3>2, <1>1, <1>12, ContentsAt
  <2>2. CASE \A y \in Cache!Slot : ~(y # s /\ c.slot[y].used > 0 /\ c.slot[y].bno = x)
    <3>1. \A y \in Cache!Slot : ~(m.slot[y].used > 0 /\ m.slot[y].bno = x)
      BY <2>2, <1>14, <1>9, <1>10
    <3>2. Cache!Contents(m)[x] = f.disk[x]
      BY <3>1, <1>10, <1>12, ContentsAt
    <3>3. CASE c.slot[s].used > 0 /\ c.slot[s].bno = x
      BY <3>2, <3>3, <1>1, <1>2, <1>4, ContentsAt
    <3>4. CASE ~(c.slot[s].used > 0 /\ c.slot[s].bno = x)
      <4>1. \A y \in Cache!Slot : ~(c.slot[y].used > 0 /\ c.slot[y].bno = x)
        BY <2>2, <3>4
      <4>2. Cache!Contents(c)[x] = c.disk[x]
        BY <4>1, <1>1, ContentsAt
      <4>3. f.disk[x] = c.disk[x]
        BY <3>4, <1>4, <1>5
      <4> QED BY <4>2, <4>3, <3>2
    <3> QED BY <3>3, <3>4
  <2> QED BY <2>1, <2>2
<1>15. ASSUME NEW x \in Cache!CachedBlock, Cache!Lent(c, x)
       PROVE  Cache!Lent(m, x)
  <2> DEFINE y == Cache!SlotOf(c, x)
  <2>1. y \in Cache!Slot /\ c.slot[y].bno = x /\ c.slot[y].used > 0 /\ c.slot[y].busy > 0
    BY <1>15, SlotOfIsThere DEF Cache!Lent
  <2> HIDE DEF y
  <2>2. m.slot[y] = c.slot[y]
    BY <2>1, <1>2, <1>10
  <2>3. Cache!Holding(m, x) # {} /\ Cache!SlotOf(m, x) = y
    BY <2>1, <2>2, <1>12, SlotOfIsOnly
  <2> QED BY <2>1, <2>2, <2>3 DEF Cache!Lent
<1> QED BY <1>6, <1>9, <1>10, <1>11, <1>12, <1>13, <1>14, <1>15 DEF m

-----------------------------------------------------------------------------
(* getblk(), as long as it does not give up, lends out the block it was    *)
(* asked for; no block changes by it, except that clearing makes this one  *)
(* all zeros; and no block that somebody has borrowed is evicted, so that  *)
(* the pointers into the blocks stay good.                                 *)
THEOREM GetBlkIsTransparent ==
  ASSUME Sizes, NEW c, Sound(c), c.abort = Cache!Fine, NEW b \in Cache!CachedBlock,
         NEW clr \in BOOLEAN, NEW type \in Kind,
         Cache!GetBlk(c, b, clr, type).abort = Cache!Fine
  PROVE  LET d == Cache!GetBlk(c, b, clr, type)
         IN  /\ Sound(d)
             /\ \A x \in Cache!CachedBlock :
                  Cache!Contents(d)[x] = IF clr /\ x = b THEN ZeroBlock ELSE Cache!Contents(c)[x]
             /\ Cache!Lent(d, b)
             /\ \A x \in Cache!CachedBlock : Cache!Lent(c, x) => Cache!Lent(d, x)
<1> DEFINE d == Cache!GetBlk(c, b, clr, type)
<1>1. c \in CacheType /\ Distinct(c) /\ OnDisk(c)
  BY DEF Sound
<1>2. ~(b >= NBLOCKS)
  BY Constants DEF Cache!CachedBlock
<1>3. CASE Cache!Holding(c, b) # {}
  <2> DEFINE s == Cache!SlotOf(c, b)
  <2>1. s \in Cache!Slot /\ c.slot[s].bno = b /\ c.slot[s].used > 0
    BY <1>3, SlotOfIsThere
  <2>2. d = Cache!Lend(c, s, clr, type)
    BY <1>2, <1>3, Zenon DEF Cache!GetBlk
  <2> HIDE DEF s
  <2>3. \A x \in Cache!Slot : c.slot[x].used > 0 /\ c.slot[x].bno = b => x = s
    BY <1>1, <2>1 DEF Distinct
  <2>4. Cache!Contents(c)[b] = c.slot[s].data
    BY <2>1, <1>1, ContentsAt
  <2> QED BY <1>1, <2>1, <2>2, <2>3, <2>4, LendKeeps
<1>4. CASE Cache!Holding(c, b) = {}
  <2> DEFINE s == Cache!Least(c)
             m == Cache!Load(c, s, b, type)
  <2>1. Cache!Abort(c, "cache full").abort # Cache!Fine
    BY <1>1 DEF Cache!Abort, Cache!Fine, CacheType
  <2>2. d = IF Cache!Idle(c) = {} THEN Cache!Abort(c, "cache full") ELSE Cache!Lend(m, s, clr, type)
    BY <1>2, <1>4, Zenon DEF Cache!GetBlk
  <2>3. Cache!Idle(c) # {} /\ d = Cache!Lend(m, s, clr, type)
    BY <2>1, <2>2
  <2>4. s \in Cache!Idle(c)
    BY <2>3, <1>1, LeastIsIdle
  <2>5. s \in Cache!Slot
    BY <2>4 DEF Cache!Idle
  <2> HIDE DEF s
  <2>6. /\ m \in CacheType
        /\ m.abort = c.abort
        /\ Distinct(m)
        /\ OnDisk(m)
        /\ m.slot[s].bno = b /\ m.slot[s].busy = 0
        /\ \A x \in Cache!Slot : x # s => m.slot[x] = c.slot[x]
        /\ m.slot[s].data = Cache!Contents(c)[b]
        /\ \A x \in Cache!Slot : m.slot[x].used > 0 /\ m.slot[x].bno = b => x = s
        /\ \A x \in Cache!CachedBlock : x # b => Cache!Contents(m)[x] = Cache!Contents(c)[x]
        /\ \A x \in Cache!CachedBlock : Cache!Lent(c, x) => Cache!Lent(m, x)
    BY <2>4, <1>4, LoadKeeps
  <2> HIDE DEF m
  <2> QED BY <2>3, <2>5, <2>6, LendKeeps
<1> QED BY <1>3, <1>4

(* A slot that keeps its block but not what the block holds.               *)
LEMMA RefilledSlot ==
  ASSUME NEW c, Sound(c), NEW s \in Cache!Slot, c.slot[s].used > 0, NEW new \in SlotType,
         new.bno = c.slot[s].bno, new.used = c.slot[s].used
  PROVE  LET d == [c EXCEPT !.slot[s] = new]
         IN  /\ Sound(d)
             /\ \A x \in Cache!CachedBlock :
                  Cache!Contents(d)[x] =
                    IF x = c.slot[s].bno THEN new.data ELSE Cache!Contents(c)[x]
<1> DEFINE d == [c EXCEPT !.slot[s] = new]
<1>1. c \in CacheType /\ Distinct(c) /\ OnDisk(c)
  BY DEF Sound
<1>2. /\ d \in CacheType
      /\ d.disk = c.disk
      /\ d.slot[s] = new
      /\ \A x \in Cache!Slot : x # s => d.slot[x] = c.slot[x]
  BY <1>1 DEF CacheType
<1> HIDE DEF d
<1>3. \A x \in Cache!Slot : d.slot[x].used = c.slot[x].used /\ d.slot[x].bno = c.slot[x].bno
  BY <1>2
<1>4. Distinct(d) /\ OnDisk(d)
  BY <1>1, <1>3 DEF Distinct, OnDisk
<1>5. ASSUME NEW x \in Cache!CachedBlock
      PROVE  Cache!Contents(d)[x] =
                    IF x = c.slot[s].bno THEN new.data ELSE Cache!Contents(c)[x]
  <2>1. CASE x = c.slot[s].bno
    BY <2>1, <1>2, <1>3, <1>4, ContentsAt
  <2>2. CASE x # c.slot[s].bno /\ \E y \in Cache!Slot : c.slot[y].used > 0 /\ c.slot[y].bno = x
    <3>1. PICK y \in Cache!Slot : c.slot[y].used > 0 /\ c.slot[y].bno = x
      BY <2>2
    <3>2. d.slot[y] = c.slot[y]
      BY <2>2, <3>1, <1>2
    <3> QED BY <2>2, <3>1, <3>2, <1>1, <1>4, ContentsAt
  <2>3. CASE x # c.slot[s].bno /\ \A y \in Cache!Slot : ~(c.slot[y].used > 0 /\ c.slot[y].bno = x)
    BY <2>3, <1>1, <1>2, <1>3, <1>4, ContentsAt
  <2> QED BY <2>1, <2>2, <2>3
<1> QED BY <1>2, <1>4, <1>5 DEF Sound, d

(* putblk() changes what no block holds.                                   *)
THEOREM PutBlkIsTransparent ==
  ASSUME NEW c, Sound(c), c.abort = Cache!Fine, NEW b \in Cache!CachedBlock,
         Cache!PutBlk(c, b).abort = Cache!Fine
  PROVE  /\ Sound(Cache!PutBlk(c, b))
         /\ \A x \in Cache!CachedBlock :
              Cache!Contents(Cache!PutBlk(c, b))[x] = Cache!Contents(c)[x]
<1> DEFINE s == Cache!SlotOf(c, b)
           d == Cache!PutBlk(c, b)
<1>1. c \in CacheType /\ Distinct(c)
  BY DEF Sound
<1>2. Cache!Abort(c, "stray pointer").abort # Cache!Fine
  BY <1>1 DEF Cache!Abort, Cache!Fine, CacheType
<1>3. d = IF ~Cache!Lent(c, b) THEN Cache!Abort(c, "stray pointer")
          ELSE [c EXCEPT !.slot[s].busy = @ - 1]
  BY Zenon DEF Cache!PutBlk
<1>4. Cache!Lent(c, b)
  BY <1>2, <1>3
<1>5. s \in Cache!Slot /\ c.slot[s].bno = b /\ c.slot[s].used > 0 /\ c.slot[s].busy > 0
  BY <1>4, SlotOfIsThere DEF Cache!Lent
<1> HIDE DEF s
<1> DEFINE new == [c.slot[s] EXCEPT !.busy = @ - 1]
<1>6. d = [c EXCEPT !.slot[s] = new]
  BY <1>3, <1>4
<1>7. /\ new \in SlotType
      /\ new.bno = c.slot[s].bno
      /\ new.used = c.slot[s].used
      /\ new.data = c.slot[s].data
  BY <1>1, <1>5, SlotsTyped DEF SlotType
<1>8. Cache!Contents(c)[b] = c.slot[s].data
  BY <1>1, <1>5, ContentsAt
<1> HIDE DEF new, d
<1> QED BY <1>5, <1>6, <1>7, <1>8, RefilledSlot DEF d

(* Writing through the pointer getblk() has returned changes that block.   *)
THEOREM SetDataWrites ==
  ASSUME NEW c, Sound(c), c.abort = Cache!Fine, NEW b \in Cache!CachedBlock, NEW data \in Value,
         Cache!SetData(c, b, data).abort = Cache!Fine
  PROVE  /\ Sound(Cache!SetData(c, b, data))
         /\ \A x \in Cache!CachedBlock :
              Cache!Contents(Cache!SetData(c, b, data))[x] =
                IF x = b THEN data ELSE Cache!Contents(c)[x]
<1> DEFINE s == Cache!SlotOf(c, b)
           d == Cache!SetData(c, b, data)
<1>1. c \in CacheType /\ Distinct(c)
  BY DEF Sound
<1>2. Cache!Abort(c, "stray pointer").abort # Cache!Fine
  BY <1>1 DEF Cache!Abort, Cache!Fine, CacheType
<1>3. d = IF ~Cache!Lent(c, b) THEN Cache!Abort(c, "stray pointer")
          ELSE [c EXCEPT !.slot[s].data = data]
  BY Zenon DEF Cache!SetData
<1>4. Cache!Lent(c, b)
  BY <1>2, <1>3
<1>5. s \in Cache!Slot /\ c.slot[s].bno = b /\ c.slot[s].used > 0
  BY <1>4, SlotOfIsThere DEF Cache!Lent
<1> HIDE DEF s
<1> DEFINE new == [c.slot[s] EXCEPT !.data = data]
<1>6. d = [c EXCEPT !.slot[s] = new]
  BY <1>3, <1>4
<1>7. /\ new \in SlotType
      /\ new.bno = c.slot[s].bno
      /\ new.used = c.slot[s].used
      /\ new.data = data
  BY <1>1, <1>5, SlotsTyped DEF SlotType
<1> HIDE DEF new, d
<1> QED BY <1>5, <1>6, <1>7, RefilledSlot DEF d

(* What flushdisk() leaves on the disk is what the blocks hold.            *)
LEMMA FlushDiskBringsAll ==
  ASSUME NEW c, Sound(c), c.abort = Cache!Fine
  PROVE  Cache!FlushDisk(c).disk = Cache!Contents(c)
<1>1. c \in CacheType
  BY DEF Sound
<1> DEFINE disk == [b \in Cache!CachedBlock |->
                      IF Cache!Holding(c, b) # {}
                      THEN c.slot[Cache!SlotOf(c, b)].data ELSE c.disk[b]]
<1>2. Cache!FlushDisk(c) = [c EXCEPT !.disk = disk]
  BY <1>1, Zenon DEF Cache!FlushDisk
<1>3. disk = Cache!Contents(c)
  BY Zenon DEF Cache!Contents
<1> HIDE DEF disk
<1> QED BY <1>1, <1>2, <1>3 DEF CacheType

-----------------------------------------------------------------------------
(* The cache in use by any sequence of calls, beside it what the caller    *)
(* should find in the blocks: what was last written to each.               *)
VARIABLES cache, promised

Borrow(b, clr, type) ==
  /\ cache' = Cache!GetBlk(cache, b, clr, type)
  /\ promised' = [x \in Cache!CachedBlock |->
                    IF clr /\ x = b /\ cache'.abort = Cache!Fine THEN ZeroBlock ELSE promised[x]]

GiveBack(b) ==
  /\ cache' = Cache!PutBlk(cache, b)
  /\ promised' = promised

WriteThrough(b, data) ==
  /\ cache' = Cache!SetData(cache, b, data)
  /\ promised' = [x \in Cache!CachedBlock |->
                    IF x = b /\ cache'.abort = Cache!Fine THEN data ELSE promised[x]]

UseCache ==
  \E b \in Cache!CachedBlock :
    \/ \E clr \in BOOLEAN, type \in Kind : Borrow(b, clr, type)
    \/ GiveBack(b)
    \/ \E data \in Value : WriteThrough(b, data)

CacheSpec ==
  /\ cache = Cache!EmptyCache /\ promised = [b \in Cache!CachedBlock |-> ZeroBlock]
  /\ [][UseCache]_<<cache, promised>>

(* Until the formatter gives up, each block holds what was last written to *)
(* it.                                                                     *)
Transparent == cache.abort = Cache!Fine => Sound(cache) /\ Cache!Contents(cache) = promised

LEMMA EmptyCacheIsSound ==
  ASSUME Sizes
  PROVE  /\ Sound(Cache!EmptyCache)
         /\ Cache!Contents(Cache!EmptyCache) = [b \in Cache!CachedBlock |-> ZeroBlock]
<1>1. Cache!EmptySlot \in SlotType
  BY Constants DEF Cache!EmptySlot, SlotType
<1>2. Cache!EmptyCache \in CacheType
  BY <1>1, Constants DEF Cache!EmptyCache, CacheType
<1>3. \A s \in Cache!Slot : Cache!EmptyCache.slot[s].used = 0
  BY DEF Cache!EmptyCache, Cache!EmptySlot
<1>4. Distinct(Cache!EmptyCache) /\ OnDisk(Cache!EmptyCache)
  BY <1>3 DEF Distinct, OnDisk
<1>5. \A b \in Cache!CachedBlock : Cache!Contents(Cache!EmptyCache)[b] = Cache!EmptyCache.disk[b]
  BY <1>3, <1>4, ContentsAt
<1>6. \A b \in Cache!CachedBlock : Cache!EmptyCache.disk[b] = ZeroBlock
  BY DEF Cache!EmptyCache
<1>7. Cache!Contents(Cache!EmptyCache)
        = [b \in Cache!CachedBlock |-> Cache!Contents(Cache!EmptyCache)[b]]
  BY DEF Cache!Contents
<1>8. Cache!Contents(Cache!EmptyCache) = [b \in Cache!CachedBlock |-> ZeroBlock]
  BY <1>5, <1>6, <1>7
<1> QED BY <1>2, <1>4, <1>8 DEF Sound

(* For a cache of any size, whatever the order of the calls.               *)
THEOREM CacheIsTransparent ==
  ASSUME Sizes
  PROVE  CacheSpec => []Transparent
<1>1. cache = Cache!EmptyCache /\ promised = [b \in Cache!CachedBlock |-> ZeroBlock] => Transparent
  BY EmptyCacheIsSound DEF Transparent
<1>2. ASSUME Transparent, [UseCache]_<<cache, promised>>
      PROVE  Transparent'
  <2> SUFFICES ASSUME cache'.abort = Cache!Fine
               PROVE  Sound(cache') /\ Cache!Contents(cache') = promised'
    BY DEF Transparent
  <2>1. ASSUME NEW b \in Cache!CachedBlock, NEW clr \in BOOLEAN, NEW type \in Kind,
               Borrow(b, clr, type)
        PROVE  Sound(cache') /\ Cache!Contents(cache') = promised'
    <3>1. cache.abort = Cache!Fine
      BY <2>1 DEF Borrow, Cache!GetBlk
    <3>2. Sound(cache) /\ Cache!Contents(cache) = promised
      BY <1>2, <3>1 DEF Transparent
    <3>3. /\ Sound(cache')
          /\ \A x \in Cache!CachedBlock :
               Cache!Contents(cache')[x] = IF clr /\ x = b THEN ZeroBlock ELSE promised[x]
      BY <2>1, <3>1, <3>2, GetBlkIsTransparent DEF Borrow
    <3>4. Cache!Contents(cache') = [x \in Cache!CachedBlock |-> Cache!Contents(cache')[x]]
      BY DEF Cache!Contents
    <3> QED BY <2>1, <3>3, <3>4 DEF Borrow
  <2>2. ASSUME NEW b \in Cache!CachedBlock, GiveBack(b)
        PROVE  Sound(cache') /\ Cache!Contents(cache') = promised'
    <3>1. cache.abort = Cache!Fine
      BY <2>2 DEF GiveBack, Cache!PutBlk
    <3>2. Sound(cache) /\ Cache!Contents(cache) = promised
      BY <1>2, <3>1 DEF Transparent
    <3>3. /\ Sound(cache')
          /\ \A x \in Cache!CachedBlock : Cache!Contents(cache')[x] = promised[x]
      BY <2>2, <3>1, <3>2, PutBlkIsTransparent DEF GiveBack
    <3>4. /\ Cache!Contents(cache') = [x \in Cache!CachedBlock |-> Cache!Contents(cache')[x]]
          /\ promised = [x \in Cache!CachedBlock |-> promised[x]]
      BY <3>2 DEF Cache!Contents
    <3> QED BY <2>2, <3>3, <3>4 DEF GiveBack
  <2>3. ASSUME NEW b \in Cache!CachedBlock, NEW data \in Value, WriteThrough(b, data)
        PROVE  Sound(cache') /\ Cache!Contents(cache') = promised'
    <3>1. cache.abort = Cache!Fine
      BY <2>3 DEF WriteThrough, Cache!SetData
    <3>2. Sound(cache) /\ Cache!Contents(cache) = promised
      BY <1>2, <3>1 DEF Transparent
    <3>3. /\ Sound(cache')
          /\ \A x \in Cache!CachedBlock :
               Cache!Contents(cache')[x] = IF x = b THEN data ELSE promised[x]
      BY <2>3, <3>1, <3>2, SetDataWrites DEF WriteThrough
    <3>4. Cache!Contents(cache') = [x \in Cache!CachedBlock |-> Cache!Contents(cache')[x]]
      BY DEF Cache!Contents
    <3> QED BY <2>3, <3>3, <3>4 DEF WriteThrough
  <2>4. CASE UNCHANGED <<cache, promised>>
    BY <1>2, <2>4 DEF Transparent
  <2> QED BY <1>2, <2>1, <2>2, <2>3, <2>4 DEF UseCache
<1> QED BY <1>1, <1>2, PTL DEF CacheSpec

(* So the image that flushdisk() leaves holds what was written.            *)
THEOREM ImageHoldsWhatWasWritten ==
  ASSUME Sizes
  PROVE  CacheSpec => [](cache.abort = Cache!Fine => Cache!FlushDisk(cache).disk = promised)
<1>1. Transparent => (cache.abort = Cache!Fine => Cache!FlushDisk(cache).disk = promised)
  BY FlushDiskBringsAll DEF Transparent
<1> QED BY <1>1, CacheIsTransparent, PTL

-----------------------------------------------------------------------------
(* What is lent out: L[b] times block b.                                   *)
Borrowed == [Nat -> Nat]
Nothing == [b \in Nat |-> 0]
Plus(L, b) == [x \in Nat |-> IF x = b THEN L[x] + 1 ELSE L[x]]
Minus(L, b) == [x \in Nat |-> IF x = b THEN L[x] - 1 ELSE L[x]]

(* At most n different blocks are lent out.                                *)
AtMost(L, n) ==
  /\ L \in Borrowed /\ n \in Nat
  /\ \E P : IsFiniteSet(P) /\ Cardinality(P) <= n /\ \A b \in Nat : L[b] > 0 => b \in P

(* The cache has lent out L, a block b that is lent out as a T[b].         *)
Lends(c, L, T) ==
  /\ \A s \in Cache!Slot :
       /\ c.slot[s].used > 0 => c.slot[s].busy = L[c.slot[s].bno]
       /\ c.slot[s].used = 0 => c.slot[s].busy = 0
       /\ c.slot[s].busy > 0 => c.slot[s].type = T[c.slot[s].bno]
  /\ \A b \in Nat : L[b] > 0 => \E s \in Cache!Slot : c.slot[s].used > 0 /\ c.slot[s].bno = b

LEMMA NothingIsLent == AtMost(Nothing, 0)
BY FS_EmptySet, SMT DEF AtMost, Nothing, Borrowed

(* A block more is at most one block number more.                          *)
LEMMA OneMoreBlock ==
  ASSUME NEW L, NEW n, AtMost(L, n), NEW b
  PROVE  AtMost(Plus(L, b), n + 1)
<1>1. PICK P : IsFiniteSet(P) /\ Cardinality(P) <= n /\ \A x \in Nat : L[x] > 0 => x \in P
  BY DEF AtMost
<1>2. /\ IsFiniteSet(P \cup {b})
      /\ Cardinality(P \cup {b}) = IF b \in P THEN Cardinality(P) ELSE Cardinality(P) + 1
  BY <1>1, FS_AddElement
<1>3. Cardinality(P) \in Nat /\ n \in Nat /\ L \in Borrowed
  BY <1>1, FS_CardinalityType DEF AtMost
<1>4. Cardinality(P \cup {b}) <= n + 1
  BY <1>1, <1>2, <1>3
<1>5. Plus(L, b) \in Borrowed
  BY <1>3 DEF Plus, Borrowed
<1>6. \A x \in Nat : Plus(L, b)[x] > 0 => x \in P \cup {b}
  BY <1>1 DEF Plus
<1> QED BY <1>2, <1>3, <1>4, <1>5, <1>6 DEF AtMost

(* When all slots are lent out, as many blocks are.                        *)
LEMMA FullCache ==
  ASSUME Sizes, NEW c, Sound(c), NEW L, NEW T, Lends(c, L, T), NEW n, AtMost(L, n),
         Cache!Idle(c) = {}
  PROVE  NSLOTS <= n
<1>1. PICK P : IsFiniteSet(P) /\ Cardinality(P) <= n /\ \A x \in Nat : L[x] > 0 => x \in P
  BY DEF AtMost
<1>2. IsFiniteSet(Cache!Slot) /\ Cardinality(Cache!Slot) = NSLOTS
  <2>1. 0 \in Int /\ NSLOTS-1 \in Int /\ ~(0 > NSLOTS-1) /\ NSLOTS-1-0+1 = NSLOTS
    BY Constants
  <2>2. /\ IsFiniteSet(0 .. NSLOTS-1)
        /\ Cardinality(0 .. NSLOTS-1) = IF 0 > NSLOTS-1 THEN 0 ELSE NSLOTS-1-0+1
    BY <2>1, FS_Interval
  <2> QED BY <2>1, <2>2 DEF Cache!Slot
<1>3. ASSUME NEW s \in Cache!Slot
      PROVE  c.slot[s].used > 0 /\ c.slot[s].bno \in P
  <2>1. c.slot[s].busy \in Nat /\ c.slot[s].used \in Nat /\ c.slot[s].bno \in Nat
    BY SlotsTyped DEF Sound
  <2>2. c.slot[s].busy # 0
    BY DEF Cache!Idle
  <2>3. c.slot[s].used > 0 /\ L[c.slot[s].bno] > 0
    BY <2>1, <2>2 DEF Lends
  <2> QED BY <1>1, <2>1, <2>3
<1> DEFINE f == [s \in Cache!Slot |-> c.slot[s].bno]
<1>4. f \in [Cache!Slot -> P]
  BY <1>3
<1>5. ~\E x, y \in Cache!Slot : x # y /\ f[x] = f[y]
  BY <1>3 DEF Sound, Distinct
<1>6. Cardinality(P) \in Nat /\ n \in Nat
  BY <1>1, FS_CardinalityType DEF AtMost
<1>7. ~(Cardinality(P) < NSLOTS)
  <2> HIDE DEF f
  <2> QED BY <1>1, <1>2, <1>4, <1>5, FS_PigeonHole
<1> QED BY <1>1, <1>6, <1>7, Constants

(* Lending fails only if the block is lent out as something else.          *)
LEMMA LendGoesOn ==
  ASSUME Sizes, NEW c \in CacheType, NEW s \in Cache!Slot, NEW clr \in BOOLEAN,
         NEW type \in Kind, c.slot[s].busy = 0 \/ c.slot[s].type = type
  PROVE  Cache!Lend(c, s, clr, type).abort = c.abort
<1> DEFINE old == c.slot[s]
           new == [bno |-> old.bno, busy |-> old.busy + 1, used |-> old.used,
                   type |-> type, data |-> IF clr THEN ZeroBlock ELSE old.data]
           lent == [c EXCEPT !.slot[s] = new]
<1>1. new \in SlotType
  <2>1. old.bno \in Nat /\ old.busy \in Nat /\ old.used \in Nat /\ old.data \in Value
    BY SlotsTyped
  <2> QED BY <2>1, Constants DEF SlotType
<1> HIDE DEF new
<1>2. lent \in CacheType /\ lent.abort = c.abort
  BY <1>1 DEF CacheType
<1>3. Cache!Lend(c, s, clr, type) = Cache!Touched(lent, s)
  BY Zenon DEF Cache!Lend, new
<1> HIDE DEF lent
<1> QED BY <1>2, <1>3, TouchedKeeps

(* getblk() of a block that is lent out as nothing else lends it out, and  *)
(* gives up only at the end of the disk or when all slots are lent out.    *)
LEMMA GetBlkLends ==
  ASSUME Sizes, NEW c, Sound(c), c.abort = Cache!Fine, NEW L, NEW T, Lends(c, L, T),
         NEW n, AtMost(L, n), NEW b \in Nat, NEW clr \in BOOLEAN, NEW type \in Kind,
         T[b] = type
  PROVE  LET d == Cache!GetBlk(c, b, clr, type)
         IN  \/ d = [c EXCEPT !.abort = "past end of disk"]
             \/ d = [c EXCEPT !.abort = "cache full"] /\ NSLOTS <= n
             \/ d.abort = Cache!Fine /\ b \in Cache!CachedBlock /\ Lends(d, Plus(L, b), T)
<1> DEFINE d == Cache!GetBlk(c, b, clr, type)
<1>1. c \in CacheType /\ Distinct(c) /\ OnDisk(c)
  BY DEF Sound
<1>2. L \in Borrowed /\ n \in Nat
  BY DEF AtMost
<1>3. CASE b >= NBLOCKS
  BY <1>3 DEF Cache!GetBlk, Cache!Abort
<1>4. ASSUME Sound(d), NEW s \in Cache!Slot, NEW m, LentIn(m, d, s, b, type),
             \A x \in Cache!Slot : x # s => m.slot[x] = c.slot[x],
             \/ m.slot[s] = c.slot[s] /\ c.slot[s].used > 0 /\ c.slot[s].bno = b
             \/ /\ m.slot[s].busy = 0 /\ c.slot[s].busy = 0
                /\ \A x \in Cache!Slot : ~(c.slot[x].used > 0 /\ c.slot[x].bno = b)
      PROVE  Lends(d, Plus(L, b), T)
  <2>1. \A x \in Cache!Slot : /\ c.slot[x].used \in Nat /\ c.slot[x].busy \in Nat
                              /\ c.slot[x].bno \in Nat
                              /\ d.slot[x].used \in Nat /\ d.slot[x].bno \in Nat
    BY <1>1, <1>4, SlotsTyped DEF Sound
  <2>2. ASSUME NEW x \in Cache!Slot, x # s
        PROVE  /\ d.slot[x].used > 0 <=> c.slot[x].used > 0
               /\ d.slot[x].bno = c.slot[x].bno /\ d.slot[x].busy = c.slot[x].busy
               /\ d.slot[x].type = c.slot[x].type
    BY <1>4, <2>2 DEF LentIn
  <2>3. /\ d.slot[s].used > 0 /\ d.slot[s].bno = b
        /\ d.slot[s].busy = m.slot[s].busy + 1 /\ d.slot[s].type = T[b]
    BY <1>4 DEF LentIn
  <2>4. m.slot[s].busy = L[b]
    <3>1. CASE m.slot[s] = c.slot[s] /\ c.slot[s].used > 0 /\ c.slot[s].bno = b
      BY <3>1 DEF Lends
    <3>2. CASE /\ m.slot[s].busy = 0
               /\ \A x \in Cache!Slot : ~(c.slot[x].used > 0 /\ c.slot[x].bno = b)
      <4>1. ~(L[b] > 0)
        BY <3>2 DEF Lends
      <4> QED BY <3>2, <4>1, <1>2 DEF Borrowed
    <3> QED BY <1>4, <3>1, <3>2
  <2>5. ASSUME NEW x \in Cache!Slot
        PROVE  /\ d.slot[x].used > 0 => d.slot[x].busy = Plus(L, b)[d.slot[x].bno]
               /\ d.slot[x].used = 0 => d.slot[x].busy = 0
               /\ d.slot[x].busy > 0 => d.slot[x].type = T[d.slot[x].bno]
    <3>1. CASE x = s
      BY <3>1, <2>1, <2>3, <2>4 DEF Plus
    <3>2. CASE x # s
      <4>1. d.slot[x].used > 0 => d.slot[x].bno # b
        BY <2>3, <3>2, <1>4 DEF Sound, Distinct
      <4>2. /\ c.slot[x].used > 0 => c.slot[x].busy = L[c.slot[x].bno]
            /\ c.slot[x].used = 0 => c.slot[x].busy = 0
            /\ c.slot[x].busy > 0 => c.slot[x].type = T[c.slot[x].bno]
        BY DEF Lends
      <4>3. d.slot[x].used = 0 => c.slot[x].used = 0
        BY <2>1, <2>2, <3>2
      <4> QED BY <2>1, <2>2, <3>2, <4>1, <4>2, <4>3 DEF Plus
    <3> QED BY <3>1, <3>2
  <2>6. ASSUME NEW x \in Nat, Plus(L, b)[x] > 0
        PROVE  \E y \in Cache!Slot : d.slot[y].used > 0 /\ d.slot[y].bno = x
    <3>1. CASE x = b
      BY <3>1, <2>3
    <3>2. CASE x # b
      <4>1. L[x] > 0
        BY <3>2, <2>6 DEF Plus
      <4>2. PICK y \in Cache!Slot : c.slot[y].used > 0 /\ c.slot[y].bno = x
        BY <4>1 DEF Lends
      <4>3. y # s
        <5>1. c.slot[y].busy = L[x]
          BY <4>2 DEF Lends
        <5> QED BY <1>4, <3>2, <4>1, <4>2, <5>1
      <4> QED BY <2>2, <4>2, <4>3
    <3> QED BY <3>1, <3>2
  <2> QED BY <2>5, <2>6 DEF Lends
<1>5. CASE b < NBLOCKS /\ Cache!Holding(c, b) # {}
  <2> DEFINE s == Cache!SlotOf(c, b)
  <2>1. s \in Cache!Slot /\ c.slot[s].bno = b /\ c.slot[s].used > 0
    BY <1>5, SlotOfIsThere
  <2>2. d = Cache!Lend(c, s, clr, type)
    <3>1. ~(b >= NBLOCKS)
      BY <1>5, Constants
    <3> QED BY <3>1, <1>5, Zenon DEF Cache!GetBlk
  <2> HIDE DEF s
  <2>3. \A x \in Cache!Slot : c.slot[x].used > 0 /\ c.slot[x].bno = b => x = s
    BY <1>1, <2>1 DEF Distinct
  <2>4. c.slot[s].busy = 0 \/ c.slot[s].type = type
    <3>1. c.slot[s].busy \in Nat
      BY <1>1, <2>1, SlotsTyped
    <3> QED BY <2>1, <3>1 DEF Lends
  <2>5. d.abort = Cache!Fine
    BY <1>1, <2>1, <2>2, <2>4, LendGoesOn
  <2>6. b \in Cache!CachedBlock
    BY <1>5, Constants DEF Cache!CachedBlock
  <2>7. Sound(d) /\ LentIn(c, d, s, b, type)
    BY <1>1, <2>1, <2>2, <2>3, <2>5, <2>6, LendKeeps
  <2>8. Lends(d, Plus(L, b), T)
    <3> HIDE DEF d
    <3> QED BY <1>4, <2>1, <2>7
  <2> QED BY <2>5, <2>6, <2>8
<1>6. CASE b < NBLOCKS /\ Cache!Holding(c, b) = {} /\ Cache!Idle(c) = {}
  <2>1. d = Cache!Abort(c, "cache full")
    <3>1. ~(b >= NBLOCKS)
      BY <1>6, Constants
    <3> QED BY <3>1, <1>6, Zenon DEF Cache!GetBlk
  <2>2. NSLOTS <= n
    BY <1>6, FullCache
  <2> QED BY <2>1, <2>2 DEF Cache!Abort
<1>7. CASE b < NBLOCKS /\ Cache!Holding(c, b) = {} /\ Cache!Idle(c) # {}
  <2> DEFINE s == Cache!Least(c)
             m == Cache!Load(c, s, b, type)
  <2>1. d = Cache!Lend(m, s, clr, type)
    <3>1. ~(b >= NBLOCKS)
      BY <1>7, Constants
    <3> QED BY <3>1, <1>7, Zenon DEF Cache!GetBlk
  <2>2. s \in Cache!Idle(c)
    BY <1>1, <1>7, LeastIsIdle
  <2>3. s \in Cache!Slot /\ c.slot[s].busy = 0
    BY <2>2 DEF Cache!Idle
  <2> HIDE DEF s
  <2>4. b \in Cache!CachedBlock
    BY <1>7, Constants DEF Cache!CachedBlock
  <2>5. /\ m \in CacheType
        /\ m.abort = c.abort
        /\ Distinct(m)
        /\ OnDisk(m)
        /\ m.slot[s].bno = b /\ m.slot[s].busy = 0
        /\ \A x \in Cache!Slot : x # s => m.slot[x] = c.slot[x]
        /\ \A x \in Cache!Slot : m.slot[x].used > 0 /\ m.slot[x].bno = b => x = s
    BY <2>2, <2>4, <1>7, LoadKeeps
  <2> HIDE DEF m
  <2>6. d.abort = Cache!Fine
    BY <2>1, <2>3, <2>5, LendGoesOn
  <2>7. Sound(d) /\ LentIn(m, d, s, b, type)
    BY <2>1, <2>3, <2>4, <2>5, <2>6, LendKeeps
  <2>8. \A x \in Cache!Slot : ~(c.slot[x].used > 0 /\ c.slot[x].bno = b)
    BY <1>7 DEF Cache!Holding
  <2>9. Lends(d, Plus(L, b), T)
    <3> HIDE DEF d
    <3> QED BY <1>4, <2>3, <2>5, <2>7, <2>8
  <2> QED BY <2>4, <2>6, <2>9
<1>8. b >= NBLOCKS \/ b < NBLOCKS
  BY Constants
<1> HIDE DEF d
<1> QED BY <1>3, <1>5, <1>6, <1>7, <1>8 DEF d

(* A block that is lent out is in a slot, where its contents are found.    *)
LEMMA LentBlock ==
  ASSUME NEW c, Sound(c), NEW L \in Borrowed, NEW T, Lends(c, L, T), NEW b \in Nat, L[b] > 0
  PROVE  /\ Cache!Lent(c, b) /\ b \in Cache!CachedBlock
         /\ Cache!Data(c, b) = Cache!Contents(c)[b]
         /\ Cache!Contents(c)[b] \in Value
         /\ \E s \in Cache!Slot : /\ s = Cache!SlotOf(c, b)
                                  /\ c.slot[s].used > 0 /\ c.slot[s].bno = b
                                  /\ c.slot[s].busy = L[b]
<1>1. c \in CacheType /\ Distinct(c) /\ OnDisk(c)
  BY DEF Sound
<1>2. PICK s \in Cache!Slot : c.slot[s].used > 0 /\ c.slot[s].bno = b
  BY DEF Lends
<1>3. Cache!Holding(c, b) # {} /\ Cache!SlotOf(c, b) = s
  BY <1>1, <1>2, SlotOfIsOnly
<1>4. c.slot[s].busy = L[b] /\ b \in Cache!CachedBlock
  BY <1>1, <1>2 DEF Lends, OnDisk
<1>5. Cache!Lent(c, b)
  BY <1>3, <1>4 DEF Cache!Lent
<1>6. Cache!Contents(c)[b] = c.slot[s].data /\ c.slot[s].data \in Value
  BY <1>1, <1>2, <1>4, ContentsAt, SlotsTyped
<1>7. Cache!Data(c, b) = c.slot[s].data
  BY <1>3, <1>5 DEF Cache!Data
<1> QED BY <1>2, <1>3, <1>4, <1>5, <1>6, <1>7

(* putblk() of a block that is lent out.                                   *)
LEMMA PutBlkLends ==
  ASSUME NEW c, Sound(c), c.abort = Cache!Fine, NEW L \in Borrowed, NEW T, Lends(c, L, T),
         NEW b \in Nat, L[b] > 0
  PROVE  LET d == Cache!PutBlk(c, b)
         IN  /\ d.abort = Cache!Fine
             /\ Sound(d)
             /\ Lends(d, Minus(L, b), T)
             /\ \A x \in Cache!CachedBlock : Cache!Contents(d)[x] = Cache!Contents(c)[x]
<1> DEFINE d == Cache!PutBlk(c, b)
<1>1. c \in CacheType /\ Distinct(c) /\ OnDisk(c)
  BY DEF Sound
<1>2. /\ Cache!Lent(c, b) /\ b \in Cache!CachedBlock
      /\ \E s \in Cache!Slot : /\ s = Cache!SlotOf(c, b)
                               /\ c.slot[s].used > 0 /\ c.slot[s].bno = b
                               /\ c.slot[s].busy = L[b]
  BY LentBlock
<1>3. PICK s \in Cache!Slot : /\ s = Cache!SlotOf(c, b)
                              /\ c.slot[s].used > 0 /\ c.slot[s].bno = b
                              /\ c.slot[s].busy = L[b]
  BY <1>2
<1> DEFINE new == [c.slot[s] EXCEPT !.busy = @ - 1]
<1>4. d = [c EXCEPT !.slot[s] = new]
  BY <1>2, <1>3 DEF Cache!PutBlk
<1>5. /\ d.abort = c.abort
      /\ d.slot[s] = new
      /\ \A x \in Cache!Slot : x # s => d.slot[x] = c.slot[x]
  <2> HIDE DEF d, new
  <2> QED BY <1>1, <1>4 DEF CacheType
<1>6. /\ new.used = c.slot[s].used /\ new.bno = b /\ new.type = c.slot[s].type
      /\ new.busy = L[b] - 1
  BY <1>1, <1>3, SlotsTyped DEF SlotType
<1> HIDE DEF new, d
<1>7. Sound(d) /\ \A x \in Cache!CachedBlock : Cache!Contents(d)[x] = Cache!Contents(c)[x]
  BY <1>2, <1>5, PutBlkIsTransparent DEF d
<1>8. ASSUME NEW x \in Cache!Slot
      PROVE  /\ d.slot[x].used > 0 => d.slot[x].busy = Minus(L, b)[d.slot[x].bno]
             /\ d.slot[x].used = 0 => d.slot[x].busy = 0
             /\ d.slot[x].busy > 0 => d.slot[x].type = T[d.slot[x].bno]
  <2>1. /\ c.slot[x].used > 0 => c.slot[x].busy = L[c.slot[x].bno]
        /\ c.slot[x].used = 0 => c.slot[x].busy = 0
        /\ c.slot[x].busy > 0 => c.slot[x].type = T[c.slot[x].bno]
        /\ c.slot[x].bno \in Nat /\ c.slot[x].used \in Nat /\ c.slot[x].busy \in Nat
    BY <1>1, SlotsTyped DEF Lends
  <2>2. CASE x = s
    BY <2>1, <2>2, <1>3, <1>5, <1>6 DEF Minus
  <2>3. CASE x # s
    <3>1. c.slot[x].used > 0 => c.slot[x].bno # b
      BY <1>1, <1>3, <2>3 DEF Distinct
    <3> QED BY <2>1, <2>3, <3>1, <1>5 DEF Minus
  <2> QED BY <2>2, <2>3
<1>9. ASSUME NEW x \in Nat, Minus(L, b)[x] > 0
      PROVE  \E y \in Cache!Slot : d.slot[y].used > 0 /\ d.slot[y].bno = x
  <2>1. L[x] > 0
    BY <1>9 DEF Minus, Borrowed
  <2>2. PICK y \in Cache!Slot : c.slot[y].used > 0 /\ c.slot[y].bno = x
    BY <2>1 DEF Lends
  <2> QED BY <2>2, <1>3, <1>5, <1>6
<1>10. Lends(d, Minus(L, b), T)
  BY <1>8, <1>9 DEF Lends
<1> QED BY <1>5, <1>7, <1>10 DEF d

(* Writing into a block that is lent out.                                  *)
LEMMA SetDataLends ==
  ASSUME NEW c, Sound(c), c.abort = Cache!Fine, NEW L \in Borrowed, NEW T, Lends(c, L, T),
         NEW b \in Nat, L[b] > 0, NEW data \in Value
  PROVE  LET d == Cache!SetData(c, b, data)
         IN  /\ d.abort = Cache!Fine
             /\ Sound(d)
             /\ Lends(d, L, T)
             /\ \A x \in Cache!CachedBlock :
                  Cache!Contents(d)[x] = IF x = b THEN data ELSE Cache!Contents(c)[x]
<1> DEFINE d == Cache!SetData(c, b, data)
<1>1. c \in CacheType /\ Distinct(c) /\ OnDisk(c)
  BY DEF Sound
<1>2. /\ Cache!Lent(c, b) /\ b \in Cache!CachedBlock
      /\ \E s \in Cache!Slot : /\ s = Cache!SlotOf(c, b)
                               /\ c.slot[s].used > 0 /\ c.slot[s].bno = b
                               /\ c.slot[s].busy = L[b]
  BY LentBlock
<1>3. PICK s \in Cache!Slot : s = Cache!SlotOf(c, b)
  BY <1>2
<1> DEFINE new == [c.slot[s] EXCEPT !.data = data]
<1>4. d = [c EXCEPT !.slot[s] = new]
  BY <1>2, <1>3 DEF Cache!SetData
<1>5. /\ d.abort = c.abort
      /\ d.slot[s] = new
      /\ \A x \in Cache!Slot : x # s => d.slot[x] = c.slot[x]
  <2> HIDE DEF d, new
  <2> QED BY <1>1, <1>4 DEF CacheType
<1>6. /\ new.used = c.slot[s].used /\ new.bno = c.slot[s].bno
      /\ new.type = c.slot[s].type /\ new.busy = c.slot[s].busy
  BY <1>1, <1>3, SlotsTyped DEF SlotType
<1> HIDE DEF new, d
<1>7. /\ Sound(d)
      /\ \A x \in Cache!CachedBlock :
           Cache!Contents(d)[x] = IF x = b THEN data ELSE Cache!Contents(c)[x]
  BY <1>2, <1>5, SetDataWrites DEF d
<1>8. \A x \in Cache!Slot :
        /\ d.slot[x].used = c.slot[x].used /\ d.slot[x].bno = c.slot[x].bno
        /\ d.slot[x].type = c.slot[x].type /\ d.slot[x].busy = c.slot[x].busy
  BY <1>5, <1>6
<1>9. Lends(d, L, T)
  BY <1>8 DEF Lends
<1> QED BY <1>5, <1>7, <1>9 DEF d

(* Only the types of blocks that are lent out matter.                      *)
LEMMA LendsSame ==
  ASSUME NEW c, Sound(c), NEW L \in Borrowed, NEW T, Lends(c, L, T), NEW U,
         \A b \in Nat : L[b] > 0 => U[b] = T[b]
  PROVE  Lends(c, L, U)
<1>1. ASSUME NEW s \in Cache!Slot, c.slot[s].busy > 0
      PROVE  c.slot[s].type = U[c.slot[s].bno]
  <2>1. c.slot[s].used \in Nat /\ c.slot[s].bno \in Nat
    BY SlotsTyped DEF Sound
  <2>2. L[c.slot[s].bno] > 0 /\ c.slot[s].type = T[c.slot[s].bno]
    BY <1>1, <2>1 DEF Lends
  <2> QED BY <2>1, <2>2
<1> QED BY <1>1 DEF Lends

-----------------------------------------------------------------------------
(* Whose block is what: a label for every block.  "map" is the bitmap,     *)
(* "ind" a block of pointers to blocks, "ind2" one of pointers to those;   *)
(* blocks that nobody has got yet are "super", as the first ones are, or   *)
(* "file" if they were fetched and not needed.                             *)
As == {"super", "map", "inodes", "dir", "file", "ind", "ind2"}
Uses == {"dir", "ind", "ind2", "file"}
Label == [own : Nat, as : As]
Mine(i, use) == [own |-> i, as |-> use]
TypeOf(use) == IF use \in {"map", "ind", "ind2"} THEN "bits" ELSE use
Types(Lab) == [b \in Nat |-> TypeOf(Lab[b].as)]

FirstBlk == os_firstinob + ninodeblock

Labelled(Lab, nextb) ==
  /\ Lab \in [Nat -> Label] /\ FirstBlk <= nextb
  /\ \A b \in Nat : b < FirstBlk =>
       Lab[b].as = IF b = OSPFS_FREEMAP_BLK THEN "map"
                   ELSE IF b < os_firstinob THEN "super" ELSE "inodes"
  /\ \A b \in Nat : b >= nextb => Lab[b].as \in {"super", "file"}

Link == [host : Nat, digest : Nat, ino : Nat]
Formatter == [cache : CacheType, nextb : Nat, nextinode : Nat, hardlinks : SUBSET Link]

(* What the blocks and the inodes hold, in the cache or on the disk.       *)
Holds(f, b) == Cache!Contents(f.cache)[b]
Inode(f, i) == Holds(f, InoBlk(i)).ino[i % BLKINODES]

(* Block numbers that are found in inodes and blocks of pointers.          *)
MayPoint(Lab, i, b, use) == b = 0 \/ (b \in Nat /\ Lab[b] = Mine(i, use))
Pointers(Lab, i, oi) ==
  MayPoint(Lab, i, oi.indirect, "ind") /\ MayPoint(Lab, i, oi.indirect2, "ind2")
Words(Lab, i, u) == \A j \in Word : MayPoint(Lab, i, u[j], "ind")

Pointing(f, Lab) ==
  /\ \A i \in Ino : InoBlk(i) \in Cache!CachedBlock => Pointers(Lab, i, Inode(f, i))
  /\ \A b \in Cache!CachedBlock : Lab[b].as = "ind2" => Words(Lab, Lab[b].own, Holds(f, b).u)

(* The k-th block of directory i is found where InLastBlk looks for it.    *)
LeadsIndirect(f, Lab, i, b, j) ==
  /\ b \in Cache!CachedBlock /\ Lab[b] = Mine(i, "ind")
  /\ Holds(f, b).u[j] \in Nat /\ Lab[Holds(f, b).u[j]] = Mine(i, "dir")

LeadsDoubly(f, Lab, i, b, off) ==
  /\ b \in Cache!CachedBlock /\ Lab[b] = Mine(i, "ind2")
  /\ LeadsIndirect(f, Lab, i, Holds(f, b).u[off \div NINDIRECT], off % NINDIRECT)

Leads(f, Lab, i, k) ==
  \/ k < NDIRECT /\ Lab[Inode(f, i).direct[k]] = Mine(i, "dir")
  \/ /\ k >= NDIRECT /\ k < NDIRECT + NINDIRECT
     /\ LeadsIndirect(f, Lab, i, Inode(f, i).indirect, k - NDIRECT)
  \/ /\ k >= NDIRECT + NINDIRECT
     /\ LeadsDoubly(f, Lab, i, Inode(f, i).indirect2, k - NDIRECT - NINDIRECT)

(* The last block of directory i is found.                                 *)
Ended(f, Lab, i) ==
  /\ InoBlk(i) \in Cache!CachedBlock
  /\ Size2NBlocks(Inode(f, i).size) > 0 =>
       Leads(f, Lab, i, Size2NBlocks(Inode(f, i).size) - 1)

(* The formatter goes on, with L lent out, the blocks labelled as Lab says *)
(* and the last blocks of the directories W to be found.                   *)
Good(f, L, Lab, W) ==
  /\ Sound(f.cache)
  /\ L \in Borrowed /\ Lends(f.cache, L, Types(Lab))
  /\ Labelled(Lab, f.nextb)
  /\ \A b \in Nat : L[b] > 0 => b < f.nextb
  /\ f.nextinode <= NINODES
  /\ \A link \in f.hardlinks : link.ino < f.nextinode
  /\ W \subseteq Ino
  /\ Pointing(f, Lab)
  /\ \A w \in W : Ended(f, Lab, w)

(* It does, or it has given up for a good reason, in a directory of depth  *)
(* D.                                                                      *)
Allowed(D) ==
  {Cache!Fine, "past end of disk", "file too large", "not enough inodes"}
    \cup (IF 2 * D + 4 > NSLOTS THEN {"cache full"} ELSE {})

Alive(f) == f.cache.abort = Cache!Fine

Runs(f, L, Lab, W, D) ==
  /\ f \in Formatter /\ f.cache.abort \in Allowed(D)
  /\ Alive(f) => Good(f, L, Lab, W)

(* What a step may not undo, and what one that only looks leaves alone.    *)
After(f, g) ==
  /\ Alive(g) => Alive(f)
  /\ f.nextb <= g.nextb /\ g.nextinode = f.nextinode /\ g.hardlinks = f.hardlinks

Kept(f, g) ==
  /\ \A b \in Cache!CachedBlock : b < f.nextb => Holds(g, b).u = Holds(f, b).u
  /\ \A i \in Ino : InoBlk(i) \in Cache!CachedBlock => Inode(g, i) = Inode(f, i)

-----------------------------------------------------------------------------
(* Where the inodes are.                                                   *)
LEMMA InodePlaces ==
  ASSUME Sizes
  PROVE  /\ os_firstinob = 3 /\ OSPFS_FREEMAP_BLK = 2 /\ ninodeblock \in Nat /\ FirstBlk \in Nat
         /\ \A i \in Ino : /\ InoBlk(i) \in Nat /\ os_firstinob <= InoBlk(i)
                           /\ InoBlk(i) < FirstBlk /\ i % BLKINODES \in 0 .. BLKINODES-1
         /\ \A i, j \in Ino :
              InoBlk(i) = InoBlk(j) /\ i % BLKINODES = j % BLKINODES => i = j
<1>1. os_firstinob = 3 /\ OSPFS_FREEMAP_BLK = 2
  BY DEF os_firstinob, OSPFS_FREEMAP_BLK, FREEMAP_BLK, nbitblock
<1>2. /\ \A x \in Nat : x \div BLKINODES \in Nat /\ x % BLKINODES \in 0 .. BLKINODES-1
      /\ \A x \in Nat : x = (x \div BLKINODES) * BLKINODES + (x % BLKINODES)
  BY Constants
<1>3. ninodeblock \in Nat
  <2>1. NINODES + BLKINODES - 1 \in Nat
    BY Constants
  <2> QED BY <2>1, <1>2 DEF ninodeblock
<1>4. ASSUME NEW i \in Ino PROVE i \div BLKINODES < ninodeblock
  <2> DEFINE q == i \div BLKINODES
             y == NINODES + BLKINODES - 1
  <2>1. i \in Nat /\ i <= NINODES - 1 /\ y \in Nat
    BY Constants DEF Ino
  <2>2. /\ q \in Nat /\ i = q * BLKINODES + (i % BLKINODES) /\ i % BLKINODES \in Nat
        /\ y = ninodeblock * BLKINODES + (y % BLKINODES) /\ y % BLKINODES <= BLKINODES - 1
        /\ y % BLKINODES \in Nat
    BY <1>2, <2>1 DEF ninodeblock
  <2> HIDE DEF q
  <2>3. ASSUME ninodeblock <= q PROVE FALSE
    <3>1. ninodeblock * BLKINODES <= q * BLKINODES
      BY <2>2, <2>3, <1>3, Constants
    <3>2. q * BLKINODES \in Nat /\ ninodeblock * BLKINODES \in Nat
      BY <2>2, <1>3, Constants
    <3> QED BY <2>1, <2>2, <3>1, <3>2, Constants
  <2> QED BY <2>2, <2>3, <1>3 DEF q
<1>5. \A i \in Ino : i \in Nat /\ i \div BLKINODES \in Nat /\ i % BLKINODES \in 0 .. BLKINODES-1
  BY <1>2, Constants
<1>6. \A i, j \in Ino : InoBlk(i) = InoBlk(j) /\ i % BLKINODES = j % BLKINODES => i = j
  <2> TAKE i, j \in Ino
  <2>1. i \in Nat /\ j \in Nat /\ i \div BLKINODES \in Nat /\ j \div BLKINODES \in Nat
    BY <1>5
  <2>2. InoBlk(i) = InoBlk(j) => i \div BLKINODES = j \div BLKINODES
    BY <2>1, <1>1 DEF InoBlk
  <2>3. /\ i = (i \div BLKINODES) * BLKINODES + (i % BLKINODES)
        /\ j = (j \div BLKINODES) * BLKINODES + (j % BLKINODES)
    BY <2>1, <1>2
  <2> QED BY <2>2, <2>3
<1> QED BY <1>1, <1>3, <1>4, <1>5, <1>6 DEF InoBlk, FirstBlk

(* Whole numbers of words and blocks.                                      *)
LEMMA Division ==
  ASSUME Sizes
  PROVE  /\ \A x \in Nat : x \div NINDIRECT \in Nat /\ x % NINDIRECT \in Word
         /\ \A x \in Nat : x = (x \div NINDIRECT) * NINDIRECT + (x % NINDIRECT)
         /\ \A x \in Nat : x < NINDIRECT * NINDIRECT => x \div NINDIRECT \in Word
         /\ \A x \in Nat : Size2NBlocks(x) \in Nat
         /\ \A x \in Nat : Size2NBlocks(x + NINDIRECT) = Size2NBlocks(x) + 1
<1>1. NINDIRECT \in Nat /\ NINDIRECT > 1
  BY Constants
<1>2. /\ \A x \in Nat : x \div NINDIRECT \in Nat /\ x % NINDIRECT \in Word
      /\ \A x \in Nat : x = (x \div NINDIRECT) * NINDIRECT + (x % NINDIRECT)
  BY <1>1 DEF Word
<1>3. ASSUME NEW x \in Nat, x < NINDIRECT * NINDIRECT PROVE x \div NINDIRECT \in Word
  <2> DEFINE q == x \div NINDIRECT
  <2>1. q \in Nat /\ x = q * NINDIRECT + (x % NINDIRECT) /\ x % NINDIRECT \in Nat
    BY <1>1, <1>2 DEF Word
  <2> HIDE DEF q
  <2>2. ASSUME NINDIRECT <= q PROVE FALSE
    <3>1. NINDIRECT * NINDIRECT <= q * NINDIRECT /\ q * NINDIRECT \in Nat
          /\ NINDIRECT * NINDIRECT \in Nat
      BY <1>1, <2>1, <2>2
    <3> QED BY <1>3, <2>1, <3>1
  <2> QED BY <1>1, <2>1, <2>2 DEF Word, q
<1>4. ASSUME NEW x \in Nat
      PROVE  Size2NBlocks(x) \in Nat /\ Size2NBlocks(x + NINDIRECT) = Size2NBlocks(x) + 1
  <2> DEFINE y == x + NINDIRECT - 1
             q == y \div NINDIRECT
             r == (y + NINDIRECT) \div NINDIRECT
  <2>1. y \in Nat /\ y + NINDIRECT \in Nat /\ x + NINDIRECT + NINDIRECT - 1 = y + NINDIRECT
    BY <1>1
  <2>2. /\ q \in Nat /\ y = q * NINDIRECT + (y % NINDIRECT) /\ y % NINDIRECT \in Word
        /\ r \in Nat /\ y + NINDIRECT = r * NINDIRECT + ((y + NINDIRECT) % NINDIRECT)
        /\ (y + NINDIRECT) % NINDIRECT \in Word
    BY <1>2, <2>1
  <2>3. Size2NBlocks(x) = q /\ Size2NBlocks(x + NINDIRECT) = r
    BY <2>1 DEF Size2NBlocks
  <2> HIDE DEF y, q, r
  <2>4. \A a, b \in Nat : a + 1 <= b => a * NINDIRECT + NINDIRECT <= b * NINDIRECT
    BY <1>1
  <2>5. /\ q * NINDIRECT \in Nat /\ r * NINDIRECT \in Nat
        /\ (q + 1) * NINDIRECT = q * NINDIRECT + NINDIRECT
    BY <1>1, <2>2
  <2>6. ~(q + 2 <= r)
    <3>1. q + 1 \in Nat /\ (q + 2 <= r => q + 1 + 1 <= r)
      BY <2>2
    <3>2. q + 2 <= r => (q + 1) * NINDIRECT + NINDIRECT <= r * NINDIRECT
      BY <2>2, <2>4, <3>1
    <3> QED BY <1>1, <2>1, <2>2, <2>5, <3>2 DEF Word
  <2>7. ~(r + 1 <= q + 1)
    <3>1. r + 1 <= q + 1 => r * NINDIRECT + NINDIRECT <= (q + 1) * NINDIRECT
      BY <2>2, <2>4
    <3> QED BY <1>1, <2>1, <2>2, <2>5, <3>1 DEF Word
  <2> QED BY <2>2, <2>3, <2>6, <2>7
<1> QED BY <1>2, <1>3, <1>4

-----------------------------------------------------------------------------
(* What becomes of all this in a step of the formatter.                    *)

(* Labels are kept, and new blocks get new ones.                           *)
Relabels(Lab, new, nextb) == \A b \in Nat : b < nextb => new[b] = Lab[b]

(* Inode i has the same blocks and the same size.                          *)
SamePlaces(f, g, i) ==
  /\ Inode(g, i).size = Inode(f, i).size /\ Inode(g, i).direct = Inode(f, i).direct
  /\ Inode(g, i).indirect = Inode(f, i).indirect
  /\ Inode(g, i).indirect2 = Inode(f, i).indirect2

LEMMA HeldTyped ==
  ASSUME Sizes, NEW c, Sound(c)
  PROVE  \A b \in Cache!CachedBlock : Cache!Contents(c)[b] \in Value
<1> TAKE b \in Cache!CachedBlock
<1>1. c \in CacheType /\ Distinct(c)
  BY DEF Sound
<1>2. CASE \E s \in Cache!Slot : c.slot[s].used > 0 /\ c.slot[s].bno = b
  BY <1>1, <1>2, ContentsAt, SlotsTyped
<1>3. CASE \A s \in Cache!Slot : ~(c.slot[s].used > 0 /\ c.slot[s].bno = b)
  BY <1>1, <1>3, ContentsAt DEF CacheType
<1> QED BY <1>2, <1>3

(* What an inode's block holds is an inode.                                *)
LEMMA InodeTyped ==
  ASSUME Sizes, NEW f, Sound(f.cache), NEW i \in Ino, InoBlk(i) \in Cache!CachedBlock
  PROVE  Inode(f, i) \in InodeType
<1>1. Holds(f, InoBlk(i)) \in Value
  BY HeldTyped DEF Holds
<1>2. i % BLKINODES \in 0 .. BLKINODES-1
  BY InodePlaces
<1> HIDE DEF Holds
<1> QED BY <1>1, <1>2 DEF Inode, Value

(* Only blocks that somebody has got are pointed to.                       *)
LEMMA OwnedBefore ==
  ASSUME Sizes, NEW Lab, NEW nextb \in Nat, Labelled(Lab, nextb), NEW b \in Nat, NEW i, NEW use,
         use \in {"dir", "ind", "ind2"}, Lab[b] = Mine(i, use)
  PROVE  b < nextb /\ b >= FirstBlk /\ b # 0
<1>1. Lab[b].own = i /\ Lab[b].as = use
  BY DEF Mine
<1>2. FirstBlk \in Nat /\ FirstBlk > 0
  BY InodePlaces, Constants
<1>3. ~(b >= nextb)
  BY <1>1 DEF Labelled
<1>4. ~(b < FirstBlk)
  <2>1. b < FirstBlk => Lab[b].as = "map" \/ Lab[b].as = "super" \/ Lab[b].as = "inodes"
    BY DEF Labelled
  <2> QED BY <1>1, <2>1
<1> QED BY <1>1, <1>2, <1>3, <1>4

(* Labels of new blocks leave the pointers to old ones right.              *)
LEMMA PointersKept ==
  ASSUME Sizes, NEW Lab, NEW new, NEW nextb \in Nat, Labelled(Lab, nextb),
         Relabels(Lab, new, nextb), NEW i
  PROVE  /\ \A b, use : use \in {"ind", "ind2"} /\ MayPoint(Lab, i, b, use)
                         => MayPoint(new, i, b, use)
         /\ \A oi : Pointers(Lab, i, oi) => Pointers(new, i, oi)
         /\ \A u : Words(Lab, i, u) => Words(new, i, u)
<1>1. ASSUME NEW b, NEW use, use \in {"ind", "ind2"}, MayPoint(Lab, i, b, use)
      PROVE  MayPoint(new, i, b, use)
  <2>1. CASE b = 0
    BY <2>1 DEF MayPoint
  <2>2. CASE b # 0
    <3>1. b \in Nat /\ Lab[b] = Mine(i, use)
      BY <2>2, <1>1 DEF MayPoint
    <3>2. use \in {"dir", "ind", "ind2"}
      BY <1>1
    <3>3. b < nextb
      BY <3>1, <3>2, OwnedBefore
    <3> QED BY <3>1, <3>3 DEF Relabels, MayPoint
  <2> QED BY <2>1, <2>2
<1> QED BY <1>1 DEF Pointers, Words

(* A directory whose blocks nobody has touched still ends where it did.    *)
LEMMA LeadsKept ==
  ASSUME Sizes, NEW f, NEW g, NEW Lab, NEW new, NEW nextb \in Nat, Labelled(Lab, nextb),
         Relabels(Lab, new, nextb), NEW i \in Ino, NEW k \in Nat,
         Inode(f, i) \in InodeType, Inode(g, i).direct = Inode(f, i).direct,
         Inode(g, i).indirect = Inode(f, i).indirect,
         Inode(g, i).indirect2 = Inode(f, i).indirect2,
         \A b \in Cache!CachedBlock :
           b < nextb /\ Lab[b].own = i /\ Lab[b].as \in {"ind", "ind2"}
             => Holds(g, b).u = Holds(f, b).u,
         Leads(f, Lab, i, k)
  PROVE  Leads(g, new, i, k)
<1> DEFINE oi == Inode(f, i)
           oj == Inode(g, i)
<1>1. /\ oj.direct = oi.direct
      /\ oj.indirect = oi.indirect /\ oj.indirect2 = oi.indirect2
  OBVIOUS
<1>2. Cache!CachedBlock \subseteq Nat
  BY Constants DEF Cache!CachedBlock
<1>3. oi \in InodeType
  OBVIOUS
<1> HIDE DEF oi, oj
<1>31. /\ oi.indirect \in Nat /\ oi.indirect2 \in Nat
       /\ k < NDIRECT => oi.direct[k] \in Nat
  <2>1. k < NDIRECT => k \in 0 .. NDIRECT-1
    BY Constants
  <2> QED BY <1>3, <2>1 DEF InodeType
<1>4. ASSUME NEW b \in Nat, NEW use, use \in {"dir", "ind", "ind2"}, Lab[b] = Mine(i, use)
      PROVE  /\ new[b] = Mine(i, use)
             /\ b \in Cache!CachedBlock /\ use # "dir" => Holds(g, b).u = Holds(f, b).u
  <2>1. b < nextb /\ Lab[b].own = i /\ Lab[b].as = use
    <3>1. b < nextb
      BY <1>4, OwnedBefore
    <3> QED BY <3>1, <1>4 DEF Mine
  <2> QED BY <2>1, <1>4 DEF Relabels
<1>5. ASSUME NEW b, NEW j, LeadsIndirect(f, Lab, i, b, j)
      PROVE  LeadsIndirect(g, new, i, b, j)
  <2>1. /\ b \in Cache!CachedBlock /\ b \in Nat /\ Lab[b] = Mine(i, "ind")
        /\ Holds(f, b).u[j] \in Nat /\ Lab[Holds(f, b).u[j]] = Mine(i, "dir")
    BY <1>2, <1>5 DEF LeadsIndirect
  <2>2. new[b] = Mine(i, "ind") /\ Holds(g, b).u = Holds(f, b).u
    BY <2>1, <1>4
  <2>3. new[Holds(f, b).u[j]] = Mine(i, "dir")
    BY <2>1, <1>4
  <2> QED BY <2>1, <2>2, <2>3 DEF LeadsIndirect
<1>6. CASE k < NDIRECT /\ Lab[oi.direct[k]] = Mine(i, "dir")
  BY <1>1, <1>31, <1>4, <1>6 DEF Leads, oj
<1>7. CASE /\ k >= NDIRECT /\ k < NDIRECT + NINDIRECT
           /\ LeadsIndirect(f, Lab, i, oi.indirect, k - NDIRECT)
  BY <1>1, <1>5, <1>7 DEF Leads, oj
<1>8. CASE k >= NDIRECT + NINDIRECT /\ LeadsDoubly(f, Lab, i, oi.indirect2, k - NDIRECT - NINDIRECT)
  <2> DEFINE off == k - NDIRECT - NINDIRECT
             b == oi.indirect2
  <2>1. /\ b \in Cache!CachedBlock /\ b \in Nat /\ Lab[b] = Mine(i, "ind2")
        /\ LeadsIndirect(f, Lab, i, Holds(f, b).u[off \div NINDIRECT], off % NINDIRECT)
    BY <1>8, <1>31 DEF LeadsDoubly
  <2>2. new[b] = Mine(i, "ind2") /\ Holds(g, b).u = Holds(f, b).u
    BY <2>1, <1>4
  <2>3. LeadsDoubly(g, new, i, b, off)
    BY <2>1, <2>2, <1>5 DEF LeadsDoubly
  <2> QED BY <1>1, <1>8, <2>3 DEF Leads, oj
<1>9. Leads(f, Lab, i, k)
  OBVIOUS
<1> QED BY <1>6, <1>7, <1>8, <1>9 DEF Leads, oi

(* What must be seen to for the formatter to go on well.                   *)
LEMMA GoesOn ==
  ASSUME Sizes, NEW f \in Formatter, NEW L, NEW Lab, NEW W, Good(f, L, Lab, W),
         NEW g \in Formatter, NEW M \in Borrowed, NEW new, NEW X, X \subseteq W,
         Sound(g.cache), Lends(g.cache, M, Types(new)), Labelled(new, g.nextb),
         Relabels(Lab, new, f.nextb), f.nextb <= g.nextb,
         \A b \in Nat : M[b] > 0 => b < g.nextb,
         g.nextinode = f.nextinode, g.hardlinks = f.hardlinks,
         \A i \in Ino : InoBlk(i) \in Cache!CachedBlock =>
           SamePlaces(f, g, i) \/ (i \notin X /\ Pointers(new, i, Inode(g, i))),
         \A b \in Cache!CachedBlock : b < f.nextb /\ Lab[b].as = "ind2" =>
           \/ Holds(g, b).u = Holds(f, b).u
           \/ Lab[b].own \notin X /\ Words(new, Lab[b].own, Holds(g, b).u),
         \A b \in Cache!CachedBlock : b < f.nextb /\ Lab[b].as = "ind" =>
           Holds(g, b).u = Holds(f, b).u \/ Lab[b].own \notin X,
         \A b \in Cache!CachedBlock : b >= f.nextb /\ new[b].as = "ind2" =>
           Words(new, new[b].own, Holds(g, b).u)
  PROVE  Good(g, M, new, X)
<1>1. f.nextb \in Nat /\ g.nextb \in Nat
  BY DEF Formatter
<1>2. /\ Sound(f.cache) /\ Labelled(Lab, f.nextb) /\ Pointing(f, Lab)
      /\ W \subseteq Ino /\ \A w \in W : Ended(f, Lab, w)
  BY DEF Good
<1>3. Cache!CachedBlock \subseteq Nat
  BY Constants DEF Cache!CachedBlock
<1>4. ASSUME NEW i \in Ino, InoBlk(i) \in Cache!CachedBlock
      PROVE  Pointers(new, i, Inode(g, i))
  <2>1. Pointers(new, i, Inode(f, i))
    BY <1>1, <1>2, <1>4, PointersKept DEF Pointing
  <2> QED BY <2>1, <1>4 DEF SamePlaces, Pointers
<1>5. ASSUME NEW b \in Cache!CachedBlock, new[b].as = "ind2"
      PROVE  Words(new, new[b].own, Holds(g, b).u)
  <2>1. CASE b >= f.nextb
    BY <1>5, <2>1
  <2>2. CASE b < f.nextb
    <3>1. new[b] = Lab[b]
      BY <2>2, <1>3 DEF Relabels
    <3>2. Words(Lab, Lab[b].own, Holds(f, b).u)
      BY <1>2, <1>5, <3>1 DEF Pointing
    <3>3. Words(new, Lab[b].own, Holds(f, b).u)
      BY <3>2, <1>1, <1>2, PointersKept
    <3> QED BY <1>5, <2>2, <3>1, <3>3
  <2> QED BY <2>1, <2>2, <1>1, <1>3
<1>6. ASSUME NEW w \in X
      PROVE  Ended(g, new, w)
  <2>1. w \in Ino /\ InoBlk(w) \in Cache!CachedBlock /\ Ended(f, Lab, w)
    BY <1>2 DEF Ended
  <2>2. SamePlaces(f, g, w) /\ Inode(f, w) \in InodeType
    BY <1>2, <1>6, <2>1, InodeTyped
  <2> DEFINE n == Size2NBlocks(Inode(f, w).size)
  <2>3. n \in Nat /\ n = Size2NBlocks(Inode(g, w).size)
    BY <2>2, Division DEF SamePlaces, InodeType
  <2>4. ASSUME NEW b \in Cache!CachedBlock, b < f.nextb, Lab[b].own = w,
               Lab[b].as \in {"ind", "ind2"}
        PROVE  Holds(g, b).u = Holds(f, b).u
    BY <2>4
  <2>5. n > 0 => Leads(f, Lab, w, n - 1)
    BY <2>1 DEF Ended
  <2> HIDE DEF n
  <2>6. n > 0 => Leads(g, new, w, n - 1)
    <3> SUFFICES ASSUME n > 0 PROVE Leads(g, new, w, n - 1)
      OBVIOUS
    <3>1. n - 1 \in Nat
      BY <2>3
    <3>2. /\ Inode(g, w).direct = Inode(f, w).direct
          /\ Inode(g, w).indirect = Inode(f, w).indirect
          /\ Inode(g, w).indirect2 = Inode(f, w).indirect2
      BY <2>2 DEF SamePlaces
    <3> QED BY <1>1, <1>2, <2>1, <2>2, <2>4, <2>5, <3>1, <3>2, LeadsKept
  <2> QED BY <2>1, <2>3, <2>6 DEF Ended
<1> QED BY <1>2, <1>4, <1>5, <1>6 DEF Good, Pointing

-----------------------------------------------------------------------------
(* The single calls of the formatter.  After it has given up, none of them *)
(* does anything.                                                          *)
LEMMA Unmoved ==
  ASSUME NEW f \in Formatter, ~Alive(f)
  PROVE  /\ \A b, type : \A clr \in BOOLEAN : Get(f, b, clr, type) = f
         /\ \A b : Put(f, b) = f
         /\ \A b, data : SetData(f, b, data) = f
         /\ \A reason : Dies(f, reason) = f
<1>1. [f EXCEPT !.cache = f.cache] = f
  BY DEF Formatter
<1>2. f.cache.abort # Cache!Fine
  BY DEF Alive
<1>3. ASSUME NEW b, NEW type, NEW clr \in BOOLEAN PROVE Get(f, b, clr, type) = f
  <2>1. Cache!GetBlk(f.cache, b, clr, type) = f.cache
    BY <1>2, Zenon DEF Cache!GetBlk
  <2> QED BY <1>1, <2>1 DEF Get
<1>4. ASSUME NEW b PROVE Put(f, b) = f
  <2>1. Cache!PutBlk(f.cache, b) = f.cache
    BY <1>2, Zenon DEF Cache!PutBlk
  <2> QED BY <1>1, <2>1 DEF Put
<1>5. ASSUME NEW b, NEW data PROVE SetData(f, b, data) = f
  <2>1. Cache!SetData(f.cache, b, data) = f.cache
    BY <1>2, Zenon DEF Cache!SetData
  <2> QED BY <1>1, <2>1 DEF SetData
<1>6. ASSUME NEW reason PROVE Dies(f, reason) = f
  <2>1. Cache!Abort(f.cache, reason) = f.cache
    BY <1>2, Zenon DEF Cache!Abort
  <2> QED BY <1>1, <2>1 DEF Dies
<1> QED BY <1>3, <1>4, <1>5, <1>6

LEMMA WithCache ==
  ASSUME NEW f \in Formatter, NEW c \in CacheType
  PROVE  LET g == [f EXCEPT !.cache = c]
         IN  /\ g \in Formatter /\ g.cache = c
             /\ g.nextb = f.nextb /\ g.nextinode = f.nextinode /\ g.hardlinks = f.hardlinks
BY DEF Formatter

(* The formatter with a cache that has given up.                           *)
LEMMA GivesUp ==
  ASSUME NEW f \in Formatter, Alive(f), NEW c \in CacheType, c.abort # Cache!Fine
  PROVE  LET g == [f EXCEPT !.cache = c]
         IN  /\ g \in Formatter /\ g.cache = c /\ ~Alive(g) /\ After(f, g)
<1> DEFINE g == [f EXCEPT !.cache = c]
<1>1. f.nextb \in Nat
  BY DEF Formatter
<1>2. /\ g \in Formatter /\ g.cache = c
      /\ g.nextb = f.nextb /\ g.nextinode = f.nextinode /\ g.hardlinks = f.hardlinks
  BY WithCache
<1> HIDE DEF g
<1>3. ~Alive(g) /\ After(f, g)
  BY <1>1, <1>2 DEF After, Alive
<1> QED BY <1>2, <1>3 DEF g

(* Of a formatter that has given up nothing more is asked.                 *)
LEMMA StillDead ==
  ASSUME NEW f, NEW L, NEW Lab, NEW W, NEW D, Runs(f, L, Lab, W, D), ~Alive(f)
  PROVE  After(f, f) /\ \A M, new, X : Runs(f, M, new, X, D)
<1>1. f.nextb \in Nat
  BY DEF Runs, Formatter
<1> QED BY <1>1 DEF Runs, After

(* Whatever the depth, some ways of giving up are allowed.                 *)
LEMMA AllowedReasons ==
  ASSUME NEW D
  PROVE  Allowed(D) \subseteq Reason /\ Cache!Fine \in Allowed(D)
BY DEF Allowed, Reason

(* The contents stay as they are.                                          *)
LEMMA Looked ==
  ASSUME Sizes, NEW f \in Formatter, NEW L, NEW Lab, NEW W, Good(f, L, Lab, W),
         NEW g \in Formatter, NEW M \in Borrowed,
         Sound(g.cache), Lends(g.cache, M, Types(Lab)),
         g.nextb = f.nextb, g.nextinode = f.nextinode, g.hardlinks = f.hardlinks,
         \A b \in Nat : M[b] > 0 => b < f.nextb,
         \A b \in Cache!CachedBlock : Holds(g, b) = Holds(f, b)
  PROVE  Good(g, M, Lab, W) /\ Kept(f, g)
<1>1. \A i \in Ino : InoBlk(i) \in Cache!CachedBlock => SamePlaces(f, g, i)
  BY DEF SamePlaces, Inode
<1>2. Labelled(Lab, g.nextb) /\ Relabels(Lab, Lab, f.nextb) /\ f.nextb \in Nat
  BY DEF Good, Relabels, Formatter
<1>3. \A b \in Cache!CachedBlock : b >= f.nextb => Lab[b].as # "ind2"
  BY Constants DEF Good, Labelled, Cache!CachedBlock
<1>4. Good(g, M, Lab, W)
  BY <1>1, <1>2, <1>3, GoesOn
<1>5. Kept(f, g)
  BY DEF Kept, Inode
<1> QED BY <1>4, <1>5

(* getblk() of a block that somebody has got already.                      *)
Look(f, b, type) == Get(f, b, FALSE, type)

LEMMA GetRuns ==
  ASSUME Sizes, NEW D \in Nat, NEW f, NEW L, NEW Lab, NEW W, Runs(f, L, Lab, W, D),
         NEW b, NEW type \in Kind, NEW n,
         Alive(f) => /\ b \in Nat /\ b < f.nextb /\ TypeOf(Lab[b].as) = type
                     /\ AtMost(L, n) /\ n <= 2 * D + 3
  PROVE  LET g == Look(f, b, type)
         IN  /\ Runs(g, Plus(L, b), Lab, W, D)
             /\ After(f, g)
             /\ Alive(g) => Kept(f, g) /\ b \in Cache!CachedBlock /\ Plus(L, b) \in Borrowed
                              /\ g.nextb = f.nextb
<1> DEFINE g == Look(f, b, type)
<1>1. f \in Formatter /\ f.nextb \in Nat /\ f.cache.abort \in Allowed(D)
  BY DEF Runs, Formatter
<1>2. CASE ~Alive(f)
  <2>1. g = f
    BY <1>1, <1>2, FALSE \in BOOLEAN, Unmoved DEF Look
  <2> HIDE DEF g
  <2> QED BY <1>2, <2>1, StillDead DEF g
<1>3. CASE Alive(f)
  <2> DEFINE c == f.cache
             d == Cache!GetBlk(c, b, FALSE, type)
  <2>1. /\ b \in Nat /\ b < f.nextb /\ TypeOf(Lab[b].as) = type
        /\ AtMost(L, n) /\ n <= 2 * D + 3
    BY <1>3
  <2>2. /\ Good(f, L, Lab, W) /\ Sound(c) /\ c.abort = Cache!Fine /\ L \in Borrowed
        /\ Lends(c, L, Types(Lab))
    BY <1>3 DEF Runs, Good, Alive
  <2>3. Types(Lab)[b] = type
    BY <2>1 DEF Types
  <2>4. \/ d = [c EXCEPT !.abort = "past end of disk"]
        \/ d = [c EXCEPT !.abort = "cache full"] /\ NSLOTS <= n
        \/ d.abort = Cache!Fine /\ b \in Cache!CachedBlock /\ Lends(d, Plus(L, b), Types(Lab))
    BY <2>1, <2>2, <2>3, GetBlkLends
  <2>5. g = [f EXCEPT !.cache = d]
    BY DEF Get, Look
  <2>6. CASE d = [c EXCEPT !.abort = "past end of disk"]
    <3>1. "past end of disk" \in Allowed(D) \cap Reason /\ "past end of disk" # Cache!Fine
      BY DEF Allowed, Reason, Cache!Fine
    <3>4. d \in CacheType /\ d.abort = "past end of disk"
      BY <1>1, <2>6, <3>1 DEF Formatter, CacheType
    <3> HIDE DEF d, g
    <3>2. g \in Formatter /\ g.cache.abort = "past end of disk" /\ ~Alive(g) /\ After(f, g)
      BY <1>1, <1>3, <2>5, <3>1, <3>4, GivesUp
    <3> QED BY <3>1, <3>2 DEF Runs, g
  <2>7. CASE d = [c EXCEPT !.abort = "cache full"] /\ NSLOTS <= n
    <3>0. n \in Nat
      BY <2>1 DEF AtMost
    <3>1. 2 * D + 4 > NSLOTS
      <4>1. n <= 2 * D + 3 /\ NSLOTS <= n
        BY <2>1, <2>7
      <4>2. NSLOTS \in Nat
        BY Constants
      <4> QED BY <3>0, <4>1, <4>2
    <3>2. "cache full" \in Allowed(D) \cap Reason /\ "cache full" # Cache!Fine
      BY <3>1 DEF Allowed, Reason, Cache!Fine
    <3>4. d \in CacheType /\ d.abort = "cache full"
      BY <1>1, <2>7, <3>2 DEF Formatter, CacheType
    <3> HIDE DEF d, g
    <3>3. g \in Formatter /\ g.cache.abort = "cache full" /\ ~Alive(g) /\ After(f, g)
      BY <1>1, <1>3, <2>5, <3>2, <3>4, GivesUp
    <3> QED BY <3>2, <3>3 DEF Runs, g
  <2>8. CASE /\ d.abort = Cache!Fine /\ b \in Cache!CachedBlock
             /\ Lends(d, Plus(L, b), Types(Lab))
    <3>1. /\ Sound(d)
          /\ \A x \in Cache!CachedBlock : Cache!Contents(d)[x] = Cache!Contents(c)[x]
      <4>1. PICK clr \in BOOLEAN : clr = FALSE
        OBVIOUS
      <4>2. d = Cache!GetBlk(c, b, clr, type)
        BY <4>1
      <4> HIDE DEF d
      <4> QED BY <2>2, <2>8, <4>1, <4>2, GetBlkIsTransparent
    <3> HIDE DEF d, g
    <3>2. /\ g \in Formatter /\ g.cache = d /\ g.nextb = f.nextb
          /\ g.nextinode = f.nextinode /\ g.hardlinks = f.hardlinks
      BY <1>1, <2>5, <3>1, WithCache DEF Sound
    <3>3. \A x \in Cache!CachedBlock : Holds(g, x) = Holds(f, x)
      BY <3>1, <3>2 DEF Holds
    <3>4. Plus(L, b) \in Borrowed
      BY <2>2 DEF Plus, Borrowed
    <3>5. \A x \in Nat : Plus(L, b)[x] > 0 => x < g.nextb
      BY <2>1, <2>2, <3>2 DEF Good, Plus
    <3>6. Good(g, Plus(L, b), Lab, W) /\ Kept(f, g)
      BY <1>1, <2>2, <2>8, <3>1, <3>2, <3>3, <3>4, <3>5, Looked
    <3>8. Alive(g) /\ After(f, g)
      BY <1>1, <1>3, <2>8, <3>2 DEF Alive, After
    <3>9. Runs(g, Plus(L, b), Lab, W, D)
      BY <3>2, <3>6, <2>8, AllowedReasons DEF Runs
    <3> QED BY <2>8, <3>2, <3>4, <3>6, <3>8, <3>9 DEF g
  <2> QED BY <2>4, <2>6, <2>7, <2>8
<1> QED BY <1>2, <1>3

(* putblk() of a block that is lent out.                                   *)
LEMMA PutRuns ==
  ASSUME Sizes, NEW D \in Nat, NEW f, NEW L, NEW Lab, NEW W, Runs(f, L, Lab, W, D),
         NEW b, Alive(f) => b \in Nat /\ L[b] > 0
  PROVE  LET g == Put(f, b)
         IN  /\ Runs(g, Minus(L, b), Lab, W, D)
             /\ After(f, g)
             /\ Alive(g) => Kept(f, g) /\ Minus(L, b) \in Borrowed /\ g.nextb = f.nextb
<1> DEFINE g == Put(f, b)
<1>1. f \in Formatter /\ f.nextb \in Nat /\ f.cache.abort \in Allowed(D)
  BY DEF Runs, Formatter
<1>2. CASE ~Alive(f)
  <2>1. g = f
    BY <1>1, <1>2, Unmoved
  <2> HIDE DEF g
  <2> QED BY <1>2, <2>1, StillDead DEF g
<1>3. CASE Alive(f)
  <2> DEFINE c == f.cache
             d == Cache!PutBlk(c, b)
  <2>1. b \in Nat /\ L[b] > 0
    BY <1>3
  <2>2. /\ Good(f, L, Lab, W) /\ Sound(c) /\ c.abort = Cache!Fine /\ L \in Borrowed
        /\ Lends(c, L, Types(Lab))
    BY <1>3 DEF Runs, Good, Alive
  <2>3. /\ d.abort = Cache!Fine /\ Sound(d) /\ Lends(d, Minus(L, b), Types(Lab))
        /\ \A x \in Cache!CachedBlock : Cache!Contents(d)[x] = Cache!Contents(c)[x]
    BY <2>1, <2>2, PutBlkLends
  <2>4. g = [f EXCEPT !.cache = d]
    BY DEF Put
  <2> HIDE DEF d, g
  <2>5. /\ g \in Formatter /\ g.cache = d /\ g.nextb = f.nextb
        /\ g.nextinode = f.nextinode /\ g.hardlinks = f.hardlinks
    BY <1>1, <2>3, <2>4, WithCache DEF Sound
  <2>6. \A x \in Cache!CachedBlock : Holds(g, x) = Holds(f, x)
    BY <2>3, <2>5 DEF Holds
  <2>7. Minus(L, b) \in Borrowed
    BY <2>1, <2>2 DEF Minus, Borrowed
  <2>8. \A x \in Nat : Minus(L, b)[x] > 0 => x < f.nextb
    BY <2>1, <2>2 DEF Good, Minus, Borrowed
  <2>9. Good(g, Minus(L, b), Lab, W) /\ Kept(f, g)
    BY <1>1, <2>2, <2>3, <2>5, <2>6, <2>7, <2>8, Looked
  <2>10. Alive(g) /\ After(f, g)
    BY <1>1, <1>3, <2>3, <2>5 DEF Alive, After
  <2>11. Runs(g, Minus(L, b), Lab, W, D)
    BY <2>3, <2>5, <2>9, AllowedReasons DEF Runs
  <2> QED BY <2>5, <2>7, <2>9, <2>10, <2>11 DEF g
<1> QED BY <1>2, <1>3

(* What is borrowed and given back.                                        *)
LEMMA Returned ==
  ASSUME NEW L \in Borrowed, NEW a \in Nat
  PROVE  /\ Plus(L, a) \in Borrowed /\ Plus(L, a)[a] > 0 /\ Minus(Plus(L, a), a) = L
         /\ \A b \in Nat : L[b] > 0 => Plus(L, a)[b] > 0
         /\ \A b \in Nat : Minus(Plus(Plus(L, b), a), b) = Plus(L, a)
<1>1. Plus(L, a) \in Borrowed
  BY DEF Plus, Borrowed
<1>2. Minus(Plus(L, a), a) = L
  BY DEF Plus, Minus, Borrowed
<1>3. ASSUME NEW b \in Nat PROVE Minus(Plus(Plus(L, b), a), b) = Plus(L, a)
  BY DEF Plus, Minus, Borrowed
<1>4. ASSUME NEW b \in Nat, L[b] > 0 PROVE Plus(L, a)[b] > 0
  BY <1>4 DEF Plus, Borrowed
<1>5. Plus(L, a)[a] > 0
  BY DEF Plus, Borrowed
<1> QED BY <1>1, <1>2, <1>3, <1>4, <1>5

(* Writing into a block that is lent out.                                  *)
LEMMA Written ==
  ASSUME Sizes, NEW D \in Nat, NEW f, NEW L, NEW Lab, NEW W, Runs(f, L, Lab, W, D), Alive(f),
         NEW b \in Nat, L[b] > 0, NEW data \in Value
  PROVE  LET g == SetData(f, b, data)
         IN  /\ g \in Formatter /\ Alive(g) /\ After(f, g) /\ g.nextb = f.nextb
             /\ Sound(g.cache) /\ Lends(g.cache, L, Types(Lab))
             /\ \A x \in Cache!CachedBlock :
                  Holds(g, x) = IF x = b THEN data ELSE Holds(f, x)
<1> DEFINE g == SetData(f, b, data)
           c == f.cache
           d == Cache!SetData(c, b, data)
<1>1. f \in Formatter /\ f.nextb \in Nat
  BY DEF Runs, Formatter
<1>2. Sound(c) /\ c.abort = Cache!Fine /\ L \in Borrowed /\ Lends(c, L, Types(Lab))
  BY DEF Runs, Good, Alive
<1>3. /\ d.abort = Cache!Fine /\ Sound(d) /\ Lends(d, L, Types(Lab))
      /\ \A x \in Cache!CachedBlock :
           Cache!Contents(d)[x] = IF x = b THEN data ELSE Cache!Contents(c)[x]
  BY <1>2, SetDataLends
<1>4. g = [f EXCEPT !.cache = d]
  BY DEF SetData
<1> HIDE DEF d, g
<1>5. /\ g \in Formatter /\ g.cache = d /\ g.nextb = f.nextb
      /\ g.nextinode = f.nextinode /\ g.hardlinks = f.hardlinks
  BY <1>1, <1>3, <1>4, WithCache DEF Sound
<1>6. Alive(g) /\ After(f, g)
  BY <1>1, <1>3, <1>5 DEF Alive, After
<1>7. \A x \in Cache!CachedBlock : Holds(g, x) = IF x = b THEN data ELSE Holds(f, x)
  BY <1>3, <1>5 DEF Holds
<1> QED BY <1>3, <1>5, <1>6, <1>7 DEF g

(* What is found in a block that is lent out.                              *)
LEMMA Found ==
  ASSUME Sizes, NEW D \in Nat, NEW f, NEW L, NEW Lab, NEW W, Runs(f, L, Lab, W, D), Alive(f),
         NEW b \in Nat, L[b] > 0
  PROVE  /\ b \in Cache!CachedBlock /\ b < f.nextb
         /\ Data(f, b) = Holds(f, b) /\ Holds(f, b) \in Value
<1>1. Sound(f.cache) /\ L \in Borrowed /\ Lends(f.cache, L, Types(Lab)) /\ b < f.nextb
  BY DEF Runs, Good
<1> QED BY <1>1, LentBlock DEF Data, Holds

(* An inode whose block is lent out.                                       *)
LEMMA InodeFound ==
  ASSUME Sizes, NEW D \in Nat, NEW f, NEW L, NEW Lab, NEW W, Runs(f, L, Lab, W, D), Alive(f),
         NEW ino \in Ino, L[InoBlk(ino)] > 0
  PROVE  /\ InoBlk(ino) \in Cache!CachedBlock /\ TheIno(f, ino) = Inode(f, ino)
         /\ Inode(f, ino) \in InodeType /\ Pointers(Lab, ino, Inode(f, ino))
<1>1. InoBlk(ino) \in Nat
  BY InodePlaces
<1>2. InoBlk(ino) \in Cache!CachedBlock /\ Data(f, InoBlk(ino)) = Holds(f, InoBlk(ino))
  BY <1>1, Found
<1>3. Sound(f.cache) /\ Pointing(f, Lab)
  BY DEF Runs, Good
<1>4. Inode(f, ino) \in InodeType
  BY <1>2, <1>3, InodeTyped
<1>5. TheIno(f, ino) = Inode(f, ino)
  BY <1>2 DEF TheIno, Inode
<1> QED BY <1>2, <1>3, <1>4, <1>5 DEF Pointing

(* Writing an inode.                                                       *)
LEMMA SetInoRuns ==
  ASSUME Sizes, NEW D \in Nat, NEW f, NEW L, NEW Lab, NEW W, Runs(f, L, Lab, W, D),
         NEW ino, NEW oi, NEW X,
         Alive(f) =>
           /\ ino \in Ino /\ L[InoBlk(ino)] > 0 /\ oi \in InodeType /\ Pointers(Lab, ino, oi)
           /\ X \subseteq W
           /\ ino \in X => /\ oi.size = Inode(f, ino).size
                           /\ oi.direct = Inode(f, ino).direct
                           /\ oi.indirect = Inode(f, ino).indirect
                           /\ oi.indirect2 = Inode(f, ino).indirect2
  PROVE  LET g == SetIno(f, ino, oi)
         IN  /\ Runs(g, L, Lab, X, D)
             /\ After(f, g)
             /\ Alive(g) =>
                  /\ g.nextb = f.nextb
                  /\ \A b \in Cache!CachedBlock : Holds(g, b).u = Holds(f, b).u
                  /\ \A i \in Ino : InoBlk(i) \in Cache!CachedBlock =>
                       Inode(g, i) = IF i = ino THEN oi ELSE Inode(f, i)
<1> DEFINE data == [Data(f, InoBlk(ino)) EXCEPT !.ino[ino % BLKINODES] = oi]
           g == SetIno(f, ino, oi)
<1>1. f \in Formatter /\ f.nextb \in Nat /\ f.cache.abort \in Allowed(D)
  BY DEF Runs, Formatter
<1>2. g = SetData(f, InoBlk(ino), data)
  BY DEF SetIno
<1>3. CASE ~Alive(f)
  <2>1. g = f
    BY <1>1, <1>2, <1>3, Unmoved
  <2> HIDE DEF g
  <2> QED BY <1>3, <2>1, StillDead DEF g
<1>4. CASE Alive(f)
  <2>1. /\ ino \in Ino /\ L[InoBlk(ino)] > 0 /\ oi \in InodeType /\ Pointers(Lab, ino, oi)
        /\ X \subseteq W
    BY <1>4
  <2>2. /\ InoBlk(ino) \in Nat /\ ino % BLKINODES \in 0 .. BLKINODES-1
        /\ \A i, j \in Ino : InoBlk(i) = InoBlk(j) /\ i % BLKINODES = j % BLKINODES => i = j
        /\ \A i \in Ino : i % BLKINODES \in 0 .. BLKINODES-1
    BY <2>1, InodePlaces
  <2>3. /\ InoBlk(ino) \in Cache!CachedBlock
        /\ Data(f, InoBlk(ino)) = Holds(f, InoBlk(ino)) /\ Holds(f, InoBlk(ino)) \in Value
    BY <1>4, <2>1, <2>2, Found
  <2>4. /\ data \in Value /\ data.u = Holds(f, InoBlk(ino)).u
        /\ data.ino = [Holds(f, InoBlk(ino)).ino EXCEPT ![ino % BLKINODES] = oi]
    <3> HIDE DEF Holds
    <3> QED BY <2>1, <2>2, <2>3 DEF Value
  <2> HIDE DEF data, g
  <2>5. /\ g \in Formatter /\ Alive(g) /\ After(f, g) /\ g.nextb = f.nextb
        /\ Sound(g.cache) /\ Lends(g.cache, L, Types(Lab))
        /\ \A x \in Cache!CachedBlock :
             Holds(g, x) = IF x = InoBlk(ino) THEN data ELSE Holds(f, x)
    BY <1>2, <1>4, <2>1, <2>2, <2>4, Written
  <2>6. \A b \in Cache!CachedBlock : Holds(g, b).u = Holds(f, b).u
    BY <2>4, <2>5
  <2>7. ASSUME NEW i \in Ino, InoBlk(i) \in Cache!CachedBlock
        PROVE  Inode(g, i) = IF i = ino THEN oi ELSE Inode(f, i)
    <3>1. CASE InoBlk(i) = InoBlk(ino)
      <4>1. Inode(g, i) = data.ino[i % BLKINODES]
        BY <2>5, <2>7, <3>1 DEF Inode
      <4>2. Inode(f, i) = Holds(f, InoBlk(ino)).ino[i % BLKINODES]
        BY <3>1 DEF Inode
      <4>3. Holds(f, InoBlk(ino)).ino \in [0 .. BLKINODES-1 -> InodeType]
        BY <2>3 DEF Value
      <4>4. i # ino => i % BLKINODES # ino % BLKINODES
        BY <2>1, <2>2, <3>1
      <4> HIDE DEF Holds
      <4> QED BY <2>2, <2>4, <4>1, <4>2, <4>3, <4>4
    <3>2. CASE InoBlk(i) # InoBlk(ino)
      BY <2>5, <2>7, <3>2 DEF Inode
    <3> QED BY <3>1, <3>2
  <2>8. Good(f, L, Lab, W) /\ L \in Borrowed /\ Labelled(Lab, f.nextb)
        /\ \A b \in Nat : L[b] > 0 => b < f.nextb
    BY <1>4 DEF Runs, Good
  <2>9. \A i \in Ino : InoBlk(i) \in Cache!CachedBlock =>
          SamePlaces(f, g, i) \/ (i \notin X /\ Pointers(Lab, i, Inode(g, i)))
    BY <1>4, <2>1, <2>7 DEF SamePlaces
  <2>10. \A b \in Cache!CachedBlock : b >= f.nextb => Lab[b].as # "ind2"
    BY <2>8, Constants DEF Labelled, Cache!CachedBlock
  <2>11. Relabels(Lab, Lab, f.nextb) /\ f.nextb <= g.nextb
         /\ g.nextinode = f.nextinode /\ g.hardlinks = f.hardlinks
    BY <2>5 DEF Relabels, After
  <2>12. Good(g, L, Lab, X)
    BY <1>1, <2>1, <2>5, <2>6, <2>8, <2>9, <2>10, <2>11, GoesOn
  <2>13. Runs(g, L, Lab, X, D)
    BY <2>5, <2>12, AllowedReasons DEF Runs, Alive
  <2> QED BY <2>5, <2>6, <2>7, <2>13 DEF g
<1> QED BY <1>3, <1>4

(* Writing a word of a directory, or of a block of pointers.               *)
LEMMA SetURuns ==
  ASSUME Sizes, NEW D \in Nat, NEW f, NEW L, NEW Lab, NEW W, Runs(f, L, Lab, W, D),
         NEW b, NEW i, NEW n, NEW X,
         Alive(f) =>
           /\ b \in Nat /\ L[b] > 0 /\ i \in Word /\ n \in Int /\ X \subseteq W
           /\ Lab[b].as \in {"dir", "ind", "ind2"}
           /\ Lab[b].as # "dir" => Lab[b].own \notin X
           /\ Lab[b].as = "ind2" => MayPoint(Lab, Lab[b].own, n, "ind")
  PROVE  LET g == SetU(f, b, i, n)
         IN  /\ Runs(g, L, Lab, X, D)
             /\ After(f, g)
             /\ Alive(g) =>
                  /\ g.nextb = f.nextb
                  /\ \A x \in Cache!CachedBlock :
                       Holds(g, x).u = IF x = b THEN [Holds(f, x).u EXCEPT ![i] = n]
                                       ELSE Holds(f, x).u
                  /\ \A j \in Ino : InoBlk(j) \in Cache!CachedBlock => Inode(g, j) = Inode(f, j)
<1> DEFINE data == [Data(f, b) EXCEPT !.u[i] = n]
           g == SetU(f, b, i, n)
<1>1. f \in Formatter /\ f.nextb \in Nat /\ f.cache.abort \in Allowed(D)
  BY DEF Runs, Formatter
<1>2. g = SetData(f, b, data)
  BY DEF SetU
<1>3. CASE ~Alive(f)
  <2>1. g = f
    BY <1>1, <1>2, <1>3, Unmoved
  <2> HIDE DEF g
  <2> QED BY <1>3, <2>1, StillDead DEF g
<1>4. CASE Alive(f)
  <2>1. /\ b \in Nat /\ L[b] > 0 /\ i \in Word /\ n \in Int /\ X \subseteq W
        /\ Lab[b].as \in {"dir", "ind", "ind2"}
        /\ Lab[b].as # "dir" => Lab[b].own \notin X
        /\ Lab[b].as = "ind2" => MayPoint(Lab, Lab[b].own, n, "ind")
    BY <1>4
  <2>3. b \in Cache!CachedBlock /\ Data(f, b) = Holds(f, b) /\ Holds(f, b) \in Value
    BY <1>4, <2>1, Found
  <2>4. /\ data \in Value /\ data.ino = Holds(f, b).ino
        /\ data.u = [Holds(f, b).u EXCEPT ![i] = n]
        /\ Holds(f, b).u \in [Word -> Int]
    <3> HIDE DEF Holds
    <3> QED BY <2>1, <2>3 DEF Value
  <2> HIDE DEF data, g
  <2>5. /\ g \in Formatter /\ Alive(g) /\ After(f, g) /\ g.nextb = f.nextb
        /\ Sound(g.cache) /\ Lends(g.cache, L, Types(Lab))
        /\ \A x \in Cache!CachedBlock : Holds(g, x) = IF x = b THEN data ELSE Holds(f, x)
    BY <1>2, <1>4, <2>1, <2>4, Written
  <2>6. \A x \in Cache!CachedBlock :
          Holds(g, x).u = IF x = b THEN [Holds(f, x).u EXCEPT ![i] = n] ELSE Holds(f, x).u
    BY <2>4, <2>5
  <2>7. ASSUME NEW j \in Ino, InoBlk(j) \in Cache!CachedBlock
        PROVE  Inode(g, j) = Inode(f, j)
    BY <2>4, <2>5, <2>7 DEF Inode
  <2>8. Good(f, L, Lab, W) /\ L \in Borrowed /\ Labelled(Lab, f.nextb) /\ Pointing(f, Lab)
        /\ \A x \in Nat : L[x] > 0 => x < f.nextb
    BY <1>4 DEF Runs, Good
  <2>9. \A j \in Ino : InoBlk(j) \in Cache!CachedBlock => SamePlaces(f, g, j)
    BY <2>7 DEF SamePlaces
  <2>10. \A x \in Cache!CachedBlock : x >= f.nextb => Lab[x].as # "ind2"
    BY <2>8, Constants DEF Labelled, Cache!CachedBlock
  <2>11. Relabels(Lab, Lab, f.nextb) /\ f.nextb <= g.nextb
         /\ g.nextinode = f.nextinode /\ g.hardlinks = f.hardlinks
    BY <2>5 DEF Relabels, After
  <2>12. ASSUME NEW x \in Cache!CachedBlock, Lab[x].as = "ind2"
         PROVE  \/ Holds(g, x).u = Holds(f, x).u
                \/ Lab[x].own \notin X /\ Words(Lab, Lab[x].own, Holds(g, x).u)
    <3>1. CASE x # b
      BY <2>6, <3>1
    <3>2. CASE x = b
      <4>1. Lab[x].own \notin X /\ MayPoint(Lab, Lab[x].own, n, "ind")
        BY <2>1, <2>12, <3>2
      <4>2. Words(Lab, Lab[x].own, Holds(f, x).u)
        BY <2>8, <2>12 DEF Pointing
      <4>3. Holds(g, x).u = [Holds(f, x).u EXCEPT ![i] = n]
        BY <2>6, <3>2
      <4>4. Holds(f, x).u \in [Word -> Int]
        BY <2>4, <3>2
      <4> HIDE DEF Holds
      <4> QED BY <2>1, <4>1, <4>2, <4>3, <4>4 DEF Words
    <3> QED BY <3>1, <3>2
  <2>13. \A x \in Cache!CachedBlock : Lab[x].as = "ind" =>
           Holds(g, x).u = Holds(f, x).u \/ Lab[x].own \notin X
    BY <2>1, <2>6
  <2>14. Good(g, L, Lab, X)
    BY <1>1, <2>1, <2>5, <2>8, <2>9, <2>10, <2>11, <2>12, <2>13, GoesOn
  <2>15. Runs(g, L, Lab, X, D)
    BY <2>5, <2>14, AllowedReasons DEF Runs, Alive
  <2> QED BY <2>5, <2>6, <2>7, <2>15 DEF g
<1> QED BY <1>3, <1>4

(* Writing into a block that is neither inodes nor pointers.               *)
LEMMA SetDataRuns ==
  ASSUME Sizes, NEW D \in Nat, NEW f, NEW L, NEW Lab, NEW W, Runs(f, L, Lab, W, D),
         NEW b, NEW data,
         Alive(f) => /\ b \in Nat /\ L[b] > 0 /\ data \in Value
                     /\ Lab[b].as \in {"dir", "file", "map", "super"}
  PROVE  LET g == SetData(f, b, data)
         IN  /\ Runs(g, L, Lab, W, D)
             /\ After(f, g)
             /\ Alive(g) =>
                  /\ g.nextb = f.nextb
                  /\ \A i \in Ino : InoBlk(i) \in Cache!CachedBlock => Inode(g, i) = Inode(f, i)
<1> DEFINE g == SetData(f, b, data)
<1>1. f \in Formatter /\ f.nextb \in Nat /\ f.cache.abort \in Allowed(D)
  BY DEF Runs, Formatter
<1>2. CASE ~Alive(f)
  <2>1. g = f
    BY <1>1, <1>2, Unmoved
  <2> HIDE DEF g
  <2> QED BY <1>2, <2>1, StillDead DEF g
<1>3. CASE Alive(f)
  <2>1. /\ b \in Nat /\ L[b] > 0 /\ data \in Value
        /\ Lab[b].as \in {"dir", "file", "map", "super"}
    BY <1>3
  <2> HIDE DEF g
  <2>2. /\ g \in Formatter /\ Alive(g) /\ After(f, g) /\ g.nextb = f.nextb
        /\ Sound(g.cache) /\ Lends(g.cache, L, Types(Lab))
        /\ \A x \in Cache!CachedBlock : Holds(g, x) = IF x = b THEN data ELSE Holds(f, x)
    BY <1>3, <2>1, Written DEF g
  <2>3. Good(f, L, Lab, W) /\ L \in Borrowed /\ Labelled(Lab, f.nextb)
        /\ \A x \in Nat : L[x] > 0 => x < f.nextb
    BY <1>3 DEF Runs, Good
  <2>4. \A i \in Ino : InoBlk(i) # b
    <3> TAKE i \in Ino
    <3>1. /\ InoBlk(i) \in Nat /\ os_firstinob <= InoBlk(i) /\ InoBlk(i) < FirstBlk
          /\ os_firstinob = 3 /\ OSPFS_FREEMAP_BLK = 2
      BY InodePlaces
    <3>2. Lab[InoBlk(i)].as = "inodes"
      <4>1. Lab[InoBlk(i)].as = IF InoBlk(i) = OSPFS_FREEMAP_BLK THEN "map"
                   ELSE IF InoBlk(i) < os_firstinob THEN "super" ELSE "inodes"
        BY <2>3, <3>1 DEF Labelled
      <4> QED BY <3>1, <4>1
    <3> QED BY <2>1, <3>2
  <2>5. \A i \in Ino : InoBlk(i) \in Cache!CachedBlock => Inode(g, i) = Inode(f, i)
    BY <2>2, <2>4 DEF Inode
  <2>6. \A i \in Ino : InoBlk(i) \in Cache!CachedBlock => SamePlaces(f, g, i)
    BY <2>5 DEF SamePlaces
  <2>7. \A x \in Cache!CachedBlock : x >= f.nextb => Lab[x].as # "ind2"
    BY <2>3, Constants DEF Labelled, Cache!CachedBlock
  <2>8. Relabels(Lab, Lab, f.nextb) /\ f.nextb <= g.nextb
        /\ g.nextinode = f.nextinode /\ g.hardlinks = f.hardlinks
    BY <2>2 DEF Relabels, After
  <2>9. \A x \in Cache!CachedBlock :
          Lab[x].as \in {"ind", "ind2"} => Holds(g, x).u = Holds(f, x).u
    BY <2>1, <2>2
  <2>10. Good(g, L, Lab, W)
    BY <1>1, <2>2, <2>3, <2>6, <2>7, <2>8, <2>9, GoesOn
  <2>11. Runs(g, L, Lab, W, D)
    BY <2>2, <2>10, AllowedReasons DEF Runs, Alive
  <2> QED BY <2>2, <2>5, <2>11 DEF g
<1> QED BY <1>2, <1>3

(* Block b gets a label.                                                   *)
Given(Lab, b, own, use) == [Lab EXCEPT ![b] = Mine(own, use)]

(* getblk(nextb, 1, type).                                                 *)
Fetch(c, b, type) == Cache!GetBlk(c, b, TRUE, type)

LEMMA FetchNew ==
  ASSUME Sizes, NEW D \in Nat, NEW f, NEW L, NEW Lab, NEW W, Runs(f, L, Lab, W, D), Alive(f),
         NEW own \in Nat, NEW use \in Uses, NEW type \in Kind,
         TypeOf(use) = type, NEW n, AtMost(L, n), n <= 2 * D + 3
  PROVE  LET c == f.cache
             b == f.nextb
             d == Fetch(c, b, type)
             new == Given(Lab, b, own, use)
         IN  /\ d \in CacheType /\ d.abort \in Allowed(D)
             /\ d.abort = Cache!Fine =>
                  /\ Sound(d) /\ b \in Cache!CachedBlock
                  /\ Lends(d, Plus(L, b), Types(new))
                  /\ \A x \in Cache!CachedBlock :
                       Cache!Contents(d)[x] = IF x = b THEN ZeroBlock ELSE Cache!Contents(c)[x]
<1> DEFINE c == f.cache
           b == f.nextb
           d == Fetch(c, b, type)
           new == Given(Lab, b, own, use)
<1>1. b \in Nat /\ c \in CacheType
  BY DEF Runs, Formatter
<1>2. /\ Sound(c) /\ c.abort = Cache!Fine /\ L \in Borrowed /\ Lends(c, L, Types(Lab))
      /\ Labelled(Lab, b) /\ \A x \in Nat : L[x] > 0 => x < b
  BY DEF Runs, Good, Alive
<1>3. Lab \in [Nat -> Label]
  BY <1>2 DEF Labelled
<1>4. new[b] = Mine(own, use) /\ \A x \in Nat : x < b => new[x] = Lab[x]
  BY <1>1, <1>3 DEF Given
<1>5. Types(new)[b] = type
  BY <1>1, <1>4 DEF Types, Mine
<1>6. \A x \in Nat : L[x] > 0 => Types(new)[x] = Types(Lab)[x]
  BY <1>2, <1>4 DEF Types
<1> HIDE DEF new, c, b
<1>7. Lends(c, L, Types(new))
  BY <1>2, <1>6, LendsSame
<1>10. \/ d = [c EXCEPT !.abort = "past end of disk"]
       \/ d = [c EXCEPT !.abort = "cache full"] /\ NSLOTS <= n
       \/ d.abort = Cache!Fine /\ b \in Cache!CachedBlock /\ Lends(d, Plus(L, b), Types(new))
  BY <1>1, <1>2, <1>5, <1>7, GetBlkLends DEF Fetch
<1>11. CASE d = [c EXCEPT !.abort = "past end of disk"]
  <2>1. "past end of disk" \in Allowed(D) \cap Reason /\ "past end of disk" # Cache!Fine
    BY DEF Allowed, Reason, Cache!Fine
  <2>2. d \in CacheType /\ d.abort = "past end of disk"
    BY <1>1, <1>11, <2>1 DEF CacheType
  <2> QED BY <2>1, <2>2 DEF d, c, b, new
<1>12. CASE d = [c EXCEPT !.abort = "cache full"] /\ NSLOTS <= n
  <2>1. n \in Nat /\ NSLOTS \in Nat /\ NSLOTS <= n
    BY <1>12, Constants DEF AtMost
  <2>2. 2 * D + 4 > NSLOTS
    BY <2>1
  <2>3. "cache full" \in Allowed(D) \cap Reason /\ "cache full" # Cache!Fine
    BY <2>2 DEF Allowed, Reason, Cache!Fine
  <2>4. d \in CacheType /\ d.abort = "cache full"
    BY <1>1, <1>12, <2>3 DEF CacheType
  <2> QED BY <2>3, <2>4 DEF d, c, b, new
<1>13. CASE /\ d.abort = Cache!Fine /\ b \in Cache!CachedBlock
            /\ Lends(d, Plus(L, b), Types(new))
  <2>1. /\ Sound(d)
        /\ \A x \in Cache!CachedBlock :
             Cache!Contents(d)[x] = IF x = b THEN ZeroBlock ELSE Cache!Contents(c)[x]
    <3>1. PICK clr \in BOOLEAN : clr = TRUE
      OBVIOUS
    <3>2. d = Cache!GetBlk(c, b, clr, type)
      BY <3>1 DEF Fetch
    <3> HIDE DEF d
    <3>3. /\ Sound(d)
          /\ \A x \in Cache!CachedBlock :
               Cache!Contents(d)[x] = IF clr /\ x = b THEN ZeroBlock ELSE Cache!Contents(c)[x]
      BY <1>2, <1>13, <3>2, GetBlkIsTransparent
    <3> QED BY <3>1, <3>3
  <2>2. d \in CacheType /\ d.abort \in Allowed(D)
    BY <1>13, <2>1, AllowedReasons DEF Sound
  <2> QED BY <1>13, <2>1, <2>2 DEF d, c, b, new
<1> QED BY <1>10, <1>11, <1>12, <1>13

(* A block of a new label, all zero, is as good as none.                   *)
LEMMA NewGood ==
  ASSUME Sizes, NEW f \in Formatter, NEW L, NEW Lab, NEW W, Good(f, L, Lab, W),
         NEW own \in Nat, NEW use \in Uses, NEW new,
         new = Given(Lab, f.nextb, own, use),
         NEW g \in Formatter, NEW M \in Borrowed,
         Sound(g.cache), Lends(g.cache, M, Types(new)),
         g.nextb = f.nextb + 1 \/ (g.nextb = f.nextb /\ use = "file"),
         g.nextinode = f.nextinode, g.hardlinks = f.hardlinks,
         \A b \in Nat : M[b] > 0 => b < g.nextb,
         \A b \in Cache!CachedBlock :
           Holds(g, b) = IF b = f.nextb THEN ZeroBlock ELSE Holds(f, b)
  PROVE  /\ Good(g, M, new, W) /\ Kept(f, g) /\ Relabels(Lab, new, f.nextb)
         /\ new[f.nextb] = Mine(own, use)
<1>1. f.nextb \in Nat /\ g.nextb \in Nat /\ f.nextb <= g.nextb
  BY DEF Formatter
<1>2. Labelled(Lab, f.nextb) /\ Lab \in [Nat -> Label]
  BY DEF Good, Labelled
<1>3. /\ new \in [Nat -> Label] /\ new[f.nextb] = Mine(own, use)
      /\ \A b \in Nat : b # f.nextb => new[b] = Lab[b]
  <2>1. Mine(own, use) \in Label
    BY DEF Mine, Label, As, Uses
  <2> QED BY <1>1, <1>2, <2>1 DEF Given
<1>4. FirstBlk \in Nat /\ FirstBlk <= f.nextb
  BY <1>2, InodePlaces DEF Labelled
<1>5. Relabels(Lab, new, f.nextb)
  BY <1>1, <1>3 DEF Relabels
<1>6. Labelled(new, g.nextb)
  <2>1. \A b \in Nat : b < FirstBlk => new[b] = Lab[b]
    BY <1>1, <1>3, <1>4
  <2>2. ASSUME NEW b \in Nat, b >= g.nextb PROVE new[b].as \in {"super", "file"}
    <3>1. CASE b = f.nextb
      <4>1. use = "file"
        BY <1>1, <2>2, <3>1
      <4> QED BY <1>3, <3>1, <4>1 DEF Mine
    <3>2. CASE b # f.nextb
      BY <1>1, <1>2, <1>3, <2>2, <3>2 DEF Labelled
    <3> QED BY <3>1, <3>2
  <2> QED BY <1>1, <1>2, <1>3, <1>4, <2>1, <2>2 DEF Labelled
<1>7. \A i \in Ino : InoBlk(i) # f.nextb
  BY <1>1, <1>4, InodePlaces
<1>8. \A i \in Ino : InoBlk(i) \in Cache!CachedBlock => Inode(g, i) = Inode(f, i)
  BY <1>7 DEF Inode
<1>9. \A i \in Ino : InoBlk(i) \in Cache!CachedBlock => SamePlaces(f, g, i)
  BY <1>8 DEF SamePlaces
<1>10. Cache!CachedBlock \subseteq Nat
  BY Constants DEF Cache!CachedBlock
<1>11. \A b \in Cache!CachedBlock : b < f.nextb => Holds(g, b).u = Holds(f, b).u
  BY <1>1, <1>10
<1>12. ASSUME NEW b \in Cache!CachedBlock, b >= f.nextb, new[b].as = "ind2"
       PROVE  Words(new, new[b].own, Holds(g, b).u)
  <2>1. b = f.nextb
    BY <1>2, <1>3, <1>10, <1>12 DEF Labelled
  <2>2. \A j \in Word : Holds(g, b).u[j] = 0
    BY <2>1 DEF ZeroBlock
  <2> QED BY <2>2 DEF Words, MayPoint
<1>13. Good(g, M, new, W)
  <2> SUFFICES ASSUME TRUE PROVE Good(g, M, new, W)
    OBVIOUS
  <2>1. W \subseteq W
    OBVIOUS
  <2>2. \A b \in Cache!CachedBlock : b < f.nextb /\ Lab[b].as = "ind" =>
           Holds(g, b).u = Holds(f, b).u \/ Lab[b].own \notin W
    BY <1>11
  <2>3. \A b \in Cache!CachedBlock : b < f.nextb /\ Lab[b].as = "ind2" =>
           \/ Holds(g, b).u = Holds(f, b).u
           \/ Lab[b].own \notin W /\ Words(new, Lab[b].own, Holds(g, b).u)
    BY <1>11
  <2>4. \A i \in Ino : InoBlk(i) \in Cache!CachedBlock =>
           SamePlaces(f, g, i) \/ (i \notin W /\ Pointers(new, i, Inode(g, i)))
    BY <1>9
  <2>5. \A b \in Cache!CachedBlock : b >= f.nextb /\ new[b].as = "ind2" =>
           Words(new, new[b].own, Holds(g, b).u)
    BY <1>12
  <2> QED BY ONLY Sizes, f \in Formatter, Good(f, L, Lab, W), g \in Formatter, M \in Borrowed,
         Sound(g.cache), Lends(g.cache, M, Types(new)),
         g.nextinode = f.nextinode, g.hardlinks = f.hardlinks,
         \A b \in Nat : M[b] > 0 => b < g.nextb,
         <1>1, <1>5, <1>6, <2>1, <2>2, <2>3, <2>4, <2>5, GoesOn
<1> QED BY <1>3, <1>5, <1>8, <1>11, <1>13 DEF Kept

(* A new block, which becomes an `as' of inode own.                        *)
LEMMA NewBlkRuns ==
  ASSUME Sizes, NEW D \in Nat, NEW f, NEW L, NEW Lab, NEW W, Runs(f, L, Lab, W, D),
         NEW own \in Nat, NEW use \in Uses, NEW type \in Kind,
         TypeOf(use) = type, NEW n, Alive(f) => AtMost(L, n) /\ n <= 2 * D + 3
  PROVE  LET g == NewBlk(f, type)
             new == Given(Lab, f.nextb, own, use)
         IN  /\ Runs(g, Plus(L, f.nextb), new, W, D)
             /\ After(f, g) /\ g.nextb = f.nextb + 1
             /\ Alive(g) =>
                  /\ Kept(f, g) /\ Relabels(Lab, new, f.nextb)
                  /\ new[f.nextb] = Mine(own, use)
                  /\ Plus(L, f.nextb) \in Borrowed
<1> DEFINE b == f.nextb
           h == [f EXCEPT !.nextb = @ + 1]
           d == Fetch(f.cache, b, type)
           g == NewBlk(f, type)
           new == Given(Lab, b, own, use)
<1>1. f \in Formatter /\ b \in Nat /\ f.cache.abort \in Allowed(D) /\ f.cache \in CacheType
  BY DEF Runs, Formatter
<1>2. /\ h \in Formatter /\ h.cache = f.cache /\ h.nextb = b + 1
      /\ h.nextinode = f.nextinode /\ h.hardlinks = f.hardlinks
  BY <1>1 DEF Formatter
<1>3. g = [h EXCEPT !.cache = d]
  <2>1. g = Get(h, b, TRUE, type)
    BY DEF NewBlk
  <2> HIDE DEF h, g
  <2> QED BY <1>2, <2>1 DEF Get, Fetch
<1>4. d \in CacheType /\ d.abort \in Allowed(D)
      /\ (d.abort = Cache!Fine => Alive(f))
      /\ (Alive(f) /\ d.abort = Cache!Fine =>
                  /\ Sound(d) /\ b \in Cache!CachedBlock
                  /\ Lends(d, Plus(L, b), Types(new))
                  /\ \A x \in Cache!CachedBlock :
                       Cache!Contents(d)[x] =
                          IF x = b THEN ZeroBlock ELSE Cache!Contents(f.cache)[x])
  <2>1. CASE ~Alive(f)
    <3>1. d = f.cache
      BY <2>1, Zenon DEF Cache!GetBlk, Alive, Fetch
    <3> HIDE DEF d
    <3> QED BY <1>1, <2>1, <3>1 DEF Alive
  <2>2. CASE Alive(f)
    <3>1. AtMost(L, n) /\ n <= 2 * D + 3
      BY <2>2
    <3> QED BY <2>2, <3>1, FetchNew
  <2> QED BY <2>1, <2>2
<1> HIDE DEF h, d, g, new
<1>5. /\ g \in Formatter /\ g.cache = d /\ g.nextb = b + 1
      /\ g.nextinode = f.nextinode /\ g.hardlinks = f.hardlinks
  BY <1>2, <1>3, <1>4, WithCache
<1>6. After(f, g)
  BY <1>1, <1>4, <1>5 DEF After, Alive
<1>7. ASSUME Alive(g)
      PROVE  /\ Good(g, Plus(L, b), new, W) /\ Kept(f, g) /\ Relabels(Lab, new, b)
             /\ new[b] = Mine(own, use) /\ Plus(L, b) \in Borrowed
  <2>1. Alive(f) /\ d.abort = Cache!Fine
    BY <1>4, <1>5, <1>7 DEF Alive
  <2>2. Good(f, L, Lab, W) /\ L \in Borrowed /\ \A x \in Nat : L[x] > 0 => x < b
    BY <2>1 DEF Runs, Good
  <2>3. Plus(L, b) \in Borrowed /\ \A x \in Nat : Plus(L, b)[x] > 0 => x < b + 1
    BY <1>1, <2>2 DEF Plus, Borrowed
  <2>4. \A x \in Cache!CachedBlock : Holds(g, x) = IF x = b THEN ZeroBlock ELSE Holds(f, x)
    BY <1>4, <1>5, <2>1 DEF Holds
  <2>5. new = Given(Lab, f.nextb, own, use)
    BY DEF new
  <2>6. Sound(g.cache) /\ Lends(g.cache, Plus(L, b), Types(new))
    BY <1>4, <1>5, <2>1
  <2>7. \A x \in Nat : Plus(L, f.nextb)[x] > 0 => x < g.nextb
    BY <1>5, <2>3
  <2>8. g.nextb = f.nextb + 1 \/ (g.nextb = f.nextb /\ use = "file")
    BY <1>5
  <2>9. Plus(L, f.nextb) \in Borrowed
    BY <2>3
  <2>10. Good(f, L, Lab, W)
    BY <2>2
  <2>11. \A x \in Cache!CachedBlock :
           Holds(g, x) = IF x = f.nextb THEN ZeroBlock ELSE Holds(f, x)
    BY <2>4
  <2> HIDE <1>1, <1>5
  <2> QED BY ONLY Sizes, own \in Nat, use \in Uses, <1>1, <1>5, <2>5, <2>6,
                  <2>7, <2>8, <2>9, <2>10, <2>11, NewGood, SMTT(60)
<1>8. Runs(g, Plus(L, b), new, W, D)
  BY <1>4, <1>5, <1>7 DEF Runs
<1> QED BY <1>5, <1>6, <1>7, <1>8 DEF g, new

-----------------------------------------------------------------------------
(* storeblk().                                                             *)
LEMMA Chain ==
  ASSUME NEW f \in Formatter, NEW g \in Formatter, NEW h \in Formatter,
         After(f, g), After(g, h)
  PROVE  /\ After(f, h)
         /\ \A Lab, mid, new : Relabels(Lab, mid, f.nextb) /\ Relabels(mid, new, g.nextb)
                                 => Relabels(Lab, new, f.nextb)
<1>1. /\ f.nextb \in Nat /\ g.nextb \in Nat /\ h.nextb \in Nat
      /\ f.nextb <= g.nextb /\ g.nextb <= h.nextb
  BY DEF Formatter, After
<1> QED BY <1>1 DEF After, Relabels

(* The block of pointers there is, or a new one.                           *)
LEMMA PtrBlkRuns ==
  ASSUME Sizes, NEW D \in Nat, NEW f, NEW L, NEW Lab, NEW W, Runs(f, L, Lab, W, D),
         NEW ino \in Nat, NEW old, NEW use, use = "ind" \/ use = "ind2", NEW n,
         Alive(f) => MayPoint(Lab, ino, old, use) /\ AtMost(L, n) /\ n <= 2 * D + 3
  PROVE  LET g == GetPtrBlk(f, old)
             p == PtrBlk(f, old)
         IN  \E new : /\ Runs(g, Plus(L, p), new, W, D)
                      /\ After(f, g)
                      /\ Alive(g) =>
                           /\ Kept(f, g) /\ Relabels(Lab, new, f.nextb)
                           /\ p \in Nat /\ new[p] = Mine(ino, use)
                           /\ Plus(L, p) \in Borrowed /\ L \in Borrowed
<1> DEFINE g == GetPtrBlk(f, old)
           p == PtrBlk(f, old)
<1>1. /\ "bits" \in Kind /\ TypeOf(use) = "bits" /\ use \in Uses
      /\ f.nextb \in Nat
  BY DEF Kind, TypeOf, Uses, Runs, Formatter
<1>2. CASE old = 0
  <2> DEFINE new == Given(Lab, f.nextb, ino, use)
  <2>1. g = NewBlk(f, "bits") /\ p = f.nextb
    BY <1>2 DEF GetPtrBlk, PtrBlk
  <2> HIDE DEF g, p, new
  <2>2. /\ Runs(g, Plus(L, p), new, W, D)
        /\ After(f, g)
        /\ Alive(g) => /\ Kept(f, g) /\ Relabels(Lab, new, f.nextb)
                       /\ new[p] = Mine(ino, use) /\ Plus(L, p) \in Borrowed
    BY <1>1, <2>1, NewBlkRuns DEF new
  <2>3. Alive(g) => L \in Borrowed
    BY <2>2 DEF After, Runs, Good
  <2> QED BY <1>1, <2>1, <2>2, <2>3 DEF g, p
<1>3. CASE old # 0
  <2>1. g = Look(f, old, "bits") /\ p = old
    BY <1>3 DEF GetPtrBlk, PtrBlk, Look
  <2>2. Alive(f) => /\ old \in Nat /\ Lab[old] = Mine(ino, use) /\ L \in Borrowed
    BY <1>3 DEF MayPoint, Runs, Good
  <2>3. Alive(f) => old < f.nextb /\ TypeOf(Lab[old].as) = "bits"
    <3> SUFFICES ASSUME Alive(f) PROVE old < f.nextb /\ TypeOf(Lab[old].as) = "bits"
      OBVIOUS
    <3>1. Labelled(Lab, f.nextb)
      BY DEF Runs, Good
    <3>2. use \in {"dir", "ind", "ind2"}
      OBVIOUS
    <3>3. old < f.nextb
      BY <1>1, <2>2, <3>1, <3>2, OwnedBefore
    <3>4. Lab[old].as = use
      BY <2>2 DEF Mine
    <3> QED BY <1>1, <3>3, <3>4
  <2> HIDE DEF g
  <2>4. /\ Runs(g, Plus(L, old), Lab, W, D)
        /\ After(f, g)
        /\ Alive(g) => Kept(f, g) /\ Plus(L, old) \in Borrowed
    BY <1>1, <2>1, <2>2, <2>3, GetRuns
  <2>5. Relabels(Lab, Lab, f.nextb)
    BY DEF Relabels
  <2>6. Alive(g) => /\ old \in Nat /\ Lab[old] = Mine(ino, use) /\ L \in Borrowed
    BY <2>2, <2>4 DEF After
  <2> QED BY <2>1, <2>4, <2>5, <2>6 DEF g
<1> QED BY <1>2, <1>3

(* The same bag, by another name.                                          *)
LEMMA RunsSame ==
  ASSUME NEW D, NEW f, NEW L, NEW Lab, NEW W, Runs(f, L, Lab, W, D), NEW M, Alive(f) => M = L
  PROVE  Runs(f, M, Lab, W, D)
BY DEF Runs

(* A block of pointers is filled in and given back.                        *)
LEMMA PointRuns ==
  ASSUME Sizes, NEW D \in Nat, NEW f, NEW L, NEW Lab, NEW W, Runs(f, L, Lab, W, D),
         NEW ind, NEW i, NEW b,
         Alive(f) => /\ ind \in Nat /\ L[ind] > 0 /\ i \in Word /\ b \in Nat
                     /\ Lab[ind].as = "ind" /\ Lab[ind].own \notin W
  PROVE  LET g == Point(f, ind, i, b)
         IN  /\ Runs(g, Minus(L, ind), Lab, W, D)
             /\ After(f, g)
             /\ Alive(g) =>
                  /\ g.nextb = f.nextb
                  /\ \A x \in Cache!CachedBlock : x < f.nextb =>
                       Holds(g, x).u = IF x = ind THEN [Holds(f, x).u EXCEPT ![i] = b]
                                       ELSE Holds(f, x).u
                  /\ \A j \in Ino : InoBlk(j) \in Cache!CachedBlock => Inode(g, j) = Inode(f, j)
<1> DEFINE h == SetU(f, ind, i, b)
           g == Point(f, ind, i, b)
<1>1. g = Put(h, ind)
  BY DEF Point
<1> HIDE DEF h, g
<1>2. /\ Runs(h, L, Lab, W, D)
      /\ After(f, h)
      /\ Alive(h) =>
           /\ h.nextb = f.nextb
           /\ \A x \in Cache!CachedBlock :
                Holds(h, x).u = IF x = ind THEN [Holds(f, x).u EXCEPT ![i] = b]
                                ELSE Holds(f, x).u
           /\ \A j \in Ino : InoBlk(j) \in Cache!CachedBlock => Inode(h, j) = Inode(f, j)
  <2>1. Alive(f) =>
           /\ ind \in Nat /\ L[ind] > 0 /\ i \in Word /\ b \in Int /\ W \subseteq W
           /\ Lab[ind].as \in {"dir", "ind", "ind2"}
           /\ Lab[ind].as # "dir" => Lab[ind].own \notin W
           /\ Lab[ind].as = "ind2" => MayPoint(Lab, Lab[ind].own, b, "ind")
    OBVIOUS
  <2> QED BY <2>1, SetURuns DEF h
<1>3. /\ Runs(g, Minus(L, ind), Lab, W, D)
      /\ After(h, g)
      /\ Alive(g) => Kept(h, g) /\ g.nextb = h.nextb
  <2>1. Alive(h) => ind \in Nat /\ L[ind] > 0
    BY <1>2 DEF After
  <2> QED BY <1>1, <1>2, <2>1, PutRuns
<1>4. After(f, g)
  <2>1. f \in Formatter /\ g \in Formatter /\ h \in Formatter
    BY <1>2, <1>3 DEF Runs
  <2> QED BY <1>2, <1>3, <2>1, Chain
<1>5. Alive(g) => Alive(h)
  BY <1>3 DEF After
<1> QED BY <1>2, <1>3, <1>4, <1>5 DEF Kept, g

(* storeblk() in the inode itself.                                         *)
LEMMA StoreDirectRuns ==
  ASSUME Sizes, NEW D \in Nat, NEW f, NEW L, NEW Lab, NEW W, Runs(f, L, Lab, W, D),
         NEW ino, NEW b, NEW nblk,
         Alive(f) => /\ ino \in Ino /\ L[InoBlk(ino)] > 0 /\ ino \notin W
                     /\ nblk \in Nat /\ nblk < NDIRECT /\ b \in Nat
  PROVE  LET g == StoreDirect(f, ino, b, nblk)
         IN  /\ Runs(g, L, Lab, W, D)
             /\ After(f, g)
             /\ Alive(g) => /\ Inode(g, ino).size = Inode(f, ino).size
                            /\ Lab[b] = Mine(ino, "dir") => Leads(g, Lab, ino, nblk)
<1> DEFINE oi == TheIno(f, ino)
           oj == [oi EXCEPT !.direct[nblk] = b]
           g == StoreDirect(f, ino, b, nblk)
<1>1. g = SetIno(f, ino, oj)
  BY DEF StoreDirect
<1>2. Alive(f) => /\ InoBlk(ino) \in Cache!CachedBlock /\ oi = Inode(f, ino)
                  /\ oi \in InodeType /\ Pointers(Lab, ino, oi)
  BY InodeFound
<1>3. Alive(f) => /\ oj \in InodeType /\ oj.size = oi.size /\ oj.direct[nblk] = b
                  /\ Pointers(Lab, ino, oj)
  <2> SUFFICES ASSUME Alive(f)
               PROVE  /\ oj \in InodeType /\ oj.size = oi.size /\ oj.direct[nblk] = b
                      /\ Pointers(Lab, ino, oj)
    OBVIOUS
  <2>1. nblk \in 0 .. NDIRECT-1 /\ b \in Nat
    BY Constants
  <2>2. oi \in InodeType /\ Pointers(Lab, ino, oi)
    BY <1>2
  <2> HIDE DEF oi
  <2>3. /\ oj \in InodeType /\ oj.size = oi.size /\ oj.direct[nblk] = b
        /\ oj.indirect = oi.indirect /\ oj.indirect2 = oi.indirect2
    BY <2>1, <2>2 DEF InodeType
  <2> QED BY <2>2, <2>3 DEF Pointers
<1> HIDE DEF oi, oj, g
<1>4. /\ Runs(g, L, Lab, W, D)
      /\ After(f, g)
      /\ Alive(g) => \A i \in Ino : InoBlk(i) \in Cache!CachedBlock =>
                       Inode(g, i) = IF i = ino THEN oj ELSE Inode(f, i)
  BY <1>1, <1>3, SetInoRuns
<1>5. ASSUME Alive(g)
      PROVE  /\ Inode(g, ino).size = Inode(f, ino).size
             /\ Lab[b] = Mine(ino, "dir") => Leads(g, Lab, ino, nblk)
  <2>1. Alive(f)
    BY <1>4, <1>5 DEF After
  <2>2. Inode(g, ino) = oj
    BY <1>2, <1>4, <1>5, <2>1
  <2> QED BY <1>2, <1>3, <2>1, <2>2 DEF Leads
<1> QED BY <1>4, <1>5 DEF g

(* Block b has become block nblk of ino, and f, where L is lent out, g.     *)
Stored(f, g, L, Lab, W, D, ino, b, nblk) ==
  \E new :
    /\ Runs(g, L, new, W, D)
    /\ After(f, g)
    /\ Alive(g) => /\ Relabels(Lab, new, f.nextb)
                   /\ Inode(g, ino).size = Inode(f, ino).size
                   /\ Lab[b] = Mine(ino, "dir") => Leads(g, new, ino, nblk)

LEMMA StoreIndirectRuns ==
  ASSUME Sizes, NEW D \in Nat, NEW f, NEW L, NEW Lab, NEW W, Runs(f, L, Lab, W, D),
         NEW ino \in Nat, NEW b, NEW nblk, NEW n,
         Alive(f) => /\ ino \in Ino /\ L[InoBlk(ino)] > 0 /\ ino \notin W
                     /\ nblk \in Nat /\ nblk >= NDIRECT /\ nblk < NDIRECT + NINDIRECT
                     /\ b \in Nat /\ AtMost(L, n) /\ n + 1 <= 2 * D + 3
  PROVE  Stored(f, StoreIndirect(f, ino, b, nblk), L, Lab, W, D, ino, b, nblk)
<1> DEFINE oi == TheIno(f, ino)
           ind == PtrBlk(f, oi.indirect)
           oj == [oi EXCEPT !.indirect = ind]
           g1 == GetPtrBlk(f, oi.indirect)
           g2 == SetIno(g1, ino, oj)
           g == StoreIndirect(f, ino, b, nblk)
<1>1. g = Point(g2, ind, nblk - NDIRECT, b)
  BY DEF StoreIndirect
<1>2. Alive(f) => /\ InoBlk(ino) \in Cache!CachedBlock /\ InoBlk(ino) \in Nat
                  /\ oi = Inode(f, ino) /\ oi \in InodeType /\ Pointers(Lab, ino, oi)
                  /\ L \in Borrowed /\ Labelled(Lab, f.nextb)
  <2> SUFFICES ASSUME Alive(f)
               PROVE  /\ InoBlk(ino) \in Cache!CachedBlock /\ InoBlk(ino) \in Nat
                      /\ oi = Inode(f, ino) /\ oi \in InodeType /\ Pointers(Lab, ino, oi)
                      /\ L \in Borrowed /\ Labelled(Lab, f.nextb)
    OBVIOUS
  <2>1. L \in Borrowed /\ Labelled(Lab, f.nextb)
    BY DEF Runs, Good
  <2>2. InoBlk(ino) \in Nat
    BY InodePlaces
  <2> QED BY <2>1, <2>2, InodeFound
<1>3. f \in Formatter /\ f.nextb \in Nat
  BY DEF Runs, Formatter
<1> HIDE DEF oi
<1>4. PICK new : /\ Runs(g1, Plus(L, ind), new, W, D)
                 /\ After(f, g1)
                 /\ Alive(g1) =>
                      /\ Kept(f, g1) /\ Relabels(Lab, new, f.nextb)
                      /\ ind \in Nat /\ new[ind] = Mine(ino, "ind")
                      /\ Plus(L, ind) \in Borrowed /\ L \in Borrowed
  <2>1. Alive(f) => MayPoint(Lab, ino, oi.indirect, "ind") /\ AtMost(L, n) /\ n <= 2 * D + 3
    <3> SUFFICES ASSUME Alive(f)
                 PROVE  MayPoint(Lab, ino, oi.indirect, "ind") /\ n <= 2 * D + 3
      OBVIOUS
    <3>1. n \in Nat
      BY DEF AtMost
    <3> QED BY <1>2, <3>1 DEF Pointers
  <2> QED BY <2>1, PtrBlkRuns
<1> HIDE DEF ind, g1
<1>5. Alive(g1) => Alive(f)
  BY <1>4 DEF After
<1>6. ASSUME Alive(g1)
      PROVE  /\ ino \in Ino /\ Plus(L, ind)[InoBlk(ino)] > 0 /\ Plus(L, ind)[ind] > 0
             /\ oj \in InodeType /\ Pointers(new, ino, oj) /\ ino \notin W
             /\ oj.size = oi.size /\ oj.indirect = ind
             /\ ind < g1.nextb /\ ind \in Cache!CachedBlock
             /\ Minus(Plus(L, ind), ind) = L
  <2>1. Alive(f) /\ ind \in Nat /\ L \in Borrowed
    BY <1>4, <1>5, <1>6
  <2>2. /\ oj \in InodeType /\ oj.size = oi.size /\ oj.indirect = ind
        /\ oj.indirect2 = oi.indirect2
    BY <1>2, <2>1 DEF InodeType
  <2>3. Pointers(new, ino, oi)
    BY <1>2, <1>3, <1>4, <1>6, <2>1, PointersKept
  <2>4. Pointers(new, ino, oj)
    BY <1>4, <1>6, <2>1, <2>2, <2>3 DEF Pointers, MayPoint
  <2>5. /\ Plus(L, ind)[InoBlk(ino)] > 0 /\ Plus(L, ind)[ind] > 0
        /\ Minus(Plus(L, ind), ind) = L
    BY <1>2, <2>1, Returned
  <2>6. ind < g1.nextb /\ ind \in Cache!CachedBlock
    BY <1>4, <1>6, <2>1, <2>5, Found
  <2> QED BY <2>1, <2>2, <2>4, <2>5, <2>6
<1> HIDE DEF oj
<1>7. /\ Runs(g2, Plus(L, ind), new, W, D)
      /\ After(g1, g2)
      /\ Alive(g2) =>
           /\ g2.nextb = g1.nextb
           /\ \A i \in Ino : InoBlk(i) \in Cache!CachedBlock =>
                Inode(g2, i) = IF i = ino THEN oj ELSE Inode(g1, i)
  BY <1>4, <1>6, SetInoRuns
<1> HIDE DEF g2, g
<1>8. Alive(g2) => Alive(g1)
  BY <1>7 DEF After
<1>9. /\ Runs(g, Minus(Plus(L, ind), ind), new, W, D)
      /\ After(g2, g)
      /\ Alive(g) =>
           /\ g.nextb = g2.nextb
           /\ \A x \in Cache!CachedBlock : x < g2.nextb =>
                Holds(g, x).u = IF x = ind THEN [Holds(g2, x).u EXCEPT ![nblk - NDIRECT] = b]
                                ELSE Holds(g2, x).u
           /\ \A j \in Ino : InoBlk(j) \in Cache!CachedBlock => Inode(g, j) = Inode(g2, j)
  <2>1. Alive(g2) => /\ ind \in Nat /\ Plus(L, ind)[ind] > 0 /\ nblk - NDIRECT \in Word /\ b \in Nat
                     /\ new[ind].as = "ind" /\ new[ind].own \notin W
    <3> SUFFICES ASSUME Alive(g2)
                 PROVE  /\ ind \in Nat /\ Plus(L, ind)[ind] > 0 /\ nblk - NDIRECT \in Word
                        /\ b \in Nat /\ new[ind].as = "ind" /\ new[ind].own \notin W
      OBVIOUS
    <3>1. Alive(g1) /\ Alive(f)
      BY <1>5, <1>8
    <3>2. nblk - NDIRECT \in Word
      BY <3>1, Constants DEF Word
    <3> QED BY <1>4, <1>6, <3>1, <3>2 DEF Mine
  <2> QED BY <1>1, <1>7, <2>1, PointRuns
<1>10. Alive(g) => Alive(g2)
  BY <1>9 DEF After
<1>11. Runs(g, L, new, W, D)
  BY <1>6, <1>8, <1>9, <1>10, RunsSame
<1>12. After(f, g)
  <2>1. g1 \in Formatter /\ g2 \in Formatter /\ g \in Formatter
    BY <1>4, <1>7, <1>9 DEF Runs
  <2>2. After(f, g2)
    BY <1>3, <1>4, <1>7, <2>1, Chain
  <2> QED BY <1>3, <1>9, <2>1, <2>2, Chain
<1>13. ASSUME Alive(g)
       PROVE  /\ Relabels(Lab, new, f.nextb)
              /\ Inode(g, ino).size = Inode(f, ino).size
              /\ Lab[b] = Mine(ino, "dir") => Leads(g, new, ino, nblk)
  <2>1. Alive(f) /\ Alive(g1) /\ Alive(g2)
    BY <1>5, <1>8, <1>10, <1>13
  <2>2. Inode(g, ino) = oj /\ oj.size = oi.size /\ oj.indirect = ind
    BY <1>2, <1>6, <1>7, <1>9, <1>13, <2>1
  <2>3. /\ ind \in Cache!CachedBlock /\ new[ind] = Mine(ino, "ind") /\ nblk - NDIRECT \in Word
        /\ b \in Nat
    BY <1>4, <1>6, <2>1, Constants DEF Word
  <2>4. Holds(g, ind).u[nblk - NDIRECT] = b
    <3>1. Holds(g, ind).u = [Holds(g2, ind).u EXCEPT ![nblk - NDIRECT] = b]
      BY <1>6, <1>7, <1>9, <1>13, <2>1
    <3>2. Holds(g2, ind) \in Value
      <4>1. Sound(g2.cache)
        BY <1>7, <2>1 DEF Runs, Good
      <4> QED BY <2>3, <4>1, HeldTyped DEF Holds
    <3> HIDE DEF Holds
    <3>3. Holds(g2, ind).u \in [Word -> Int]
      BY <3>2 DEF Value
    <3> QED BY <2>3, <3>1, <3>3
  <2>5. ASSUME Lab[b] = Mine(ino, "dir") PROVE Leads(g, new, ino, nblk)
    <3>1. b < f.nextb
      BY <1>2, <1>3, <2>1, <2>3, <2>5, OwnedBefore
    <3>2. new[b] = Mine(ino, "dir")
      BY <1>4, <2>1, <2>3, <2>5, <3>1 DEF Relabels
    <3> QED BY <2>1, <2>2, <2>3, <2>4, <3>2 DEF Leads, LeadsIndirect
  <2> QED BY <1>2, <1>4, <2>1, <2>2, <2>5
<1> QED BY <1>11, <1>12, <1>13 DEF g, Stored

(* Word j of block ind2 leads to a block whose word i is b.                *)
Deeper(f, g, M, Lab, W, D, ino, ind2, j, i, b) ==
  \E new :
    /\ Runs(g, Minus(M, ind2), new, W, D)
    /\ After(f, g)
    /\ Alive(g) =>
         /\ Relabels(Lab, new, f.nextb)
         /\ \A k \in Ino : InoBlk(k) \in Cache!CachedBlock => Inode(g, k) = Inode(f, k)
         /\ ind2 \in Cache!CachedBlock /\ new[ind2] = Mine(ino, "ind2")
         /\ Lab[b] = Mine(ino, "dir") => LeadsIndirect(g, new, ino, Holds(g, ind2).u[j], i)

LEMMA PointDeepRuns ==
  ASSUME Sizes, NEW D \in Nat, NEW f, NEW M, NEW Lab, NEW W, Runs(f, M, Lab, W, D),
         NEW ino \in Nat, NEW ind2, NEW j, NEW i, NEW b, NEW n,
         Alive(f) => /\ ind2 \in Nat /\ M[ind2] > 0 /\ Lab[ind2] = Mine(ino, "ind2")
                     /\ ino \notin W /\ j \in Word /\ i \in Word /\ b \in Nat
                     /\ AtMost(M, n) /\ n <= 2 * D + 3
  PROVE  Deeper(f, PointDeep(f, ind2, j, i, b), M, Lab, W, D, ino, ind2, j, i, b)
<1> DEFINE old == Data(f, ind2).u[j]
           ind == PtrBlk(f, old)
           g1 == GetPtrBlk(f, old)
           g2 == SetU(g1, ind2, j, ind)
           g3 == Point(g2, ind, i, b)
           g == PointDeep(f, ind2, j, i, b)
<1>1. g = Put(g3, ind2)
  BY DEF PointDeep
<1>2. Alive(f) => /\ ind2 \in Cache!CachedBlock /\ ind2 < f.nextb /\ M \in Borrowed
                  /\ Labelled(Lab, f.nextb) /\ MayPoint(Lab, ino, old, "ind")
  <2> SUFFICES ASSUME Alive(f)
               PROVE  /\ ind2 \in Cache!CachedBlock /\ ind2 < f.nextb /\ M \in Borrowed
                      /\ Labelled(Lab, f.nextb) /\ MayPoint(Lab, ino, old, "ind")
    OBVIOUS
  <2>1. M \in Borrowed /\ Labelled(Lab, f.nextb) /\ Pointing(f, Lab)
    BY DEF Runs, Good
  <2>2. ind2 \in Cache!CachedBlock /\ ind2 < f.nextb /\ Data(f, ind2) = Holds(f, ind2)
    BY Found
  <2>3. Words(Lab, ino, Holds(f, ind2).u)
    BY <2>1, <2>2 DEF Pointing, Mine
  <2>4. j \in Word
    OBVIOUS
  <2> HIDE DEF Holds
  <2> QED BY <2>1, <2>2, <2>3, <2>4 DEF Words
<1>3. f \in Formatter /\ f.nextb \in Nat
  BY DEF Runs, Formatter
<1> HIDE DEF old
<1>4. PICK new : /\ Runs(g1, Plus(M, ind), new, W, D)
                 /\ After(f, g1)
                 /\ Alive(g1) =>
                      /\ Kept(f, g1) /\ Relabels(Lab, new, f.nextb)
                      /\ ind \in Nat /\ new[ind] = Mine(ino, "ind")
                      /\ Plus(M, ind) \in Borrowed /\ M \in Borrowed
  <2>1. Alive(f) => MayPoint(Lab, ino, old, "ind") /\ AtMost(M, n) /\ n <= 2 * D + 3
    BY <1>2
  <2> QED BY <2>1, PtrBlkRuns
<1> HIDE DEF ind, g1
<1>5. Alive(g1) => Alive(f)
  BY <1>4 DEF After
<1>6. ASSUME Alive(g1)
      PROVE  /\ Plus(M, ind)[ind2] > 0 /\ Plus(M, ind)[ind] > 0
             /\ new[ind2] = Mine(ino, "ind2") /\ ind # ind2
             /\ ind < g1.nextb /\ ind \in Cache!CachedBlock
             /\ Minus(Plus(M, ind), ind) = M
  <2>1. Alive(f) /\ ind \in Nat /\ M \in Borrowed
    BY <1>4, <1>5, <1>6
  <2>2. new[ind2] = Mine(ino, "ind2") /\ ind # ind2
    BY <1>2, <1>4, <1>6, <2>1 DEF Relabels, Mine
  <2>3. Plus(M, ind)[ind2] > 0 /\ Plus(M, ind)[ind] > 0 /\ Minus(Plus(M, ind), ind) = M
    BY <2>1, Returned
  <2>4. ind < g1.nextb /\ ind \in Cache!CachedBlock
    BY <1>4, <1>6, <2>1, <2>3, Found
  <2> QED BY <2>2, <2>3, <2>4
<1>7. /\ Runs(g2, Plus(M, ind), new, W, D)
      /\ After(g1, g2)
      /\ Alive(g2) =>
           /\ g2.nextb = g1.nextb
           /\ \A x \in Cache!CachedBlock :
                Holds(g2, x).u = IF x = ind2 THEN [Holds(g1, x).u EXCEPT ![j] = ind]
                                 ELSE Holds(g1, x).u
           /\ \A k \in Ino : InoBlk(k) \in Cache!CachedBlock => Inode(g2, k) = Inode(g1, k)
  <2>1. Alive(g1) =>
           /\ ind2 \in Nat /\ Plus(M, ind)[ind2] > 0 /\ j \in Word /\ ind \in Int /\ W \subseteq W
           /\ new[ind2].as \in {"dir", "ind", "ind2"}
           /\ new[ind2].as # "dir" => new[ind2].own \notin W
           /\ new[ind2].as = "ind2" => MayPoint(new, new[ind2].own, ind, "ind")
    BY <1>4, <1>5, <1>6 DEF Mine, MayPoint
  <2> QED BY <1>4, <2>1, SetURuns
<1> HIDE DEF g2, g3, g
<1>8. Alive(g2) => Alive(g1)
  BY <1>7 DEF After
<1>9. /\ Runs(g3, Minus(Plus(M, ind), ind), new, W, D)
      /\ After(g2, g3)
      /\ Alive(g3) =>
           /\ g3.nextb = g2.nextb
           /\ \A x \in Cache!CachedBlock : x < g2.nextb =>
                Holds(g3, x).u = IF x = ind THEN [Holds(g2, x).u EXCEPT ![i] = b]
                                ELSE Holds(g2, x).u
           /\ \A k \in Ino : InoBlk(k) \in Cache!CachedBlock => Inode(g3, k) = Inode(g2, k)
  <2>1. Alive(g2) => /\ ind \in Nat /\ Plus(M, ind)[ind] > 0 /\ i \in Word /\ b \in Nat
                     /\ new[ind].as = "ind" /\ new[ind].own \notin W
    BY <1>4, <1>5, <1>6, <1>8 DEF Mine
  <2> QED BY <1>7, <2>1, PointRuns DEF g3
<1>10. Alive(g3) => Alive(g2)
  BY <1>9 DEF After
<1>11. Runs(g3, M, new, W, D)
  BY <1>6, <1>8, <1>9, <1>10, RunsSame
<1>12. /\ Runs(g, Minus(M, ind2), new, W, D)
       /\ After(g3, g)
       /\ Alive(g) => Kept(g3, g) /\ g.nextb = g3.nextb
  <2>1. Alive(g3) => ind2 \in Nat /\ M[ind2] > 0
    BY <1>5, <1>8, <1>10
  <2> QED BY <1>1, <1>11, <2>1, PutRuns
<1>13. Alive(g) => Alive(g3)
  BY <1>12 DEF After
<1>14. After(f, g)
  <2>1. g1 \in Formatter /\ g2 \in Formatter /\ g3 \in Formatter /\ g \in Formatter
    BY <1>4, <1>7, <1>9, <1>12 DEF Runs
  <2>2. After(f, g2)
    BY <1>3, <1>4, <1>7, <2>1, Chain
  <2>3. After(f, g3)
    BY <1>3, <1>9, <2>1, <2>2, Chain
  <2> QED BY <1>3, <1>12, <2>1, <2>3, Chain
<1>15. ASSUME Alive(g)
       PROVE  /\ Relabels(Lab, new, f.nextb)
              /\ \A k \in Ino : InoBlk(k) \in Cache!CachedBlock => Inode(g, k) = Inode(f, k)
              /\ ind2 \in Cache!CachedBlock /\ new[ind2] = Mine(ino, "ind2")
              /\ Lab[b] = Mine(ino, "dir")
                   => LeadsIndirect(g, new, ino, Holds(g, ind2).u[j], i)
  <2>1. Alive(f) /\ Alive(g1) /\ Alive(g2) /\ Alive(g3)
    BY <1>5, <1>8, <1>10, <1>13, <1>15
  <2>2. \A k \in Ino : InoBlk(k) \in Cache!CachedBlock => Inode(g, k) = Inode(f, k)
    BY <1>4, <1>7, <1>9, <1>12, <1>15, <2>1 DEF Kept
  <2>3. \A x \in Cache!CachedBlock : x < g2.nextb => Holds(g, x).u = Holds(g3, x).u
    BY <1>9, <1>12, <1>15, <2>1 DEF Kept
  <2>4. /\ ind2 \in Cache!CachedBlock /\ ind \in Cache!CachedBlock /\ ind \in Nat
        /\ ind < g2.nextb /\ ind2 < g2.nextb /\ j \in Word /\ i \in Word /\ b \in Nat
    <3>1. f.nextb <= g1.nextb /\ g1.nextb \in Nat
      BY <1>4 DEF After, Runs, Formatter
    <3>2. ind2 < g1.nextb
      BY <1>2, <1>3, <2>1, <3>1
    <3> QED BY <1>2, <1>4, <1>6, <1>7, <2>1, <3>2
  <2>5. \A x \in Cache!CachedBlock : /\ Holds(g1, x).u \in [Word -> Int]
                                     /\ Holds(g2, x).u \in [Word -> Int]
    <3>1. Sound(g1.cache) /\ Sound(g2.cache)
      BY <1>4, <1>7, <2>1 DEF Runs, Good
    <3>2. \A x \in Cache!CachedBlock : Holds(g1, x) \in Value /\ Holds(g2, x) \in Value
      BY <3>1, HeldTyped DEF Holds
    <3> HIDE DEF Holds
    <3> QED BY <3>2 DEF Value
  <2>6. Holds(g, ind2).u[j] = ind
    <3>1. Holds(g3, ind2).u = Holds(g2, ind2).u
      BY <1>6, <1>9, <2>1, <2>4
    <3>2. Holds(g2, ind2).u = [Holds(g1, ind2).u EXCEPT ![j] = ind]
      BY <1>7, <2>1, <2>4
    <3> HIDE DEF Holds
    <3>3. Holds(g, ind2).u = [Holds(g1, ind2).u EXCEPT ![j] = ind]
      BY <2>3, <2>4, <3>1, <3>2
    <3> QED BY <2>4, <2>5, <3>3
  <2>7. Holds(g, ind).u[i] = b
    <3>1. Holds(g3, ind).u = [Holds(g2, ind).u EXCEPT ![i] = b]
      BY <1>9, <2>1, <2>4
    <3> HIDE DEF Holds
    <3>2. Holds(g, ind).u = [Holds(g2, ind).u EXCEPT ![i] = b]
      BY <2>3, <2>4, <3>1
    <3> QED BY <2>4, <2>5, <3>2
  <2>8. ASSUME Lab[b] = Mine(ino, "dir")
        PROVE  LeadsIndirect(g, new, ino, Holds(g, ind2).u[j], i)
    <3>1. b < f.nextb
      BY <1>2, <1>3, <2>1, <2>4, <2>8, OwnedBefore
    <3>2. new[b] = Mine(ino, "dir")
      BY <1>4, <2>1, <2>4, <2>8, <3>1 DEF Relabels
    <3> HIDE DEF Holds
    <3> QED BY <1>4, <2>1, <2>4, <2>6, <2>7, <3>2 DEF LeadsIndirect
  <2> QED BY <1>4, <1>6, <2>1, <2>2, <2>4, <2>8
<1> QED BY <1>12, <1>14, <1>15 DEF g, Deeper

(* Nothing but directories' blocks can be reached without their labels.    *)
LEMMA DoublyPlaces ==
  ASSUME Sizes, NEW nblk \in Nat, nblk >= NDIRECT + NINDIRECT, nblk < MAXFILEBLKS
  PROVE  LET off == nblk - NDIRECT - NINDIRECT
         IN  off \in Nat /\ off \div NINDIRECT \in Word /\ off % NINDIRECT \in Word
<1> DEFINE off == nblk - NDIRECT - NINDIRECT
<1>1. NDIRECT \in Nat /\ NINDIRECT \in Nat /\ NINDIRECT * NINDIRECT \in Nat
  BY Constants
<1>2. off \in Nat /\ off < NINDIRECT * NINDIRECT
  BY <1>1 DEF MAXFILEBLKS
<1> HIDE DEF off
<1> QED BY <1>2, Division DEF off

(* storeblk() in the doubly indirect block.                                *)
LEMMA StoreDoublyRuns ==
  ASSUME Sizes, NEW D \in Nat, NEW f, NEW L, NEW Lab, NEW W, Runs(f, L, Lab, W, D),
         NEW ino \in Nat, NEW b, NEW nblk, NEW n,
         Alive(f) => /\ ino \in Ino /\ L[InoBlk(ino)] > 0 /\ ino \notin W
                     /\ nblk \in Nat /\ nblk >= NDIRECT + NINDIRECT /\ nblk < MAXFILEBLKS
                     /\ b \in Nat /\ AtMost(L, n) /\ n + 1 <= 2 * D + 3
  PROVE  Stored(f, StoreDoubly(f, ino, b, nblk), L, Lab, W, D, ino, b, nblk)
<1> DEFINE oi == TheIno(f, ino)
           ind2 == PtrBlk(f, oi.indirect2)
           oj == [oi EXCEPT !.indirect2 = ind2]
           g1 == GetPtrBlk(f, oi.indirect2)
           g2 == SetIno(g1, ino, oj)
           off == nblk - NDIRECT - NINDIRECT
           j == off \div NINDIRECT
           i == off % NINDIRECT
           g == StoreDoubly(f, ino, b, nblk)
<1>1. g = PointDeep(g2, ind2, j, i, b)
  BY DEF StoreDoubly, WithIndirect2
<1>2. Alive(f) => /\ InoBlk(ino) \in Cache!CachedBlock /\ InoBlk(ino) \in Nat
                  /\ oi = Inode(f, ino) /\ oi \in InodeType /\ Pointers(Lab, ino, oi)
                  /\ L \in Borrowed /\ Labelled(Lab, f.nextb)
  <2> SUFFICES ASSUME Alive(f)
               PROVE  /\ InoBlk(ino) \in Cache!CachedBlock /\ InoBlk(ino) \in Nat
                      /\ oi = Inode(f, ino) /\ oi \in InodeType /\ Pointers(Lab, ino, oi)
                      /\ L \in Borrowed /\ Labelled(Lab, f.nextb)
    OBVIOUS
  <2>1. L \in Borrowed /\ Labelled(Lab, f.nextb)
    BY DEF Runs, Good
  <2>2. InoBlk(ino) \in Nat
    BY InodePlaces
  <2> QED BY <2>1, <2>2, InodeFound
<1>3. f \in Formatter /\ f.nextb \in Nat
  BY DEF Runs, Formatter
<1>20. Alive(f) => off \in Nat /\ j \in Word /\ i \in Word
  BY DoublyPlaces
<1> HIDE DEF oi, j, i
<1>4. PICK mid : /\ Runs(g1, Plus(L, ind2), mid, W, D)
                 /\ After(f, g1)
                 /\ Alive(g1) =>
                      /\ Kept(f, g1) /\ Relabels(Lab, mid, f.nextb)
                      /\ ind2 \in Nat /\ mid[ind2] = Mine(ino, "ind2")
                      /\ Plus(L, ind2) \in Borrowed /\ L \in Borrowed
  <2>1. Alive(f) => MayPoint(Lab, ino, oi.indirect2, "ind2") /\ AtMost(L, n) /\ n <= 2 * D + 3
    <3> SUFFICES ASSUME Alive(f)
                 PROVE  MayPoint(Lab, ino, oi.indirect2, "ind2") /\ n <= 2 * D + 3
      OBVIOUS
    <3>1. n \in Nat
      BY DEF AtMost
    <3> QED BY <1>2, <3>1 DEF Pointers
  <2> QED BY <2>1, PtrBlkRuns
<1> HIDE DEF ind2, g1
<1>5. Alive(g1) => Alive(f)
  BY <1>4 DEF After
<1>6. ASSUME Alive(g1)
      PROVE  /\ ino \in Ino /\ Plus(L, ind2)[InoBlk(ino)] > 0 /\ Plus(L, ind2)[ind2] > 0
             /\ oj \in InodeType /\ Pointers(mid, ino, oj) /\ ino \notin W
             /\ oj.size = oi.size /\ oj.indirect2 = ind2
             /\ Minus(Plus(L, ind2), ind2) = L
  <2>1. Alive(f) /\ ind2 \in Nat /\ L \in Borrowed
    BY <1>4, <1>5, <1>6
  <2>2. /\ oj \in InodeType /\ oj.size = oi.size /\ oj.indirect2 = ind2
        /\ oj.indirect = oi.indirect
    BY <1>2, <2>1 DEF InodeType
  <2>3. Pointers(mid, ino, oi)
    BY <1>2, <1>3, <1>4, <1>6, <2>1, PointersKept
  <2>4. Pointers(mid, ino, oj)
    BY <1>4, <1>6, <2>1, <2>2, <2>3 DEF Pointers, MayPoint
  <2>5. /\ Plus(L, ind2)[InoBlk(ino)] > 0 /\ Plus(L, ind2)[ind2] > 0
        /\ Minus(Plus(L, ind2), ind2) = L
    BY <1>2, <2>1, Returned
  <2> QED BY <2>1, <2>2, <2>4, <2>5
<1> HIDE DEF oj
<1>7. /\ Runs(g2, Plus(L, ind2), mid, W, D)
      /\ After(g1, g2)
      /\ Alive(g2) =>
           /\ g2.nextb = g1.nextb
           /\ \A x \in Ino : InoBlk(x) \in Cache!CachedBlock =>
                Inode(g2, x) = IF x = ino THEN oj ELSE Inode(g1, x)
  <2>1. Alive(g1) =>
          /\ ino \in Ino /\ Plus(L, ind2)[InoBlk(ino)] > 0 /\ oj \in InodeType
          /\ Pointers(mid, ino, oj) /\ W \subseteq W
          /\ ino \in W => /\ oj.size = Inode(g1, ino).size
                          /\ oj.direct = Inode(g1, ino).direct
                          /\ oj.indirect = Inode(g1, ino).indirect
                          /\ oj.indirect2 = Inode(g1, ino).indirect2
    BY <1>6
  <2>2. Runs(g1, Plus(L, ind2), mid, W, D)
    BY <1>4
  <2>3. g2 = SetIno(g1, ino, oj)
    OBVIOUS
  <2> HIDE DEF g2
  <2> QED BY ONLY Sizes, D \in Nat, <2>1, <2>2, <2>3, SetInoRuns
<1> HIDE DEF g2, g
<1>8. Alive(g2) => Alive(g1)
  BY <1>7 DEF After
<1>9. PICK new :
        /\ Runs(g, Minus(Plus(L, ind2), ind2), new, W, D)
        /\ After(g2, g)
        /\ Alive(g) =>
             /\ Relabels(mid, new, g2.nextb)
             /\ \A k \in Ino : InoBlk(k) \in Cache!CachedBlock => Inode(g, k) = Inode(g2, k)
             /\ ind2 \in Cache!CachedBlock /\ new[ind2] = Mine(ino, "ind2")
             /\ mid[b] = Mine(ino, "dir")
                  => LeadsIndirect(g, new, ino, Holds(g, ind2).u[j], i)
  <2>1. Alive(g2) =>
          /\ ind2 \in Nat /\ Plus(L, ind2)[ind2] > 0 /\ mid[ind2] = Mine(ino, "ind2")
          /\ ino \notin W /\ j \in Word /\ i \in Word /\ b \in Nat
          /\ AtMost(Plus(L, ind2), n + 1) /\ n + 1 <= 2 * D + 3
    BY <1>4, <1>5, <1>6, <1>8, <1>20, OneMoreBlock
  <2>2. Runs(g2, Plus(L, ind2), mid, W, D)
    BY <1>7
  <2>3. Deeper(g2, g, Plus(L, ind2), mid, W, D, ino, ind2, j, i, b)
    BY ONLY Sizes, D \in Nat, ino \in Nat, <1>1, <2>1, <2>2, PointDeepRuns
  <2> QED BY <2>3 DEF Deeper
<1>10. Alive(g) => Alive(g2)
  BY <1>9 DEF After
<1>11. Runs(g, L, new, W, D)
  BY <1>6, <1>8, <1>9, <1>10, RunsSame
<1>12. After(f, g) /\ (Alive(g) => Relabels(Lab, new, f.nextb))
  <2>1. g1 \in Formatter /\ g2 \in Formatter /\ g \in Formatter
    BY <1>4, <1>7, <1>9 DEF Runs
  <2>2. After(f, g2)
    BY <1>3, <1>4, <1>7, <2>1, Chain
  <2>3. Alive(g) => Relabels(Lab, mid, f.nextb) /\ Relabels(mid, new, g2.nextb)
    BY <1>4, <1>8, <1>9, <1>10
  <2> QED BY <1>3, <1>9, <2>1, <2>2, <2>3, Chain
<1>13. ASSUME Alive(g)
       PROVE  /\ Inode(g, ino).size = Inode(f, ino).size
              /\ Lab[b] = Mine(ino, "dir") => Leads(g, new, ino, nblk)
  <2>1. Alive(f) /\ Alive(g1) /\ Alive(g2)
    BY <1>5, <1>8, <1>10, <1>13
  <2>2. Inode(g, ino) = oj /\ oj.size = oi.size /\ oj.indirect2 = ind2
    BY <1>2, <1>6, <1>7, <1>9, <1>13, <2>1
  <2>3. ASSUME Lab[b] = Mine(ino, "dir") PROVE Leads(g, new, ino, nblk)
    <3>1. b < f.nextb
      BY <1>2, <1>3, <2>1, <2>3, OwnedBefore
    <3>2. mid[b] = Mine(ino, "dir")
      BY <1>4, <2>1, <2>3, <3>1 DEF Relabels
    <3>3. LeadsDoubly(g, new, ino, ind2, off)
      BY <1>9, <1>13, <3>2 DEF LeadsDoubly, j, i
    <3> QED BY <2>1, <2>2, <3>3 DEF Leads
  <2> QED BY <1>2, <2>1, <2>2, <2>3
<1> QED BY <1>11, <1>12, <1>13 DEF g, Stored

(* abort() for a full inode table or a file too large.                     *)
LEMMA DiesRuns ==
  ASSUME NEW D \in Nat, NEW f, NEW L, NEW Lab, NEW W, Runs(f, L, Lab, W, D),
         NEW reason \in {"file too large", "not enough inodes"}
  PROVE  LET g == Dies(f, reason)
         IN  \A M, new, X : Runs(g, M, new, X, D) /\ After(f, g) /\ ~Alive(g)
<1> DEFINE g == Dies(f, reason)
           d == Cache!Abort(f.cache, reason)
<1>1. f \in Formatter /\ f.nextb \in Nat /\ f.cache \in CacheType
  BY DEF Runs, Formatter
<1>2. CASE ~Alive(f)
  <2>1. g = f
    BY <1>1, <1>2, Unmoved
  <2> HIDE DEF g
  <2> QED BY <1>2, <2>1, StillDead DEF g
<1>3. CASE Alive(f)
  <2>1. reason \in Allowed(D) \cap Reason /\ reason # Cache!Fine
    BY DEF Allowed, Reason, Cache!Fine
  <2>2. d = [f.cache EXCEPT !.abort = reason]
    BY <1>3 DEF Alive, Cache!Abort
  <2>3. d \in CacheType /\ d.abort = reason
    BY <1>1, <2>1, <2>2 DEF CacheType
  <2>4. g = [f EXCEPT !.cache = d]
    BY DEF Dies
  <2> HIDE DEF d, g
  <2>5. g \in Formatter /\ g.cache.abort = reason /\ ~Alive(g) /\ After(f, g)
    BY <1>1, <1>3, <2>1, <2>3, <2>4, GivesUp
  <2> QED BY <2>1, <2>5 DEF Runs, g
<1> QED BY <1>2, <1>3

(* storeblk().  For a directory, that block is then found.                 *)
LEMMA StoreBlkRuns ==
  ASSUME Sizes, NEW D \in Nat, NEW f, NEW L, NEW Lab, NEW W, Runs(f, L, Lab, W, D),
         NEW ino \in Nat, NEW b, NEW nblk, NEW n,
         Alive(f) => /\ ino \in Ino /\ L[InoBlk(ino)] > 0 /\ ino \notin W
                     /\ nblk \in Nat /\ b \in Nat /\ AtMost(L, n) /\ n + 1 <= 2 * D + 3
  PROVE  Stored(f, StoreBlk(f, ino, b, nblk), L, Lab, W, D, ino, b, nblk)
<1> DEFINE g == StoreBlk(f, ino, b, nblk)
<1>0. Relabels(Lab, Lab, f.nextb)
  BY DEF Relabels
<1>1. CASE nblk < NDIRECT
  <2>1. g = StoreDirect(f, ino, b, nblk)
    BY <1>1 DEF StoreBlk
  <2> HIDE DEF g
  <2>2. Alive(f) => /\ ino \in Ino /\ L[InoBlk(ino)] > 0 /\ ino \notin W
                    /\ nblk \in Nat /\ nblk < NDIRECT /\ b \in Nat
    BY <1>1
  <2>3. /\ Runs(g, L, Lab, W, D)
        /\ After(f, g)
        /\ Alive(g) => /\ Inode(g, ino).size = Inode(f, ino).size
                       /\ Lab[b] = Mine(ino, "dir") => Leads(g, Lab, ino, nblk)
    BY <2>1, <2>2, StoreDirectRuns
  <2> QED BY <1>0, <2>3 DEF g, Stored
<1>2. CASE ~(nblk < NDIRECT) /\ nblk < NDIRECT + NINDIRECT
  <2>1. g = StoreIndirect(f, ino, b, nblk)
    BY <1>2 DEF StoreBlk
  <2>2. Alive(f) => /\ ino \in Ino /\ L[InoBlk(ino)] > 0 /\ ino \notin W
                    /\ nblk \in Nat /\ nblk >= NDIRECT /\ nblk < NDIRECT + NINDIRECT
                    /\ b \in Nat /\ AtMost(L, n) /\ n + 1 <= 2 * D + 3
    BY <1>2, Constants
  <2> HIDE DEF g
  <2> QED BY <2>1, <2>2, StoreIndirectRuns DEF g
<1>3. CASE ~(nblk < NDIRECT) /\ ~(nblk < NDIRECT + NINDIRECT) /\ nblk < MAXFILEBLKS
  <2>1. g = StoreDoubly(f, ino, b, nblk)
    BY <1>3 DEF StoreBlk
  <2>2. Alive(f) => /\ ino \in Ino /\ L[InoBlk(ino)] > 0 /\ ino \notin W
                    /\ nblk \in Nat /\ nblk >= NDIRECT + NINDIRECT /\ nblk < MAXFILEBLKS
                    /\ b \in Nat /\ AtMost(L, n) /\ n + 1 <= 2 * D + 3
    BY <1>3, Constants
  <2> HIDE DEF g
  <2> QED BY <2>1, <2>2, StoreDoublyRuns DEF g
<1>4. CASE ~(nblk < NDIRECT) /\ ~(nblk < NDIRECT + NINDIRECT) /\ ~(nblk < MAXFILEBLKS)
  <2>1. g = Dies(f, "file too large")
    BY <1>4 DEF StoreBlk
  <2> HIDE DEF g
  <2>2. Runs(g, L, Lab, W, D) /\ After(f, g) /\ ~Alive(g)
    BY <2>1, DiesRuns
  <2> QED BY <2>2 DEF g, Stored
<1> QED BY <1>1, <1>2, <1>3, <1>4

-----------------------------------------------------------------------------
(* allocdirentry().                                                        *)
LEMMA RunsLess ==
  ASSUME NEW D, NEW f, NEW L, NEW Lab, NEW W, Runs(f, L, Lab, W, D), NEW X \in SUBSET W
  PROVE  Runs(f, L, Lab, X, D)
BY DEF Runs, Good

(* A directory whose last block can be found is one more.                  *)
LEMMA RunsMore ==
  ASSUME NEW D, NEW f, NEW L, NEW Lab, NEW W, Runs(f, L, Lab, W, D), NEW w,
         Alive(f) => w \in Ino /\ Ended(f, Lab, w)
  PROVE  Runs(f, L, Lab, W \cup {w}, D)
BY DEF Runs, Good

(* The least of some natural numbers is one of them.                       *)
LEMMA LeastOfNaturals ==
  ASSUME NEW T \in SUBSET Nat, T # {}
  PROVE  Min(T) \in T
BY LeastNatural DEF Min

(* The block that ended the directory is lent out if it has room.          *)
LastPlace(f, at, L, Lab, W, D) ==
  /\ Runs(at.f, IF at.b = 0 THEN L ELSE Plus(L, at.b), Lab, W, D)
  /\ After(f, at.f)
  /\ Alive(at.f) /\ at.b # 0 => at.b \in Nat /\ Lab[at.b].as = "dir" /\ at.i \in Word

LEMMA LastLater ==
  ASSUME NEW f \in Formatter, NEW g \in Formatter, NEW at, NEW L, NEW Lab, NEW W, NEW D,
         LastPlace(g, at, L, Lab, W, D), After(f, g)
  PROVE  LastPlace(f, at, L, Lab, W, D)
<1>1. at.f \in Formatter /\ After(g, at.f)
  BY DEF LastPlace, Runs
<1>2. After(f, at.f)
  BY <1>1, Chain
<1> QED BY <1>2 DEF LastPlace

(* A free word in the last block, or the block is given back.              *)
LEMMA InLastRuns ==
  ASSUME Sizes, NEW D \in Nat, NEW f, NEW L, NEW Lab, NEW W, NEW b,
         Runs(f, Plus(L, b), Lab, W, D),
         Alive(f) => L \in Borrowed /\ b \in Nat /\ b # 0 /\ Lab[b].as = "dir"
  PROVE  LastPlace(f, InLast(f, b), L, Lab, W, D)
<1> DEFINE at == InLast(f, b)
           g == Put(f, b)
<1>1. f \in Formatter /\ f.nextb \in Nat
  BY DEF Runs, Formatter
<1>2. After(f, f)
  BY <1>1 DEF After
<1>3. CASE FreeIn(f, b) # {}
  <2> DEFINE i == Min(FreeIn(f, b))
  <2>1. i \in Word
    <3>1. FreeIn(f, b) \subseteq Word /\ FreeIn(f, b) \in SUBSET Nat
      BY Constants DEF FreeIn
    <3> QED BY <1>3, <3>1, LeastOfNaturals
  <2> HIDE DEF i
  <2>2. at = [b |-> b, i |-> i, f |-> f]
    BY <1>3 DEF InLast, i
  <2> HIDE DEF at
  <2>3. at.b = b /\ at.i = i /\ at.f = f
    BY <2>2
  <2>4. Runs(f, IF b = 0 THEN L ELSE Plus(L, b), Lab, W, D)
    <3>1. CASE Alive(f)
      BY <3>1
    <3>2. CASE ~Alive(f)
      BY <3>2, StillDead
    <3> QED BY <3>1, <3>2
  <2> QED BY <1>2, <2>1, <2>3, <2>4 DEF LastPlace, at
<1>4. CASE FreeIn(f, b) = {}
  <2>1. at = [b |-> 0, i |-> 0, f |-> g]
    BY <1>4 DEF InLast
  <2>2. Alive(f) => b \in Nat /\ Plus(L, b)[b] > 0 /\ Minus(Plus(L, b), b) = L
    BY Returned
  <2> HIDE DEF at, g
  <2>3. at.b = 0 /\ at.f = g
    BY <2>1
  <2>4. Runs(g, Minus(Plus(L, b), b), Lab, W, D) /\ After(f, g)
    BY <2>2, PutRuns DEF g
  <2>5. Alive(g) => Alive(f)
    BY <2>4 DEF After
  <2>6. Runs(g, L, Lab, W, D)
    BY <2>2, <2>4, <2>5, RunsSame
  <2> QED BY <2>3, <2>4, <2>6 DEF LastPlace, at
<1> QED BY <1>3, <1>4

(* The last block of a directory is fetched.                               *)
LEMMA DirFetched ==
  ASSUME Sizes, NEW D \in Nat, NEW f, NEW L, NEW Lab, NEW W, Runs(f, L, Lab, W, D),
         NEW dir \in Nat, NEW b, NEW n,
         Alive(f) => b \in Nat /\ Lab[b] = Mine(dir, "dir") /\ AtMost(L, n) /\ n <= 2 * D + 3
  PROVE  LET g == Look(f, b, "dir")
         IN  /\ Runs(g, Plus(L, b), Lab, W, D)
             /\ After(f, g)
             /\ Alive(g) => /\ Kept(f, g) /\ g.nextb = f.nextb
                            /\ L \in Borrowed /\ b \in Nat /\ b # 0 /\ Lab[b].as = "dir"
<1> DEFINE g == Look(f, b, "dir")
<1>0. g = Look(f, b, "dir")
  OBVIOUS
<1> HIDE DEF g
<1>1. "dir" \in Kind
  BY DEF Kind
<1>2. f.nextb \in Nat
  BY DEF Runs, Formatter
<1>3. Alive(f) => /\ b < f.nextb /\ b # 0 /\ TypeOf(Lab[b].as) = "dir" /\ Lab[b].as = "dir"
                  /\ L \in Borrowed
  <2> SUFFICES ASSUME Alive(f)
               PROVE  /\ b < f.nextb /\ b # 0 /\ TypeOf(Lab[b].as) = "dir" /\ Lab[b].as = "dir"
                      /\ L \in Borrowed
    OBVIOUS
  <2>1. Labelled(Lab, f.nextb) /\ L \in Borrowed
    BY DEF Runs, Good
  <2>2. Lab[b].as = "dir" /\ TypeOf(Lab[b].as) = "dir"
    BY DEF Mine, TypeOf
  <2>3. "dir" \in {"dir", "ind", "ind2"}
    OBVIOUS
  <2>4. b < f.nextb /\ b # 0
    BY <1>2, <2>1, <2>3, OwnedBefore
  <2> QED BY <2>1, <2>2, <2>4
<1>4. /\ Runs(g, Plus(L, b), Lab, W, D)
      /\ After(f, g)
      /\ Alive(g) => Kept(f, g) /\ g.nextb = f.nextb
  <2>1. Alive(f) => /\ b \in Nat /\ b < f.nextb /\ TypeOf(Lab[b].as) = "dir"
                    /\ AtMost(L, n) /\ n <= 2 * D + 3
    BY <1>3
  <2> QED BY <1>0, <1>1, <2>1, GetRuns
<1>5. Alive(g) => Alive(f)
  BY <1>4 DEF After
<1> QED BY <1>3, <1>4, <1>5 DEF g

(* The same of a block of pointers of the directory.                       *)
LEMMA PointersFetched ==
  ASSUME Sizes, NEW D \in Nat, NEW f, NEW L, NEW Lab, NEW W, Runs(f, L, Lab, W, D),
         NEW b, NEW n,
         Alive(f) => /\ b \in Nat /\ Lab[b].as \in {"ind", "ind2"}
                     /\ AtMost(L, n) /\ n <= 2 * D + 3
  PROVE  LET g == Look(f, b, "bits")
         IN  /\ Runs(g, Plus(L, b), Lab, W, D)
             /\ After(f, g)
             /\ Alive(g) => /\ Kept(f, g) /\ g.nextb = f.nextb
                            /\ L \in Borrowed /\ b < f.nextb
<1> DEFINE g == Look(f, b, "bits")
<1>0. g = Look(f, b, "bits")
  OBVIOUS
<1> HIDE DEF g
<1>1. "bits" \in Kind
  BY DEF Kind
<1>2. f.nextb \in Nat
  BY DEF Runs, Formatter
<1>3. Alive(f) => /\ b < f.nextb /\ TypeOf(Lab[b].as) = "bits" /\ L \in Borrowed
  <2> SUFFICES ASSUME Alive(f)
               PROVE  /\ b < f.nextb /\ TypeOf(Lab[b].as) = "bits" /\ L \in Borrowed
    OBVIOUS
  <2>1. Labelled(Lab, f.nextb) /\ L \in Borrowed
    BY DEF Runs, Good
  <2>2. TypeOf(Lab[b].as) = "bits"
    BY DEF TypeOf
  <2>3. b < f.nextb
    BY <1>2, <2>1 DEF Labelled
  <2> QED BY <2>1, <2>2, <2>3
<1>4. /\ Runs(g, Plus(L, b), Lab, W, D)
      /\ After(f, g)
      /\ Alive(g) => Kept(f, g) /\ g.nextb = f.nextb
  <2>1. Alive(f) => /\ b \in Nat /\ b < f.nextb /\ TypeOf(Lab[b].as) = "bits"
                    /\ AtMost(L, n) /\ n <= 2 * D + 3
    BY <1>3
  <2> QED BY <1>0, <1>1, <2>1, GetRuns
<1>5. Alive(g) => Alive(f)
  BY <1>4 DEF After
<1> QED BY <1>3, <1>4, <1>5 DEF g

(* What leads to the last block stays, if nothing is written.              *)
LEMMA LeadsStay ==
  ASSUME Sizes, NEW f \in Formatter, NEW g, NEW Lab, Labelled(Lab, f.nextb), Kept(f, g),
         NEW dir \in Nat, NEW b \in Nat, NEW k
  PROVE  /\ LeadsIndirect(f, Lab, dir, b, k) => LeadsIndirect(g, Lab, dir, b, k)
         /\ LeadsDoubly(f, Lab, dir, b, k) => LeadsDoubly(g, Lab, dir, b, k)
<1>1. f.nextb \in Nat
  BY DEF Formatter
<1>2. ASSUME NEW x, NEW j, LeadsIndirect(f, Lab, dir, x, j)
      PROVE  LeadsIndirect(g, Lab, dir, x, j)
  <2>1. x \in Cache!CachedBlock /\ x \in Nat /\ Lab[x] = Mine(dir, "ind")
    BY <1>2, Constants DEF LeadsIndirect, Cache!CachedBlock
  <2>2. x < f.nextb
    <3>1. "ind" \in {"dir", "ind", "ind2"}
      OBVIOUS
    <3> QED BY <1>1, <2>1, <3>1, OwnedBefore
  <2>3. Holds(g, x).u = Holds(f, x).u
    BY <2>1, <2>2 DEF Kept
  <2> QED BY <1>2, <2>3 DEF LeadsIndirect
<1>3. ASSUME LeadsDoubly(f, Lab, dir, b, k)
      PROVE  LeadsDoubly(g, Lab, dir, b, k)
  <2>1. b \in Cache!CachedBlock /\ Lab[b] = Mine(dir, "ind2")
    BY <1>3 DEF LeadsDoubly
  <2>2. b < f.nextb
    <3>1. "ind2" \in {"dir", "ind", "ind2"}
      OBVIOUS
    <3> QED BY <1>1, <2>1, <3>1, OwnedBefore
  <2>3. Holds(g, b).u = Holds(f, b).u
    BY <2>1, <2>2 DEF Kept
  <2> QED BY <1>2, <1>3, <2>3 DEF LeadsDoubly
<1> QED BY <1>2, <1>3

(* From a block of pointers to the block of the directory.                 *)
LEMMA ThroughRuns ==
  ASSUME Sizes, NEW D \in Nat, NEW f, NEW M, NEW Lab, NEW W, NEW ind,
         Runs(f, Plus(M, ind), Lab, W, D), NEW dir \in Nat, NEW i, NEW n,
         Alive(f) => /\ M \in Borrowed /\ ind \in Nat /\ LeadsIndirect(f, Lab, dir, ind, i)
                     /\ AtMost(M, n) /\ n + 1 <= 2 * D + 3
  PROVE  LET g == Through(f, ind, i)
             d == DirBlkIn(f, ind, i)
         IN  /\ Runs(g, Plus(M, d), Lab, W, D)
             /\ After(f, g)
             /\ Alive(g) => d \in Nat /\ d # 0 /\ Lab[d].as = "dir"
<1> DEFINE d == DirBlkIn(f, ind, i)
           h == Look(f, d, "dir")
           g == Through(f, ind, i)
<1>1. g = Put(h, ind)
  BY DEF Through, Look
<1>2. Alive(f) => /\ d \in Nat /\ Lab[d] = Mine(dir, "dir")
                  /\ AtMost(Plus(M, ind), n + 1) /\ n + 1 <= 2 * D + 3
  <2> SUFFICES ASSUME Alive(f)
               PROVE  d \in Nat /\ Lab[d] = Mine(dir, "dir") /\ AtMost(Plus(M, ind), n + 1)
    OBVIOUS
  <2>1. Plus(M, ind)[ind] > 0
    BY Returned
  <2>2. Data(f, ind) = Holds(f, ind)
    BY <2>1, Found
  <2>3. d \in Nat /\ Lab[d] = Mine(dir, "dir")
    BY <2>2 DEF LeadsIndirect, DirBlkIn
  <2> QED BY <2>3, OneMoreBlock
<1> HIDE DEF d, g
<1>3. /\ Runs(h, Plus(Plus(M, ind), d), Lab, W, D)
      /\ After(f, h)
      /\ Alive(h) => d \in Nat /\ d # 0 /\ Lab[d].as = "dir"
  BY <1>2, DirFetched
<1> HIDE DEF h
<1>4. Alive(h) => Alive(f)
  BY <1>3 DEF After
<1>5. Alive(h) => /\ ind \in Nat /\ M \in Borrowed /\ d \in Nat
                  /\ Plus(Plus(M, ind), d)[ind] > 0
                  /\ Minus(Plus(Plus(M, ind), d), ind) = Plus(M, d)
  <2> SUFFICES ASSUME Alive(h)
               PROVE  /\ Plus(Plus(M, ind), d)[ind] > 0
                      /\ Minus(Plus(Plus(M, ind), d), ind) = Plus(M, d)
    BY <1>3, <1>4
  <2>1. ind \in Nat /\ M \in Borrowed /\ d \in Nat
    BY <1>3, <1>4
  <2>2. Plus(M, ind) \in Borrowed /\ Plus(M, ind)[ind] > 0
    BY <2>1, Returned
  <2>3. Plus(Plus(M, ind), d)[ind] > 0
    BY <2>1, <2>2, Returned
  <2>4. Minus(Plus(Plus(M, ind), d), ind) = Plus(M, d)
    BY <2>1, Returned
  <2> QED BY <2>3, <2>4
<1>6. Runs(g, Minus(Plus(Plus(M, ind), d), ind), Lab, W, D) /\ After(h, g)
  BY <1>1, <1>3, <1>5, PutRuns
<1>7. Alive(g) => Alive(h)
  BY <1>6 DEF After
<1>8. Runs(g, Plus(M, d), Lab, W, D)
  BY <1>5, <1>6, <1>7, RunsSame
<1>9. After(f, g)
  <2>1. f \in Formatter /\ g \in Formatter /\ h \in Formatter
    BY <1>3, <1>6 DEF Runs
  <2> QED BY <1>3, <1>6, <2>1, Chain
<1> QED BY <1>3, <1>7, <1>8, <1>9 DEF g, d

(* The last block is in the inode.                                         *)
LEMMA LastDirectRuns ==
  ASSUME Sizes, NEW D \in Nat, NEW f, NEW L, NEW Lab, NEW W, Runs(f, L, Lab, W, D),
         NEW dir \in Nat, NEW b, NEW n,
         Alive(f) => b \in Nat /\ Lab[b] = Mine(dir, "dir") /\ AtMost(L, n) /\ n <= 2 * D + 3
  PROVE  LastPlace(f, LastDirect(f, b), L, Lab, W, D)
<1> DEFINE g == Look(f, b, "dir")
<1>1. LastDirect(f, b) = InLast(g, b)
  BY DEF LastDirect, Look
<1>2. /\ Runs(g, Plus(L, b), Lab, W, D)
      /\ After(f, g)
      /\ Alive(g) => L \in Borrowed /\ b \in Nat /\ b # 0 /\ Lab[b].as = "dir"
  BY DirFetched
<1> HIDE DEF g
<1>3. LastPlace(g, InLast(g, b), L, Lab, W, D)
  BY <1>2, InLastRuns
<1>4. f \in Formatter /\ g \in Formatter
  BY <1>2 DEF Runs
<1> QED BY <1>1, <1>2, <1>3, <1>4, LastLater

(* The last block is found through one block of pointers.                  *)
LEMMA LastIndirectRuns ==
  ASSUME Sizes, NEW D \in Nat, NEW f, NEW L, NEW Lab, NEW W, NEW ind,
         Runs(f, Plus(L, ind), Lab, W, D), NEW dir \in Nat, NEW i, NEW n,
         Alive(f) => /\ L \in Borrowed /\ ind \in Nat /\ LeadsIndirect(f, Lab, dir, ind, i)
                     /\ AtMost(L, n) /\ n + 1 <= 2 * D + 3
  PROVE  LastPlace(f, LastIndirect(f, ind, i), L, Lab, W, D)
<1> DEFINE d == DirBlkIn(f, ind, i)
           g == Through(f, ind, i)
<1>1. LastIndirect(f, ind, i) = InLast(g, d)
  BY DEF LastIndirect
<1>2. /\ Runs(g, Plus(L, d), Lab, W, D)
      /\ After(f, g)
      /\ Alive(g) => d \in Nat /\ d # 0 /\ Lab[d].as = "dir"
  BY ThroughRuns
<1> HIDE DEF g, d
<1>3. Alive(g) => L \in Borrowed
  BY <1>2 DEF After
<1>4. LastPlace(g, InLast(g, d), L, Lab, W, D)
  BY <1>2, <1>3, InLastRuns
<1>5. f \in Formatter /\ g \in Formatter
  BY <1>2 DEF Runs
<1> QED BY <1>1, <1>2, <1>4, <1>5, LastLater

(* The last block is found through two blocks of pointers.                 *)
LEMMA LastDeepRuns ==
  ASSUME Sizes, NEW D \in Nat, NEW f, NEW L, NEW Lab, NEW W, NEW ind, NEW ind2,
         Runs(f, Plus(Plus(L, ind2), ind), Lab, W, D), NEW dir \in Nat, NEW i, NEW n,
         Alive(f) => /\ L \in Borrowed /\ ind \in Nat /\ LeadsIndirect(f, Lab, dir, ind, i)
                     /\ ind2 \in Nat /\ AtMost(L, n) /\ n + 2 <= 2 * D + 3
  PROVE  LastPlace(f, LastDeep(f, ind, i, ind2), L, Lab, W, D)
<1> DEFINE d == DirBlkIn(f, ind, i)
           h == Through(f, ind, i)
           g == Put(h, ind2)
<1>1. LastDeep(f, ind, i, ind2) = InLast(g, d)
  BY DEF LastDeep
<1>2. /\ Runs(h, Plus(Plus(L, ind2), d), Lab, W, D)
      /\ After(f, h)
      /\ Alive(h) => d \in Nat /\ d # 0 /\ Lab[d].as = "dir"
  <2>1. Alive(f) =>
          /\ Plus(L, ind2) \in Borrowed /\ ind \in Nat /\ LeadsIndirect(f, Lab, dir, ind, i)
          /\ AtMost(Plus(L, ind2), n + 1) /\ (n + 1) + 1 <= 2 * D + 3
    <3> SUFFICES ASSUME Alive(f)
                 PROVE  /\ Plus(L, ind2) \in Borrowed /\ AtMost(Plus(L, ind2), n + 1)
                        /\ (n + 1) + 1 <= 2 * D + 3
      OBVIOUS
    <3>1. n \in Nat
      BY DEF AtMost
    <3> QED BY <3>1, Returned, OneMoreBlock
  <2> QED BY <2>1, ThroughRuns
<1> HIDE DEF h, d
<1>3. Alive(h) => Alive(f)
  BY <1>2 DEF After
<1>4. Alive(h) => /\ ind2 \in Nat /\ L \in Borrowed
                  /\ Plus(Plus(L, ind2), d)[ind2] > 0
                  /\ Minus(Plus(Plus(L, ind2), d), ind2) = Plus(L, d)
  <2> SUFFICES ASSUME Alive(h)
               PROVE  /\ Plus(Plus(L, ind2), d)[ind2] > 0
                      /\ Minus(Plus(Plus(L, ind2), d), ind2) = Plus(L, d)
    BY <1>3
  <2>1. ind2 \in Nat /\ L \in Borrowed /\ d \in Nat
    BY <1>2, <1>3
  <2>2. Plus(L, ind2) \in Borrowed /\ Plus(L, ind2)[ind2] > 0
    BY <2>1, Returned
  <2>3. Plus(Plus(L, ind2), d)[ind2] > 0
    BY <2>1, <2>2, Returned
  <2>4. Minus(Plus(Plus(L, ind2), d), ind2) = Plus(L, d)
    BY <2>1, Returned
  <2> QED BY <2>3, <2>4
<1>5. Runs(g, Minus(Plus(Plus(L, ind2), d), ind2), Lab, W, D) /\ After(h, g)
  BY <1>2, <1>4, PutRuns
<1> HIDE DEF g
<1>6. Alive(g) => Alive(h)
  BY <1>5 DEF After
<1>7. Runs(g, Plus(L, d), Lab, W, D)
  BY <1>4, <1>5, <1>6, RunsSame
<1>8. LastPlace(g, InLast(g, d), L, Lab, W, D)
  BY <1>2, <1>4, <1>6, <1>7, InLastRuns
<1>9. f \in Formatter /\ g \in Formatter /\ h \in Formatter
  BY <1>2, <1>5 DEF Runs
<1>10. After(f, g)
  BY <1>2, <1>5, <1>9, Chain
<1> QED BY <1>1, <1>8, <1>9, <1>10, LastLater

(* The same, from the doubly indirect block on.                            *)
LEMMA LastDoublyRuns ==
  ASSUME Sizes, NEW D \in Nat, NEW f, NEW L, NEW Lab, NEW W, NEW ind2,
         Runs(f, Plus(L, ind2), Lab, W, D), NEW dir \in Nat, NEW off, NEW n,
         Alive(f) => /\ L \in Borrowed /\ ind2 \in Nat /\ LeadsDoubly(f, Lab, dir, ind2, off)
                     /\ AtMost(L, n) /\ n + 2 <= 2 * D + 3
  PROVE  LastPlace(f, LastDoubly(f, ind2, off), L, Lab, W, D)
<1> DEFINE ind == Data(f, ind2).u[off \div NINDIRECT]
           i == off % NINDIRECT
           g == Look(f, ind, "bits")
<1>1. LastDoubly(f, ind2, off) = LastDeep(g, ind, i, ind2)
  BY DEF LastDoubly, Look
<1>2. Alive(f) => /\ ind \in Nat /\ Lab[ind] = Mine(dir, "ind")
                  /\ LeadsIndirect(f, Lab, dir, ind, i)
                  /\ AtMost(Plus(L, ind2), n + 1) /\ n + 1 <= 2 * D + 3
                  /\ Labelled(Lab, f.nextb)
  <2> SUFFICES ASSUME Alive(f)
               PROVE  /\ ind \in Nat /\ Lab[ind] = Mine(dir, "ind")
                      /\ LeadsIndirect(f, Lab, dir, ind, i)
                      /\ AtMost(Plus(L, ind2), n + 1) /\ n + 1 <= 2 * D + 3
                      /\ Labelled(Lab, f.nextb)
    OBVIOUS
  <2>1. Plus(L, ind2)[ind2] > 0
    BY Returned
  <2>2. Data(f, ind2) = Holds(f, ind2)
    BY <2>1, Found
  <2>3. LeadsIndirect(f, Lab, dir, ind, i)
    BY <2>2 DEF LeadsDoubly
  <2>4. ind \in Nat /\ Lab[ind] = Mine(dir, "ind")
    BY <2>3, Constants DEF LeadsIndirect, Cache!CachedBlock
  <2>5. n \in Nat
    BY DEF AtMost
  <2>6. Labelled(Lab, f.nextb)
    BY DEF Runs, Good
  <2> QED BY <2>3, <2>4, <2>5, <2>6, OneMoreBlock
<1> HIDE DEF ind, i
<1>3. /\ Runs(g, Plus(Plus(L, ind2), ind), Lab, W, D)
      /\ After(f, g)
      /\ Alive(g) => Kept(f, g)
  <2>1. Alive(f) => /\ ind \in Nat /\ Lab[ind].as \in {"ind", "ind2"}
                    /\ AtMost(Plus(L, ind2), n + 1) /\ n + 1 <= 2 * D + 3
    BY <1>2 DEF Mine
  <2> QED BY <2>1, PointersFetched
<1> HIDE DEF g
<1>4. Alive(g) => Alive(f)
  BY <1>3 DEF After
<1>5. f \in Formatter /\ g \in Formatter
  BY <1>3 DEF Runs
<1>6. Alive(g) => LeadsIndirect(g, Lab, dir, ind, i)
  <2> SUFFICES ASSUME Alive(g) PROVE LeadsIndirect(g, Lab, dir, ind, i)
    OBVIOUS
  <2>1. /\ ind \in Nat /\ LeadsIndirect(f, Lab, dir, ind, i) /\ Labelled(Lab, f.nextb)
        /\ Kept(f, g)
    BY <1>2, <1>3, <1>4
  <2> QED BY <1>5, <2>1, LeadsStay
<1>7. LastPlace(g, LastDeep(g, ind, i, ind2), L, Lab, W, D)
  <2>1. Alive(g) =>
          /\ L \in Borrowed /\ ind \in Nat /\ LeadsIndirect(g, Lab, dir, ind, i)
          /\ ind2 \in Nat /\ AtMost(L, n) /\ n + 2 <= 2 * D + 3
    BY <1>2, <1>4, <1>6
  <2> QED BY <1>3, <2>1, LastDeepRuns
<1> QED BY <1>1, <1>3, <1>5, <1>7, LastLater

(* The search for room in the last block of directory dir.                 *)
LEMMA InLastBlkRuns ==
  ASSUME Sizes, NEW D \in Nat, NEW f, NEW L, NEW Lab, NEW W, Runs(f, L, Lab, W, D),
         NEW dir \in Ino, NEW n,
         Alive(f) => /\ L[InoBlk(dir)] > 0 /\ dir \in W
                     /\ AtMost(L, n) /\ n + 2 <= 2 * D + 3
  PROVE  LastPlace(f, InLastBlk(f, dir), L, Lab, W, D)
<1> DEFINE oi == TheIno(f, dir)
           nblk == Size2NBlocks(oi.size) - 1
           at == InLastBlk(f, dir)
<1>1. f \in Formatter /\ f.nextb \in Nat /\ dir \in Nat
  BY Constants DEF Runs, Formatter
<1>2. Alive(f) => /\ oi = Inode(f, dir) /\ oi \in InodeType /\ L \in Borrowed
                  /\ Labelled(Lab, f.nextb) /\ n \in Nat
                  /\ ~(nblk < 0) => nblk \in Nat /\ Leads(f, Lab, dir, nblk)
  <2> SUFFICES ASSUME Alive(f)
               PROVE  /\ oi = Inode(f, dir) /\ oi \in InodeType /\ L \in Borrowed
                      /\ Labelled(Lab, f.nextb) /\ n \in Nat
                      /\ ~(nblk < 0) => nblk \in Nat /\ Leads(f, Lab, dir, nblk)
    OBVIOUS
  <2>1. oi = Inode(f, dir) /\ oi \in InodeType
    BY InodeFound
  <2>2. L \in Borrowed /\ Labelled(Lab, f.nextb) /\ Ended(f, Lab, dir)
    BY DEF Runs, Good
  <2>3. Size2NBlocks(oi.size) \in Nat
    BY <2>1, Division DEF InodeType
  <2>4. ~(nblk < 0) => nblk \in Nat /\ Size2NBlocks(oi.size) > 0
    BY <2>3
  <2>5. Size2NBlocks(oi.size) > 0 => Leads(f, Lab, dir, nblk)
    BY <2>1, <2>2 DEF Ended
  <2>6. n \in Nat
    BY DEF AtMost
  <2> HIDE DEF oi, nblk
  <2> QED BY <2>1, <2>2, <2>4, <2>5, <2>6
<1> HIDE DEF oi
<1>3. CASE nblk < 0
  <2>1. at = [b |-> 0, i |-> 0, f |-> f]
    BY <1>3 DEF InLastBlk, oi
  <2> HIDE DEF at
  <2>2. at.b = 0 /\ at.f = f
    BY <2>1
  <2>3. After(f, f)
    BY <1>1 DEF After
  <2> QED BY <2>2, <2>3 DEF LastPlace, at
<1>4. CASE ~(nblk < 0) /\ nblk < NDIRECT
  <2> DEFINE b == oi.direct[nblk]
  <2>1. at = LastDirect(f, b)
    BY <1>4 DEF InLastBlk, oi
  <2>2. Alive(f) => b \in Nat /\ Lab[b] = Mine(dir, "dir") /\ AtMost(L, n) /\ n <= 2 * D + 3
    <3> SUFFICES ASSUME Alive(f)
                 PROVE  b \in Nat /\ Lab[b] = Mine(dir, "dir") /\ n <= 2 * D + 3
      OBVIOUS
    <3>1. nblk \in Nat /\ nblk \in 0 .. NDIRECT-1
      BY <1>2, <1>4, Constants
    <3>2. b \in Nat
      BY <1>2, <3>1 DEF InodeType
    <3>3. Lab[b] = Mine(dir, "dir")
      BY <1>2, <1>4, <3>1, Constants DEF Leads
    <3> QED BY <1>2, <3>2, <3>3
  <2> HIDE DEF at, nblk, b
  <2> QED BY <1>1, <2>1, <2>2, LastDirectRuns DEF at
<1>5. CASE ~(nblk < 0) /\ ~(nblk < NDIRECT) /\ nblk < NDIRECT + NINDIRECT
  <2> DEFINE ind == oi.indirect
             i == nblk - NDIRECT
             g == Look(f, ind, "bits")
  <2>1. at = LastIndirect(g, ind, i)
    BY <1>5 DEF InLastBlk, oi, Look
  <2>2. Alive(f) => /\ ind \in Nat /\ Lab[ind] = Mine(dir, "ind")
                    /\ LeadsIndirect(f, Lab, dir, ind, i)
                    /\ AtMost(L, n) /\ n <= 2 * D + 3
    <3> SUFFICES ASSUME Alive(f)
                 PROVE  /\ ind \in Nat /\ Lab[ind] = Mine(dir, "ind")
                        /\ LeadsIndirect(f, Lab, dir, ind, i) /\ n <= 2 * D + 3
      OBVIOUS
    <3>1. ind \in Nat
      BY <1>2 DEF InodeType
    <3>2. LeadsIndirect(f, Lab, dir, ind, i)
      BY <1>2, <1>5, Constants DEF Leads
    <3>3. Lab[ind] = Mine(dir, "ind")
      BY <3>2 DEF LeadsIndirect
    <3> QED BY <1>2, <3>1, <3>2, <3>3
  <2> HIDE DEF at, ind, i
  <2>3. /\ Runs(g, Plus(L, ind), Lab, W, D)
        /\ After(f, g)
        /\ Alive(g) => Kept(f, g)
    <3>1. Alive(f) => /\ ind \in Nat /\ Lab[ind].as \in {"ind", "ind2"}
                      /\ AtMost(L, n) /\ n <= 2 * D + 3
      BY <2>2 DEF Mine
    <3> QED BY <1>1, <3>1, PointersFetched
  <2> HIDE DEF g
  <2>4. Alive(g) => Alive(f)
    BY <2>3 DEF After
  <2>5. g \in Formatter
    BY <2>3 DEF Runs
  <2>6. Alive(g) => LeadsIndirect(g, Lab, dir, ind, i)
    <3> SUFFICES ASSUME Alive(g) PROVE LeadsIndirect(g, Lab, dir, ind, i)
      OBVIOUS
    <3>1. /\ ind \in Nat /\ LeadsIndirect(f, Lab, dir, ind, i) /\ Labelled(Lab, f.nextb)
          /\ Kept(f, g)
      BY <1>2, <2>2, <2>3, <2>4
    <3> QED BY <1>1, <3>1, LeadsStay
  <2>7. LastPlace(g, at, L, Lab, W, D)
    <3>1. Alive(g) =>
            /\ L \in Borrowed /\ ind \in Nat /\ LeadsIndirect(g, Lab, dir, ind, i)
            /\ AtMost(L, n) /\ n + 1 <= 2 * D + 3
      BY <1>2, <2>2, <2>4, <2>6
    <3> QED BY <1>1, <2>1, <2>3, <3>1, LastIndirectRuns
  <2> QED BY <1>1, <2>3, <2>5, <2>7, LastLater DEF at
<1>6. CASE ~(nblk < 0) /\ ~(nblk < NDIRECT) /\ ~(nblk < NDIRECT + NINDIRECT)
  <2> DEFINE ind2 == oi.indirect2
             off == nblk - NDIRECT - NINDIRECT
             g == Look(f, ind2, "bits")
  <2>1. at = LastDoubly(g, ind2, off)
    BY <1>6 DEF InLastBlk, oi, Look
  <2>2. Alive(f) => /\ ind2 \in Nat /\ Lab[ind2] = Mine(dir, "ind2")
                    /\ LeadsDoubly(f, Lab, dir, ind2, off)
                    /\ AtMost(L, n) /\ n <= 2 * D + 3
    <3> SUFFICES ASSUME Alive(f)
                 PROVE  /\ ind2 \in Nat /\ Lab[ind2] = Mine(dir, "ind2")
                        /\ LeadsDoubly(f, Lab, dir, ind2, off) /\ n <= 2 * D + 3
      OBVIOUS
    <3>1. ind2 \in Nat
      BY <1>2 DEF InodeType
    <3>2. LeadsDoubly(f, Lab, dir, ind2, off)
      BY <1>2, <1>6, Constants DEF Leads
    <3>3. Lab[ind2] = Mine(dir, "ind2")
      BY <3>2 DEF LeadsDoubly
    <3> QED BY <1>2, <3>1, <3>2, <3>3
  <2> HIDE DEF at, ind2, off
  <2>3. /\ Runs(g, Plus(L, ind2), Lab, W, D)
        /\ After(f, g)
        /\ Alive(g) => Kept(f, g)
    <3>1. Alive(f) => /\ ind2 \in Nat /\ Lab[ind2].as \in {"ind", "ind2"}
                      /\ AtMost(L, n) /\ n <= 2 * D + 3
      BY <2>2 DEF Mine
    <3> QED BY <1>1, <3>1, PointersFetched
  <2> HIDE DEF g
  <2>4. Alive(g) => Alive(f)
    BY <2>3 DEF After
  <2>5. g \in Formatter
    BY <2>3 DEF Runs
  <2>6. Alive(g) => LeadsDoubly(g, Lab, dir, ind2, off)
    <3> SUFFICES ASSUME Alive(g) PROVE LeadsDoubly(g, Lab, dir, ind2, off)
      OBVIOUS
    <3>1. /\ ind2 \in Nat /\ LeadsDoubly(f, Lab, dir, ind2, off) /\ Labelled(Lab, f.nextb)
          /\ Kept(f, g)
      BY <1>2, <2>2, <2>3, <2>4
    <3> QED BY <1>1, <3>1, LeadsStay
  <2>7. LastPlace(g, at, L, Lab, W, D)
    <3>1. Alive(g) =>
            /\ L \in Borrowed /\ ind2 \in Nat /\ LeadsDoubly(g, Lab, dir, ind2, off)
            /\ AtMost(L, n) /\ n + 2 <= 2 * D + 3
      BY <1>2, <2>2, <2>4, <2>6
    <3> QED BY <1>1, <2>1, <2>3, <3>1, LastDoublyRuns
  <2> QED BY <1>1, <2>3, <2>5, <2>7, LastLater DEF at
<1> QED BY <1>3, <1>4, <1>5, <1>6

(* The place of a directory entry is at, in a block of a directory that is *)
(* lent out, and f has become at.f.                                        *)
EntryPlace(f, at, L, W, D) ==
  \E new : /\ Runs(at.f, Plus(L, at.b), new, W, D)
           /\ After(f, at.f)
           /\ Alive(at.f) => at.b \in Nat /\ new[at.b].as = "dir" /\ at.i \in Word

(* A block more makes the directory longer by one.                         *)
LEMMA NewDirBlkRuns ==
  ASSUME Sizes, NEW D \in Nat, NEW f, NEW L, NEW Lab, NEW W, Runs(f, L, Lab, W, D),
         NEW dir \in Ino, NEW n,
         Alive(f) => L[InoBlk(dir)] > 0 /\ AtMost(L, n) /\ n + 2 <= 2 * D + 3
  PROVE  EntryPlace(f, NewDirBlk(f, dir), L, W, D)
<1> DEFINE nblk == Size2NBlocks(TheIno(f, dir).size)
           b == f.nextb
           X == W \ {dir}
           g1 == NewBlk(f, "dir")
           g2 == StoreBlk(g1, dir, b, nblk)
           oj == [TheIno(g2, dir) EXCEPT !.size = @ + NINDIRECT]
           g3 == SetIno(g2, dir, oj)
           at == NewDirBlk(f, dir)
<1>1. at.b = b /\ at.i = 0 /\ at.f = g3
  BY DEF NewDirBlk
<1>2. f \in Formatter /\ b \in Nat /\ dir \in Nat /\ 0 \in Word /\ "dir" \in Kind
      /\ "dir" \in Uses /\ TypeOf("dir") = "dir"
  BY Constants DEF Runs, Formatter, Word, Kind, Uses, TypeOf
<1>3. Alive(f) => /\ nblk \in Nat /\ Inode(f, dir) \in InodeType
                  /\ nblk = Size2NBlocks(Inode(f, dir).size) /\ n \in Nat /\ L \in Borrowed
                  /\ InoBlk(dir) \in Nat /\ InoBlk(dir) \in Cache!CachedBlock
  <2> SUFFICES ASSUME Alive(f)
               PROVE  /\ nblk \in Nat /\ Inode(f, dir) \in InodeType
                      /\ nblk = Size2NBlocks(Inode(f, dir).size) /\ n \in Nat /\ L \in Borrowed
                      /\ InoBlk(dir) \in Nat /\ InoBlk(dir) \in Cache!CachedBlock
    OBVIOUS
  <2>1. /\ TheIno(f, dir) = Inode(f, dir) /\ Inode(f, dir) \in InodeType
        /\ InoBlk(dir) \in Cache!CachedBlock
    BY InodeFound
  <2>2. n \in Nat /\ L \in Borrowed
    BY DEF AtMost
  <2>3. Size2NBlocks(Inode(f, dir).size) \in Nat
    BY <2>1, Division DEF InodeType
  <2>4. InoBlk(dir) \in Nat
    BY InodePlaces
  <2> QED BY <2>1, <2>2, <2>3, <2>4
<1> HIDE DEF nblk, at
<1>4. PICK lab1 : /\ Runs(g1, Plus(L, b), lab1, W, D)
                  /\ After(f, g1)
                  /\ Alive(g1) => Kept(f, g1) /\ lab1[b] = Mine(dir, "dir")
                  /\ g1.nextb = b + 1
  <2>1. Alive(f) => AtMost(L, n) /\ n <= 2 * D + 3
    BY <1>3
  <2> HIDE DEF g1
  <2>2. LET new == Given(Lab, b, dir, "dir")
        IN  /\ Runs(g1, Plus(L, b), new, W, D)
            /\ After(f, g1) /\ g1.nextb = b + 1
            /\ Alive(g1) => Kept(f, g1) /\ new[b] = Mine(dir, "dir")
    BY <1>2, <2>1, NewBlkRuns DEF g1
  <2> QED BY <2>2
<1> HIDE DEF g1
<1>5. Alive(g1) => Alive(f)
  BY <1>4 DEF After
<1>6. Stored(g1, g2, Plus(L, b), lab1, X, D, dir, b, nblk)
  <2>1. Runs(g1, Plus(L, b), lab1, X, D)
    BY <1>4, RunsLess
  <2>2. Alive(g1) =>
          /\ dir \in Ino /\ Plus(L, b)[InoBlk(dir)] > 0 /\ dir \notin X
          /\ nblk \in Nat /\ b \in Nat /\ AtMost(Plus(L, b), n + 1) /\ (n + 1) + 1 <= 2 * D + 3
    <3> SUFFICES ASSUME Alive(g1)
                 PROVE  /\ Plus(L, b)[InoBlk(dir)] > 0
                        /\ nblk \in Nat /\ AtMost(Plus(L, b), n + 1) /\ (n + 1) + 1 <= 2 * D + 3
      BY <1>2
    <3>1. Alive(f)
      BY <1>5
    <3>2. Plus(L, b)[InoBlk(dir)] > 0
      BY <1>2, <1>3, <3>1, Returned
    <3> QED BY <1>3, <3>1, <3>2, OneMoreBlock
  <2> HIDE DEF X
  <2> QED BY <1>2, <2>1, <2>2, StoreBlkRuns
<1> HIDE DEF g2
<1>7. PICK lab2 :
        /\ Runs(g2, Plus(L, b), lab2, X, D)
        /\ After(g1, g2)
        /\ Alive(g2) => /\ Relabels(lab1, lab2, g1.nextb)
                        /\ Inode(g2, dir).size = Inode(g1, dir).size
                        /\ lab1[b] = Mine(dir, "dir") => Leads(g2, lab2, dir, nblk)
  BY <1>6 DEF Stored
<1>8. Alive(g2) => Alive(g1)
  BY <1>7 DEF After
<1>9. ASSUME Alive(g2)
      PROVE  /\ Plus(L, b)[InoBlk(dir)] > 0 /\ oj \in InodeType /\ Pointers(lab2, dir, oj)
             /\ oj.size = Inode(f, dir).size + NINDIRECT
             /\ oj.direct = Inode(g2, dir).direct
             /\ oj.indirect = Inode(g2, dir).indirect
             /\ oj.indirect2 = Inode(g2, dir).indirect2
             /\ Leads(g2, lab2, dir, nblk) /\ Inode(g2, dir) \in InodeType
             /\ Labelled(lab2, g2.nextb) /\ g2.nextb \in Nat
  <2>1. Alive(f) /\ Alive(g1)
    BY <1>5, <1>8, <1>9
  <2>2. Plus(L, b)[InoBlk(dir)] > 0
    BY <1>2, <1>3, <2>1, Returned
  <2>3. /\ TheIno(g2, dir) = Inode(g2, dir) /\ Inode(g2, dir) \in InodeType
        /\ Pointers(lab2, dir, Inode(g2, dir))
    BY <1>7, <1>9, <2>2, InodeFound
  <2> DEFINE oi == Inode(g2, dir)
  <2>4. oj = [oi EXCEPT !.size = @ + NINDIRECT] /\ oi \in InodeType
    BY <2>3
  <2> HIDE DEF oi, oj
  <2>5. /\ oj \in InodeType /\ oj.size = oi.size + NINDIRECT /\ oj.direct = oi.direct
        /\ oj.indirect = oi.indirect /\ oj.indirect2 = oi.indirect2
    <3>1. oi.size + NINDIRECT \in Nat
      <4>1. oi.size \in Nat
        BY <2>4 DEF InodeType
      <4> QED BY <4>1, Constants
    <3>2. oj = [oi EXCEPT !.size = oi.size + NINDIRECT]
      BY <2>4
    <3> DEFINE s == oi.size + NINDIRECT
    <3>3. s \in Nat /\ oj = [oi EXCEPT !.size = s]
      BY <3>1, <3>2
    <3> HIDE DEF s
    <3>4. /\ oj \in InodeType /\ oj.size = s /\ oj.direct = oi.direct
          /\ oj.indirect = oi.indirect /\ oj.indirect2 = oi.indirect2
      BY <2>4, <3>3 DEF InodeType
    <3> QED BY <3>4 DEF s
  <2>6. Pointers(lab2, dir, oj)
    BY <2>3, <2>5 DEF Pointers, oi
  <2>7. oi.size = Inode(f, dir).size
    BY <1>3, <1>4, <1>7, <1>9, <2>1 DEF Kept, oi
  <2>8. Leads(g2, lab2, dir, nblk)
    BY <1>4, <1>7, <1>9, <2>1
  <2>9. Labelled(lab2, g2.nextb) /\ g2.nextb \in Nat
    BY <1>7, <1>9 DEF Runs, Good, Formatter
  <2> QED BY <2>2, <2>3, <2>5, <2>6, <2>7, <2>8, <2>9 DEF oi
<1> HIDE DEF oj
<1>10. /\ Runs(g3, Plus(L, b), lab2, X, D)
       /\ After(g2, g3)
       /\ Alive(g3) =>
            /\ \A x \in Cache!CachedBlock : Holds(g3, x).u = Holds(g2, x).u
            /\ \A i \in Ino : InoBlk(i) \in Cache!CachedBlock =>
                 Inode(g3, i) = IF i = dir THEN oj ELSE Inode(g2, i)
  <2>1. Alive(g2) =>
          /\ dir \in Ino /\ Plus(L, b)[InoBlk(dir)] > 0 /\ oj \in InodeType
          /\ Pointers(lab2, dir, oj) /\ X \subseteq X
          /\ dir \in X => /\ oj.size = Inode(g2, dir).size
                          /\ oj.direct = Inode(g2, dir).direct
                          /\ oj.indirect = Inode(g2, dir).indirect
                          /\ oj.indirect2 = Inode(g2, dir).indirect2
    BY <1>9
  <2>3. g3 = SetIno(g2, dir, oj)
    OBVIOUS
  <2>4. Runs(g2, Plus(L, b), lab2, X, D)
    BY <1>7
  <2> HIDE DEF g3, X
  <2> QED BY ONLY Sizes, D \in Nat, <2>1, <2>3, <2>4, SetInoRuns
<1> HIDE DEF g3
<1>11. Alive(g3) => Alive(g2)
  BY <1>10 DEF After
<1>12. ASSUME Alive(g3)
       PROVE  dir \in Ino /\ Ended(g3, lab2, dir)
  <2>1. Alive(f) /\ Alive(g2)
    BY <1>5, <1>8, <1>11, <1>12
  <2>2. Inode(g3, dir) = oj
    BY <1>3, <1>10, <1>12, <2>1
  <2>3. Leads(g3, lab2, dir, nblk)
    <3>1. Relabels(lab2, lab2, g2.nextb)
      BY DEF Relabels
    <3>2. /\ Inode(g3, dir).direct = Inode(g2, dir).direct
          /\ Inode(g3, dir).indirect = Inode(g2, dir).indirect
          /\ Inode(g3, dir).indirect2 = Inode(g2, dir).indirect2
      BY <1>9, <2>1, <2>2
    <3>3. \A x \in Cache!CachedBlock :
            x < g2.nextb /\ lab2[x].own = dir /\ lab2[x].as \in {"ind", "ind2"}
              => Holds(g3, x).u = Holds(g2, x).u
      BY <1>10, <1>12
    <3>4. /\ g2.nextb \in Nat /\ Labelled(lab2, g2.nextb) /\ nblk \in Nat
          /\ Inode(g2, dir) \in InodeType /\ Leads(g2, lab2, dir, nblk)
      BY <1>3, <1>9, <2>1
    <3> QED BY ONLY Sizes, dir \in Ino, <3>1, <3>2, <3>3, <3>4, LeadsKept
  <2>4. Size2NBlocks(oj.size) = nblk + 1 /\ nblk \in Nat
    BY <1>3, <1>9, <2>1, Division DEF InodeType
  <2> QED BY <1>3, <2>1, <2>2, <2>3, <2>4 DEF Ended
<1>13. Runs(g3, Plus(L, b), lab2, X \cup {dir}, D)
  BY <1>10, <1>12, RunsMore
<1>14. Runs(g3, Plus(L, b), lab2, W, D)
  <2>1. W \in SUBSET (X \cup {dir})
    OBVIOUS
  <2> HIDE DEF X
  <2> QED BY <1>13, <2>1, RunsLess
<1>15. After(f, g3)
  <2>1. g1 \in Formatter /\ g2 \in Formatter /\ g3 \in Formatter
    BY <1>4, <1>7, <1>10 DEF Runs
  <2>2. After(f, g2)
    BY <1>2, <1>4, <1>7, <2>1, Chain
  <2> QED BY <1>2, <1>10, <2>1, <2>2, Chain
<1>16. Alive(g3) => lab2[b].as = "dir"
  <2> SUFFICES ASSUME Alive(g3) PROVE lab2[b].as = "dir"
    OBVIOUS
  <2>1. lab1[b] = Mine(dir, "dir") /\ Relabels(lab1, lab2, g1.nextb)
    BY <1>4, <1>7, <1>8, <1>11
  <2>2. lab2[b] = Mine(dir, "dir")
    BY <1>2, <1>4, <2>1 DEF Relabels
  <2> QED BY <2>2 DEF Mine
<1> QED BY <1>1, <1>2, <1>14, <1>15, <1>16 DEF EntryPlace, at

(* A new block is taken where the last one is full.                        *)
LEMMA OrNewBlkRuns ==
  ASSUME Sizes, NEW D \in Nat, NEW f \in Formatter, NEW at, NEW L, NEW Lab, NEW W,
         LastPlace(f, at, L, Lab, W, D), NEW dir \in Ino, NEW n,
         Alive(f) => L[InoBlk(dir)] > 0 /\ AtMost(L, n) /\ n + 2 <= 2 * D + 3
  PROVE  EntryPlace(f, OrNewBlk(at, dir), L, W, D)
<1> DEFINE g == OrNewBlk(at, dir)
<1>1. After(f, at.f) /\ at.f \in Formatter
  BY DEF LastPlace, Runs
<1>2. Alive(at.f) => Alive(f)
  BY <1>1 DEF After
<1>3. CASE at.b = 0
  <2>1. g = NewDirBlk(at.f, dir)
    BY <1>3 DEF OrNewBlk
  <2>2. Runs(at.f, L, Lab, W, D)
    BY <1>3 DEF LastPlace
  <2> HIDE DEF g
  <2>3. EntryPlace(at.f, g, L, W, D)
    <3>1. Alive(at.f) => L[InoBlk(dir)] > 0 /\ AtMost(L, n) /\ n + 2 <= 2 * D + 3
      BY <1>2
    <3> QED BY <2>1, <2>2, <3>1, NewDirBlkRuns
  <2>4. PICK new : /\ Runs(g.f, Plus(L, g.b), new, W, D)
                   /\ After(at.f, g.f)
                   /\ Alive(g.f) => g.b \in Nat /\ new[g.b].as = "dir" /\ g.i \in Word
    BY <2>3 DEF EntryPlace
  <2>5. After(f, g.f)
    <3>1. g.f \in Formatter
      BY <2>4 DEF Runs
    <3> QED BY <1>1, <2>4, <3>1, Chain
  <2> QED BY <2>4, <2>5 DEF EntryPlace, g
<1>4. CASE at.b # 0
  <2>1. g = at
    BY <1>4 DEF OrNewBlk
  <2> HIDE DEF g
  <2> QED BY <1>1, <1>4, <2>1 DEF LastPlace, EntryPlace, g
<1> QED BY <1>3, <1>4

(* The name is written into the entry.                                     *)
LEMMA WithNameRuns ==
  ASSUME Sizes, NEW D \in Nat, NEW f \in Formatter, NEW at, NEW L, NEW W,
         EntryPlace(f, at, L, W, D), NEW name \in Names,
         Alive(f) => L \in Borrowed,
         at = [b |-> at.b, i |-> at.i, f |-> at.f]
  PROVE  EntryPlace(f, WithName(at, name), L, W, D)
<1> DEFINE data == [Data(at.f, at.b) EXCEPT !.names[at.i] = name]
           h == SetData(at.f, at.b, data)
           g == WithName(at, name)
<1>1. g = [at EXCEPT !.f = h]
  BY DEF WithName
<1>2. PICK new : /\ Runs(at.f, Plus(L, at.b), new, W, D)
                 /\ After(f, at.f)
                 /\ Alive(at.f) => at.b \in Nat /\ new[at.b].as = "dir" /\ at.i \in Word
  BY DEF EntryPlace
<1>3. Alive(at.f) => Alive(f)
  BY <1>2 DEF After
<1>4. Alive(at.f) => data \in Value /\ Plus(L, at.b)[at.b] > 0
  <2> SUFFICES ASSUME Alive(at.f) PROVE data \in Value /\ Plus(L, at.b)[at.b] > 0
    OBVIOUS
  <2>1. Plus(L, at.b)[at.b] > 0
    BY <1>2, <1>3, Returned
  <2>2. Data(at.f, at.b) \in Value
    BY <1>2, <2>1, Found
  <2> QED BY <1>2, <2>1, <2>2 DEF Value
<1> HIDE DEF data
<1>5. Runs(h, Plus(L, at.b), new, W, D) /\ After(at.f, h)
  <2>1. Alive(at.f) => /\ at.b \in Nat /\ Plus(L, at.b)[at.b] > 0 /\ data \in Value
                       /\ new[at.b].as \in {"dir", "file", "map", "super"}
    BY <1>2, <1>4
  <2> QED BY <1>2, <2>1, SetDataRuns
<1> HIDE DEF h, g
<1>6. g.b = at.b /\ g.i = at.i /\ g.f = h
  BY <1>1
<1>7. Alive(h) => Alive(at.f)
  BY <1>5 DEF After
<1>8. After(f, h)
  <2>1. at.f \in Formatter /\ h \in Formatter
    BY <1>2, <1>5 DEF Runs
  <2> QED BY <1>2, <1>5, <2>1, Chain
<1> QED BY <1>2, <1>5, <1>6, <1>7, <1>8 DEF EntryPlace, g

(* allocdirentry() in directory dir.                                       *)
LEMMA AllocDirentryRuns ==
  ASSUME Sizes, NEW D \in Nat, NEW f, NEW L, NEW Lab, NEW W, Runs(f, L, Lab, W, D),
         NEW dir \in Ino, NEW name \in Names, NEW n,
         Alive(f) => /\ L[InoBlk(dir)] > 0 /\ dir \in W
                     /\ AtMost(L, n) /\ n + 2 <= 2 * D + 3
  PROVE  EntryPlace(f, AllocDirentry(f, dir, name), L, W, D)
<1> DEFINE last == InLastBlk(f, dir)
           at == OrNewBlk(last, dir)
<1>1. AllocDirentry(f, dir, name) = WithName(at, name)
  BY DEF AllocDirentry
<1>2. last = [b |-> last.b, i |-> last.i, f |-> last.f]
  BY DEF InLastBlk, LastDirect, LastIndirect, LastDoubly, LastDeep, InLast
<1>3. at = [b |-> at.b, i |-> at.i, f |-> at.f]
  BY <1>2 DEF OrNewBlk, NewDirBlk
<1>4. LastPlace(f, last, L, Lab, W, D)
  BY InLastBlkRuns
<1>5. f \in Formatter /\ (Alive(f) => L \in Borrowed)
  BY DEF Runs, Good
<1> HIDE DEF last
<1>6. EntryPlace(f, at, L, W, D)
  BY <1>4, <1>5, OrNewBlkRuns
<1> HIDE DEF at
<1> QED BY <1>1, <1>3, <1>5, <1>6, WithNameRuns

-----------------------------------------------------------------------------
(* Inodes.                                                                 *)
LEMMA SameDiskRuns ==
  ASSUME NEW D, NEW f, NEW L, NEW Lab, NEW W, Runs(f, L, Lab, W, D), NEW g \in Formatter,
         g.cache = f.cache, g.nextb = f.nextb,
         Alive(f) => g.nextinode <= NINODES /\ \A link \in g.hardlinks : link.ino < g.nextinode
  PROVE  Runs(g, L, Lab, W, D)
<1>1. \A b : Holds(g, b) = Holds(f, b)
  BY DEF Holds
<1>2. \A i : Inode(g, i) = Inode(f, i)
  BY <1>1 DEF Inode
<1>3. Alive(g) => Alive(f)
  BY DEF Alive
<1>4. ASSUME Alive(g) PROVE Good(g, L, Lab, W)
  <2>1. Good(f, L, Lab, W)
    BY <1>3, <1>4 DEF Runs
  <2>2. Pointing(g, Lab)
    BY <1>1, <1>2, <2>1, Zenon DEF Good, Pointing
  <2>3. \A i, b, j : LeadsIndirect(f, Lab, i, b, j) => LeadsIndirect(g, Lab, i, b, j)
    BY <1>1, Zenon DEF LeadsIndirect
  <2>4. \A i, b, j : LeadsDoubly(f, Lab, i, b, j) => LeadsDoubly(g, Lab, i, b, j)
    BY <1>1, <2>3, Zenon DEF LeadsDoubly
  <2>5. \A i, k : Leads(f, Lab, i, k) => Leads(g, Lab, i, k)
    BY <1>2, <2>3, <2>4, Zenon DEF Leads
  <2>6. \A w \in W : Ended(g, Lab, w)
    BY <1>2, <2>1, <2>5, Zenon DEF Good, Ended
  <2> QED BY <1>3, <1>4, <2>1, <2>2, <2>6 DEF Good
<1> QED BY <1>4 DEF Runs

(* A step that may have given out an inode.                                *)
Later(f, g) == Alive(g) => Alive(f) /\ f.nextinode <= g.nextinode

LEMMA Laters ==
  ASSUME NEW f \in Formatter, NEW g \in Formatter, NEW h \in Formatter
  PROVE  /\ Later(f, g) /\ Later(g, h) => Later(f, h)
         /\ After(f, g) => Later(f, g)
BY DEF Later, After, Formatter

(* allocinode().                                                           *)
LEMMA AllocInodeRuns ==
  ASSUME Sizes, NEW D \in Nat, NEW f, NEW L, NEW Lab, NEW W, Runs(f, L, Lab, W, D),
         NEW n, Alive(f) => AtMost(L, n) /\ n <= 2 * D + 3
  PROVE  LET g == AllocInode(f)
             ino == f.nextinode
         IN  /\ Runs(g, Plus(L, InoBlk(ino)), Lab, W, D)
             /\ Later(f, g)
             /\ Alive(g) => /\ ino \in Ino /\ g.nextinode = ino + 1
                            /\ g.nextb = f.nextb /\ g.hardlinks = f.hardlinks /\ L \in Borrowed
<1> DEFINE ino == f.nextinode
           b == InoBlk(ino)
           h == [f EXCEPT !.nextinode = @ + 1]
           g == AllocInode(f)
<1>1. f \in Formatter /\ ino \in Nat /\ f.nextb \in Nat
  BY DEF Runs, Formatter
<1>2. CASE ino = NINODES
  <2>1. g = Dies(f, "not enough inodes")
    BY <1>2 DEF AllocInode
  <2> HIDE DEF g
  <2>2. Runs(g, Plus(L, b), Lab, W, D) /\ ~Alive(g)
    BY <2>1, DiesRuns
  <2> QED BY <2>2 DEF Later, g
<1>3. CASE ino # NINODES
  <2>1. g = Look(h, b, "inodes")
    BY <1>3 DEF AllocInode, Look
  <2>2. /\ h \in Formatter /\ h.cache = f.cache /\ h.nextb = f.nextb
        /\ h.nextinode = ino + 1 /\ h.hardlinks = f.hardlinks
    BY <1>1 DEF Formatter
  <2> HIDE DEF h, g
  <2>3. ASSUME Alive(f)
        PROVE  /\ ino \in Ino /\ h.nextinode <= NINODES
               /\ \A link \in h.hardlinks : link.ino < h.nextinode
    <3>1. /\ ino <= NINODES /\ (\A link \in f.hardlinks : link.ino < ino)
          /\ \A link \in f.hardlinks : link.ino \in Nat
      BY <1>1, <2>3 DEF Runs, Good, Formatter, Link
    <3>2. ino < NINODES
      BY <1>1, <1>3, <3>1, Constants
    <3> QED BY <1>1, <2>2, <3>1, <3>2, Constants DEF Ino
  <2>4. Runs(h, L, Lab, W, D)
    BY <2>2, <2>3, SameDiskRuns
  <2>5. Alive(h) <=> Alive(f)
    BY <2>2 DEF Alive
  <2>6. "inodes" \in Kind
    BY DEF Kind
  <2>7. Alive(h) => /\ b \in Nat /\ b < h.nextb /\ TypeOf(Lab[b].as) = "inodes"
                    /\ AtMost(L, n) /\ n <= 2 * D + 3
    <3> SUFFICES ASSUME Alive(h)
                 PROVE  b \in Nat /\ b < h.nextb /\ TypeOf(Lab[b].as) = "inodes"
      BY <2>5
    <3>1. ino \in Ino /\ Labelled(Lab, h.nextb) /\ h.nextb \in Nat
      BY <2>2, <2>3, <2>4, <2>5 DEF Runs, Good, Formatter
    <3>2. b \in Nat /\ os_firstinob <= b /\ b < FirstBlk /\ os_firstinob = 3
          /\ OSPFS_FREEMAP_BLK = 2 /\ FirstBlk \in Nat
      BY <3>1, InodePlaces
    <3>3. Lab[b].as = "inodes"
      <4>1. Lab[b].as = IF b = OSPFS_FREEMAP_BLK THEN "map"
                        ELSE IF b < os_firstinob THEN "super" ELSE "inodes"
        BY <3>1, <3>2 DEF Labelled
      <4> QED BY <3>2, <4>1
    <3>4. FirstBlk <= h.nextb
      BY <3>1 DEF Labelled
    <3> QED BY <3>1, <3>2, <3>3, <3>4 DEF TypeOf
  <2> HIDE DEF b
  <2>8. /\ Runs(g, Plus(L, b), Lab, W, D)
        /\ After(h, g)
        /\ Alive(g) => g.nextb = h.nextb
    BY <2>1, <2>4, <2>6, <2>7, GetRuns
  <2>9. Alive(g) => /\ Alive(f) /\ ino \in Ino /\ g.nextinode = ino + 1
                    /\ g.nextb = f.nextb /\ g.hardlinks = f.hardlinks /\ L \in Borrowed
    BY <2>2, <2>3, <2>5, <2>8 DEF After, AtMost
  <2>10. Later(f, g)
    BY <1>1, <2>9 DEF Later
  <2> QED BY <2>8, <2>9, <2>10 DEF g, b
<1> QED BY <1>2, <1>3

(* add_hardlink() of an inode that is given out.                           *)
LEMMA RememberRuns ==
  ASSUME Sizes, NEW D \in Nat, NEW f, NEW L, NEW Lab, NEW W, Runs(f, L, Lab, W, D),
         NEW host \in Nat, NEW x \in Nat, NEW ino \in Nat, Alive(f) => ino < f.nextinode
  PROVE  LET g == Remember(f, host, x, ino)
         IN  Runs(g, L, Lab, W, D) /\ Later(f, g) /\ g.nextinode = f.nextinode
<1> DEFINE g == Remember(f, host, x, ino)
           links == {[host |-> host, digest |-> IF link_contents THEN x ELSE NoDigest, ino |-> ino]}
           h == [f EXCEPT !.hardlinks = @ \cup links]
<1>1. f \in Formatter /\ f.nextinode \in Nat
  BY DEF Runs, Formatter
<1>2. links \subseteq Link /\ \A link \in links : link.ino = ino
  BY DEF Link, NoDigest
<1>3. g = f \/ g = h
  BY DEF Remember
<1> HIDE DEF links
<1>4. /\ h \in Formatter /\ h.cache = f.cache /\ h.nextb = f.nextb
      /\ h.nextinode = f.nextinode /\ h.hardlinks = f.hardlinks \cup links
  BY <1>1, <1>2 DEF Formatter
<1> HIDE DEF h, g
<1>5. Alive(f) => h.nextinode <= NINODES /\ \A link \in h.hardlinks : link.ino < h.nextinode
  <2> SUFFICES ASSUME Alive(f)
               PROVE  h.nextinode <= NINODES /\ \A link \in h.hardlinks : link.ino < h.nextinode
    OBVIOUS
  <2>1. f.nextinode <= NINODES /\ \A link \in f.hardlinks : link.ino < f.nextinode
    BY DEF Runs, Good
  <2> QED BY <1>2, <1>4, <2>1
<1>6. Runs(h, L, Lab, W, D)
  BY <1>4, <1>5, SameDiskRuns
<1>7. Later(f, h) /\ Later(f, f)
  BY <1>1, <1>4 DEF Later, Alive
<1> QED BY <1>3, <1>4, <1>6, <1>7 DEF g

(* A link more.                                                            *)
LEMMA CountedRuns ==
  ASSUME Sizes, NEW D \in Nat, NEW f, NEW L, NEW Lab, NEW W, Runs(f, L, Lab, W, D),
         NEW ino, Alive(f) => ino \in Ino /\ L[InoBlk(ino)] > 0
  PROVE  LET g == Counted(f, ino)
         IN  Runs(g, L, Lab, W, D) /\ After(f, g)
<1> DEFINE oi == TheIno(f, ino)
           oj == [oi EXCEPT !.nlink = @ + 1]
           g == Counted(f, ino)
<1>1. Alive(f) => /\ oi = Inode(f, ino) /\ oi \in InodeType /\ Pointers(Lab, ino, oi)
  BY InodeFound
<1>2. g = SetIno(f, ino, oj)
  BY DEF Counted
<1> HIDE DEF oi
<1>3. Alive(f) => /\ oj \in InodeType /\ oj.size = oi.size /\ oj.direct = oi.direct
                  /\ oj.indirect = oi.indirect /\ oj.indirect2 = oi.indirect2
  BY <1>1 DEF InodeType
<1> HIDE DEF oj, g
<1>4. Alive(f) => /\ ino \in Ino /\ L[InoBlk(ino)] > 0 /\ oj \in InodeType
                  /\ Pointers(Lab, ino, oj) /\ W \subseteq W
                  /\ ino \in W => /\ oj.size = Inode(f, ino).size
                                  /\ oj.direct = Inode(f, ino).direct
                                  /\ oj.indirect = Inode(f, ino).indirect
                                  /\ oj.indirect2 = Inode(f, ino).indirect2
  BY <1>1, <1>3 DEF Pointers
<1> QED BY <1>2, <1>4, SetInoRuns DEF g

(* A new inode is nobody's directory yet.                                  *)
LEMMA NewInodeRuns ==
  ASSUME Sizes, NEW D \in Nat, NEW f, NEW L, NEW Lab, NEW W, Runs(f, L, Lab, W, D),
         NEW ino, NEW ftype \in {"REG", "DIR", "SYMLINK"}, NEW size \in Nat,
         Alive(f) => ino \in Ino /\ L[InoBlk(ino)] > 0 /\ ino \notin W
  PROVE  LET g == NewInode(f, ino, ftype, size)
         IN  /\ Runs(g, L, Lab, W, D) /\ After(f, g)
             /\ Alive(g) => Inode(g, ino).size = size /\ InoBlk(ino) \in Cache!CachedBlock
<1> DEFINE oi == TheIno(f, ino)
           oj == [oi EXCEPT !.nlink = 1, !.ftype = ftype, !.size = size]
           g == NewInode(f, ino, ftype, size)
<1>1. Alive(f) => /\ oi \in InodeType /\ Pointers(Lab, ino, oi)
                  /\ InoBlk(ino) \in Cache!CachedBlock
  BY InodeFound
<1>2. g = SetIno(f, ino, oj)
  BY DEF NewInode
<1> HIDE DEF oi
<1>3. Alive(f) => /\ oj \in InodeType /\ oj.size = size
                  /\ oj.indirect = oi.indirect /\ oj.indirect2 = oi.indirect2
  BY <1>1 DEF InodeType
<1> HIDE DEF oj, g
<1>4. Alive(f) => /\ ino \in Ino /\ L[InoBlk(ino)] > 0 /\ oj \in InodeType
                  /\ Pointers(Lab, ino, oj) /\ W \subseteq W
                  /\ ino \in W => /\ oj.size = Inode(f, ino).size
                                  /\ oj.direct = Inode(f, ino).direct
                                  /\ oj.indirect = Inode(f, ino).indirect
                                  /\ oj.indirect2 = Inode(f, ino).indirect2
  BY <1>1, <1>3 DEF Pointers
<1>5. /\ Runs(g, L, Lab, W, D)
      /\ After(f, g)
      /\ Alive(g) => \A i \in Ino : InoBlk(i) \in Cache!CachedBlock =>
                       Inode(g, i) = IF i = ino THEN oj ELSE Inode(f, i)
  BY <1>2, <1>4, SetInoRuns
<1>6. Alive(g) => Alive(f)
  BY <1>5 DEF After
<1> QED BY <1>1, <1>3, <1>4, <1>5, <1>6 DEF g

-----------------------------------------------------------------------------
(* Loops.                                                                  *)
LEMMA Reached ==
  ASSUME NEW S, 0 \in S, \A k \in Nat : k \in S => k+1 \in S, NEW m \in Nat
  PROVE  m \in S
<1> SUFFICES ASSUME m \notin S PROVE FALSE
  OBVIOUS
<1> DEFINE T == {k \in 0 .. m : k \notin S}
<1>1. T \in SUBSET Nat /\ m \in T
  OBVIOUS
<1>2. PICK k \in T : \A j \in T : k <= j
  BY <1>1, LeastNatural
<1>3. k \in Nat /\ k # 0 /\ k-1 \in Nat /\ (k-1)+1 = k /\ k-1 \in 0 .. m /\ ~(k <= k-1)
  BY <1>2
<1> QED BY <1>2, <1>3

(* Turn k makes g[k][y] of the element y of S.                             *)
Looping(S, x, g) == \E v \in [Nat -> S] : v[0] = x /\ \A k \in Nat : v[k+1] = g[k][v[k]]

LEMMA Turns ==
  ASSUME NEW S, NEW x \in S, NEW g \in [Nat -> [S -> S]]
  PROVE  Looping(S, x, g)
<1> DEFINE Made(c, k) == /\ c \in [0 .. k -> S]
                         /\ c[0] = x
                         /\ \A j \in Nat : j < k => c[j+1] = g[j][c[j]]
           T == {k \in Nat : \E c : Made(c, k)}
           c_(k) == CHOOSE c : Made(c, k)
<1>1. 0 \in T
  <2>1. Made([k \in 0 .. 0 |-> x], 0)
    OBVIOUS
  <2> QED BY <2>1
<1>2. ASSUME NEW k \in Nat, k \in T PROVE k+1 \in T
  <2>1. PICK c : Made(c, k)
    BY <1>2
  <2>2. c[k] \in S /\ g[k] \in [S -> S]
    BY <2>1
  <2>3. PICK y \in S : y = g[k][c[k]]
    BY <2>2
  <2> DEFINE d == [j \in 0 .. k+1 |-> IF j = k+1 THEN y ELSE c[j]]
  <2>4. d \in [0 .. k+1 -> S] /\ d[0] = x
    BY <2>1
  <2>5. ASSUME NEW j \in Nat, j < k+1 PROVE d[j+1] = g[j][d[j]]
    <3>1. d[j] = c[j]
      BY <2>5
    <3>2. CASE j = k
      BY <2>3, <3>1, <3>2
    <3>3. CASE j # k
      <4>1. j < k /\ j+1 \in 0 .. k /\ j+1 # k+1 /\ j+1 \in 0 .. k+1
        BY <2>5, <3>3
      <4> QED BY <2>1, <3>1, <4>1
    <3> QED BY <3>2, <3>3
  <2>6. Made(d, k+1)
    BY <2>4, <2>5
  <2> HIDE DEF d, Made
  <2> QED BY <2>6
<1>3. ASSUME NEW k \in Nat PROVE Made(c_(k), k)
  <2> HIDE DEF T
  <2>1. k \in T
    BY <1>1, <1>2, Reached
  <2> USE DEF T
  <2>2. \E c : Made(c, k)
    BY <2>1
  <2> HIDE DEF Made, T
  <2> QED BY <2>2
<1> HIDE DEF c_
<1>4. ASSUME NEW m \in Nat, NEW k \in Nat, k <= m PROVE c_(m)[k] = c_(k)[k]
  <2> DEFINE U == {j \in Nat : j <= k => c_(m)[j] = c_(k)[j]}
  <2>1. 0 \in U
    BY <1>3
  <2>2. ASSUME NEW j \in Nat, j \in U PROVE j+1 \in U
    <3> SUFFICES ASSUME j+1 <= k PROVE c_(m)[j+1] = c_(k)[j+1]
      OBVIOUS
    <3>1. j < k /\ j < m /\ c_(m)[j] = c_(k)[j]
      BY <1>4, <2>2
    <3> QED BY <1>3, <3>1
  <2> HIDE DEF U
  <2>3. k \in U
    BY <2>1, <2>2, Reached
  <2> QED BY <2>3 DEF U
<1> DEFINE f == [k \in Nat |-> c_(k)[k]]
<1>5. f \in [Nat -> S]
  BY <1>3
<1>6. f[0] = x
  BY <1>3
<1>7. ASSUME NEW k \in Nat PROVE f[k+1] = g[k][f[k]]
  <2>1. f[k+1] = c_(k+1)[k+1] /\ f[k] = c_(k)[k]
    OBVIOUS
  <2>2. c_(k+1)[k+1] = g[k][c_(k+1)[k]]
    BY <1>3
  <2>3. c_(k+1)[k] = c_(k)[k]
    BY <1>4
  <2> QED BY <2>1, <2>2, <2>3
<1> HIDE DEF f
<1> QED BY <1>5, <1>6, <1>7 DEF Looping

-----------------------------------------------------------------------------
(* writefile()'s loop.                                                     *)
FileNew(f) == Get(f, f.nextb, TRUE, "file")

LEMMA FileNewIs ==
  ASSUME Sizes, NEW f \in Formatter
  PROVE  /\ FileNew(f) = [f EXCEPT !.cache = Fetch(@, f.nextb, "file")]
         /\ ~Alive(f) => FileNew(f) = f
<1>1. PICK clr \in BOOLEAN : clr = TRUE
  OBVIOUS
<1>2. FileNew(f) = Get(f, f.nextb, clr, "file")
  BY <1>1 DEF FileNew
<1>3. ~Alive(f) => FileNew(f) = f
  BY <1>2, Unmoved
<1> QED BY <1>3 DEF FileNew, Get, Fetch

(* The block is fetched, and not needed after all.                         *)
LEMMA FetchedInVainRuns ==
  ASSUME Sizes, NEW D \in Nat, NEW f, NEW L, NEW Lab, NEW W, Runs(f, L, Lab, W, D),
         NEW n, Alive(f) => AtMost(L, n) /\ n <= 2 * D + 3
  PROVE  LET g == Put(FileNew(f), f.nextb)
         IN  Runs(g, L, Given(Lab, f.nextb, 0, "file"), W, D) /\ After(f, g)
<1> DEFINE b == f.nextb
           d == Fetch(f.cache, b, "file")
           h == FileNew(f)
           g == Put(h, b)
           new == Given(Lab, b, 0, "file")
<1>1. f \in Formatter /\ b \in Nat /\ f.cache \in CacheType
  BY DEF Runs, Formatter
<1>2. CASE ~Alive(f)
  <2>1. h = f
    BY <1>1, <1>2, FileNewIs
  <2>2. g = f
    BY <1>1, <1>2, <2>1, Unmoved
  <2> HIDE DEF g
  <2> QED BY <1>2, <2>2, StillDead DEF g
<1>3. CASE Alive(f)
  <2>1. AtMost(L, n) /\ n <= 2 * D + 3 /\ "file" \in Uses /\ "file" \in Kind
        /\ TypeOf("file") = "file"
    BY <1>3 DEF Uses, Kind, TypeOf
  <2>2. /\ d \in CacheType /\ d.abort \in Allowed(D)
        /\ d.abort = Cache!Fine =>
             /\ Sound(d) /\ b \in Cache!CachedBlock
             /\ Lends(d, Plus(L, b), Types(new))
             /\ \A x \in Cache!CachedBlock :
                  Cache!Contents(d)[x] = IF x = b THEN ZeroBlock ELSE Cache!Contents(f.cache)[x]
    BY <1>3, <2>1, FetchNew
  <2>3. h = [f EXCEPT !.cache = d]
    BY <1>1, FileNewIs
  <2> HIDE DEF d, h, new
  <2>4. /\ h \in Formatter /\ h.cache = d /\ h.nextb = b
        /\ h.nextinode = f.nextinode /\ h.hardlinks = f.hardlinks
    BY <1>1, <2>2, <2>3, WithCache
  <2>5. CASE d.abort # Cache!Fine
    <3>1. g = h
      <4>1. ~Alive(h)
        BY <2>4, <2>5 DEF Alive
      <4> QED BY <2>4, <4>1, Unmoved
    <3> HIDE DEF g
    <3>2. g \in Formatter /\ g.cache = d /\ ~Alive(g) /\ After(f, g)
      BY <1>1, <1>3, <2>2, <2>3, <2>5, <3>1, GivesUp
    <3> QED BY <2>2, <3>2 DEF Runs, g, h, new
  <2>6. CASE d.abort = Cache!Fine
    <3> DEFINE e == Cache!PutBlk(d, b)
    <3>1. /\ Good(f, L, Lab, W) /\ L \in Borrowed /\ \A x \in Nat : L[x] > 0 => x < b
      BY <1>3 DEF Runs, Good
    <3>2. /\ Plus(L, b) \in Borrowed /\ Plus(L, b)[b] > 0 /\ Minus(Plus(L, b), b) = L
      BY <1>1, <3>1, Returned
    <3>3. /\ Sound(d) /\ Lends(d, Plus(L, b), Types(new))
          /\ \A x \in Cache!CachedBlock :
               Cache!Contents(d)[x] = IF x = b THEN ZeroBlock ELSE Cache!Contents(f.cache)[x]
      BY <2>2, <2>6
    <3>4. /\ e.abort = Cache!Fine /\ Sound(e)
          /\ Lends(e, Minus(Plus(L, b), b), Types(new))
          /\ \A x \in Cache!CachedBlock : Cache!Contents(e)[x] = Cache!Contents(d)[x]
      BY <1>1, <2>6, <3>2, <3>3, PutBlkLends
    <3>5. g = [h EXCEPT !.cache = e]
      BY <2>4 DEF Put
    <3> HIDE DEF e, g
    <3>6. /\ g \in Formatter /\ g.cache = e /\ g.nextb = b
          /\ g.nextinode = f.nextinode /\ g.hardlinks = f.hardlinks
      BY <2>4, <3>4, <3>5, WithCache DEF Sound
    <3>7. Alive(g) /\ After(f, g)
      BY <1>1, <1>3, <3>4, <3>6 DEF Alive, After
    <3>8. \A x \in Cache!CachedBlock :
            Holds(g, x) = IF x = f.nextb THEN ZeroBlock ELSE Holds(f, x)
      BY <3>3, <3>4, <3>6 DEF Holds
    <3>13. PICK use \in Uses, own \in Nat : use = "file" /\ own = 0
      BY <2>1
    <3>9. new = Given(Lab, f.nextb, own, use)
      BY <3>13 DEF new
    <3>10. /\ Sound(g.cache) /\ Lends(g.cache, L, Types(new))
           /\ g.nextb = f.nextb + 1 \/ (g.nextb = f.nextb /\ use = "file")
           /\ \A x \in Nat : L[x] > 0 => x < g.nextb
      BY <3>1, <3>2, <3>4, <3>6, <3>13
    <3>11. Good(g, L, new, W)
      BY ONLY Sizes, use \in Uses, own \in Nat, <1>1, <3>1, <3>6, <3>8, <3>9, <3>10, NewGood
    <3>12. Runs(g, L, new, W, D)
      BY <3>4, <3>6, <3>11, AllowedReasons DEF Runs
    <3> QED BY <3>7, <3>12 DEF g, h, new
  <2> QED BY <2>5, <2>6
<1> QED BY <1>2, <1>3

(* It is filled: it is as good as a new one that is written to.            *)
LEMMA FilledIs ==
  ASSUME Sizes, NEW f \in Formatter, NEW data
  PROVE  [SetData(FileNew(f), f.nextb, data) EXCEPT !.nextb = f.nextb + 1]
           = SetData(NewBlk(f, "file"), f.nextb, data)
<1> DEFINE d == Fetch(f.cache, f.nextb, "file")
           e == Cache!SetData(d, f.nextb, data)
           g == [f EXCEPT !.nextb = @ + 1]
<1>1. FileNew(f) = [f EXCEPT !.cache = d]
  BY FileNewIs
<1>2. NewBlk(f, "file") = [g EXCEPT !.cache = d]
  <2>1. g.cache = f.cache
    BY DEF Formatter
  <2>2. NewBlk(f, "file") = Get(g, f.nextb, TRUE, "file")
    BY DEF NewBlk
  <2> HIDE DEF g
  <2> QED BY <2>1, <2>2 DEF Get, Fetch
<1> HIDE DEF d
<1>3. [f EXCEPT !.cache = d].cache = d /\ [g EXCEPT !.cache = d].cache = d
  BY DEF Formatter
<1>4. SetData([f EXCEPT !.cache = d], f.nextb, data) = [[f EXCEPT !.cache = d] EXCEPT !.cache = e]
  BY <1>3 DEF SetData
<1>5. SetData([g EXCEPT !.cache = d], f.nextb, data) = [[g EXCEPT !.cache = d] EXCEPT !.cache = e]
  BY <1>3 DEF SetData
<1> HIDE DEF e
<1>6. [[[f EXCEPT !.cache = d] EXCEPT !.cache = e] EXCEPT !.nextb = f.nextb + 1]
        = [[g EXCEPT !.cache = d] EXCEPT !.cache = e]
  BY DEF Formatter
<1> QED BY <1>1, <1>2, <1>4, <1>5, <1>6

(* What is read from the host file is a block.                             *)
LEMMA FileBlkTyped ==
  ASSUME Sizes, NEW x \in DOMAIN Size, NEW k \in Nat
  PROVE  FileBlk(x, k) \in Value
<1>1. x \in Nat /\ NINDIRECT \in Nat /\ NDIRECT \in Nat /\ Word \subseteq Nat /\ ZeroBlock \in Value
  BY Constants DEF Sizes
<1>2. MAXFILEBLKS \in Nat
  <2>1. NINDIRECT * NINDIRECT \in Nat
    BY <1>1
  <2> QED BY <1>1, <2>1 DEF MAXFILEBLKS
<1>3. ASSUME NEW off \in Nat PROVE Datum(x, off) \in Int
  <2>1. x * MAXFILEBLKS \in Nat
    BY <1>1, <1>2
  <2>2. x * MAXFILEBLKS * NINDIRECT \in Nat
    BY <1>1, <2>1
  <2> QED BY <2>2 DEF Datum
<1> DEFINE u == [i \in Word |-> LET off == k * NINDIRECT + i
                                IN  IF off < Size[x] THEN Datum(x, off) ELSE 0]
<1>4. u \in [Word -> Int]
  <2> SUFFICES ASSUME NEW i \in Word PROVE u[i] \in Int
    OBVIOUS
  <2>1. k * NINDIRECT \in Nat /\ i \in Nat
    BY <1>1
  <2>2. k * NINDIRECT + i \in Nat
    BY <2>1
  <2>3. Datum(x, k * NINDIRECT + i) \in Int
    BY <1>3, <2>2
  <2> QED BY <2>3
<1>5. FileBlk(x, k) = [ZeroBlock EXCEPT !.u = u]
  BY DEF FileBlk
<1> HIDE DEF u
<1> QED BY <1>1, <1>4, <1>5 DEF Value

(* With L lent out, f has become g, whatever the new blocks are.           *)
Became(f, g, L, W, D) == \E new : Runs(g, L, new, W, D) /\ After(f, g)

LEMMA CopyBlkRuns ==
  ASSUME Sizes, NEW D \in Nat, NEW f, NEW L, NEW Lab, NEW W, Runs(f, L, Lab, W, D),
         NEW ino \in Nat, NEW x \in DOMAIN Size, NEW k \in Nat, NEW n,
         Alive(f) => /\ ino \in Ino /\ L[InoBlk(ino)] > 0 /\ ino \notin W
                     /\ AtMost(L, n) /\ n + 2 <= 2 * D + 3
  PROVE  Became(f, CopyBlk(FileNew(f), f.nextb, ino, x, k).f, L, W, D)
<1> DEFINE b == f.nextb
           left == Size[x] - k * NINDIRECT
           data == FileBlk(x, k)
           g1 == NewBlk(f, "file")
           g2 == SetData(g1, b, data)
           g3 == StoreBlk(g2, ino, b, k)
           g4 == Put(g3, b)
           new == Given(Lab, b, 0, "file")
           r == CopyBlk(FileNew(f), b, ino, x, k)
<1>1. f \in Formatter /\ b \in Nat /\ (Alive(f) => L \in Borrowed)
  BY DEF Runs, Formatter, Good
<1>2. /\ "file" \in Uses /\ "file" \in Kind /\ TypeOf("file") = "file" /\ 0 \in Nat
      /\ "file" \in {"dir", "file", "map", "super"} /\ Mine(0, "file").as = "file"
  BY DEF Uses, Kind, TypeOf, Mine
<1>3. n \in Nat \/ ~Alive(f)
  BY DEF AtMost
<1>4. CASE left = 0
  <2>1. r.f = Put(FileNew(f), b)
    BY <1>4 DEF CopyBlk
  <2> HIDE DEF r, new
  <2>2. Runs(r.f, L, Given(Lab, b, 0, "file"), W, D) /\ After(f, r.f)
    <3>1. Alive(f) => AtMost(L, n) /\ n <= 2 * D + 3
      BY <1>3
    <3> QED BY <2>1, <3>1, FetchedInVainRuns
  <2> QED BY <2>2 DEF Became, r
<1>5. CASE left # 0
  <2>1. r.f = g4
    <3>1. [SetData(FileNew(f), b, data) EXCEPT !.nextb = b + 1] = g2
      BY <1>1, FilledIs
    <3>2. r.f = Put(StoreBlk([SetData(FileNew(f), b, data) EXCEPT !.nextb = b + 1], ino, b, k), b)
      BY <1>5 DEF CopyBlk
    <3> HIDE DEF r
    <3> QED BY <3>1, <3>2
  <2> HIDE DEF r, left
  <2>2. data \in Value
    BY FileBlkTyped
  <2> HIDE DEF data
  <2>3. /\ Runs(g1, Plus(L, b), new, W, D)
        /\ After(f, g1) /\ g1.nextb = b + 1
        /\ Alive(g1) => new[b].as = "file"
    <3>1. Alive(f) => AtMost(L, n) /\ n <= 2 * D + 3
      BY <1>3
    <3>2. /\ Runs(g1, Plus(L, b), new, W, D)
          /\ After(f, g1) /\ g1.nextb = b + 1
          /\ Alive(g1) => new[b] = Mine(0, "file")
      BY <1>2, <3>1, NewBlkRuns
    <3> QED BY <1>2, <3>2
  <2> HIDE DEF g1, new
  <2>4. Alive(g1) => Alive(f)
    BY <2>3 DEF After
  <2>5. Runs(g2, Plus(L, b), new, W, D) /\ After(g1, g2)
    <3>1. Alive(g1) => /\ b \in Nat /\ Plus(L, b)[b] > 0 /\ data \in Value
                       /\ new[b].as \in {"dir", "file", "map", "super"}
      BY <1>1, <1>2, <2>2, <2>3, <2>4, Returned
    <3> QED BY <2>3, <3>1, SetDataRuns
  <2> HIDE DEF g2
  <2>6. Alive(g2) => Alive(f)
    BY <2>4, <2>5 DEF After
  <2>7. PICK lab : Runs(g3, Plus(L, b), lab, W, D) /\ After(g2, g3)
    <3>1. Alive(g2) =>
            /\ ino \in Ino /\ Plus(L, b)[InoBlk(ino)] > 0 /\ ino \notin W
            /\ k \in Nat /\ b \in Nat /\ AtMost(Plus(L, b), n + 1) /\ (n + 1) + 1 <= 2 * D + 3
      <4> SUFFICES ASSUME Alive(g2)
                   PROVE  /\ ino \in Ino /\ Plus(L, b)[InoBlk(ino)] > 0 /\ ino \notin W
                          /\ AtMost(Plus(L, b), n + 1) /\ (n + 1) + 1 <= 2 * D + 3
        BY <1>1
      <4>1. /\ ino \in Ino /\ L[InoBlk(ino)] > 0 /\ ino \notin W /\ L \in Borrowed
            /\ AtMost(L, n) /\ n + 2 <= 2 * D + 3 /\ n \in Nat
        BY <1>1, <1>3, <2>6
      <4>2. InoBlk(ino) \in Nat
        BY <4>1, InodePlaces
      <4>3. Plus(L, b)[InoBlk(ino)] > 0
        BY <1>1, <4>1, <4>2, Returned
      <4>4. AtMost(Plus(L, b), n + 1)
        BY <4>1, OneMoreBlock
      <4> QED BY <4>1, <4>3, <4>4
    <3>2. Stored(g2, g3, Plus(L, b), new, W, D, ino, b, k)
      BY <2>5, <3>1, StoreBlkRuns
    <3> QED BY <3>2 DEF Stored
  <2> HIDE DEF g3
  <2>8. Alive(g3) => Alive(f)
    BY <2>6, <2>7 DEF After
  <2>9. Runs(g4, Minus(Plus(L, b), b), lab, W, D) /\ After(g3, g4)
    <3>1. Alive(g3) => b \in Nat /\ Plus(L, b)[b] > 0
      BY <1>1, <2>8, Returned
    <3> QED BY <2>7, <3>1, PutRuns
  <2> HIDE DEF g4
  <2>10. Alive(g4) => Minus(Plus(L, b), b) = L
    <3>1. Alive(g4) => Alive(f)
      BY <2>8, <2>9 DEF After
    <3> QED BY <1>1, <3>1, Returned
  <2>11. Runs(g4, L, lab, W, D)
    BY <2>9, <2>10, RunsSame
  <2>12. After(f, g4)
    <3>1. g1 \in Formatter /\ g2 \in Formatter /\ g3 \in Formatter /\ g4 \in Formatter
      BY <2>3, <2>5, <2>7, <2>9 DEF Runs
    <3>2. After(f, g2)
      BY <1>1, <2>3, <2>5, <3>1, Chain
    <3>3. After(f, g3)
      BY <1>1, <2>7, <3>1, <3>2, Chain
    <3> QED BY <1>1, <2>9, <3>1, <3>3, Chain
  <2> QED BY <2>1, <2>11, <2>12 DEF Became, r
<1> QED BY <1>4, <1>5

(* A turn tells whether the file is over.                                  *)
LEMMA CopyBlkIs ==
  ASSUME NEW f, NEW b, NEW ino, NEW x, NEW k
  PROVE  LET r == CopyBlk(f, b, ino, x, k)
         IN  r = [f |-> r.f, over |-> r.over] /\ r.over \in BOOLEAN
<1> DEFINE r == CopyBlk(f, b, ino, x, k)
           left == Size[x] - k * NINDIRECT
<1>1. CASE left = 0
  <2>1. PICK g : g = Put(f, b)
    OBVIOUS
  <2>2. r = [f |-> g, over |-> TRUE]
    BY <1>1, <2>1 DEF CopyBlk
  <2>3. PICK o \in BOOLEAN : o = TRUE
    OBVIOUS
  <2>4. r = [f |-> g, over |-> o]
    BY <2>2, <2>3
  <2> HIDE DEF r
  <2>5. r.f = g /\ r.over = o
    BY <2>4
  <2> QED BY <2>4, <2>5 DEF r
<1>2. CASE left # 0
  <2>1. PICK g : r = [f |-> g, over |-> left < NINDIRECT]
    BY <1>2 DEF CopyBlk
  <2>2. (left < NINDIRECT) \in BOOLEAN
    OBVIOUS
  <2>3. PICK o \in BOOLEAN : o = (left < NINDIRECT)
    BY <2>2
  <2>4. r = [f |-> g, over |-> o]
    BY <2>1, <2>3
  <2> HIDE DEF r
  <2>5. r.f = g /\ r.over = o
    BY <2>4
  <2> QED BY <2>4, <2>5 DEF r
<1> QED BY <1>1, <1>2

Copies(f, L, W, D) ==
  {at \in [f : Formatter, over : BOOLEAN] : Became(f, at.f, L, W, D)}

LEMMA CopiesAre ==
  ASSUME NEW f, NEW L, NEW W, NEW D, NEW g, NEW over \in BOOLEAN, Became(f, g, L, W, D)
  PROVE  [f |-> g, over |-> over] \in Copies(f, L, W, D)
<1>1. g \in Formatter
  BY DEF Became, Runs
<1>2. PICK at : at = [f |-> g, over |-> over]
  OBVIOUS
<1>3. at \in [f : Formatter, over : BOOLEAN] /\ at.f = g
  BY <1>1, <1>2
<1>4. at \in Copies(f, L, W, D)
  BY <1>3 DEF Copies
<1> QED BY <1>2, <1>4

(* A step after a step.                                                    *)
LEMMA BecameThen ==
  ASSUME NEW f \in Formatter, NEW g, NEW h, NEW L, NEW M, NEW W, NEW X, NEW D, NEW E,
         Became(f, g, L, W, D), Became(g, h, M, X, E)
  PROVE  Became(f, h, M, X, E)
<1>1. PICK lab : Runs(g, L, lab, W, D) /\ After(f, g)
  BY DEF Became
<1>2. PICK new : Runs(h, M, new, X, E) /\ After(g, h)
  BY DEF Became
<1>3. g \in Formatter /\ h \in Formatter
  BY <1>1, <1>2 DEF Runs
<1>4. After(f, h)
  BY <1>1, <1>2, <1>3, Chain
<1> QED BY <1>2, <1>4 DEF Became

(* A turn of the loop, which does nothing after the end.                   *)
LEMMA CopyTurnRuns ==
  ASSUME Sizes, NEW D \in Nat, NEW f \in Formatter, NEW L, NEW W,
         NEW at \in Copies(f, L, W, D),
         NEW ino \in Nat, NEW x \in DOMAIN Size, NEW k \in Nat, NEW n,
         Alive(f) => /\ ino \in Ino /\ L[InoBlk(ino)] > 0 /\ ino \notin W
                     /\ AtMost(L, n) /\ n + 2 <= 2 * D + 3
  PROVE  CopyTurn(at, ino, x, k) \in Copies(f, L, W, D)
<1> DEFINE r == CopyBlk(FileNew(at.f), at.f.nextb, ino, x, k)
<1>1. CASE at.over
  BY <1>1 DEF CopyTurn
<1>2. CASE ~at.over
  <2>1. CopyTurn(at, ino, x, k) = r
    BY <1>2 DEF CopyTurn, FileNew
  <2>2. Became(f, at.f, L, W, D)
    BY DEF Copies
  <2>3. PICK lab : Runs(at.f, L, lab, W, D) /\ After(f, at.f)
    BY <2>2 DEF Became
  <2>4. Alive(at.f) => /\ ino \in Ino /\ L[InoBlk(ino)] > 0 /\ ino \notin W
                       /\ AtMost(L, n) /\ n + 2 <= 2 * D + 3
    BY <2>3 DEF After
  <2>5. Became(at.f, r.f, L, W, D)
    BY <2>3, <2>4, CopyBlkRuns
  <2>6. r = [f |-> r.f, over |-> r.over] /\ r.over \in BOOLEAN
    BY CopyBlkIs
  <2> HIDE DEF r
  <2>7. Became(f, r.f, L, W, D)
    BY <2>2, <2>5, BecameThen
  <2>8. [f |-> r.f, over |-> r.over] \in Copies(f, L, W, D)
    BY <2>6, <2>7, CopiesAre
  <2> QED BY <2>1, <2>6, <2>8
<1> QED BY <1>1, <1>2

(* The size of the file is set.                                            *)
LEMMA SizedRuns ==
  ASSUME Sizes, NEW D \in Nat, NEW f, NEW L, NEW Lab, NEW W, Runs(f, L, Lab, W, D),
         NEW ino, NEW size \in Nat, Alive(f) => ino \in Ino /\ L[InoBlk(ino)] > 0 /\ ino \notin W
  PROVE  Runs(Sized(f, ino, size), L, Lab, W, D) /\ After(f, Sized(f, ino, size))
<1> DEFINE oi == TheIno(f, ino)
           oj == [oi EXCEPT !.size = size]
           g == Sized(f, ino, size)
<1>1. Alive(f) => oi \in InodeType /\ Pointers(Lab, ino, oi)
  BY InodeFound
<1>2. g = SetIno(f, ino, oj)
  BY DEF Sized
<1> HIDE DEF oi
<1>3. Alive(f) => oj \in InodeType /\ oj.indirect = oi.indirect /\ oj.indirect2 = oi.indirect2
  BY <1>1 DEF InodeType
<1> HIDE DEF oj, g
<1>4. Alive(f) => /\ ino \in Ino /\ L[InoBlk(ino)] > 0 /\ oj \in InodeType
                  /\ Pointers(Lab, ino, oj) /\ W \subseteq W
                  /\ ino \in W => /\ oj.size = Inode(f, ino).size
                                  /\ oj.direct = Inode(f, ino).direct
                                  /\ oj.indirect = Inode(f, ino).indirect
                                  /\ oj.indirect2 = Inode(f, ino).indirect2
  BY <1>1, <1>3 DEF Pointers
<1> QED BY <1>2, <1>4, SetInoRuns DEF g

(* The loop of writefile(), by induction on its turns.                     *)
LEMMA CopiedRuns ==
  ASSUME Sizes, NEW D \in Nat, NEW f, NEW L, NEW Lab, NEW W, Runs(f, L, Lab, W, D),
         NEW ino \in Nat, NEW x \in DOMAIN Size, NEW n,
         Alive(f) => /\ ino \in Ino /\ L[InoBlk(ino)] > 0 /\ ino \notin W
                     /\ AtMost(L, n) /\ n + 2 <= 2 * D + 3
  PROVE  Became(f, FileCopied(f, ino, x), L, W, D)
<1> DEFINE S == Copies(f, L, W, D)
           start == [f |-> f, over |-> FALSE]
           turn == [k \in Nat |-> [y \in S |-> CopyTurn(y, ino, x, k)]]
           Loops(v) == v = [k \in Nat |-> IF k = 0 THEN [f |-> f, over |-> FALSE]
                                          ELSE CopyTurn(v[k-1], ino, x, k-1)]
           last == Size[x] \div NINDIRECT + 1
<1>1. f \in Formatter
  BY DEF Runs
<1>2. start \in S
  <2>1. After(f, f)
    BY <1>1 DEF After, Formatter
  <2>2. Became(f, f, L, W, D)
    BY <2>1 DEF Became
  <2>3. PICK over \in BOOLEAN : over = FALSE
    OBVIOUS
  <2>4. [f |-> f, over |-> over] \in Copies(f, L, W, D)
    BY <2>2, CopiesAre
  <2> QED BY <2>3, <2>4
<1>3. \A k \in Nat : \A y \in S : CopyTurn(y, ino, x, k) \in S
  BY <1>1, CopyTurnRuns
<1>4. turn \in [Nat -> [S -> S]]
  BY <1>3
<1>5. PICK y \in S : y = start
  BY <1>2
<1> HIDE DEF S, start
<1>6. PICK v \in [Nat -> S] : v[0] = y /\ \A k \in Nat : v[k+1] = turn[k][v[k]]
  <2>1. PICK t \in [Nat -> [S -> S]] : t = turn
    BY <1>4
  <2> HIDE DEF turn
  <2>2. Looping(S, y, t)
    BY ONLY y \in S, t \in [Nat -> [S -> S]], Turns
  <2> QED BY <2>1, <2>2 DEF Looping
<1>7. ASSUME NEW k \in Nat PROVE v[k+1] = CopyTurn(v[k], ino, x, k)
  BY <1>6
<1>8. Loops(v)
  <2> DEFINE h == [k \in Nat |-> IF k = 0 THEN [f |-> f, over |-> FALSE]
                                 ELSE CopyTurn(v[k-1], ino, x, k-1)]
  <2>1. ASSUME NEW k \in Nat PROVE v[k] = h[k]
    <3>1. CASE k = 0
      BY <1>5, <1>6, <3>1 DEF start
    <3>2. CASE k # 0
      <4>1. k-1 \in Nat /\ (k-1)+1 = k
        BY <3>2
      <4>2. v[k] = CopyTurn(v[k-1], ino, x, k-1)
        BY <1>7, <4>1
      <4> QED BY <3>2, <4>2
    <3> QED BY <3>1, <3>2
  <2> QED BY <1>6, <2>1
<1>9. PICK w : w = CHOOSE v_ : Loops(v_)
  OBVIOUS
<1>10. Loops(w)
  <2> HIDE DEF Loops
  <2> QED BY <1>8, <1>9
<1>11. FileCopied(f, ino, x) = Sized(w[last].f, ino, Size[x])
  BY <1>9 DEF FileCopied
<1>12. w[0] = start /\ \A k \in Nat : w[k+1] = CopyTurn(w[k], ino, x, k)
  <2>1. \A k \in Nat : k+1 \in Nat /\ k+1 # 0 /\ (k+1)-1 = k
    OBVIOUS
  <2>2. \A k \in Nat : w[k] = IF k = 0 THEN [f |-> f, over |-> FALSE]
                              ELSE CopyTurn(w[k-1], ino, x, k-1)
    BY <1>10, Zenon
  <2> QED BY <2>1, <2>2 DEF start
<1> HIDE DEF Loops
<1>13. w[last] \in S
  <2> DEFINE T == {k \in Nat : w[k] \in S}
  <2>1. 0 \in T
    BY <1>5, <1>12
  <2>2. ASSUME NEW k \in Nat, k \in T PROVE k+1 \in T
    BY <1>3, <1>12, <2>2
  <2>3. last \in Nat
    BY Division DEF Sizes
  <2> HIDE DEF T, last
  <2>4. last \in T
    BY <2>1, <2>2, <2>3, Reached
  <2> QED BY <2>4 DEF T
<1>14. Became(f, w[last].f, L, W, D)
  BY <1>13 DEF S, Copies
<1> HIDE DEF last
<1>15. PICK lab : Runs(w[last].f, L, lab, W, D) /\ After(f, w[last].f)
  BY <1>14 DEF Became
<1>16. /\ Runs(Sized(w[last].f, ino, Size[x]), L, lab, W, D)
       /\ After(w[last].f, Sized(w[last].f, ino, Size[x]))
  <2>1. Alive(w[last].f) => ino \in Ino /\ L[InoBlk(ino)] > 0 /\ ino \notin W
    BY <1>15 DEF After
  <2>2. Size[x] \in Nat
    BY DEF Sizes
  <2> QED BY <1>15, <2>1, <2>2, SizedRuns
<1>17. Became(w[last].f, FileCopied(f, ino, x), L, W, D)
  BY <1>11, <1>16 DEF Became
<1> QED BY <1>1, <1>14, <1>17, BecameThen

(* A new inode, with the contents of a file or those of a link.            *)
LEMMA FilledRuns ==
  ASSUME Sizes, NEW D \in Nat, NEW f, NEW L, NEW Lab, NEW W, Runs(f, L, Lab, W, D),
         NEW ino \in Nat, NEW is, NEW x, NEW n,
         is = "SYMLINK" \/ (is = "REG" /\ x \in DOMAIN Size),
         Alive(f) => /\ ino \in Ino /\ L[InoBlk(ino)] > 0 /\ ino \notin W
                     /\ AtMost(L, n) /\ n + 2 <= 2 * D + 3
  PROVE  Became(f, Filled(f, ino, is, x), L, W, D)
<1>0. /\ \A t \in {"REG", "SYMLINK"} : t \in {"REG", "DIR", "SYMLINK"}
      /\ "REG" # "SYMLINK"
  OBVIOUS
<1>1. f \in Formatter
  BY DEF Runs
<1>2. CASE is = "REG"
  <2> DEFINE g == NewInode(f, ino, is, 0)
  <2>1. Runs(g, L, Lab, W, D) /\ After(f, g)
    BY <1>2, NewInodeRuns
  <2>2. Filled(f, ino, is, x) = FileCopied(g, ino, x)
    BY <1>2 DEF Filled
  <2> HIDE DEF g
  <2>3. Alive(g) => /\ ino \in Ino /\ L[InoBlk(ino)] > 0 /\ ino \notin W
                    /\ AtMost(L, n) /\ n + 2 <= 2 * D + 3
    BY <2>1 DEF After
  <2>4. x \in DOMAIN Size
    BY <1>2
  <2>5. Became(g, FileCopied(g, ino, x), L, W, D)
    BY <2>1, <2>3, <2>4, CopiedRuns
  <2>6. Became(f, g, L, W, D)
    BY <2>1 DEF Became
  <2> QED BY <1>1, <2>2, <2>5, <2>6, BecameThen
<1>3. CASE is = "SYMLINK"
  <2> DEFINE g == NewInode(f, ino, is, 1)
  <2>1. Runs(g, L, Lab, W, D) /\ After(f, g)
    BY <1>3, NewInodeRuns
  <2>2. Filled(f, ino, is, x) = g
    BY <1>3 DEF Filled
  <2> HIDE DEF g
  <2> QED BY <2>1, <2>2 DEF Became
<1> QED BY <1>2, <1>3

-----------------------------------------------------------------------------
(* Files and symbolic links.                                               *)

(* With L lent out, f has become g, and may have given out an inode.       *)
Progressed(f, g, L, W, D) == \E new : Runs(g, L, new, W, D) /\ Later(f, g)

LEMMA InodeBlock ==
  ASSUME Sizes, NEW D, NEW f, NEW L, NEW Lab, NEW W, Runs(f, L, Lab, W, D), Alive(f),
         NEW ino \in Ino
  PROVE  InoBlk(ino) \in Nat /\ InoBlk(ino) < f.nextb /\ TypeOf(Lab[InoBlk(ino)].as) = "inodes"
<1> DEFINE b == InoBlk(ino)
<1>1. Labelled(Lab, f.nextb) /\ f.nextb \in Nat
  BY DEF Runs, Good, Formatter
<1>2. b \in Nat /\ os_firstinob <= b /\ b < FirstBlk /\ os_firstinob = 3
      /\ OSPFS_FREEMAP_BLK = 2 /\ FirstBlk \in Nat
  BY InodePlaces
<1> HIDE DEF b
<1>3. Lab[b].as = IF b = OSPFS_FREEMAP_BLK THEN "map"
                  ELSE IF b < os_firstinob THEN "super" ELSE "inodes"
  BY <1>1, <1>2 DEF Labelled
<1>4. Lab[b].as = "inodes"
  BY <1>2, <1>3
<1>5. FirstBlk <= f.nextb
  BY <1>1 DEF Labelled
<1> QED BY <1>1, <1>2, <1>4, <1>5 DEF TypeOf, b

(* The word of a directory entry.                                          *)
LEMMA NamedRuns ==
  ASSUME Sizes, NEW D \in Nat, NEW f, NEW L, NEW Lab, NEW W, Runs(f, L, Lab, W, D),
         NEW b, NEW i, NEW ino \in Nat,
         Alive(f) => b \in Nat /\ L[b] > 0 /\ Lab[b].as = "dir" /\ i \in Word
  PROVE  Runs(SetU(f, b, i, ino), L, Lab, W, D) /\ After(f, SetU(f, b, i, ino))
<1>1. Alive(f) => /\ b \in Nat /\ L[b] > 0 /\ i \in Word /\ ino \in Int /\ W \subseteq W
                  /\ Lab[b].as \in {"dir", "ind", "ind2"}
                  /\ Lab[b].as # "dir" => Lab[b].own \notin W
                  /\ Lab[b].as = "ind2" => MayPoint(Lab, Lab[b].own, ino, "ind")
  OBVIOUS
<1> QED BY <1>1, SetURuns

(* The inode is in the image already.                                      *)
LEMMA OldInodeRuns ==
  ASSUME Sizes, NEW D \in Nat, NEW f, NEW L, NEW Lab, NEW W, Runs(f, L, Lab, W, D),
         NEW b, NEW i, NEW ino \in Nat, NEW n,
         Alive(f) => /\ b \in Nat /\ L[b] > 0 /\ Lab[b].as = "dir" /\ i \in Word
                     /\ ino \in Ino /\ AtMost(L, n) /\ n <= 2 * D + 3
  PROVE  Progressed(f, SetU(OneMore(f, ino), b, i, ino), Plus(L, InoBlk(ino)), W, D)
<1> DEFINE a == InoBlk(ino)
           M == Plus(L, a)
           g1 == Look(f, a, "inodes")
           g2 == Counted(g1, ino)
           g3 == SetU(g2, b, i, ino)
<1>1. g3 = SetU(OneMore(f, ino), b, i, ino)
  BY DEF OneMore, Look
<1>2. f \in Formatter /\ (Alive(f) => L \in Borrowed) /\ "inodes" \in Kind
  BY DEF Runs, Good, Kind
<1>3. Runs(g1, M, Lab, W, D) /\ After(f, g1)
  <2>1. Alive(f) => /\ a \in Nat /\ a < f.nextb /\ TypeOf(Lab[a].as) = "inodes"
                    /\ AtMost(L, n) /\ n <= 2 * D + 3
    BY InodeBlock
  <2> QED BY <1>2, <2>1, GetRuns
<1> HIDE DEF g1
<1>4. Alive(g1) => Alive(f)
  BY <1>3 DEF After
<1>5. Alive(g1) => a \in Nat /\ M[a] > 0 /\ M[b] > 0
  <2>1. Alive(g1) => a \in Nat
    BY <1>4, InodePlaces
  <2> QED BY <1>2, <1>4, <2>1, Returned
<1>6. Runs(g2, M, Lab, W, D) /\ After(g1, g2)
  <2>1. Alive(g1) => ino \in Ino /\ M[InoBlk(ino)] > 0
    BY <1>4, <1>5
  <2> HIDE DEF M
  <2> QED BY <1>3, <2>1, CountedRuns
<1> HIDE DEF g2, M
<1>7. Alive(g2) => Alive(g1)
  BY <1>6 DEF After
<1>8. Runs(g3, M, Lab, W, D) /\ After(g2, g3)
  <2>1. Alive(g2) => b \in Nat /\ M[b] > 0 /\ Lab[b].as = "dir" /\ i \in Word
    BY <1>4, <1>5, <1>7
  <2> QED BY <1>6, <2>1, NamedRuns
<1> HIDE DEF g3
<1>9. Later(f, g3)
  <2>1. g1 \in Formatter /\ g2 \in Formatter /\ g3 \in Formatter
    BY <1>3, <1>6, <1>8 DEF Runs
  <2>2. Later(f, g1) /\ Later(g1, g2) /\ Later(g2, g3)
    BY <1>2, <1>3, <1>6, <1>8, <2>1, Laters
  <2>3. Later(f, g2)
    BY <1>2, <2>1, <2>2, Laters
  <2> QED BY <1>2, <2>1, <2>2, <2>3, Laters
<1> QED BY <1>1, <1>8, <1>9 DEF Progressed, M

(* It is a new one.                                                        *)
LEMMA NewEntryRuns ==
  ASSUME Sizes, NEW D \in Nat, NEW f, NEW L, NEW Lab, NEW W, Runs(f, L, Lab, W, D),
         NEW b, NEW i, NEW ino, ino = f.nextinode, NEW n,
         NEW host \in Nat, NEW is, NEW x \in Nat,
         is = "SYMLINK" \/ (is = "REG" /\ x \in DOMAIN Size),
         Alive(f) => /\ b \in Nat /\ L[b] > 0 /\ Lab[b].as = "dir" /\ i \in Word
                     /\ (\A w \in W : w < ino) /\ AtMost(L, n) /\ n + 3 <= 2 * D + 3
  PROVE  Progressed(f, Filled(Remember(SetU(AllocInode(f), b, i, ino), host, x, ino), ino, is, x),
                    Plus(L, InoBlk(ino)), W, D)
<1> DEFINE a == InoBlk(ino)
           M == Plus(L, a)
           g1 == AllocInode(f)
           g2 == SetU(g1, b, i, ino)
           g3 == Remember(g2, host, x, ino)
           g4 == Filled(g3, ino, is, x)
<1>1. f \in Formatter /\ ino \in Nat /\ (Alive(f) => n \in Nat /\ ino \notin W)
  <2>1. f \in Formatter /\ ino \in Nat
    BY DEF Runs, Formatter
  <2>2. Alive(f) => n \in Nat /\ \A w \in W : w < ino
    BY DEF AtMost
  <2> QED BY <2>1, <2>2
<1>2. /\ Runs(g1, M, Lab, W, D)
      /\ Later(f, g1)
      /\ Alive(g1) => /\ ino \in Ino /\ g1.nextinode = ino + 1 /\ L \in Borrowed
  <2>1. Alive(f) => AtMost(L, n) /\ n <= 2 * D + 3
    BY <1>1
  <2> QED BY <2>1, AllocInodeRuns
<1> HIDE DEF g1
<1>3. Alive(g1) => Alive(f)
  BY <1>2 DEF Later
<1>4. Alive(g1) => a \in Nat /\ M[a] > 0 /\ M[b] > 0 /\ AtMost(M, n + 1)
  <2>1. Alive(g1) => a \in Nat /\ AtMost(M, n + 1)
    BY <1>2, <1>3, InodePlaces, OneMoreBlock
  <2> QED BY <1>2, <1>3, <2>1, Returned
<1> HIDE DEF M
<1>5. Runs(g2, M, Lab, W, D) /\ After(g1, g2)
  <2>1. Alive(g1) => b \in Nat /\ M[b] > 0 /\ Lab[b].as = "dir" /\ i \in Word
    BY <1>3, <1>4
  <2> QED BY <1>1, <1>2, <2>1, NamedRuns
<1> HIDE DEF g2
<1>6. Alive(g2) => Alive(g1) /\ ino < g2.nextinode
  BY <1>1, <1>2, <1>5 DEF After
<1>7. Runs(g3, M, Lab, W, D) /\ Later(g2, g3)
  BY <1>1, <1>5, <1>6, RememberRuns
<1> HIDE DEF g3
<1>8. Alive(g3) => Alive(g1) /\ Alive(f)
  BY <1>3, <1>6, <1>7 DEF Later
<1>9. Became(g3, g4, M, W, D)
  <2>1. Alive(g3) => /\ ino \in Ino /\ M[InoBlk(ino)] > 0 /\ ino \notin W
                     /\ AtMost(M, n + 1) /\ (n + 1) + 2 <= 2 * D + 3
    BY <1>1, <1>2, <1>4, <1>8
  <2> QED BY <1>1, <1>7, <2>1, FilledRuns
<1> HIDE DEF g4
<1>10. PICK new : Runs(g4, M, new, W, D) /\ After(g3, g4)
  BY <1>9 DEF Became
<1>11. Later(f, g4)
  <2>1. g1 \in Formatter /\ g2 \in Formatter /\ g3 \in Formatter /\ g4 \in Formatter
    BY <1>2, <1>5, <1>7, <1>10 DEF Runs
  <2>2. Later(g1, g2) /\ Later(g3, g4)
    BY <1>5, <1>10, <2>1, Laters
  <2>3. Later(f, g2)
    BY <1>1, <1>2, <2>1, <2>2, Laters
  <2>4. Later(f, g3)
    BY <1>1, <1>7, <2>1, <2>3, Laters
  <2> QED BY <1>1, <2>1, <2>2, <2>4, Laters
<1> QED BY <1>10, <1>11 DEF Progressed, g1, g2, g3, g4, M

(* Both blocks are given back.                                             *)
LEMMA GivenBackRuns ==
  ASSUME Sizes, NEW D \in Nat, NEW f, NEW L, NEW b, NEW a, NEW Lab, NEW W,
         Runs(f, Plus(Plus(L, b), a), Lab, W, D),
         Alive(f) => L \in Borrowed /\ a \in Nat /\ b \in Nat
  PROVE  Runs(Put(Put(f, b), a), L, Lab, W, D) /\ After(f, Put(Put(f, b), a))
<1> DEFINE M == Plus(Plus(L, b), a)
           g == Put(f, b)
           h == Put(g, a)
<1>1. Alive(f) => M[b] > 0 /\ Minus(M, b) = Plus(L, a) /\ Plus(L, a)[a] > 0
                  /\ Minus(Plus(L, a), a) = L
  <2>1. Alive(f) => Plus(L, b) \in Borrowed /\ Plus(L, b)[b] > 0
    BY Returned
  <2> QED BY <2>1, Returned
<1> HIDE DEF M
<1>2. Runs(g, Minus(M, b), Lab, W, D) /\ After(f, g)
  BY <1>1, PutRuns DEF M
<1> HIDE DEF g
<1>3. Alive(g) => Alive(f)
  BY <1>2 DEF After
<1>4. Runs(g, Plus(L, a), Lab, W, D)
  BY <1>1, <1>2, <1>3, RunsSame
<1>5. Runs(h, Minus(Plus(L, a), a), Lab, W, D) /\ After(g, h)
  BY <1>1, <1>3, <1>4, PutRuns
<1> HIDE DEF h
<1>6. Alive(h) => Alive(f)
  BY <1>3, <1>5 DEF After
<1>7. Runs(h, L, Lab, W, D)
  BY <1>1, <1>5, <1>6, RunsSame
<1>8. After(f, h)
  <2>1. f \in Formatter /\ g \in Formatter /\ h \in Formatter
    BY <1>2, <1>5 DEF Runs
  <2> QED BY <1>2, <1>5, <2>1, Chain
<1> QED BY <1>7, <1>8 DEF g, h

(* The block of an inode has a number.                                     *)
LEMMA InodeBlockNumber ==
  ASSUME Sizes, NEW ino \in Nat
  PROVE  InoBlk(ino) \in Nat
<1>1. ino \div BLKINODES \in Nat
  BY Constants
<1> QED BY <1>1, InodePlaces DEF InoBlk

(* writefile() and addsymlink(), from the entry on.                        *)
LEMMA EntryIsRuns ==
  ASSUME Sizes, NEW D \in Nat, NEW f \in Formatter, NEW at, NEW L, NEW W,
         EntryPlace(f, at, L, W, D), NEW host \in Nat, NEW is, NEW x \in Nat,
         is = "SYMLINK" \/ (is = "REG" /\ x \in DOMAIN Size), NEW n,
         Alive(f) => /\ (\A w \in W : w < f.nextinode) /\ L \in Borrowed
                     /\ AtMost(L, n) /\ n + 4 <= 2 * D + 3
  PROVE  Progressed(f, EntryIs(at, host, is, x), L, W, D)
<1> DEFINE g == at.f
           known == {link.ino : link \in Known(g, host, x)}
           ino == IF known = {} THEN g.nextinode ELSE Min(known)
           M == Plus(L, at.b)
           done == IF known # {} THEN SetU(OneMore(g, ino), at.b, at.i, ino)
                   ELSE Filled(Remember(SetU(AllocInode(g), at.b, at.i, ino), host, x, ino),
                               ino, is, x)
           h == Put(Put(done, at.b), InoBlk(ino))
<1>1. EntryIs(at, host, is, x) = h
  BY DEF EntryIs
<1>2. PICK new : /\ Runs(g, M, new, W, D)
                 /\ After(f, g)
                 /\ Alive(g) => at.b \in Nat /\ new[at.b].as = "dir" /\ at.i \in Word
  BY DEF EntryPlace
<1>3. g \in Formatter /\ g.nextinode \in Nat /\ g.nextinode = f.nextinode
      /\ (Alive(g) => Alive(f))
  BY <1>2 DEF Runs, Formatter, After
<1>4. Alive(g) => /\ at.b \in Nat /\ M[at.b] > 0 /\ new[at.b].as = "dir" /\ at.i \in Word
                  /\ AtMost(M, n + 1) /\ n \in Nat
  <2>1. Alive(g) => AtMost(M, n + 1) /\ n \in Nat
    BY <1>3, OneMoreBlock DEF AtMost
  <2> QED BY <1>2, <1>3, <2>1, Returned
<1>5. known \in SUBSET Nat /\ (Alive(g) => known \subseteq Ino)
  <2>1. \A link \in Known(g, host, x) : link \in g.hardlinks
    BY DEF Known
  <2>2. \A link \in g.hardlinks : link.ino \in Nat
    BY <1>3 DEF Formatter, Link
  <2>3. ASSUME Alive(g), NEW i \in known PROVE i \in Ino
    <3>1. i \in Nat /\ i < g.nextinode /\ g.nextinode <= NINODES
      BY <1>2, <2>1, <2>2, <2>3 DEF Runs, Good
    <3> QED BY <1>3, <3>1, Constants DEF Ino
  <2> QED BY <2>1, <2>2, <2>3
<1> HIDE DEF known
<1>6. ino \in Nat
  <2>1. CASE known = {}
    BY <1>3, <2>1
  <2>2. CASE known # {}
    <3>1. Min(known) \in known
      BY <1>5, <2>2, LeastOfNaturals
    <3> QED BY <1>5, <2>2, <3>1
  <2> QED BY <2>1, <2>2
<1>7. Progressed(g, done, Plus(M, InoBlk(ino)), W, D)
  <2>1. CASE known # {}
    <3>1. ino \in known
      <4>1. ino = Min(known)
        BY <2>1
      <4> QED BY <1>5, <2>1, <4>1, LeastOfNaturals
    <3>2. done = SetU(OneMore(g, ino), at.b, at.i, ino)
      BY <2>1
    <3> HIDE DEF done, ino, M
    <3>3. Alive(g) => /\ at.b \in Nat /\ M[at.b] > 0 /\ new[at.b].as = "dir" /\ at.i \in Word
                      /\ ino \in Ino /\ AtMost(M, n + 1) /\ n + 1 <= 2 * D + 3
      BY <1>3, <1>4, <1>5, <3>1
    <3> QED BY <1>2, <1>6, <3>2, <3>3, OldInodeRuns
  <2>2. CASE known = {}
    <3>1. ino = g.nextinode
      BY <2>2
    <3>2. done = Filled(Remember(SetU(AllocInode(g), at.b, at.i, ino), host, x, ino), ino, is, x)
      BY <2>2
    <3> HIDE DEF done, ino, M
    <3>3. Alive(g) => /\ at.b \in Nat /\ M[at.b] > 0 /\ new[at.b].as = "dir" /\ at.i \in Word
                      /\ (\A w \in W : w < ino) /\ AtMost(M, n + 1) /\ (n + 1) + 3 <= 2 * D + 3
      BY <1>3, <1>4, <3>1
    <3> QED BY <1>2, <3>1, <3>2, <3>3, NewEntryRuns
  <2> QED BY <2>1, <2>2
<1> HIDE DEF done, ino, M, h
<1>8. PICK lab : Runs(done, Plus(M, InoBlk(ino)), lab, W, D) /\ Later(g, done)
  BY <1>7 DEF Progressed
<1>9. Alive(done) => L \in Borrowed /\ InoBlk(ino) \in Nat /\ at.b \in Nat
  <2>1. Alive(done) => Alive(g) /\ Alive(f)
    BY <1>3, <1>8 DEF Later
  <2> QED BY <1>2, <1>6, <2>1, InodeBlockNumber
<1>10. Runs(h, L, lab, W, D) /\ After(done, h)
  <2>1. Runs(done, Plus(Plus(L, at.b), InoBlk(ino)), lab, W, D)
    BY <1>8 DEF M
  <2> QED BY <1>9, <2>1, GivenBackRuns DEF h
<1>11. Later(f, h)
  <2>1. g \in Formatter /\ done \in Formatter /\ h \in Formatter
    BY <1>3, <1>8, <1>10 DEF Runs
  <2>2. Later(f, g) /\ Later(done, h)
    BY <1>2, <1>10, <2>1, Laters
  <2>3. Later(f, done)
    BY <1>8, <2>1, <2>2, Laters
  <2> QED BY <2>1, <2>2, <2>3, Laters
<1> QED BY <1>1, <1>10, <1>11 DEF Progressed

(* writefile() and addsymlink().                                           *)
LEMMA WithEntryRuns ==
  ASSUME Sizes, NEW D \in Nat, NEW f, NEW L, NEW Lab, NEW W, Runs(f, L, Lab, W, D),
         NEW dir \in Ino, NEW name \in Names, NEW host \in Nat, NEW is, NEW x \in Nat,
         is = "SYMLINK" \/ (is = "REG" /\ x \in DOMAIN Size), NEW n,
         Alive(f) => /\ L[InoBlk(dir)] > 0 /\ dir \in W /\ (\A w \in W : w < f.nextinode)
                     /\ AtMost(L, n) /\ n + 4 <= 2 * D + 3
  PROVE  Progressed(f, WithEntry(f, dir, name, host, is, x), L, W, D)
<1> DEFINE at == AllocDirentry(f, dir, name)
<1>1. WithEntry(f, dir, name, host, is, x) = EntryIs(at, host, is, x)
  BY DEF WithEntry
<1>2. EntryPlace(f, at, L, W, D)
  <2>1. Alive(f) => /\ L[InoBlk(dir)] > 0 /\ dir \in W
                    /\ AtMost(L, n) /\ n + 2 <= 2 * D + 3
    BY DEF AtMost
  <2> QED BY <2>1, AllocDirentryRuns
<1>3. f \in Formatter
  BY DEF Runs
<1>4. Alive(f) => /\ (\A w \in W : w < f.nextinode) /\ L \in Borrowed
                  /\ AtMost(L, n) /\ n + 4 <= 2 * D + 3
  BY DEF AtMost
<1> HIDE DEF at
<1> QED BY <1>1, <1>2, <1>3, <1>4, EntryIsRuns

-----------------------------------------------------------------------------
(* Directories.                                                            *)

(* f has become r.f, in a new directory, whose entry is in block r.b.      *)
Entered(f, r, L, W, D) ==
  LET ino == f.nextinode IN
  \E new : /\ Runs(r.f, Plus(Plus(L, r.b), InoBlk(ino)), new, W \cup {ino}, D)
           /\ Alive(r.f) => Alive(f) /\ r.b \in Nat /\ ino \in Ino /\ r.f.nextinode = ino + 1

LEMMA DirIsRuns ==
  ASSUME Sizes, NEW D \in Nat, NEW f \in Formatter, NEW at, NEW L, NEW W,
         EntryPlace(f, at, L, W, D), NEW dir \in Ino, NEW n,
         Alive(f) => /\ L[InoBlk(dir)] > 0 /\ (\A w \in W : w < f.nextinode) /\ L \in Borrowed
                     /\ AtMost(L, n) /\ n + 2 <= 2 * D + 3
  PROVE  Entered(f, DirIs(at, dir), L, W, D)
<1> DEFINE g == at.f
           ino == g.nextinode
           b == at.b
           M == Plus(L, b)
           N == Plus(M, InoBlk(ino))
           g1 == AllocInode(g)
           g2 == SetU(g1, b, at.i, ino)
           g3 == Counted(g2, dir)
           g4 == NewInode(g3, ino, "DIR", 0)
           r == DirIs(at, dir)
<1>1. r.f = g4 /\ r.b = b
  BY DEF DirIs
<1> HIDE DEF r
<1>2. PICK new : /\ Runs(g, M, new, W, D)
                 /\ After(f, g)
                 /\ Alive(g) => at.b \in Nat /\ new[at.b].as = "dir" /\ at.i \in Word
  BY DEF EntryPlace
<1>3. /\ g \in Formatter /\ ino \in Nat /\ ino = f.nextinode
      /\ Alive(g) => Alive(f) /\ ino \notin W /\ n \in Nat
  <2>1. g \in Formatter /\ ino \in Nat /\ ino = f.nextinode /\ (Alive(g) => Alive(f))
    BY <1>2 DEF Runs, Formatter, After
  <2>2. Alive(g) => n \in Nat /\ \A w \in W : w < ino
    BY <2>1 DEF AtMost
  <2> QED BY <2>1, <2>2
<1>4. /\ Runs(g1, N, new, W, D)
      /\ Later(g, g1)
      /\ Alive(g1) => /\ ino \in Ino /\ g1.nextinode = ino + 1 /\ M \in Borrowed
  <2>1. Alive(g) => AtMost(M, n + 1) /\ n + 1 <= 2 * D + 3
    BY <1>3, OneMoreBlock
  <2> HIDE DEF M
  <2> QED BY <1>2, <2>1, AllocInodeRuns
<1> HIDE DEF g1
<1>5. Alive(g1) => Alive(g) /\ Alive(f)
  BY <1>3, <1>4 DEF Later
<1>6. Alive(g1) => /\ N[b] > 0 /\ N[InoBlk(dir)] > 0 /\ N[InoBlk(ino)] > 0
                   /\ b \in Nat /\ new[b].as = "dir" /\ at.i \in Word
  <2> SUFFICES ASSUME Alive(g1)
               PROVE  N[b] > 0 /\ N[InoBlk(dir)] > 0 /\ N[InoBlk(ino)] > 0
    BY <1>2, <1>5
  <2>1. b \in Nat /\ InoBlk(dir) \in Nat /\ InoBlk(ino) \in Nat /\ M \in Borrowed
        /\ L \in Borrowed /\ L[InoBlk(dir)] > 0
    BY <1>2, <1>3, <1>4, <1>5, InodeBlockNumber, InodePlaces
  <2>2. M[b] > 0 /\ M[InoBlk(dir)] > 0
    BY <2>1, Returned
  <2> HIDE DEF M
  <2> QED BY <2>1, <2>2, Returned
<1> HIDE DEF N
<1>7. Runs(g2, N, new, W, D) /\ After(g1, g2)
  <2>1. Alive(g1) => b \in Nat /\ N[b] > 0 /\ new[b].as = "dir" /\ at.i \in Word
    BY <1>6
  <2> QED BY <1>3, <1>4, <2>1, NamedRuns
<1> HIDE DEF g2
<1>8. Alive(g2) => Alive(g1)
  BY <1>7 DEF After
<1>9. Runs(g3, N, new, W, D) /\ After(g2, g3)
  <2>1. Alive(g2) => dir \in Ino /\ N[InoBlk(dir)] > 0
    BY <1>6, <1>8
  <2> QED BY <1>7, <2>1, CountedRuns
<1> HIDE DEF g3
<1>10. Alive(g3) => Alive(g2)
  BY <1>9 DEF After
<1>11. /\ Runs(g4, N, new, W, D) /\ After(g3, g4)
       /\ Alive(g4) => Inode(g4, ino).size = 0 /\ InoBlk(ino) \in Cache!CachedBlock
  <2>1. PICK j : j = ino
    OBVIOUS
  <2>2. PICK t \in {"REG", "DIR", "SYMLINK"} : t = "DIR"
    OBVIOUS
  <2>3. PICK size \in Nat : size = 0
    OBVIOUS
  <2>4. g4 = NewInode(g3, j, t, size)
    BY <2>1, <2>2, <2>3
  <2>5. Alive(g3) => j \in Ino /\ N[InoBlk(j)] > 0 /\ j \notin W
    BY <1>3, <1>4, <1>5, <1>6, <1>8, <1>10, <2>1
  <2> HIDE DEF g4
  <2>6. /\ Runs(g4, N, new, W, D) /\ After(g3, g4)
        /\ Alive(g4) => Inode(g4, j).size = size /\ InoBlk(j) \in Cache!CachedBlock
    BY ONLY Sizes, D \in Nat, t \in {"REG", "DIR", "SYMLINK"}, size \in Nat,
            <1>9, <2>4, <2>5, NewInodeRuns
  <2> QED BY <2>1, <2>3, <2>6
<1> HIDE DEF g4
<1>12. Alive(g4) => Alive(g3)
  BY <1>11 DEF After
<1>13. Alive(g4) => ino \in Ino /\ Ended(g4, new, ino)
  <2>1. Size2NBlocks(0) = 0
    <3>1. (NINDIRECT - 1) \div NINDIRECT = 0
      BY Constants
    <3> QED BY <3>1, Constants DEF Size2NBlocks
  <2> QED BY <1>4, <1>8, <1>10, <1>11, <1>12, <2>1 DEF Ended
<1>14. Runs(g4, N, new, W \cup {ino}, D)
  BY <1>11, <1>13, RunsMore
<1>15. Alive(g4) => Alive(f) /\ b \in Nat /\ ino \in Ino /\ g4.nextinode = ino + 1
  <2>1. g4.nextinode = g1.nextinode
    BY <1>7, <1>9, <1>11 DEF After
  <2> QED BY <1>4, <1>5, <1>6, <1>8, <1>10, <1>12, <2>1
<1> QED BY <1>1, <1>3, <1>14, <1>15 DEF Entered, N, M, r

(* writedirectory(), up to its loop.                                       *)
LEMMA EnterDirRuns ==
  ASSUME Sizes, NEW D \in Nat, NEW f, NEW L, NEW Lab, NEW W, Runs(f, L, Lab, W, D),
         NEW dir \in Ino, NEW name \in Names, NEW n,
         Alive(f) => /\ L[InoBlk(dir)] > 0 /\ dir \in W /\ (\A w \in W : w < f.nextinode)
                     /\ AtMost(L, n) /\ n + 2 <= 2 * D + 3
  PROVE  Entered(f, EnterDir(f, dir, name), L, W, D)
<1> DEFINE at == AllocDirentry(f, dir, name)
<1>1. EnterDir(f, dir, name) = DirIs(at, dir)
  BY DEF EnterDir
<1>2. EntryPlace(f, at, L, W, D)
  <2>1. Alive(f) => /\ L[InoBlk(dir)] > 0 /\ dir \in W
                    /\ AtMost(L, n) /\ n + 2 <= 2 * D + 3
    BY DEF AtMost
  <2> QED BY <2>1, AllocDirentryRuns
<1>3. f \in Formatter
  BY DEF Runs
<1>4. Alive(f) => /\ L[InoBlk(dir)] > 0 /\ (\A w \in W : w < f.nextinode) /\ L \in Borrowed
                  /\ AtMost(L, n) /\ n + 2 <= 2 * D + 3
  BY DEF AtMost
<1> HIDE DEF at
<1> QED BY <1>1, <1>2, <1>3, <1>4, DirIsRuns

(* The deeper the directory, the more it may need.                         *)
LEMMA MoreAllowed ==
  ASSUME Sizes, NEW D \in Nat, NEW E \in Nat, D <= E
  PROVE  Allowed(D) \subseteq Allowed(E)
<1>1. NSLOTS \in Nat
  BY Constants
<1>2. 2 * D + 4 > NSLOTS => 2 * E + 4 > NSLOTS
  BY <1>1
<1> QED BY <1>2, Zenon DEF Allowed

-----------------------------------------------------------------------------
(* The first blocks of the image.                                          *)

(* getblk() of a block of inodes, or the super block, that clears it.      *)
Clear(f, b, type) == Get(f, b, TRUE, type)

LEMMA ClearIs ==
  ASSUME NEW f \in Formatter, NEW b, NEW type
  PROVE  /\ Clear(f, b, type) = [f EXCEPT !.cache = Fetch(@, b, type)]
         /\ ~Alive(f) => Clear(f, b, type) = f
<1>1. PICK clr \in BOOLEAN : clr = TRUE
  OBVIOUS
<1>2. Clear(f, b, type) = Get(f, b, clr, type)
  BY <1>1 DEF Clear
<1>3. ~Alive(f) => Clear(f, b, type) = f
  BY <1>2, Unmoved
<1> QED BY <1>3 DEF Clear, Get, Fetch

Clears(c, d, b, L, T, n) ==
  \/ d = [c EXCEPT !.abort = "past end of disk"]
  \/ d = [c EXCEPT !.abort = "cache full"] /\ NSLOTS <= n
  \/ /\ d.abort = Cache!Fine /\ b \in Cache!CachedBlock
     /\ Lends(d, Plus(L, b), T) /\ Sound(d)
     /\ \A x \in Cache!CachedBlock :
          Cache!Contents(d)[x] = IF x = b THEN ZeroBlock ELSE Cache!Contents(c)[x]

LEMMA ClearLends ==
  ASSUME Sizes, NEW f, Sound(f.cache), f.cache.abort = Cache!Fine,
         NEW L, NEW Lab, Lends(f.cache, L, Types(Lab)),
         NEW n, AtMost(L, n), NEW b \in Nat, NEW type \in Kind, Types(Lab)[b] = type
  PROVE  Clears(f.cache, Fetch(f.cache, b, type), b, L, Types(Lab), n)
<1> DEFINE c == f.cache
           d == Fetch(c, b, type)
<1>1. PICK clr \in BOOLEAN : clr = TRUE
  OBVIOUS
<1>2. d = Cache!GetBlk(c, b, clr, type)
  BY <1>1 DEF Fetch
<1>3. /\ Sound(c) /\ c.abort = Cache!Fine /\ Lends(c, L, Types(Lab)) /\ AtMost(L, n)
      /\ Types(Lab)[b] = type
  OBVIOUS
<1> HIDE DEF c
<1>4. \/ d = [c EXCEPT !.abort = "past end of disk"]
      \/ d = [c EXCEPT !.abort = "cache full"] /\ NSLOTS <= n
      \/ d.abort = Cache!Fine /\ b \in Cache!CachedBlock /\ Lends(d, Plus(L, b), Types(Lab))
  BY <1>3, GetBlkLends DEF Fetch
<1> HIDE DEF d
<1>5. ASSUME d.abort = Cache!Fine, b \in Cache!CachedBlock
      PROVE  /\ Sound(d)
             /\ \A x \in Cache!CachedBlock :
                  Cache!Contents(d)[x] = IF x = b THEN ZeroBlock ELSE Cache!Contents(c)[x]
  <2>1. /\ Sound(d)
        /\ \A x \in Cache!CachedBlock :
             Cache!Contents(d)[x] = IF clr /\ x = b THEN ZeroBlock ELSE Cache!Contents(c)[x]
    BY <1>2, <1>3, <1>5, GetBlkIsTransparent
  <2> QED BY <1>1, <2>1
<1> QED BY <1>4, <1>5 DEF c, d, Clears

(* A block is fetched to be written anew.                                  *)
LEMMA ClearRuns ==
  ASSUME Sizes, NEW D \in Nat, NEW f, NEW L, NEW Lab, NEW W, Runs(f, L, Lab, W, D),
         NEW b, NEW type \in Kind, NEW n,
         Alive(f) => /\ b \in Nat /\ b < f.nextb /\ TypeOf(Lab[b].as) = type
                     /\ Lab[b].as \in {"super", "inodes"}
                     /\ AtMost(L, n) /\ n <= 2 * D + 3
  PROVE  LET g == Clear(f, b, type)
         IN  Runs(g, Plus(L, b), Lab, {}, D) /\ After(f, g)
<1> DEFINE g == Clear(f, b, type)
<1>1. f \in Formatter /\ f.nextb \in Nat /\ f.cache.abort \in Allowed(D)
  BY DEF Runs, Formatter
<1>2. CASE ~Alive(f)
  <2>1. g = f
    BY <1>1, <1>2, ClearIs
  <2> HIDE DEF g
  <2> QED BY <1>2, <2>1, StillDead DEF g
<1>3. CASE Alive(f)
  <2> DEFINE c == f.cache
             d == Fetch(c, b, type)
  <2>1. /\ b \in Nat /\ b < f.nextb /\ TypeOf(Lab[b].as) = type
        /\ Lab[b].as \in {"super", "inodes"}
        /\ AtMost(L, n) /\ n <= 2 * D + 3
    BY <1>3
  <2>2. /\ Good(f, L, Lab, W) /\ Sound(c) /\ c.abort = Cache!Fine /\ L \in Borrowed
        /\ Lends(c, L, Types(Lab)) /\ Labelled(Lab, f.nextb)
        /\ \A x \in Nat : L[x] > 0 => x < f.nextb
    BY <1>3 DEF Runs, Good, Alive
  <2>3. Types(Lab)[b] = type
    BY <2>1 DEF Types
  <2>4. \/ d = [c EXCEPT !.abort = "past end of disk"]
        \/ d = [c EXCEPT !.abort = "cache full"] /\ NSLOTS <= n
        \/ /\ d.abort = Cache!Fine /\ b \in Cache!CachedBlock
           /\ Lends(d, Plus(L, b), Types(Lab)) /\ Sound(d)
           /\ \A x \in Cache!CachedBlock :
                Cache!Contents(d)[x] = IF x = b THEN ZeroBlock ELSE Cache!Contents(c)[x]
    <3>1. Clears(c, d, b, L, Types(Lab), n)
      BY <2>1, <2>2, <2>3, ClearLends
    <3> HIDE DEF d
    <3> QED BY <3>1 DEF Clears
  <2>5. g = [f EXCEPT !.cache = d]
    BY <1>1, ClearIs
  <2>6. CASE d = [c EXCEPT !.abort = "past end of disk"]
    <3>1. "past end of disk" \in Allowed(D) \cap Reason /\ "past end of disk" # Cache!Fine
      BY DEF Allowed, Reason, Cache!Fine
    <3>4. d \in CacheType /\ d.abort = "past end of disk"
      BY <1>1, <2>6, <3>1 DEF Formatter, CacheType
    <3> HIDE DEF d, g
    <3>2. g \in Formatter /\ g.cache.abort = "past end of disk" /\ ~Alive(g) /\ After(f, g)
      BY <1>1, <1>3, <2>5, <3>1, <3>4, GivesUp
    <3> QED BY <3>1, <3>2 DEF Runs, g
  <2>7. CASE d = [c EXCEPT !.abort = "cache full"] /\ NSLOTS <= n
    <3>0. n \in Nat
      BY <2>1 DEF AtMost
    <3>1. 2 * D + 4 > NSLOTS
      <4>1. n <= 2 * D + 3 /\ NSLOTS <= n
        BY <2>1, <2>7
      <4>2. NSLOTS \in Nat
        BY Constants
      <4> QED BY <3>0, <4>1, <4>2
    <3>2. "cache full" \in Allowed(D) \cap Reason /\ "cache full" # Cache!Fine
      BY <3>1 DEF Allowed, Reason, Cache!Fine
    <3>4. d \in CacheType /\ d.abort = "cache full"
      BY <1>1, <2>7, <3>2 DEF Formatter, CacheType
    <3> HIDE DEF d, g
    <3>3. g \in Formatter /\ g.cache.abort = "cache full" /\ ~Alive(g) /\ After(f, g)
      BY <1>1, <1>3, <2>5, <3>2, <3>4, GivesUp
    <3> QED BY <3>2, <3>3 DEF Runs, g
  <2>8. CASE /\ d.abort = Cache!Fine /\ b \in Cache!CachedBlock
             /\ Lends(d, Plus(L, b), Types(Lab)) /\ Sound(d)
             /\ \A x \in Cache!CachedBlock :
                  Cache!Contents(d)[x] = IF x = b THEN ZeroBlock ELSE Cache!Contents(c)[x]
    <3> HIDE DEF d, g
    <3>1. /\ g \in Formatter /\ g.cache = d /\ g.nextb = f.nextb
          /\ g.nextinode = f.nextinode /\ g.hardlinks = f.hardlinks
      BY <1>1, <2>5, <2>8, WithCache DEF Sound
    <3>2. \A x \in Cache!CachedBlock : Holds(g, x) = IF x = b THEN ZeroBlock ELSE Holds(f, x)
      BY <2>8, <3>1 DEF Holds
    <3>3. Plus(L, b) \in Borrowed /\ \A x \in Nat : Plus(L, b)[x] > 0 => x < g.nextb
      BY <2>1, <2>2, <3>1 DEF Plus, Borrowed
    <3>4. ASSUME NEW i \in Ino, InoBlk(i) \in Cache!CachedBlock
          PROVE  SamePlaces(f, g, i) \/ (i \notin {} /\ Pointers(Lab, i, Inode(g, i)))
      <4>1. CASE InoBlk(i) = b
        <5>1. Inode(g, i) = ZeroBlock.ino[i % BLKINODES]
          BY <3>2, <3>4, <4>1 DEF Inode
        <5>2. i % BLKINODES \in 0 .. BLKINODES-1
          BY InodePlaces
        <5>3. Inode(g, i) = NoInode
          BY <5>1, <5>2 DEF ZeroBlock
        <5> QED BY <5>3 DEF NoInode, Pointers, MayPoint
      <4>2. CASE InoBlk(i) # b
        BY <3>2, <3>4, <4>2 DEF Inode, SamePlaces
      <4> QED BY <4>1, <4>2
    <3>5. \A x \in Cache!CachedBlock : Lab[x].as \in {"ind", "ind2"} => Holds(g, x) = Holds(f, x)
      BY <2>1, <3>2
    <3>6. \A x \in Cache!CachedBlock : x >= f.nextb => Lab[x].as # "ind2"
      BY <2>2, Constants DEF Labelled, Cache!CachedBlock
    <3>7. Relabels(Lab, Lab, f.nextb) /\ f.nextb <= g.nextb /\ Labelled(Lab, g.nextb)
          /\ {} \subseteq W
      BY <1>1, <2>2, <3>1 DEF Relabels
    <3>8. /\ \A x \in Cache!CachedBlock : x < f.nextb /\ Lab[x].as = "ind2" =>
               \/ Holds(g, x).u = Holds(f, x).u
               \/ Lab[x].own \notin {} /\ Words(Lab, Lab[x].own, Holds(g, x).u)
          /\ \A x \in Cache!CachedBlock : x < f.nextb /\ Lab[x].as = "ind" =>
               Holds(g, x).u = Holds(f, x).u \/ Lab[x].own \notin {}
          /\ \A x \in Cache!CachedBlock : x >= f.nextb /\ Lab[x].as = "ind2" =>
               Words(Lab, Lab[x].own, Holds(g, x).u)
      BY <3>5, <3>6
    <3>9. Sound(g.cache) /\ Lends(g.cache, Plus(L, b), Types(Lab))
      BY <2>8, <3>1
    <3>10. Good(g, Plus(L, b), Lab, {})
      BY ONLY Sizes, <1>1, <2>2, <3>1, <3>3, <3>4, <3>7, <3>8, <3>9, GoesOn
    <3>11. Alive(g) /\ After(f, g)
      BY <1>1, <1>3, <2>8, <3>1 DEF Alive, After
    <3>12. Runs(g, Plus(L, b), Lab, {}, D)
      BY <2>8, <3>1, <3>10, AllowedReasons DEF Runs
    <3> QED BY <3>11, <3>12 DEF g
  <2> QED BY <2>4, <2>6, <2>7, <2>8
<1> QED BY <1>2, <1>3

(* A whole block of other data is written, in a block that is then given   *)
(* back.                                                                   *)
LEMMA FinishedRuns ==
  ASSUME Sizes, NEW D \in Nat, NEW f, NEW L, NEW b, NEW Lab, NEW W,
         Runs(f, Plus(L, b), Lab, W, D), NEW data,
         Alive(f) => /\ L \in Borrowed /\ b \in Nat /\ data \in Value
                     /\ Lab[b].as \in {"dir", "file", "map", "super"}
  PROVE  LET g == Put(SetData(f, b, data), b) IN Runs(g, L, Lab, W, D) /\ After(f, g)
<1> DEFINE M == Plus(L, b)
           h == SetData(f, b, data)
           g == Put(h, b)
<1>1. Alive(f) => M[b] > 0 /\ Minus(M, b) = L
  BY Returned
<1> HIDE DEF M
<1>2. Runs(h, M, Lab, W, D) /\ After(f, h)
  <2>1. Runs(f, M, Lab, W, D)
    BY DEF M
  <2>2. Alive(f) => /\ b \in Nat /\ M[b] > 0 /\ data \in Value
                    /\ Lab[b].as \in {"dir", "file", "map", "super"}
    BY <1>1
  <2> QED BY <2>1, <2>2, SetDataRuns
<1> HIDE DEF h
<1>3. Alive(h) => Alive(f)
  BY <1>2 DEF After
<1>4. Runs(g, Minus(M, b), Lab, W, D) /\ After(h, g)
  BY <1>1, <1>2, <1>3, PutRuns
<1> HIDE DEF g
<1>5. Alive(g) => Alive(f)
  BY <1>3, <1>4 DEF After
<1>6. Runs(g, L, Lab, W, D)
  BY <1>1, <1>4, <1>5, RunsSame
<1>7. After(f, g)
  <2>1. f \in Formatter /\ h \in Formatter /\ g \in Formatter
    BY <1>2, <1>4 DEF Runs
  <2> QED BY <1>2, <1>4, <2>1, Chain
<1> QED BY <1>6, <1>7 DEF g, h

(* What the blocks are before anybody has got one.                         *)
Fresh ==
  [b \in Nat |->
     Mine(0, IF b = OSPFS_FREEMAP_BLK THEN "map"
             ELSE IF os_firstinob <= b /\ b < FirstBlk THEN "inodes" ELSE "super")]

Opened ==
  [cache |-> Cache!EmptyCache, nextb |-> os_firstinob + ninodeblock,
   nextinode |-> 0, hardlinks |-> {}]

LEMMA OpenedRuns ==
  ASSUME Sizes, NEW D \in Nat
  PROVE  Runs(Opened, Nothing, Fresh, {}, D)
<1>1. /\ Sound(Cache!EmptyCache)
      /\ Cache!Contents(Cache!EmptyCache) = [b \in Cache!CachedBlock |-> ZeroBlock]
      /\ Cache!EmptyCache.abort = Cache!Fine
  BY EmptyCacheIsSound DEF Cache!EmptyCache
<1>2. os_firstinob = 3 /\ OSPFS_FREEMAP_BLK = 2 /\ FirstBlk \in Nat /\ ninodeblock \in Nat
      /\ FirstBlk = os_firstinob + ninodeblock
  BY InodePlaces DEF FirstBlk
<1>3. /\ Opened \in Formatter /\ Opened.cache = Cache!EmptyCache /\ Opened.nextb = FirstBlk
      /\ Opened.nextinode = 0 /\ Opened.hardlinks = {}
  BY <1>1, <1>2 DEF Opened, Formatter, Sound
<1>4. \A s \in Cache!Slot : Cache!EmptyCache.slot[s].used = 0 /\ Cache!EmptyCache.slot[s].busy = 0
  BY DEF Cache!EmptyCache, Cache!EmptySlot
<1>5. Nothing \in Borrowed /\ \A b \in Nat : ~(Nothing[b] > 0)
  BY DEF Nothing, Borrowed
<1>6. Lends(Cache!EmptyCache, Nothing, Types(Fresh))
  BY <1>4, <1>5 DEF Lends
<1>7. /\ Fresh \in [Nat -> Label]
      /\ \A b \in Nat : Fresh[b].as = IF b = OSPFS_FREEMAP_BLK THEN "map"
                                      ELSE IF os_firstinob <= b /\ b < FirstBlk THEN "inodes"
                                      ELSE "super"
  <2>1. ASSUME NEW b \in Nat
        PROVE  /\ Fresh[b] \in Label
               /\ Fresh[b].as = IF b = OSPFS_FREEMAP_BLK THEN "map"
                                ELSE IF os_firstinob <= b /\ b < FirstBlk THEN "inodes"
                                ELSE "super"
    BY DEF Fresh, Mine, Label, As
  <2>2. Fresh = [b \in Nat |-> Fresh[b]]
    BY DEF Fresh
  <2> QED BY <2>1, <2>2
<1>8. Labelled(Fresh, FirstBlk)
  BY <1>2, <1>7 DEF Labelled
<1>9. Pointing(Opened, Fresh)
  <2>1. ASSUME NEW i \in Ino, InoBlk(i) \in Cache!CachedBlock
        PROVE  Pointers(Fresh, i, Inode(Opened, i))
    <3>1. Inode(Opened, i) = ZeroBlock.ino[i % BLKINODES]
      BY <1>1, <1>3, <2>1 DEF Inode, Holds
    <3>2. i % BLKINODES \in 0 .. BLKINODES-1
      BY InodePlaces
    <3>3. Inode(Opened, i) = NoInode
      BY <3>1, <3>2 DEF ZeroBlock
    <3> QED BY <3>3 DEF NoInode, Pointers, MayPoint
  <2>2. \A b \in Cache!CachedBlock : Fresh[b].as # "ind2"
    BY <1>7, Constants DEF Cache!CachedBlock
  <2> QED BY <2>1, <2>2 DEF Pointing
<1>10. 0 <= NINODES
  BY Constants
<1>11. Good(Opened, Nothing, Fresh, {})
  BY <1>1, <1>3, <1>5, <1>6, <1>8, <1>9, <1>10 DEF Good
<1> QED BY <1>1, <1>3, <1>11, AllowedReasons DEF Runs

(* A block that is cleared and given back.                                 *)
Cleared(f, b, type) == Put(Clear(f, b, type), b)

LEMMA ClearedRuns ==
  ASSUME Sizes, NEW D \in Nat, NEW f, NEW Lab, NEW W, Runs(f, Nothing, Lab, W, D),
         NEW b \in Nat, NEW type \in Kind,
         Alive(f) => /\ b < f.nextb /\ TypeOf(Lab[b].as) = type
                     /\ Lab[b].as \in {"super", "inodes"}
  PROVE  Runs(Cleared(f, b, type), Nothing, Lab, {}, D) /\ After(f, Cleared(f, b, type))
<1> DEFINE g == Clear(f, b, type)
           h == Put(g, b)
<1>1. Nothing \in Borrowed /\ Plus(Nothing, b)[b] > 0 /\ Minus(Plus(Nothing, b), b) = Nothing
  BY NothingIsLent, Returned DEF AtMost
<1>2. Runs(g, Plus(Nothing, b), Lab, {}, D) /\ After(f, g)
  <2>1. Alive(f) => /\ b \in Nat /\ b < f.nextb /\ TypeOf(Lab[b].as) = type
                    /\ Lab[b].as \in {"super", "inodes"}
                    /\ AtMost(Nothing, 0) /\ 0 <= 2 * D + 3
    BY NothingIsLent
  <2> QED BY <2>1, ClearRuns
<1> HIDE DEF g
<1>3. Runs(h, Minus(Plus(Nothing, b), b), Lab, {}, D) /\ After(g, h)
  BY <1>1, <1>2, PutRuns
<1> HIDE DEF h
<1>4. Runs(h, Nothing, Lab, {}, D)
  BY <1>1, <1>3, RunsSame
<1>5. After(f, h)
  <2>1. f \in Formatter /\ g \in Formatter /\ h \in Formatter
    BY <1>2, <1>3 DEF Runs
  <2> QED BY <1>2, <1>3, <2>1, Chain
<1> QED BY <1>4, <1>5 DEF h, g, Cleared

(* The bitmap is written.                                                  *)
LEMMA MarkedRuns ==
  ASSUME Sizes, NEW D \in Nat, NEW f, NEW Lab, NEW W, Runs(f, Nothing, Lab, W, D)
  PROVE  LET g == Look(f, OSPFS_FREEMAP_BLK, "bits")
         IN  /\ Runs(g, Plus(Nothing, OSPFS_FREEMAP_BLK), Lab, W, D) /\ After(f, g)
             /\ Alive(g) => /\ Lab[OSPFS_FREEMAP_BLK].as = "map" /\ Nothing \in Borrowed
                            /\ OSPFS_FREEMAP_BLK \in Nat /\ Data(g, OSPFS_FREEMAP_BLK) \in Value
<1> DEFINE b == OSPFS_FREEMAP_BLK
           M == Plus(Nothing, b)
           g == Look(f, b, "bits")
<1>1. b = 2 /\ b \in Nat /\ FirstBlk \in Nat /\ b < FirstBlk /\ "bits" \in Kind
  <2>1. FirstBlk >= 3
    BY InodePlaces DEF FirstBlk
  <2> QED BY <2>1, InodePlaces DEF Kind
<1>2. Nothing \in Borrowed /\ M[b] > 0
  BY <1>1, NothingIsLent, Returned DEF AtMost
<1> HIDE DEF b, M
<1>3. Alive(f) => b < f.nextb /\ Lab[b].as = "map"
  <2>1. Alive(f) => Labelled(Lab, f.nextb) /\ f.nextb \in Nat
    BY DEF Runs, Good, Formatter
  <2> QED BY <1>1, <2>1 DEF Labelled, b
<1>4. Runs(g, Plus(Nothing, b), Lab, W, D) /\ After(f, g)
  <2>1. Alive(f) => /\ b \in Nat /\ b < f.nextb /\ TypeOf(Lab[b].as) = "bits"
                    /\ AtMost(Nothing, 0) /\ 0 <= 2 * D + 3
    BY <1>1, <1>3, NothingIsLent DEF TypeOf
  <2> QED BY <1>1, <2>1, GetRuns
<1> HIDE DEF g
<1>5. Alive(g) => Alive(f)
  BY <1>4 DEF After
<1>6. Alive(g) => Data(g, b) \in Value
  <2>1. Runs(g, M, Lab, W, D)
    BY <1>4 DEF M
  <2> QED BY <1>1, <1>2, <2>1, Found
<1> QED BY <1>1, <1>2, <1>3, <1>4, <1>5, <1>6 DEF b, g

(* main() on a disk that was opened, as far as the inodes.                 *)
Opening(D) == {g \in Formatter : Runs(g, Nothing, Fresh, {}, D) /\ After(Opened, g)}

LEMMA BitsTyped ==
  ASSUME Sizes, NEW bits \in SUBSET Int
  PROVE  [ZeroBlock EXCEPT !.bits = bits] \in Value
BY Constants DEF Value

(* main() marks all blocks as free.                                        *)
LEMMA AllMarkedRuns ==
  ASSUME Sizes, NEW D \in Nat
  PROVE  AllMarked(Look(Opened, OSPFS_FREEMAP_BLK, "bits")) \in Opening(D)
<1> DEFINE b == OSPFS_FREEMAP_BLK
           g == Look(Opened, b, "bits")
           data == [ZeroBlock EXCEPT !.bits = 0 .. BLKBITSIZE-1]
           h == Put(SetData(g, b, data), b)
<1>1. AllMarked(g) = h
  BY DEF AllMarked
<1>2. Opened \in Formatter
  BY OpenedRuns DEF Runs
<1>3. /\ Runs(g, Plus(Nothing, b), Fresh, {}, D) /\ After(Opened, g)
      /\ Alive(g) => /\ Fresh[b].as = "map" /\ Nothing \in Borrowed /\ b \in Nat
  BY OpenedRuns, MarkedRuns
<1>4. data \in Value
  <2>1. (0 .. BLKBITSIZE-1) \in SUBSET Int
    OBVIOUS
  <2> QED BY <2>1, BitsTyped
<1> HIDE DEF g, b, data
<1>5. Runs(h, Nothing, Fresh, {}, D) /\ After(g, h)
  <2>1. Alive(g) => /\ Nothing \in Borrowed /\ b \in Nat /\ data \in Value
                    /\ Fresh[b].as \in {"dir", "file", "map", "super"}
    BY <1>3, <1>4
  <2> QED BY <1>3, <2>1, FinishedRuns
<1> HIDE DEF h
<1>6. g \in Formatter /\ h \in Formatter
  BY <1>3, <1>5 DEF Runs
<1>7. After(Opened, h)
  BY <1>2, <1>3, <1>5, <1>6, Chain
<1> QED BY <1>1, <1>5, <1>6, <1>7 DEF Opening, g, b

(* main() clears a block of inodes.                                        *)
LEMMA InodesClearedRuns ==
  ASSUME Sizes, NEW D \in Nat, NEW g \in Opening(D), NEW k \in Nat, k < ninodeblock
  PROVE  Cleared(g, os_firstinob + k, "inodes") \in Opening(D)
<1> DEFINE b == os_firstinob + k
           h == Cleared(g, b, "inodes")
<1>1. /\ g \in Formatter /\ Runs(g, Nothing, Fresh, {}, D) /\ After(Opened, g)
      /\ Opened \in Formatter
  BY OpenedRuns DEF Opening, Runs
<1>2. os_firstinob = 3 /\ OSPFS_FREEMAP_BLK = 2 /\ FirstBlk \in Nat /\ ninodeblock \in Nat
      /\ FirstBlk = os_firstinob + ninodeblock
  BY InodePlaces DEF FirstBlk
<1>3. b \in Nat /\ b < FirstBlk /\ os_firstinob <= b /\ b # OSPFS_FREEMAP_BLK
      /\ "inodes" \in Kind
  BY <1>2 DEF Kind
<1> HIDE DEF b
<1>4. Alive(g) => /\ b < g.nextb /\ TypeOf(Fresh[b].as) = "inodes"
                  /\ Fresh[b].as \in {"super", "inodes"}
  <2>1. Fresh[b].as = "inodes"
    BY <1>3 DEF Fresh, Mine
  <2>2. Alive(g) => FirstBlk <= g.nextb /\ g.nextb \in Nat
    BY <1>1 DEF Runs, Good, Labelled, Formatter
  <2> QED BY <1>2, <1>3, <2>1, <2>2 DEF TypeOf
<1>5. Runs(h, Nothing, Fresh, {}, D) /\ After(g, h)
  BY <1>1, <1>3, <1>4, ClearedRuns
<1> HIDE DEF h
<1>6. h \in Formatter
  BY <1>5 DEF Runs
<1>7. After(Opened, h)
  BY <1>1, <1>5, <1>6, Chain
<1> QED BY <1>5, <1>6, <1>7 DEF Opening, b, h

(* main() clears them all, by induction on its loop.                       *)
LEMMA OpenDiskRuns ==
  ASSUME Sizes, NEW D \in Nat
  PROVE  OpenDisk \in Opening(D)
<1> DEFINE S == Opening(D)
           start == AllMarked(Look(Opened, OSPFS_FREEMAP_BLK, "bits"))
           step(z, k) == Cleared(z, os_firstinob + k, "inodes")
           turn == [k \in Nat |-> [z \in S |-> IF k < ninodeblock THEN step(z, k) ELSE z]]
           c_(v) == v = [k \in 0 .. ninodeblock |->
                           IF k = 0 THEN AllMarked(Get(Opened, OSPFS_FREEMAP_BLK, FALSE, "bits"))
                           ELSE Put(Get(v[k-1], os_firstinob + k-1, TRUE, "inodes"),
                                    os_firstinob + k-1)]
           Loops(v) == v = [k \in 0 .. ninodeblock |-> IF k = 0 THEN start ELSE step(v[k-1], k-1)]
<1>1. ninodeblock \in Nat /\ os_firstinob = 3
  BY InodePlaces
<1>2. start \in S
  BY AllMarkedRuns
<1>3. \A k \in Nat : \A z \in S : k < ninodeblock => step(z, k) \in S
  BY InodesClearedRuns
<1>4. turn \in [Nat -> [S -> S]]
  BY <1>3
<1>5. ASSUME NEW v PROVE c_(v) = Loops(v)
  <2>1. ASSUME NEW k \in 0 .. ninodeblock, k # 0
        PROVE  Put(Get(v[k-1], os_firstinob + k-1, TRUE, "inodes"), os_firstinob + k-1)
                 = step(v[k-1], k-1)
    <3>1. os_firstinob + k-1 = os_firstinob + (k-1)
      BY <1>1
    <3> QED BY <3>1 DEF Cleared, Clear
  <2> QED BY <2>1 DEF Look
<1>6. OpenDisk = (CHOOSE v : c_(v))[ninodeblock]
  BY DEF OpenDisk, Opened
<1>7. PICK y \in S : y = start
  BY <1>2
<1> HIDE DEF S, start, step
<1>8. PICK v \in [Nat -> S] : v[0] = y /\ \A k \in Nat : v[k+1] = turn[k][v[k]]
  <2>1. PICK t \in [Nat -> [S -> S]] : t = turn
    BY <1>4
  <2> HIDE DEF turn
  <2>2. Looping(S, y, t)
    BY ONLY y \in S, t \in [Nat -> [S -> S]], Turns
  <2> QED BY <2>1, <2>2 DEF Looping
<1>9. ASSUME NEW k \in Nat, k < ninodeblock PROVE v[k+1] = step(v[k], k)
  BY <1>8, <1>9
<1> HIDE DEF turn, c_
<1>10. Loops([k \in 0 .. ninodeblock |-> v[k]])
  <2>1. ASSUME NEW k \in 0 .. ninodeblock
        PROVE  v[k] = IF k = 0 THEN start ELSE step([j \in 0 .. ninodeblock |-> v[j]][k-1], k-1)
    <3>1. CASE k = 0
      BY <1>7, <1>8, <3>1
    <3>2. CASE k # 0
      <4>1. k-1 \in Nat /\ (k-1)+1 = k /\ k-1 < ninodeblock /\ k-1 \in 0 .. ninodeblock
        BY <1>1, <3>2
      <4>2. v[k] = step(v[k-1], k-1)
        BY <1>9, <4>1
      <4> QED BY <3>2, <4>1, <4>2
    <3> QED BY <3>1, <3>2
  <2> QED BY <2>1
<1>11. PICK w : w = CHOOSE v_ : c_(v_)
  OBVIOUS
<1> HIDE DEF Loops
<1>12. Loops(w)
  <2>1. c_([k \in 0 .. ninodeblock |-> v[k]])
    BY <1>5, <1>10
  <2>2. c_(w)
    BY <1>11, <2>1
  <2> QED BY <1>5, <2>2
<1>13. w[0] = start /\ \A k \in Nat : k < ninodeblock => w[k+1] = step(w[k], k)
  <2>1. \A k \in Nat : k < ninodeblock => /\ k+1 \in 0 .. ninodeblock /\ k+1 # 0
                                          /\ (k+1)-1 = k
    BY <1>1
  <2>2. 0 \in 0 .. ninodeblock
    BY <1>1
  <2>3. \A k \in 0 .. ninodeblock : w[k] = IF k = 0 THEN start ELSE step(w[k-1], k-1)
    BY <1>12, Zenon DEF Loops
  <2> QED BY <2>1, <2>2, <2>3
<1>14. w[ninodeblock] \in S
  <2> DEFINE T == {k \in Nat : k <= ninodeblock => w[k] \in S}
  <2>1. 0 \in T
    BY <1>7, <1>13
  <2>2. ASSUME NEW k \in Nat, k \in T PROVE k+1 \in T
    <3>1. CASE k < ninodeblock
      <4>1. w[k] \in S
        BY <2>2, <3>1, <1>1
      <4>2. step(w[k], k) \in S
        BY <1>3, <3>1, <4>1
      <4>3. w[k+1] = step(w[k], k)
        BY <1>13, <3>1
      <4> QED BY <4>2, <4>3
    <3>2. CASE ~(k < ninodeblock)
      BY <3>2, <1>1
    <3> QED BY <3>1, <3>2
  <2> HIDE DEF T
  <2>3. ninodeblock \in T
    BY <1>1, <2>1, <2>2, Reached
  <2> QED BY <2>3, <1>1 DEF T
<1>15. OpenDisk = w[ninodeblock]
  BY <1>6, <1>11
<1> QED BY <1>14, <1>15 DEF S

(* Inode 0 is marked as used.                                              *)
LEMMA ZerothRuns ==
  ASSUME Sizes, NEW D \in Nat, NEW f, NEW L, NEW Lab, NEW W, Runs(f, L, Lab, W, D),
         NEW ino, Alive(f) => ino \in Ino /\ L[InoBlk(ino)] > 0
  PROVE  LET g == SetIno(f, ino, [TheIno(f, ino) EXCEPT !.nlink = 1])
         IN  Runs(g, L, Lab, W, D) /\ After(f, g)
<1> DEFINE oi == TheIno(f, ino)
           oj == [oi EXCEPT !.nlink = 1]
<1>1. Alive(f) => /\ oi = Inode(f, ino) /\ oi \in InodeType /\ Pointers(Lab, ino, oi)
  BY InodeFound
<1> HIDE DEF oi
<1>3. Alive(f) => /\ oj \in InodeType /\ oj.size = oi.size /\ oj.direct = oi.direct
                  /\ oj.indirect = oi.indirect /\ oj.indirect2 = oi.indirect2
  BY <1>1 DEF InodeType
<1> HIDE DEF oj
<1>4. Alive(f) => /\ ino \in Ino /\ L[InoBlk(ino)] > 0 /\ oj \in InodeType
                  /\ Pointers(Lab, ino, oj) /\ W \subseteq W
                  /\ ino \in W => /\ oj.size = Inode(f, ino).size
                                  /\ oj.direct = Inode(f, ino).direct
                                  /\ oj.indirect = Inode(f, ino).indirect
                                  /\ oj.indirect2 = Inode(f, ino).indirect2
  BY <1>1, <1>3 DEF Pointers
<1>5. Runs(SetIno(f, ino, oj), L, Lab, W, D) /\ After(f, SetIno(f, ino, oj))
  BY <1>4, SetInoRuns
<1> QED BY <1>5 DEF oj, oi

(* main() allocates inode 0 and gives its block back.                      *)
Zeroth(g) == Put(SetIno(g, 0, [TheIno(g, 0) EXCEPT !.nlink = 1]), InoBlk(0))

LEMMA ZerothDoneRuns ==
  ASSUME Sizes, NEW D \in Nat, NEW f, Runs(f, Nothing, Fresh, {}, D), f.nextinode = 0
  PROVE  LET g == Zeroth(AllocInode(f))
         IN  Runs(g, Nothing, Fresh, {}, D) /\ (Alive(g) => g.nextinode = 1)
<1> DEFINE g1 == AllocInode(f)
<1>1. PICK ino \in Nat : ino = 0
  OBVIOUS
<1>2. Nothing \in Borrowed /\ 0 \in Ino /\ AtMost(Nothing, 0) /\ 0 <= 2 * D + 3
      /\ InoBlk(ino) \in Nat
  BY <1>1, Constants, NothingIsLent, InodeBlockNumber DEF AtMost
<1>3. /\ Runs(g1, Plus(Nothing, InoBlk(ino)), Fresh, {}, D)
      /\ Alive(g1) => g1.nextinode = 1
  <2>1. Alive(f) => AtMost(Nothing, 0) /\ 0 <= 2 * D + 3
    BY <1>2
  <2>2. /\ Runs(g1, Plus(Nothing, InoBlk(f.nextinode)), Fresh, {}, D)
        /\ Alive(g1) => g1.nextinode = f.nextinode + 1
    BY <2>1, AllocInodeRuns
  <2> QED BY <1>1, <2>2
<1> HIDE DEF g1
<1> DEFINE M == Plus(Nothing, InoBlk(ino))
           g2 == SetIno(g1, ino, [TheIno(g1, ino) EXCEPT !.nlink = 1])
<1>4. M[InoBlk(ino)] > 0 /\ Minus(M, InoBlk(ino)) = Nothing
  BY <1>2, Returned
<1> HIDE DEF M
<1>5. Runs(g2, M, Fresh, {}, D) /\ After(g1, g2)
  <2>1. Alive(g1) => ino \in Ino /\ M[InoBlk(ino)] > 0
    BY <1>1, <1>2, <1>4
  <2>2. Runs(g1, M, Fresh, {}, D)
    BY <1>3 DEF M
  <2> QED BY <2>1, <2>2, ZerothRuns
<1> HIDE DEF g2
<1>6. Runs(Put(g2, InoBlk(ino)), Nothing, Fresh, {}, D) /\ After(g2, Put(g2, InoBlk(ino)))
  <2>1. PICK b : b = InoBlk(ino)
    OBVIOUS
  <2>2. Alive(g2) => b \in Nat /\ M[b] > 0
    BY <1>2, <1>4, <2>1
  <2>3. Runs(Put(g2, b), Minus(M, b), Fresh, {}, D) /\ After(g2, Put(g2, b))
    BY <1>5, <2>2, PutRuns
  <2> QED BY <1>4, <2>1, <2>3
<1>7. Zeroth(g1) = Put(g2, InoBlk(ino))
  BY <1>1 DEF Zeroth, g2
<1>8. Alive(Put(g2, InoBlk(ino))) => Put(g2, InoBlk(ino)).nextinode = 1
  BY <1>3, <1>5, <1>6 DEF After
<1> QED BY <1>6, <1>7, <1>8 DEF g1

(* main(), up to the tree.                                                 *)
LEMMA RootRuns ==
  ASSUME Sizes, NEW D \in Nat
  PROVE  LET g == WithRoot(OpenDisk)
         IN  /\ Runs(g, Plus(Nothing, InoBlk(ROOT_INO)), Fresh, {ROOT_INO}, D)
             /\ Alive(g) => g.nextinode = ROOT_INO + 1
<1> DEFINE f == OpenDisk
           g3 == Zeroth(AllocInode(f))
           g4 == AllocInode(g3)
           g5 == NewInode(g4, ROOT_INO, "DIR", 0)
<1>1. WithRoot(f) = g5
  BY DEF WithRoot, Zeroth
<1>2. Runs(f, Nothing, Fresh, {}, D) /\ f.nextinode = 0
  <2>1. OpenDisk \in Opening(D)
    BY OpenDiskRuns
  <2> QED BY <2>1 DEF Opening, After, Opened
<1> HIDE DEF f
<1>3. Runs(g3, Nothing, Fresh, {}, D) /\ (Alive(g3) => g3.nextinode = 1)
  BY <1>2, ZerothDoneRuns
<1> HIDE DEF g3
<1>4. PICK ino \in Ino : ino = ROOT_INO
  BY Constants
<1>5. ino = 1 /\ ino \in Nat /\ InoBlk(ino) \in Nat
  BY <1>4, InodeBlockNumber DEF ROOT_INO
<1> DEFINE M == Plus(Nothing, InoBlk(ino))
<1>6. Runs(g4, M, Fresh, {}, D) /\ (Alive(g4) => g4.nextinode = ino + 1)
  <2>1. Alive(g3) => AtMost(Nothing, 0) /\ 0 <= 2 * D + 3
    BY NothingIsLent
  <2>2. /\ Runs(g4, Plus(Nothing, InoBlk(g3.nextinode)), Fresh, {}, D)
        /\ Later(g3, g4)
        /\ Alive(g4) => g4.nextinode = g3.nextinode + 1
    BY <1>3, <2>1, AllocInodeRuns
  <2> HIDE DEF g4
  <2>3. Alive(g4) => g3.nextinode = ino
    BY <1>3, <1>5, <2>2 DEF Later
  <2>4. Runs(g4, M, Fresh, {}, D)
    <3>1. CASE Alive(g4)
      BY <2>2, <2>3, <3>1
    <3>2. CASE ~Alive(g4)
      BY <2>2, <3>2 DEF Runs
    <3> QED BY <3>1, <3>2
  <2> QED BY <2>2, <2>3, <2>4
<1> HIDE DEF g4
<1>7. Nothing \in Borrowed /\ M[InoBlk(ino)] > 0
  <2>1. Nothing \in Borrowed
    BY NothingIsLent DEF AtMost
  <2> QED BY <1>5, <2>1, Returned
<1> HIDE DEF M
<1>8. /\ Runs(g5, M, Fresh, {}, D) /\ After(g4, g5)
      /\ Alive(g5) => Inode(g5, ino).size = 0 /\ InoBlk(ino) \in Cache!CachedBlock
  <2>1. PICK t \in {"REG", "DIR", "SYMLINK"} : t = "DIR"
    OBVIOUS
  <2>2. PICK size \in Nat : size = 0
    OBVIOUS
  <2>3. g5 = NewInode(g4, ino, t, size)
    BY <1>4, <2>1, <2>2
  <2>4. Alive(g4) => ino \in Ino /\ M[InoBlk(ino)] > 0 /\ ino \notin {}
    BY <1>7
  <2>5. Runs(g4, M, Fresh, {}, D)
    BY <1>6
  <2> HIDE DEF g5
  <2>6. /\ Runs(g5, M, Fresh, {}, D) /\ After(g4, g5)
        /\ Alive(g5) => Inode(g5, ino).size = size /\ InoBlk(ino) \in Cache!CachedBlock
    BY ONLY Sizes, D \in Nat, t \in {"REG", "DIR", "SYMLINK"}, size \in Nat,
            <2>3, <2>4, <2>5, NewInodeRuns
  <2> QED BY <2>2, <2>6
<1> HIDE DEF g5
<1>9. Alive(g5) => ino \in Ino /\ Ended(g5, Fresh, ino)
  <2>1. Size2NBlocks(0) = 0
    <3>1. (NINDIRECT - 1) \div NINDIRECT = 0
      BY Constants
    <3> QED BY <3>1, Constants DEF Size2NBlocks
  <2> QED BY <1>8, <2>1 DEF Ended
<1>10. Runs(g5, M, Fresh, {} \cup {ino}, D)
  BY <1>8, <1>9, RunsMore
<1>11. {} \cup {ino} = {ino}
  OBVIOUS
<1>12. Alive(g5) => g5.nextinode = ino + 1
  BY <1>6, <1>8 DEF After
<1> QED BY <1>1, <1>4, <1>10, <1>11, <1>12 DEF M, f

(* finishfs(): the bitmap and the super block.                             *)
SuperDone(f) ==
  Put(SetData(Clear(f, 1, "super"), 1, [ZeroBlock EXCEPT !.super = TRUE]), 1)

LEMMA UsedMarkedRuns ==
  ASSUME Sizes, NEW D \in Nat, NEW f, NEW Lab, NEW W, Runs(f, Nothing, Lab, W, D)
  PROVE  LET g == UsedMarked(Look(f, OSPFS_FREEMAP_BLK, "bits"))
         IN  Runs(g, Nothing, Lab, W, D) /\ After(Look(f, OSPFS_FREEMAP_BLK, "bits"), g)
<1> DEFINE b == OSPFS_FREEMAP_BLK
           g == Look(f, b, "bits")
           bits == Data(g, b).bits \ (0 .. g.nextb-1)
           kept == IF NBLOCKS # nbitblock * BLKBITSIZE THEN bits \ (NBLOCKS .. BLKBITSIZE-1)
                   ELSE bits
           data == [ZeroBlock EXCEPT !.bits = kept]
<1>1. UsedMarked(g) = Put(SetData(g, b, data), b)
  BY DEF UsedMarked
<1>2. /\ Runs(g, Plus(Nothing, b), Lab, W, D)
      /\ Alive(g) => /\ Lab[b].as = "map" /\ Nothing \in Borrowed
                     /\ b \in Nat /\ Data(g, b) \in Value
  BY MarkedRuns
<1> HIDE DEF g, b
<1>3. Alive(g) => data \in Value
  <2> SUFFICES ASSUME Alive(g) PROVE data \in Value
    OBVIOUS
  <2>1. Data(g, b).bits \in SUBSET Int
    BY <1>2 DEF Value
  <2>2. kept \in SUBSET Int
    BY <2>1
  <2> HIDE DEF kept
  <2> QED BY <2>2, BitsTyped
<1> HIDE DEF data
<1>4. Alive(g) => /\ Nothing \in Borrowed /\ b \in Nat /\ data \in Value
                  /\ Lab[b].as \in {"dir", "file", "map", "super"}
  BY <1>2, <1>3
<1>5. Runs(Put(SetData(g, b, data), b), Nothing, Lab, W, D)
      /\ After(g, Put(SetData(g, b, data), b))
  BY <1>2, <1>4, FinishedRuns
<1> QED BY <1>1, <1>5 DEF g, b

(* finishfs() writes the super block.                                      *)
LEMMA SuperDoneRuns ==
  ASSUME Sizes, NEW D \in Nat, NEW f, NEW Lab, NEW W, Runs(f, Nothing, Lab, W, D)
  PROVE  Runs(SuperDone(f), Nothing, Lab, {}, D)
<1>1. PICK b \in Nat : b = 1
  OBVIOUS
<1>2. PICK type \in Kind : type = "super"
  BY DEF Kind
<1>3. Alive(f) => /\ b \in Nat /\ b < f.nextb /\ TypeOf(Lab[b].as) = type
                  /\ Lab[b].as \in {"super", "inodes"}
                  /\ AtMost(Nothing, 0) /\ 0 <= 2 * D + 3 /\ Lab[b].as = "super"
  <2> SUFFICES ASSUME Alive(f)
               PROVE  b < f.nextb /\ TypeOf(Lab[b].as) = type /\ Lab[b].as = "super"
    BY NothingIsLent
  <2>1. os_firstinob = 3 /\ OSPFS_FREEMAP_BLK = 2 /\ ninodeblock \in Nat
        /\ FirstBlk = os_firstinob + ninodeblock
    BY InodePlaces DEF FirstBlk
  <2>2. Labelled(Lab, f.nextb) /\ f.nextb \in Nat
    BY DEF Runs, Good, Formatter
  <2> QED BY <1>1, <1>2, <2>1, <2>2 DEF Labelled, TypeOf
<1> DEFINE g == Clear(f, b, type)
           data == [ZeroBlock EXCEPT !.super = TRUE]
<1>4. Runs(g, Plus(Nothing, b), Lab, {}, D) /\ After(f, g)
  BY <1>3, ClearRuns
<1>5. data \in Value
  BY Constants DEF Value
<1> HIDE DEF data
<1>6. Alive(g) => /\ Nothing \in Borrowed /\ b \in Nat /\ data \in Value
                  /\ Lab[b].as \in {"dir", "file", "map", "super"}
  <2>1. Alive(g) => Alive(f)
    BY <1>4 DEF After
  <2> HIDE DEF g
  <2> QED BY <1>1, <1>3, <1>5, <2>1, NothingIsLent DEF AtMost
<1>7. SuperDone(f) = Put(SetData(g, b, data), b)
  BY <1>1, <1>2 DEF SuperDone, data
<1> HIDE DEF g
<1>8. Runs(Put(SetData(g, b, data), b), Nothing, Lab, {}, D)
  BY <1>4, <1>6, FinishedRuns
<1> QED BY <1>7, <1>8

(* The last two blocks, and the flush, which cannot fail.                  *)
LEMMA FinishFsRuns ==
  ASSUME Sizes, NEW D \in Nat, NEW f, NEW Lab, NEW W, Runs(f, Nothing, Lab, W, D)
  PROVE  FlushDisk(FinishFs(f)).cache.abort \in Allowed(D)
<1> DEFINE g == UsedMarked(Look(f, OSPFS_FREEMAP_BLK, "bits"))
           h == FinishFs(f)
<1>1. h = SuperDone(g)
  BY DEF FinishFs, SuperDone, Look, Clear
<1> HIDE DEF h
<1>2. Runs(g, Nothing, Lab, W, D)
  BY UsedMarkedRuns
<1> HIDE DEF g
<1>3. Runs(h, Nothing, Lab, {}, D)
  BY <1>1, <1>2, SuperDoneRuns
<1>4. FlushDisk(h).cache.abort = h.cache.abort
  <2>1. h \in Formatter
    BY <1>3 DEF Runs
  <2>2. Cache!FlushDisk(h.cache).abort = h.cache.abort
    <3>1. h.cache \in CacheType
      BY <2>1 DEF Formatter
    <3> QED BY <3>1 DEF Cache!FlushDisk, CacheType
  <2>3. FlushDisk(h).cache = Cache!FlushDisk(h.cache)
    BY <2>1 DEF FlushDisk, Formatter
  <2> QED BY <2>2, <2>3
<1> QED BY <1>3, <1>4 DEF Runs, h

-----------------------------------------------------------------------------
(* Specification: the cache suffices for every tree.                       *)
Directory == [ino : Ino, b : Nat]

(* While the tree is read, the blocks of the root's inode and, for every   *)
(* directory below it, of its entry and its inode are lent out: B[k] is    *)
(* the bag of the first k directories.                                     *)
Lending(ds, B) ==
  /\ B \in [1 .. Len(ds) -> Borrowed]
  /\ B[1] = Plus(Nothing, InoBlk(ROOT_INO))
  /\ \A k \in 1 .. Len(ds)-1 : B[k+1] = Plus(Plus(B[k], ds[k+1].b), InoBlk(ds[k+1].ino))
  /\ \A k \in 1 .. Len(ds) : AtMost(B[k], 2 * k - 1)

InosOf(ds) == {ds[k].ino : k \in 1 .. Len(ds)}

Nested(f, ds) ==
  \E Lab, B : /\ Lending(ds, B)
              /\ Good(f, B[Len(ds)], Lab, InosOf(ds))
              /\ \A w \in InosOf(ds) : w < f.nextinode

FormatInv ==
  /\ Depth \in Nat /\ img.cache.abort \in Allowed(Depth)
  /\ stage \in {"tree", "links"} =>
       /\ img \in Formatter
       /\ dirs \in Seq(Directory) /\ Depth > 0 /\ dirs[1].ino = ROOT_INO
       /\ Depth > 1 => Alive(img) /\ stage = "tree"
       /\ Alive(img) => Nested(img, dirs)

(* What an entry of the innermost directory finds.                         *)
Ready(f, ds, L, Lab) ==
  /\ Runs(f, L, Lab, InosOf(ds), Len(ds))
  /\ Alive(f) => /\ \E B : Lending(ds, B) /\ L = B[Len(ds)]
                 /\ L[InoBlk(ds[Len(ds)].ino)] > 0 /\ ds[Len(ds)].ino \in InosOf(ds)
                 /\ \A w \in InosOf(ds) : w < f.nextinode
                 /\ AtMost(L, 2 * Len(ds) - 1)

LEMMA InnermostLent ==
  ASSUME Sizes, NEW ds \in Seq(Directory), Len(ds) > 0, ds[1].ino = ROOT_INO,
         NEW B, Lending(ds, B)
  PROVE  /\ B[Len(ds)][InoBlk(ds[Len(ds)].ino)] > 0
         /\ ds[Len(ds)].ino \in InosOf(ds)
         /\ AtMost(B[Len(ds)], 2 * Len(ds) - 1)
<1> DEFINE n == Len(ds)
<1>1. n \in Nat /\ n > 0 /\ n \in 1 .. n
  OBVIOUS
<1>2. ds[n] \in Directory
  <2>1. Len(ds) \in 1 .. Len(ds)
    BY <1>1
  <2> QED BY ONLY ds \in Seq(Directory), <2>1
<1>3. /\ ds[n].ino \in Ino /\ ds[n].b \in Nat
      /\ ds[n].ino \in InosOf(ds)
  BY <1>1, <1>2 DEF Directory, InosOf
<1>4. InoBlk(ds[n].ino) \in Nat /\ Nothing \in Borrowed
  BY <1>3, Constants, InodeBlockNumber, NothingIsLent DEF AtMost
<1>5. /\ B \in [1 .. n -> Borrowed] /\ B[1] = Plus(Nothing, InoBlk(ROOT_INO))
      /\ \A k \in 1 .. n-1 : B[k+1] = Plus(Plus(B[k], ds[k+1].b), InoBlk(ds[k+1].ino))
      /\ \A k \in 1 .. n : AtMost(B[k], 2 * k - 1)
  BY DEF Lending
<1>6. ds[1].ino = ROOT_INO
  OBVIOUS
<1> HIDE DEF n
<1>7. n = 1 => B[n][InoBlk(ds[n].ino)] > 0
  <2> SUFFICES ASSUME n = 1 PROVE B[n][InoBlk(ds[n].ino)] > 0
    OBVIOUS
  <2>1. B[n] = Plus(Nothing, InoBlk(ds[n].ino))
    BY <1>5, <1>6
  <2> QED BY <1>4, <2>1, Returned
<1>8. n # 1 => B[n][InoBlk(ds[n].ino)] > 0
  <2> SUFFICES ASSUME n # 1 PROVE B[n][InoBlk(ds[n].ino)] > 0
    OBVIOUS
  <2>1. n-1 \in 1 .. n-1 /\ n-1 \in 1 .. n /\ (n-1) + 1 = n
    BY ONLY n # 1, <1>1
  <2>2. B[n] = Plus(Plus(B[n-1], ds[n].b), InoBlk(ds[n].ino)) /\ B[n-1] \in Borrowed
    BY <1>5, <2>1
  <2>3. Plus(B[n-1], ds[n].b) \in Borrowed
    BY <1>3, <2>2, Returned
  <2> QED BY <1>4, <2>2, <2>3, Returned
<1>9. B[n][InoBlk(ds[n].ino)] > 0
  BY <1>7, <1>8
<1> QED BY <1>1, <1>3, <1>5, <1>9 DEF n

(* The innermost directory can be added to.                                *)
LEMMA ReadyHere ==
  ASSUME Sizes, FormatInv, stage \in {"tree", "links"}
  PROVE  /\ \E L, Lab : Ready(img, dirs, L, Lab)
         /\ Here \in Ino
<1>1. /\ dirs \in Seq(Directory) /\ Len(dirs) > 0 /\ dirs[1].ino = ROOT_INO
      /\ img \in Formatter /\ img.cache.abort \in Allowed(Len(dirs))
  BY DEF FormatInv, Depth
<1>2. Here \in Ino
  <2>1. Len(dirs) \in Nat /\ Len(dirs) \in 1 .. Len(dirs)
    BY <1>1
  <2>2. dirs[Len(dirs)] \in Directory
    BY <1>1, <2>1
  <2> QED BY <2>2 DEF Directory, Here, Depth
<1>3. CASE Alive(img)
  <2>1. PICK Lab, B : /\ Lending(dirs, B)
                      /\ Good(img, B[Len(dirs)], Lab, InosOf(dirs))
                      /\ \A w \in InosOf(dirs) : w < img.nextinode
    BY <1>3 DEF FormatInv, Nested
  <2>2. Ready(img, dirs, B[Len(dirs)], Lab)
    BY <1>1, <2>1, InnermostLent DEF Ready, Runs
  <2> QED BY <1>2, <2>2
<1>4. CASE ~Alive(img)
  <2>1. Ready(img, dirs, Nothing, Fresh)
    BY <1>1, <1>4 DEF Ready, Runs
  <2> QED BY <1>2, <2>1
<1> QED BY <1>3, <1>4

(* A file or a link in the innermost directory.                            *)
LEMMA EntryStays ==
  ASSUME Sizes, FormatInv, stage \in {"tree", "links"},
         NEW name \in Names, NEW host \in HostInos \cup {0}, NEW is, NEW x \in Nat,
         is = "SYMLINK" \/ (is = "REG" /\ x \in DOMAIN Size),
         Becomes(WithEntry(img, Here, name, host, is, x)), dirs' = dirs
  PROVE  FormatInv'
<1> DEFINE f == WithEntry(img, Here, name, host, is, x)
<1>1. PICK L, Lab : Ready(img, dirs, L, Lab)
  BY ReadyHere
<1>2. Here \in Ino /\ Depth \in Nat /\ Depth > 0 /\ img \in Formatter /\ host \in Nat
  BY ReadyHere DEF FormatInv, Sizes
<1> DEFINE W == InosOf(dirs)
           n == 2 * Depth - 1
<1>3. Progressed(img, f, L, W, Depth)
  <2>1. Alive(img) => /\ L[InoBlk(Here)] > 0 /\ Here \in W /\ (\A w \in W : w < img.nextinode)
                      /\ AtMost(L, n) /\ n + 4 <= 2 * Depth + 3
    BY <1>1, <1>2 DEF Ready, Here, Depth
  <2>2. Runs(img, L, Lab, W, Depth)
    BY <1>1 DEF Ready, Depth
  <2> HIDE DEF W, n, f
  <2>3. PICK dir \in Ino : dir = Here
    BY <1>2
  <2>4. Alive(img) => /\ L[InoBlk(dir)] > 0 /\ dir \in W /\ (\A w \in W : w < img.nextinode)
                      /\ AtMost(L, n) /\ n + 4 <= 2 * Depth + 3
    BY <2>1, <2>3
  <2>5. Progressed(img, WithEntry(img, dir, name, host, is, x), L, W, Depth)
    <3>1. PICK D \in Nat : D = Depth
      BY <1>2
    <3>2. PICK m : m = n
      OBVIOUS
    <3>3. Runs(img, L, Lab, W, D)
      BY <2>2, <3>1
    <3>4. Alive(img) => /\ L[InoBlk(dir)] > 0 /\ dir \in W /\ (\A w \in W : w < img.nextinode)
                        /\ AtMost(L, m) /\ m + 4 <= 2 * D + 3
      BY <2>4, <3>1, <3>2
    <3>5. PICK h \in Nat : h = host
      BY <1>2
    <3>6. Progressed(img, WithEntry(img, dir, name, h, is, x), L, W, D)
      BY ONLY Sizes, D \in Nat, dir \in Ino, name \in Names, h \in Nat, x \in Nat,
              is = "SYMLINK" \/ (is = "REG" /\ x \in DOMAIN Size),
              <3>3, <3>4, WithEntryRuns
    <3> QED BY <3>1, <3>5, <3>6
  <2> QED BY <2>3, <2>5 DEF f
<1> HIDE DEF f
<1>4. PICK new : Runs(f, L, new, W, Depth) /\ Later(img, f)
  BY <1>3 DEF Progressed
<1>5. Depth' = Depth /\ Reaches(f, stage)
  BY DEF Depth, Becomes, f
<1>6. CASE Alive(f)
  <2>1. img' = f /\ stage' = stage
    BY <1>5, <1>6 DEF Reaches, Alive
  <2>2. Alive(img) /\ img.nextinode <= f.nextinode
    BY <1>4, <1>6 DEF Later
  <2>3. PICK B : Lending(dirs, B) /\ L = B[Len(dirs)]
    BY <1>1, <2>2 DEF Ready
  <2>4. \A w \in InosOf(dirs) : w < f.nextinode
    <3>1. \A w \in InosOf(dirs) : w < img.nextinode
      BY <1>1, <2>2 DEF Ready
    <3>2. f \in Formatter /\ f.nextinode \in Nat /\ img.nextinode \in Nat
      BY <1>2, <1>4 DEF Runs, Formatter
    <3>3. InosOf(dirs) \subseteq Nat
      <4>1. Good(f, L, new, InosOf(dirs))
        BY <1>4, <1>6 DEF Runs
      <4> QED BY <4>1, Constants DEF Good
    <3> QED BY <2>2, <3>1, <3>2, <3>3
  <2>5. Nested(f, dirs)
    BY <1>4, <1>6, <2>3, <2>4 DEF Nested, Runs
  <2>6. f \in Formatter /\ f.cache.abort \in Allowed(Depth)
    BY <1>4 DEF Runs
  <2>7. Alive(img)' = Alive(f) /\ Nested(img, dirs)' = Nested(f, dirs)
    BY <2>1 DEF Alive, Nested, Lending, InosOf, Good, AtMost, Lends, Pointing, Inode,
                Holds, Ended, Leads, LeadsIndirect, LeadsDoubly
  <2> QED BY <1>5, <1>6, <2>1, <2>2, <2>5, <2>6, <2>7 DEF FormatInv
<1>7. CASE ~Alive(f)
  <2>1. img' = [img EXCEPT !.cache.abort = f.cache.abort] /\ stage' = "dead"
    BY <1>5, <1>7 DEF Reaches, Alive
  <2>2. img'.cache.abort = f.cache.abort
    BY <1>2, <2>1 DEF Formatter, CacheType
  <2>3. img'.cache.abort \in Allowed(Depth)
    BY <1>4, <2>2 DEF Runs
  <2> QED BY <1>2, <1>5, <2>1, <2>3 DEF FormatInv, Allowed
<1> QED BY <1>6, <1>7

(* What is lent out can be given back.                                     *)
LEMMA PutGoesOn ==
  ASSUME NEW D, NEW f, NEW L, NEW Lab, NEW W, Runs(f, L, Lab, W, D), Alive(f),
         NEW b \in Nat, L[b] > 0
  PROVE  Alive(Put(f, b))
<1>1. f \in Formatter /\ Good(f, L, Lab, W) /\ f.cache.abort = Cache!Fine
  BY DEF Runs, Alive
<1>2. Sound(f.cache) /\ L \in Borrowed /\ Lends(f.cache, L, Types(Lab))
  BY <1>1 DEF Good
<1>3. Cache!PutBlk(f.cache, b).abort = Cache!Fine
  BY <1>1, <1>2, PutBlkLends
<1>4. Put(f, b).cache = Cache!PutBlk(f.cache, b)
  BY <1>1 DEF Put, Formatter
<1> QED BY <1>3, <1>4 DEF Alive

(* One more at the end of a sequence.                                      *)
LEMMA Appended ==
  ASSUME NEW ds \in Seq(Directory), NEW r, NEW es, es = Append(ds, r)
  PROVE  /\ Len(es) = Len(ds) + 1 /\ es[Len(ds) + 1] = r
         /\ \A k \in 1 .. Len(ds) : es[k] = ds[k]
         /\ r \in Directory => es \in Seq(Directory)
<1> DEFINE S == Directory \cup {r}
<1>1. ds \in Seq(S)
  OBVIOUS
<1>2. r \in S
  OBVIOUS
<1>3. Append(ds, r) \in Seq(S) /\ Len(Append(ds, r)) = Len(ds) + 1
      /\ Append(ds, r)[Len(ds) + 1] = r /\ \A k \in 1 .. Len(ds) : Append(ds, r)[k] = ds[k]
  <2> HIDE DEF S
  <2> QED BY <1>1, <1>2
<1> HIDE DEF S
<1>4. r \in Directory => es \in Seq(Directory)
  OBVIOUS
<1> QED BY <1>3, <1>4

(* A directory more.                                                       *)
LEMMA LendingMore ==
  ASSUME NEW ds \in Seq(Directory), Len(ds) > 0, NEW B, Lending(ds, B),
         NEW r \in Directory, NEW es, es = Append(ds, r)
  PROVE  \E C : /\ Lending(es, C)
                /\ C[Len(es)] = Plus(Plus(B[Len(ds)], r.b), InoBlk(r.ino))
                /\ InosOf(es) = InosOf(ds) \cup {r.ino}
<1> DEFINE n == Len(ds)
           top == Plus(Plus(B[n], r.b), InoBlk(r.ino))
           C == [k \in 1 .. n+1 |-> IF k = n+1 THEN top ELSE B[k]]
<1>1. n \in Nat /\ n > 0 /\ n \in 1 .. n /\ n+1 \in 1 .. n+1 /\ Len(es) = n+1 /\ es[n+1] = r
      /\ \A k \in 1 .. n : es[k] = ds[k]
  BY Appended
<1>2. /\ B \in [1 .. n -> Borrowed] /\ B[1] = Plus(Nothing, InoBlk(ROOT_INO))
      /\ \A k \in 1 .. n-1 : B[k+1] = Plus(Plus(B[k], ds[k+1].b), InoBlk(ds[k+1].ino))
      /\ \A k \in 1 .. n : AtMost(B[k], 2 * k - 1)
  BY DEF Lending
<1>3. AtMost(top, 2 * (n+1) - 1)
  <2>1. AtMost(B[n], 2 * n - 1)
    BY <1>1, <1>2
  <2>2. AtMost(Plus(B[n], r.b), (2 * n - 1) + 1)
    BY <2>1, OneMoreBlock
  <2>3. AtMost(top, ((2 * n - 1) + 1) + 1)
    BY <2>2, OneMoreBlock
  <2>4. ((2 * n - 1) + 1) + 1 = 2 * (n+1) - 1
    BY <1>1
  <2> QED BY <2>3, <2>4
<1>4. top \in Borrowed
  BY <1>3 DEF AtMost
<1> HIDE DEF n, top
<1>5. /\ C \in [1 .. n+1 -> Borrowed] /\ C[1] = Plus(Nothing, InoBlk(ROOT_INO))
      /\ C[n+1] = top /\ \A k \in 1 .. n : C[k] = B[k]
  BY <1>1, <1>2, <1>4
<1> HIDE DEF C
<1>6. \A k \in 1 .. n : C[k+1] = Plus(Plus(C[k], es[k+1].b), InoBlk(es[k+1].ino))
  <2> SUFFICES ASSUME NEW k \in 1 .. n
               PROVE  C[k+1] = Plus(Plus(C[k], es[k+1].b), InoBlk(es[k+1].ino))
    OBVIOUS
  <2>1. CASE k = n
    BY <1>1, <1>5, <2>1 DEF top
  <2>2. CASE k # n
    <3>1. k \in 1 .. n-1 /\ k+1 \in 1 .. n
      BY <1>1, <2>2
    <3>2. C[k+1] = B[k+1] /\ C[k] = B[k] /\ es[k+1] = ds[k+1]
      BY <1>1, <1>5, <3>1
    <3> QED BY <1>2, <3>1, <3>2
  <2> QED BY <2>1, <2>2
<1>7. \A k \in 1 .. n+1 : AtMost(C[k], 2 * k - 1)
  <2> SUFFICES ASSUME NEW k \in 1 .. n+1 PROVE AtMost(C[k], 2 * k - 1)
    OBVIOUS
  <2>1. CASE k = n+1
    BY <1>3, <1>5, <2>1
  <2>2. CASE k # n+1
    BY <1>1, <1>2, <1>5, <2>2
  <2> QED BY <2>1, <2>2
<1>8. Lending(es, C)
  <2>1. Len(es) = n+1 /\ Len(es)-1 = n
    BY <1>1
  <2> QED BY <2>1, <1>5, <1>6, <1>7 DEF Lending
<1>9. InosOf(es) = InosOf(ds) \cup {r.ino}
  <2>1. \A k \in 1 .. n : k \in 1 .. n+1
    BY <1>1
  <2>2. \A k \in 1 .. n+1 : k = n+1 \/ k \in 1 .. n
    BY <1>1
  <2>3. InosOf(es) = {es[k].ino : k \in 1 .. n+1} /\ InosOf(ds) = {ds[k].ino : k \in 1 .. n}
    BY <1>1 DEF InosOf, n
  <2>4. \A k \in 1 .. n : es[k].ino = ds[k].ino
    BY <1>1
  <2>5. InosOf(ds) \subseteq InosOf(es)
    BY <2>1, <2>3, <2>4
  <2>6. r.ino \in InosOf(es)
    BY <1>1, <2>3
  <2>7. InosOf(es) \subseteq InosOf(ds) \cup {r.ino}
    BY <1>1, <2>2, <2>3, <2>4
  <2> QED BY <2>5, <2>6, <2>7
<1> QED BY <1>1, <1>5, <1>8, <1>9 DEF n, top

(* writedirectory() is entered once more.                                  *)
LEMMA EnterStays ==
  ASSUME Sizes, FormatInv, stage = "tree", NEW name \in Names,
         GoesInto(EnterDir(img, Here, name))
  PROVE  FormatInv'
<1> DEFINE r == EnterDir(img, Here, name)
           ino == img.nextinode
           d == [ino |-> ino, b |-> r.b]
           f == r.f
<1>1. PICK L, Lab : Ready(img, dirs, L, Lab)
  BY ReadyHere
<1>2. /\ Here \in Ino /\ Depth \in Nat /\ Depth > 0 /\ img \in Formatter
      /\ dirs \in Seq(Directory) /\ dirs[1].ino = ROOT_INO /\ Depth = Len(dirs)
  BY ReadyHere DEF FormatInv, Depth
<1> DEFINE W == InosOf(dirs)
           n == 2 * Depth - 1
<1>3. Entered(img, r, L, W, Depth)
  <2>1. Alive(img) => /\ L[InoBlk(Here)] > 0 /\ Here \in W /\ (\A w \in W : w < img.nextinode)
                      /\ AtMost(L, n) /\ n + 2 <= 2 * Depth + 3
    BY <1>1, <1>2 DEF Ready, Here, Depth
  <2>2. Runs(img, L, Lab, W, Depth)
    BY <1>1 DEF Ready, Depth
  <2> HIDE DEF W, n
  <2>3. PICK dir \in Ino : dir = Here
    BY <1>2
  <2>4. PICK D \in Nat : D = Depth
    BY <1>2
  <2>5. PICK m : m = n
    OBVIOUS
  <2>6. Runs(img, L, Lab, W, D)
    BY <2>2, <2>4
  <2>7. Alive(img) => /\ L[InoBlk(dir)] > 0 /\ dir \in W /\ (\A w \in W : w < img.nextinode)
                      /\ AtMost(L, m) /\ m + 2 <= 2 * D + 3
    BY <2>1, <2>3, <2>4, <2>5
  <2>8. Entered(img, EnterDir(img, dir, name), L, W, D)
    BY ONLY Sizes, D \in Nat, dir \in Ino, name \in Names, <2>6, <2>7, EnterDirRuns
  <2> QED BY <2>3, <2>4, <2>8
<1>4. /\ Reaches(f, stage) /\ dirs' = Append(dirs, d)
  BY DEF GoesInto, Becomes
<1> HIDE DEF r
<1>5. PICK new : /\ Runs(f, Plus(Plus(L, r.b), InoBlk(ino)), new, W \cup {ino}, Depth)
                 /\ Alive(f) => Alive(img) /\ r.b \in Nat /\ ino \in Ino /\ f.nextinode = ino + 1
  BY <1>3 DEF Entered
<1>6. Depth' = Depth + 1
  BY <1>2, <1>4, Appended DEF Depth
<1>7. f \in Formatter /\ f.cache.abort \in Allowed(Depth + 1)
  <2>1. f \in Formatter /\ f.cache.abort \in Allowed(Depth)
    BY <1>5 DEF Runs
  <2>2. Allowed(Depth) \subseteq Allowed(Depth + 1)
    BY <1>2, MoreAllowed
  <2> QED BY <2>1, <2>2
<1> HIDE DEF f
<1>8. CASE Alive(f)
  <2>1. img' = f /\ stage' = stage
    BY <1>4, <1>8 DEF Reaches, Alive
  <2>2. PICK B : Lending(dirs, B) /\ L = B[Len(dirs)]
    BY <1>1, <1>5, <1>8 DEF Ready
  <2>3. d \in Directory /\ d.ino = ino /\ d.b = r.b
    BY <1>5, <1>8 DEF Directory
  <2> HIDE DEF d
  <2>4. PICK es : es = dirs'
    OBVIOUS
  <2>5. PICK C : /\ Lending(es, C)
                 /\ C[Len(es)] = Plus(Plus(B[Len(dirs)], d.b), InoBlk(d.ino))
                 /\ InosOf(es) = InosOf(dirs) \cup {d.ino}
    BY <1>2, <1>4, <2>2, <2>3, <2>4, LendingMore
  <2>6. Good(f, C[Len(es)], new, InosOf(es))
    BY <1>5, <1>8, <2>2, <2>3, <2>5 DEF Runs
  <2>7. \A w \in InosOf(es) : w < f.nextinode
    <3>1. \A w \in InosOf(dirs) : w < img.nextinode
      BY <1>1, <1>5, <1>8 DEF Ready
    <3>2. InosOf(es) \subseteq Nat /\ ino \in Nat /\ f.nextinode = ino + 1
      BY <1>5, <1>8, <2>6, Constants DEF Good
    <3> QED BY <2>3, <2>5, <3>1, <3>2
  <2>8. Nested(f, es)
    BY <2>5, <2>6, <2>7 DEF Nested
  <2>9. es \in Seq(Directory) /\ es[1].ino = ROOT_INO
    <3>1. 1 \in 1 .. Len(dirs)
      BY <1>2
    <3> QED BY <1>2, <1>4, <2>3, <2>4, <3>1, Appended
  <2>10. Alive(img)' = Alive(f) /\ Nested(img, dirs)' = Nested(f, es)
    BY <2>1, <2>4 DEF Alive, Nested, Lending, InosOf, Good, AtMost, Lends, Pointing, Inode,
                Holds, Ended, Leads, LeadsIndirect, LeadsDoubly
  <2> QED BY <1>2, <1>6, <1>7, <1>8, <2>1, <2>4, <2>8, <2>9, <2>10 DEF FormatInv
<1>9. CASE ~Alive(f)
  <2>1. img' = [img EXCEPT !.cache.abort = f.cache.abort] /\ stage' = "dead"
    BY <1>4, <1>9 DEF Reaches, Alive
  <2>2. img'.cache.abort = f.cache.abort
    BY <1>2, <2>1 DEF Formatter, CacheType
  <2>3. Allowed(Depth)' = Allowed(Depth + 1)
    BY <1>6 DEF Allowed
  <2>4. img'.cache.abort \in Allowed(Depth)'
    BY <1>7, <2>2, <2>3
  <2>5. Depth' \in Nat
    BY <1>2, <1>6
  <2> QED BY <2>1, <2>4, <2>5 DEF FormatInv
<1> QED BY <1>8, <1>9

(* A directory less.                                                       *)
LEMMA LendingLess ==
  ASSUME Sizes, NEW ds \in Seq(Directory), Len(ds) > 1, NEW B, Lending(ds, B),
         NEW es, es = SubSeq(ds, 1, Len(ds) - 1)
  PROVE  /\ es \in Seq(Directory) /\ Len(es) = Len(ds) - 1 /\ es[1] = ds[1]
         /\ Lending(es, [k \in 1 .. Len(es) |-> B[k]])
         /\ B[Len(es)] \in Borrowed
         /\ B[Len(ds)] = Plus(Plus(B[Len(es)], ds[Len(ds)].b), InoBlk(ds[Len(ds)].ino))
         /\ InosOf(es) \subseteq InosOf(ds)
         /\ ds[Len(ds)] \in Directory
<1> DEFINE n == Len(ds)
<1>1. n \in Nat /\ n > 1 /\ n-1 \in 1 .. n-1 /\ n-1 \in 1 .. n /\ (n-1)+1 = n /\ 1 \in 1 .. n-1
      /\ \A k \in 1 .. n-1 : k \in 1 .. n
  OBVIOUS
<1>2. es \in Seq(Directory) /\ Len(es) = n-1 /\ \A k \in 1 .. n-1 : es[k] = ds[k]
  OBVIOUS
<1>3. ds[n] \in Directory
  <2>1. Len(ds) \in 1 .. Len(ds)
    BY <1>1
  <2> QED BY ONLY ds \in Seq(Directory), <2>1
<1>4. /\ B \in [1 .. n -> Borrowed] /\ B[1] = Plus(Nothing, InoBlk(ROOT_INO))
      /\ \A k \in 1 .. n-1 : B[k+1] = Plus(Plus(B[k], ds[k+1].b), InoBlk(ds[k+1].ino))
      /\ \A k \in 1 .. n : AtMost(B[k], 2 * k - 1)
  BY DEF Lending
<1>5. InosOf(es) \subseteq InosOf(ds)
  <2>1. InosOf(es) = {es[k].ino : k \in 1 .. n-1} /\ InosOf(ds) = {ds[k].ino : k \in 1 .. n}
    BY <1>2 DEF InosOf
  <2> HIDE DEF n
  <2> QED BY <1>1, <1>2, <2>1
<1> HIDE DEF n
<1>6. Lending(es, [k \in 1 .. n-1 |-> B[k]])
  <2> DEFINE C == [k \in 1 .. n-1 |-> B[k]]
  <2>1. C \in [1 .. n-1 -> Borrowed] /\ C[1] = B[1] /\ \A k \in 1 .. n-1 : C[k] = B[k]
    BY <1>1, <1>4
  <2> HIDE DEF C
  <2>2. \A k \in 1 .. (n-1)-1 : C[k+1] = Plus(Plus(C[k], es[k+1].b), InoBlk(es[k+1].ino))
    <3> SUFFICES ASSUME NEW k \in 1 .. (n-1)-1
                 PROVE  C[k+1] = Plus(Plus(C[k], es[k+1].b), InoBlk(es[k+1].ino))
      OBVIOUS
    <3>1. k \in 1 .. n-1 /\ k+1 \in 1 .. n-1
      BY <1>1
    <3>2. C[k+1] = B[k+1] /\ C[k] = B[k] /\ es[k+1] = ds[k+1]
      BY <1>2, <2>1, <3>1
    <3> QED BY <1>4, <3>1, <3>2
  <2>3. \A k \in 1 .. n-1 : AtMost(C[k], 2 * k - 1)
    BY <1>1, <1>4, <2>1
  <2>4. Lending(es, C)
    BY <1>2, <1>4, <2>1, <2>2, <2>3 DEF Lending
  <2> QED BY <2>4 DEF C
<1>7. /\ B[n-1] \in Borrowed
      /\ B[n] = Plus(Plus(B[n-1], ds[n].b), InoBlk(ds[n].ino))
  BY <1>1, <1>4
<1> QED BY <1>1, <1>2, <1>3, <1>5, <1>6, <1>7 DEF n

(* writedirectory() gives its two blocks back.                             *)
LEMMA EndStays ==
  ASSUME Sizes, FormatInv, DirEnds
  PROVE  FormatInv'
<1>1. /\ stage = "tree" /\ Depth > 1 /\ Alive(img) /\ img \in Formatter /\ Depth \in Nat
      /\ dirs \in Seq(Directory) /\ dirs[1].ino = ROOT_INO /\ Depth = Len(dirs) /\ Len(dirs) > 1
      /\ stage' = stage
  BY DEF DirEnds, FormatInv, Depth
<1>2. PICK Lab, B : /\ Lending(dirs, B)
                    /\ Good(img, B[Len(dirs)], Lab, InosOf(dirs))
                    /\ \A w \in InosOf(dirs) : w < img.nextinode
  BY <1>1 DEF FormatInv, Nested
<1> DEFINE r == dirs[Depth]
<1>3. /\ img' = Put(Put(img, r.b), InoBlk(r.ino))
      /\ dirs' = SubSeq(dirs, 1, Len(dirs) - 1)
  BY <1>1 DEF DirEnds, Here, Depth
<1>4. PICK es : es = SubSeq(dirs, 1, Len(dirs) - 1)
  OBVIOUS
<1>5. /\ es \in Seq(Directory) /\ Len(es) = Len(dirs) - 1 /\ es[1] = dirs[1]
      /\ Lending(es, [k \in 1 .. Len(es) |-> B[k]])
      /\ B[Len(es)] \in Borrowed
      /\ B[Len(dirs)] = Plus(Plus(B[Len(es)], r.b), InoBlk(r.ino))
      /\ InosOf(es) \subseteq InosOf(dirs)
      /\ r \in Directory
  BY <1>1, <1>2, <1>4, LendingLess
<1>6. PICK L \in Borrowed : L = B[Len(es)]
  BY <1>5
<1>7. PICK b \in Nat : b = r.b
  BY <1>5 DEF Directory
<1>8. PICK a \in Nat : a = InoBlk(r.ino)
  <2>1. r.ino \in Nat
    BY <1>5, Constants DEF Directory
  <2> QED BY <2>1, InodeBlockNumber
<1>9. PICK D \in Nat : D = Len(es)
  BY <1>5
<1> DEFINE M == Plus(Plus(L, b), a)
           g == Put(Put(img, b), a)
           W == InosOf(dirs)
<1>10. Runs(img, M, Lab, W, D)
  BY <1>1, <1>2, <1>5, <1>6, <1>7, <1>8, AllowedReasons DEF Runs, Alive
<1>11. Runs(g, L, Lab, W, D) /\ After(img, g)
  <2>1. Alive(img) => L \in Borrowed /\ a \in Nat /\ b \in Nat
    OBVIOUS
  <2> HIDE DEF g, W
  <2> QED BY <1>10, <2>1, GivenBackRuns DEF g
<1>12. Alive(g)
  <2>1. /\ Plus(L, b) \in Borrowed /\ M \in Borrowed /\ M[b] > 0
        /\ Minus(M, b) = Plus(L, a) /\ Plus(L, a)[a] > 0
    <3>1. Plus(L, b) \in Borrowed /\ Plus(L, b)[b] > 0 /\ Plus(L, a)[a] > 0
          /\ Minus(Plus(Plus(L, b), a), b) = Plus(L, a)
      BY Returned
    <3>2. M \in Borrowed /\ M[b] > 0
      BY <3>1, Returned
    <3> QED BY <3>1, <3>2
  <2> HIDE DEF M, W
  <2>2. Alive(Put(img, b))
    BY <1>1, <1>10, <2>1, PutGoesOn
  <2>3. Runs(Put(img, b), Minus(M, b), Lab, W, D)
    <3>1. Alive(img) => b \in Nat /\ M[b] > 0
      BY <2>1
    <3> QED BY <1>10, <3>1, PutRuns
  <2>4. Runs(Put(img, b), Plus(L, a), Lab, W, D)
    BY <2>1, <2>3
  <2> QED BY <2>1, <2>2, <2>4, PutGoesOn
<1> HIDE DEF g
<1>13. img' = g /\ dirs' = es /\ Depth' = D
  BY <1>3, <1>4, <1>7, <1>8, <1>9 DEF g, Depth
<1>14. Good(g, L, Lab, InosOf(es)) /\ \A w \in InosOf(es) : w < g.nextinode
  <2>1. Good(g, L, Lab, W) /\ g.nextinode = img.nextinode
    BY <1>11, <1>12 DEF Runs, After
  <2>2. InosOf(es) \in SUBSET W
    BY <1>5
  <2>3. Runs(g, L, Lab, InosOf(es), D)
    BY <1>11, <2>2, RunsLess
  <2> QED BY <1>2, <1>12, <2>1, <2>2, <2>3 DEF Runs
<1>15. Nested(g, es)
  <2>1. PICK C : C = [k \in 1 .. Len(es) |-> B[k]]
    OBVIOUS
  <2>2. C[Len(es)] = L
    <3>1. Len(es) \in 1 .. Len(es)
      BY <1>1, <1>5
    <3> QED BY <1>6, <2>1, <3>1
  <2>3. Lending(es, C)
    BY <1>5, <2>1
  <2> QED BY <1>14, <2>2, <2>3 DEF Nested
<1>16. Alive(img)' = Alive(g) /\ Nested(img, dirs)' = Nested(g, es)
  BY <1>13 DEF Alive, Nested, Lending, InosOf, Good, AtMost, Lends, Pointing, Inode,
                Holds, Ended, Leads, LeadsIndirect, LeadsDoubly
<1>17. g \in Formatter /\ g.cache.abort \in Allowed(D) /\ Allowed(Depth)' = Allowed(D)
  BY <1>11, <1>13 DEF Runs, Allowed
<1>18. D > 0
  BY <1>1, <1>5, <1>9
<1> QED BY <1>1, <1>5, <1>12, <1>13, <1>15, <1>16, <1>17, <1>18 DEF FormatInv

(* finishfs() gives the root's inode back, and flushdisk() writes.         *)
LEMMA FinishStays ==
  ASSUME Sizes, FormatInv, Finish
  PROVE  FormatInv'
<1> DEFINE b == InoBlk(ROOT_INO)
           f == FlushDisk(FinishFs(Put(img, b)))
<1>1. /\ stage = "links" /\ Depth = 1 /\ Len(dirs) = 1 /\ img \in Formatter
      /\ dirs \in Seq(Directory) /\ dirs[1].ino = ROOT_INO /\ dirs' = dirs
      /\ Reaches(f, "done")
  <2>1. stage = "links" /\ dirs' = dirs /\ Reaches(f, "done")
    BY DEF Finish
  <2> HIDE DEF f
  <2>2. /\ Depth \in Nat /\ img \in Formatter /\ dirs \in Seq(Directory) /\ Depth > 0
        /\ dirs[1].ino = ROOT_INO /\ ~(Depth > 1)
    BY <2>1 DEF FormatInv
  <2>3. Depth = 1
    BY <2>2
  <2>4. Len(dirs) = 1
    BY <2>3 DEF Depth
  <2> QED BY <2>1, <2>2, <2>3, <2>4
<1>2. PICK L, Lab : Ready(img, dirs, L, Lab)
  BY <1>1, ReadyHere
<1> DEFINE W == InosOf(dirs)
<1>3. Nothing \in Borrowed /\ b \in Nat
  BY NothingIsLent, Constants, InodeBlockNumber DEF AtMost
<1>4. PICK D \in Nat : D = 1
  OBVIOUS
<1>5. Alive(img) => L = Plus(Nothing, b)
  <2> SUFFICES ASSUME Alive(img) PROVE L = Plus(Nothing, b)
    OBVIOUS
  <2>1. PICK B : Lending(dirs, B) /\ L = B[Len(dirs)]
    BY <1>2 DEF Ready
  <2> QED BY <1>1, <2>1 DEF Lending
<1>6. Runs(img, L, Lab, W, D)
  BY <1>1, <1>2, <1>4 DEF Ready
<1> HIDE DEF W, b
<1> DEFINE M == Plus(Nothing, b)
<1>7. Runs(img, M, Lab, W, D)
  <2>1. Alive(img) => M = L
    BY <1>5
  <2> HIDE DEF M
  <2> QED BY <1>6, <2>1, RunsSame
<1>8. M[b] > 0 /\ Minus(M, b) = Nothing
  BY <1>3, Returned
<1> HIDE DEF M
<1>9. Runs(Put(img, b), Nothing, Lab, W, D)
  <2>1. Alive(img) => b \in Nat /\ M[b] > 0
    BY <1>3, <1>8
  <2> QED BY <1>7, <1>8, <2>1, PutRuns
<1>10. f.cache.abort \in Allowed(D)
  BY <1>9, FinishFsRuns
<1> HIDE DEF f
<1>11. img'.cache.abort = f.cache.abort /\ stage' \in {"done", "dead"}
  <2>1. CASE f.cache.abort = Cache!Fine
    BY <1>1, <2>1 DEF Reaches
  <2>2. CASE f.cache.abort # Cache!Fine
    BY <1>1, <2>2 DEF Reaches, Formatter, CacheType
  <2> QED BY <2>1, <2>2
<1>12. Depth' = 1 /\ Allowed(Depth)' = Allowed(D)
  BY <1>1, <1>4 DEF Depth, Allowed
<1> QED BY <1>10, <1>11, <1>12 DEF FormatInv

(* main() leaves the block of the root's inode lent out.                   *)
LEMMA StartsLending ==
  ASSUME Sizes, FormatInit
  PROVE  FormatInv
<1> DEFINE g == WithRoot(OpenDisk)
           M == Plus(Nothing, InoBlk(ROOT_INO))
<1>1. img = g /\ dirs = <<[ino |-> ROOT_INO, b |-> 0]>> /\ stage = "tree"
  BY DEF FormatInit
<1>2. PICK D \in Nat : D = 1
  OBVIOUS
<1>3. Runs(g, M, Fresh, {ROOT_INO}, D) /\ (Alive(g) => g.nextinode = ROOT_INO + 1)
  BY RootRuns
<1> HIDE DEF g
<1>4. /\ dirs \in Seq(Directory) /\ Len(dirs) = 1 /\ dirs[1].ino = ROOT_INO /\ Depth = 1
      /\ InosOf(dirs) = {ROOT_INO}
  <2>1. [ino |-> ROOT_INO, b |-> 0] \in Directory
    BY Constants DEF Directory
  <2>2. dirs \in Seq(Directory) /\ Len(dirs) = 1 /\ dirs[1].ino = ROOT_INO
    BY <1>1, <2>1
  <2>3. InosOf(dirs) = {ROOT_INO}
    BY <2>2 DEF InosOf
  <2> QED BY <2>2, <2>3 DEF Depth
<1>5. AtMost(M, 1)
  <2>1. AtMost(M, 0 + 1)
    BY NothingIsLent, OneMoreBlock
  <2> QED BY <2>1
<1> HIDE DEF M
<1>6. Lending(dirs, [k \in 1 .. 1 |-> M])
  <2>1. 2 * 1 - 1 = 1 /\ M \in Borrowed
    BY <1>5 DEF AtMost
  <2> QED BY <1>4, <1>5, <2>1 DEF Lending, M
<1>7. Alive(img) => Nested(img, dirs)
  <2> SUFFICES ASSUME Alive(img) PROVE Nested(img, dirs)
    OBVIOUS
  <2>1. PICK B : B = [k \in 1 .. 1 |-> M]
    OBVIOUS
  <2>2. B[Len(dirs)] = M
    BY <1>4, <2>1
  <2>3. Good(img, B[Len(dirs)], Fresh, InosOf(dirs))
    BY <1>1, <1>3, <1>4, <2>2 DEF Runs
  <2>4. \A w \in InosOf(dirs) : w < img.nextinode
    BY <1>1, <1>3, <1>4 DEF ROOT_INO
  <2> QED BY <1>6, <2>1, <2>3, <2>4 DEF Nested
<1>8. img \in Formatter /\ img.cache.abort \in Allowed(Depth)
  BY <1>1, <1>2, <1>3, <1>4 DEF Runs
<1> QED BY <1>1, <1>4, <1>7, <1>8 DEF FormatInv

(* Every step of the formatter keeps the invariant.                        *)
LEMMA FormatSteps ==
  ASSUME Sizes, FormatInv, [FormatNext]_formatVars
  PROVE  FormatInv'
<1>0. HostInos \cup {0} \subseteq Nat /\ DOMAIN Size \subseteq Nat
  BY DEF Sizes
<1>1. ASSUME NEW name \in Names, NEW host \in HostInos \cup {0}, NEW x \in DOMAIN Size,
             FileIsNext(name, host, x)
      PROVE  FormatInv'
  <2>1. PICK is : is = "REG"
    OBVIOUS
  <2>2. /\ stage \in {"tree", "links"} /\ dirs' = dirs
        /\ Becomes(WithEntry(img, Here, name, host, is, x))
    BY <1>1, <2>1 DEF FileIsNext, WriteFile
  <2>3. x \in Nat /\ (is = "SYMLINK" \/ (is = "REG" /\ x \in DOMAIN Size))
    BY <1>0, <2>1
  <2> QED BY <2>2, <2>3, EntryStays
<1>2. ASSUME NEW name \in Names, NEW host \in HostInos \cup {0}, SymlinkIsNext(name, host)
      PROVE  FormatInv'
  <2>1. PICK is : is = "SYMLINK"
    OBVIOUS
  <2>2. PICK x \in Nat : x = NoDigest
    BY DEF NoDigest
  <2>3. /\ stage \in {"tree", "links"} /\ dirs' = dirs
        /\ Becomes(WithEntry(img, Here, name, host, is, x))
    BY <1>2, <2>1, <2>2 DEF SymlinkIsNext, AddSymlink
  <2>4. is = "SYMLINK" \/ (is = "REG" /\ x \in DOMAIN Size)
    BY <2>1
  <2> QED BY <2>3, <2>4, EntryStays
<1>3. ASSUME NEW name \in Names, DirIsNext(name) PROVE FormatInv'
  BY <1>3, EnterStays DEF DirIsNext
<1>4. CASE DirEnds
  BY <1>4, EndStays
<1>5. CASE TreeEnds
  <2>1. /\ stage' = "links" /\ img' = img /\ dirs' = dirs /\ Depth = 1 /\ stage = "tree"
        /\ Depth' = Depth
    BY <1>5 DEF TreeEnds, Depth
  <2>2. Alive(img)' = Alive(img) /\ Nested(img, dirs)' = Nested(img, dirs)
        /\ Allowed(Depth)' = Allowed(Depth)
    BY <2>1 DEF Alive, Nested, Lending, InosOf, Good, AtMost, Lends, Pointing, Inode, Holds,
                Ended, Leads, LeadsIndirect, LeadsDoubly, Allowed
  <2> QED BY <2>1, <2>2 DEF FormatInv
<1>6. CASE Finish
  BY <1>6, FinishStays
<1>7. CASE UNCHANGED formatVars
  <2>1. stage' = stage /\ img' = img /\ dirs' = dirs /\ Depth' = Depth
    BY <1>7 DEF formatVars, Depth
  <2>2. Alive(img)' = Alive(img) /\ Nested(img, dirs)' = Nested(img, dirs)
        /\ Allowed(Depth)' = Allowed(Depth)
    BY <2>1 DEF Alive, Nested, Lending, InosOf, Good, AtMost, Lends, Pointing, Inode, Holds,
                Ended, Leads, LeadsIndirect, LeadsDoubly, Allowed
  <2> QED BY <2>1, <2>2 DEF FormatInv
<1> QED BY <1>1, <1>2, <1>3, <1>4, <1>5, <1>6, <1>7 DEF FormatNext

LEMMA SizesAreRight == Sizes
BY FormatAssumption DEF Sizes

(* The formatter borrows and gives back in turn: while it has not given up *)
(* and reads the tree, the blocks that the directories it is in keep lent  *)
(* out, and only those, are lent out between two entries, every pointer it *)
(* will follow leads to a block of the right kind, and it has given up for *)
(* a full cache in deep directories only.                                  *)
THEOREM FormatInvariant == FormatSpec => []FormatInv
<1>1. FormatInit => FormatInv
  BY SizesAreRight, StartsLending
<1>2. FormatInv /\ [FormatNext]_formatVars => FormatInv'
  BY SizesAreRight, FormatSteps
<1> QED BY <1>1, <1>2, PTL DEF FormatSpec

(* The block cache suffices: whatever the tree, pointers into the cache    *)
(* are used only while their blocks are lent out, no block is borrowed as  *)
(* two different things at a time, and it does not run full before the     *)
(* directories are (slots - 6) / 2 below the root.                         *)
THEOREM CacheLargeEnough == FormatSpec => []CacheSuffices
<1>1. FormatInv => CacheSuffices
  BY DEF FormatInv, Allowed, CacheSuffices, Cache!Fine
<1> QED BY <1>1, FormatInvariant, PTL
=============================================================================
