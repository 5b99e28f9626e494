----------------------------- MODULE BlockCache -----------------------------
(***************************************************************************)
(* The block cache of lab3/ospfsformat.c.  getblk() lends a block out,     *)
(* putblk() takes it back, and a slot that nobody has borrowed makes room  *)
(* for another block.  A cache is a record: operators take one and return  *)
(* another, and abort() leaves its reason in it.                           *)
(*                                                                         *)
(* Of the time stamps `used' only the order counts, so that they are kept  *)
(* as ranks: 0 for a slot never used, 1 for the one used longest ago.      *)
(***************************************************************************)
EXTENDS Integers, FiniteSets

CONSTANTS
  NSLOTS,      \* the slots of cache[], 16
  NBLOCKS,     \* nblocks
  Zero         \* what a block of zeros holds

Slot == 0 .. NSLOTS-1
CachedBlock == 0 .. NBLOCKS-1
Fine == "fine"

EmptySlot == [bno |-> 0, busy |-> 0, used |-> 0, type |-> "super", data |-> Zero]

(* The disk is a file that ftruncate() has just filled with zeros.         *)
EmptyCache ==
  [slot |-> [s \in Slot |-> EmptySlot],
   disk |-> [b \in CachedBlock |-> Zero],
   abort |-> Fine]

Abort(c, reason) == IF c.abort = Fine THEN [c EXCEPT !.abort = reason] ELSE c

(* Slots whose block number is 0 because they were never used hold none.   *)
Holding(c, b) == {s \in Slot : c.slot[s].bno = b /\ c.slot[s].used > 0}
SlotOf(c, b) == CHOOSE s \in Holding(c, b) : TRUE

Idle(c) == {s \in Slot : c.slot[s].busy = 0}

(* Fault: a slot that is lent out may be taken as well.                    *)
LeastOfAll(c) ==
  CHOOSE s \in Slot : \A x \in Slot :
    \/ c.slot[s].used < c.slot[x].used
    \/ c.slot[s].used = c.slot[x].used /\ s <= x

Least(c) ==
  CHOOSE s \in Idle(c) : \A x \in Idle(c) :
    \/ c.slot[s].used < c.slot[x].used
    \/ c.slot[s].used = c.slot[x].used /\ s <= x

(* flushb(): swizzling, which changes nothing on a little-endian machine,  *)
(* is undone after the write.                                              *)
FlushB(c, s) ==
  IF c.slot[s].used = 0 THEN c
  ELSE [c EXCEPT !.disk[c.slot[s].bno] = c.slot[s].data]

(* Slot s becomes the one used last, and those used after it move down.    *)
Aged(slot, rank) ==
  IF rank > 0 /\ slot.used > rank THEN [slot EXCEPT !.used = @ - 1] ELSE slot

Touched(c, s) ==
  LET rank == c.slot[s].used
      last == Cardinality({x \in Slot : x = s \/ c.slot[x].used > 0})
  IN  [c EXCEPT !.slot = [x \in Slot |->
         IF x = s THEN [c.slot[s] EXCEPT !.used = last] ELSE Aged(c.slot[x], rank)]]

Load(c, s, b, type) ==
  LET flushed == FlushB(c, s)
  IN  [flushed EXCEPT !.slot[s] =
         [bno |-> b, busy |-> 0, used |-> c.slot[s].used, type |-> type,
          data |-> flushed.disk[b]]]

Lend(c, s, clr, type) ==
  LET old == c.slot[s]
      lent == [c EXCEPT !.slot[s] =
                 [bno |-> old.bno, busy |-> old.busy + 1, used |-> old.used, type |-> type,
                  data |-> IF clr THEN Zero ELSE old.data]]
  IN  IF old.type # type /\ old.busy # 0
      THEN Abort(c, "assertion failed")
      ELSE Touched(lent, s)

GetBlk(c, b, clr, type) ==
  IF c.abort # Fine THEN c
  ELSE IF b >= NBLOCKS THEN Abort(c, "past end of disk")
  ELSE IF Holding(c, b) # {} THEN Lend(c, SlotOf(c, b), clr, type)
  ELSE IF Idle(c) = {} THEN Abort(c, "cache full")
  ELSE Lend(Load(c, Least(c), b, type), Least(c), clr, type)

(* A pointer into a block is used only while its slot is lent out.         *)
Lent(c, b) == Holding(c, b) # {} /\ c.slot[SlotOf(c, b)].busy > 0

PutBlk(c, b) ==
  IF c.abort # Fine THEN c
  ELSE IF ~Lent(c, b) THEN Abort(c, "stray pointer")
  ELSE [c EXCEPT !.slot[SlotOf(c, b)].busy = @ - 1]

Data(c, b) == IF Lent(c, b) THEN c.slot[SlotOf(c, b)].data ELSE Zero

SetData(c, b, data) ==
  IF c.abort # Fine THEN c
  ELSE IF ~Lent(c, b) THEN Abort(c, "stray pointer")
  ELSE [c EXCEPT !.slot[SlotOf(c, b)].data = data]

FlushDisk(c) ==
  IF c.abort # Fine THEN c
  ELSE [c EXCEPT !.disk = [b \in CachedBlock |->
          IF Holding(c, b) # {} THEN c.slot[SlotOf(c, b)].data ELSE @[b]]]

-----------------------------------------------------------------------------
(* What the blocks hold, wherever that is kept.                            *)
Contents(c) ==
  [b \in CachedBlock |->
     IF Holding(c, b) # {} THEN c.slot[SlotOf(c, b)].data ELSE c.disk[b]]
=============================================================================
