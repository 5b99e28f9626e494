---------------------------- MODULE AddTestProofs ---------------------------
(***************************************************************************)
(* With every --sync the counter of addtest is an atomic one, for          *)
(* every set of threads and every number of iterations.                    *)
(***************************************************************************)
EXTENDS AddTest, FiniteSetTheorems, TLAPS

(* A thread between its read and its write has an operation to make, and   *)
(* each kind of step belongs to one kind of --sync.                        *)
Pending ==
  \A t \in Threads :
    /\ pc[t] \in {"read", "write", "swap"} => done[t] < Operations
    /\ pc[t] = "swap" => sync = "cas"
    /\ pc[t] = "write" => sync # "cas"
    /\ pc[t] \in {"read", "unlock"} => Locking

(* With a lock the sum that is about to be written is fresh, because only  *)
(* the lock's holder is between its read and its write; with the swap it   *)
(* is one operation away from what was read.                               *)
Fresh ==
  \A t \in Threads :
    /\ Locking /\ pc[t] = "write" => sum[t] = counter + Delta(done[t])
    /\ pc[t] = "swap" => sum[t] = orig[t] + Delta(done[t])

Inv == TypeOK /\ Pending /\ LockHeld

IInv == Inv /\ Fresh

LEMMA OperationsNat == Operations \in Nat
  BY IterationsAssumption DEF Operations

LEMMA DeltaInt == \A k \in Int : Delta(k) \in Int
  BY DEF Delta

LEMMA ToIntInt == \A n \in Int : ToInt(n) \in Int
<1> SUFFICES ASSUME NEW n \in Int PROVE ToInt(n) \in Int
  OBVIOUS
<1>1. 2 * (IntMax + 1) \in Int /\ 2 * (IntMax + 1) > 0
  BY IntMaxAssumption
<1>2. \A a, b \in Int : b > 0 => a % b \in Int
  OBVIOUS
<1>3. (n + IntMax + 1) % (2 * (IntMax + 1)) \in Int
  BY <1>1, <1>2, IntMaxAssumption
<1>4. ((n + IntMax + 1) % (2 * (IntMax + 1))) - (IntMax + 1) \in Int
  BY <1>3, IntMaxAssumption
<1> QED BY <1>4 DEF ToInt

LEMMA InitIInv == Init => IInv
<1> SUFFICES ASSUME Init PROVE IInv
  OBVIOUS
<1>1. TypeOK
  BY OperationsNat DEF Init, TypeOK
<1>2. Pending /\ LockHeld /\ Fresh
  BY FreeAssumption DEF Init, Pending, LockHeld, Fresh
<1> QED BY <1>1, <1>2 DEF IInv, Inv

LEMMA StepKeepsInv ==
  ASSUME Inv, NEW t \in Threads, Step(t)
  PROVE  Inv'
<1> USE DEF Inv, Goto
<1>1. CASE Acquire(t)
  <2>1. TypeOK'
    BY <1>1 DEF Acquire, TypeOK
  <2>2. Pending'
    BY <1>1 DEF Acquire, TypeOK, Pending, Locking
  <2>3. LockHeld'
    BY <1>1, FreeAssumption DEF Acquire, TypeOK, LockHeld, Locking
  <2> QED BY <2>1, <2>2, <2>3
<1>2. CASE Read(t)
  <2>1. counter + Delta(done[t]) \in Int
    BY DeltaInt, OperationsNat DEF TypeOK
  <2>2. /\ pc' = [pc EXCEPT ![t] = "write"]
        /\ Locking => pc[t] = "read"
        /\ sync # "cas" /\ done[t] < Operations
        /\ UNCHANGED <<sync, counter, done, orig, lock>>
    BY <1>2 DEF Read
  <2>3. TypeOK'
    BY <1>2, <2>1, <2>2 DEF Read, TypeOK
  <2>4. Pending'
    BY <2>2 DEF TypeOK, Pending, Locking
  <2>5. LockHeld'
    BY <2>2 DEF TypeOK, LockHeld, Locking
  <2> QED BY <2>3, <2>4, <2>5
<1>3. CASE Write(t)
  <2>1. /\ pc[t] = "write" /\ sync # "cas"
        /\ pc' = [pc EXCEPT ![t] = IF Locking THEN "unlock" ELSE "next"]
        /\ counter' = sum[t] /\ done' = [done EXCEPT ![t] = @ + 1]
        /\ UNCHANGED <<sync, orig, sum, lock>>
    BY <1>3 DEF Write
  <2>2. done[t] + 1 \in 0 .. Operations
    BY <2>1, OperationsNat DEF TypeOK, Pending
  <2>3. TypeOK'
    BY <2>1, <2>2 DEF TypeOK
  <2>4. Pending'
    BY <2>1 DEF TypeOK, Pending, Locking
  <2>5. LockHeld'
    BY <2>1 DEF TypeOK, LockHeld, Locking
  <2> QED BY <2>3, <2>4, <2>5
<1>4. CASE Release(t)
  <2>1. TypeOK'
    BY <1>4 DEF Release, TypeOK
  <2>2. Pending'
    BY <1>4 DEF Release, TypeOK, Pending, Locking
  <2>3. LockHeld'
    BY <1>4, FreeAssumption DEF Release, TypeOK, LockHeld, Locking
  <2> QED BY <2>1, <2>2, <2>3
<1>5. CASE ReadOrig(t)
  <2>1. /\ sync = "cas" /\ done[t] < Operations
        /\ pc' = [pc EXCEPT ![t] = "swap"]
        /\ UNCHANGED <<sync, counter, done, lock>>
    BY <1>5 DEF ReadOrig
  <2>2. orig' \in [Threads -> Int]
    BY <1>5, ToIntInt DEF ReadOrig, TypeOK
  <2>3. PICK s \in IntSums(ToInt(counter), Delta(done[t])) :
          sum' = [sum EXCEPT ![t] = s]
    BY <1>5 DEF ReadOrig
  <2>4. ToInt(counter) + Delta(done[t]) \in Int
    BY ToIntInt, DeltaInt, OperationsNat DEF TypeOK
  <2>5. s \in Int
    BY <2>4, ToIntInt DEF IntSums
  <2>6. TypeOK'
    BY <2>1, <2>2, <2>3, <2>5 DEF TypeOK
  <2>7. Pending' /\ LockHeld'
    BY <2>1 DEF TypeOK, Pending, LockHeld, Locking
  <2> QED BY <2>6, <2>7
<1>6. CASE Swap(t)
  <2>1. /\ pc[t] = "swap" /\ pc' = [pc EXCEPT ![t] = "next"]
        /\ UNCHANGED <<sync, orig, sum, lock>>
    BY <1>6 DEF Swap
  <2>2. sync = "cas" /\ done[t] < Operations
    BY <2>1 DEF Pending
  <2>3. CASE counter' = sum[t] /\ done' = [done EXCEPT ![t] = @ + 1]
    <3>1. done[t] + 1 \in 0 .. Operations
      BY <2>2, OperationsNat DEF TypeOK
    <3>2. TypeOK'
      BY <2>1, <2>3, <3>1 DEF TypeOK
    <3>3. Pending'
      BY <2>1, <2>3 DEF TypeOK, Pending, Locking
    <3>4. LockHeld'
      BY <2>1, <2>2 DEF LockHeld, Locking
    <3> QED BY <3>2, <3>3, <3>4
  <2>4. CASE UNCHANGED <<counter, done>>
    <3>1. TypeOK' /\ Pending'
      BY <2>1, <2>4 DEF TypeOK, Pending, Locking
    <3>2. LockHeld'
      BY <2>1, <2>2 DEF LockHeld, Locking
    <3> QED BY <3>1, <3>2
  <2> QED BY <1>6, <2>3, <2>4 DEF Swap
<1> QED BY <1>1, <1>2, <1>3, <1>4, <1>5, <1>6 DEF Step

LEMMA StepKeepsFresh ==
  ASSUME Inv, Fresh, FitsInt, NEW t \in Threads, Step(t)
  PROVE  Fresh'
<1> USE DEF Inv, Goto
<1>1. CASE Acquire(t)
  BY <1>1 DEF Acquire, TypeOK, Fresh, Locking
<1>2. CASE Read(t)
  <2>1. /\ pc' = [pc EXCEPT ![t] = "write"]
        /\ sum' = [sum EXCEPT ![t] = counter + Delta(done[t])]
        /\ UNCHANGED <<sync, counter, done, orig>>
    BY <1>2 DEF Read
  <2> QED BY <2>1 DEF TypeOK, Fresh, Locking
<1>3. CASE Write(t)
  <2>1. /\ pc[t] = "write" /\ sync # "cas"
        /\ pc' = [pc EXCEPT ![t] = IF Locking THEN "unlock" ELSE "next"]
        /\ done' = [done EXCEPT ![t] = @ + 1]
        /\ UNCHANGED <<sync, orig, sum, lock>>
    BY <1>3 DEF Write
  <2>2. \A u \in Threads : pc[u] # "swap"
    BY <2>1 DEF Pending
  <2>3. Locking => \A u \in Threads \ {t} : pc[u] # "write"
    BY <2>1 DEF LockHeld
  <2> QED BY <2>1, <2>2, <2>3 DEF TypeOK, Fresh, Locking
<1>4. CASE Release(t)
  BY <1>4 DEF Release, TypeOK, Fresh, Locking
<1>5. CASE ReadOrig(t)
  <2>1. /\ sync = "cas" /\ done[t] < Operations
        /\ pc' = [pc EXCEPT ![t] = "swap"]
        /\ orig' = [orig EXCEPT ![t] = ToInt(counter)]
        /\ UNCHANGED <<sync, counter, done, lock>>
    BY <1>5 DEF ReadOrig
  <2>2. ToInt(counter) = counter
    BY <2>1 DEF FitsInt, ToInt
  <2>3. IntSums(ToInt(counter), Delta(done[t])) = {counter + Delta(done[t])}
    BY <2>1, <2>2 DEF FitsInt, IntSums
  <2>4. sum' = [sum EXCEPT ![t] = counter + Delta(done[t])]
    BY <1>5, <2>3 DEF ReadOrig
  <2> QED BY <2>1, <2>2, <2>4 DEF TypeOK, Fresh, Locking
<1>6. CASE Swap(t)
  <2>1. /\ pc[t] = "swap" /\ pc' = [pc EXCEPT ![t] = "next"]
        /\ UNCHANGED <<sync, orig, sum, lock>>
    BY <1>6 DEF Swap
  <2>2. sync = "cas"
    BY <2>1 DEF Pending
  <2>3. \A u \in Threads \ {t} : done'[u] = done[u]
    BY <1>6 DEF Swap, TypeOK
  <2> QED BY <2>1, <2>2, <2>3 DEF TypeOK, Fresh, Locking
<1> QED BY <1>1, <1>2, <1>3, <1>4, <1>5, <1>6 DEF Step

LEMMA NextKeepsInv == Inv /\ [Next]_vars => Inv'
<1>1. Inv /\ UNCHANGED vars => Inv'
  BY DEF Inv, vars, TypeOK, Pending, LockHeld, Locking
<1> QED BY <1>1, StepKeepsInv DEF Next, Exited

LEMMA NextKeepsFresh == Inv /\ Fresh /\ FitsInt /\ [Next]_vars => Fresh'
<1>1. Fresh /\ UNCHANGED vars => Fresh'
  BY DEF Fresh, vars, Locking
<1> QED BY <1>1, StepKeepsFresh DEF Next, Exited

LEMMA Inductive == Spec => []Inv
<1>1. Init => Inv
  BY InitIInv DEF IInv
<1> QED BY <1>1, NextKeepsInv, PTL DEF Spec

LEMMA FreshInductive == Spec /\ []FitsInt => []IInv
<1>1. Init => Fresh
  BY InitIInv DEF IInv
<1> QED BY <1>1, Inductive, NextKeepsFresh, PTL DEF Spec, IInv

(* The lock excludes: who is between lock and unlock holds it, alone.      *)
THEOREM LockExcludes == Spec => []LockHeld
<1>1. Inv => LockHeld
  BY DEF Inv
<1> QED BY Inductive, <1>1, PTL

(* With any --sync no update is lost while the count fits an int.          *)
THEOREM UpdatesKept == Spec /\ []FitsInt => []NothingLost
<1>1. IInv => NothingLost
  BY DEF IInv, Inv, Fresh, NothingLost, Pending, TypeOK, Locking
<1> QED BY FreshInductive, <1>1, PTL

(* With any --sync the counter implements the atomic one while the count   *)
(* fits an int: the write or the successful swap is the operation, every   *)
(* other step changes nothing that Tally sees.                             *)
THEOREM CounterIsTally == Spec /\ []FitsInt => ImplementsTally
<1>1. Init => TallyOf!Init
  BY DEF Init, TallyOf!Init
<1>2. ASSUME IInv, [Next]_vars
      PROVE  [sync # "none" => TallyOf!Next]_(TallyOf!vars)
  <2>1. ASSUME NEW t \in Threads, done[t] < Operations,
               counter' = counter + Delta(done[t]),
               done' = [done EXCEPT ![t] = @ + 1]
        PROVE  TallyOf!Add(t)
    BY <2>1 DEF TallyOf!Add, TallyOf!Delta, Delta, TallyOf!Operations,
                Operations
  <2>2. ASSUME NEW t \in Threads, Write(t), sync # "none"
        PROVE  TallyOf!Add(t)
    <3>1. pc[t] = "write" /\ Locking
      BY <1>2, <2>2 DEF Write, Goto, IInv, Inv, TypeOK, Locking
    <3>2. counter' = counter + Delta(done[t]) /\ done[t] < Operations
      BY <1>2, <2>2, <3>1 DEF Write, IInv, Inv, Fresh, Pending
    <3> QED BY <2>1, <2>2, <3>2 DEF Write
  <2>3. ASSUME NEW t \in Threads, Swap(t), ~UNCHANGED <<counter, done>>
        PROVE  TallyOf!Add(t)
    <3>1. pc[t] = "swap" /\ counter = orig[t] /\ counter' = sum[t]
          /\ done' = [done EXCEPT ![t] = @ + 1]
      BY <2>3 DEF Swap, Goto
    <3>2. counter' = counter + Delta(done[t]) /\ done[t] < Operations
      BY <1>2, <3>1 DEF IInv, Inv, Fresh, Pending
    <3> QED BY <2>1, <3>1, <3>2
  <2>4. ASSUME NEW t \in Threads,
               Acquire(t) \/ Read(t) \/ Release(t) \/ ReadOrig(t)
        PROVE  UNCHANGED <<counter, done>>
    BY <2>4 DEF Acquire, Read, Release, ReadOrig
  <2>5. CASE UNCHANGED vars
    BY <2>5 DEF vars, TallyOf!vars
  <2> QED BY <1>2, <2>2, <2>3, <2>4, <2>5
          DEF Next, Step, Exited, TallyOf!Next, TallyOf!vars
<1> QED BY <1>1, <1>2, FreshInductive, PTL DEF Spec, ImplementsTally

-----------------------------------------------------------------------------
(* Counting the operations that are over, when d[t] of thread t's are: the *)
(* increments are pairs of a thread and a round of its first loop, the     *)
(* decrements pairs of a thread and a round of its second.                 *)
Rounds == Threads \X (0 .. Iterations-1)
Incs(d) == {r \in Rounds : r[2] < d[r[1]]}
Decs(d) == {r \in Rounds : r[2] + Iterations < d[r[1]]}
Total == Cardinality(Threads) * Iterations

LEMMA RoundsFinite == IsFiniteSet(Rounds) /\ Cardinality(Rounds) = Total
<1>1. IsFiniteSet(0 .. Iterations-1) /\ Cardinality(0 .. Iterations-1) = Iterations
  BY FS_Interval, IterationsAssumption
<1> QED BY <1>1, FS_Product, ThreadsAssumption DEF Rounds, Total

(* There are never more decrements than increments.                        *)
LEMMA CountsOrdered ==
  ASSUME NEW d \in [Threads -> 0 .. Operations]
  PROVE  /\ IsFiniteSet(Incs(d)) /\ IsFiniteSet(Decs(d))
         /\ Cardinality(Incs(d)) \in Nat /\ Cardinality(Decs(d)) \in Nat /\ Total \in Nat
         /\ Cardinality(Decs(d)) <= Cardinality(Incs(d))
         /\ Cardinality(Incs(d)) <= Total
<1>1. \A r \in Rounds : r[1] \in Threads /\ r[2] \in Nat
  BY DEF Rounds
<1>2. Incs(d) \subseteq Rounds /\ Decs(d) \subseteq Incs(d)
  BY <1>1, IterationsAssumption DEF Incs, Decs, Operations
<1>3. IsFiniteSet(Incs(d)) /\ Cardinality(Incs(d)) <= Total
  BY <1>2, RoundsFinite, FS_Subset
<1>4. IsFiniteSet(Decs(d)) /\ Cardinality(Decs(d)) <= Cardinality(Incs(d))
  BY <1>2, <1>3, FS_Subset
<1> QED BY <1>3, <1>4, RoundsFinite, FS_CardinalityType

(* One more operation of t is one more increment or one more decrement.    *)
LEMMA OneMore ==
  ASSUME NEW d \in [Threads -> 0 .. Operations], NEW t \in Threads, d[t] < Operations
  PROVE  LET e == [d EXCEPT ![t] = @ + 1]
         IN  /\ e \in [Threads -> 0 .. Operations]
             /\ d[t] < Iterations =>
                  /\ Cardinality(Incs(e)) = Cardinality(Incs(d)) + 1
                  /\ Cardinality(Decs(e)) = Cardinality(Decs(d))
             /\ d[t] >= Iterations =>
                  /\ Cardinality(Incs(e)) = Cardinality(Incs(d))
                  /\ Cardinality(Decs(e)) = Cardinality(Decs(d)) + 1
<1> DEFINE e == [d EXCEPT ![t] = @ + 1]
<1>1. e \in [Threads -> 0 .. Operations]
  BY OperationsNat
<1>2. /\ e[t] = d[t] + 1 /\ d[t] \in Nat
      /\ \A u \in Threads : u # t => e[u] = d[u]
  BY OperationsNat
<1>3. \A r \in Rounds : /\ r[1] \in Threads /\ r[2] \in Nat /\ r[2] < Iterations
                        /\ r = <<r[1], r[2]>>
  BY IterationsAssumption DEF Rounds
<1> HIDE DEF e
<1>4. CASE d[t] < Iterations
  <2> DEFINE n == <<t, d[t]>>
  <2>1. n \in Rounds /\ n[1] = t /\ n[2] = d[t]
    BY <1>2, <1>4, IterationsAssumption DEF Rounds
  <2>2. \A r \in Rounds : r[2] < e[r[1]] <=> r[2] < d[r[1]] \/ r = n
    <3> SUFFICES ASSUME NEW r \in Rounds
                 PROVE  r[2] < e[r[1]] <=> r[2] < d[r[1]] \/ r = n
      OBVIOUS
    <3>1. CASE r[1] = t
      BY <3>1, <1>2, <1>3
    <3>2. CASE r[1] # t
      BY <3>2, <1>2, <1>3, <2>1
    <3> QED BY <3>1, <3>2
  <2>3. Incs(e) = Incs(d) \cup {n} /\ n \notin Incs(d)
    <3>1. n \notin Incs(d)
      BY <1>2, <2>1 DEF Incs
    <3> QED BY <2>1, <2>2, <3>1 DEF Incs
  <2>4. Decs(e) = Decs(d)
    <3>1. \A r \in Rounds : r[2] + Iterations < e[r[1]] <=> r[2] + Iterations < d[r[1]]
      BY <1>2, <1>3, <1>4, IterationsAssumption
    <3> QED BY <3>1 DEF Decs
  <2>5. Cardinality(Incs(e)) = Cardinality(Incs(d)) + 1
    BY <2>3, CountsOrdered, FS_AddElement
  <2> QED BY <1>1, <1>2, <1>4, <2>4, <2>5, IterationsAssumption DEF e
<1>5. CASE d[t] >= Iterations
  <2> DEFINE n == <<t, d[t] - Iterations>>
  <2>1. n \in Rounds /\ n[1] = t /\ n[2] = d[t] - Iterations
    BY <1>2, <1>5, IterationsAssumption DEF Rounds, Operations
  <2>2. \A r \in Rounds :
          r[2] + Iterations < e[r[1]] <=> r[2] + Iterations < d[r[1]] \/ r = n
    <3> SUFFICES ASSUME NEW r \in Rounds
                 PROVE  r[2] + Iterations < e[r[1]] <=>
                          r[2] + Iterations < d[r[1]] \/ r = n
      OBVIOUS
    <3>1. CASE r[1] = t
      BY <3>1, <1>2, <1>3, IterationsAssumption
    <3>2. CASE r[1] # t
      BY <3>2, <1>2, <1>3, <2>1
    <3> QED BY <3>1, <3>2
  <2>3. Decs(e) = Decs(d) \cup {n} /\ n \notin Decs(d)
    <3>1. n \notin Decs(d)
      BY <1>2, <2>1, IterationsAssumption DEF Decs
    <3> QED BY <2>1, <2>2, <3>1 DEF Decs
  <2>4. Incs(e) = Incs(d)
    <3>1. \A r \in Rounds : r[2] < e[r[1]] <=> r[2] < d[r[1]]
      BY <1>2, <1>3, <1>5, IterationsAssumption
    <3> QED BY <3>1 DEF Incs
  <2>5. Cardinality(Decs(e)) = Cardinality(Decs(d)) + 1
    BY <2>3, CountsOrdered, FS_AddElement
  <2> QED BY <1>1, <1>2, <1>5, <2>4, <2>5, IterationsAssumption DEF e
<1>6. d[t] < Iterations \/ d[t] >= Iterations
  BY <1>2, IterationsAssumption
<1> QED BY <1>4, <1>5, <1>6 DEF e

(* With any --sync the counter is what the operations that are over make.  *)
(* It stays between 0 and Total, so that an int which holds Total holds    *)
(* every value the compare-and-swap loop copies to one.                    *)
Counted ==
  sync # "none" => counter = Cardinality(Incs(done)) - Cardinality(Decs(done))

CountFits == Total <= IntMax

LEMMA CountedFits == ASSUME CountFits, Inv, Counted PROVE FitsInt
<1> SUFFICES ASSUME sync = "cas" PROVE FitsInt
  BY DEF FitsInt
<1> DEFINE I == Cardinality(Incs(done))
           D == Cardinality(Decs(done))
<1>1. done \in [Threads -> 0 .. Operations] /\ counter = I - D
  BY DEF Inv, TypeOK, Counted
<1>2. I \in Nat /\ D \in Nat /\ Total \in Nat /\ D <= I /\ I <= Total
  BY <1>1, CountsOrdered
<1>3. counter \in 0 .. Total
  BY <1>1, <1>2
<1>4. ASSUME NEW t \in Threads, done[t] < Operations
      PROVE  counter + Delta(done[t]) \in 0 .. Total
  <2> DEFINE e == [done EXCEPT ![t] = @ + 1]
             J == Cardinality(Incs(e))
             E == Cardinality(Decs(e))
  <2>1. /\ e \in [Threads -> 0 .. Operations]
        /\ done[t] < Iterations => J = I + 1 /\ E = D
        /\ done[t] >= Iterations => J = I /\ E = D + 1
    BY <1>1, <1>4, OneMore
  <2>2. J \in Nat /\ E \in Nat /\ E <= J /\ J <= Total
    BY <2>1, CountsOrdered
  <2>3. done[t] \in Nat
    BY <1>1, OperationsNat
  <2> HIDE DEF J, E, I, D
  <2>4. CASE done[t] < Iterations
    BY <1>1, <1>2, <2>1, <2>2, <2>4 DEF Delta
  <2>5. CASE ~(done[t] < Iterations)
    <3>1. J = I /\ E = D + 1
      BY <2>1, <2>3, <2>5, IterationsAssumption
    <3> QED BY <1>1, <1>2, <2>2, <2>5, <3>1 DEF Delta
  <2> QED BY <2>4, <2>5
<1>5. 0 .. Total \subseteq IntRange
  BY <1>2, IntMaxAssumption DEF IntRange, CountFits
<1> QED BY <1>3, <1>4, <1>5 DEF FitsInt

(* An operation adds its Delta and makes itself count.                     *)
LEMMA DeltaCounts ==
  ASSUME Inv, Counted, NEW t \in Threads, done[t] < Operations, UNCHANGED sync,
         sync # "none" => counter' = counter + Delta(done[t]),
         done' = [done EXCEPT ![t] = @ + 1]
  PROVE  Counted'
<1>1. done \in [Threads -> 0 .. Operations] /\ done[t] \in Nat
  BY OperationsNat DEF Inv, TypeOK
<1>2. /\ done[t] < Iterations =>
           /\ Cardinality(Incs(done')) = Cardinality(Incs(done)) + 1
           /\ Cardinality(Decs(done')) = Cardinality(Decs(done))
      /\ done[t] >= Iterations =>
           /\ Cardinality(Incs(done')) = Cardinality(Incs(done))
           /\ Cardinality(Decs(done')) = Cardinality(Decs(done)) + 1
  BY <1>1, OneMore
<1>3. Cardinality(Incs(done)) \in Nat /\ Cardinality(Decs(done)) \in Nat
  BY <1>1, CountsOrdered
<1>4. Incs(done)' = Incs(done') /\ Decs(done)' = Decs(done')
  BY DEF Incs, Decs
<1> QED BY <1>1, <1>2, <1>3, <1>4, IterationsAssumption DEF Counted, Delta

LEMMA CountedStep == IInv /\ Counted /\ [Next]_vars => Counted'
<1> SUFFICES ASSUME IInv, Counted, [Next]_vars PROVE Counted'
  OBVIOUS
<1>1. ASSUME UNCHANGED <<sync, counter, done>> PROVE Counted'
  BY <1>1 DEF Counted, Incs, Decs
<1>2. ASSUME NEW t \in Threads, Write(t) PROVE Counted'
  <2>1. pc[t] = "write" /\ done[t] < Operations /\ (sync # "none" => Locking)
    BY <1>2 DEF IInv, Inv, Pending, TypeOK, Locking, Write, Goto
  <2>2. sync # "none" => counter' = counter + Delta(done[t])
    BY <1>2, <2>1 DEF IInv, Fresh, Write
  <2> QED BY <1>2, <2>1, <2>2, DeltaCounts DEF IInv, Write
<1>3. ASSUME NEW t \in Threads, Swap(t) PROVE Counted'
  <2>1. pc[t] = "swap" /\ done[t] < Operations /\ UNCHANGED sync
    BY <1>3 DEF IInv, Inv, Pending, Swap, Goto
  <2>2. CASE UNCHANGED <<counter, done>>
    BY <1>1, <2>1, <2>2
  <2>3. CASE /\ counter = orig[t] /\ counter' = sum[t]
             /\ done' = [done EXCEPT ![t] = @ + 1]
    <3>1. counter' = counter + Delta(done[t])
      BY <2>1, <2>3 DEF IInv, Fresh
    <3> QED BY <2>1, <2>3, <3>1, DeltaCounts DEF IInv
  <2> QED BY <1>3, <2>2, <2>3 DEF Swap
<1>4. ASSUME NEW t \in Threads, Acquire(t) \/ Read(t) \/ Release(t) \/ ReadOrig(t)
      PROVE  Counted'
  BY <1>1, <1>4 DEF Acquire, Read, Release, ReadOrig
<1>5. CASE UNCHANGED vars
  BY <1>1, <1>5 DEF vars
<1> QED BY <1>2, <1>3, <1>4, <1>5 DEF Next, Step, Exited

LEMMA InitCounted == Init => Counted
<1> SUFFICES ASSUME Init PROVE Counted
  OBVIOUS
<1>1. \A t \in Threads : done[t] = 0
  BY DEF Init
<1>2. Incs(done) = {} /\ Decs(done) = {}
  BY <1>1, IterationsAssumption DEF Incs, Decs, Rounds
<1> QED BY <1>2, FS_EmptySet DEF Init, Counted

LEMMA CountInvariant == ASSUME CountFits PROVE Spec => [](IInv /\ Counted /\ FitsInt)
<1>1. Init => IInv /\ Counted
  BY InitIInv, InitCounted
<1>2. IInv /\ Counted => FitsInt
  BY CountedFits DEF IInv
<1>3. IInv /\ Counted /\ [Next]_vars => (IInv /\ Counted)'
  BY <1>2, CountedStep, NextKeepsInv, NextKeepsFresh DEF IInv
<1> QED BY <1>1, <1>2, <1>3, PTL DEF Spec

(* The int `orig' is wide enough in every run if it holds the number of    *)
(* all increments.                                                         *)
THEOREM CountFitsInt == ASSUME CountFits PROVE Spec => []FitsInt
  BY CountInvariant, PTL

(* So no update is lost, without a word about the values on the way.       *)
THEOREM UpdatesKeptIfCountFits ==
  ASSUME CountFits
  PROVE  Spec => []NothingLost /\ ImplementsTally
  BY CountFitsInt, UpdatesKept, CounterIsTally, PTL

-----------------------------------------------------------------------------
(* Without --sync.  Upwards the counter, and any sum on its way to it, is  *)
(* bounded by the increments that count when it arrives; downwards by the  *)
(* decrements, one short of them as soon as any operation is over.         *)
Begun == \E t \in Threads : done[t] > 0

Racing ==
  sync = "none" =>
    LET I == Cardinality(Incs(done))
        D == Cardinality(Decs(done))
    IN  /\ counter <= I
        /\ counter >= IF Begun THEN 1 - D ELSE 0
        /\ \A t \in Threads : pc[t] = "write" =>
             /\ sum[t] <= I + Delta(done[t])
             /\ sum[t] >= (IF done[t] < Iterations THEN 1 ELSE 0) - D

LEMMA RacingRead ==
  ASSUME Inv, Racing, NEW t \in Threads, Read(t), Iterations >= 1
  PROVE  Racing'
<1> SUFFICES ASSUME sync = "none" PROVE Racing'
  BY DEF Read, Racing
<1> DEFINE I == Cardinality(Incs(done))
           D == Cardinality(Decs(done))
<1>1. /\ done \in [Threads -> 0 .. Operations] /\ counter \in Int
      /\ sum \in [Threads -> Int] /\ pc \in [Threads -> {"next", "read", "write", "unlock", "swap"}]
      /\ \A u \in Threads : done[u] \in Nat
  BY OperationsNat DEF Inv, TypeOK
<1>2. I \in Nat /\ D \in Nat
  BY <1>1, CountsOrdered
<1>3. /\ counter <= I /\ counter >= 0 - D
      /\ counter >= IF Begun THEN 1 - D ELSE 0
  BY <1>1, <1>2 DEF Racing
<1>4. /\ UNCHANGED <<sync, counter, done>> /\ pc' = [pc EXCEPT ![t] = "write"]
      /\ sum' = [sum EXCEPT ![t] = counter + Delta(done[t])]
  BY DEF Read, Goto, Locking
<1>5. Begun' = Begun /\ Incs(done)' = Incs(done) /\ Decs(done)' = Decs(done)
  BY <1>4 DEF Begun, Incs, Decs
<1>6. sum'[t] <= I + Delta(done[t])
  BY <1>1, <1>2, <1>3, <1>4 DEF Delta
<1>7. sum'[t] >= (IF done[t] < Iterations THEN 1 ELSE 0) - D
  <2>1. CASE done[t] < Iterations
    BY <2>1, <1>1, <1>2, <1>3, <1>4 DEF Delta
  <2>2. CASE ~(done[t] < Iterations)
    <3>1. Begun
      BY <1>1, <2>2, IterationsAssumption DEF Begun
    <3> HIDE DEF D
    <3> QED BY <2>2, <3>1, <1>1, <1>2, <1>3, <1>4 DEF Delta
  <2> QED BY <2>1, <2>2
<1>8. \A u \in Threads \ {t} : pc'[u] = pc[u] /\ sum'[u] = sum[u]
  BY <1>1, <1>4
<1>9. \A u \in Threads : pc'[u] = "write" =>
        /\ sum'[u] <= I + Delta(done[u])
        /\ sum'[u] >= (IF done[u] < Iterations THEN 1 ELSE 0) - D
  BY <1>6, <1>7, <1>8 DEF Racing
<1> QED BY <1>3, <1>4, <1>5, <1>9 DEF Racing

LEMMA RacingWrite ==
  ASSUME Inv, Racing, NEW t \in Threads, Write(t), Iterations >= 1
  PROVE  Racing'
<1> SUFFICES ASSUME sync = "none" PROVE Racing'
  BY DEF Write, Racing
<1> DEFINE I == Cardinality(Incs(done))
           D == Cardinality(Decs(done))
           J == Cardinality(Incs(done'))
           E == Cardinality(Decs(done'))
<1>1. /\ done \in [Threads -> 0 .. Operations] /\ counter \in Int
      /\ sum \in [Threads -> Int] /\ pc \in [Threads -> {"next", "read", "write", "unlock", "swap"}]
      /\ \A u \in Threads : done[u] \in Nat
  BY OperationsNat DEF Inv, TypeOK
<1>2. /\ UNCHANGED <<sync, sum>> /\ pc[t] = "write" /\ pc' = [pc EXCEPT ![t] = "next"]
      /\ counter' = sum[t] /\ done' = [done EXCEPT ![t] = @ + 1]
      /\ done[t] < Operations
  BY DEF Write, Goto, Locking, Inv, Pending
<1>3. /\ done[t] < Iterations => J = I + 1 /\ E = D
      /\ done[t] >= Iterations => J = I /\ E = D + 1
  BY <1>1, <1>2, OneMore
<1>4. I \in Nat /\ D \in Nat
  BY <1>1, CountsOrdered
<1>5. J \in Nat /\ E \in Nat /\ J >= I /\ E >= D
  BY <1>1, <1>3, <1>4, IterationsAssumption
<1>6. Begun'
  BY <1>1, <1>2 DEF Begun
<1>7. /\ sum[t] <= I + Delta(done[t])
      /\ sum[t] >= (IF done[t] < Iterations THEN 1 ELSE 0) - D
  BY <1>2 DEF Racing
<1>8. Incs(done)' = Incs(done') /\ Decs(done)' = Decs(done')
  BY DEF Incs, Decs
<1>9. \A u \in Threads \ {t} : pc'[u] = pc[u] /\ done'[u] = done[u]
  BY <1>1, <1>2
<1>10. sum[t] \in Int /\ done[t] \in Nat
  BY <1>1
<1> HIDE DEF I, D, J, E
<1>11. sum[t] <= J /\ sum[t] >= 1 - E
  BY <1>3, <1>4, <1>7, <1>10, IterationsAssumption DEF Delta
<1>12. ASSUME NEW u \in Threads, pc'[u] = "write"
       PROVE  /\ sum'[u] <= J + Delta(done'[u])
              /\ sum'[u] >= (IF done'[u] < Iterations THEN 1 ELSE 0) - E
  <2>1. u # t /\ pc[u] = "write" /\ done'[u] = done[u] /\ sum'[u] = sum[u]
    BY <1>1, <1>2, <1>9, <1>12
  <2>2. /\ sum[u] <= I + Delta(done[u])
        /\ sum[u] >= (IF done[u] < Iterations THEN 1 ELSE 0) - D
    BY <2>1 DEF Racing, I, D
  <2>3. sum[u] \in Int /\ Delta(done[u]) \in Int
    BY <1>1, DeltaInt
  <2>4. sum[u] <= J + Delta(done[u])
    BY <1>4, <1>5, <2>2, <2>3
  <2>5. sum[u] >= (IF done[u] < Iterations THEN 1 ELSE 0) - E
    BY <1>4, <1>5, <2>2, <2>3
  <2> QED BY <2>1, <2>4, <2>5
<1> QED BY <1>2, <1>6, <1>8, <1>11, <1>12 DEF Racing, J, E

LEMMA RacingStep ==
  ASSUME Inv, Racing, [Next]_vars, Iterations >= 1
  PROVE  Racing'
<1>1. ASSUME NEW t \in Threads, Acquire(t) \/ Release(t) \/ ReadOrig(t) \/ Swap(t)
      PROVE  Racing'
  <2>1. UNCHANGED sync /\ sync # "none"
    BY <1>1 DEF Acquire, Release, ReadOrig, Swap, Goto, Locking, Inv, Pending
  <2> QED BY <2>1 DEF Racing
<1>2. CASE UNCHANGED vars
  BY <1>2 DEF vars, Racing, Begun, Incs, Decs
<1> QED BY <1>1, <1>2, RacingRead, RacingWrite DEF Next, Step, Exited

LEMMA InitRacing == Init => Racing
<1> SUFFICES ASSUME Init PROVE Racing
  OBVIOUS
<1>1. done \in [Threads -> 0 .. Operations] /\ (\A t \in Threads : done[t] = 0)
  BY OperationsNat DEF Init
<1>2. Cardinality(Incs(done)) \in Nat /\ ~Begun
  BY <1>1, CountsOrdered DEF Begun
<1> QED BY <1>1, <1>2 DEF Init, Racing

(* Without --sync too, no schedule pushes the counter past Total, nor down *)
(* to -Total.                                                              *)
THEOREM RacesAreBounded ==
  ASSUME CountFits, Iterations >= 1, Threads # {}
  PROVE  Spec => []RaceBounded
<1>1. Inv /\ Racing /\ [Next]_vars => Racing'
  BY RacingStep
<1>2. Inv /\ Racing /\ Counted => RaceBounded
  <2> SUFFICES ASSUME Inv, Racing, Counted PROVE counter \in 1-Total .. Total
    BY DEF RaceBounded, Total
  <2> DEFINE I == Cardinality(Incs(done))
             D == Cardinality(Decs(done))
  <2>1. done \in [Threads -> 0 .. Operations] /\ counter \in Int
    BY DEF Inv, TypeOK
  <2>2. I \in Nat /\ D \in Nat /\ Total \in Nat /\ D <= I /\ I <= Total
    BY <2>1, CountsOrdered
  <2>3. Total >= 1
    <3>1. Cardinality(Threads) \in Nat /\ Cardinality(Threads) # 0
      BY ThreadsAssumption, FS_CardinalityType, FS_EmptySet
    <3>2. \A m, n \in Nat : m # 0 /\ n >= 1 => m * n >= 1
      OBVIOUS
    <3> QED BY <3>1, <3>2, IterationsAssumption DEF Total
  <2>4. CASE sync = "none"
    <3>1. counter <= I /\ counter >= (IF Begun THEN 1 - D ELSE 0)
      BY <2>4 DEF Racing
    <3> QED BY <2>1, <2>2, <2>3, <3>1
  <2>5. CASE sync # "none"
    <3>1. counter = I - D
      BY <2>5 DEF Counted
    <3> QED BY <2>1, <2>2, <2>3, <3>1
  <2> QED BY <2>4, <2>5
<1> QED BY <1>1, <1>2, InitRacing, CountInvariant, Inductive, PTL DEF Spec
=============================================================================
