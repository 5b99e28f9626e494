-------------------------- MODULE SortedListProofs --------------------------
(***************************************************************************)
(* Proofs about sltest.c under its locks, for any number of threads,       *)
(* elements and lists and for every hash function: pointer by pointer, the *)
(* lists stay sound, the checks of SortedList_delete() pass, the length is *)
(* that of one moment, and the lists implement the atomic ones of          *)
(* ListPool.                                                               *)
(***************************************************************************)
EXTENDS SortedList, FiniteSetTheorems, WellFoundedInduction, TLAPS

Stages == Inserting \cup Measuring \cup Deleting

(* The stages between lock and unlock.                                     *)
Busy == {"first", "walk", "link", "linkback", "inserted",
         "lookup", "take", "deleteN", "deleteP", "checkN", "checkP",
         "cutN", "cutP", "clearN", "clearP", "deleted"}

Of(S, l) == {e \in S : ListOf[e] = l}
Before(S, m) == {e \in S : ListOf[e] < m}

LEMMA ElementFacts ==
  /\ IsFiniteSet(Elements) /\ Elements \subseteq Node /\ Heads \subseteq Node
  /\ \A l \in Lists : Head(l) \in Node /\ Head(l) \notin Elements
  /\ ListOf \in [Elements -> Lists] /\ Lists \subseteq Nat
  /\ \A x \in Node : x # Null /\ x \in Pointer
  /\ Null \notin Elements
<1>1. IsFiniteSet(0 .. Iterations-1)
  BY CountsAssumption, FS_Interval
<1>2. IsFiniteSet(Elements)
  BY <1>1, ThreadsAssumption, FS_Product DEF Elements
<1>3. \A l \in Lists : Head(l) \in Heads
  BY DEF Heads
<1>4. ListOf \in [Elements -> Lists]
  BY HashAssumption DEF ListOf
<1>5. Lists \subseteq Nat
  BY CountsAssumption DEF Lists
<1> QED BY <1>2, <1>3, <1>4, <1>5, PointersAssumption DEF Node, Pointer

LEMMA HeadsDiffer == \A l, m \in Lists : Head(l) = Head(m) => l = m
  BY DEF Head

(* What a thread has, by where it is.                                      *)
Bounded(t) ==
  /\ pc[t] \in Inserting \cup Deleting => i[t] <= Iterations
  /\ pc[t] \in Busy => i[t] < Iterations
  /\ pc[t] \in Measuring => i[t] < NLists
  /\ pc[t] = "unlocklen" => i[t] = 0

Typed ==
  /\ next \in [Node -> Pointer] /\ prev \in [Node -> Pointer]
  /\ lock \in [Lists -> Threads \cup {Free}] /\ lenLock \in Threads \cup {Free}
  /\ pc \in [Threads -> Stages] /\ i \in [Threads -> Nat]
  /\ n \in [Threads -> Pointer] /\ p \in [Threads -> Pointer]
  /\ target \in [Threads -> Pointer] /\ count \in [Threads -> Int]
  /\ \A t \in Threads : Bounded(t)

(* A thread between lock and unlock holds its list's lock, and one that    *)
(* measures holds all that it has taken and not yet given back.            *)
Locks ==
  \A t \in Threads :
    /\ pc[t] \in Busy => lock[MyList(t)] = t
    /\ pc[t] \in Measuring => lenLock = t
    /\ pc[t] = "lockall" => \A l \in Lists : l < i[t] => lock[l] = t
    /\ pc[t] \in {"list", "count"} => \A l \in Lists : lock[l] = t
    /\ pc[t] = "unlockall" => \A l \in Lists : i[t] <= l => lock[l] = t

LEMMA MineTyped ==
  ASSUME Typed, NEW t \in Threads, pc[t] \in Busy \/ (i[t] < Iterations)
  PROVE  /\ Mine(t) \in Elements /\ Mine(t) \in Node /\ MyList(t) \in Lists
         /\ MyHead(t) \in Node /\ MyHead(t) = Head(MyList(t))
         /\ i[t] \in Nat /\ Mine(t)[1] = t /\ Mine(t)[2] = i[t]
<1>1. i[t] \in Nat /\ i[t] < Iterations
  BY DEF Typed, Bounded
<1>2. i[t] \in 0 .. Iterations-1
  BY <1>1, CountsAssumption
<1>3. Mine(t) \in Elements /\ Mine(t)[1] = t /\ Mine(t)[2] = i[t]
  BY <1>2 DEF Mine, Elements
<1> QED BY <1>1, <1>3, ElementFacts DEF MyList, MyHead

(* A step changes what one thread has.                                     *)
Others(t) ==
  \A u \in Threads \ {t} :
    /\ pc'[u] = pc[u] /\ i'[u] = i[u] /\ n'[u] = n[u] /\ p'[u] = p[u]
    /\ target'[u] = target[u] /\ count'[u] = count[u]

LEMMA OthersKeep ==
  ASSUME Typed, NEW t \in Threads, Insert(t) \/ Length(t) \/ Delete(t) \/ Segfault(t)
  PROVE  Others(t)
<1> USE DEF Others, Typed, local, Goto
<1>1. CASE InsertBegins(t) \/ InsertWalks(t) \/ InsertPlaces(t) \/ InsertLinks(t)
  BY <1>1 DEF InsertBegins, InsertWalks, InsertPlaces, InsertLinks
<1>2. CASE PassEnds(t, "inserted", "insert") \/ PassEnds(t, "deleted", "turn")
  BY <1>2 DEF PassEnds
<1>3. CASE LengthBegins(t) \/ LengthLocks(t) \/ LengthSkips(t) \/ LengthEnters(t)
  BY <1>3 DEF LengthBegins, LengthLocks, LengthSkips, LengthEnters, NextList
<1>4. CASE LengthCounts(t) \/ LengthUnlocks(t) \/ LengthEnds(t)
  BY <1>4 DEF LengthCounts, LengthUnlocks, LengthEnds, NextList
<1>5. CASE TurnBegins(t) \/ LookupTests(t) \/ LookupMisses(t) \/ LookupTakes(t)
  BY <1>5 DEF TurnBegins, LookupTests, LookupMisses, LookupTakes
<1>6. CASE DeleteReads(t) \/ DeleteChecks(t) \/ DeleteUnlinks(t) \/ Segfault(t)
  BY <1>6 DEF DeleteReads, DeleteChecks, DeleteUnlinks, Segfault
<1> QED BY <1>1, <1>2, <1>3, <1>4, <1>5, <1>6 DEF Insert, Length, Delete

(* What a step leaves of the locks.                                        *)
SameLocks == UNCHANGED <<lock, lenLock>>

(* Where a thread that holds its list's lock may be after a step.          *)
Goes(t) ==
  /\ pc[t] \in Busy /\ pc'[t] \in Busy /\ i' = i
  /\ pc[t] \in Inserting <=> pc'[t] \in Inserting

LEMMA BusyGoes ==
  ASSUME Typed, Locks, NEW t \in Threads, Others(t), SameLocks, Goes(t),
         pc' \in [Threads -> Stages]
  PROVE  Locks' /\ (\A u \in Threads : Bounded(u)') /\ i' \in [Threads -> Nat]
<1>1. \A u \in Threads \ {t} : pc'[u] = pc[u] /\ i'[u] = i[u]
  BY DEF Others
<1>2. pc'[t] \in Busy /\ pc[t] \in Busy /\ i' = i /\ SameLocks
  BY DEF Goes
<1>3. pc'[t] \notin Measuring /\ pc'[t] # "unlocklen"
  BY <1>2 DEF Busy, Measuring
<1>4. \A u \in Threads : MyList(u)' = MyList(u)
  BY <1>2 DEF MyList, Mine
<1>5. Locks'
  <2> SUFFICES ASSUME NEW u \in Threads
               PROVE  /\ pc'[u] \in Busy => lock'[MyList(u)'] = u
                      /\ pc'[u] \in Measuring => lenLock' = u
                      /\ pc'[u] = "lockall" => \A l \in Lists : l < i'[u] => lock'[l] = u
                      /\ pc'[u] \in {"list", "count"} => \A l \in Lists : lock'[l] = u
                      /\ pc'[u] = "unlockall" => \A l \in Lists : i'[u] <= l => lock'[l] = u
    BY DEF Locks
  <2>1. CASE u = t
    BY <1>2, <1>3, <1>4, <2>1 DEF Locks, SameLocks, Measuring
  <2>2. CASE u # t
    BY <1>1, <1>2, <1>4, <2>2 DEF Locks, SameLocks
  <2> QED BY <2>1, <2>2
<1>6. \A u \in Threads : Bounded(u)'
  <2> SUFFICES ASSUME NEW u \in Threads PROVE Bounded(u)'
    OBVIOUS
  <2>1. CASE u = t
    <3>1. i[t] \in Nat /\ i[t] < Iterations /\ i[t] <= Iterations
      BY <1>2, CountsAssumption DEF Typed, Bounded
    <3> QED BY <1>2, <1>3, <2>1, <3>1 DEF Bounded
  <2>2. CASE u # t
    BY <1>1, <2>2 DEF Bounded, Typed
  <2> QED BY <2>1, <2>2
<1> QED BY <1>5, <1>6 DEF Goes, Typed

LEMMA BusySteps ==
  ASSUME Typed, Locks, NEW t \in Threads,
         pc[t] \in {"deleteN", "deleteP"} => target[t] \in Node,
         \/ InsertWalks(t) \/ InsertPlaces(t) \/ InsertLinks(t)
         \/ LookupTests(t) \/ LookupMisses(t) \/ LookupTakes(t)
         \/ DeleteReads(t) \/ DeleteChecks(t) \/ DeleteUnlinks(t)
  PROVE  Typed' /\ Locks' /\ Goes(t)
<1>1. Others(t)
  BY OthersKeep DEF Insert, Delete
<1> USE DEF Goto
<1>2. SameLocks /\ UNCHANGED <<i, count>>
  BY DEF InsertWalks, InsertPlaces, InsertLinks, LookupTests, LookupMisses, LookupTakes,
         DeleteReads, DeleteChecks, DeleteUnlinks, SameLocks, local
<1>3. pc' \in [Threads -> Stages] /\ pc[t] \in Busy /\ pc'[t] \in Busy
      /\ (pc[t] \in Inserting <=> pc'[t] \in Inserting)
  <2>1. CASE InsertWalks(t) \/ InsertPlaces(t) \/ InsertLinks(t)
    BY <2>1 DEF InsertWalks, InsertPlaces, InsertLinks, Typed, Stages, Inserting, Busy, Deleting
  <2>2. CASE LookupTests(t) \/ LookupMisses(t) \/ LookupTakes(t)
    BY <2>2 DEF LookupTests, LookupMisses, LookupTakes, Typed, Stages, Inserting, Busy, Deleting
  <2>3. CASE DeleteReads(t) \/ DeleteChecks(t) \/ DeleteUnlinks(t)
    BY <2>3 DEF DeleteReads, DeleteChecks, DeleteUnlinks, Typed, Stages, Inserting, Busy, Deleting
  <2> QED BY <2>1, <2>2, <2>3
<1>4. Goes(t)
  BY <1>2, <1>3 DEF Goes
<1>5. Locks' /\ (\A u \in Threads : Bounded(u)') /\ i' \in [Threads -> Nat]
  BY <1>1, <1>2, <1>3, <1>4, BusyGoes
<1>6. Mine(t) \in Node /\ MyHead(t) \in Node /\ Mine(t) \in Pointer
  BY <1>3, MineTyped, ElementFacts
<1>7. /\ next \in [Node -> Pointer] /\ prev \in [Node -> Pointer]
      /\ n \in [Threads -> Pointer] /\ p \in [Threads -> Pointer]
      /\ target \in [Threads -> Pointer] /\ Null \in Pointer
      /\ n[t] # Null => n[t] \in Node
  BY DEF Typed, Pointer
<1>8. next' \in [Node -> Pointer] /\ prev' \in [Node -> Pointer]
  <2>1. CASE InsertPlaces(t)
    BY <1>6, <1>7, <2>1 DEF InsertPlaces
  <2>2. CASE InsertLinks(t)
    BY <1>6, <1>7, <2>2 DEF InsertLinks
  <2>3. CASE DeleteUnlinks(t)
    BY <1>6, <1>7, <2>3 DEF DeleteUnlinks
  <2>4. CASE InsertWalks(t) \/ LookupTests(t) \/ LookupMisses(t) \/ LookupTakes(t)
             \/ DeleteReads(t) \/ DeleteChecks(t)
    BY <1>7, <2>4 DEF InsertWalks, LookupTests, LookupMisses, LookupTakes, DeleteReads,
                      DeleteChecks, shape
  <2> QED BY <2>1, <2>2, <2>3, <2>4
<1>9. n' \in [Threads -> Pointer] /\ p' \in [Threads -> Pointer] /\ target' \in [Threads -> Pointer]
  <2>1. CASE InsertWalks(t) \/ InsertPlaces(t) \/ LookupTakes(t)
    BY <1>6, <1>7, <2>1 DEF InsertWalks, InsertPlaces, LookupTakes
  <2>2. CASE DeleteReads(t)
    BY <1>7, <2>2 DEF DeleteReads
  <2>3. CASE InsertLinks(t) \/ LookupTests(t) \/ LookupMisses(t) \/ DeleteChecks(t)
             \/ DeleteUnlinks(t)
    BY <1>7, <2>3 DEF InsertLinks, LookupTests, LookupMisses, DeleteChecks, DeleteUnlinks, local
  <2> QED BY <2>1, <2>2, <2>3
<1> QED BY <1>2, <1>3, <1>4, <1>5, <1>8, <1>9 DEF Typed, SameLocks

(* Into a list, and out of it.                                             *)
LEMMA EntryExitSteps ==
  ASSUME Typed, Locks, NEW t \in Threads, Locking,
         \/ InsertBegins(t) \/ TurnBegins(t)
         \/ PassEnds(t, "inserted", "insert") \/ PassEnds(t, "deleted", "turn")
  PROVE  Typed' /\ Locks'
<1> USE DEF Goto
<1>1. \A u \in Threads \ {t} : pc'[u] = pc[u] /\ i'[u] = i[u] /\ MyList(u)' = MyList(u)
  BY OthersKeep DEF Insert, Delete, Others, MyList, Mine
<1>2. UNCHANGED <<shape, lenLock, n, p, target, count>>
  BY DEF InsertBegins, TurnBegins, PassEnds, local
<1>3. i[t] \in Nat /\ i[t] < Iterations /\ MyList(t) \in Lists /\ i[t] + 1 <= Iterations
  <2>1. i[t] < Iterations
    BY DEF InsertBegins, TurnBegins, PassEnds, Typed, Bounded, Busy
  <2> QED BY <2>1, MineTyped, CountsAssumption
<1>4. ASSUME InsertBegins(t) \/ TurnBegins(t)
      PROVE  /\ pc' \in [Threads -> Stages] /\ pc'[t] \in {"first", "lookup"} /\ i' = i
             /\ lock[MyList(t)] = Free /\ lock' = [lock EXCEPT ![MyList(t)] = t]
  BY <1>4 DEF InsertBegins, TurnBegins, Take, Typed, Stages, Inserting, Deleting, local
<1>5. ASSUME PassEnds(t, "inserted", "insert") \/ PassEnds(t, "deleted", "turn")
      PROVE  /\ pc' \in [Threads -> Stages] /\ pc'[t] \in {"insert", "turn"}
             /\ i' \in [Threads -> Nat] /\ i'[t] = i[t] + 1
             /\ lock[MyList(t)] = t /\ lock' = [lock EXCEPT ![MyList(t)] = Free]
  <2>1. pc[t] \in Busy
    BY <1>5 DEF PassEnds, Busy
  <2> QED BY <1>3, <1>5, <2>1 DEF PassEnds, Release, Typed, Stages, Inserting, Deleting, Locks
<1>6. /\ pc' \in [Threads -> Stages] /\ i' \in [Threads -> Nat]
      /\ lock' \in [Lists -> Threads \cup {Free}]
  BY <1>3, <1>4, <1>5 DEF Typed
<1>7. \A u \in Threads : Bounded(u)'
  <2> SUFFICES ASSUME NEW u \in Threads PROVE Bounded(u)'
    OBVIOUS
  <2>1. CASE u # t
    BY <1>1, <2>1 DEF Typed, Bounded
  <2>2. CASE u = t /\ (InsertBegins(t) \/ TurnBegins(t))
    <3>1. pc'[t] \in Busy /\ pc'[t] \notin Measuring
      BY <1>4, <2>2 DEF Busy, Measuring
    <3>2. i[t] <= Iterations
      BY <1>3, CountsAssumption
    <3> QED BY <1>3, <1>4, <2>2, <3>1, <3>2 DEF Bounded
  <2>3. CASE u = t /\ (PassEnds(t, "inserted", "insert") \/ PassEnds(t, "deleted", "turn"))
    <3>1. pc'[t] \notin Busy /\ pc'[t] \notin Measuring
      BY <1>5, <2>3 DEF Busy, Measuring
    <3> QED BY <1>3, <1>5, <2>3, <3>1 DEF Bounded
  <2> QED BY <2>1, <2>2, <2>3
<1>8. \A l \in Lists : \A u \in Threads \ {t} : lock[l] = u => lock'[l] = u
  BY <1>3, <1>4, <1>5, ThreadsAssumption DEF Typed
<1>9. Locks'
  <2> SUFFICES ASSUME NEW u \in Threads
               PROVE  /\ pc'[u] \in Busy => lock'[MyList(u)'] = u
                      /\ pc'[u] \in Measuring => lenLock' = u
                      /\ pc'[u] = "lockall" => \A l \in Lists : l < i'[u] => lock'[l] = u
                      /\ pc'[u] \in {"list", "count"} => \A l \in Lists : lock'[l] = u
                      /\ pc'[u] = "unlockall" => \A l \in Lists : i'[u] <= l => lock'[l] = u
    BY DEF Locks
  <2>1. CASE u # t
    <3>1. pc[u] \in Busy => MyList(u) \in Lists
      BY MineTyped
    <3> QED BY <1>1, <1>2, <1>8, <2>1, <3>1 DEF Locks
  <2>2. CASE u = t /\ (InsertBegins(t) \/ TurnBegins(t))
    <3>1. MyList(t)' = MyList(t)
      BY <1>4, <2>2 DEF MyList, Mine
    <3>2. lock'[MyList(t)] = t
      BY <1>3, <1>4, <2>2 DEF Typed
    <3>3. pc'[t] \notin Measuring /\ pc'[t] \notin {"lockall", "list", "count", "unlockall"}
      BY <1>4, <2>2 DEF Measuring
    <3> QED BY <2>2, <3>1, <3>2, <3>3
  <2>3. CASE u = t /\ (PassEnds(t, "inserted", "insert") \/ PassEnds(t, "deleted", "turn"))
    <3>1. /\ pc'[t] \notin Busy /\ pc'[t] \notin Measuring
          /\ pc'[t] \notin {"lockall", "list", "count", "unlockall"}
      BY <1>5, <2>3 DEF Busy, Measuring
    <3> QED BY <2>3, <3>1
  <2> QED BY <2>1, <2>2, <2>3
<1> QED BY <1>2, <1>6, <1>7, <1>9 DEF Typed, shape

(* What the locks are for: on a thread's list there is no other.           *)
LEMMA Alone ==
  ASSUME Typed, Locks, NEW t \in Threads, pc[t] \in Busy, NEW u \in Threads, u # t
  PROVE  /\ pc[u] \in Busy => MyList(u) # MyList(t)
         /\ pc[u] \notin {"list", "count"}
         /\ pc[u] = "unlockall" => i[u] > MyList(t)
<1>1. lock[MyList(t)] = t /\ MyList(t) \in Lists
  BY MineTyped DEF Locks
<1>2. pc[u] \in Busy => lock[MyList(u)] = u
  BY DEF Locks
<1>3. pc[u] \in {"list", "count"} => lock[MyList(t)] = u
  BY <1>1 DEF Locks
<1>4. pc[u] = "unlockall" /\ i[u] <= MyList(t) => lock[MyList(t)] = u
  BY <1>1 DEF Locks
<1>5. MyList(t) \in Nat /\ i[u] \in Nat
  BY <1>1, ElementFacts DEF Typed
<1> QED BY <1>1, <1>2, <1>3, <1>4, <1>5

(* The loops over all lists.                                               *)
LEMMA LengthSteps ==
  ASSUME Typed, Locks, NEW t \in Threads, Locking, Length(t)
  PROVE  Typed' /\ Locks'
<1> USE DEF Goto
<1>1. \A u \in Threads \ {t} : pc'[u] = pc[u] /\ i'[u] = i[u] /\ MyList(u)' = MyList(u)
  BY OthersKeep DEF Others, MyList, Mine
<1>2. UNCHANGED <<shape, p, target>>
  BY DEF Length, LengthBegins, LengthLocks, LengthSkips, LengthEnters, LengthCounts,
         LengthUnlocks, LengthEnds, local
<1>3. NLists \in Nat /\ NLists > 0 /\ 0 \in Nat /\ Lists = 0 .. NLists-1 /\ Iterations \in Nat
      /\ i \in [Threads -> Nat] /\ i[t] \in Nat
  BY CountsAssumption DEF Lists, Typed
<1>4. pc[t] \in Measuring => i[t] < NLists /\ i[t] \in Lists
  BY <1>3 DEF Typed, Bounded
<1>5. AfterLength = "unlockall"
  BY DEF AfterLength
<1>6. /\ \A u \in Threads : u # Free
      /\ lenLock \in Threads \cup {Free} /\ lock \in [Lists -> Threads \cup {Free}]
  BY ThreadsAssumption DEF Typed
<1> DEFINE Kept == \A l \in Lists : \A u \in Threads \ {t} : lock[l] = u => lock'[l] = u
           Mid == /\ pc' \in [Threads -> Stages] /\ i' \in [Threads -> Nat]
                  /\ lock' \in [Lists -> Threads \cup {Free}] /\ Kept
                  /\ \A u \in Threads \ {t} : lenLock = u => lenLock' = u
                  /\ lenLock' \in Threads \cup {Free}
                  /\ pc'[t] \in Measuring => lenLock' = t /\ i'[t] < NLists
                  /\ pc'[t] = "unlocklen" => i'[t] = 0
                  /\ pc'[t] \in Measuring \/ (pc'[t] = "turn" /\ i'[t] = 0)
                  /\ pc'[t] = "lockall" => \A l \in Lists : l < i'[t] => lock'[l] = t
                  /\ pc'[t] \in {"list", "count"} => \A l \in Lists : lock'[l] = t
                  /\ pc'[t] = "unlockall" => \A l \in Lists : i'[t] <= l => lock'[l] = t
<1>7. Mid
  <2>1. CASE LengthBegins(t)
    BY <1>3, <1>6, <2>1 DEF LengthBegins, Typed, Stages, Measuring
  <2>2. CASE LengthLocks(t)
    <3>1. /\ pc[t] = "lockall" /\ lock[i[t]] = Free /\ lock' = [lock EXCEPT ![i[t]] = t]
          /\ lenLock' = lenLock /\ lenLock = t
      BY <2>2 DEF LengthLocks, NextList, Take, Locks, Measuring
    <3>2. i[t] \in Lists /\ pc[t] \in Measuring
      BY <1>4, <3>1 DEF Measuring
    <3>3. lock' \in [Lists -> Threads \cup {Free}] /\ Kept
      BY <1>6, <3>1, <3>2
    <3>4. \A l \in Lists : l <= i[t] => lock'[l] = t
      BY <1>3, <1>6, <3>1, <3>2 DEF Locks
    <3>5. CASE i[t] + 1 < NLists
      <4>1. pc' = [pc EXCEPT ![t] = "lockall"] /\ i' = [i EXCEPT ![t] = @ + 1]
        BY <2>2, <3>5 DEF LengthLocks, NextList
      <4>2. \A l \in Lists : l < i'[t] => l <= i[t]
        BY <1>3, <4>1
      <4> QED BY <1>3, <1>6, <3>1, <3>3, <3>4, <3>5, <4>1, <4>2 DEF Typed, Stages, Measuring
    <3>6. CASE ~(i[t] + 1 < NLists)
      <4>1. pc' = [pc EXCEPT ![t] = "list"] /\ i' = [i EXCEPT ![t] = 0]
        BY <2>2, <3>6 DEF LengthLocks, NextList
      <4>2. \A l \in Lists : l <= i[t]
        BY <1>3, <3>6
      <4> QED BY <1>3, <1>6, <3>1, <3>3, <3>4, <4>1, <4>2 DEF Typed, Stages, Measuring
    <3> QED BY <3>5, <3>6
  <2>3. CASE LengthSkips(t) \/ LengthEnters(t) \/ LengthCounts(t)
    <3>1. pc[t] \in {"list", "count"} /\ pc[t] \in Measuring /\ lock' = lock /\ lenLock' = lenLock
      BY <2>3 DEF LengthSkips, LengthEnters, LengthCounts, NextList, Measuring
    <3>2. lenLock = t /\ \A l \in Lists : lock[l] = t
      BY <3>1 DEF Locks
    <3>3. \/ \E q \in {"list", "count"} : pc' = [pc EXCEPT ![t] = q] /\ i' = i
          \/ i[t] + 1 < NLists /\ pc' = [pc EXCEPT ![t] = "list"] /\ i' = [i EXCEPT ![t] = @ + 1]
          \/ pc' = [pc EXCEPT ![t] = "unlockall"] /\ i' = [i EXCEPT ![t] = 0]
      BY <1>5, <2>3 DEF LengthSkips, LengthEnters, LengthCounts, NextList
    <3>4. pc' \in [Threads -> Stages] /\ pc'[t] \in {"list", "count", "unlockall"}
      BY <3>3 DEF Typed, Stages, Measuring
    <3>5. i' \in [Threads -> Nat] /\ i'[t] < NLists
      <4>1. i[t] < NLists
        BY <1>4, <3>1
      <4> QED BY <1>3, <3>3, <4>1
    <3> QED BY <1>6, <3>1, <3>2, <3>4, <3>5 DEF Measuring
  <2>4. CASE LengthUnlocks(t)
    <3>1. /\ pc[t] = "unlockall" /\ lock' = [lock EXCEPT ![i[t]] = Free]
          /\ lenLock' = lenLock /\ lenLock = t
      BY <2>4 DEF LengthUnlocks, NextList, Release, Locks, Measuring
    <3>2. i[t] \in Lists /\ lock[i[t]] = t
      <4>1. pc[t] \in Measuring
        BY <3>1 DEF Measuring
      <4> QED BY <1>3, <1>4, <3>1, <4>1 DEF Locks
    <3>3. lock' \in [Lists -> Threads \cup {Free}] /\ Kept
      BY <1>6, <3>1, <3>2
    <3>4. \A l \in Lists : i[t] < l => lock'[l] = t
      BY <1>3, <3>1 DEF Locks, Typed
    <3>5. CASE i[t] + 1 < NLists
      <4>1. pc' = [pc EXCEPT ![t] = "unlockall"] /\ i' = [i EXCEPT ![t] = @ + 1]
        BY <2>4, <3>5 DEF LengthUnlocks, NextList
      <4>2. \A l \in Lists : i'[t] <= l => i[t] < l
        BY <1>3, <4>1
      <4> QED BY <1>3, <1>6, <3>1, <3>3, <3>4, <3>5, <4>1, <4>2 DEF Typed, Stages, Measuring
    <3>6. CASE ~(i[t] + 1 < NLists)
      <4>1. pc' = [pc EXCEPT ![t] = "unlocklen"] /\ i' = [i EXCEPT ![t] = 0]
        BY <2>4, <3>6 DEF LengthUnlocks, NextList
      <4> QED BY <1>3, <1>6, <3>1, <3>3, <4>1 DEF Typed, Stages, Measuring
    <3> QED BY <3>5, <3>6
  <2>5. CASE LengthEnds(t)
    <3>1. pc[t] = "unlocklen" /\ lenLock = t /\ i[t] = 0
      BY <2>5 DEF LengthEnds, Locks, Measuring, Typed, Bounded
    <3> QED BY <1>3, <1>6, <2>5, <3>1 DEF LengthEnds, Typed, Stages, Measuring, Deleting, local
  <2> QED BY <2>1, <2>2, <2>3, <2>4, <2>5 DEF Length
<1>8. \A u \in Threads : Bounded(u)'
  <2> SUFFICES ASSUME NEW u \in Threads PROVE Bounded(u)'
    OBVIOUS
  <2>1. CASE u # t
    BY <1>1, <2>1 DEF Typed, Bounded
  <2>2. CASE u = t
    <3>1. pc'[t] \notin Busy /\ (pc'[t] \in Inserting \cup Deleting => i'[t] = 0)
      BY <1>7 DEF Measuring, Busy, Inserting, Deleting
    <3> QED BY <1>3, <1>7, <2>2, <3>1 DEF Bounded
  <2> QED BY <2>1, <2>2
<1>9. Locks'
  <2> SUFFICES ASSUME NEW u \in Threads
               PROVE  /\ pc'[u] \in Busy => lock'[MyList(u)'] = u
                      /\ pc'[u] \in Measuring => lenLock' = u
                      /\ pc'[u] = "lockall" => \A l \in Lists : l < i'[u] => lock'[l] = u
                      /\ pc'[u] \in {"list", "count"} => \A l \in Lists : lock'[l] = u
                      /\ pc'[u] = "unlockall" => \A l \in Lists : i'[u] <= l => lock'[l] = u
    BY DEF Locks
  <2>1. CASE u # t
    <3>1. pc[u] \in Busy => MyList(u) \in Lists
      BY MineTyped
    <3> QED BY <1>1, <1>7, <2>1, <3>1 DEF Locks
  <2>2. CASE u = t
    <3>1. pc'[t] \notin Busy
      BY <1>7 DEF Measuring, Busy
    <3> QED BY <1>7, <2>2, <3>1
  <2> QED BY <2>1, <2>2
<1>10. n' \in [Threads -> Pointer] /\ count' \in [Threads -> Int]
  <2>1. n \in [Threads -> Pointer] /\ count \in [Threads -> Int] /\ next \in [Node -> Pointer]
    BY DEF Typed
  <2>2. CASE LengthCounts(t)
    <3>1. n[t] \in Node /\ Counted(t) \in Int
      BY <2>1, <2>2 DEF LengthCounts, Pointer, Counted
    <3> QED BY <2>1, <2>2, <3>1 DEF LengthCounts
  <2>3. CASE LengthEnters(t)
    <3>1. Head(i[t]) \in Pointer
      BY <1>4, <2>3, ElementFacts DEF LengthEnters, Measuring
    <3> QED BY <2>1, <2>3, <3>1 DEF LengthEnters
  <2>4. CASE LengthBegins(t)
    BY <2>1, <2>4 DEF LengthBegins
  <2>5. CASE LengthLocks(t) \/ LengthSkips(t) \/ LengthUnlocks(t) \/ LengthEnds(t)
    BY <2>1, <2>5 DEF LengthLocks, LengthSkips, LengthUnlocks, LengthEnds, local
  <2> QED BY <2>2, <2>3, <2>4, <2>5 DEF Length
<1> QED BY <1>2, <1>7, <1>8, <1>9, <1>10 DEF Typed, shape

-----------------------------------------------------------------------------
(* Which elements are in and which are served, thread by thread.           *)

HasIn(q, m, j) ==
  q \in Inserting => m > j \/ (m = j /\ q \in {"linkback", "inserted"})
HasOut(q, m, j) ==
  q \in Deleting /\ (m > j \/ (m = j /\ q \in {"clearN", "clearP", "deleted"}))

LEMMA Membership ==
  /\ Inserted \subseteq Elements /\ Served \subseteq Inserted
  /\ \A e \in Elements : /\ e \in Inserted <=> HasIn(pc[e[1]], i[e[1]], e[2])
                         /\ e \in Served <=> HasOut(pc[e[1]], i[e[1]], e[2])
BY DEF Inserted, Served, PassedBy, HasIn, HasOut, Inserting, Deleting

LEMMA SetsSame ==
  ASSUME NEW t \in Threads, Others(t),
         \A j \in 0 .. Iterations-1 :
           /\ HasIn(pc[t], i[t], j) <=> HasIn(pc'[t], i'[t], j)
           /\ HasOut(pc[t], i[t], j) <=> HasOut(pc'[t], i'[t], j)
  PROVE  Inserted' = Inserted /\ Served' = Served
<1>1. \A e \in Elements : e[1] \in Threads /\ e[2] \in 0 .. Iterations-1
  BY DEF Elements
<1>2. /\ Inserted' \subseteq Elements /\ Served' \subseteq Elements
      /\ \A e \in Elements : /\ e \in Inserted' <=> HasIn(pc'[e[1]], i'[e[1]], e[2])
                             /\ e \in Served' <=> HasOut(pc'[e[1]], i'[e[1]], e[2])
  BY DEF Inserted, Served, PassedBy, HasIn, HasOut
<1>3. ASSUME NEW e \in Elements
      PROVE (e \in Inserted' <=> e \in Inserted) /\ (e \in Served' <=> e \in Served)
  <2>1. CASE e[1] = t
    BY <1>1, <1>2, <2>1, Membership
  <2>2. CASE e[1] # t
    <3>1. pc'[e[1]] = pc[e[1]] /\ i'[e[1]] = i[e[1]]
      BY <1>1, <2>2 DEF Others
    <3> QED BY <1>2, <3>1, Membership
  <2> QED BY <2>1, <2>2
<1> QED BY <1>2, <1>3, Membership

LEMMA InsertedGrows ==
  ASSUME Typed, NEW t \in Threads, Others(t), pc[t] = "link", pc'[t] = "linkback", i' = i
  PROVE  /\ Mine(t) \in Elements \ Inserted /\ Inserted' = Inserted \cup {Mine(t)}
         /\ Served' = Served
<1>1. Mine(t) \in Elements /\ Mine(t)[1] = t /\ Mine(t)[2] = i[t] /\ i[t] \in Nat
  BY MineTyped DEF Busy
<1>2. \A e \in Elements : /\ e[1] \in Threads /\ e[2] \in Nat
                          /\ e[1] = t /\ e[2] = i[t] => e = Mine(t)
  BY CountsAssumption DEF Elements, Mine
<1>3. /\ Inserted' \subseteq Elements /\ Served' \subseteq Elements
      /\ \A e \in Elements : /\ e \in Inserted' <=> HasIn(pc'[e[1]], i'[e[1]], e[2])
                             /\ e \in Served' <=> HasOut(pc'[e[1]], i'[e[1]], e[2])
  BY DEF Inserted, Served, PassedBy, HasIn, HasOut
<1>4. Mine(t) \notin Inserted
  BY <1>1, Membership DEF HasIn, Inserting
<1>5. ASSUME NEW e \in Elements
      PROVE  /\ e \in Inserted' <=> (e \in Inserted \/ e = Mine(t))
             /\ e \in Served' <=> e \in Served
  <2>1. CASE e[1] = t
    BY <1>1, <1>2, <1>3, <2>1, Membership DEF HasIn, HasOut, Inserting, Deleting
  <2>2. CASE e[1] # t
    <3>1. pc'[e[1]] = pc[e[1]] /\ i'[e[1]] = i[e[1]] /\ e # Mine(t)
      BY <1>1, <1>2, <2>2 DEF Others
    <3> QED BY <1>3, <3>1, Membership
  <2> QED BY <2>1, <2>2
<1> QED BY <1>1, <1>3, <1>4, <1>5, Membership

LEMMA ServedGrows ==
  ASSUME Typed, NEW t \in Threads, Others(t), pc[t] = "cutP", pc'[t] = "clearN", i' = i
  PROVE  /\ Mine(t) \in Inserted \ Served /\ Served' = Served \cup {Mine(t)}
         /\ Inserted' = Inserted
<1>1. Mine(t) \in Elements /\ Mine(t)[1] = t /\ Mine(t)[2] = i[t] /\ i[t] \in Nat
  BY MineTyped DEF Busy
<1>2. \A e \in Elements : /\ e[1] \in Threads /\ e[2] \in Nat
                          /\ e[1] = t /\ e[2] = i[t] => e = Mine(t)
  BY CountsAssumption DEF Elements, Mine
<1>3. /\ Inserted' \subseteq Elements /\ Served' \subseteq Elements
      /\ \A e \in Elements : /\ e \in Inserted' <=> HasIn(pc'[e[1]], i'[e[1]], e[2])
                             /\ e \in Served' <=> HasOut(pc'[e[1]], i'[e[1]], e[2])
  BY DEF Inserted, Served, PassedBy, HasIn, HasOut
<1>4. Mine(t) \in Inserted \ Served
  BY <1>1, Membership DEF HasIn, HasOut, Inserting
<1>5. ASSUME NEW e \in Elements
      PROVE  /\ e \in Served' <=> (e \in Served \/ e = Mine(t))
             /\ e \in Inserted' <=> e \in Inserted
  <2>1. CASE e[1] = t
    BY <1>1, <1>2, <1>3, <2>1, Membership DEF HasIn, HasOut, Inserting, Deleting
  <2>2. CASE e[1] # t
    <3>1. pc'[e[1]] = pc[e[1]] /\ i'[e[1]] = i[e[1]] /\ e # Mine(t)
      BY <1>1, <1>2, <2>2 DEF Others
    <3> QED BY <1>3, <3>1, Membership
  <2> QED BY <2>1, <2>2
<1> QED BY <1>1, <1>3, <1>4, <1>5, Membership

LEMMA QuietSets ==
  ASSUME Typed, NEW t \in Threads, Others(t),
         \/ /\ pc[t] \in Inserting /\ pc'[t] \in Inserting /\ i' = i
            /\ pc[t] \in {"linkback", "inserted"} <=> pc'[t] \in {"linkback", "inserted"}
         \/ /\ pc[t] \in Deleting /\ pc'[t] \in Deleting /\ i' = i
            /\ pc[t] \in {"clearN", "clearP", "deleted"} <=>
                 pc'[t] \in {"clearN", "clearP", "deleted"}
         \/ /\ <<pc[t], pc'[t]>> \in {<<"inserted", "insert">>, <<"deleted", "turn">>}
            /\ i'[t] = i[t] + 1
         \/ pc[t] = "insert" /\ i[t] = Iterations /\ pc'[t] \in Measuring
         \/ pc[t] \in Measuring /\ (pc'[t] \in Measuring \/ (pc'[t] = "turn" /\ i'[t] = 0))
  PROVE  Inserted' = Inserted /\ Served' = Served
<1>1. i[t] \in Nat /\ Iterations \in Nat
  BY CountsAssumption DEF Typed
<1>2. ASSUME NEW j \in 0 .. Iterations-1
      PROVE  /\ HasIn(pc[t], i[t], j) <=> HasIn(pc'[t], i'[t], j)
             /\ HasOut(pc[t], i[t], j) <=> HasOut(pc'[t], i'[t], j)
  <2>1. j \in Nat /\ j < Iterations
    BY <1>1
  <2>2. CASE i' = i
    <3>1. CASE pc[t] \in Inserting /\ pc'[t] \in Inserting
               /\ (pc[t] \in {"linkback", "inserted"} <=> pc'[t] \in {"linkback", "inserted"})
      BY <2>2, <3>1 DEF HasIn, HasOut, Inserting, Deleting
    <3>2. CASE pc[t] \in Deleting /\ pc'[t] \in Deleting
               /\ (pc[t] \in {"clearN", "clearP", "deleted"} <=>
                     pc'[t] \in {"clearN", "clearP", "deleted"})
      BY <2>2, <3>2 DEF HasIn, HasOut, Inserting, Deleting
    <3>3. CASE pc[t] = "insert" /\ i[t] = Iterations /\ pc'[t] \in Measuring
      BY <2>1, <3>3 DEF HasIn, HasOut, Inserting, Deleting, Measuring
    <3>4. CASE pc[t] \in Measuring /\ (pc'[t] \in Measuring \/ (pc'[t] = "turn" /\ i'[t] = 0))
      BY <2>1, <3>4 DEF HasIn, HasOut, Inserting, Deleting, Measuring
    <3>5. CASE <<pc[t], pc'[t]>> \in {<<"inserted", "insert">>, <<"deleted", "turn">>}
               /\ i'[t] = i[t] + 1
      BY <1>1, <2>2, <3>5
    <3> QED BY <3>1, <3>2, <3>3, <3>4, <3>5
  <2>3. CASE pc[t] = "insert" /\ i[t] = Iterations /\ pc'[t] \in Measuring
    BY <2>1, <2>3 DEF HasIn, HasOut, Inserting, Deleting, Measuring
  <2>4. CASE pc[t] \in Measuring /\ (pc'[t] \in Measuring \/ (pc'[t] = "turn" /\ i'[t] = 0))
    BY <2>1, <2>4 DEF HasIn, HasOut, Inserting, Deleting, Measuring
  <2>5. CASE <<pc[t], pc'[t]>> = <<"inserted", "insert">> /\ i'[t] = i[t] + 1
    <3>1. pc[t] = "inserted" /\ pc'[t] = "insert" /\ (i[t] + 1 > j <=> i[t] > j \/ i[t] = j)
      BY <1>1, <2>1, <2>5
    <3> QED BY <2>5, <3>1 DEF HasIn, HasOut, Inserting, Deleting
  <2>6. CASE <<pc[t], pc'[t]>> = <<"deleted", "turn">> /\ i'[t] = i[t] + 1
    <3>1. pc[t] = "deleted" /\ pc'[t] = "turn" /\ (i[t] + 1 > j <=> i[t] > j \/ i[t] = j)
      BY <1>1, <2>1, <2>6
    <3> QED BY <2>6, <3>1 DEF HasIn, HasOut, Inserting, Deleting
  <2> QED BY <2>2, <2>3, <2>4, <2>5, <2>6
<1> QED BY <1>2, SetsSame

-----------------------------------------------------------------------------
(* Counting elements by the list they hash to.                             *)

LEMMA OfFinite ==
  ASSUME NEW S, S \subseteq Elements, NEW l
  PROVE  /\ IsFiniteSet(Of(S, l)) /\ Cardinality(Of(S, l)) \in Nat
         /\ IsFiniteSet(Before(S, l)) /\ Cardinality(Before(S, l)) \in Nat
<1>1. Of(S, l) \subseteq Elements /\ Before(S, l) \subseteq Elements
  BY DEF Of, Before
<1> QED BY <1>1, ElementFacts, FS_Subset, FS_CardinalityType

LEMMA OfGrows ==
  ASSUME NEW S, S \subseteq Elements, NEW e \in Elements, e \notin S, NEW l
  PROVE  /\ l = ListOf[e] => Cardinality(Of(S \cup {e}, l)) = Cardinality(Of(S, l)) + 1
         /\ l # ListOf[e] => Of(S \cup {e}, l) = Of(S, l)
<1>1. IsFiniteSet(Of(S, l)) /\ e \notin Of(S, l)
  BY OfFinite DEF Of
<1>2. l = ListOf[e] => Of(S \cup {e}, l) = Of(S, l) \cup {e}
  BY DEF Of
<1>3. l # ListOf[e] => Of(S \cup {e}, l) = Of(S, l)
  BY DEF Of
<1> QED BY <1>1, <1>2, <1>3, FS_AddElement

LEMMA MoreLeft ==
  ASSUME NEW S, NEW T, S \subseteq Elements, T \subseteq S,
         NEW e \in S, e \notin T, NEW l, l = ListOf[e]
  PROVE  Cardinality(Of(S, l)) > Cardinality(Of(T, l))
<1>1. IsFiniteSet(Of(S, l)) /\ Of(T, l) \subseteq Of(S, l) /\ e \in Of(S, l) /\ e \notin Of(T, l)
  BY OfFinite DEF Of
<1>2. Cardinality(Of(S, l)) \in Nat /\ Cardinality(Of(T, l)) \in Nat
  BY OfFinite
<1> QED BY <1>1, <1>2, FS_Subset

LEMMA BeforeNext ==
  ASSUME NEW S, S \subseteq Elements, NEW l \in Lists
  PROVE  Cardinality(Before(S, l + 1)) = Cardinality(Before(S, l)) + Cardinality(Of(S, l))
<1>1. ListOf \in [Elements -> Lists] /\ Lists \subseteq Nat
  BY ElementFacts
<1>2. ASSUME NEW e \in S PROVE ListOf[e] < l + 1 <=> ListOf[e] < l \/ ListOf[e] = l
  <2>1. ListOf[e] \in Nat /\ l \in Nat
    BY <1>1
  <2> QED BY <2>1
<1>3. Before(S, l + 1) = Before(S, l) \cup Of(S, l)
  BY <1>2 DEF Before, Of
<1>4. Before(S, l) \cap Of(S, l) = {}
  <2>1. ~(l < l)
    BY <1>1
  <2> QED BY <2>1 DEF Before, Of
<1>5. Cardinality({}) = 0
  BY FS_EmptySet
<1>6. /\ Cardinality(Before(S, l)) \in Nat /\ Cardinality(Of(S, l)) \in Nat
      /\ IsFiniteSet(Before(S, l)) /\ IsFiniteSet(Of(S, l))
  BY OfFinite
<1>7. ASSUME NEW A, NEW B, IsFiniteSet(A), IsFiniteSet(B), A \cap B = {},
             Cardinality(A) \in Nat, Cardinality(B) \in Nat
      PROVE  Cardinality(A \cup B) = Cardinality(A) + Cardinality(B)
  <2>1. Cardinality(A \cap B) = 0
    BY <1>5, <1>7, Zenon
  <2>2. Cardinality(A \cup B) = Cardinality(A) + Cardinality(B) - Cardinality(A \cap B)
    BY <1>7, FS_Union, Zenon
  <2> QED BY <1>7, <2>1, <2>2
<1>8. Cardinality(Before(S, l) \cup Of(S, l)) =
        Cardinality(Before(S, l)) + Cardinality(Of(S, l))
  BY <1>4, <1>6, <1>7
<1> QED BY <1>3, <1>8, Zenon

LEMMA BeforeEnds ==
  ASSUME NEW S, S \subseteq Elements
  PROVE  Cardinality(Before(S, 0)) = 0 /\ Before(S, NLists) = S
<1>1. \A e \in S : ListOf[e] \in Nat /\ ListOf[e] < NLists /\ ~(ListOf[e] < 0)
  BY ElementFacts, CountsAssumption DEF Lists
<1>2. Before(S, 0) = {} /\ Before(S, NLists) = S
  BY <1>1 DEF Before
<1> QED BY <1>2, FS_EmptySet

LEMMA BeforeMonotone ==
  ASSUME NEW S, S \subseteq Elements, NEW l
  PROVE  Cardinality(Before(S, l)) <= Cardinality(S) /\ Cardinality(S) <= Cardinality(Elements)
         /\ Cardinality(S) \in Nat /\ Cardinality(Elements) \in Nat
<1>1. Before(S, l) \subseteq S /\ IsFiniteSet(S)
  BY ElementFacts, FS_Subset DEF Before
<1> QED BY <1>1, ElementFacts, FS_Subset, FS_CardinalityType

-----------------------------------------------------------------------------
(* What a list is while it is being worked on: s elements, f[1] to f[s],   *)
(* between its head and its head again.  The way back along prev has a     *)
(* gap while an insertion or a deletion is between its two writes.         *)

Mending(l, x) ==
  \E t \in Threads : pc[t] \in {"linkback", "cutP"} /\ MyList(t) = l /\ n[t] = x

Left(l) == Cardinality(Of(Inserted, l)) - Cardinality(Of(Served, l))

Chain(l, s, f) ==
  /\ f[0] = Head(l) /\ f[s+1] = Head(l)
  /\ \A k \in 1 .. s : f[k] \in Inserted /\ ListOf[f[k]] = l
  /\ \A j, k \in 1 .. s : f[j] = f[k] => j = k
  /\ \A k \in 1 .. s-1 : Key[f[k]] <= Key[f[k+1]]
  /\ \A k \in 0 .. s : next[f[k]] = f[k+1]
  /\ \A k \in 0 .. s : prev[f[k+1]] = f[k] \/ Mending(l, f[k+1])
  /\ s = Left(l)

(* What the thread at work on the list has found of it.                    *)
Cutting == {"cutN", "cutP"}
Placed(t, s, f) ==
  /\ pc[t] = "walk" =>
       \E k \in 1 .. s+1 : n[t] = f[k] /\ (k > 1 => Key[f[k-1]] <= Key[Mine(t)])
  /\ pc[t] = "link" =>
       /\ next[Mine(t)] = n[t] /\ prev[Mine(t)] = p[t]
       /\ \E k \in 1 .. s+1 : /\ n[t] = f[k] /\ p[t] = f[k-1]
                              /\ k > 1 => Key[f[k-1]] <= Key[Mine(t)]
                              /\ k <= s => Key[Mine(t)] <= Key[f[k]]
  /\ pc[t] = "linkback" => \E k \in 1 .. s : f[k] = Mine(t) /\ n[t] = f[k+1]
  /\ pc[t] \in {"deleteN", "deleteP", "checkN", "checkP"} \cup Cutting =>
       s >= 1 /\ target[t] = f[1]
  /\ pc[t] \in {"deleteP", "checkN", "checkP"} \cup Cutting => n[t] = f[2]
  /\ pc[t] \in {"checkN", "checkP"} \cup Cutting => p[t] = f[0]
  /\ pc[t] = "cutP" => prev[n[t]] = p[t]
  /\ pc[t] \in {"clearN", "clearP"} =>
       /\ target[t] \in Elements /\ ListOf[target[t]] = MyList(t)
       /\ \A k \in 1 .. s : f[k] # target[t]

(* What the counting so far comes to.                                      *)
Base(m) == Cardinality(Before(Inserted, m)) - Cardinality(Before(Served, m))

At(t, l, s, f) ==
  /\ pc[t] \in Busy /\ MyList(t) = l => Placed(t, s, f)
  /\ pc[t] = "count" /\ i[t] = l =>
       \E k \in 0 .. s : n[t] = f[k] /\ count[t] = Base(l) + k

ListOk(l) ==
  \E s \in Nat : \E f \in [Nat -> Node] :
    Chain(l, s, f) /\ \A t \in Threads : At(t, l, s, f)

Counting(t) ==
  /\ pc[t] = "lockall" => count[t] = 0
  /\ pc[t] = "list" => count[t] = Base(i[t])
  /\ pc[t] = "unlockall" /\ i[t] = 0 =>
       count[t] = Cardinality(Inserted) - Cardinality(Served)

IInv ==
  Locking =>
    /\ Typed /\ Locks
    /\ \A l \in Lists : ListOk(l)
    /\ \A t \in Threads : Counting(t)
    /\ missed = {} /\ segv = FALSE

-----------------------------------------------------------------------------
(* What a chain tells, and what leaves it alone.                           *)

NodesOf(l) == {Head(l)} \cup {e \in Elements : ListOf[e] = l}

LEMMA ChainFacts ==
  ASSUME NEW l \in Lists, NEW s \in Nat, NEW f \in [Nat -> Node], Chain(l, s, f)
  PROVE  /\ \A k \in 0 .. s+1 : f[k] \in NodesOf(l) /\ f[k] \in Node
         /\ \A k \in 1 .. s : f[k] \in Elements /\ f[k] # Head(l)
         /\ \A j, k \in 1 .. s+1 : f[j] = f[k] => j = k
         /\ \A j, k \in 0 .. s : f[j] = f[k] => j = k
<1>1. /\ f[0] = Head(l) /\ f[s+1] = Head(l)
      /\ \A k \in 1 .. s : f[k] \in Inserted /\ ListOf[f[k]] = l
      /\ \A j, k \in 1 .. s : f[j] = f[k] => j = k
  BY Zenon DEF Chain
<1>2. \A k \in 1 .. s : f[k] \in Elements /\ f[k] # Head(l)
  BY <1>1, ElementFacts, Membership
<1>3. \A k \in 1 .. s : f[k] \in NodesOf(l)
  BY <1>1, <1>2 DEF NodesOf
<1>4. Head(l) \in NodesOf(l)
  BY DEF NodesOf
<1>5. ASSUME NEW k \in 0 .. s+1 PROVE f[k] \in NodesOf(l) /\ f[k] \in Node
  <2>1. k = 0 \/ k \in 1 .. s \/ k = s+1
    BY <1>5
  <2>2. k \in Nat
    BY <1>5
  <2> QED BY <1>1, <1>3, <1>4, <2>1, <2>2
<1>6. ASSUME NEW j \in 1 .. s+1, NEW k \in 1 .. s+1, f[j] = f[k] PROVE j = k
  <2>1. (j \in 1 .. s \/ j = s+1) /\ (k \in 1 .. s \/ k = s+1)
    BY <1>6
  <2> QED BY <1>1, <1>2, <1>6, <2>1
<1>7. ASSUME NEW j \in 0 .. s, NEW k \in 0 .. s, f[j] = f[k] PROVE j = k
  <2>1. (j \in 1 .. s \/ j = 0) /\ (k \in 1 .. s \/ k = 0)
    BY <1>7
  <2> QED BY <1>1, <1>2, <1>7, <2>1
<1> QED BY <1>2, <1>5, <1>6, <1>7

LEMMA NodesApart ==
  ASSUME NEW l \in Lists, NEW m \in Lists, l # m, NEW x \in NodesOf(l)
  PROVE  x \notin NodesOf(m) /\ x \in Node
BY ElementFacts, HeadsDiffer DEF NodesOf

LEMMA ChainKeeps ==
  ASSUME NEW l \in Lists, NEW s \in Nat, NEW f \in [Nat -> Node], Chain(l, s, f),
         Left(l)' = Left(l), Inserted \subseteq Inserted',
         \A k \in 0 .. s : next'[f[k]] = next[f[k]],
         \A k \in 0 .. s : prev'[f[k+1]] = prev[f[k+1]],
         \A k \in 0 .. s : Mending(l, f[k+1]) => Mending(l, f[k+1])'
  PROVE  Chain(l, s, f)'
<1>1. /\ f[0] = Head(l) /\ f[s+1] = Head(l)
      /\ \A k \in 1 .. s : f[k] \in Inserted /\ ListOf[f[k]] = l
      /\ \A j, k \in 1 .. s : f[j] = f[k] => j = k
      /\ \A k \in 1 .. s-1 : Key[f[k]] <= Key[f[k+1]]
      /\ \A k \in 0 .. s : next[f[k]] = f[k+1]
      /\ \A k \in 0 .. s : prev[f[k+1]] = f[k] \/ Mending(l, f[k+1])
      /\ s = Left(l)
  BY Zenon DEF Chain
<1>2. \A k \in 1 .. s : f[k] \in Inserted'
  BY <1>1, Zenon
<1>3. \A k \in 0 .. s : next'[f[k]] = f[k+1]
  BY <1>1, Zenon
<1>4. \A k \in 0 .. s : prev'[f[k+1]] = f[k] \/ Mending(l, f[k+1])'
  BY <1>1, Zenon
<1> QED BY <1>1, <1>2, <1>3, <1>4, Zenon DEF Chain

LEMMA OthersStay ==
  ASSUME Typed, Locks, NEW t \in Threads, Others(t), NEW u \in Threads, u # t,
         NEW l \in Lists, NEW s \in Nat, NEW f \in [Nat -> Node],
         Chain(l, s, f), At(u, l, s, f),
         (Inserted' = Inserted /\ Served' = Served) \/ pc[t] \in Busy,
         \/ pc[t] \in Busy /\ MyList(t) = l
         \/ \A x \in NodesOf(l) : next'[x] = next[x] /\ prev'[x] = prev[x]
  PROVE  At(u, l, s, f)'
<1>1. /\ pc'[u] = pc[u] /\ i'[u] = i[u] /\ n'[u] = n[u] /\ p'[u] = p[u]
      /\ target'[u] = target[u] /\ count'[u] = count[u]
  BY DEF Others
<1>2. Mine(u)' = Mine(u) /\ MyList(u)' = MyList(u)
  BY <1>1 DEF Mine, MyList
<1>3. ASSUME pc'[u] \in Busy, MyList(u)' = l PROVE Placed(u, s, f)'
  <2>1. pc[u] \in Busy /\ MyList(u) = l /\ Placed(u, s, f)
    BY <1>1, <1>2, <1>3 DEF At
  <2>2. \A x \in NodesOf(l) : next'[x] = next[x] /\ prev'[x] = prev[x]
    BY <2>1, Alone
  <2>3. Mine(u) \in NodesOf(l)
    BY <2>1, MineTyped DEF NodesOf, MyList
  <2>4. pc[u] = "cutP" => n[u] \in NodesOf(l)
    <3> HAVE pc[u] = "cutP"
    <3>1. s >= 1 /\ n[u] = f[2]
      BY <2>1 DEF Placed, Cutting
    <3>2. 2 \in 0 .. s+1
      BY <3>1
    <3> QED BY <3>1, <3>2, ChainFacts
  <2>5. /\ next'[Mine(u)'] = next[Mine(u)] /\ prev'[Mine(u)'] = prev[Mine(u)]
        /\ pc[u] = "cutP" => prev'[n'[u]] = prev[n[u]]
    BY <1>1, <1>2, <2>2, <2>3, <2>4
  <2> QED BY <1>1, <1>2, <2>1, <2>5 DEF Placed
<1>4. ASSUME pc'[u] = "count", i'[u] = l
      PROVE  \E k \in 0 .. s : n'[u] = f[k] /\ count'[u] = Base(l)' + k
  <2>1. pc[u] = "count" /\ i[u] = l
    BY <1>1, <1>4
  <2>2. Inserted' = Inserted /\ Served' = Served
    BY <2>1, Alone
  <2>3. Base(l)' = Base(l)
    BY <2>2 DEF Base, Before
  <2> QED BY <1>1, <2>1, <2>3 DEF At
<1> QED BY <1>3, <1>4 DEF At

LEMMA NoGap ==
  ASSUME Typed, Locks, NEW t \in Threads, pc[t] \in Busy, NEW x,
         ~(pc[t] \in {"linkback", "cutP"} /\ n[t] = x)
  PROVE  ~Mending(MyList(t), x)
BY Alone DEF Mending, Busy

(* The thread has worked on its list, and on nothing else.                 *)
Touches(t) ==
  /\ \A x \in Node \ NodesOf(MyList(t)) : next'[x] = next[x] /\ prev'[x] = prev[x]
  /\ \A m \in Lists : m # MyList(t) => Left(m)' = Left(m)
  /\ Inserted \subseteq Inserted'

LEMMA Elsewhere ==
  ASSUME Typed, NEW t \in Threads, Others(t), Goes(t), Touches(t), MyList(t) \in Lists,
         NEW m \in Lists, m # MyList(t),
         NEW r \in Nat, NEW g \in [Nat -> Node], Chain(m, r, g)
  PROVE  /\ \A x \in NodesOf(m) : next'[x] = next[x] /\ prev'[x] = prev[x]
         /\ Chain(m, r, g)'
<1>1. \A x \in NodesOf(m) : next'[x] = next[x] /\ prev'[x] = prev[x]
  BY NodesApart DEF Touches
<1>2. \A k \in 0 .. r : k+1 \in 0 .. r+1 /\ k \in 0 .. r+1
  OBVIOUS
<1>3. \A k \in 0 .. r : next'[g[k]] = next[g[k]] /\ prev'[g[k+1]] = prev[g[k+1]]
  BY <1>1, <1>2, ChainFacts
<1>4. ASSUME NEW x, Mending(m, x) PROVE Mending(m, x)'
  <2>1. PICK u \in Threads : pc[u] \in {"linkback", "cutP"} /\ MyList(u) = m /\ n[u] = x
    BY <1>4 DEF Mending
  <2>2. u # t
    BY <2>1
  <2>3. pc'[u] = pc[u] /\ n'[u] = n[u] /\ MyList(u)' = m
    BY <2>1, <2>2 DEF Others, MyList, Mine
  <2> QED BY <2>1, <2>3 DEF Mending
<1>5. Left(m)' = Left(m) /\ Inserted \subseteq Inserted'
  BY DEF Touches
<1> QED BY <1>1, <1>3, <1>4, <1>5, ChainKeeps

LEMMA Worked ==
  ASSUME Typed, Locks, NEW t \in Threads, Others(t), Goes(t), Touches(t),
         \A l \in Lists : ListOk(l), \A u \in Threads : Counting(u),
         NEW own \in Lists, own = MyList(t),
         NEW s \in Nat, NEW f \in [Nat -> Node],
         Chain(own, s, f)', Placed(t, s, f)'
  PROVE  (\A l \in Lists : ListOk(l)') /\ (\A u \in Threads : Counting(u)')
<1>1. pc[t] \in Busy /\ pc'[t] \in Busy /\ i' = i
  BY DEF Goes
<1>2. own \in Nat
  BY ElementFacts
<1>3. \A u \in Threads : MyList(u)' = MyList(u)
  BY <1>1 DEF MyList, Mine
<1>4. pc'[t] # "count" /\ pc'[t] \notin {"lockall", "list", "unlockall"}
  BY <1>1 DEF Busy
<1>5. ASSUME NEW u \in Threads, u # t
      PROVE  /\ pc'[u] = pc[u] /\ count'[u] = count[u]
             /\ pc'[u] \in Busy => MyList(u)' # own
             /\ pc'[u] \notin {"list", "count"} /\ ~(pc'[u] = "unlockall" /\ i'[u] = 0)
  <2>1. pc'[u] = pc[u] /\ count'[u] = count[u]
    BY <1>5 DEF Others
  <2>2. /\ pc[u] \in Busy => MyList(u) # own
        /\ pc[u] \notin {"list", "count"}
        /\ pc[u] = "unlockall" => i[u] > own
    BY <1>1, <1>5, Alone
  <2> QED BY <1>1, <1>2, <1>3, <2>1, <2>2
<1>6. ASSUME NEW u \in Threads PROVE Counting(u)'
  <2>1. CASE u = t
    BY <1>4, <2>1 DEF Counting
  <2>2. CASE u # t
    <3>1. pc[u] = "lockall" => count[u] = 0
      BY DEF Counting
    <3> QED BY <1>5, <2>2, <3>1 DEF Counting
  <2> QED BY <2>1, <2>2
<1>7. ListOk(own)'
  <2>1. ASSUME NEW u \in Threads PROVE At(u, own, s, f)'
    <3>1. CASE u = t
      BY <1>4, <3>1 DEF At
    <3>2. CASE u # t
      BY <1>5, <3>2 DEF At
    <3> QED BY <3>1, <3>2
  <2> QED BY <2>1 DEF ListOk
<1>8. ASSUME NEW m \in Lists, m # own PROVE ListOk(m)'
  <2>1. PICK r \in Nat, g \in [Nat -> Node] :
          Chain(m, r, g) /\ \A u \in Threads : At(u, m, r, g)
    BY DEF ListOk
  <2>2. /\ \A x \in NodesOf(m) : next'[x] = next[x] /\ prev'[x] = prev[x]
        /\ Chain(m, r, g)'
    BY <1>8, <2>1, Elsewhere
  <2>3. ASSUME NEW u \in Threads PROVE At(u, m, r, g)'
    <3>1. CASE u = t
      BY <1>3, <1>4, <1>8, <3>1 DEF At
    <3>2. CASE u # t
      BY <1>1, <2>1, <2>2, <3>2, OthersStay
    <3> QED BY <3>1, <3>2
  <2> QED BY <2>1, <2>2, <2>3 DEF ListOk
<1> QED BY <1>6, <1>7, <1>8

(* A step that writes to no list.                                          *)
LEMMA Untouched ==
  ASSUME Typed, Locks, NEW t \in Threads, Others(t), pc[t] \notin {"linkback", "cutP"},
         UNCHANGED shape, Inserted' = Inserted, Served' = Served,
         NEW l \in Lists, NEW s \in Nat, NEW f \in [Nat -> Node],
         Chain(l, s, f), \A u \in Threads : At(u, l, s, f), At(t, l, s, f)'
  PROVE  Chain(l, s, f)' /\ (\A u \in Threads : At(u, l, s, f)') /\ ListOk(l)'
<1>1. next' = next /\ prev' = prev
  BY DEF shape
<1>2. Left(l)' = Left(l)
  BY DEF Left, Of
<1>3. ASSUME NEW x, Mending(l, x) PROVE Mending(l, x)'
  <2>1. PICK u \in Threads : pc[u] \in {"linkback", "cutP"} /\ MyList(u) = l /\ n[u] = x
    BY <1>3 DEF Mending
  <2>2. pc'[u] = pc[u] /\ n'[u] = n[u] /\ MyList(u)' = l
    BY <2>1 DEF Others, MyList, Mine
  <2> QED BY <2>1, <2>2 DEF Mending
<1>4. Chain(l, s, f)'
  BY <1>1, <1>2, <1>3, ChainKeeps
<1>5. \A u \in Threads : At(u, l, s, f)'
  BY <1>1, OthersStay
<1> QED BY <1>4, <1>5 DEF ListOk

-----------------------------------------------------------------------------
(* The thread at work on its list, step by step.                           *)

AtWork(t, own, s, f) ==
  /\ Typed /\ Locks /\ s \in Nat /\ f \in [Nat -> Node]
  /\ pc[t] \in Busy /\ own \in Lists /\ own = MyList(t)
  /\ Chain(own, s, f) /\ Placed(t, s, f)

LEMMA WorkFacts ==
  ASSUME NEW t \in Threads, NEW own, NEW s, NEW f, AtWork(t, own, s, f)
  PROVE  /\ Mine(t) \in NodesOf(own) /\ Mine(t) \in Elements /\ MyHead(t) = f[0]
         /\ f[0] = Head(own) /\ f[s+1] = Head(own)
         /\ \A k \in 0 .. s : next[f[k]] = f[k+1]
         /\ \A k \in 0 .. s : ~(pc[t] \in {"linkback", "cutP"} /\ n[t] = f[k+1]) =>
                                prev[f[k+1]] = f[k]
         /\ pc[t] \in Inserting /\ pc[t] \notin {"linkback", "inserted"} =>
              Mine(t) \notin Inserted /\ \A k \in 0 .. s+1 : f[k] # Mine(t)
         /\ pc[t] \in {"lookup", "take", "deleteN", "deleteP", "checkN", "checkP",
                       "cutN", "cutP"} => s >= 1
<1>1. /\ Typed /\ Locks /\ pc[t] \in Busy /\ own \in Lists /\ own = MyList(t)
      /\ s \in Nat /\ f \in [Nat -> Node]
  BY DEF AtWork
<1>2. /\ f[0] = Head(own) /\ f[s+1] = Head(own)
      /\ \A k \in 1 .. s : f[k] \in Inserted
      /\ \A k \in 0 .. s : next[f[k]] = f[k+1]
      /\ \A k \in 0 .. s : prev[f[k+1]] = f[k] \/ Mending(own, f[k+1])
      /\ s = Left(own)
  BY Zenon DEF AtWork, Chain
<1>3. /\ Mine(t) \in Elements /\ MyHead(t) = Head(own) /\ i[t] \in Nat
      /\ Mine(t)[1] = t /\ Mine(t)[2] = i[t] /\ Head(own) # Mine(t)
  BY <1>1, MineTyped, ElementFacts
<1>4. Mine(t) \in NodesOf(own)
  BY <1>1, <1>3 DEF NodesOf, MyList
<1>5. \A k \in 0 .. s : ~(pc[t] \in {"linkback", "cutP"} /\ n[t] = f[k+1]) =>
                          prev[f[k+1]] = f[k]
  BY <1>1, <1>2, NoGap
<1>6. ASSUME pc[t] \in Inserting, pc[t] \notin {"linkback", "inserted"}
      PROVE  Mine(t) \notin Inserted /\ \A k \in 0 .. s+1 : f[k] # Mine(t)
  <2>1. Mine(t) \notin Inserted
    BY <1>3, <1>6, Membership DEF HasIn
  <2>2. \A k \in 0 .. s+1 : k = 0 \/ k \in 1 .. s \/ k = s+1
    BY <1>1
  <2> QED BY <1>2, <1>3, <2>1, <2>2
<1>7. ASSUME pc[t] \in {"lookup", "take", "deleteN", "deleteP", "checkN", "checkP",
                        "cutN", "cutP"}
      PROVE  s >= 1
  <2>1. Mine(t) \in Inserted /\ Mine(t) \notin Served
    BY <1>3, <1>7, Membership DEF HasIn, HasOut, Inserting
  <2>2. Cardinality(Of(Inserted, own)) > Cardinality(Of(Served, own))
    BY <1>1, <2>1, Membership, MoreLeft DEF MyList
  <2>3. Cardinality(Of(Inserted, own)) \in Nat /\ Cardinality(Of(Served, own)) \in Nat
    BY Membership, OfFinite
  <2> QED BY <1>2, <2>2, <2>3 DEF Left
<1> QED BY <1>2, <1>3, <1>4, <1>5, <1>6, <1>7

LEMMA WorkGoesOn ==
  ASSUME NEW t \in Threads, NEW own, NEW s \in Nat, NEW f \in [Nat -> Node],
         AtWork(t, own, s, f),
         \/ InsertWalks(t) \/ InsertPlaces(t) \/ InsertLinks(t)
         \/ LookupTests(t) \/ LookupMisses(t) \/ LookupTakes(t)
         \/ DeleteReads(t) \/ DeleteChecks(t) \/ DeleteUnlinks(t)
  PROVE  Typed' /\ Locks' /\ Goes(t) /\ Others(t)
<1>1. pc[t] \in {"deleteN", "deleteP"} => target[t] \in Node
  BY DEF AtWork, Placed
<1>2. Others(t)
  BY OthersKeep DEF AtWork, Insert, Delete
<1> QED BY <1>1, <1>2, BusySteps DEF AtWork

(* The search for the element's place.                                     *)
LEMMA WalkOnList ==
  ASSUME NEW t \in Threads, NEW own, NEW s \in Nat, NEW f \in [Nat -> Node],
         AtWork(t, own, s, f), InsertWalks(t)
  PROVE  /\ Inserted' = Inserted /\ Served' = Served /\ UNCHANGED shape
         /\ Placed(t, s, f)'
<1> USE DEF Goto
<1>w. /\ MyHead(t) = f[0] /\ f[0] = Head(own) /\ f[s+1] = Head(own)
      /\ \A k \in 0 .. s : next[f[k]] = f[k+1]
      /\ \A k \in 0 .. s : ~(pc[t] \in {"linkback", "cutP"} /\ n[t] = f[k+1]) =>
                             prev[f[k+1]] = f[k]
  BY WorkFacts
<1>1. Typed /\ Goes(t) /\ Others(t) /\ i' = i
  BY WorkGoesOn DEF AtWork, InsertWalks
<1>2. Inserted' = Inserted /\ Served' = Served
  BY <1>1, QuietSets DEF InsertWalks, Inserting, Typed
<1>3. Mine(t)' = Mine(t) /\ UNCHANGED shape
  BY <1>1 DEF Mine, InsertWalks
<1>4. pc'[t] = "walk" /\ n \in [Threads -> Pointer]
  BY <1>1 DEF InsertWalks, Typed
<1>5. \E k \in 1 .. s+1 : n'[t] = f[k] /\ (k > 1 => Key[f[k-1]] <= Key[Mine(t)])
  <2>1. CASE pc[t] = "first"
    <3>1. n'[t] = next[f[0]]
      BY <1>4, <1>w, <2>1 DEF InsertWalks
    <3>2. n'[t] = f[1]
      BY <1>w, <3>1
    <3> QED BY <3>2
  <2>2. CASE pc[t] = "walk"
    <3>1. n'[t] = next[n[t]] /\ ~Found(t)
      BY <1>4, <2>2 DEF InsertWalks
    <3>2. PICK k \in 1 .. s+1 : n[t] = f[k]
      BY <2>2 DEF AtWork, Placed
    <3>3. f[k] # MyHead(t) /\ k # s+1
      BY <1>w, <3>1, <3>2 DEF Found
    <3>4. k \in 1 .. s /\ k \in 0 .. s /\ k+1 \in 1 .. s+1 /\ (k+1)-1 = k
      BY <3>3
    <3>5. f[k] \in Elements /\ Mine(t) \in Elements
      BY <3>4, ChainFacts, WorkFacts DEF AtWork
    <3>6. Key[f[k]] <= Key[Mine(t)]
      BY <3>1, <3>2, <3>5, KeyAssumption DEF Found
    <3>7. n'[t] = f[k+1]
      BY <1>w, <3>1, <3>2, <3>4
    <3> QED BY <3>4, <3>6, <3>7
  <2> QED BY <2>1, <2>2 DEF InsertWalks
<1> QED BY <1>2, <1>3, <1>4, <1>5 DEF Placed, Cutting

LEMMA PlaceOnList ==
  ASSUME NEW t \in Threads, NEW own, NEW s \in Nat, NEW f \in [Nat -> Node],
         AtWork(t, own, s, f), InsertPlaces(t)
  PROVE  /\ Inserted' = Inserted /\ Served' = Served
         /\ \A x \in Node : x # Mine(t) => next'[x] = next[x] /\ prev'[x] = prev[x]
         /\ Placed(t, s, f)'
<1> USE DEF Goto
<1>w. /\ MyHead(t) = f[0] /\ f[0] = Head(own) /\ f[s+1] = Head(own)
      /\ \A k \in 0 .. s : next[f[k]] = f[k+1]
      /\ \A k \in 0 .. s : ~(pc[t] \in {"linkback", "cutP"} /\ n[t] = f[k+1]) =>
                             prev[f[k+1]] = f[k]
  BY WorkFacts
<1>1. Typed /\ Goes(t) /\ Others(t) /\ i' = i /\ n' = n
  BY WorkGoesOn DEF AtWork, InsertPlaces
<1>2. Inserted' = Inserted /\ Served' = Served
  BY <1>1, QuietSets DEF InsertPlaces, Inserting, Typed
<1>3. /\ pc[t] = "walk" /\ pc'[t] = "link" /\ Mine(t)' = Mine(t)
      /\ prev' = [prev EXCEPT ![Mine(t)] = prev[n[t]]] /\ p'[t] = prev[n[t]]
      /\ next' = [next EXCEPT ![Mine(t)] = n[t]]
  BY <1>1 DEF Mine, InsertPlaces, Typed
<1>4. Mine(t) \in Node /\ Mine(t) \in Elements
  BY WorkFacts, ElementFacts
<1>5. /\ next'[Mine(t)] = n[t] /\ prev'[Mine(t)] = p'[t]
      /\ \A x \in Node : x # Mine(t) => next'[x] = next[x] /\ prev'[x] = prev[x]
  BY <1>1, <1>3, <1>4 DEF Typed
<1>6. PICK k \in 1 .. s+1 : n[t] = f[k] /\ (k > 1 => Key[f[k-1]] <= Key[Mine(t)])
  BY <1>3 DEF AtWork, Placed
<1>7. k-1 \in 0 .. s /\ (k-1)+1 = k
  OBVIOUS
<1>8. p'[t] = f[k-1]
  BY <1>3, <1>6, <1>7, <1>w
<1>9. k <= s => Key[Mine(t)] <= Key[f[k]]
  <2> HAVE k <= s
  <2>1. k \in 1 .. s
    OBVIOUS
  <2>2. f[k] \in Elements /\ f[k] # MyHead(t)
    BY <2>1, ChainFacts, WorkFacts DEF AtWork
  <2> QED BY <1>6, <2>2 DEF InsertPlaces, Found
<1> QED BY <1>1, <1>2, <1>3, <1>5, <1>6, <1>8, <1>9 DEF Placed, Cutting

(* The write that closes the gap an insertion has left.                    *)
LEMMA LinkBackOnList ==
  ASSUME NEW t \in Threads, NEW own, NEW s \in Nat, NEW f \in [Nat -> Node],
         AtWork(t, own, s, f), InsertLinks(t), pc[t] = "linkback"
  PROVE  /\ Inserted' = Inserted /\ Served' = Served
         /\ next' = next /\ prev' = [prev EXCEPT ![n[t]] = Mine(t)]
         /\ n[t] \in NodesOf(own) /\ \A k \in 0 .. s : prev'[f[k+1]] = f[k]
         /\ Placed(t, s, f)'
<1> USE DEF Goto
<1>1. Typed /\ Goes(t) /\ Others(t) /\ i' = i /\ n' = n /\ Chain(own, s, f) /\ own \in Lists
  BY WorkGoesOn DEF AtWork, InsertLinks, local
<1>w. /\ \A k \in 0 .. s : next[f[k]] = f[k+1]
      /\ \A k \in 0 .. s : ~(pc[t] \in {"linkback", "cutP"} /\ n[t] = f[k+1]) =>
                             prev[f[k+1]] = f[k]
  BY WorkFacts
<1>2. Inserted' = Inserted /\ Served' = Served
  BY <1>1, QuietSets DEF InsertLinks, Inserting, Typed
<1>3. next' = next /\ prev' = [prev EXCEPT ![n[t]] = Mine(t)] /\ pc'[t] = "inserted"
  BY <1>1 DEF InsertLinks, Typed
<1>4. PICK k \in 1 .. s : f[k] = Mine(t) /\ n[t] = f[k+1]
  BY DEF AtWork, Placed
<1>5. k \in 0 .. s /\ k+1 \in 1 .. s+1 /\ k+1 \in 0 .. s+1
  OBVIOUS
<1>6. n[t] \in NodesOf(own) /\ n[t] \in Node
  BY <1>1, <1>4, <1>5, ChainFacts
<1>7. ASSUME NEW j \in 0 .. s PROVE prev'[f[j+1]] = f[j]
  <2>1. j+1 \in 1 .. s+1 /\ j+1 \in 0 .. s+1
    OBVIOUS
  <2>2. f[j+1] \in Node /\ (f[j+1] = n[t] => j+1 = k+1)
    BY <1>1, <1>4, <1>5, <2>1, ChainFacts
  <2>3. CASE f[j+1] = n[t]
    <3>1. j = k
      BY <2>2, <2>3
    <3> QED BY <1>1, <1>3, <1>4, <1>6, <2>3, <3>1 DEF Typed
  <2>4. CASE f[j+1] # n[t]
    BY <1>1, <1>3, <1>w, <2>2, <2>4 DEF Typed
  <2> QED BY <2>3, <2>4
<1>8. Placed(t, s, f)'
  BY <1>3 DEF Placed, Cutting
<1> QED BY <1>2, <1>3, <1>6, <1>7, <1>8

(* The steps of a turn that only read.                                     *)
LEMMA ReadOnList ==
  ASSUME NEW t \in Threads, NEW own, NEW s \in Nat, NEW f \in [Nat -> Node],
         AtWork(t, own, s, f),
         \/ LookupTests(t) \/ LookupMisses(t) \/ LookupTakes(t)
         \/ DeleteReads(t) \/ DeleteChecks(t)
  PROVE  /\ Inserted' = Inserted /\ Served' = Served /\ UNCHANGED shape
         /\ Placed(t, s, f)' /\ missed' = missed
<1> USE DEF Goto
<1>1. Typed /\ Goes(t) /\ Others(t) /\ i' = i /\ Chain(own, s, f) /\ own \in Lists
  BY WorkGoesOn DEF AtWork, LookupTests, LookupMisses, LookupTakes, DeleteReads, DeleteChecks,
                    local
<1>w. /\ MyHead(t) = f[0] /\ f[0] = Head(own) /\ f[s+1] = Head(own)
      /\ \A k \in 0 .. s : next[f[k]] = f[k+1]
      /\ \A k \in 0 .. s : ~(pc[t] \in {"linkback", "cutP"} /\ n[t] = f[k+1]) =>
                             prev[f[k+1]] = f[k]
  BY WorkFacts
<1>2. s >= 1
  BY WorkFacts DEF LookupTests, LookupMisses, LookupTakes, DeleteReads, DeleteChecks
<1>3. 0 \in 0 .. s /\ 1 \in 0 .. s /\ 1 \in 1 .. s /\ 0+1 = 1 /\ 1+1 = 2
  BY <1>2
<1>4. next[f[0]] = f[1] /\ next[f[1]] = f[2] /\ f[1] # Head(own)
  BY <1>1, <1>3, <1>w, ChainFacts
<1>5. pc[t] \notin {"linkback", "cutP"} => prev[f[1]] = f[0] /\ prev[f[2]] = f[1]
  BY <1>3, <1>w
<1>6. ~LookupMisses(t)
  BY <1>4, <1>w DEF LookupMisses
<1>7. UNCHANGED shape /\ missed' = missed
  BY <1>6 DEF LookupTests, LookupTakes, DeleteReads, DeleteChecks, verdict
<1>8. Placed(t, s, f)' /\ pc[t] \in {"lookup", "take", "deleteN", "deleteP", "checkN", "checkP"}
      /\ pc'[t] \in {"take", "deleteN", "deleteP", "checkN", "checkP", "cutN"}
  <2>1. CASE LookupTests(t)
    BY <1>1, <2>1 DEF LookupTests, Placed, Cutting, Typed
  <2>2. CASE LookupTakes(t)
    <3>1. pc[t] = "take" /\ pc'[t] = "deleteN" /\ target'[t] = f[1]
      BY <1>1, <1>4, <1>w, <2>2 DEF LookupTakes, Typed
    <3> QED BY <1>2, <3>1 DEF Placed, Cutting
  <2>3. CASE DeleteReads(t)
    <3>1. CASE pc[t] = "deleteN"
      <4>1. pc'[t] = "deleteP" /\ n'[t] = f[2] /\ target' = target /\ target[t] = f[1]
        BY <1>1, <1>4, <2>3, <3>1 DEF DeleteReads, Typed, AtWork, Placed
      <4> QED BY <1>2, <3>1, <4>1 DEF Placed, Cutting
    <3>2. CASE pc[t] = "deleteP"
      <4>1. pc'[t] = "checkN" /\ p'[t] = prev[target[t]] /\ n' = n /\ target' = target
        BY <1>1, <2>3, <3>2 DEF DeleteReads, Typed
      <4>2. target[t] = f[1] /\ n[t] = f[2] /\ p'[t] = f[0]
        BY <1>5, <3>2, <4>1 DEF AtWork, Placed
      <4> QED BY <1>2, <3>2, <4>1, <4>2 DEF Placed, Cutting
    <3> QED BY <2>3, <3>1, <3>2 DEF DeleteReads
  <2>4. CASE DeleteChecks(t)
    <3>1. n' = n /\ p' = p /\ target' = target /\ pc[t] \in {"checkN", "checkP"}
      BY <2>4 DEF DeleteChecks, local
    <3>2. target[t] = f[1] /\ n[t] = f[2] /\ p[t] = f[0]
      BY <3>1 DEF AtWork, Placed
    <3>3. prev[n[t]] = target[t] /\ next[p[t]] = target[t]
      BY <1>4, <1>5, <3>1, <3>2
    <3>4. pc'[t] \in {"checkP", "cutN"}
      BY <1>1, <2>4, <3>3 DEF DeleteChecks, Typed
    <3> QED BY <1>2, <3>1, <3>2, <3>4 DEF Placed, Cutting
  <2> QED BY <1>6, <2>1, <2>2, <2>3, <2>4
<1>9. Inserted' = Inserted /\ Served' = Served
  BY <1>1, <1>8, QuietSets DEF Deleting, Typed
<1> QED BY <1>7, <1>8, <1>9

(* The first write of a deletion, which leaves a gap.                      *)
LEMMA CutNOnList ==
  ASSUME NEW t \in Threads, NEW own, NEW s \in Nat, NEW f \in [Nat -> Node],
         AtWork(t, own, s, f), DeleteUnlinks(t), pc[t] = "cutN"
  PROVE  /\ Inserted' = Inserted /\ Served' = Served
         /\ next' = next /\ prev' = [prev EXCEPT ![n[t]] = p[t]]
         /\ s >= 1 /\ n[t] = f[2] /\ n[t] \in NodesOf(own)
         /\ \A k \in 0 .. s : prev'[f[k+1]] = f[k] \/ f[k+1] = n[t]
         /\ Placed(t, s, f)' /\ pc'[t] = "cutP" /\ n' = n
<1> USE DEF Goto
<1>1. Typed /\ Goes(t) /\ Others(t) /\ i' = i /\ n' = n /\ Chain(own, s, f) /\ own \in Lists
  BY WorkGoesOn DEF AtWork, DeleteUnlinks, local
<1>w. \A k \in 0 .. s : ~(pc[t] \in {"linkback", "cutP"} /\ n[t] = f[k+1]) =>
                          prev[f[k+1]] = f[k]
  BY WorkFacts
<1>2. Inserted' = Inserted /\ Served' = Served
  BY <1>1, QuietSets DEF DeleteUnlinks, Deleting, Typed
<1>3. /\ next' = next /\ prev' = [prev EXCEPT ![n[t]] = p[t]] /\ pc'[t] = "cutP"
      /\ n' = n /\ p' = p /\ target' = target
  BY <1>1 DEF DeleteUnlinks, Typed, local
<1>4. s >= 1 /\ target[t] = f[1] /\ n[t] = f[2] /\ p[t] = f[0]
  BY DEF AtWork, Placed, Cutting
<1>5. 2 \in 0 .. s+1
  BY <1>4
<1>6. n[t] \in NodesOf(own) /\ n[t] \in Node
  BY <1>1, <1>4, <1>5, ChainFacts
<1>7. ASSUME NEW k \in 0 .. s PROVE prev'[f[k+1]] = f[k] \/ f[k+1] = n[t]
  <2>1. k+1 \in 0 .. s+1
    OBVIOUS
  <2>2. f[k+1] \in Node
    BY <1>1, <2>1, ChainFacts
  <2> QED BY <1>1, <1>3, <1>w, <2>2 DEF Typed
<1>8. prev'[n[t]] = p[t]
  BY <1>1, <1>3, <1>6 DEF Typed
<1>9. Placed(t, s, f)'
  BY <1>3, <1>4, <1>8 DEF Placed, Cutting
<1> QED BY <1>2, <1>3, <1>4, <1>6, <1>7, <1>9

(* What has been cut out loses its pointers.                               *)
LEMMA ClearOnList ==
  ASSUME NEW t \in Threads, NEW own, NEW s \in Nat, NEW f \in [Nat -> Node],
         AtWork(t, own, s, f), DeleteUnlinks(t), pc[t] \in {"clearN", "clearP"}
  PROVE  /\ Inserted' = Inserted /\ Served' = Served
         /\ target[t] \in NodesOf(own) /\ \A k \in 0 .. s+1 : f[k] # target[t]
         /\ \A x \in Node : x # target[t] => next'[x] = next[x] /\ prev'[x] = prev[x]
         /\ Placed(t, s, f)'
<1> USE DEF Goto
<1>1. Typed /\ Goes(t) /\ Others(t) /\ i' = i /\ Chain(own, s, f) /\ own \in Lists
      /\ own = MyList(t)
  BY WorkGoesOn DEF AtWork, DeleteUnlinks, local
<1>2. Inserted' = Inserted /\ Served' = Served
  BY <1>1, QuietSets DEF DeleteUnlinks, Deleting, Typed
<1>3. /\ pc'[t] \in {"clearP", "deleted"} /\ target' = target
      /\ \/ next' = [next EXCEPT ![target[t]] = Null] /\ prev' = prev
         \/ prev' = [prev EXCEPT ![target[t]] = Null] /\ next' = next
  BY <1>1 DEF DeleteUnlinks, Typed, local
<1>4. /\ target[t] \in Elements /\ ListOf[target[t]] = own
      /\ \A k \in 1 .. s : f[k] # target[t]
  BY <1>1 DEF AtWork, Placed
<1>5. target[t] \in NodesOf(own) /\ target[t] # Head(own)
  BY <1>1, <1>4, ElementFacts DEF NodesOf
<1>6. \A k \in 0 .. s+1 : k = 0 \/ k \in 1 .. s \/ k = s+1
  OBVIOUS
<1>7. f[0] = Head(own) /\ f[s+1] = Head(own)
  BY WorkFacts
<1>8. \A k \in 0 .. s+1 : f[k] # target[t]
  BY <1>4, <1>5, <1>6, <1>7
<1>9. \A x \in Node : x # target[t] => next'[x] = next[x] /\ prev'[x] = prev[x]
  BY <1>1, <1>3 DEF Typed
<1>10. MyList(t)' = MyList(t)
  BY <1>1 DEF MyList, Mine
<1>11. Placed(t, s, f)'
  BY <1>1, <1>3, <1>4, <1>10 DEF Placed, Cutting
<1> QED BY <1>2, <1>5, <1>8, <1>9, <1>11

-----------------------------------------------------------------------------
(* The two steps that change what a list holds.                            *)

(* The list with e at place k, and without its first element.              *)
Longer(f, k, e) == [j \in Nat |-> IF j < k THEN f[j] ELSE IF j = k THEN e ELSE f[j-1]]
Shorter(f) == [j \in Nat |-> IF j = 0 THEN f[0] ELSE f[j+1]]

LEMMA LinkOnList ==
  ASSUME NEW t \in Threads, NEW own, NEW s \in Nat, NEW f \in [Nat -> Node],
         AtWork(t, own, s, f), InsertLinks(t), pc[t] = "link", NEW e, e = Mine(t)
  PROVE  /\ Mine(t) \in Elements \ Inserted /\ Inserted' = Inserted \cup {Mine(t)}
         /\ Served' = Served
         /\ p[t] \in NodesOf(own) /\ next' = [next EXCEPT ![p[t]] = Mine(t)] /\ prev' = prev
         /\ \E k \in 1 .. s+1 : \E g \in [Nat -> Node] :
              g = Longer(f, k, e) /\ Chain(own, s+1, g)' /\ Placed(t, s+1, g)'
<1> USE DEF Goto
<1>1. Typed /\ Goes(t) /\ Others(t) /\ i' = i /\ Chain(own, s, f) /\ own \in Lists
      /\ own = MyList(t)
  BY WorkGoesOn DEF AtWork, InsertLinks, local
<1>2. /\ n' = n /\ pc'[t] = "linkback" /\ prev' = prev /\ next' = [next EXCEPT ![p[t]] = Mine(t)]
  BY <1>1 DEF InsertLinks, Typed, local
<1>3. Mine(t) \in Elements \ Inserted /\ Inserted' = Inserted \cup {Mine(t)} /\ Served' = Served
  BY <1>1, <1>2, InsertedGrows
<1>4. /\ next[Mine(t)] = n[t] /\ prev[Mine(t)] = p[t]
      /\ \E k \in 1 .. s+1 : /\ n[t] = f[k] /\ p[t] = f[k-1]
                             /\ k > 1 => Key[f[k-1]] <= Key[Mine(t)]
                             /\ k <= s => Key[Mine(t)] <= Key[f[k]]
  BY DEF AtWork, Placed
<1>5. PICK k \in 1 .. s+1 : /\ n[t] = f[k] /\ p[t] = f[k-1]
                            /\ k > 1 => Key[f[k-1]] <= Key[Mine(t)]
                            /\ k <= s => Key[Mine(t)] <= Key[f[k]]
  BY <1>4
<1>g. PICK g : g = Longer(f, k, e)
  OBVIOUS
<1>6. /\ e \in Node /\ e \in Elements /\ e # Head(own) /\ ListOf[e] = own
      /\ Mine(t)' = e /\ MyList(t)' = own
  BY <1>1, <1>3, ElementFacts DEF MyList, Mine
<1>7. /\ f[0] = Head(own) /\ f[s+1] = Head(own)
      /\ \A j \in 1 .. s : f[j] \in Inserted /\ ListOf[f[j]] = own
      /\ \A j, m \in 1 .. s : f[j] = f[m] => j = m
      /\ \A j \in 1 .. s-1 : Key[f[j]] <= Key[f[j+1]]
      /\ \A j \in 0 .. s : next[f[j]] = f[j+1]
      /\ s = Left(own)
  BY <1>1, Zenon DEF Chain
<1>8. \A j \in 0 .. s : prev[f[j+1]] = f[j]
  BY WorkFacts
<1>9. \A j \in 0 .. s+1 : f[j] \in Node /\ f[j] # e
  BY <1>1, WorkFacts, ChainFacts DEF Inserting
<1>10. \A j, m \in 0 .. s : f[j] = f[m] => j = m
  BY <1>1, ChainFacts
<1>11. k-1 \in 0 .. s /\ k-1 \in 0 .. s+1 /\ k \in 0 .. s+1 /\ k \in Nat /\ s+1 \in Nat
  OBVIOUS
<1>12. p[t] \in NodesOf(own) /\ p[t] \in Node /\ p[t] # e
  BY <1>1, <1>5, <1>9, <1>11, ChainFacts
<1>13. g \in [Nat -> Node]
  <2>1. \A j \in Nat : j > k => j-1 \in Nat
    BY <1>11
  <2> QED BY <1>6, <1>11, <1>g, <2>1 DEF Longer
<1>14. /\ \A j \in Nat : j < k => g[j] = f[j]
       /\ g[k] = e
       /\ \A j \in Nat : j > k => g[j] = f[j-1]
  BY <1>11, <1>g DEF Longer
<1>15. /\ next'[p[t]] = e /\ next'[e] = n[t]
       /\ \A j \in 0 .. s : j # k-1 => next'[f[j]] = f[j+1]
  <2>1. next'[p[t]] = e /\ next'[e] = n[t]
    BY <1>1, <1>2, <1>4, <1>6, <1>12 DEF Typed
  <2>2. ASSUME NEW j \in 0 .. s, j # k-1 PROVE next'[f[j]] = f[j+1]
    <3>1. f[j] # p[t]
      BY <1>5, <1>10, <1>11, <2>2
    <3>2. f[j] \in Node
      <4>1. j \in 0 .. s+1
        BY <2>2
      <4> QED BY <1>9, <4>1
    <3> QED BY <1>1, <1>2, <1>7, <3>1, <3>2 DEF Typed
  <2> QED BY <2>1, <2>2
<1>16. ASSUME NEW j \in 0 .. s+1 PROVE next'[g[j]] = g[j+1]
  <2>1. CASE j < k-1
    <3>1. j \in Nat /\ j+1 \in Nat /\ j < k /\ j+1 < k /\ j \in 0 .. s /\ j # k-1
      BY <2>1
    <3> QED BY <1>14, <1>15, <3>1
  <2>2. CASE j = k-1
    <3>1. j \in Nat /\ j < k /\ j+1 = k
      BY <2>2
    <3> QED BY <1>5, <1>14, <1>15, <2>2, <3>1
  <2>3. CASE j = k
    <3>1. j+1 \in Nat /\ j+1 > k /\ (j+1)-1 = k
      BY <2>3
    <3> QED BY <1>5, <1>14, <1>15, <2>3, <3>1
  <2>4. CASE j > k
    <3>1. j \in Nat /\ j+1 \in Nat /\ j+1 > k /\ (j+1)-1 = j /\ j-1 \in 0 .. s /\ j-1 # k-1
          /\ (j-1)+1 = j
      BY <2>4
    <3> QED BY <1>14, <1>15, <2>4, <3>1
  <2> QED BY <2>1, <2>2, <2>3, <2>4
<1>17. ASSUME NEW j \in 0 .. s+1 PROVE prev'[g[j+1]] = g[j] \/ g[j+1] = n[t]
  <2>1. CASE j < k-1
    <3>1. j \in Nat /\ j+1 \in Nat /\ j < k /\ j+1 < k /\ j \in 0 .. s
      BY <2>1
    <3> QED BY <1>2, <1>8, <1>14, <3>1
  <2>2. CASE j = k-1
    <3>1. j \in Nat /\ j < k /\ j+1 = k
      BY <2>2
    <3>2. prev[e] = p[t]
      BY <1>4
    <3> QED BY <1>2, <1>5, <1>14, <2>2, <3>1, <3>2
  <2>3. CASE j = k
    <3>1. j+1 \in Nat /\ j+1 > k /\ (j+1)-1 = k
      BY <2>3
    <3> QED BY <1>5, <1>14, <2>3, <3>1
  <2>4. CASE j > k
    <3>1. j \in Nat /\ j+1 \in Nat /\ j+1 > k /\ (j+1)-1 = j /\ j-1 \in 0 .. s /\ (j-1)+1 = j
      BY <2>4
    <3> QED BY <1>2, <1>8, <1>14, <2>4, <3>1
  <2> QED BY <2>1, <2>2, <2>3, <2>4
<1>18. ASSUME NEW j \in 1 .. s+1
       PROVE  /\ j < k => j \in 1 .. s /\ g[j] = f[j]
              /\ j > k => j-1 \in 1 .. s /\ g[j] = f[j-1]
              /\ j = k => g[j] = e
  <2>1. j < k => j \in Nat /\ j \in 1 .. s
    OBVIOUS
  <2>2. j > k => j \in Nat /\ j-1 \in 1 .. s
    OBVIOUS
  <2> QED BY <1>14, <2>1, <2>2
<1>19. \A j \in 1 .. s : f[j] # e
  <2>1. \A j \in 1 .. s : j \in 0 .. s+1
    OBVIOUS
  <2> QED BY <1>9, <2>1
<1>20. ASSUME NEW j \in 1 .. s+1 PROVE g[j] \in Inserted' /\ ListOf[g[j]] = own
  <2>1. j < k \/ j = k \/ j > k
    OBVIOUS
  <2>2. e \in Inserted' /\ Inserted \subseteq Inserted'
    BY <1>3
  <2> QED BY <1>6, <1>7, <1>18, <2>1, <2>2
<1>21. ASSUME NEW j \in 1 .. s+1, NEW m \in 1 .. s+1, g[j] = g[m] PROVE j = m
  <2>1. (j < k \/ j = k \/ j > k) /\ (m < k \/ m = k \/ m > k)
    OBVIOUS
  <2>2. CASE j < k
    BY <1>7, <1>18, <1>19, <1>21, <2>1, <2>2
  <2>3. CASE j > k
    BY <1>7, <1>18, <1>19, <1>21, <2>1, <2>3
  <2>4. CASE j = k
    BY <1>18, <1>19, <1>21, <2>1, <2>4
  <2> QED BY <2>1, <2>2, <2>3, <2>4
<1>22. ASSUME NEW j \in 1 .. (s+1)-1 PROVE Key[g[j]] <= Key[g[j+1]]
  <2>1. j \in 1 .. s+1 /\ j+1 \in 1 .. s+1
    OBVIOUS
  <2>2. CASE j+1 < k
    <3>1. j < k /\ j \in 1 .. s-1
      BY <2>2
    <3> QED BY <1>7, <1>18, <2>1, <2>2, <3>1
  <2>3. CASE j+1 = k
    <3>1. j < k /\ k > 1 /\ k-1 = j
      BY <2>3
    <3> QED BY <1>5, <1>18, <2>1, <2>3, <3>1
  <2>4. CASE j = k
    <3>1. j+1 > k /\ k <= s /\ (j+1)-1 = k
      BY <2>4
    <3> QED BY <1>5, <1>18, <2>1, <2>4, <3>1
  <2>5. CASE j > k
    <3>1. j+1 > k /\ j-1 \in 1 .. s-1 /\ (j+1)-1 = j /\ (j-1)+1 = j
      BY <2>5
    <3> QED BY <1>7, <1>18, <2>1, <2>5, <3>1
  <2> QED BY <2>2, <2>3, <2>4, <2>5
<1>23. g[0] = Head(own) /\ g[(s+1)+1] = Head(own)
  <2>1. 0 \in Nat /\ 0 < k /\ (s+1)+1 \in Nat /\ (s+1)+1 > k /\ ((s+1)+1)-1 = s+1
    OBVIOUS
  <2> QED BY <1>7, <1>14, <2>1
<1>24. s+1 = Left(own)'
  <2>1. Cardinality(Of(Inserted, own)) \in Nat /\ Cardinality(Of(Served, own)) \in Nat
    BY Membership, OfFinite
  <2>2. Cardinality(Of(Inserted', own)) = Cardinality(Of(Inserted, own)) + 1
    BY <1>3, <1>6, Membership, OfGrows
  <2>3. Of(Served, own)' = Of(Served, own) /\ Of(Inserted, own)' = Of(Inserted', own)
    BY <1>3 DEF Of
  <2> QED BY <1>7, <2>1, <2>2, <2>3 DEF Left
<1>25. \A x : x = n[t] => Mending(own, x)'
  BY <1>2, <1>6 DEF Mending
<1>26. Chain(own, s+1, g)'
  BY <1>16, <1>17, <1>20, <1>21, <1>22, <1>23, <1>24, <1>25, Zenon DEF Chain
<1>27. Placed(t, s+1, g)'
  <2>1. k+1 \in Nat /\ k+1 > k /\ (k+1)-1 = k
    BY <1>11
  <2>2. g[k] = Mine(t)' /\ n'[t] = g[k+1]
    BY <1>2, <1>5, <1>6, <1>14, <2>1
  <2> QED BY <1>2, <2>2 DEF Placed, Cutting
<1> QED BY <1>g, <1>2, <1>3, <1>12, <1>13, <1>26, <1>27

LEMMA CutPOnList ==
  ASSUME NEW t \in Threads, NEW own, NEW s \in Nat, NEW f \in [Nat -> Node],
         AtWork(t, own, s, f), DeleteUnlinks(t), pc[t] = "cutP", NEW e, e = Mine(t)
  PROVE  /\ e \in Inserted \ Served /\ Served' = Served \cup {e} /\ Inserted' = Inserted
         /\ p[t] \in NodesOf(own) /\ next' = [next EXCEPT ![p[t]] = n[t]] /\ prev' = prev
         /\ \E r \in Nat : \E g \in [Nat -> Node] :
              /\ s = r+1 /\ g = Shorter(f)
              /\ Chain(own, r, g)' /\ Placed(t, r, g)'
<1> USE DEF Goto
<1>1. Typed /\ Goes(t) /\ Others(t) /\ i' = i /\ Chain(own, s, f) /\ own \in Lists
      /\ own = MyList(t)
  BY WorkGoesOn DEF AtWork, DeleteUnlinks, local
<1>2. /\ n' = n /\ target' = target /\ pc'[t] = "clearN" /\ prev' = prev
      /\ next' = [next EXCEPT ![p[t]] = n[t]]
  BY <1>1 DEF DeleteUnlinks, Typed, local
<1>3. e \in Inserted \ Served /\ Served' = Served \cup {e} /\ Inserted' = Inserted
  BY <1>1, <1>2, ServedGrows
<1>4. s >= 1 /\ target[t] = f[1] /\ n[t] = f[2] /\ p[t] = f[0] /\ prev[n[t]] = p[t]
  BY DEF AtWork, Placed, Cutting
<1>5. PICK r \in Nat : s = r+1
  <2>1. s-1 \in Nat /\ s = (s-1)+1
    BY <1>4
  <2> QED BY <2>1
<1>g. PICK g : g = Shorter(f)
  OBVIOUS
<1>6. e \in Elements /\ ListOf[e] = own /\ MyList(t)' = own
  BY <1>1, <1>3, Membership DEF MyList, Mine
<1>7. /\ f[0] = Head(own) /\ f[s+1] = Head(own)
      /\ \A j \in 1 .. s : f[j] \in Inserted /\ ListOf[f[j]] = own
      /\ \A j, m \in 1 .. s : f[j] = f[m] => j = m
      /\ \A j \in 1 .. s-1 : Key[f[j]] <= Key[f[j+1]]
      /\ \A j \in 0 .. s : next[f[j]] = f[j+1]
      /\ s = Left(own)
  BY <1>1, Zenon DEF Chain
<1>8. \A j \in 0 .. s : n[t] # f[j+1] => prev[f[j+1]] = f[j]
  BY WorkFacts
<1>9. \A j \in 0 .. s+1 : f[j] \in Node
  BY <1>1, ChainFacts
<1>10. \A j, m \in 0 .. s : f[j] = f[m] => j = m
  BY <1>1, ChainFacts
<1>11. \A j, m \in 1 .. s+1 : f[j] = f[m] => j = m
  BY <1>1, ChainFacts
<1>12. p[t] \in NodesOf(own) /\ p[t] \in Node
  BY <1>1, <1>4, <1>9, ChainFacts
<1>13. g \in [Nat -> Node]
  <2>1. \A j \in Nat : j+1 \in Nat
    OBVIOUS
  <2> QED BY <1>g, <2>1 DEF Shorter
<1>14. g[0] = f[0] /\ \A j \in Nat : j # 0 => g[j] = f[j+1]
  BY <1>g DEF Shorter
<1>15. /\ next'[f[0]] = f[2]
       /\ \A j \in 1 .. s : next'[f[j]] = f[j+1]
  <2>1. next'[f[0]] = f[2]
    BY <1>1, <1>2, <1>4, <1>12 DEF Typed
  <2>2. ASSUME NEW j \in 1 .. s PROVE next'[f[j]] = f[j+1]
    <3>1. j \in 0 .. s /\ j \in 0 .. s+1 /\ 0 \in 0 .. s /\ j # 0
      OBVIOUS
    <3>2. f[j] # p[t] /\ f[j] \in Node
      BY <1>4, <1>9, <1>10, <3>1
    <3> QED BY <1>1, <1>2, <1>7, <3>1, <3>2 DEF Typed
  <2> QED BY <2>1, <2>2
<1>16. ASSUME NEW j \in 0 .. r PROVE next'[g[j]] = g[j+1] /\ prev'[g[j+1]] = g[j]
  <2>1. j+1 \in Nat /\ j+1 # 0 /\ j+1 \in 1 .. s /\ j+1 \in 0 .. s /\ (j+1)+1 \in 1 .. s+1
        /\ 2 \in 1 .. s+1 /\ j \in Nat
    BY <1>5
  <2>2. g[j+1] = f[(j+1)+1]
    BY <1>14, <2>1
  <2>3. CASE j = 0
    <3>1. (j+1)+1 = 2
      BY <2>3
    <3> QED BY <1>2, <1>4, <1>14, <1>15, <2>2, <2>3, <3>1
  <2>4. CASE j # 0
    <3>1. g[j] = f[j+1]
      BY <1>14, <2>1, <2>4
    <3>2. f[(j+1)+1] # n[t]
      <4>1. (j+1)+1 # 2
        BY <2>1, <2>4
      <4> QED BY <1>4, <1>11, <2>1, <4>1
    <3> QED BY <1>2, <1>8, <1>15, <2>1, <2>2, <3>1, <3>2
  <2> QED BY <2>3, <2>4
<1>17. ASSUME NEW j \in 1 .. r
       PROVE  g[j] = f[j+1] /\ j+1 \in 1 .. s /\ j+1 # 1
  BY <1>5, <1>14
<1>18. \A j \in 1 .. r : g[j] \in Inserted' /\ ListOf[g[j]] = own
  BY <1>3, <1>7, <1>17
<1>19. ASSUME NEW j \in 1 .. r, NEW m \in 1 .. r, g[j] = g[m] PROVE j = m
  <2>1. j+1 = m+1
    BY <1>7, <1>17, <1>19
  <2> QED BY <2>1
<1>20. ASSUME NEW j \in 1 .. r-1 PROVE Key[g[j]] <= Key[g[j+1]]
  <2>1. j \in 1 .. r /\ j+1 \in 1 .. r /\ j+1 \in 1 .. s-1
    BY <1>5
  <2> QED BY <1>7, <1>17, <2>1
<1>21. g[0] = Head(own) /\ g[r+1] = Head(own)
  <2>1. r+1 \in Nat /\ r+1 # 0 /\ (r+1)+1 = s+1
    BY <1>5
  <2> QED BY <1>7, <1>14, <2>1
<1>22. r = Left(own)'
  <2>1. Cardinality(Of(Inserted, own)) \in Nat /\ Cardinality(Of(Served, own)) \in Nat
    BY Membership, OfFinite
  <2>2. Cardinality(Of(Served', own)) = Cardinality(Of(Served, own)) + 1
    <3>1. Served \subseteq Elements /\ e \in Elements /\ e \notin Served
      BY <1>3, Membership
    <3> QED BY <1>3, <1>6, <3>1, OfGrows
  <2>3. Of(Inserted, own)' = Of(Inserted, own) /\ Of(Served, own)' = Of(Served', own)
    BY <1>3 DEF Of
  <2> QED BY <1>5, <1>7, <2>1, <2>2, <2>3 DEF Left
<1>23. Chain(own, r, g)'
  BY <1>16, <1>18, <1>19, <1>20, <1>21, <1>22, Zenon DEF Chain
<1>24. Placed(t, r, g)'
  <2>1. 1 \in 1 .. s
    BY <1>4
  <2>2. target'[t] = f[1] /\ f[1] \in Elements /\ ListOf[f[1]] = own
    BY <1>2, <1>4, <1>7, <2>1, Membership
  <2>3. \A j \in 1 .. r : g[j] # f[1]
    BY <1>7, <1>17, <2>1
  <2> QED BY <1>2, <1>6, <2>2, <2>3 DEF Placed, Cutting
<1> QED BY <1>g, <1>2, <1>3, <1>5, <1>12, <1>13, <1>23, <1>24

-----------------------------------------------------------------------------
(* Whatever the thread does, its list is a chain again, and nothing else   *)
(* has changed.                                                            *)

WorkStep(t) ==
  \/ InsertWalks(t) \/ InsertPlaces(t) \/ InsertLinks(t)
  \/ LookupTests(t) \/ LookupMisses(t) \/ LookupTakes(t)
  \/ DeleteReads(t) \/ DeleteChecks(t) \/ DeleteUnlinks(t)

LEMMA TouchesOne ==
  ASSUME Typed, NEW t \in Threads, NEW x, x \in NodesOf(MyList(t)),
         \A y \in Node : y # x => next'[y] = next[y] /\ prev'[y] = prev[y],
         Inserted \subseteq Inserted',
         \A m \in Lists : m # MyList(t) => Left(m)' = Left(m)
  PROVE  Touches(t)
BY DEF Touches

LEMMA SameLeft ==
  ASSUME Inserted' = Inserted, Served' = Served
  PROVE  \A m : Left(m)' = Left(m)
BY DEF Left, Of

LEMMA StillChain ==
  ASSUME NEW t \in Threads, NEW own, NEW s \in Nat, NEW f \in [Nat -> Node],
         AtWork(t, own, s, f), Inserted' = Inserted, Served' = Served,
         \A k \in 0 .. s : next'[f[k]] = next[f[k]],
         \A k \in 0 .. s : prev'[f[k+1]] = f[k] \/ Mending(own, f[k+1])'
  PROVE  Chain(own, s, f)'
<1>1. /\ f[0] = Head(own) /\ f[s+1] = Head(own)
      /\ \A k \in 1 .. s : f[k] \in Inserted /\ ListOf[f[k]] = own
      /\ \A j, k \in 1 .. s : f[j] = f[k] => j = k
      /\ \A k \in 1 .. s-1 : Key[f[k]] <= Key[f[k+1]]
      /\ \A k \in 0 .. s : next[f[k]] = f[k+1]
      /\ s = Left(own)
  BY Zenon DEF AtWork, Chain
<1>2. \A k \in 1 .. s : f[k] \in Inserted'
  BY <1>1, Zenon
<1>3. \A k \in 0 .. s : next'[f[k]] = f[k+1]
  BY <1>1, Zenon
<1>4. s = Left(own)'
  BY <1>1, SameLeft
<1> QED BY <1>1, <1>2, <1>3, <1>4, Zenon DEF Chain

(* What becomes of the list: the same chain, or one with Mine(t) in it, or *)
(* one without its first element.                                          *)
Becomes(t, own, s, f, e) ==
  \/ /\ Inserted' = Inserted /\ Served' = Served
     /\ Chain(own, s, f)' /\ Placed(t, s, f)'
  \/ /\ e \in Elements \ Inserted /\ Inserted' = Inserted \cup {e} /\ Served' = Served
     /\ \E k \in 1 .. s+1 : \E g \in [Nat -> Node] :
          g = Longer(f, k, e) /\ Chain(own, s+1, g)' /\ Placed(t, s+1, g)'
  \/ /\ e \in Inserted \ Served /\ Served' = Served \cup {e} /\ Inserted' = Inserted
     /\ \E r \in Nat : \E g \in [Nat -> Node] :
          /\ s = r+1 /\ g = Shorter(f)
          /\ Chain(own, r, g)' /\ Placed(t, r, g)'

LEMMA WorkOnList ==
  ASSUME NEW t \in Threads, NEW own, NEW s \in Nat, NEW f \in [Nat -> Node],
         AtWork(t, own, s, f), WorkStep(t), NEW e, e = Mine(t)
  PROVE  Touches(t) /\ missed' = missed /\ Becomes(t, own, s, f, e)
<1>1. /\ Typed /\ Locks /\ own \in Lists /\ own = MyList(t) /\ Chain(own, s, f)
      /\ Goes(t) /\ Others(t) /\ i' = i
  BY WorkGoesOn, Zenon DEF AtWork, WorkStep, Goes
<1>2. /\ Mine(t) \in NodesOf(own) /\ Mine(t) \in Elements
      /\ \A k \in 0 .. s : next[f[k]] = f[k+1]
      /\ \A k \in 0 .. s : ~(pc[t] \in {"linkback", "cutP"} /\ n[t] = f[k+1]) =>
                             prev[f[k+1]] = f[k]
  BY WorkFacts
<1>3. \A k \in 0 .. s : k \in 0 .. s+1 /\ k+1 \in 0 .. s+1
  OBVIOUS
<1>4. \A k \in 0 .. s : f[k] \in Node /\ f[k+1] \in Node /\ f[k] \in NodesOf(own)
                        /\ f[k+1] \in NodesOf(own)
  BY <1>1, <1>3, ChainFacts
<1>5. MyList(t)' = own
  BY <1>1 DEF MyList, Mine
<1>6. ASSUME Inserted' = Inserted, Served' = Served
      PROVE  \A m \in Lists : m # MyList(t) => Left(m)' = Left(m)
  BY <1>6, SameLeft
<1>7. CASE InsertWalks(t)
  <2>1. /\ Inserted' = Inserted /\ Served' = Served /\ UNCHANGED shape /\ Placed(t, s, f)'
        /\ missed' = missed /\ pc[t] \in {"first", "walk"}
    BY <1>7, WalkOnList DEF InsertWalks, verdict, Goto
  <2>2. Chain(own, s, f)'
    BY <1>2, <2>1, StillChain DEF shape
  <2>3. Touches(t)
    BY <1>6, <2>1 DEF Touches, shape
  <2> QED BY <2>1, <2>2, <2>3 DEF Becomes
<1>8. CASE InsertPlaces(t)
  <2>1. /\ Inserted' = Inserted /\ Served' = Served /\ Placed(t, s, f)' /\ missed' = missed
        /\ \A x \in Node : x # Mine(t) => next'[x] = next[x] /\ prev'[x] = prev[x]
        /\ pc[t] = "walk"
    BY <1>8, PlaceOnList DEF InsertPlaces, verdict, Goto
  <2>2. \A k \in 0 .. s+1 : f[k] # Mine(t)
    BY <2>1, WorkFacts DEF Inserting
  <2>3. \A k \in 0 .. s : /\ next'[f[k]] = next[f[k]] /\ prev'[f[k+1]] = prev[f[k+1]]
    BY <1>3, <1>4, <2>1, <2>2
  <2>4. Chain(own, s, f)'
    BY <1>2, <2>1, <2>3, StillChain
  <2>5. Touches(t)
    BY <1>1, <1>2, <1>6, <2>1, TouchesOne
  <2> QED BY <2>1, <2>4, <2>5 DEF Becomes
<1>9. CASE InsertLinks(t) /\ pc[t] = "link"
  <2>1. /\ e \in Elements \ Inserted /\ Inserted' = Inserted \cup {e}
        /\ Served' = Served
        /\ p[t] \in NodesOf(own) /\ next' = [next EXCEPT ![p[t]] = e] /\ prev' = prev
        /\ \E k \in 1 .. s+1 : \E g \in [Nat -> Node] :
             g = Longer(f, k, e) /\ Chain(own, s+1, g)' /\ Placed(t, s+1, g)'
    BY <1>9, LinkOnList
  <2>2. missed' = missed
    BY <1>9 DEF InsertLinks, verdict
  <2>3. \A m \in Lists : m # MyList(t) => Left(m)' = Left(m)
    <3> SUFFICES ASSUME NEW m \in Lists, m # MyList(t) PROVE Left(m)' = Left(m)
      OBVIOUS
    <3>1. m # ListOf[e]
      BY DEF MyList
    <3>2. Of(Inserted, m)' = Of(Inserted, m) /\ Of(Served, m)' = Of(Served, m)
      <4>1. Of(Inserted', m) = Of(Inserted, m)
        BY <2>1, <3>1, Membership, OfGrows
      <4>2. Of(Inserted, m)' = Of(Inserted', m)
        BY DEF Of
      <4> QED BY <2>1, <4>1, <4>2 DEF Of
    <3> QED BY <3>2 DEF Left
  <2>4. \A y \in Node : y # p[t] => next'[y] = next[y] /\ prev'[y] = prev[y]
    BY <1>1, <2>1 DEF Typed
  <2>5. Touches(t)
    BY <1>1, <2>1, <2>3, <2>4, TouchesOne
  <2> QED BY <2>1, <2>2, <2>5 DEF Becomes
<1>10. CASE InsertLinks(t) /\ pc[t] = "linkback"
  <2>1. /\ Inserted' = Inserted /\ Served' = Served
        /\ next' = next /\ prev' = [prev EXCEPT ![n[t]] = Mine(t)]
        /\ n[t] \in NodesOf(own) /\ \A k \in 0 .. s : prev'[f[k+1]] = f[k]
        /\ Placed(t, s, f)'
    BY <1>10, LinkBackOnList
  <2>2. missed' = missed
    BY <1>10 DEF InsertLinks, verdict
  <2>3. Chain(own, s, f)'
    BY <2>1, StillChain
  <2>4. \A y \in Node : y # n[t] => next'[y] = next[y] /\ prev'[y] = prev[y]
    BY <1>1, <2>1 DEF Typed
  <2>5. Touches(t)
    BY <1>1, <1>6, <2>1, <2>4, TouchesOne
  <2> QED BY <2>1, <2>2, <2>3, <2>5 DEF Becomes
<1>11. CASE LookupTests(t) \/ LookupMisses(t) \/ LookupTakes(t) \/ DeleteReads(t) \/ DeleteChecks(t)
  <2>1. /\ Inserted' = Inserted /\ Served' = Served /\ UNCHANGED shape
        /\ Placed(t, s, f)' /\ missed' = missed
    BY <1>11, ReadOnList
  <2>2. pc[t] \notin {"linkback", "cutP"}
    BY <1>11 DEF LookupTests, LookupMisses, LookupTakes, DeleteReads, DeleteChecks, Goto
  <2>3. Chain(own, s, f)'
    BY <1>2, <2>1, <2>2, StillChain DEF shape
  <2>4. Touches(t)
    BY <1>6, <2>1 DEF Touches, shape
  <2> QED BY <2>1, <2>3, <2>4 DEF Becomes
<1>12. CASE DeleteUnlinks(t) /\ pc[t] = "cutN"
  <2>1. /\ Inserted' = Inserted /\ Served' = Served
        /\ next' = next /\ prev' = [prev EXCEPT ![n[t]] = p[t]]
        /\ s >= 1 /\ n[t] = f[2] /\ n[t] \in NodesOf(own)
        /\ \A k \in 0 .. s : prev'[f[k+1]] = f[k] \/ f[k+1] = n[t]
        /\ Placed(t, s, f)' /\ pc'[t] = "cutP" /\ n' = n
    BY <1>12, CutNOnList, Zenon
  <2>2. missed' = missed
    BY <1>12 DEF DeleteUnlinks, verdict
  <2>3. \A x : x = n[t] => Mending(own, x)'
    BY <1>5, <2>1 DEF Mending
  <2>4. Chain(own, s, f)'
    BY <2>1, <2>3, StillChain
  <2>5. \A y \in Node : y # n[t] => next'[y] = next[y] /\ prev'[y] = prev[y]
    BY <1>1, <2>1 DEF Typed
  <2>6. Touches(t)
    BY <1>1, <1>6, <2>1, <2>5, TouchesOne
  <2> QED BY <2>1, <2>2, <2>4, <2>6 DEF Becomes
<1>13. CASE DeleteUnlinks(t) /\ pc[t] = "cutP"
  <2>1. /\ e \in Inserted \ Served /\ Served' = Served \cup {e} /\ Inserted' = Inserted
        /\ p[t] \in NodesOf(own) /\ next' = [next EXCEPT ![p[t]] = n[t]] /\ prev' = prev
        /\ \E r \in Nat : \E g \in [Nat -> Node] :
             /\ s = r+1 /\ g = Shorter(f)
             /\ Chain(own, r, g)' /\ Placed(t, r, g)'
    BY <1>13, CutPOnList
  <2>2. missed' = missed
    BY <1>13 DEF DeleteUnlinks, verdict
  <2>3. \A m \in Lists : m # MyList(t) => Left(m)' = Left(m)
    <3> SUFFICES ASSUME NEW m \in Lists, m # MyList(t) PROVE Left(m)' = Left(m)
      OBVIOUS
    <3>1. m # ListOf[e] /\ e \in Elements /\ e \notin Served /\ Served \subseteq Elements
      BY <2>1, Membership DEF MyList
    <3>2. Of(Inserted, m)' = Of(Inserted, m) /\ Of(Served, m)' = Of(Served, m)
      <4>1. Of(Served', m) = Of(Served, m)
        BY <2>1, <3>1, OfGrows
      <4>2. Of(Served, m)' = Of(Served', m)
        BY DEF Of
      <4> QED BY <2>1, <4>1, <4>2 DEF Of
    <3> QED BY <3>2 DEF Left
  <2>4. \A y \in Node : y # p[t] => next'[y] = next[y] /\ prev'[y] = prev[y]
    BY <1>1, <2>1 DEF Typed
  <2>5. Touches(t)
    BY <1>1, <2>1, <2>3, <2>4, TouchesOne
  <2> QED BY <2>1, <2>2, <2>5 DEF Becomes
<1>14. CASE DeleteUnlinks(t) /\ pc[t] \in {"clearN", "clearP"}
  <2>1. /\ Inserted' = Inserted /\ Served' = Served
        /\ target[t] \in NodesOf(own) /\ \A k \in 0 .. s+1 : f[k] # target[t]
        /\ \A x \in Node : x # target[t] => next'[x] = next[x] /\ prev'[x] = prev[x]
        /\ Placed(t, s, f)'
    BY <1>14, ClearOnList
  <2>2. missed' = missed
    BY <1>14 DEF DeleteUnlinks, verdict
  <2>3. \A k \in 0 .. s : /\ next'[f[k]] = next[f[k]] /\ prev'[f[k+1]] = prev[f[k+1]]
    BY <1>3, <1>4, <2>1
  <2>4. Chain(own, s, f)'
    BY <1>2, <1>14, <2>1, <2>3, StillChain
  <2>5. Touches(t)
    BY <1>1, <1>6, <2>1, TouchesOne
  <2> QED BY <2>1, <2>2, <2>4, <2>5 DEF Becomes
<1>15. /\ InsertLinks(t) => pc[t] \in {"link", "linkback"}
       /\ DeleteUnlinks(t) => pc[t] \in {"cutN", "cutP", "clearN", "clearP"}
  BY DEF InsertLinks, DeleteUnlinks, Goto
<1> QED BY <1>7, <1>8, <1>9, <1>10, <1>11, <1>12, <1>13, <1>14, <1>15 DEF WorkStep

-----------------------------------------------------------------------------
(* The sum over the lists.                                                 *)

LEMMA BaseFacts ==
  /\ Base(0) = 0 /\ Base(NLists) = Cardinality(Inserted) - Cardinality(Served)
  /\ \A l \in Lists : /\ Base(l + 1) = Base(l) + Left(l)
                      /\ Base(l) \in Int /\ Left(l) \in Int
                      /\ Base(l + 1) < CountMax
<1>1. Inserted \subseteq Elements /\ Served \subseteq Elements
  BY Membership
<1>2. Base(0) = 0 /\ Base(NLists) = Cardinality(Inserted) - Cardinality(Served)
  BY <1>1, BeforeEnds DEF Base
<1>3. ASSUME NEW l \in Lists
      PROVE  /\ Base(l + 1) = Base(l) + Left(l)
             /\ Base(l) \in Int /\ Left(l) \in Int /\ Base(l + 1) < CountMax
  <2>1. /\ Cardinality(Before(Inserted, l)) \in Nat /\ Cardinality(Before(Served, l)) \in Nat
        /\ Cardinality(Of(Inserted, l)) \in Nat /\ Cardinality(Of(Served, l)) \in Nat
    BY <1>1, OfFinite
  <2>2. /\ Cardinality(Before(Inserted, l + 1)) \in Nat
        /\ Cardinality(Before(Served, l + 1)) \in Nat
    BY <1>1, OfFinite
  <2>3. /\ Cardinality(Before(Inserted, l + 1)) =
             Cardinality(Before(Inserted, l)) + Cardinality(Of(Inserted, l))
        /\ Cardinality(Before(Served, l + 1)) =
             Cardinality(Before(Served, l)) + Cardinality(Of(Served, l))
    BY <1>1, BeforeNext
  <2>4. /\ Cardinality(Before(Inserted, l + 1)) <= Cardinality(Inserted)
        /\ Cardinality(Inserted) <= Cardinality(Elements)
        /\ Cardinality(Inserted) \in Nat /\ Cardinality(Elements) \in Nat
    BY <1>1, BeforeMonotone
  <2>5. Base(l + 1) = Base(l) + Left(l) /\ Base(l) \in Int /\ Left(l) \in Int
    BY <2>1, <2>3 DEF Base, Left
  <2>6. Base(l + 1) < CountMax
    BY <2>2, <2>4 DEF Base, CountMax
  <2> QED BY <2>5, <2>6
<1> QED BY <1>2, <1>3

-----------------------------------------------------------------------------
(* The invariant holds from the start and after every step.                *)

LEMMA InitChains ==
  ASSUME Init, NEW l \in Lists
  PROVE  /\ Inserted = {} /\ Served = {}
         /\ \E f \in [Nat -> Node] : Chain(l, 0, f)
<1>1. /\ next = [x \in Node |-> IF x \in Heads THEN x ELSE Null]
      /\ prev = [x \in Node |-> IF x \in Heads THEN x ELSE Null]
      /\ \A t \in Threads : pc[t] = "insert" /\ i[t] = 0
  BY DEF Init
<1>2. Inserted = {} /\ Served = {}
  <2>1. \A e \in Elements : e[1] \in Threads /\ e[2] \in Nat
    BY CountsAssumption DEF Elements
  <2> QED BY <1>1, <2>1, Membership DEF HasIn, HasOut, Inserting, Deleting
<1>3. PICK f : f = [k \in Nat |-> Head(l)]
  OBVIOUS
<1>4. Head(l) \in Node /\ Head(l) \in Heads
  BY ElementFacts DEF Heads
<1>5. f \in [Nat -> Node] /\ f[0] = Head(l) /\ f[1] = Head(l)
  BY <1>3, <1>4
<1>6. next[Head(l)] = Head(l) /\ prev[Head(l)] = Head(l)
  BY <1>1, <1>4
<1>7. Left(l) = 0
  <2>1. Of(Inserted, l) = {} /\ Of(Served, l) = {}
    BY <1>2 DEF Of
  <2> QED BY <2>1, FS_EmptySet DEF Left
<1>8. (\A k \in 1 .. 0 : FALSE) /\ (\A k \in 1 .. 0-1 : FALSE) /\ (\A k \in 0 .. 0 : k = 0)
      /\ 0+1 = 1
  OBVIOUS
<1>9. \A k \in 0 .. 0 : next[f[k]] = f[k+1] /\ prev[f[k+1]] = f[k]
  BY <1>5, <1>6, <1>8
<1>10. Chain(l, 0, f)
  BY <1>5, <1>7, <1>8, <1>9, Zenon DEF Chain
<1> QED BY <1>2, <1>5, <1>10

LEMMA InitIInv == Init => IInv
<1> SUFFICES ASSUME Init, Locking PROVE /\ Typed /\ Locks
                                        /\ \A l \in Lists : ListOk(l)
                                        /\ \A t \in Threads : Counting(t)
                                        /\ missed = {} /\ segv = FALSE
  BY DEF IInv
<1>1. /\ next = [x \in Node |-> IF x \in Heads THEN x ELSE Null]
      /\ prev = [x \in Node |-> IF x \in Heads THEN x ELSE Null]
      /\ lock = [l \in Lists |-> Free] /\ lenLock = Free
      /\ pc = [t \in Threads |-> "insert"] /\ i = [t \in Threads |-> 0]
      /\ n = [t \in Threads |-> Null] /\ p = [t \in Threads |-> Null]
      /\ target = [t \in Threads |-> Null] /\ count = [t \in Threads |-> 0]
      /\ missed = {} /\ segv = FALSE
  BY DEF Init
<1>2. Typed
  BY <1>1, CountsAssumption
     DEF Typed, Bounded, Pointer, Node, Stages, Inserting, Busy, Measuring
<1>3. \A t \in Threads : pc[t] = "insert" /\ i[t] = 0
  BY <1>1
<1>4. Locks /\ \A t \in Threads : Counting(t)
  BY <1>3 DEF Locks, Counting, Busy, Measuring
<1>5. ASSUME NEW l \in Lists PROVE ListOk(l)
  <2>1. PICK f \in [Nat -> Node] : Chain(l, 0, f)
    BY InitChains
  <2>2. \A t \in Threads : At(t, l, 0, f)
    BY <1>3 DEF At, Busy
  <2>3. 0 \in Nat
    OBVIOUS
  <2> QED BY <2>1, <2>2, <2>3 DEF ListOk
<1> QED BY <1>1, <1>2, <1>4, <1>5

LEMMA WorkKeepsIInv ==
  ASSUME Locking, IInv, sync' = sync, NEW t \in Threads, WorkStep(t)
  PROVE  IInv'
<1>1. /\ Typed /\ Locks /\ missed = {} /\ segv = FALSE
      /\ \A l \in Lists : ListOk(l)
      /\ \A u \in Threads : Counting(u)
  BY Zenon DEF IInv
<1>2. pc[t] \in Busy /\ segv' = segv
  BY DEF WorkStep, InsertWalks, InsertPlaces, InsertLinks, LookupTests, LookupMisses,
         LookupTakes, DeleteReads, DeleteChecks, DeleteUnlinks, Goto, Busy, verdict
<1>3. PICK own \in Lists : own = MyList(t)
  BY <1>1, <1>2, MineTyped
<1>4. PICK s \in Nat, f \in [Nat -> Node] : Chain(own, s, f) /\ \A u \in Threads : At(u, own, s, f)
  BY <1>1 DEF ListOk
<1>5. AtWork(t, own, s, f)
  BY <1>1, <1>2, <1>3, <1>4 DEF AtWork, At
<1>6. Typed' /\ Locks' /\ Goes(t) /\ Others(t)
  BY <1>5, WorkGoesOn DEF WorkStep
<1>7. PICK e : e = Mine(t)
  OBVIOUS
<1>8. /\ Touches(t) /\ missed' = missed
      /\ \E r \in Nat : \E g \in [Nat -> Node] : Chain(own, r, g)' /\ Placed(t, r, g)'
  <2>1. s+1 \in Nat
    OBVIOUS
  <2>2. Touches(t) /\ missed' = missed /\ Becomes(t, own, s, f, e)
    BY <1>5, <1>7, WorkOnList
  <2> QED BY <2>1, <2>2 DEF Becomes
<1>9. (\A l \in Lists : ListOk(l)') /\ (\A u \in Threads : Counting(u)')
  BY <1>1, <1>3, <1>6, <1>8, Worked
<1> QED BY <1>1, <1>2, <1>6, <1>8, <1>9 DEF IInv

LEMMA PassKeepsIInv ==
  ASSUME Locking, IInv, sync' = sync, NEW t \in Threads,
         \/ InsertBegins(t) \/ TurnBegins(t)
         \/ PassEnds(t, "inserted", "insert") \/ PassEnds(t, "deleted", "turn")
  PROVE  IInv' /\ Inserted' = Inserted /\ Served' = Served
<1>1. /\ Typed /\ Locks /\ missed = {} /\ segv = FALSE
      /\ \A l \in Lists : ListOk(l)
      /\ \A u \in Threads : Counting(u)
  BY Zenon DEF IInv
<1>2. Typed' /\ Locks' /\ Others(t)
  BY <1>1, EntryExitSteps, OthersKeep DEF Insert, Delete
<1>3. /\ UNCHANGED shape /\ missed' = missed /\ segv' = segv
      /\ pc[t] \in {"insert", "turn", "inserted", "deleted"}
      /\ pc'[t] \in {"first", "lookup", "insert", "turn"}
      /\ \/ pc[t] = "insert" /\ pc'[t] = "first" /\ i' = i
         \/ pc[t] = "turn" /\ pc'[t] = "lookup" /\ i' = i
         \/ pc[t] = "inserted" /\ pc'[t] = "insert" /\ i'[t] = i[t] + 1
         \/ pc[t] = "deleted" /\ pc'[t] = "turn" /\ i'[t] = i[t] + 1
  BY <1>1 DEF InsertBegins, TurnBegins, PassEnds, Goto, verdict, local, Typed
<1>4. Inserted' = Inserted /\ Served' = Served
  BY <1>1, <1>2, <1>3, QuietSets DEF Inserting, Deleting
<1>5. ASSUME NEW l \in Lists PROVE ListOk(l)'
  <2>1. PICK s \in Nat, f \in [Nat -> Node] : Chain(l, s, f) /\ \A u \in Threads : At(u, l, s, f)
    BY <1>1 DEF ListOk
  <2>2. At(t, l, s, f)'
    BY <1>3 DEF At, Placed, Cutting
  <2> QED BY <1>1, <1>2, <1>3, <1>4, <2>1, <2>2, Untouched
<1>6. ASSUME NEW u \in Threads PROVE Counting(u)'
  <2>1. CASE u = t
    BY <1>3, <2>1 DEF Counting
  <2>2. CASE u # t
    <3>1. pc'[u] = pc[u] /\ i'[u] = i[u] /\ count'[u] = count[u]
      BY <1>2, <2>2 DEF Others
    <3>2. \A m : Base(m)' = Base(m)
      BY <1>4 DEF Base, Before
    <3> QED BY <1>1, <1>4, <3>1, <3>2 DEF Counting
  <2> QED BY <2>1, <2>2
<1> QED BY <1>1, <1>2, <1>3, <1>4, <1>5, <1>6 DEF IInv

LEMMA LengthKeepsIInv ==
  ASSUME Locking, IInv, sync' = sync, NEW t \in Threads, Length(t)
  PROVE  IInv' /\ Inserted' = Inserted /\ Served' = Served
<1> USE DEF Goto
<1>1. /\ Typed /\ Locks /\ missed = {} /\ segv = FALSE
      /\ \A l \in Lists : ListOk(l)
      /\ \A u \in Threads : Counting(u)
  BY Zenon DEF IInv
<1>2. Typed' /\ Locks' /\ Others(t)
  BY <1>1, LengthSteps, OthersKeep
<1>3. AfterLength = "unlockall"
  BY DEF AfterLength
<1>4. UNCHANGED shape /\ missed' = missed /\ segv' = segv
  BY DEF Length, LengthBegins, LengthLocks, LengthSkips, LengthEnters, LengthCounts,
         LengthUnlocks, LengthEnds, verdict
<1>5. \/ pc[t] = "insert" /\ i[t] = Iterations /\ pc'[t] \in Measuring
      \/ pc[t] \in Measuring /\ (pc'[t] \in Measuring \/ (pc'[t] = "turn" /\ i'[t] = 0))
  <2>1. CASE LengthBegins(t)
    BY <1>1, <2>1 DEF LengthBegins, Typed, Measuring
  <2>2. CASE LengthLocks(t) \/ LengthSkips(t) \/ LengthUnlocks(t) \/ LengthCounts(t)
    <3>1. /\ pc[t] \in {"lockall", "list", "count", "unlockall"}
          /\ \E q \in {"lockall", "list", "count", "unlockall", "unlocklen"} :
               pc' = [pc EXCEPT ![t] = q]
      BY <1>3, <2>2 DEF LengthLocks, LengthSkips, LengthUnlocks, LengthCounts, NextList
    <3> QED BY <1>1, <3>1 DEF Typed, Measuring
  <2>3. CASE LengthEnters(t)
    BY <1>1, <2>3 DEF LengthEnters, Typed, Measuring
  <2>4. CASE LengthEnds(t)
    BY <1>1, <2>4 DEF LengthEnds, Typed, Measuring, Bounded, local
  <2> QED BY <2>1, <2>2, <2>3, <2>4 DEF Length
<1>6. Inserted' = Inserted /\ Served' = Served
  BY <1>1, <1>2, <1>5, QuietSets
<1>7. \A m : Base(m)' = Base(m)
  BY <1>6 DEF Base, Before
<1>8. /\ pc[t] \notin {"linkback", "cutP"} /\ pc'[t] \notin Busy
      /\ pc[t] \in {"list", "count"} => i[t] \in Lists /\ i[t] < NLists /\ i[t] \in Nat
  <2>1. pc[t] \in {"list", "count"} => i[t] < NLists /\ i[t] \in Nat
    BY <1>1 DEF Typed, Bounded, Measuring
  <2>2. pc[t] \in {"list", "count"} => i[t] \in Lists
    BY <2>1, CountsAssumption DEF Lists
  <2> QED BY <1>5, <2>1, <2>2 DEF Measuring, Busy
(* What the step does to the count, given the list it is at.               *)
<1>9. ASSUME NEW l \in Lists, l = i[t], NEW s \in Nat, NEW f \in [Nat -> Node],
             Chain(l, s, f), At(t, l, s, f), pc[t] \in {"list", "count"}
      PROVE  \/ /\ pc'[t] = "count" /\ i'[t] = l
                /\ \E k \in 0 .. s : n'[t] = f[k] /\ count'[t] = Base(l) + k
             \/ /\ pc'[t] \in {"list", "unlockall"} /\ count'[t] = Base(l + 1)
                /\ IF l + 1 < NLists THEN pc'[t] = "list" /\ i'[t] = l + 1
                                     ELSE pc'[t] = "unlockall" /\ i'[t] = 0
  <2>1. /\ f[0] = Head(l) /\ f[s+1] = Head(l) /\ s = Left(l)
        /\ \A k \in 0 .. s : next[f[k]] = f[k+1]
    BY <1>9, Zenon DEF Chain
  <2>2. \A k \in 1 .. s : f[k] # Head(l)
    BY <1>9, ChainFacts
  <2>3. Base(l + 1) = Base(l) + s /\ Base(l) \in Int /\ Base(l + 1) < CountMax
    BY <2>1, BaseFacts
  <2>4. ASSUME NextList(t, pc[t], "list", AfterLength)
        PROVE  IF l + 1 < NLists THEN pc'[t] = "list" /\ i'[t] = l + 1
                                 ELSE pc'[t] = "unlockall" /\ i'[t] = 0
    BY <1>1, <1>3, <1>9, <2>4 DEF NextList, Typed
  <2>5. CASE LengthSkips(t)
    <3>1. pc[t] = "list" /\ NextList(t, pc[t], "list", AfterLength) /\ count' = count
          /\ next[Head(l)] = Head(l)
      BY <1>9, <2>5 DEF LengthSkips, NextList
    <3>2. s = 0
      <4>1. 0 \in 0 .. s /\ 0+1 = 1 /\ (s # 0 => 1 \in 1 .. s)
        OBVIOUS
      <4>2. next[f[0]] = f[1]
        BY <2>1, <4>1
      <4> QED BY <2>1, <2>2, <3>1, <4>1, <4>2
    <3>3. count[t] = Base(l)
      BY <1>1, <1>9, <3>1 DEF Counting
    <3> QED BY <2>3, <2>4, <3>1, <3>2, <3>3
  <2>6. CASE LengthEnters(t)
    <3>1. pc[t] = "list" /\ pc'[t] = "count" /\ n'[t] = f[0] /\ i' = i /\ count' = count
      BY <1>1, <1>9, <2>1, <2>6 DEF LengthEnters, Typed
    <3>2. count[t] = Base(l)
      BY <1>1, <1>9, <3>1 DEF Counting
    <3>3. 0 \in 0 .. s /\ Base(l) + 0 = Base(l)
      BY <2>3
    <3> QED BY <1>9, <3>1, <3>2, <3>3
  <2>7. CASE LengthCounts(t)
    <3>1. pc[t] = "count"
      BY <2>7 DEF LengthCounts, NextList
    <3>2. PICK k \in 0 .. s : n[t] = f[k] /\ count[t] = Base(l) + k
      BY <1>9, <3>1 DEF At
    <3>3. next[n[t]] = f[k+1]
      BY <2>1, <3>2
    <3>4. CASE f[k+1] # Head(l)
      <4>1. /\ pc'[t] = "count" /\ n'[t] = f[k+1] /\ count'[t] = Counted(t) /\ i' = i
        BY <1>1, <1>9, <2>7, <3>3, <3>4 DEF LengthCounts, Typed
      <4>2. k # s
        BY <2>1, <3>4
      <4>3. k+1 \in 0 .. s /\ k + 1 <= s
        BY <4>2
      <4>4. count[t] < CountMax /\ CountMax \in Int
        <5>1. CountMax \in Int
          BY ElementFacts, FS_CardinalityType DEF CountMax
        <5> QED BY <2>3, <3>2, <5>1
      <4>5. count'[t] = Base(l) + (k + 1)
        BY <2>3, <3>2, <4>1, <4>4 DEF Counted
      <4> QED BY <1>9, <4>1, <4>3, <4>5
    <3>5. CASE f[k+1] = Head(l)
      <4>1. k = s
        <5>1. k # s => k+1 \in 1 .. s
          OBVIOUS
        <5> QED BY <2>2, <3>5, <5>1
      <4>2. NextList(t, pc[t], "list", AfterLength) /\ count' = count
        BY <1>9, <2>7, <3>1, <3>3, <3>5 DEF LengthCounts
      <4>3. count[t] = Base(l + 1)
        BY <2>3, <3>2, <4>1
      <4> QED BY <2>4, <4>2, <4>3
    <3> QED BY <3>4, <3>5
  <2>8. LengthSkips(t) \/ LengthEnters(t) \/ LengthCounts(t)
    BY <1>9 DEF Length, LengthBegins, LengthLocks, LengthUnlocks, LengthEnds, NextList
  <2> QED BY <2>5, <2>6, <2>7, <2>8
<1>10. ASSUME NEW l \in Lists PROVE ListOk(l)'
  <2>1. PICK s \in Nat, f \in [Nat -> Node] : Chain(l, s, f) /\ \A u \in Threads : At(u, l, s, f)
    BY <1>1 DEF ListOk
  <2>2. At(t, l, s, f)'
    <3>1. CASE pc'[t] = "count" /\ i'[t] = l
      <4>1. pc[t] \in {"list", "count"} /\ i'[t] = i[t]
        <5>1. LengthEnters(t) \/ LengthCounts(t)
          BY <1>1, <1>3, <3>1 DEF Length, LengthBegins, LengthLocks, LengthSkips,
             LengthUnlocks, LengthEnds, NextList, Typed
        <5> QED BY <1>1, <1>3, <3>1, <5>1 DEF LengthEnters, LengthCounts, NextList, Typed
      <4>2. \E k \in 0 .. s : n'[t] = f[k] /\ count'[t] = Base(l) + k
        BY <1>9, <2>1, <3>1, <4>1
      <4> QED BY <1>7, <1>8, <4>2 DEF At
    <3>2. CASE ~(pc'[t] = "count" /\ i'[t] = l)
      BY <1>8, <3>2 DEF At
    <3> QED BY <3>1, <3>2
  <2> QED BY <1>1, <1>2, <1>4, <1>6, <1>8, <2>1, <2>2, Untouched
<1>11. Counting(t)'
  <2>1. CASE pc[t] \in {"list", "count"}
    <3>1. i[t] \in Lists
      BY <1>8, <2>1
    <3>2. PICK l \in Lists : l = i[t]
      BY <3>1
    <3>3. PICK s \in Nat, f \in [Nat -> Node] :
            Chain(l, s, f) /\ \A u \in Threads : At(u, l, s, f)
      BY <1>1 DEF ListOk
    <3>4. \/ pc'[t] = "count"
          \/ /\ pc'[t] \in {"list", "unlockall"} /\ count'[t] = Base(l + 1)
             /\ IF l + 1 < NLists THEN pc'[t] = "list" /\ i'[t] = l + 1
                                  ELSE pc'[t] = "unlockall" /\ i'[t] = 0
      BY <1>9, <2>1, <3>2, <3>3
    <3>5. ~(l + 1 < NLists) => l + 1 = NLists
      BY <1>8, <2>1, <3>2, CountsAssumption
    <3> QED BY <1>6, <1>7, <3>4, <3>5, BaseFacts DEF Counting
  <2>2. CASE LengthBegins(t)
    BY <1>1, <2>2 DEF LengthBegins, Counting, Typed
  <2>3. CASE LengthLocks(t)
    <3>1. count[t] = 0 /\ count' = count /\ pc'[t] \in {"lockall", "list"}
          /\ (pc'[t] = "list" => i'[t] = 0)
      BY <1>1, <2>3 DEF LengthLocks, NextList, Counting, Typed
    <3> QED BY <1>7, <3>1, BaseFacts DEF Counting
  <2>4. CASE LengthUnlocks(t)
    <3>1. i[t] \in Nat
      BY <1>1 DEF Typed
    <3>2. pc'[t] \in {"unlockall", "unlocklen"} /\ (pc'[t] = "unlockall" => i'[t] = i[t] + 1)
      BY <1>1, <2>4 DEF LengthUnlocks, NextList, Typed
    <3>3. pc'[t] = "unlockall" => i'[t] # 0
      BY <3>1, <3>2
    <3> QED BY <3>2, <3>3 DEF Counting
  <2>5. CASE LengthEnds(t)
    BY <1>1, <2>5 DEF LengthEnds, Counting, Typed
  <2> QED BY <2>1, <2>2, <2>3, <2>4, <2>5
        DEF Length, LengthSkips, LengthEnters, LengthCounts, NextList
<1>12. ASSUME NEW u \in Threads, u # t PROVE Counting(u)'
  <2>1. pc'[u] = pc[u] /\ i'[u] = i[u] /\ count'[u] = count[u]
    BY <1>2, <1>12 DEF Others
  <2> QED BY <1>1, <1>6, <1>7, <2>1 DEF Counting
<1>13. \A u \in Threads : Counting(u)'
  BY <1>11, <1>12
<1> QED BY <1>1, <1>2, <1>4, <1>6, <1>10, <1>13 DEF IInv

(* No step would follow a null pointer.                                    *)
LEMMA NoNull ==
  ASSUME Locking, IInv, NEW t \in Threads
  PROVE  /\ ~Segfault(t)
         /\ pc[t] = "checkN" => prev[n[t]] = target[t]
         /\ pc[t] \in {"checkN", "checkP"} => next[p[t]] = target[t]
<1>1. /\ Typed /\ Locks /\ \A l \in Lists : ListOk(l)
  BY Zenon DEF IInv
<1>2. \A x \in Node : x # Null
  BY ElementFacts
<1>3. CASE pc[t] = "count"
  <2>1. i[t] < NLists /\ i[t] \in Nat
    BY <1>1, <1>3 DEF Typed, Bounded, Measuring
  <2>2. i[t] \in Lists
    BY <2>1, CountsAssumption DEF Lists
  <2>3. PICK l \in Lists : l = i[t]
    BY <2>2
  <2>4. PICK s \in Nat, f \in [Nat -> Node] : Chain(l, s, f) /\ \A u \in Threads : At(u, l, s, f)
    BY <1>1 DEF ListOk
  <2>5. PICK k \in 0 .. s : n[t] = f[k]
    BY <1>3, <2>3, <2>4 DEF At
  <2>6. n[t] \in Node
    BY <2>5
  <2> QED BY <1>2, <1>3, <2>6 DEF Segfault
<1>4. CASE pc[t] \in {"walk", "link", "checkN", "checkP"}
  <2>1. pc[t] \in Busy
    BY <1>4 DEF Busy
  <2>2. PICK own \in Lists : own = MyList(t)
    BY <1>1, <2>1, MineTyped
  <2>3. PICK s \in Nat, f \in [Nat -> Node] :
          Chain(own, s, f) /\ \A u \in Threads : At(u, own, s, f)
    BY <1>1 DEF ListOk
  <2>4. AtWork(t, own, s, f) /\ Placed(t, s, f)
    BY <1>1, <2>1, <2>2, <2>3 DEF AtWork, At
  <2>5. /\ pc[t] = "walk" => n[t] \in Node
        /\ pc[t] = "link" => p[t] \in Node
    <3>1. \A k \in 1 .. s+1 : k \in Nat /\ k-1 \in Nat
      OBVIOUS
    <3> QED BY <2>4, <3>1 DEF Placed
  <2>6. pc[t] \in {"checkN", "checkP"} =>
          /\ n[t] \in Node /\ p[t] \in Node
          /\ prev[n[t]] = target[t] /\ next[p[t]] = target[t]
    <3> HAVE pc[t] \in {"checkN", "checkP"}
    <3>1. s >= 1 /\ target[t] = f[1] /\ n[t] = f[2] /\ p[t] = f[0]
      BY <2>4 DEF Placed
    <3>2. /\ \A k \in 0 .. s : next[f[k]] = f[k+1]
          /\ \A k \in 0 .. s : ~(pc[t] \in {"linkback", "cutP"} /\ n[t] = f[k+1]) =>
                                 prev[f[k+1]] = f[k]
      BY <2>4, WorkFacts
    <3>3. 0 \in 0 .. s /\ 1 \in 0 .. s /\ 0+1 = 1 /\ 1+1 = 2
      BY <3>1
    <3> QED BY <3>1, <3>2, <3>3
  <2> QED BY <1>2, <1>4, <2>5, <2>6 DEF Segfault
<1> QED BY <1>3, <1>4 DEF Segfault

LEMMA NextIInv == IInv /\ [Next]_vars => IInv'
<1> SUFFICES ASSUME IInv, [Next]_vars, Locking' PROVE IInv'
  BY DEF IInv
<1>1. CASE UNCHANGED vars
  <2>1. /\ sync' = sync /\ next' = next /\ prev' = prev /\ lock' = lock /\ lenLock' = lenLock
        /\ pc' = pc /\ i' = i /\ n' = n /\ p' = p /\ target' = target /\ count' = count
        /\ missed' = missed /\ segv' = segv
    BY <1>1 DEF vars
  <2>2. /\ Typed /\ Locks /\ missed = {} /\ segv = FALSE
        /\ \A l \in Lists : ListOk(l)
        /\ \A u \in Threads : Counting(u)
    BY <2>1, Zenon DEF IInv, Locking
  <2>3. Inserted' = Inserted /\ Served' = Served
    BY <2>1 DEF Inserted, Served, PassedBy
  <2>4. \A u : MyList(u)' = MyList(u) /\ Mine(u)' = Mine(u)
    BY <2>1 DEF MyList, Mine
  <2>5. \A m : Left(m)' = Left(m) /\ Base(m)' = Base(m)
    BY <2>3 DEF Left, Base, Of, Before
  <2>6. Typed' /\ Locks'
    BY <2>1, <2>2, <2>4 DEF Typed, Locks, Bounded
  <2>7. \A u \in Threads : Counting(u)'
    BY <2>1, <2>2, <2>3, <2>5 DEF Counting
  <2>8. ASSUME NEW l \in Lists PROVE ListOk(l)'
    <3>1. PICK s \in Nat, f \in [Nat -> Node] :
            Chain(l, s, f) /\ \A u \in Threads : At(u, l, s, f)
      BY <2>2 DEF ListOk
    <3>2. \A x : Mending(l, x) => Mending(l, x)'
      BY <2>1, <2>4 DEF Mending
    <3>3. Chain(l, s, f)'
      BY <2>1, <2>3, <2>5, <3>1, <3>2, ChainKeeps
    <3>4. ASSUME NEW u \in Threads PROVE At(u, l, s, f)'
      <4>1. Placed(u, s, f)' <=> Placed(u, s, f)
        BY <2>1, <2>4 DEF Placed
      <4> QED BY <2>1, <2>4, <2>5, <3>1, <4>1 DEF At
    <3> QED BY <3>3, <3>4 DEF ListOk
  <2> QED BY <2>1, <2>2, <2>6, <2>7, <2>8 DEF IInv
<1>2. ASSUME NEW t \in Threads, Step(t) PROVE IInv'
  <2>1. sync' = sync
    BY <1>2 DEF Step, Insert, Length, Delete, Segfault, InsertBegins, InsertWalks, InsertPlaces,
       InsertLinks, PassEnds, LengthBegins, LengthLocks, LengthSkips, LengthEnters,
       LengthCounts, LengthUnlocks, LengthEnds, TurnBegins, LookupTests, LookupMisses,
       LookupTakes, DeleteReads, DeleteChecks, DeleteUnlinks
  <2>2. Locking
    BY <2>1 DEF Locking
  <2>3. ~Segfault(t)
    BY <2>2, NoNull
  <2>4. \/ WorkStep(t) \/ Length(t)
        \/ InsertBegins(t) \/ TurnBegins(t)
        \/ PassEnds(t, "inserted", "insert") \/ PassEnds(t, "deleted", "turn")
    BY <1>2, <2>3 DEF Step, Insert, Delete, WorkStep
  <2> QED BY <2>1, <2>2, <2>4, WorkKeepsIInv, LengthKeepsIInv, PassKeepsIInv
<1>3. CASE Exited
  BY <1>1, <1>3 DEF Exited
<1> QED BY <1>1, <1>2, <1>3 DEF Next

(* Locked, every list is a chain at every moment, with at most the gap of  *)
(* the one thread at work on it, and every thread is where the chain and   *)
(* the elements already counted say it is.                                 *)
THEOREM ChainsAlways == Spec => []IInv
<1> QED BY InitIInv, NextIInv, PTL DEF Spec

(* Locked, the checks in SortedList_delete() (sltest.c, SortedList.h:46)   *)
(* never find corrupted neighbours and no null pointer is followed.        *)
THEOREM DeletesFindTheirNeighbours == Spec => []ChecksPass
<1>1. IInv => ChecksPass
  BY NoNull DEF ChecksPass, IInv
<1> QED BY <1>1, ChainsAlways, PTL

(* Locked, the length that SortedList_length() has counted up when it      *)
(* starts to let go of the locks is that of all lists together right then. *)
THEOREM LengthsAreSnapshots == Spec => []LengthIsSnapshot
<1>1. IInv => LengthIsSnapshot
  BY DEF IInv, Counting, LengthIsSnapshot
<1> QED BY <1>1, ChainsAlways, PTL

-----------------------------------------------------------------------------
(* Walk, which follows next from the head, and a chain tell the same list. *)

(* Of some natural numbers one is the smallest.                            *)
LEMMA LeastExists ==
  ASSUME NEW T, T \subseteq Nat, IsFiniteSet(T), T # {}
  PROVE  \E k \in T : \A j \in T : k <= j
<1> DEFINE Below(k) == {j \in T : j < k}
           B == {Below(k) : k \in T}
<1>1. IsWellFoundedOn(StrictSubsetOrdering(T), SUBSET T)
  BY FS_StrictSubsetOrderingWellFounded, FS_FiniteSubsetsOfFinite
<1>2. B \subseteq SUBSET T /\ B # {}
  OBVIOUS
<1>3. PICK U \in B : \A V \in B : ~(<<V, U>> \in StrictSubsetOrdering(T))
  BY <1>1, <1>2, WFMin
<1>4. PICK k \in T : U = Below(k)
  BY <1>3
<1>5. ASSUME NEW j \in T, ~(k <= j) PROVE FALSE
  <2>1. j < k /\ j \in Nat /\ k \in Nat
    BY <1>5
  <2>2. Below(j) \subseteq Below(k)
    <3> SUFFICES ASSUME NEW x \in T, x < j PROVE x < k
      OBVIOUS
    <3> QED BY <2>1
  <2>3. j \in Below(k) /\ j \notin Below(j)
    BY <2>1
  <2>4. <<Below(j), Below(k)>> \in StrictSubsetOrdering(T)
    BY <2>2, <2>3, Zenon DEF StrictSubsetOrdering
  <2>5. Below(j) \in B
    OBVIOUS
  <2> QED BY <1>3, <1>4, <2>4, <2>5
<1> QED BY <1>5

(* Induction over a set of numbers.                                        *)
LEMMA Reached ==
  ASSUME NEW S, 0 \in S, \A k \in Nat : k \in S => k+1 \in S, NEW m \in Nat
  PROVE  m \in S
<1> SUFFICES ASSUME m \notin S PROVE FALSE
  OBVIOUS
<1> DEFINE T == {k \in 0 .. m : k \notin S}
<1>1. IsFiniteSet(T) /\ T # {} /\ T \subseteq Nat
  <2>1. IsFiniteSet(0 .. m) /\ m \in 0 .. m
    BY FS_Interval
  <2> QED BY <2>1, FS_Subset
<1>2. PICK k \in T : \A j \in T : k <= j
  BY <1>1, LeastExists
<1>3. k \in Nat /\ k # 0 /\ k-1 \in Nat /\ (k-1)+1 = k /\ k-1 \in 0 .. m /\ ~(k <= k-1)
  OBVIOUS
<1> QED BY <1>2, <1>3

(* Round and round through 0 .. s.                                         *)
LEMMA Rounds ==
  ASSUME NEW s \in Nat, NEW m \in Nat
  PROVE  \E c \in [0 .. m -> 0 .. s] :
           /\ c[0] = 0
           /\ \A k \in 1 .. m : c[k] = IF c[k-1] = s THEN 0 ELSE c[k-1] + 1
<1> DEFINE Good(c, k) == /\ c \in [0 .. k -> 0 .. s]
                         /\ c[0] = 0
                         /\ \A j \in 1 .. k : c[j] = IF c[j-1] = s THEN 0 ELSE c[j-1] + 1
           S == {k \in Nat : \E c : Good(c, k)}
<1>1. 0 \in S
  <2>1. Good([k \in 0 .. 0 |-> 0], 0)
    OBVIOUS
  <2> QED BY <2>1
<1>2. ASSUME NEW k \in Nat, k \in S PROVE k+1 \in S
  <2>1. PICK c : Good(c, k)
    BY <1>2
  <2> DEFINE v == IF c[k] = s THEN 0 ELSE c[k] + 1
             d == [j \in 0 .. k+1 |-> IF j = k+1 THEN v ELSE c[j]]
  <2>2. v \in 0 .. s
    <3>1. c[k] \in 0 .. s
      BY <2>1
    <3> QED BY <3>1
  <2>3. \A j \in 0 .. k+1 : j # k+1 => j \in 0 .. k
    OBVIOUS
  <2>4. d \in [0 .. k+1 -> 0 .. s]
    BY <2>1, <2>2, <2>3
  <2>5. d[0] = 0
    <3>1. 0 \in 0 .. k+1 /\ 0 # k+1
      OBVIOUS
    <3> QED BY <2>1, <3>1
  <2>6. ASSUME NEW j \in 1 .. k+1 PROVE d[j] = IF d[j-1] = s THEN 0 ELSE d[j-1] + 1
    <3>1. j \in 0 .. k+1 /\ j-1 \in 0 .. k+1 /\ j-1 # k+1
      OBVIOUS
    <3>2. d[j-1] = c[j-1]
      BY <3>1
    <3>3. CASE j = k+1
      <4>1. d[j] = v /\ j-1 = k
        BY <3>1, <3>3
      <4> QED BY <3>2, <4>1
    <3>4. CASE j # k+1
      <4>1. d[j] = c[j] /\ j \in 1 .. k
        BY <3>1, <3>4
      <4> QED BY <2>1, <3>2, <4>1
    <3> QED BY <3>3, <3>4
  <2>7. Good(d, k+1)
    BY <2>4, <2>5, <2>6
  <2> HIDE DEF d, Good
  <2> QED BY <2>7
<1> HIDE DEF S
<1>3. m \in S
  BY <1>1, <1>2, Reached
<1> QED BY <1>3 DEF S

LEMMA WalkIsChain ==
  ASSUME NEW l \in Lists, NEW s \in Nat, NEW f \in [Nat -> Node], Chain(l, s, f)
  PROVE  /\ s < CountMax /\ CountMax \in Nat
         /\ \A k \in 0 .. s+1 : Walk(l)[k] = f[k]
         /\ \A k \in 0 .. CountMax : \E j \in 0 .. s : Walk(l)[k] = f[j]
<1>1. /\ f[0] = Head(l) /\ f[s+1] = Head(l) /\ s = Left(l)
      /\ \A k \in 0 .. s : next[f[k]] = f[k+1] /\ f[k] # Null
  <2>1. /\ f[0] = Head(l) /\ f[s+1] = Head(l) /\ s = Left(l)
        /\ \A k \in 0 .. s : next[f[k]] = f[k+1]
    BY Zenon DEF Chain
  <2>2. \A k \in 0 .. s : f[k] # Null
    BY ElementFacts
  <2> QED BY <2>1, <2>2
<1>2. s < CountMax /\ CountMax \in Nat
  <2>1. /\ Cardinality(Of(Inserted, l)) \in Nat /\ Cardinality(Of(Served, l)) \in Nat
    BY Membership, OfFinite
  <2>2. Of(Inserted, l) \subseteq Elements
    BY Membership DEF Of
  <2>3. Cardinality(Of(Inserted, l)) <= Cardinality(Elements) /\ Cardinality(Elements) \in Nat
    BY <2>2, ElementFacts, FS_Subset, FS_CardinalityType
  <2> QED BY <1>1, <2>1, <2>3 DEF Left, CountMax
<1>3. PICK c \in [0 .. CountMax -> 0 .. s] :
        /\ c[0] = 0
        /\ \A k \in 1 .. CountMax : c[k] = IF c[k-1] = s THEN 0 ELSE c[k-1] + 1
  BY <1>2, Rounds
<1> DEFINE Follows(g) ==
             g = [k \in 0 .. CountMax |->
                    IF k = 0 THEN Head(l)
                    ELSE IF g[k-1] = Null THEN Null ELSE next[g[k-1]]]
<1>4. \E g : Follows(g)
  <2> DEFINE g == [k \in 0 .. CountMax |-> f[c[k]]]
             h == [k \in 0 .. CountMax |->
                    IF k = 0 THEN Head(l)
                    ELSE IF g[k-1] = Null THEN Null ELSE next[g[k-1]]]
  <2>1. ASSUME NEW k \in 0 .. CountMax PROVE g[k] = h[k]
    <3>1. CASE k = 0
      BY <1>1, <1>3, <3>1
    <3>2. CASE k # 0
      <4>1. k \in 1 .. CountMax /\ k-1 \in 0 .. CountMax
        BY <1>2, <3>2
      <4>2. g[k-1] = f[c[k-1]] /\ c[k-1] \in 0 .. s /\ c[k] = IF c[k-1] = s THEN 0 ELSE c[k-1] + 1
        BY <1>3, <4>1
      <4>3. g[k-1] # Null /\ next[g[k-1]] = f[c[k-1] + 1]
        BY <1>1, <4>2
      <4>4. f[c[k-1] + 1] = f[c[k]]
        BY <1>1, <4>2
      <4> QED BY <3>2, <4>3, <4>4
    <3> QED BY <3>1, <3>2
  <2>2. g = h
    BY <2>1
  <2>3. Follows(g)
    BY <2>2
  <2> HIDE DEF g, Follows
  <2> QED BY <2>3
<1>5. PICK w : w = Walk(l)
  OBVIOUS
<1>6. Follows(w)
  <2>1. w = CHOOSE g : Follows(g)
    BY <1>5 DEF Walk
  <2> HIDE DEF Follows
  <2> QED BY <1>4, <2>1
<1>7. /\ w[0] = Head(l)
      /\ \A k \in 1 .. CountMax : w[k] = IF w[k-1] = Null THEN Null ELSE next[w[k-1]]
  <2>1. 0 \in 0 .. CountMax /\ \A k \in 1 .. CountMax : k \in 0 .. CountMax /\ k # 0
    BY <1>2
  <2> QED BY <1>6, <2>1
<1> HIDE DEF Follows
<1>8. ASSUME NEW k \in 0 .. CountMax PROVE w[k] = f[c[k]]
  <2> DEFINE S == {j \in Nat : j <= CountMax => w[j] = f[c[j]]}
  <2>1. 0 \in S
    BY <1>1, <1>3, <1>7
  <2>2. ASSUME NEW j \in Nat, j \in S PROVE j+1 \in S
    <3> SUFFICES ASSUME j+1 <= CountMax PROVE w[j+1] = f[c[j+1]]
      OBVIOUS
    <3>1. j+1 \in 1 .. CountMax /\ j \in 0 .. CountMax /\ (j+1)-1 = j /\ j <= CountMax
      BY <1>2
    <3>2. w[j] = f[c[j]] /\ c[j] \in 0 .. s /\ c[j+1] = IF c[j] = s THEN 0 ELSE c[j] + 1
      BY <1>3, <2>2, <3>1
    <3>3. w[j] # Null /\ next[w[j]] = f[c[j] + 1]
      BY <1>1, <3>2
    <3>4. f[c[j] + 1] = f[c[j+1]]
      BY <1>1, <3>2
    <3> QED BY <1>7, <3>1, <3>3, <3>4
  <2>3. k \in Nat /\ k <= CountMax
    BY <1>2
  <2> HIDE DEF S
  <2>4. k \in S
    BY <2>1, <2>2, <2>3, Reached
  <2> QED BY <2>3, <2>4 DEF S
<1>9. ASSUME NEW k \in 0 .. s+1 PROVE w[k] = f[k]
  <2> DEFINE S == {j \in Nat : j <= s+1 => w[j] = f[j]}
  <2>1. 0 \in S
    BY <1>1, <1>7
  <2>2. ASSUME NEW j \in Nat, j \in S PROVE j+1 \in S
    <3> SUFFICES ASSUME j+1 <= s+1 PROVE w[j+1] = f[j+1]
      OBVIOUS
    <3>1. j+1 \in 1 .. CountMax /\ (j+1)-1 = j /\ j <= s+1 /\ j \in 0 .. s
      BY <1>2
    <3>2. w[j] = f[j]
      BY <2>2, <3>1
    <3> QED BY <1>1, <1>7, <3>1, <3>2
  <2>3. k \in Nat /\ k <= s+1
    OBVIOUS
  <2> HIDE DEF S
  <2>4. k \in S
    BY <2>1, <2>2, <2>3, Reached
  <2> QED BY <2>3, <2>4 DEF S
<1>10. \A k \in 0 .. CountMax : \E j \in 0 .. s : w[k] = f[j]
  BY <1>3, <1>8
<1> QED BY <1>2, <1>5, <1>9, <1>10

Items(f, s) == {f[k] : k \in 1 .. s}

LEMMA ContentIsChain ==
  ASSUME NEW l \in Lists, NEW s \in Nat, NEW f \in [Nat -> Node], Chain(l, s, f)
  PROVE  /\ Content(l) = Items(f, s)
         /\ IsFiniteSet(Content(l)) /\ Cardinality(Content(l)) = s
<1> DEFINE V == {f[k] : k \in 1 .. s}
<1>1. /\ s < CountMax /\ CountMax \in Nat
      /\ \A k \in 0 .. s+1 : Walk(l)[k] = f[k]
      /\ \A k \in 0 .. CountMax : \E j \in 0 .. s : Walk(l)[k] = f[j]
  BY WalkIsChain
<1>2. /\ \A k \in 1 .. s : f[k] \in Elements
      /\ \A j, k \in 1 .. s+1 : f[j] = f[k] => j = k
      /\ f[0] \notin Elements
  <2>1. f[0] = Head(l)
    BY Zenon DEF Chain
  <2> QED BY <2>1, ChainFacts, ElementFacts
<1>3. ASSUME NEW e \in V PROVE e \in Content(l)
  <2>1. PICK k \in 1 .. s : e = f[k]
    OBVIOUS
  <2>2. k \in 1 .. CountMax /\ k \in 0 .. s+1
    BY <1>1
  <2> QED BY <1>1, <1>2, <2>1, <2>2 DEF Content
<1>4. ASSUME NEW e \in Content(l) PROVE e \in V
  <2>1. PICK k \in 1 .. CountMax : Walk(l)[k] = e
    BY DEF Content
  <2>2. k \in 0 .. CountMax /\ e \in Elements
    BY DEF Content
  <2>3. PICK j \in 0 .. s : e = f[j]
    BY <1>1, <2>1, <2>2
  <2>4. j # 0 => j \in 1 .. s
    OBVIOUS
  <2> QED BY <1>2, <2>2, <2>3, <2>4
<1>5. Content(l) = V
  BY <1>3, <1>4
<1> DEFINE b == [k \in 1 .. s |-> f[k]]
<1>6. b \in Bijection(1 .. s, V)
  <2>1. \A k \in 1 .. s : k \in 1 .. s+1
    OBVIOUS
  <2> QED BY <1>2, <2>1 DEF Bijection, Injection, Surjection, IsInjective
<1>7. IsFiniteSet(1 .. s) /\ Cardinality(1 .. s) = s
  <2>1. Cardinality(1 .. s) = IF 1 > s THEN 0 ELSE s-1+1
    BY FS_Interval
  <2> QED BY <2>1, FS_Interval
<1>8. ExistsBijection(1 .. s, V)
  BY <1>6 DEF ExistsBijection
<1> HIDE DEF V
<1>9. IsFiniteSet(V) /\ Cardinality(V) = s
  BY <1>7, <1>8, FS_Bijection
<1> QED BY <1>5, <1>9 DEF V, Items

(* Locked, a list that nobody is between lock and unlock of is as          *)
(* SortedList.h:6 promises: in ascending order of keys, the same way back  *)
(* along prev, and with no element of another list.                        *)
THEOREM FreeListsAreSound == Spec => []ListsSound
<1>1. IInv => ListsSound
  <2> SUFFICES ASSUME IInv, Locking, NEW l \in Lists, lock[l] = Free
               PROVE  LET W == Walk(l)
                          size == Cardinality(Content(l))
                      IN  /\ W[size + 1] = Head(l)
                          /\ \A k \in 0 .. size : prev[W[k+1]] = W[k]
                          /\ \A k \in 1 .. size-1 : Key[W[k]] <= Key[W[k+1]]
                          /\ \A e \in Content(l) : ListOf[e] = l
    BY DEF ListsSound
  <2>1. Typed /\ Locks /\ ListOk(l)
    BY Zenon DEF IInv
  <2>2. PICK s \in Nat, f \in [Nat -> Node] : Chain(l, s, f)
    BY <2>1 DEF ListOk
  <2>3. /\ f[s+1] = Head(l)
        /\ \A k \in 1 .. s : ListOf[f[k]] = l
        /\ \A k \in 1 .. s-1 : Key[f[k]] <= Key[f[k+1]]
        /\ \A k \in 0 .. s : prev[f[k+1]] = f[k] \/ Mending(l, f[k+1])
    BY <2>2, Zenon DEF Chain
  <2>4. \A x : ~Mending(l, x)
    <3> SUFFICES ASSUME NEW t \in Threads, pc[t] \in {"linkback", "cutP"}, MyList(t) = l
                 PROVE  FALSE
      BY DEF Mending
    <3>1. lock[l] = t
      BY <2>1 DEF Locks, Busy
    <3> QED BY <3>1, ThreadsAssumption
  <2>5. \A k \in 0 .. s+1 : Walk(l)[k] = f[k]
    BY <2>2, WalkIsChain
  <2>6. Content(l) = Items(f, s) /\ Cardinality(Content(l)) = s
    BY <2>2, ContentIsChain
  <2>7. \A k \in 0 .. s : prev[Walk(l)[k+1]] = Walk(l)[k]
    <3>1. \A k \in 0 .. s : k \in 0 .. s+1 /\ k+1 \in 0 .. s+1
      OBVIOUS
    <3> QED BY <2>3, <2>4, <2>5, <3>1
  <2>8. \A k \in 1 .. s-1 : Key[Walk(l)[k]] <= Key[Walk(l)[k+1]]
    <3>1. \A k \in 1 .. s-1 : k \in 0 .. s+1 /\ k+1 \in 0 .. s+1
      OBVIOUS
    <3> QED BY <2>3, <2>5, <3>1
  <2>9. Walk(l)[s+1] = Head(l)
    <3>1. s+1 \in 0 .. s+1
      OBVIOUS
    <3> QED BY <2>3, <2>5, <3>1
  <2>10. \A e \in Content(l) : ListOf[e] = l
    BY <2>3, <2>6 DEF Items
  <2> QED BY <2>6, <2>7, <2>8, <2>9, <2>10, Zenon
<1> QED BY <1>1, ChainsAlways, PTL

-----------------------------------------------------------------------------
(* The lists implement the atomic ones of ListPool.                        *)

ContentFollows ==
  \A l \in Lists : \A s \in Nat : \A f \in [Nat -> Node] :
    Chain(l, s, f) => Content(l) = Items(f, s)

LEMMA ContentNow == ContentFollows
BY ContentIsChain DEF ContentFollows

LEMMA ContentThen == ContentFollows'
BY ContentNow, PTL

LEMMA SameContent ==
  ASSUME next' = next
  PROVE  \A l \in Lists : Content(l)' = Content(l)
BY DEF Content, Walk

LEMMA LongerContent ==
  ASSUME NEW s \in Nat, NEW f \in [Nat -> Node], NEW k \in 1 .. s+1, NEW e
  PROVE  Items(Longer(f, k, e), s+1) = Items(f, s) \cup {e}
<1>1. PICK g : g = Longer(f, k, e)
  OBVIOUS
<1>2. \A j \in Nat : g[j] = IF j < k THEN f[j] ELSE IF j = k THEN e ELSE f[j-1]
  BY <1>1 DEF Longer
<1>3. ASSUME NEW j \in 1 .. s+1 PROVE g[j] = e \/ \E m \in 1 .. s : g[j] = f[m]
  <2>1. j \in Nat /\ (j < k => j \in 1 .. s) /\ (j > k => j-1 \in 1 .. s)
    OBVIOUS
  <2> QED BY <1>2, <2>1
<1>4. g[k] = e
  BY <1>2
<1>5. ASSUME NEW m \in 1 .. s PROVE \E j \in 1 .. s+1 : g[j] = f[m]
  <2>1. CASE m < k
    <3>1. m \in Nat /\ m \in 1 .. s+1 /\ g[m] = f[m]
      BY <1>2, <2>1
    <3> QED BY <3>1
  <2>2. CASE ~(m < k)
    <3>1. m+1 \in Nat /\ m+1 \in 1 .. s+1 /\ ~(m+1 < k) /\ m+1 # k /\ (m+1)-1 = m
      BY <2>2
    <3>2. g[m+1] = f[m]
      BY <1>2, <3>1
    <3> QED BY <3>1, <3>2
  <2> QED BY <2>1, <2>2
<1> QED BY <1>1, <1>3, <1>4, <1>5 DEF Items

LEMMA ShorterContent ==
  ASSUME NEW r \in Nat, NEW f \in [Nat -> Node],
         \A j, k \in 1 .. r+1 : f[j] = f[k] => j = k
  PROVE  Items(Shorter(f), r) = Items(f, r+1) \ {f[1]}
<1>1. PICK g : g = Shorter(f)
  OBVIOUS
<1>2. ASSUME NEW j \in 1 .. r PROVE g[j] = f[j+1] /\ j+1 \in 1 .. r+1 /\ j+1 # 1
  <2>1. j \in Nat /\ j # 0
    OBVIOUS
  <2> QED BY <1>1, <2>1 DEF Shorter
<1>3. ASSUME NEW j \in 1 .. r PROVE g[j] \in {f[m] : m \in 1 .. r+1} \ {f[1]}
  <2>1. 1 \in 1 .. r+1
    OBVIOUS
  <2> QED BY <1>2, <2>1
<1>4. ASSUME NEW m \in 1 .. r+1, f[m] # f[1] PROVE \E j \in 1 .. r : g[j] = f[m]
  <2>1. m # 1
    BY <1>4
  <2>2. m-1 \in 1 .. r /\ (m-1)+1 = m
    BY <2>1
  <2> QED BY <1>2, <2>2
<1> QED BY <1>1, <1>3, <1>4 DEF Items

(* What happens to the lists in the eyes of ListPool: nothing, an element  *)
(* put in, or a turn that takes something out.                             *)
LEMMA AbstractWork ==
  ASSUME Locking, IInv, sync' = sync, NEW t \in Threads, WorkStep(t)
  PROVE  \/ /\ \A l \in Lists : Content(l)' = Content(l)
            /\ Inserted' = Inserted /\ Served' = Served /\ missed' = missed
         \/ \E e \in Elements \ Inserted :
              /\ \A l \in Lists : Content(l)' = IF l = ListOf[e] THEN Content(l) \cup {e}
                                                                 ELSE Content(l)
              /\ Inserted' = Inserted \cup {e} /\ Served' = Served /\ missed' = missed
         \/ \E e \in Inserted \ Served : \E x \in Content(ListOf[e]) :
              /\ \A l \in Lists : Content(l)' = IF l = ListOf[e] THEN Content(l) \ {x}
                                                                 ELSE Content(l)
              /\ Served' = Served \cup {e} /\ Inserted' = Inserted /\ missed' = missed
<1>1. Typed /\ Locks /\ \A l \in Lists : ListOk(l)
  BY Zenon DEF IInv
<1>2. pc[t] \in Busy
  BY DEF WorkStep, InsertWalks, InsertPlaces, InsertLinks, LookupTests, LookupMisses,
         LookupTakes, DeleteReads, DeleteChecks, DeleteUnlinks, Goto, Busy
<1>3. PICK own \in Lists : own = MyList(t)
  BY <1>1, <1>2, MineTyped
<1>4. PICK s \in Nat, f \in [Nat -> Node] : Chain(own, s, f) /\ \A u \in Threads : At(u, own, s, f)
  BY <1>1 DEF ListOk
<1>5. AtWork(t, own, s, f)
  BY <1>1, <1>2, <1>3, <1>4 DEF AtWork, At
<1>6. Goes(t) /\ Others(t)
  BY <1>5, WorkGoesOn DEF WorkStep
<1>7. PICK e : e = Mine(t)
  OBVIOUS
<1>8. Touches(t) /\ missed' = missed /\ Becomes(t, own, s, f, e)
  BY <1>5, <1>7, WorkOnList
<1>9. Content(own) = Items(f, s)
  BY <1>4, ContentNow DEF ContentFollows
<1>10. ASSUME NEW r \in Nat, NEW g \in [Nat -> Node], Chain(own, r, g)'
       PROVE  Content(own)' = Items(g, r)
  BY <1>10, ContentThen DEF ContentFollows
<1>11. ASSUME NEW m \in Lists, m # own PROVE Content(m)' = Content(m)
  <2>1. PICK r \in Nat, g \in [Nat -> Node] : Chain(m, r, g)
    BY <1>1 DEF ListOk
  <2>2. Chain(m, r, g)'
    BY <1>1, <1>3, <1>6, <1>8, <1>11, <2>1, Elsewhere
  <2>3. Content(m) = Items(g, r)
    BY <2>1, ContentNow DEF ContentFollows
  <2>4. Content(m)' = Items(g, r)
    BY <2>2, ContentThen DEF ContentFollows
  <2> QED BY <2>3, <2>4
<1>12. ListOf[e] = own
  BY <1>3, <1>7 DEF MyList
<1>13. CASE Inserted' = Inserted /\ Served' = Served /\ Chain(own, s, f)'
  <2>1. Content(own)' = Content(own)
    BY <1>9, <1>10, <1>13
  <2> QED BY <1>8, <1>11, <1>13, <2>1
<1>14. CASE /\ e \in Elements \ Inserted /\ Inserted' = Inserted \cup {e} /\ Served' = Served
            /\ \E k \in 1 .. s+1 : \E g \in [Nat -> Node] :
                 g = Longer(f, k, e) /\ Chain(own, s+1, g)'
  <2>1. PICK k \in 1 .. s+1, g \in [Nat -> Node] : g = Longer(f, k, e) /\ Chain(own, s+1, g)'
    BY <1>14
  <2>2. s+1 \in Nat
    OBVIOUS
  <2>3. Content(own)' = Items(g, s+1)
    BY <1>10, <2>1, <2>2
  <2>4. Content(own)' = Content(own) \cup {e}
    BY <1>9, <2>1, <2>3, LongerContent
  <2>5. \A l \in Lists : Content(l)' = IF l = ListOf[e] THEN Content(l) \cup {e} ELSE Content(l)
    BY <1>11, <1>12, <2>4
  <2> QED BY <1>8, <1>14, <2>5
<1>15. CASE /\ e \in Inserted \ Served /\ Served' = Served \cup {e} /\ Inserted' = Inserted
            /\ \E r \in Nat : \E g \in [Nat -> Node] :
                 s = r+1 /\ g = Shorter(f) /\ Chain(own, r, g)'
  <2>1. PICK r \in Nat, g \in [Nat -> Node] : s = r+1 /\ g = Shorter(f) /\ Chain(own, r, g)'
    BY <1>15
  <2>2. Content(own)' = Items(g, r)
    BY <1>10, <2>1
  <2>3. \A j, k \in 1 .. r+1 : f[j] = f[k] => j = k
    <3>1. \A j \in 1 .. r+1 : j \in 1 .. s+1
      BY <2>1
    <3> QED BY <1>4, <3>1, ChainFacts
  <2>4. Content(own)' = Content(own) \ {f[1]}
    BY <1>9, <2>1, <2>2, <2>3, ShorterContent
  <2>5. f[1] \in Content(own)
    <3>1. 1 \in 1 .. s
      BY <2>1
    <3> QED BY <1>9, <3>1 DEF Items
  <2>6. \A l \in Lists : Content(l)' = IF l = ListOf[e] THEN Content(l) \ {f[1]} ELSE Content(l)
    BY <1>11, <1>12, <2>4
  <2> QED BY <1>8, <1>12, <1>15, <2>5, <2>6
<1> QED BY <1>8, <1>13, <1>14, <1>15 DEF Becomes

LEMMA PoolBegins == Init => Pool!Init
<1> SUFFICES ASSUME Init PROVE Pool!Init
  OBVIOUS
<1>1. ASSUME NEW l \in Lists PROVE Content(l) = {}
  <2>1. PICK f \in [Nat -> Node] : Chain(l, 0, f)
    BY InitChains
  <2>2. Content(l) = Items(f, 0)
    BY <2>1, ContentNow DEF ContentFollows
  <2> QED BY <2>2 DEF Items
<1>2. Inserted = {} /\ Served = {}
  <2>1. 0 \in Lists
    BY CountsAssumption DEF Lists
  <2> QED BY <2>1, InitChains
<1>3. missed = {}
  BY DEF Init
<1> QED BY <1>1, <1>2, <1>3 DEF Pool!Init

LEMMA PoolSteps == IInv /\ [Next]_vars => [Locking => Pool!Next]_(Pool!vars)
<1> SUFFICES ASSUME IInv, [Next]_vars, Locking
             PROVE  Pool!Next \/ UNCHANGED Pool!vars
  BY DEF Pool!vars
<1>1. ASSUME \A l \in Lists : Content(l)' = Content(l),
             Inserted' = Inserted, Served' = Served, missed' = missed
      PROVE  UNCHANGED Pool!vars
  <2>1. [l \in Lists |-> Content(l)]' = [l \in Lists |-> Content(l)]
    BY <1>1
  <2> QED BY <1>1, <2>1 DEF Pool!vars
<1>2. CASE UNCHANGED vars
  <2>1. next' = next /\ pc' = pc /\ i' = i /\ missed' = missed
    BY <1>2 DEF vars
  <2>2. Inserted' = Inserted /\ Served' = Served
    BY <2>1 DEF Inserted, Served, PassedBy
  <2> QED BY <1>1, <2>1, <2>2, SameContent
<1>3. ASSUME NEW t \in Threads, Step(t) PROVE Pool!Next \/ UNCHANGED Pool!vars
  <2>1. sync' = sync
    BY <1>3 DEF Step, Insert, Length, Delete, Segfault, InsertBegins, InsertWalks, InsertPlaces,
       InsertLinks, PassEnds, LengthBegins, LengthLocks, LengthSkips, LengthEnters,
       LengthCounts, LengthUnlocks, LengthEnds, TurnBegins, LookupTests, LookupMisses,
       LookupTakes, DeleteReads, DeleteChecks, DeleteUnlinks
  <2>2. ~Segfault(t)
    BY NoNull
  <2>3. \/ WorkStep(t) \/ Length(t)
        \/ InsertBegins(t) \/ TurnBegins(t)
        \/ PassEnds(t, "inserted", "insert") \/ PassEnds(t, "deleted", "turn")
    BY <1>3, <2>2 DEF Step, Insert, Delete, WorkStep
  <2>4. CASE ~WorkStep(t)
    <3>1. Inserted' = Inserted /\ Served' = Served
      BY <2>1, <2>3, <2>4, LengthKeepsIInv, PassKeepsIInv
    <3>2. UNCHANGED shape /\ missed' = missed
      BY <2>3, <2>4 DEF Length, InsertBegins, TurnBegins, PassEnds, LengthBegins, LengthLocks,
         LengthSkips, LengthEnters, LengthCounts, LengthUnlocks, LengthEnds, verdict
    <3>3. next' = next
      BY <3>2 DEF shape
    <3> QED BY <1>1, <3>1, <3>2, <3>3, SameContent
  <2>5. CASE WorkStep(t)
    <3>1. ListOf \in [Elements -> Lists] /\ Inserted \subseteq Elements
      BY ElementFacts, Membership
    <3>2. CASE /\ \A l \in Lists : Content(l)' = Content(l)
               /\ Inserted' = Inserted /\ Served' = Served /\ missed' = missed
      BY <1>1, <3>2
    <3>3. ASSUME NEW e \in Elements \ Inserted,
                 \A l \in Lists : Content(l)' = IF l = ListOf[e] THEN Content(l) \cup {e}
                                                                  ELSE Content(l),
                 Inserted' = Inserted \cup {e}, Served' = Served, missed' = missed
          PROVE  Pool!Next
      <4>1. [l \in Lists |-> Content(l)]' =
              [[l \in Lists |-> Content(l)] EXCEPT ![ListOf[e]] = @ \cup {e}]
        BY <3>1, <3>3
      <4>2. Pool!Insert(e)
        BY <3>3, <4>1 DEF Pool!Insert
      <4> QED BY <4>2 DEF Pool!Next
    <3>4. ASSUME NEW e \in Inserted \ Served, NEW x \in Content(ListOf[e]),
                 \A l \in Lists : Content(l)' = IF l = ListOf[e] THEN Content(l) \ {x}
                                                                  ELSE Content(l),
                 Served' = Served \cup {e}, Inserted' = Inserted, missed' = missed
          PROVE  Pool!Next
      <4>1. ListOf[e] \in Lists /\ e \in Elements
        BY <3>1
      <4>2. [l \in Lists |-> Content(l)]' =
              [[l \in Lists |-> Content(l)] EXCEPT ![ListOf[e]] = @ \ {x}]
        BY <3>4, <4>1
      <4>3. x \in [l \in Lists |-> Content(l)][ListOf[e]]
        BY <4>1
      <4>4. Pool!Delete(e, x)
        BY <3>4, <4>2, <4>3 DEF Pool!Delete
      <4>5. Pool!Turn(e)
        BY <4>3, <4>4 DEF Pool!Turn
      <4> QED BY <4>1, <4>5 DEF Pool!Next
    <3> QED BY <2>1, <2>5, <3>2, <3>3, <3>4, AbstractWork
  <2> QED BY <2>4, <2>5
<1>4. CASE Exited
  BY <1>2, <1>4 DEF Exited
<1> QED BY <1>2, <1>3, <1>4 DEF Next

(* Locked, every insertion, lookup and deletion in the doubly linked lists *)
(* takes effect in one step, as one of ListPool does, and all other steps  *)
(* leave what the lists hold alone.                                        *)
THEOREM ListsAreAtomic == Spec => ImplementsListPool
<1>1. Init => Pool!Init
  BY PoolBegins
<1>2. IInv /\ [Next]_vars => [Locking => Pool!Next]_(Pool!vars)
  BY PoolSteps
<1> QED BY <1>1, <1>2, ChainsAlways, PTL DEF Spec, ImplementsListPool

(* Locked, no turn finds its list empty (sltest.c:241).                    *)
THEOREM NoTurnIsMissed == Spec => [](Locking => missed = {})
<1>1. IInv => (Locking => missed = {})
  BY DEF IInv
<1> QED BY <1>1, ChainsAlways, PTL
=============================================================================
