----------------------------- MODULE SortedList -----------------------------
(***************************************************************************)
(* lab4/sltest.c: threads that insert their elements into doubly linked    *)
(* sorted lists, ask for the total length, and look up and delete as often *)
(* as they inserted.  A step is one access to shared memory, so that a     *)
(* preemption or a pthread_yield (--yield) can come between any two.       *)
(*                                                                         *)
(* A mutex and a spinning lock admit the same thread at the same moments,  *)
(* so --sync=m and --sync=s are both "lock" here.                          *)
(***************************************************************************)
EXTENDS Integers, FiniteSets

CONSTANTS
  Threads,
  Iterations,   \* --iterations: the elements of a thread
  NLists,       \* --lists
  Key,          \* Key[e]: the key of element e; strcmp compares as <= does
  Hash,         \* Hash[k]: what hash() returns for key k
  Free,         \* a lock's value when no thread holds it
  Null          \* the null pointer

Lists == 0 .. NLists-1
Elements == Threads \X (0 .. Iterations-1)

(* list[l], the element of list l whose key is NULL.                       *)
Head(l) == <<"head", l>>
Heads == {Head(l) : l \in Lists}
Node == Elements \cup Heads
Pointer == Node \cup {Null}

ASSUME ThreadsAssumption == IsFiniteSet(Threads) /\ Free \notin Threads
ASSUME PointersAssumption == Heads \cap Elements = {} /\ Null \notin Node
ASSUME CountsAssumption == Iterations \in Nat /\ NLists \in Nat \ {0}
ASSUME KeyAssumption == Key \in [Elements -> Nat]
ASSUME HashAssumption == \A e \in Elements : Hash[Key[e]] \in Lists

VARIABLES
  sync,      \* what --sync has selected
  next, prev,
  lock,      \* lock[l]: the thread that holds mutex[l], or spinlock[l]
  lenLock,   \* the thread that holds len_mutex, or len_spinlock
  pc,
  i,         \* the counter of the loop the thread is in
  n, p,      \* its local pointers
  target,    \* what the lookup has returned
  count,     \* what SortedList_length() has counted so far
  missed,    \* the elements whose turn printed "should never be here"
  segv       \* a null pointer has been followed: the program is dead

shape == <<next, prev>>
local == <<i, n, p, target, count>>
verdict == <<missed, segv>>
vars == <<sync, next, prev, lock, lenLock, pc, i, n, p, target, count,
          missed, segv>>

Locking == sync = "lock"

ListOf == [e \in Elements |-> Hash[Key[e]]]
Mine(t) == <<t, i[t]>>
MyList(t) == ListOf[Mine(t)]
MyHead(t) == Head(MyList(t))

(* SortedList_length() is given up counting past CountMax: a list that a   *)
(* race has tied into a knot has no end.                                   *)
CountMax == Cardinality(Elements) + 1
Counted(t) == IF count[t] < CountMax THEN count[t] + 1 ELSE count[t]

Init ==
  /\ sync \in {"none", "lock"}
  /\ next = [x \in Node |-> IF x \in Heads THEN x ELSE Null]
  /\ prev = [x \in Node |-> IF x \in Heads THEN x ELSE Null]
  /\ lock = [l \in Lists |-> Free]
  /\ lenLock = Free
  /\ pc = [t \in Threads |-> "insert"]
  /\ i = [t \in Threads |-> 0]
  /\ n = [t \in Threads |-> Null]
  /\ p = [t \in Threads |-> Null]
  /\ target = [t \in Threads |-> Null]
  /\ count = [t \in Threads |-> 0]
  /\ missed = {}
  /\ segv = FALSE

Goto(t, from, to) == pc[t] = from /\ pc' = [pc EXCEPT ![t] = to]

(* Fault: nobody is kept out of the list.                                  *)
TakeAnyway(t, l) == IF Locking THEN lock' = [lock EXCEPT ![l] = t] ELSE UNCHANGED lock

Take(t, l) ==
  IF Locking THEN lock[l] = Free /\ lock' = [lock EXCEPT ![l] = t]
             ELSE UNCHANGED lock

Release(l) ==
  IF Locking THEN lock' = [lock EXCEPT ![l] = Free] ELSE UNCHANGED lock

-----------------------------------------------------------------------------
(* The first loop: SortedList_insert() of every element of the thread.     *)

InsertBegins(t) ==
  /\ Goto(t, "insert", "first") /\ i[t] < Iterations
  /\ Take(t, MyList(t))
  /\ UNCHANGED <<sync, shape, lenLock, local, verdict>>

(* Fault: the order is upside down.                                        *)
FoundBackwards(t) ==
  n[t] = MyHead(t) \/ (n[t] \in Elements /\ Key[Mine(t)] >= Key[n[t]])

(* The place for the element is before n.                                  *)
Found(t) ==
  n[t] = MyHead(t) \/ (n[t] \in Elements /\ Key[Mine(t)] <= Key[n[t]])

InsertWalks(t) ==
  /\ \/ Goto(t, "first", "walk") /\ n' = [n EXCEPT ![t] = next[MyHead(t)]]
     \/ /\ Goto(t, "walk", "walk") /\ n[t] # Null /\ ~Found(t)
        /\ n' = [n EXCEPT ![t] = next[n[t]]]
  /\ UNCHANGED <<sync, shape, lock, lenLock, i, p, target, count, verdict>>

(* No other thread can see the element before the next step.               *)
InsertPlaces(t) ==
  /\ Goto(t, "walk", "link") /\ n[t] # Null /\ Found(t)
  /\ p' = [p EXCEPT ![t] = prev[n[t]]]
  /\ prev' = [prev EXCEPT ![Mine(t)] = prev[n[t]]]
  /\ next' = [next EXCEPT ![Mine(t)] = n[t]]
  /\ UNCHANGED <<sync, lock, lenLock, i, n, target, count, verdict>>

InsertLinks(t) ==
  /\ \/ /\ Goto(t, "link", "linkback") /\ p[t] # Null
        /\ next' = [next EXCEPT ![p[t]] = Mine(t)]
        /\ UNCHANGED prev
     \/ /\ Goto(t, "linkback", "inserted")
        /\ prev' = [prev EXCEPT ![n[t]] = Mine(t)]
        /\ UNCHANGED next
  /\ UNCHANGED <<sync, lock, lenLock, local, verdict>>

(* On to the next element: the end of a pass of either loop.               *)
PassEnds(t, from, to) ==
  /\ Goto(t, from, to)
  /\ Release(MyList(t))
  /\ i' = [i EXCEPT ![t] = @ + 1]
  /\ UNCHANGED <<sync, shape, lenLock, n, p, target, count, verdict>>

Insert(t) ==
  \/ InsertBegins(t) \/ InsertWalks(t) \/ InsertPlaces(t) \/ InsertLinks(t)
  \/ PassEnds(t, "inserted", "insert")

-----------------------------------------------------------------------------
(* The length of all lists, under the lock of the locking and every lock.  *)

LengthBegins(t) ==
  /\ i[t] = Iterations
  /\ Goto(t, "insert", IF Locking THEN "lockall" ELSE "list")
  /\ IF Locking THEN lenLock = Free /\ lenLock' = t ELSE UNCHANGED lenLock
  /\ i' = [i EXCEPT ![t] = 0]
  /\ count' = [count EXCEPT ![t] = 0]
  /\ UNCHANGED <<sync, shape, lock, n, p, target, verdict>>

(* A pass of a loop over the lists ends: on to the next list, or out.      *)
NextList(t, from, again, out) ==
  IF i[t] + 1 < NLists
  THEN Goto(t, from, again) /\ i' = [i EXCEPT ![t] = @ + 1]
  ELSE Goto(t, from, out) /\ i' = [i EXCEPT ![t] = 0]

LengthLocks(t) ==
  /\ NextList(t, "lockall", "lockall", "list")
  /\ Take(t, i[t])
  /\ UNCHANGED <<sync, shape, lenLock, n, p, target, count, verdict>>

AfterLength == IF Locking THEN "unlockall" ELSE "turn"

LengthSkips(t) ==
  /\ NextList(t, "list", "list", AfterLength)
  /\ next[Head(i[t])] = Head(i[t])
  /\ UNCHANGED <<sync, shape, lock, lenLock, n, p, target, count, verdict>>

LengthEnters(t) ==
  /\ Goto(t, "list", "count") /\ next[Head(i[t])] # Head(i[t])
  /\ n' = [n EXCEPT ![t] = Head(i[t])]
  /\ UNCHANGED <<sync, shape, lock, lenLock, i, p, target, count, verdict>>

(* The last hop, back to the head, makes up for retval = -1.               *)
LengthCounts(t) ==
  /\ n[t] # Null
  /\ n' = [n EXCEPT ![t] = next[n[t]]]
  /\ IF next[n[t]] # Head(i[t])
     THEN /\ Goto(t, "count", "count")
          /\ count' = [count EXCEPT ![t] = Counted(t)]
          /\ UNCHANGED i
     ELSE NextList(t, "count", "list", AfterLength) /\ UNCHANGED count
  /\ UNCHANGED <<sync, shape, lock, lenLock, p, target, verdict>>

LengthUnlocks(t) ==
  /\ NextList(t, "unlockall", "unlockall", "unlocklen")
  /\ Release(i[t])
  /\ UNCHANGED <<sync, shape, lenLock, n, p, target, count, verdict>>

LengthEnds(t) ==
  /\ Goto(t, "unlocklen", "turn")
  /\ lenLock' = Free
  /\ UNCHANGED <<sync, shape, lock, local, verdict>>

Length(t) ==
  \/ LengthBegins(t) \/ LengthLocks(t) \/ LengthSkips(t) \/ LengthEnters(t)
  \/ LengthCounts(t) \/ LengthUnlocks(t) \/ LengthEnds(t)

-----------------------------------------------------------------------------
(* The second loop: SortedList_lookup() and SortedList_delete().           *)

TurnBegins(t) ==
  /\ Goto(t, "turn", "lookup") /\ i[t] < Iterations
  /\ Take(t, MyList(t))
  /\ UNCHANGED <<sync, shape, lenLock, local, verdict>>

LookupTests(t) ==
  /\ Goto(t, "lookup", "take") /\ next[MyHead(t)] # MyHead(t)
  /\ UNCHANGED <<sync, shape, lock, lenLock, local, verdict>>

(* Both the test for the empty list and the loop end in NULL: between the  *)
(* two reads of list->next another thread can empty the list.              *)
LookupMisses(t) ==
  /\ \E from \in {"lookup", "take"} : Goto(t, from, "deleted")
  /\ next[MyHead(t)] = MyHead(t)
  /\ missed' = missed \cup {Mine(t)}
  /\ UNCHANGED <<sync, shape, lock, lenLock, local, segv>>

(* Without braces around the two lines below `if(strcmp(...) == 0)', the   *)
(* first pass of the loop returns whatever comes first.                    *)
LookupTakes(t) ==
  /\ Goto(t, "take", "deleteN") /\ next[MyHead(t)] # MyHead(t)
  /\ target' = [target EXCEPT ![t] = next[MyHead(t)]]
  /\ UNCHANGED <<sync, shape, lock, lenLock, i, n, p, count, verdict>>

DeleteReads(t) ==
  /\ \/ /\ Goto(t, "deleteN", "deleteP")
        /\ n' = [n EXCEPT ![t] = next[target[t]]]
        /\ UNCHANGED p
     \/ /\ Goto(t, "deleteP", "checkN")
        /\ p' = [p EXCEPT ![t] = prev[target[t]]]
        /\ UNCHANGED n
  /\ UNCHANGED <<sync, shape, lock, lenLock, i, target, count, verdict>>

(* A failed check returns -1 or 1, which threadfunc() ignores.             *)
DeleteChecks(t) ==
  /\ \/ /\ n[t] # Null
        /\ Goto(t, "checkN", IF prev[n[t]] = target[t] THEN "checkP" ELSE "deleted")
     \/ /\ p[t] # Null
        /\ Goto(t, "checkP", IF next[p[t]] = target[t] THEN "cutN" ELSE "deleted")
  /\ UNCHANGED <<sync, shape, lock, lenLock, local, verdict>>

DeleteUnlinks(t) ==
  /\ \/ /\ Goto(t, "cutN", "cutP")
        /\ prev' = [prev EXCEPT ![n[t]] = p[t]] /\ UNCHANGED next
     \/ /\ Goto(t, "cutP", "clearN")
        /\ next' = [next EXCEPT ![p[t]] = n[t]] /\ UNCHANGED prev
     \/ /\ Goto(t, "clearN", "clearP")
        /\ next' = [next EXCEPT ![target[t]] = Null] /\ UNCHANGED prev
     \/ /\ Goto(t, "clearP", "deleted")
        /\ prev' = [prev EXCEPT ![target[t]] = Null] /\ UNCHANGED next
  /\ UNCHANGED <<sync, lock, lenLock, local, verdict>>

Delete(t) ==
  \/ TurnBegins(t) \/ LookupTests(t) \/ LookupMisses(t) \/ LookupTakes(t)
  \/ DeleteReads(t) \/ DeleteChecks(t) \/ DeleteUnlinks(t)
  \/ PassEnds(t, "deleted", "turn")

-----------------------------------------------------------------------------
(* The step would follow a null pointer.                                   *)
Segfault(t) ==
  /\ \/ pc[t] \in {"walk", "count", "checkN"} /\ n[t] = Null
     \/ pc[t] \in {"link", "checkP"} /\ p[t] = Null
  /\ segv' = TRUE
  /\ UNCHANGED <<sync, shape, lock, lenLock, pc, local, missed>>

Step(t) == ~segv /\ (Insert(t) \/ Length(t) \/ Delete(t) \/ Segfault(t))

(* threadfunc() has returned.                                              *)
Ended(t) == pc[t] = "turn" /\ i[t] = Iterations
AllEnded == \A t \in Threads : Ended(t)

(* main() prints its verdict and exits, or the program has died.           *)
Exited == (segv \/ AllEnded) /\ UNCHANGED vars

Next == (\E t \in Threads : Step(t)) \/ Exited

Spec == Init /\ [][Next]_vars

(* A thread that can take a step is scheduled sooner or later.             *)
LiveSpec == Spec /\ \A t \in Threads : WF_vars(Step(t))

-----------------------------------------------------------------------------
Inserting == {"insert", "first", "walk", "link", "linkback", "inserted"}
Measuring == {"lockall", "list", "count", "unlockall", "unlocklen"}
Deleting  == {"turn", "lookup", "take", "deleteN", "deleteP", "checkN",
              "checkP", "cutN", "cutP", "clearN", "clearP", "deleted"}

(* The elements whose SortedList_insert() has linked them in, and those    *)
(* whose turn has found nothing, failed a check or cut something out.      *)
PassedBy(e, stages) ==
  LET t == e[1] IN i[t] > e[2] \/ (i[t] = e[2] /\ pc[t] \in stages)

Inserted ==
  {e \in Elements : pc[e[1]] \in Inserting => PassedBy(e, {"linkback", "inserted"})}
Served ==
  {e \in Elements : /\ pc[e[1]] \in Deleting
                    /\ PassedBy(e, {"clearN", "clearP", "deleted"})}

(* Walk(l)[k] is where k hops along next lead to from list l's head.       *)
Walk(l) ==
  LET W[k \in 0 .. CountMax] ==
        IF k = 0 THEN Head(l)
        ELSE IF W[k-1] = Null THEN Null ELSE next[W[k-1]]
  IN  W

Content(l) == {e \in Elements : \E k \in 1 .. CountMax : Walk(l)[k] = e}

(* Locked, the lists are what SortedList.h:6 promises whenever no thread   *)
(* is between lock and unlock: next leads through the elements in          *)
(* ascending order back to the head, and prev leads the same way back.     *)
ListsSound ==
  Locking => \A l \in Lists : lock[l] = Free =>
    LET W == Walk(l)
        size == Cardinality(Content(l))
    IN  /\ W[size + 1] = Head(l)
        /\ \A k \in 0 .. size : prev[W[k+1]] = W[k]
        /\ \A k \in 1 .. size-1 : Key[W[k]] <= Key[W[k+1]]
        /\ \A e \in Content(l) : ListOf[e] = l

(* Locked, the length is the one all lists together have at one moment,    *)
(* when the counting ends: what went in less what was taken out.           *)
LengthIsSnapshot ==
  Locking => \A t \in Threads : pc[t] = "unlockall" /\ i[t] = 0 =>
    count[t] = Cardinality(Inserted) - Cardinality(Served)

(* Locked, SortedList_delete() never finds corrupted neighbours, nor does  *)
(* a null pointer turn up: it always returns 0 (SortedList.h:46).          *)
ChecksPass ==
  Locking => /\ ~segv
             /\ \A t \in Threads :
                  /\ pc[t] = "checkN" => prev[n[t]] = target[t]
                  /\ pc[t] \in {"checkN", "checkP"} => next[p[t]] = target[t]

(* Locked, each operation takes effect at once, as in ListPool; so no turn *)
(* finds its list empty (sltest.c:241).                                    *)
Pool == INSTANCE ListPool WITH
  content <- [l \in Lists |-> Content(l)],
  inserted <- Inserted,
  served <- Served,
  failed <- missed
ImplementsListPool ==
  Pool!Init /\ [][Locking => Pool!Next]_(Pool!vars)

(* Locked, every thread comes to the end: taking every lock, under         *)
(* len_mutex, while others take single ones, locks nobody out.             *)
AllThreadsEnd == Locking => <>AllEnded

(* "return pointer to matching element, or NULL" (SortedList.h:64).        *)
LookupMatches ==
  Locking => \A t \in Threads :
    pc[t] = "deleteN" => Key[target[t]] = Key[Mine(t)]
=============================================================================
