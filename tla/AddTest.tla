------------------------------- MODULE AddTest ------------------------------
(***************************************************************************)
(* lab4/addtest.c: threads that add to and subtract from one counter, with *)
(* the synchronisation that --sync selects.  A step is one access to       *)
(* shared memory, so a preemption or a pthread_yield (--yield) can come    *)
(* between any two of them.                                                *)
(***************************************************************************)
EXTENDS Integers, FiniteSets

CONSTANTS
  Threads,
  Iterations,   \* --iterations
  IntMax,       \* INT_MAX
  Free          \* the lock's value when no thread holds it

ASSUME ThreadsAssumption == IsFiniteSet(Threads)
ASSUME IterationsAssumption == Iterations \in Nat
ASSUME FreeAssumption == Free \notin Threads
ASSUME IntMaxAssumption == IntMax \in Nat

VARIABLES
  sync,      \* what --sync has selected
  counter,   \* static long long counter
  done,      \* operations thread t has finished, over both of its loops
  pc,
  orig,      \* the value read from the counter
  sum,       \* the value to be written
  lock       \* the thread that holds mutex, or spinlock, else Free

vars == <<sync, counter, done, pc, orig, sum, lock>>

Operations == 2 * Iterations

(* Fault: the first loop runs once too often, the second once too little.  *)
DeltaLate(k) == IF k <= Iterations THEN 1 ELSE -1

Delta(k) == IF k < Iterations THEN 1 ELSE -1
Locking == sync \in {"mutex", "spin"}

(* In the compare-and-swap loop `orig' is an int, the counter a long long. *)
IntRange == -IntMax-1 .. IntMax

(* Fault: a narrower integer.                                              *)
ToBit(n) == n % 2

ToInt(n) ==
  IF n \in IntRange THEN n
  ELSE ((n + IntMax + 1) % (2 * (IntMax + 1))) - (IntMax + 1)

(* orig+1 and orig-1 are computed as int: past the end the build may wrap  *)
(* around or carry on with more bits.                                      *)
IntSums(a, d) == IF a + d \in IntRange THEN {a + d} ELSE {a + d, ToInt(a + d)}

Init ==
  /\ sync \in {"none", "mutex", "spin", "cas"}
  /\ counter = 0
  /\ done = [t \in Threads |-> 0]
  /\ pc = [t \in Threads |-> "next"]
  /\ orig = [t \in Threads |-> 0]
  /\ sum = [t \in Threads |-> 0]
  /\ lock = Free

Goto(t, from, to) == pc[t] = from /\ pc' = [pc EXCEPT ![t] = to]

(* Fault: the lock is taken whether it is free or not.                     *)
AcquireAnyway(t) ==
  /\ Locking /\ done[t] < Operations
  /\ Goto(t, "next", "read")
  /\ lock' = t
  /\ UNCHANGED <<sync, counter, done, orig, sum>>

(* pthread_mutex_lock, or the exchange that ends the spinning loop.        *)
Acquire(t) ==
  /\ Locking /\ done[t] < Operations
  /\ Goto(t, "next", "read")
  /\ lock = Free /\ lock' = t
  /\ UNCHANGED <<sync, counter, done, orig, sum>>

(* long long sum = *pointer + value, in add, addm and adds.                *)
Read(t) ==
  /\ IF Locking THEN Goto(t, "read", "write") ELSE Goto(t, "next", "write")
  /\ sync # "cas" /\ done[t] < Operations
  /\ sum' = [sum EXCEPT ![t] = counter + Delta(done[t])]
  /\ UNCHANGED <<sync, counter, done, orig, lock>>

(* *pointer = sum.                                                         *)
Write(t) ==
  /\ sync # "cas"
  /\ Goto(t, "write", IF Locking THEN "unlock" ELSE "next")
  /\ counter' = sum[t]
  /\ done' = [done EXCEPT ![t] = @ + 1]
  /\ UNCHANGED <<sync, orig, sum, lock>>

Release(t) ==
  /\ Goto(t, "unlock", "next")
  /\ lock' = Free
  /\ UNCHANGED <<sync, counter, done, orig, sum>>

(* The loop around __sync_val_compare_and_swap.                            *)
ReadOrig(t) ==
  /\ sync = "cas" /\ done[t] < Operations
  /\ Goto(t, "next", "swap")
  /\ orig' = [orig EXCEPT ![t] = ToInt(counter)]
  /\ \E s \in IntSums(ToInt(counter), Delta(done[t])) :
       sum' = [sum EXCEPT ![t] = s]
  /\ UNCHANGED <<sync, counter, done, lock>>

Swap(t) ==
  /\ Goto(t, "swap", "next")
  /\ \/ /\ counter = orig[t]
        /\ counter' = sum[t]
        /\ done' = [done EXCEPT ![t] = @ + 1]
     \/ /\ counter # orig[t]
        /\ UNCHANGED <<counter, done>>
  /\ UNCHANGED <<sync, orig, sum, lock>>

Step(t) ==
  Acquire(t) \/ Read(t) \/ Write(t) \/ Release(t) \/ ReadOrig(t) \/ Swap(t)

(* threadfunc() has returned.                                              *)
Ended(t) == pc[t] = "next" /\ done[t] = Operations

(* main() joins every thread, prints its verdict and exits.                *)
AllEnded == \A t \in Threads : Ended(t)
Exited == AllEnded /\ UNCHANGED vars

Next == (\E t \in Threads : Step(t)) \/ Exited

Spec == Init /\ [][Next]_vars

(* A thread that can take a step is scheduled sooner or later.             *)
LiveSpec == Spec /\ \A t \in Threads : WF_vars(Step(t))

-----------------------------------------------------------------------------
TypeOK ==
  /\ sync \in {"none", "mutex", "spin", "cas"}
  /\ counter \in Int
  /\ done \in [Threads -> 0 .. Operations]
  /\ pc \in [Threads -> {"next", "read", "write", "unlock", "swap"}]
  /\ orig \in [Threads -> Int]
  /\ sum \in [Threads -> Int]
  /\ lock \in Threads \cup {Free}

(* With --sync=m or s the lock is held exactly by the thread between its   *)
(* lock and its unlock (addtest.c:87, 102).                                *)
LockHeld ==
  Locking => \A t \in Threads : pc[t] \in {"read", "write", "unlock"} <=> lock = t

(* The int `orig' is wide enough: what a thread would make of the counter  *)
(* fits it (addtest.c:116; --iterations and --threads are not checked).    *)
FitsInt ==
  sync = "cas" => /\ counter \in IntRange
                  /\ \A t \in Threads : done[t] < Operations =>
                       counter + Delta(done[t]) \in IntRange

(* With any --sync no update is lost: what is about to be written is the   *)
(* counter's value of this moment plus the operation.  With --sync=c that  *)
(* is so whenever the swap will succeed.                                   *)
NothingLost ==
  sync # "none" => \A t \in Threads :
    /\ pc[t] = "write" => sum[t] = counter + Delta(done[t])
    /\ pc[t] = "swap" /\ orig[t] = counter => sum[t] = counter + Delta(done[t])

(* With any --sync every operation takes effect at once and on the present *)
(* value: the counter is the atomic one of Tally.                          *)
TallyOf == INSTANCE Tally
ImplementsTally ==
  TallyOf!Init /\ [][sync # "none" => TallyOf!Next]_(TallyOf!vars)

(* Every thread comes to the end of both loops: nobody spins, blocks or    *)
(* retries for ever, as long as the count fits the int `orig'.             *)
AllThreadsEnd == <>AllEnded

(* Without --sync updates get lost, but no schedule pushes the counter     *)
(* past what all the increments would give; downwards it stays one short   *)
(* of all the decrements, since the first decrement has an increment of    *)
(* its own thread before it.                                               *)
RaceBounded ==
  LET Total == Cardinality(Threads) * Iterations
  IN  counter \in 1-Total .. Total
=============================================================================
