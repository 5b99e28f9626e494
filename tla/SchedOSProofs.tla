---------------------------- MODULE SchedOSProofs ---------------------------
(***************************************************************************)
(* Proofs about the SchedOS kernel, for every number of processes and      *)
(* every algorithm, for whatever calls the processes make and whatever     *)
(* word the first schedule() reads through the null pointer.               *)
(***************************************************************************)
EXTENDS SchedOS, FiniteSetTheorems, TLAPS

(* What the applications pass to sys_priority is not negative, nor is what *)
(* start() assigns: topPriority starts at 0 (schedos-kern.c:287).          *)
NaturalPriorities ==
  \A p \in ProcPid : FirstPriority[p] \in Nat /\ PriorityArgs[p] \subseteq Nat

(* The shares that p may have in its life: not negative, since Largest     *)
(* starts at -1 (schedos-kern.c:323), or even positive; and no two         *)
(* processes have one in common.                                           *)
Shares(p) == ShareArgs[p] \cup {FirstShare[p]}
NaturalShares == \A p \in ProcPid : Shares(p) \subseteq Nat
PositiveShares == \A p \in ProcPid : Shares(p) \subseteq Nat \ {0}
DistinctShares == \A p, q \in ProcPid : p # q => Shares(p) \cap Shares(q) = {}

-----------------------------------------------------------------------------
(* Max, of FiniteSetsExt, is what its name says for every finite set of    *)
(* integers: among the sets {y \in S : y > x} one is smallest, and its x   *)
(* is the maximum.                                                         *)
LEMMA MaxIsGreatest ==
  ASSUME NEW S, S \subseteq Int, IsFiniteSet(S), S # {}
  PROVE  /\ Max(S) \in S
         /\ \A y \in S : Max(S) >= y
<1> DEFINE Above(x) == {y \in S : y > x}
           T == {Above(x) : x \in S}
<1>1. IsWellFoundedOn(StrictSubsetOrdering(S), SUBSET S)
  BY FS_StrictSubsetOrderingWellFounded, FS_FiniteSubsetsOfFinite
<1>2. T \subseteq SUBSET S /\ T # {}
  OBVIOUS
<1>3. PICK U \in T : \A V \in T : ~ (<<V, U>> \in StrictSubsetOrdering(S))
  BY <1>1, <1>2, WFMin
<1>4. PICK x \in S : U = Above(x)
  BY <1>3
<1>5. \A y \in S : x >= y
  <2> SUFFICES ASSUME NEW y \in S, ~(x >= y) PROVE FALSE
    OBVIOUS
  <2>1. x \in Int /\ y \in Int /\ y > x
    OBVIOUS
  <2>2. Above(y) \subseteq Above(x)
    <3> SUFFICES ASSUME NEW z \in S, z > y PROVE z > x
      OBVIOUS
    <3> QED BY <2>1
  <2>3. y \in Above(x) /\ y \notin Above(y)
    BY <2>1
  <2>4. <<Above(y), Above(x)>> \in StrictSubsetOrdering(S)
    BY <2>2, <2>3, Zenon DEF StrictSubsetOrdering
  <2>5. Above(y) \in T
    OBVIOUS
  <2> QED BY <1>3, <1>4, <2>4, <2>5
<1> QED BY <1>5 DEF Max

(* The values of a function on a finite set.                               *)
LEMMA FiniteValues ==
  ASSUME NEW R, IsFiniteSet(R), NEW f, NEW least \in Int, \A p \in R : f[p] \in Int
  PROVE  LET V == {least} \cup {f[p] : p \in R}
         IN  V \subseteq Int /\ IsFiniteSet(V) /\ V # {}
<1> DEFINE g == [p \in R |-> f[p]]
           W == {f[p] : p \in R}
<1>1. g \in Surjection(R, W)
  BY DEF Surjection
<1>2. IsFiniteSet(W)
  BY <1>1, FS_Surjection
<1>3. IsFiniteSet(W \cup {least})
  BY <1>2, FS_AddElement
<1>4. {least} \cup W = W \cup {least}
  OBVIOUS
<1> QED BY <1>3, <1>4

LEMMA MaxOfValues ==
  ASSUME NEW R, IsFiniteSet(R), NEW f, NEW least \in Int, \A p \in R : f[p] \in Int
  PROVE  LET m == Max({least} \cup {f[p] : p \in R})
         IN  /\ m \in Int /\ m >= least
             /\ \A p \in R : m >= f[p]
             /\ m = least \/ \E p \in R : m = f[p]
<1> DEFINE V == {least} \cup {f[p] : p \in R}
<1>1. V \subseteq Int /\ IsFiniteSet(V) /\ V # {}
  BY FiniteValues
<1>2. Max(V) \in V /\ \A y \in V : Max(V) >= y
  <2> HIDE DEF V
  <2> QED BY <1>1, MaxIsGreatest
<1> QED BY <1>1, <1>2

(* Processes of the table, by a condition, are finitely many.              *)
LEMMA FinitelyManyRun == \A R : R \subseteq ProcPid => IsFiniteSet(R)
<1>1. IsFiniteSet(1 .. NPROCS-1)
  BY NPROCSAssumption, FS_Interval
<1> QED BY <1>1, FS_Subset DEF ProcPid

-----------------------------------------------------------------------------
(* What is typed before a schedule() stays so: the handler has typed what  *)
(* schedule() reads.                                                       *)
Handled ==
  /\ scheduling_algorithm \in 0 .. 3 /\ current \in Pid
  /\ p_state' \in [Pid -> {"EMPTY", "RUNNABLE", "ZOMBIE"}]
  /\ p_priority' \in [Pid -> Int]
  /\ p_share' \in [Pid -> Int]

(* schedule() runs a runnable process or stops.                            *)
Lands ==
  \/ cpu' = "user" /\ current' \in Runnable'
  \/ cpu' \in {"spin", "wild"} /\ current' = current

LEMMA RunnableIn == Runnable' \subseteq ProcPid /\ IsFiniteSet(Runnable')
  BY FinitelyManyRun DEF Runnable

LEMMA DispatchTyped ==
  ASSUME NEW p \in ProcPid, NEW counts \in [Pid -> Int], NEW turns \in [Pid -> Nat],
         Dispatch(p, counts, turns)
  PROVE  p_share_count' \in [Pid -> Int] /\ quanta' \in [Pid -> Nat]
<1>1. p \in Pid
  BY NPROCSAssumption DEF Pid, ProcPid
<1>2. [turns EXCEPT ![p] = @ + 1] \in [Pid -> Nat]
  BY <1>1
<1> QED BY <1>2 DEF Dispatch

LEMMA ChargedTyped ==
  ASSUME NEW pid \in Pid, NEW counts \in [Pid -> Int]
  PROVE  Charged(pid, counts) \in [Pid -> Int]
  BY DEF Charged

LEMMA ResetTyped ==
  ASSUME NEW counts \in [Pid -> Int], p_share' \in [Pid -> Int]
  PROVE  Reset(counts) \in [Pid -> Int]
  BY DEF Reset

LEMMA NextOfLands ==
  ASSUME Handled, NEW pid, NEW S, S \subseteq Runnable',
         NEW counts \in [Pid -> Int], NEW turns \in [Pid -> Nat],
         NextOf(pid, S, counts, turns)
  PROVE  /\ Lands /\ p_share_count' \in [Pid -> Int] /\ quanta' \in [Pid -> Nat]
         /\ cpu' = "user" => current' \in S
         /\ cpu' # "user" => S = {}
<1>1. CASE \E p \in S : Dispatch(p, counts, turns)
  <2>1. PICK p \in S : Dispatch(p, counts, turns)
    BY <1>1
  <2>2. p \in Runnable' /\ p \in ProcPid
    BY RunnableIn
  <2> QED BY <2>1, <2>2, DispatchTyped DEF Lands, Dispatch
<1>2. CASE S = {} /\ Stop("spin", counts, turns)
  BY <1>2 DEF Lands, Stop
<1> QED BY <1>1, <1>2 DEF NextOf

LEMMA FirstOfLands ==
  ASSUME Handled, NEW S, S \subseteq Runnable',
         NEW counts \in [Pid -> Int], NEW turns \in [Pid -> Nat],
         FirstOf(S, counts, turns)
  PROVE  /\ Lands /\ p_share_count' \in [Pid -> Int] /\ quanta' \in [Pid -> Nat]
         /\ cpu' = "user" => current' \in S /\ \A q \in S : current' <= q
         /\ cpu' # "user" => S = {}
<1>1. CASE \E p \in S : (\A q \in S : p <= q) /\ Dispatch(p, counts, turns)
  <2>1. PICK p \in S : (\A q \in S : p <= q) /\ Dispatch(p, counts, turns)
    BY <1>1
  <2>2. p \in Runnable' /\ p \in ProcPid
    BY RunnableIn
  <2> QED BY <2>1, <2>2, DispatchTyped DEF Lands, Dispatch
<1>2. CASE S = {} /\ Stop("wild", counts, turns)
  BY <1>2 DEF Lands, Stop
<1> QED BY <1>1, <1>2 DEF FirstOf

LEMMA WithShareIn == \A n : WithShare(n) \subseteq Runnable'
  BY DEF WithShare

LEMMA ByShareLands ==
  ASSUME Handled, NEW pid \in Pid,
         NEW counts \in [Pid -> Int], NEW turns \in [Pid -> Nat],
         ByShare(pid, counts, turns)
  PROVE  Lands /\ p_share_count' \in [Pid -> Int] /\ quanta' \in [Pid -> Nat]
<1>1. CASE pid \in Runnable' /\ counts[pid] > 0 /\ Dispatch(pid, counts, turns)
  BY <1>1, RunnableIn, DispatchTyped DEF Lands, Dispatch
<1>2. CASE FirstOf(WithShare(Largest(TurnLeft(counts))), counts, turns)
  BY <1>2, WithShareIn, FirstOfLands
<1>3. CASE FirstOf(WithShare(Largest(Runnable')), Reset(counts), [p \in Pid |-> 0])
  <2>1. Reset(counts) \in [Pid -> Int] /\ [p \in Pid |-> 0] \in [Pid -> Nat]
    BY ResetTyped DEF Handled
  <2> QED BY <1>3, <2>1, WithShareIn, FirstOfLands
<1> QED BY <1>1, <1>2, <1>3 DEF ByShare

LEMMA ScheduleLands ==
  ASSUME Handled, NEW pid \in Pid,
         NEW counts \in [Pid -> Int], NEW turns \in [Pid -> Nat],
         Schedule(pid, counts, turns)
  PROVE  Lands /\ p_share_count' \in [Pid -> Int] /\ quanta' \in [Pid -> Nat]
<1>0. scheduling_algorithm \in {0, 1, 2, 3}
  BY DEF Handled
<1>1. CASE scheduling_algorithm = 0
  BY <1>1, NextOfLands DEF Schedule
<1>2. CASE scheduling_algorithm = 1
  <2>1. FirstOf(Runnable', counts, turns)
    BY <1>2 DEF Schedule
  <2> QED BY <2>1, FirstOfLands
<1>3. CASE scheduling_algorithm = 2
  BY <1>3, NextOfLands DEF Schedule
<1>4. CASE scheduling_algorithm = 3
  <2>1. ByShare(pid, Charged(pid, counts), turns)
    BY <1>4 DEF Schedule
  <2> QED BY <2>1, ByShareLands, ChargedTyped
<1> QED BY <1>0, <1>1, <1>2, <1>3, <1>4

-----------------------------------------------------------------------------
(* What the processes have told the kernel: their priorities and shares    *)
(* are those of start() or of a system call of their own.                  *)
AsTold ==
  \A p \in ProcPid : /\ p_priority[p] \in PriorityArgs[p] \cup {FirstPriority[p]}
                     /\ p_share[p] \in Shares(p)

Typed == TypeOK /\ AsTold

(* A step that ends in schedule().  Nobody becomes runnable in it.         *)
Scheduled ==
  /\ UNCHANGED <<scheduling_algorithm, console>>
  /\ Handled /\ Runnable' \subseteq Runnable
  /\ cpu \in {"boot", "user"}
  /\ \E pid \in Pid, counts \in [Pid -> Int], turns \in [Pid -> Nat] :
       Schedule(pid, counts, turns)

LEMMA PidFacts == /\ ProcPid \subseteq Pid /\ Pid \subseteq Int /\ 0 \in Pid
                  /\ Pid = ProcPid \cup {0} /\ 0 \notin ProcPid
  BY NPROCSAssumption DEF Pid, ProcPid

(* A step that stops the machine and changes nothing else.                 *)
Halts ==
  /\ cpu' \in {"hang", "stray"}
  /\ UNCHANGED <<scheduling_algorithm, p_state, p_priority, p_share,
                 p_share_count, current, console, quanta>>

LEMMA StartInTable == \A word \in Int : StartOf(word) \in Pid
  BY NPROCSAssumption, SMT DEF StartOf, Pid

(* To charge nobody is to give entry 0 a turn and charge it.               *)
LEMMA NobodyCharged ==
  ASSUME scheduling_algorithm = 3, NEW counts \in [Pid -> Int], NEW turns,
         ByShare(0, counts, turns)
  PROVE  \E given \in [Pid -> Int] :
           Charged(0, given) = counts /\ Schedule(0, given, turns)
<1> DEFINE given == [counts EXCEPT ![0] = @ + 1]
<1>1. 0 \in Pid
  BY PidFacts
<1>2. given \in [Pid -> Int]
  BY <1>1
<1>3. Charged(0, given) = counts
  <2> DEFINE c == Charged(0, given)
  <2>1. c \in [Pid -> Int]
    BY <1>1, <1>2, ChargedTyped
  <2>2. \A p \in Pid : c[p] = counts[p]
    <3>1. \A p \in Pid : given[p] = IF p = 0 THEN counts[0] + 1 ELSE counts[p]
      BY <1>1
    <3>2. \A p \in Pid : c[p] = IF p = 0 THEN given[0] - 1 ELSE given[p]
      <4> HIDE DEF given
      <4> QED BY <1>1, <1>2 DEF Charged
    <3> HIDE DEF c, given
    <3>3. \A p \in Pid : counts[p] \in Int
      OBVIOUS
    <3> QED BY <1>1, <3>1, <3>2, <3>3
  <2> HIDE DEF c
  <2>3. c = counts
    BY <2>1, <2>2
  <2> QED BY <2>3 DEF c
<1>4. Schedule(0, given, turns)
  <2> HIDE DEF given
  <2> QED BY <1>3 DEF Schedule
<1> QED BY <1>2, <1>3, <1>4

(* The first schedule() is one like any other, or leaves the table.        *)
LEMMA BootSchedules ==
  ASSUME Typed, Boot
  PROVE  (Scheduled \/ Halts) /\ AsTold'
<1>1. Handled /\ Runnable' = Runnable /\ AsTold'
  BY AlgorithmsAssumption DEF Typed, TypeOK, Handled, Boot, Runnable, AsTold
<1>2. p_share_count \in [Pid -> Int] /\ quanta \in [Pid -> Nat] /\ cpu = "boot"
  BY DEF Typed, TypeOK, Boot
<1>3. PICK word \in Int :
        \/ LeavesTable(word) /\ Stop("stray", p_share_count, quanta)
        \/ Searches(word)
        \/ ChargesOne(word)
        \/ ChargesNobody(word)
  BY FirstWordsAssumption DEF Boot
<1>4. CASE Stop("stray", p_share_count, quanta)
  BY <1>1, <1>4 DEF Stop, Halts, Boot
<1>5. CASE Searches(word)
  <2>1. StartOf(word) \in Pid /\ Schedule(StartOf(word), p_share_count, quanta)
    BY <1>5, StartInTable DEF Searches
  <2> QED BY <1>1, <1>2, <2>1 DEF Scheduled, Boot
<1>6. CASE ChargesOne(word)
  <2>1. word \in Pid /\ Schedule(word, p_share_count, [quanta EXCEPT ![word] = 1])
    BY <1>6 DEF ChargesOne
  <2>2. [quanta EXCEPT ![word] = 1] \in [Pid -> Nat]
    BY <1>2
  <2> QED BY <1>1, <1>2, <2>1, <2>2 DEF Scheduled, Boot
<1>7. CASE ChargesNobody(word)
  <2>1. PICK given \in [Pid -> Int] : Schedule(0, given, quanta)
    BY <1>2, <1>7, NobodyCharged DEF ChargesNobody
  <2> QED BY <1>1, <1>2, <2>1, PidFacts DEF Scheduled, Boot
<1> QED BY <1>1, <1>3, <1>4, <1>5, <1>6, <1>7

LEMMA RescheduleSchedules ==
  ASSUME Typed, Reschedule
  PROVE  Scheduled /\ AsTold'
<1>1. quanta \in [Pid -> Nat] /\ p_share_count \in [Pid -> Int] /\ current \in Pid
  BY DEF Typed, TypeOK
<1>2. Handled /\ Runnable' = Runnable /\ AsTold'
  BY AlgorithmsAssumption DEF Typed, TypeOK, Handled, Reschedule, Runnable, AsTold
<1> QED BY <1>1, <1>2 DEF Scheduled, Reschedule, User

LEMMA ExitSchedules ==
  ASSUME Typed, Exit
  PROVE  Scheduled /\ AsTold' /\ Runnable' = Runnable \ {current}
<1>1. quanta \in [Pid -> Nat] /\ p_share_count \in [Pid -> Int] /\ current \in Pid
  BY DEF Typed, TypeOK
<1>2. Handled /\ Runnable' = Runnable \ {current} /\ AsTold'
  BY AlgorithmsAssumption, PidFacts
     DEF Typed, TypeOK, Handled, Exit, Runnable, AsTold
<1> QED BY <1>1, <1>2 DEF Scheduled, Exit, User

LEMMA SetPrioritySchedules ==
  ASSUME Typed, User, NEW n \in PriorityArgs[current], SetPriority(n)
  PROVE  Scheduled /\ AsTold'
<1>1. quanta \in [Pid -> Nat] /\ p_share_count \in [Pid -> Int] /\ current \in ProcPid
  BY DEF Typed, TypeOK
<1>2. n \in Int
  BY <1>1, ArgsAssumption
<1>3. Handled /\ Runnable' = Runnable /\ AsTold'
  BY <1>1, <1>2, AlgorithmsAssumption, PidFacts
     DEF Typed, TypeOK, Handled, SetPriority, Runnable, AsTold
<1> QED BY <1>1, <1>3, PidFacts DEF Scheduled, SetPriority, User

LEMMA SetShareSchedules ==
  ASSUME Typed, User, NEW n \in ShareArgs[current], SetShare(n)
  PROVE  Scheduled /\ AsTold' /\ n \in Int
<1>1. quanta \in [Pid -> Nat] /\ p_share_count \in [Pid -> Int] /\ current \in ProcPid
  BY DEF Typed, TypeOK
<1>2. n \in Int
  BY <1>1, ArgsAssumption
<1>3. Handled /\ Runnable' = Runnable /\ AsTold'
  BY <1>1, <1>2, AlgorithmsAssumption, PidFacts
     DEF Typed, TypeOK, Handled, SetShare, Runnable, AsTold, Shares
<1>4. [p_share_count EXCEPT ![current] = n] \in [Pid -> Int]
  BY <1>1, <1>2
<1>5. [quanta EXCEPT ![current] = 1] \in [Pid -> Nat]
  BY <1>1
<1> QED BY <1>1, <1>2, <1>3, <1>4, <1>5, PidFacts DEF Scheduled, SetShare, User

(* Every step ends in schedule(), prints, stops the machine or stutters.   *)
LEMMA Steps ==
  ASSUME Typed, [Next]_vars
  PROVE  /\ Scheduled \/ PrintChar \/ Halts \/ UNCHANGED vars
         /\ AsTold'
<1>1. CASE User /\ SetPriorityTo(PriorityArgs[current])
  BY <1>1, SetPrioritySchedules DEF SetPriorityTo
<1>2. CASE User /\ SetShareTo(ShareArgs[current])
  BY <1>2, SetShareSchedules DEF SetShareTo
<1>3. CASE PrintChar \/ UnknownInterrupt \/ UNCHANGED vars
  BY <1>3 DEF PrintChar, UnknownInterrupt, Halts, vars, Typed, AsTold
<1> QED BY <1>1, <1>2, <1>3, BootSchedules, RescheduleSchedules, ExitSchedules DEF Next

LEMMA ScheduledLands ==
  ASSUME Scheduled
  PROVE  /\ Handled /\ Lands
         /\ p_share_count' \in [Pid -> Int] /\ quanta' \in [Pid -> Nat]
<1>1. PICK pid \in Pid, counts \in [Pid -> Int], turns \in [Pid -> Nat] :
        Schedule(pid, counts, turns)
  BY DEF Scheduled
<1> QED BY <1>1, ScheduleLands DEF Scheduled

LEMMA ScheduledTyped ==
  ASSUME Typed, Scheduled
  PROVE  TypeOK'
<1>1. current' \in Pid /\ (cpu' = "user" => current' \in ProcPid) /\ cpu' \in CpuModes
  BY ScheduledLands, RunnableIn, PidFacts DEF Lands, CpuModes, Handled
<1> QED BY <1>1, ScheduledLands DEF Scheduled, TypeOK, Typed, Handled, User

LEMMA TypedStep == Typed /\ [Next]_vars => Typed'
<1> SUFFICES ASSUME Typed, [Next]_vars PROVE Typed'
  OBVIOUS
<1>1. CASE PrintChar
  <2>1. console' \in Seq(ProcPid)
    BY <1>1 DEF PrintChar, Typed, TypeOK
  <2> QED BY <1>1, <2>1, Steps DEF PrintChar, Typed, TypeOK, User
<1>2. CASE Halts
  BY <1>2, Steps DEF Halts, Typed, TypeOK, User, CpuModes
<1>3. CASE UNCHANGED vars
  BY <1>3, Steps DEF vars, Typed, TypeOK, User
<1> QED BY <1>1, <1>2, <1>3, Steps, ScheduledTyped DEF Typed

LEMMA InitTyped == Init => Typed
<1> SUFFICES ASSUME Init PROVE Typed
  OBVIOUS
<1>1. AsTold
  BY PidFacts DEF Init, AsTold, Shares
<1>2. TypeOK
  BY PidFacts, FirstAssumption DEF Init, TypeOK, CpuModes, User
<1> QED BY <1>1, <1>2 DEF Typed

(* Everything stays in its type, and a priority or a share is always one   *)
(* that start() or the process itself has chosen.                          *)
THEOREM TypeCorrect == Spec => []TypeOK
<1>1. Typed => TypeOK
  BY DEF Typed
<1> QED BY <1>1, InitTyped, TypedStep, PTL DEF Spec

THEOREM TypedAlways == Spec => []Typed
  BY InitTyped, TypedStep, PTL DEF Spec

-----------------------------------------------------------------------------
(* Algorithm 1: schedule() takes the runnable process of the smallest      *)
(* number.                                                                 *)
LEMMA SmallestRuns ==
  ASSUME Scheduled, scheduling_algorithm = 1
  PROVE  /\ cpu' = "user" => current' \in Runnable' /\ \A q \in Runnable' : current' <= q
         /\ cpu' # "user" => Runnable' = {}
<1>1. PICK pid \in Pid, counts \in [Pid -> Int], turns \in [Pid -> Nat] :
        Schedule(pid, counts, turns)
  BY DEF Scheduled
<1>2. FirstOf(Runnable', counts, turns)
  BY <1>1 DEF Schedule
<1> QED BY <1>2, FirstOfLands DEF Scheduled

(* The process that runs has the smallest number of all that ever will,    *)
(* and so had those whose characters are on the screen: nobody becomes     *)
(* runnable again.                                                         *)
SmallestFirst ==
  scheduling_algorithm = 1 =>
    /\ User => current \in Runnable /\ \A q \in Runnable : current <= q
    /\ \A i \in 1 .. Len(console) : \A q \in Runnable : console[i] <= q
    /\ \A i, j \in 1 .. Len(console) : i < j => console[i] <= console[j]

LEMMA SmallestFirstStep == Typed /\ SmallestFirst /\ [Next]_vars => SmallestFirst'
<1> SUFFICES ASSUME Typed, SmallestFirst, [Next]_vars, scheduling_algorithm' = 1
             PROVE  SmallestFirst'
  BY DEF SmallestFirst
<1>1. CASE Scheduled
  <2>1. scheduling_algorithm = 1 /\ console' = console /\ Runnable' \subseteq Runnable
    BY <1>1 DEF Scheduled
  <2>2. User' => current' \in Runnable' /\ \A q \in Runnable' : current' <= q
    BY <1>1, <2>1, SmallestRuns DEF User
  <2> QED BY <2>1, <2>2 DEF SmallestFirst
<1>2. CASE PrintChar
  <2>1. /\ scheduling_algorithm = 1 /\ Runnable' = Runnable /\ current' = current
        /\ User /\ User' /\ console' = Append(console, current)
    BY <1>2 DEF PrintChar, User, Runnable
  <2>2. console \in Seq(ProcPid) /\ current \in ProcPid
    BY <2>1 DEF Typed, TypeOK
  <2>3. /\ Len(console') = Len(console) + 1 /\ console'[Len(console')] = current
        /\ \A i \in 1 .. Len(console) : console'[i] = console[i]
        /\ Len(console) \in Nat
    BY <2>1, <2>2
  <2>4. current \in Runnable /\ \A q \in Runnable : current <= q
    BY <2>1 DEF SmallestFirst
  <2>5. \A i \in 1 .. Len(console') : \A q \in Runnable : console'[i] <= q
    <3> SUFFICES ASSUME NEW i \in 1 .. Len(console'), NEW q \in Runnable
                 PROVE  console'[i] <= q
      OBVIOUS
    <3>1. CASE i = Len(console')
      BY <3>1, <2>3, <2>4
    <3>2. CASE i \in 1 .. Len(console)
      BY <3>2, <2>1, <2>3 DEF SmallestFirst
    <3> QED BY <3>1, <3>2, <2>3
  <2>6. ASSUME NEW i \in 1 .. Len(console'), NEW j \in 1 .. Len(console'), i < j
        PROVE  console'[i] <= console'[j]
    <3>1. CASE j = Len(console')
      <4>1. i \in 1 .. Len(console) /\ console'[i] = console[i] /\ console'[j] = current
        BY <3>1, <2>3, <2>6
      <4> QED BY <4>1, <2>1, <2>4 DEF SmallestFirst
    <3>2. CASE j \in 1 .. Len(console)
      <4>1. i \in 1 .. Len(console)
        BY <3>2, <2>3, <2>6
      <4> QED BY <3>2, <4>1, <2>1, <2>3, <2>6 DEF SmallestFirst
    <3> QED BY <3>1, <3>2, <2>3
  <2> QED BY <2>1, <2>4, <2>5, <2>6 DEF SmallestFirst
<1>3. CASE Halts
  <2>1. ~User'
    BY <1>3 DEF Halts, User
  <2> QED BY <1>3, <2>1 DEF Halts, SmallestFirst, Runnable
<1>4. CASE UNCHANGED vars
  BY <1>4 DEF vars, SmallestFirst, Runnable, User
<1> QED BY <1>1, <1>2, <1>3, <1>4, Steps

LEMMA InitSmallestFirst == Init => SmallestFirst
  BY DEF Init, SmallestFirst, User

(* With algorithm 1 the characters on the screen are sorted, whenever the  *)
(* clock interrupts.                                                       *)
THEOREM SortedOutput == Spec => []OutputSorted
<1>1. SmallestFirst => OutputSorted
  BY DEF SmallestFirst, OutputSorted
<1> QED BY <1>1, InitSmallestFirst, SmallestFirstStep, TypedAlways, PTL DEF Spec

-----------------------------------------------------------------------------
(* Algorithm 2: topPriority is the priority of a runnable process, unless  *)
(* none is left.                                                           *)
LEMMA TopIsAttained ==
  ASSUME NaturalPriorities, AsTold', Handled
  PROVE  /\ TopPriority \in Int
         /\ \A p \in Runnable' : p_priority'[p] <= TopPriority
         /\ Runnable' # {} => \E p \in Runnable' : p_priority'[p] = TopPriority
<1>1. \A p \in Runnable' : p_priority'[p] \in Nat
  BY RunnableIn DEF AsTold, NaturalPriorities
<1> DEFINE R == Runnable'
           f == p_priority'
<1>2. IsFiniteSet(R) /\ \A p \in R : f[p] \in Int
  BY <1>1, RunnableIn
<1>3. LET m == Max({0} \cup {f[p] : p \in R})
      IN  /\ m \in Int /\ m >= 0
          /\ \A p \in R : m >= f[p]
          /\ m = 0 \/ \E p \in R : m = f[p]
  <2>1. 0 \in Int
    OBVIOUS
  <2> HIDE DEF R, f
  <2> QED BY <1>2, <2>1, MaxOfValues, Zenon
<1>4. TopPriority = Max({0} \cup {f[p] : p \in R})
  BY DEF TopPriority
<1> QED BY <1>1, <1>3, <1>4

LEMMA TopRuns ==
  ASSUME NaturalPriorities, AsTold', Scheduled, scheduling_algorithm = 2
  PROVE  /\ cpu' = "user" =>
              current' \in Runnable' /\ \A q \in Runnable' : p_priority'[q] <= p_priority'[current']
         /\ cpu' # "user" => Runnable' = {}
<1>1. PICK pid \in Pid, counts \in [Pid -> Int], turns \in [Pid -> Nat] :
        Schedule(pid, counts, turns)
  BY DEF Scheduled
<1> DEFINE S == {p \in Runnable' : p_priority'[p] = TopPriority}
<1>2. NextOf(pid, S, counts, turns)
  BY <1>1 DEF Schedule
<1>3. Handled /\ S \subseteq Runnable'
  BY DEF Scheduled
<1>4. (cpu' = "user" => current' \in S) /\ (cpu' # "user" => S = {})
  <2> HIDE DEF S
  <2> QED BY <1>2, <1>3, NextOfLands
<1> QED BY <1>3, <1>4, TopIsAttained

TopFirst ==
  scheduling_algorithm = 2 /\ User =>
    current \in Runnable /\ \A p \in Runnable : p_priority[p] <= p_priority[current]

LEMMA TopFirstStep ==
  NaturalPriorities /\ Typed /\ TopFirst /\ [Next]_vars => TopFirst'
<1> SUFFICES ASSUME NaturalPriorities, Typed, TopFirst, [Next]_vars
             PROVE  TopFirst'
  OBVIOUS
<1>1. CASE Scheduled
  BY <1>1, Steps, TopRuns DEF Scheduled, TopFirst, User
<1>2. CASE PrintChar
  BY <1>2 DEF PrintChar, TopFirst, User, Runnable
<1>3. CASE Halts
  BY <1>3 DEF Halts, TopFirst, User
<1>4. CASE UNCHANGED vars
  BY <1>4 DEF vars, TopFirst, User, Runnable
<1> QED BY <1>1, <1>2, <1>3, <1>4, Steps

LEMMA InitTopFirst == Init => TopFirst
  BY DEF Init, TopFirst, User

(* With algorithm 2 no runnable process has a higher priority than the one *)
(* that runs, as long as none is negative.                                 *)
THEOREM TopRunsAlways ==
  ASSUME NaturalPriorities
  PROVE  Spec => []TopPriorityRuns
<1>1. TopFirst => TopPriorityRuns
  BY DEF TopFirst, TopPriorityRuns
<1>2. Typed /\ TopFirst /\ [Next]_vars => TopFirst'
  BY TopFirstStep
<1> QED BY <1>1, <1>2, InitTopFirst, TypedAlways, PTL DEF Spec

-----------------------------------------------------------------------------
(* Algorithm 3: the largest share is that of somebody, unless there is     *)
(* nobody.                                                                 *)
LEMMA LargestIsAttained ==
  ASSUME NaturalShares, AsTold', NEW S, S \subseteq Runnable'
  PROVE  /\ Largest(S) \in Int /\ Largest(S) >= -1
         /\ \A p \in S : p_share'[p] \in Nat /\ p_share'[p] <= Largest(S)
         /\ Largest(S) = -1 \/ \E p \in S : p_share'[p] = Largest(S)
         /\ Largest(S) = -1 <=> S = {}
<1>1. \A p \in S : p_share'[p] \in Nat
  BY RunnableIn DEF AsTold, NaturalShares
<1> DEFINE f == p_share'
<1>2. IsFiniteSet(S) /\ (\A p \in S : f[p] \in Int) /\ -1 \in Int
  BY <1>1, RunnableIn, FS_Subset
<1>3. LET m == Max({-1} \cup {f[p] : p \in S})
      IN  /\ m \in Int /\ m >= -1
          /\ \A p \in S : m >= f[p]
          /\ m = -1 \/ \E p \in S : m = f[p]
  <2> HIDE DEF f
  <2> QED BY <1>2, MaxOfValues, Zenon
<1>4. Largest(S) = Max({-1} \cup {f[p] : p \in S})
  BY DEF Largest
<1>5. /\ Largest(S) \in Int /\ Largest(S) >= -1
      /\ \A p \in S : p_share'[p] <= Largest(S)
      /\ Largest(S) = -1 \/ \E p \in S : p_share'[p] = Largest(S)
  <2>1. \A m \in Int : \A p \in S : m >= p_share'[p] <=> p_share'[p] <= m
    BY <1>1
  <2> QED BY <1>3, <1>4, <2>1
<1> QED BY <1>1, <1>5

LEMMA TurnLeftIn == \A counts : TurnLeft(counts) \subseteq Runnable'
  BY DEF TurnLeft

(* It leaves the table only when nobody is runnable.                       *)
LEMMA ByShareStops ==
  ASSUME NaturalShares, AsTold', Handled, NEW pid \in Pid,
         NEW counts \in [Pid -> Int], NEW turns \in [Pid -> Nat],
         ByShare(pid, counts, turns)
  PROVE  cpu' # "user" => Runnable' = {}
<1> SUFFICES ASSUME cpu' # "user" PROVE Runnable' = {}
  OBVIOUS
<1>1. CASE pid \in Runnable' /\ counts[pid] > 0 /\ Dispatch(pid, counts, turns)
  BY <1>1 DEF Dispatch
<1>2. CASE /\ pid \notin Runnable' \/ counts[pid] <= 0
           /\ ~NewCycle(pid, counts)
           /\ FirstOf(WithShare(Largest(TurnLeft(counts))), counts, turns)
  <2>1. Largest(TurnLeft(counts)) # -1
    BY <1>2 DEF NewCycle
  <2>2. PICK p \in TurnLeft(counts) : p_share'[p] = Largest(TurnLeft(counts))
    BY <2>1, TurnLeftIn, LargestIsAttained
  <2>3. p \in WithShare(Largest(TurnLeft(counts)))
    BY <2>2, TurnLeftIn DEF WithShare
  <2> QED BY <1>2, <2>3, WithShareIn, FirstOfLands
<1>3. CASE FirstOf(WithShare(Largest(Runnable')), Reset(counts), [p \in Pid |-> 0])
  <2>1. Reset(counts) \in [Pid -> Int] /\ [p \in Pid |-> 0] \in [Pid -> Nat]
    BY ResetTyped DEF Handled
  <2>2. WithShare(Largest(Runnable')) = {}
    BY <1>3, <2>1, WithShareIn, FirstOfLands
  <2> QED BY <2>2, LargestIsAttained DEF WithShare
<1> QED BY <1>1, <1>2, <1>3 DEF ByShare

LEMMA StopsForNothingElse ==
  ASSUME NaturalPriorities, NaturalShares, AsTold', Scheduled
  PROVE  cpu' # "user" => Runnable' = {}
<1>1. PICK pid \in Pid, counts \in [Pid -> Int], turns \in [Pid -> Nat] :
        Schedule(pid, counts, turns)
  BY DEF Scheduled
<1>2. Handled /\ scheduling_algorithm \in {0, 1, 2, 3}
  BY DEF Scheduled, Handled
<1>3. CASE scheduling_algorithm = 0
  <2>1. NextOf(pid, Runnable', counts, turns)
    BY <1>1, <1>3 DEF Schedule
  <2> QED BY <1>2, <2>1, NextOfLands
<1>4. CASE scheduling_algorithm = 3
  <2>1. ByShare(pid, Charged(pid, counts), turns)
    BY <1>1, <1>4 DEF Schedule
  <2> QED BY <1>2, <2>1, ChargedTyped, ByShareStops
<1> QED BY <1>2, <1>3, <1>4, SmallestRuns, TopRuns

(* Whatever the algorithm, schedule() gives up only when no process is     *)
(* runnable, as long as no priority and no share is negative.              *)
THEOREM GivesUpOnlyWhenNoneIsLeft ==
  ASSUME NaturalPriorities, NaturalShares
  PROVE  Spec => []NeverGivesUpEarly
<1>1. Init => NeverGivesUpEarly
  BY DEF Init, NeverGivesUpEarly
<1>2. Typed /\ NeverGivesUpEarly /\ [Next]_vars => NeverGivesUpEarly'
  <2> SUFFICES ASSUME Typed, NeverGivesUpEarly, [Next]_vars
               PROVE  NeverGivesUpEarly'
    OBVIOUS
  <2>1. CASE Scheduled
    BY <2>1, Steps, StopsForNothingElse DEF NeverGivesUpEarly
  <2>2. CASE PrintChar \/ Halts \/ UNCHANGED vars
    BY <2>2 DEF PrintChar, Halts, vars, NeverGivesUpEarly, Runnable, User
  <2> QED BY <2>1, <2>2, Steps
<1> QED BY <1>1, <1>2, TypedAlways, PTL DEF Spec

-----------------------------------------------------------------------------
(* The cycle of algorithm 3.  Between two quanta of this cycle p has had   *)
(* all its quanta or none, and what it has had and what it is still to     *)
(* have make up its share.                                                 *)
Whole(p, counts, turns, share) ==
  counts[p] \in {0, share[p]} /\ counts[p] + turns[p] = share[p]

(* Before the search, pid having been charged for the quantum it has had.  *)
InTurn(pid, counts, turns) ==
  \A p \in Runnable' :
    IF p = pid THEN /\ counts[p] \in 0 .. p_share'[p] - 1
                    /\ counts[p] + turns[p] = p_share'[p]
               ELSE Whole(p, counts, turns, p_share')

(* While a process has the processor: the quantum under way is counted in  *)
(* its quanta and not yet charged.                                         *)
Turns ==
  scheduling_algorithm = 3 /\ User =>
    /\ current \in Runnable
    /\ p_share_count[current] \in 1 .. p_share[current]
    /\ p_share_count[current] + quanta[current] = p_share[current] + 1
    /\ \A p \in Runnable \ {current} : Whole(p, p_share_count, quanta, p_share)

(* start() gives everybody a whole share (schedos-kern.c:84).              *)
Fresh == cpu = "boot" => p_share_count = p_share /\ quanta = [p \in Pid |-> 0]

LEMMA ShareTold ==
  ASSUME PositiveShares, DistinctShares, AsTold'
  PROVE  /\ NaturalShares
         /\ \A p \in Runnable' : p_share'[p] \in Nat \ {0}
         /\ \A p, q \in Runnable' : p_share'[p] = p_share'[q] => p = q
<1>1. NaturalShares
  BY DEF PositiveShares, NaturalShares
<1>2. \A p \in Runnable' : p \in ProcPid /\ p_share'[p] \in Shares(p)
  BY RunnableIn DEF AsTold
<1>3. \A p \in Runnable' : p_share'[p] \in Nat \ {0}
  BY <1>2 DEF PositiveShares
<1>4. ASSUME NEW p \in Runnable', NEW q \in Runnable', p_share'[p] = p_share'[q], p # q
      PROVE  FALSE
  <2>1. p_share'[p] \in Shares(p) \cap Shares(q)
    BY <1>2, <1>4
  <2> QED BY <1>2, <1>4, <2>1 DEF DistinctShares
<1> QED BY <1>1, <1>3, <1>4

(* To run a process that has all its quanta left, the others being whole.  *)
LEMMA WholeRuns ==
  ASSUME scheduling_algorithm = 3, UNCHANGED scheduling_algorithm,
         NEW counts \in [Pid -> Int], NEW turns \in [Pid -> Nat],
         NEW p \in Runnable', p_share'[p] \in Nat \ {0},
         counts[p] \in 1 .. p_share'[p],
         counts[p] + turns[p] = p_share'[p],
         \A q \in Runnable' \ {p} : Whole(q, counts, turns, p_share'),
         Dispatch(p, counts, turns)
  PROVE  Turns'
<1>1. p \in Pid /\ Runnable' \subseteq Pid
  BY RunnableIn, PidFacts
<1>2. /\ current' = p /\ p_share_count' = counts
      /\ quanta' = [turns EXCEPT ![p] = @ + 1]
  BY DEF Dispatch
<1>3. quanta'[p] = turns[p] + 1 /\ \A q \in Pid \ {p} : quanta'[q] = turns[q]
  BY <1>1, <1>2
<1>4. \A q \in Runnable' \ {p} : Whole(q, p_share_count', quanta', p_share')
  BY <1>1, <1>2, <1>3 DEF Whole
<1>5. p_share_count'[p] + quanta'[p] = p_share'[p] + 1
  <2>1. counts[p] \in Int /\ turns[p] \in Nat
    BY <1>1
  <2> QED BY <1>2, <1>3, <2>1
<1> QED BY <1>2, <1>4, <1>5 DEF Turns

LEMMA ByShareTurns ==
  ASSUME PositiveShares, DistinctShares, AsTold', Handled, scheduling_algorithm = 3,
         UNCHANGED scheduling_algorithm, NEW pid \in Pid,
         NEW counts \in [Pid -> Int], NEW turns \in [Pid -> Nat],
         InTurn(pid, counts, turns), ByShare(pid, counts, turns)
  PROVE  Turns'
<1>1. Runnable' \subseteq Pid
  BY RunnableIn, PidFacts
<1>2. CASE pid \in Runnable' /\ counts[pid] > 0 /\ Dispatch(pid, counts, turns)
  <2>1. p_share'[pid] \in Nat \ {0}
    BY <1>2, ShareTold
  <2>2. counts[pid] \in 1 .. p_share'[pid] /\ counts[pid] + turns[pid] = p_share'[pid]
    BY <1>2, <2>1 DEF InTurn
  <2>3. \A q \in Runnable' \ {pid} : Whole(q, counts, turns, p_share')
    BY DEF InTurn
  <2> QED BY <1>2, <2>1, <2>2, <2>3, WholeRuns
<1>3. CASE /\ pid \notin Runnable' \/ counts[pid] <= 0
           /\ ~NewCycle(pid, counts)
           /\ FirstOf(WithShare(Largest(TurnLeft(counts))), counts, turns)
  <2>1. Largest(TurnLeft(counts)) # -1
    BY <1>3 DEF NewCycle
  <2>2. PICK p \in TurnLeft(counts) : p_share'[p] = Largest(TurnLeft(counts))
    BY <2>1, TurnLeftIn, LargestIsAttained, ShareTold
  <2>3. p \in Runnable' /\ WithShare(Largest(TurnLeft(counts))) = {p}
    BY <2>2, TurnLeftIn, ShareTold DEF WithShare
  <2>4. Dispatch(p, counts, turns)
    BY <1>3, <2>3 DEF FirstOf
  <2>5. \A q \in Runnable' : Whole(q, counts, turns, p_share')
    <3>1. ASSUME pid \in Runnable' PROVE counts[pid] = 0
      <4>1. counts[pid] \in 0 .. p_share'[pid] - 1 /\ counts[pid] <= 0
        BY <1>3, <3>1 DEF InTurn
      <4> QED BY <4>1, <3>1, ShareTold
    <3> QED BY <3>1 DEF InTurn, Whole
  <2>6. p_share'[p] \in Nat \ {0} /\ counts[p] >= 1
    <3>1. counts[p] \in Int /\ (counts[p] > 1 \/ counts[p] = 1)
      BY <2>2, <2>3, <1>1 DEF TurnLeft
    <3> QED BY <3>1, <2>3, ShareTold
  <2>7. counts[p] \in 1 .. p_share'[p] /\ counts[p] + turns[p] = p_share'[p]
    BY <2>3, <2>5, <2>6 DEF Whole
  <2> QED BY <2>3, <2>4, <2>5, <2>6, <2>7, WholeRuns
<1>4. CASE FirstOf(WithShare(Largest(Runnable')), Reset(counts), [p \in Pid |-> 0])
  <2> DEFINE C == Reset(counts)
             T == [p \in Pid |-> 0]
  <2>1. C \in [Pid -> Int] /\ T \in [Pid -> Nat]
    BY ResetTyped DEF Handled
  <2>2. \A q \in Runnable' : C[q] = p_share'[q] /\ T[q] = 0
    BY <1>1 DEF Reset
  <2>3. CASE \E p \in WithShare(Largest(Runnable')) : Dispatch(p, C, T)
    <3>1. PICK p \in Runnable' : Dispatch(p, C, T)
      BY <2>3, WithShareIn
    <3>2. \A q \in Runnable' : Whole(q, C, T, p_share')
      BY <2>2, ShareTold DEF Whole
    <3>3. p_share'[p] \in Nat \ {0} /\ C[p] \in 1 .. p_share'[p]
      BY <2>2, ShareTold
    <3>4. C[p] + T[p] = p_share'[p]
      BY <3>2 DEF Whole
    <3> HIDE DEF C, T
    <3> QED BY <2>1, <3>1, <3>2, <3>3, <3>4, WholeRuns
  <2>4. CASE Stop("wild", C, T)
    BY <2>4 DEF Stop, Turns, User
  <2> QED BY <1>4, <2>3, <2>4 DEF FirstOf
<1> QED BY <1>2, <1>3, <1>4 DEF ByShare

(* A system call or a clock interrupt finds the cycle in turn, the caller  *)
(* charged.                                                                *)
LEMMA CallerInTurn ==
  ASSUME Typed, Turns, PositiveShares, DistinctShares, User, scheduling_algorithm = 3,
         Runnable' \subseteq Runnable,
         NEW counts \in [Pid -> Int], NEW turns \in [Pid -> Nat],
         \A p \in Pid \ {current} : /\ counts[p] = p_share_count[p]
                                    /\ turns[p] = quanta[p]
                                    /\ p_share'[p] = p_share[p],
         p_share'[current] \in Nat, counts[current] \in 1 .. p_share'[current],
         counts[current] + turns[current] = p_share'[current] + 1
  PROVE  InTurn(current, Charged(current, counts), turns)
<1> DEFINE C == Charged(current, counts)
<1>1. current \in Pid /\ Runnable' \subseteq Pid
  BY RunnableIn, PidFacts DEF Typed, TypeOK
<1>2. C[current] = counts[current] - 1 /\ \A p \in Pid \ {current} : C[p] = counts[p]
  BY <1>1 DEF Charged
<1>3. ASSUME NEW p \in Runnable', p # current
      PROVE  Whole(p, C, turns, p_share')
  <2>1. Whole(p, p_share_count, quanta, p_share)
    BY <1>3 DEF Turns
  <2> QED BY <1>1, <1>2, <1>3, <2>1 DEF Whole
<1>4. ASSUME current \in Runnable'
      PROVE  /\ C[current] \in 0 .. p_share'[current] - 1
             /\ C[current] + turns[current] = p_share'[current]
  <2>1. counts[current] \in Int /\ turns[current] \in Nat
    BY <1>1
  <2> QED BY <1>2, <2>1
<1> HIDE DEF C
<1>5. InTurn(current, C, turns)
  BY <1>3, <1>4 DEF InTurn
<1> QED BY <1>5 DEF C

(* The first schedule() charges somebody for a quantum nobody has had, or  *)
(* nobody.                                                                 *)
LEMMA BootInTurn ==
  ASSUME Typed, Fresh, PositiveShares, DistinctShares, Boot
  PROVE  /\ \A pid \in Pid :
              InTurn(pid, Charged(pid, p_share_count), [quanta EXCEPT ![pid] = 1])
         /\ InTurn(0, p_share_count, quanta)
<1>1. p_share' = p_share /\ Runnable' = Runnable /\ Runnable \subseteq Pid /\ AsTold'
  BY RunnableIn, PidFacts, BootSchedules DEF Boot, Runnable
<1>2. p_share_count = p_share /\ quanta = [p \in Pid |-> 0]
  BY DEF Boot, Fresh
<1>3. \A p \in Runnable : p_share[p] \in Nat \ {0}
  BY <1>1, ShareTold
<1>4. ASSUME NEW pid \in Pid
      PROVE  InTurn(pid, Charged(pid, p_share_count), [quanta EXCEPT ![pid] = 1])
  <2> DEFINE C == Charged(pid, p_share_count)
             T == [quanta EXCEPT ![pid] = 1]
  <2>1. \A p \in Runnable : IF p = pid THEN C[p] = p_share[p] - 1 /\ T[p] = 1
                             ELSE C[p] = p_share[p] /\ T[p] = 0
    BY <1>1, <1>2 DEF Charged, Typed, TypeOK
  <2> QED BY <1>1, <1>3, <2>1 DEF InTurn, Whole
<1>5. InTurn(0, p_share_count, quanta)
  <2>1. \A p \in Runnable : p # 0 /\ p_share_count[p] = p_share[p] /\ quanta[p] = 0
    BY <1>1, <1>2 DEF Runnable, ProcPid
  <2> QED BY <1>1, <1>3, <2>1 DEF InTurn, Whole
<1> QED BY <1>4, <1>5

LEMMA TurnsStep ==
  ASSUME PositiveShares, DistinctShares, Typed, Fresh, Turns, [Next]_vars
  PROVE  Turns' /\ Fresh'
<1> USE DEF User
<1>1. Fresh'
  <2>1. CASE Scheduled
    BY <2>1, ScheduledLands DEF Lands, Fresh
  <2> QED BY <2>1, Steps DEF PrintChar, Halts, vars, Fresh
<1> SUFFICES Turns'
  BY <1>1
<1> DEFINE SearchesFrom(pid, counts, turns) ==
             /\ counts \in [Pid -> Int] /\ turns \in [Pid -> Nat]
             /\ InTurn(pid, Charged(pid, counts), turns)
             /\ Schedule(pid, counts, turns)
<1>2. Typed /\ p_share_count \in [Pid -> Int] /\ quanta \in [Pid -> Nat]
  BY DEF Typed, TypeOK
<1>3. ASSUME Scheduled, scheduling_algorithm = 3,
             NEW pid \in Pid, NEW counts, NEW turns, SearchesFrom(pid, counts, turns)
      PROVE  Turns'
  <2>1. ByShare(pid, Charged(pid, counts), turns)
    BY <1>3 DEF Schedule
  <2>2. Handled /\ UNCHANGED scheduling_algorithm /\ AsTold'
    BY <1>3, Steps DEF Scheduled
  <2> QED BY <1>3, <2>1, <2>2, ChargedTyped, ByShareTurns
<1>4. ASSUME Scheduled, scheduling_algorithm # 3 PROVE Turns'
  BY <1>4 DEF Scheduled, Turns
<1>5. CASE Boot /\ Scheduled
  <2>1. CASE scheduling_algorithm = 3
    <3>1. PICK word \in Int :
            \/ Stop("stray", p_share_count, quanta)
            \/ ChargesOne(word)
            \/ ChargesNobody(word)
      BY <1>5, <2>1, FirstWordsAssumption DEF Boot, Searches
    <3>2. CASE Stop("stray", p_share_count, quanta)
      BY <3>2 DEF Stop, Turns
    <3>3. CASE ChargesOne(word)
      <4>1. word \in Pid /\ Schedule(word, p_share_count, [quanta EXCEPT ![word] = 1])
        BY <3>3 DEF ChargesOne
      <4>2. [quanta EXCEPT ![word] = 1] \in [Pid -> Nat]
        BY <1>2
      <4>3. InTurn(word, Charged(word, p_share_count), [quanta EXCEPT ![word] = 1])
        BY <1>2, <1>5, <4>1, BootInTurn
      <4> QED BY <1>2, <1>3, <1>5, <2>1, <4>1, <4>2, <4>3
    <3>4. CASE ChargesNobody(word)
      <4>1. PICK given \in [Pid -> Int] :
              Charged(0, given) = p_share_count /\ Schedule(0, given, quanta)
        BY <1>2, <2>1, <3>4, NobodyCharged DEF ChargesNobody
      <4>2. InTurn(0, Charged(0, given), quanta)
        BY <1>2, <1>5, <4>1, BootInTurn
      <4> QED BY <1>2, <1>3, <1>5, <2>1, <4>1, <4>2, PidFacts
    <3> QED BY <3>1, <3>2, <3>3, <3>4
  <2> QED BY <1>4, <1>5, <2>1
<1>6. ASSUME User, Scheduled, scheduling_algorithm = 3
      PROVE  /\ current \in ProcPid /\ Runnable' \subseteq Runnable
             /\ p_share[current] \in Nat
             /\ p_share_count[current] \in 1 .. p_share[current]
             /\ p_share_count[current] + quanta[current] = p_share[current] + 1
  BY <1>6 DEF AsTold, PositiveShares, Typed, TypeOK, Scheduled, Turns
<1>7. ASSUME User, UNCHANGED p_share, Scheduled, Schedule(current, p_share_count, quanta)
      PROVE  Turns'
  <2>1. CASE scheduling_algorithm = 3
    <3>1. InTurn(current, Charged(current, p_share_count), quanta)
      BY <1>2, <1>6, <1>7, <2>1, CallerInTurn
    <3> QED BY <1>2, <1>3, <1>6, <1>7, <2>1, <3>1, PidFacts
  <2> QED BY <1>4, <1>7, <2>1
<1>8. CASE Reschedule
  BY <1>7, <1>8, RescheduleSchedules DEF Reschedule
<1>9. CASE Exit
  BY <1>7, <1>9, ExitSchedules DEF Exit
<1>10. ASSUME User, NEW n \in PriorityArgs[current], SetPriority(n)
       PROVE  Turns'
  BY <1>7, <1>10, SetPrioritySchedules DEF SetPriority
<1>11. ASSUME User, NEW n \in ShareArgs[current], SetShare(n)
       PROVE  Turns'
  <2> DEFINE C == [p_share_count EXCEPT ![current] = n]
             T == [quanta EXCEPT ![current] = 1]
  <2>1. Scheduled /\ n \in Int
    BY <1>11, SetShareSchedules
  <2>2. CASE scheduling_algorithm = 3
    <3>1. current \in Pid /\ n \in Nat \ {0}
      BY <1>6, <1>11, <2>1, <2>2, PidFacts DEF PositiveShares, Shares
    <3>2. /\ C \in [Pid -> Int] /\ T \in [Pid -> Nat]
          /\ C[current] = n /\ T[current] = 1 /\ p_share'[current] = n
          /\ \A p \in Pid \ {current} : /\ C[p] = p_share_count[p]
                                        /\ T[p] = quanta[p]
                                        /\ p_share'[p] = p_share[p]
      BY <1>2, <1>11, <2>1, <3>1 DEF SetShare, Typed, TypeOK
    <3>3. C[current] \in 1 .. p_share'[current]
          /\ C[current] + T[current] = p_share'[current] + 1
      BY <3>1, <3>2
    <3>4. Schedule(current, C, T)
      BY <1>11 DEF SetShare
    <3> HIDE DEF C, T
    <3>5. InTurn(current, Charged(current, C), T)
      BY <1>2, <1>6, <1>11, <2>1, <2>2, <3>2, <3>3, CallerInTurn
    <3> QED BY <1>3, <2>1, <2>2, <3>1, <3>2, <3>4, <3>5
  <2> QED BY <1>4, <2>1, <2>2
<1>12. CASE PrintChar
  BY <1>12 DEF PrintChar, Turns, Runnable, Whole
<1>13. CASE Halts
  BY <1>13 DEF Halts, Turns
<1>15. UnknownInterrupt => Halts
  BY DEF UnknownInterrupt, Halts
<1>16. Boot => Scheduled \/ Halts
  BY BootSchedules
<1>14. CASE UNCHANGED vars
  BY <1>14 DEF vars, Turns, Runnable, Whole
<1> QED BY <1>1, <1>5, <1>8, <1>9, <1>10, <1>11, <1>12, <1>13, <1>14, <1>15,
           <1>16 DEF Next, SetPriorityTo, SetShareTo

CycleInv == Typed /\ Fresh /\ Turns

LEMMA CycleInvariant ==
  ASSUME PositiveShares, DistinctShares
  PROVE  Spec => []CycleInv
<1>1. Init => CycleInv
  BY InitTyped DEF Init, CycleInv, Fresh, Turns, User
<1>2. CycleInv /\ [Next]_vars => CycleInv'
  BY TurnsStep, TypedStep DEF CycleInv
<1> QED BY <1>1, <1>2, PTL DEF Spec

(* With algorithm 3 a process runs only while its share lasts, as long as  *)
(* the shares are positive and distinct.                                   *)
THEOREM ShareLasts ==
  ASSUME PositiveShares, DistinctShares
  PROVE  Spec => []RunsOnItsShare
<1>1. CycleInv => RunsOnItsShare
  BY DEF CycleInv, Turns, RunsOnItsShare
<1> QED BY <1>1, CycleInvariant, PTL

LEMMA CycleEndsFair ==
  ASSUME PositiveShares, DistinctShares, CycleInv, User, scheduling_algorithm = 3,
         p_share' = p_share, Reschedule \/ Exit,
         NewCycle(current, Charged(current, p_share_count))
  PROVE  \A p \in Runnable' : quanta[p] = p_share[p]
<1> DEFINE C == Charged(current, p_share_count)
<1>1. Scheduled /\ AsTold' /\ Typed /\ Turns
  BY RescheduleSchedules, ExitSchedules DEF CycleInv
<1>2. /\ current \in ProcPid /\ current \in Pid
      /\ p_share_count \in [Pid -> Int] /\ quanta \in [Pid -> Nat]
  BY <1>1 DEF Typed, TypeOK
<1>3. Runnable' \subseteq Runnable /\ Runnable' \subseteq Pid
  BY <1>1, RunnableIn, PidFacts DEF Scheduled
<1>4. \A p \in Pid : C[p] = IF p = current THEN p_share_count[p] - 1 ELSE p_share_count[p]
  BY <1>2 DEF Charged
<1>5. \A p \in Runnable' : p_share[p] \in Nat \ {0}
  BY <1>1, ShareTold
<1>6. TurnLeft(C) = {}
  BY <1>1, TurnLeftIn, LargestIsAttained, ShareTold DEF NewCycle
<1>7. ASSUME NEW p \in Runnable' PROVE quanta[p] = p_share[p]
  <2>1. p \in Pid /\ p_share[p] \in Nat \ {0} /\ p_share_count[p] \in Int /\ quanta[p] \in Nat
    BY <1>2, <1>3, <1>5
  <2>2. CASE p = current
    <3>1. C[p] <= 0
      BY <2>2 DEF NewCycle
    <3>2. p_share_count[p] \in 1 .. p_share[p] /\ p_share_count[p] + quanta[p] = p_share[p] + 1
      BY <1>1, <2>2 DEF Turns
    <3> QED BY <1>4, <2>1, <2>2, <3>1, <3>2
  <2>3. CASE p # current
    <3>1. Whole(p, p_share_count, quanta, p_share)
      BY <1>1, <1>3, <2>3 DEF Turns
    <3>2. ~(C[p] > 1 \/ (p_share[p] = 1 /\ C[p] = 1))
      BY <1>6 DEF TurnLeft
    <3> QED BY <1>4, <2>1, <2>3, <3>1, <3>2 DEF Whole
  <2> QED BY <2>2, <2>3
<1> QED BY <1>7

(* Algorithm 3 is fair: when a cycle ends each process that is still       *)
(* runnable has had exactly its share of quanta in it, as long as the      *)
(* shares are positive and distinct.                                       *)
THEOREM CyclesAreFair ==
  ASSUME PositiveShares, DistinctShares
  PROVE  Spec => CycleIsFair
<1>1. CycleInv /\ [Next]_vars =>
        [/\ scheduling_algorithm = 3 /\ User /\ p_share' = p_share
         /\ Reschedule \/ Exit
         /\ NewCycle(current, Charged(current, p_share_count))
         => \A p \in Runnable' : quanta[p] = p_share[p]]_vars
  BY CycleEndsFair
<1> QED BY <1>1, CycleInvariant, PTL DEF Spec, CycleIsFair
=============================================================================
