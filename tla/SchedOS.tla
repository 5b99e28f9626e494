------------------------------ MODULE SchedOS -------------------------------
(***************************************************************************)
(* The SchedOS kernel, weensyos2/schedos-kern.c: a clock interrupt that    *)
(* preempts the processes, and a scheduler with four algorithms.           *)
(*                                                                         *)
(* The kernel runs with interrupts off on one processor, so a whole        *)
(* interrupt, from the copy of the registers to run(), is one action.  The *)
(* processes make any system calls; sys_user1 and sys_user2, which do      *)
(* nothing, and the exit status, which nothing reads, are left out.        *)
(***************************************************************************)
EXTENDS Integers, Sequences, FiniteSetsExt

CONSTANTS
  NPROCS,         \* size of proc_array; entry 0 is never used
  Algorithms,     \* the values of scheduling_algorithm to look at
  FirstPriority,  \* __PRIORITY_p__ as start() assigns them
  FirstShare,     \* __SHARE_p__
  PriorityArgs,   \* PriorityArgs[p]: what process p passes to sys_priority
  ShareArgs,      \* ShareArgs[p]: what process p passes to sys_share
  FirstWords,     \* what may stand in memory where a null `current' points
  MaxPrints       \* bound: the characters printed altogether

Pid     == 0 .. NPROCS-1
ProcPid == 1 .. NPROCS-1

ASSUME NPROCSAssumption == NPROCS \in Nat /\ NPROCS >= 2
ASSUME AlgorithmsAssumption == Algorithms \subseteq 0 .. 3
ASSUME FirstAssumption ==
  FirstPriority \in [ProcPid -> Int] /\ FirstShare \in [ProcPid -> Int]
ASSUME ArgsAssumption ==
  /\ PriorityArgs \in [ProcPid -> SUBSET Int]
  /\ ShareArgs \in [ProcPid -> SUBSET Int]
ASSUME FirstWordsAssumption == FirstWords \subseteq Int

VARIABLES
  scheduling_algorithm,
  p_state, p_priority, p_share, p_share_count,
  current,    \* the pid of the process `current' points to
  cpu,        \* what the processor is doing
  console,    \* who printed each of the characters before cursorpos
  quanta      \* history: how often algorithm 3 gave p the processor in this cycle

vars == <<scheduling_algorithm, p_state, p_priority, p_share, p_share_count,
          current, cpu, console, quanta>>

(* "boot": schedule() has not been called yet.  "user": `current' executes *)
(* application code.  "spin": schedule() loops for good.  "wild": run() of *)
(* the entry past the end of proc_array.  "stray": the first schedule()    *)
(* has used memory outside proc_array as an entry, and what happens next   *)
(* depends on that memory.  "hang": an unknown interrupt.                  *)
CpuModes == {"boot", "user", "spin", "wild", "stray", "hang"}

(* start(): before schedule() is called.                                   *)
Init ==
  /\ scheduling_algorithm \in Algorithms
  /\ p_state = [p \in Pid |-> IF p = 0 THEN "EMPTY" ELSE "RUNNABLE"]
  /\ p_priority = [p \in Pid |-> IF p = 0 THEN 0 ELSE FirstPriority[p]]
  /\ p_share = [p \in Pid |-> IF p = 0 THEN 0 ELSE FirstShare[p]]
  /\ p_share_count = p_share
  /\ current = 0
  /\ cpu = "boot"
  /\ console = <<>>
  /\ quanta = [p \in Pid |-> 0]

-----------------------------------------------------------------------------
(* schedule().  It reads what the handler has left behind, hence p_state'; *)
(* the counts, which it changes itself, it is given.                       *)

Runnable == {p \in ProcPid : p_state[p] = "RUNNABLE"}

Dispatch(p, counts, turns) ==
  /\ current' = p
  /\ cpu' = "user"
  /\ p_share_count' = counts
  /\ quanta' = IF scheduling_algorithm = 3 THEN [turns EXCEPT ![p] = @ + 1]
               ELSE turns

(* No process gets the processor: schedule() loops, or run() is given what *)
(* is not an entry of the table.                                           *)
Stop(mode, counts, turns) ==
  /\ current' = current
  /\ cpu' = mode
  /\ p_share_count' = counts
  /\ quanta' = turns

(* Fault: the caller comes first, not last.                                *)
FollowsItself(p, k) == (p + k - 1) % NPROCS

After(p, k) == (p + k) % NPROCS

(* The first of S after pid in cyclic order, pid itself being the last;    *)
(* without any the loop never ends.                                        *)
NextOf(pid, S, counts, turns) ==
  \/ \E k \in 1 .. NPROCS :
       /\ After(pid, k) \in S
       /\ \A i \in 1 .. k-1 : After(pid, i) \notin S
       /\ Dispatch(After(pid, k), counts, turns)
  \/ S = {} /\ Stop("spin", counts, turns)

(* Faults: the last one is taken; the entry past the end runs like others. *)
LastOf(S, counts, turns) ==
  \/ \E p \in S : (\A q \in S : p >= q) /\ Dispatch(p, counts, turns)
  \/ S = {} /\ Stop("wild", counts, turns)

FirstOfUnchecked(S, counts, turns) ==
  \/ \E p \in S : (\A q \in S : p <= q) /\ Dispatch(p, counts, turns)
  \/ S = {} /\ Dispatch(NPROCS, counts, turns)

(* The first of S in the table; without any, the loop leaves NPROCS, and   *)
(* whatever lies beyond proc_array is run.                                 *)
FirstOf(S, counts, turns) ==
  \/ \E p \in S : (\A q \in S : p <= q) /\ Dispatch(p, counts, turns)
  \/ S = {} /\ Stop("wild", counts, turns)

(* Fault: the processes that have exited count as well.                    *)
TopPriorityOfAll == Max({0} \cup {p_priority'[p] : p \in ProcPid})

TopPriority == Max({0} \cup {p_priority'[p] : p \in Runnable'})

(* Algorithm 3.  A process keeps the processor until its count is used up. *)
(* Then comes the largest share that has a turn left; when there is none,  *)
(* the counts are reset and a new cycle begins.                            *)
Largest(S) == Max({-1} \cup {p_share'[p] : p \in S})

TurnLeft(counts) ==
  {p \in Runnable' : counts[p] > 1 \/ (p_share'[p] = 1 /\ counts[p] = 1)}

(* Faults: no reset; everybody gets one quantum.                           *)
ResetNot(counts) == counts
ResetToOne(counts) == [p \in Pid |-> IF p \in Runnable' THEN 1 ELSE counts[p]]

Reset(counts) == [p \in Pid |-> IF p \in Runnable' THEN p_share'[p] ELSE counts[p]]

WithShare(share) == {p \in Runnable' : p_share'[p] = share}

Charged(pid, counts) == [counts EXCEPT ![pid] = @ - 1]

NewCycle(pid, counts) ==
  /\ pid \notin Runnable' \/ counts[pid] <= 0
  /\ Largest(TurnLeft(counts)) = -1

ByShare(pid, counts, turns) ==
  \/ pid \in Runnable' /\ counts[pid] > 0 /\ Dispatch(pid, counts, turns)
  \/ /\ pid \notin Runnable' \/ counts[pid] <= 0
     /\ ~NewCycle(pid, counts)
     /\ FirstOf(WithShare(Largest(TurnLeft(counts))), counts, turns)
  \/ /\ NewCycle(pid, counts)
     /\ FirstOf(WithShare(Largest(Runnable')), Reset(counts), [p \in Pid |-> 0])

Schedule(pid, counts, turns) ==
  CASE scheduling_algorithm = 0 -> NextOf(pid, Runnable', counts, turns)
    [] scheduling_algorithm = 1 -> FirstOf(Runnable', counts, turns)
    [] scheduling_algorithm = 2 ->
         NextOf(pid, {p \in Runnable' : p_priority'[p] = TopPriority}, counts, turns)
    [] scheduling_algorithm = 3 -> ByShare(pid, Charged(pid, counts), turns)

-----------------------------------------------------------------------------
(* The first schedule() reads current->p_pid through a null pointer: the   *)
(* word there may be any int.                                              *)

(* Where the search of algorithms 0 and 2 enters the table.  After() sees  *)
(* the word modulo NPROCS; one below -1 makes the remainder of C negative  *)
(* or zero, and the search climbs to entry 0.                              *)
StartOf(word) == IF word >= -1 THEN word % NPROCS ELSE NPROCS - 1

(* Memory outside the table may come to be used as an entry: before entry  *)
(* 0 (or, the sum overflowing, anywhere) by those searches, and at any     *)
(* distance by algorithm 3, which charges proc_array[pid].  Algorithm 1    *)
(* does not use the word.                                                  *)
LeavesTable(word) ==
  \/ scheduling_algorithm \in {0, 2} /\ word \notin -1 .. 2147483646
  \/ scheduling_algorithm = 3 /\ word \notin Pid

(* The search finds an entry of the table all the same.                    *)
Searches(word) ==
  scheduling_algorithm # 3 /\ Schedule(StartOf(word), p_share_count, quanta)

(* Algorithm 3: an entry of the table that is charged has lost a turn of   *)
(* the first cycle; entry 0 stands for nobody, it is never runnable.       *)
ChargesOne(word) ==
  /\ scheduling_algorithm = 3 /\ word \in Pid
  /\ Schedule(word, p_share_count, [quanta EXCEPT ![word] = 1])

ChargesNobody(word) ==
  /\ scheduling_algorithm = 3 /\ word \notin Pid
  /\ ByShare(0, p_share_count, quanta)

Boot ==
  /\ cpu = "boot"
  /\ UNCHANGED <<scheduling_algorithm, p_state, p_priority, p_share, console>>
  /\ \E word \in FirstWords :
       \/ LeavesTable(word) /\ Stop("stray", p_share_count, quanta)
       \/ Searches(word)
       \/ ChargesOne(word)
       \/ ChargesNobody(word)

User == cpu = "user"

(* INT_SYS_YIELD and INT_CLOCK.                                            *)
Reschedule ==
  /\ User
  /\ UNCHANGED <<scheduling_algorithm, p_state, p_priority, p_share, console>>
  /\ Schedule(current, p_share_count, quanta)

Exit ==
  /\ User
  /\ p_state' = [p_state EXCEPT ![current] = "ZOMBIE"]
  /\ UNCHANGED <<scheduling_algorithm, p_priority, p_share, console>>
  /\ Schedule(current, p_share_count, quanta)

(* Fault: the caller goes on in spite of its new priority.                 *)
SetPriorityGoesOn(priority) ==
  /\ User
  /\ p_priority' = [p_priority EXCEPT ![current] = priority]
  /\ UNCHANGED <<scheduling_algorithm, p_state, p_share, p_share_count, current,
                 cpu, console, quanta>>

SetPriority(priority) ==
  /\ User
  /\ p_priority' = [p_priority EXCEPT ![current] = priority]
  /\ UNCHANGED <<scheduling_algorithm, p_state, p_share, console>>
  /\ Schedule(current, p_share_count, quanta)

(* The count starts afresh; the quantum under way is its first.            *)
SetShare(share) ==
  /\ User
  /\ p_share' = [p_share EXCEPT ![current] = share]
  /\ UNCHANGED <<scheduling_algorithm, p_state, p_priority, console>>
  /\ Schedule(current, [p_share_count EXCEPT ![current] = share],
              [quanta EXCEPT ![current] = 1])

(* The character and the cursor change in one system call, and the caller  *)
(* goes on.                                                                *)
PrintChar ==
  /\ User /\ Len(console) < MaxPrints
  /\ console' = Append(console, current)
  /\ UNCHANGED <<scheduling_algorithm, p_state, p_priority, p_share,
                 p_share_count, current, cpu, quanta>>

(* The default case of interrupt().                                        *)
UnknownInterrupt ==
  /\ User
  /\ cpu' = "hang"
  /\ UNCHANGED <<scheduling_algorithm, p_state, p_priority, p_share,
                 p_share_count, current, console, quanta>>

SetPriorityTo(args) == \E priority \in args : SetPriority(priority)
SetShareTo(args) == \E share \in args : SetShare(share)

Next ==
  \/ Boot
  \/ Reschedule
  \/ Exit
  \/ User /\ SetPriorityTo(PriorityArgs[current])
  \/ User /\ SetShareTo(ShareArgs[current])
  \/ PrintChar
  \/ UnknownInterrupt

Spec == Init /\ [][Next]_vars

(* start() runs on, and the clock interrupts a process HZ times a second.  *)
FairSpec == Spec /\ WF_vars(Boot) /\ WF_vars(Reschedule)

-----------------------------------------------------------------------------
TypeOK ==
  /\ scheduling_algorithm \in Algorithms
  /\ p_state \in [Pid -> {"EMPTY", "RUNNABLE", "ZOMBIE"}]
  /\ p_priority \in [Pid -> Int]
  /\ p_share \in [Pid -> Int]
  /\ p_share_count \in [Pid -> Int]
  /\ current \in Pid
  /\ cpu \in CpuModes
  /\ console \in Seq(ProcPid)
  /\ quanta \in [Pid -> Nat]
  /\ User => current \in ProcPid

(* With algorithm 1 nobody runs before a runnable process of a smaller     *)
(* number, so what is printed is sorted, whenever the clock interrupts.    *)
OutputSorted ==
  scheduling_algorithm = 1 =>
    \A i, j \in 1 .. Len(console) : i < j => console[i] <= console[j]

(* With algorithm 2 no runnable process has a higher priority than the one *)
(* that runs, also right after sys_priority and sys_exit.                  *)
TopPriorityRuns ==
  scheduling_algorithm = 2 /\ User =>
    \A p \in Runnable : p_priority[p] <= p_priority[current]

(* With algorithm 3 the process that runs has a turn left: "find largest   *)
(* share that has not gone through in this turn" (schedos-kern.c:320).     *)
RunsOnItsShare ==
  scheduling_algorithm = 3 /\ User =>
    p_share_count[current] \in 1 .. p_share[current]

(* With algorithm 3, when a cycle ends each process has had its share of   *)
(* quanta in it: no more, no less (schedos-kern.c:331).                    *)
CycleIsFair ==
  [][/\ scheduling_algorithm = 3 /\ User /\ p_share' = p_share
     /\ Reschedule \/ Exit
     /\ NewCycle(current, Charged(current, p_share_count))
     => \A p \in Runnable' : quanta[p] = p_share[p]]_vars

(* schedule() gives up, by spinning or by running off the table, for no    *)
(* other reason than that nobody is runnable: the search for a priority    *)
(* from 0 (:287) and for a share from -1 (:323) overlooks nobody.  It does *)
(* not say that schedule() "spins forever" then, as :253 has it:           *)
(* algorithms 0 and 2 do, 1 and 3 run proc_array[NPROCS] (FirstOf).        *)
NeverGivesUpEarly == cpu \in {"spin", "wild"} => Runnable = {}

(* A process is entitled to the processor if it is runnable and, with      *)
(* algorithms 1 and 2, no other comes before it.                           *)
Entitled(p) ==
  /\ p \in Runnable
  /\ scheduling_algorithm = 1 => \A q \in Runnable : p <= q
  /\ scheduling_algorithm = 2 => \A q \in Runnable : p_priority[q] <= p_priority[p]

(* The clock sees to it that who is entitled runs, however the others      *)
(* behave; with algorithm 3 they must stop calling sys_share, which gives  *)
(* the caller a new count each time.  Nothing is said of a machine that    *)
(* has stopped on an unknown interrupt or left the table at boot.          *)
EntitledRuns ==
  (scheduling_algorithm = 3 => <>[][~(User /\ SetShareTo(ShareArgs[current]))]_vars) =>
    \A p \in ProcPid :
      Entitled(p) ~> (current = p \/ ~Entitled(p) \/ cpu \in {"hang", "stray"})
=============================================================================
