----------------------------- MODULE MposProofs -----------------------------
(***************************************************************************)
(* Proofs about the MiniprocOS kernel, for every size of the process       *)
(* table, every set of statuses and all applications, and about its two    *)
(* applications, for every number of processes and of yields.              *)
(***************************************************************************)
EXTENDS MposApps, FiniteSetTheorems, TLAPS

(* schedule() spins only while nothing is runnable.                        *)
SpinIdle == cpu = "spin" => \A p \in Pid : p_state[p] # "RUNNABLE"

(* The inductive invariant.  NoLostWakeup needs RunningEntry (sys_wait     *)
(* refuses only `current', so `current' must be an entry that exists), and *)
(* RunningEntry needs entry 0 to stay empty, since schedule() looks at it. *)
IInv == TypeOK /\ RunningEntry /\ NoLostWakeup /\ SpinIdle

-----------------------------------------------------------------------------
(* The cyclic search of schedule() stays inside the process table.         *)
LEMMA AfterInTable == \A p \in Pid, k \in 1 .. NPROCS : After(p, k) \in Pid
  BY NPROCSAssumption, SMT DEF After, Pid

(* Where schedule() leaves `current', given the table it was called with.  *)
LEMMA ScheduleFinds ==
  ASSUME TypeOK, Schedule, p_state'[0] = "EMPTY",
         p_state'[current] # "EMPTY"
  PROVE  /\ current' \in ProcPid
         /\ p_state'[current'] # "EMPTY"
         /\ cpu' \in {"user", "spin"}
         /\ cpu' = "user" => p_state'[current'] = "RUNNABLE"
         /\ cpu' = "spin" => \A p \in Pid : p_state'[p] # "RUNNABLE"
<1>1. CASE \E k \in 1 .. NPROCS :
             /\ p_state'[After(current, k)] = "RUNNABLE"
             /\ current' = After(current, k)
             /\ cpu' = "user"
  <2>1. PICK k \in 1 .. NPROCS : /\ p_state'[After(current, k)] = "RUNNABLE"
                                 /\ current' = After(current, k)
                                 /\ cpu' = "user"
    BY <1>1
  <2>2. current \in Pid
    BY NPROCSAssumption DEF TypeOK, Pid, ProcPid
  <2>3. current' \in Pid
    BY <2>1, <2>2, AfterInTable
  <2>4. current' # 0
    BY <2>1
  <2> QED BY <2>1, <2>3, <2>4, NPROCSAssumption DEF Pid, ProcPid
<1>2. CASE /\ \A p \in Pid : p_state'[p] # "RUNNABLE"
           /\ current' = current
           /\ cpu' = "spin"
  BY <1>2 DEF TypeOK
<1> QED BY <1>1, <1>2 DEF Schedule

LEMMA InitIInv == Init => IInv
  BY NPROCSAssumption
     DEF Init, IInv, TypeOK, RunningEntry, NoLostWakeup, SpinIdle, Pid, ProcPid,
         States, CpuModes

(* A handler that goes through schedule() keeps the invariant when the     *)
(* table it leaves is typed, without a lost wake-up, and still holds the   *)
(* caller's entry.                                                         *)
LEMMA ThroughSchedule ==
  ASSUME IInv, Schedule, NoLostWakeup',
         p_state' \in [Pid -> States], eax' \in [Pid -> Int],
         stack' \in [Pid -> Pid], p_exit_status' \in [Pid -> Int],
         p_waitOn' \in [Pid -> Pid], calls' = calls,
         p_state'[0] = "EMPTY", p_state'[current] # "EMPTY"
  PROVE  IInv'
<1>1. /\ current' \in ProcPid
      /\ p_state'[current'] # "EMPTY"
      /\ cpu' \in {"user", "spin"}
      /\ cpu' = "user" => p_state'[current'] = "RUNNABLE"
      /\ cpu' = "spin" => \A p \in Pid : p_state'[p] # "RUNNABLE"
  BY ScheduleFinds DEF IInv
<1>2. TypeOK'
  BY <1>1 DEF TypeOK, CpuModes, IInv
<1>3. RunningEntry' /\ SpinIdle'
  BY <1>1 DEF RunningEntry, SpinIdle
<1> QED BY <1>2, <1>3 DEF IInv

(* A spawned process takes an empty entry, which nobody waits for.         *)
LEMMA SpawnKeepsIInv ==
  ASSUME IInv, cpu = "user", NEW j \in ProcPid, FirstEmpty(j),
         NEW r \in Pid, Spawn(j, r), calls' = calls
  PROVE  IInv'
<1>1. p_state[j] = "EMPTY" /\ j # current
  BY DEF FirstEmpty, Empty, IInv, RunningEntry
<1>2. TypeOK'
  <2> USE DEF IInv, TypeOK, Spawn, Resume
  <2>1. j \in Pid /\ j \in Int /\ current \in Pid
    BY NPROCSAssumption DEF Pid, ProcPid
  <2>2. p_state' \in [Pid -> States]
    BY DEF States
  <2>3. eax' \in [Pid -> Int]
    BY <2>1
  <2>4. stack' \in [Pid -> Pid]
    OBVIOUS
  <2> QED BY <2>2, <2>3, <2>4
<1>3. RunningEntry'
  <2>1. p_state'[0] = "EMPTY"
    BY NPROCSAssumption DEF IInv, TypeOK, RunningEntry, Spawn, Pid, ProcPid
  <2>2. current' = current /\ current \in Pid
    BY NPROCSAssumption DEF IInv, TypeOK, Spawn, Resume, Pid, ProcPid
  <2>3. p_state'[current] = p_state[current]
    BY <1>1, <2>2 DEF IInv, TypeOK, Spawn
  <2> QED BY <2>1, <2>2, <2>3 DEF IInv, RunningEntry, Spawn, Resume
<1>5. SpinIdle'
  BY DEF SpinIdle, Spawn, Resume
<1>4. NoLostWakeup'
  <2> SUFFICES ASSUME NEW p \in Pid, p_state'[p] = "BLOCKED"
               PROVE  /\ p_waitOn'[p] \in ProcPid \ {p}
                      /\ p_state'[p_waitOn'[p]] \in {"RUNNABLE", "BLOCKED"}
    BY DEF NoLostWakeup
  <2>1. p # j /\ p_state[p] = "BLOCKED"
    BY NPROCSAssumption DEF IInv, TypeOK, Spawn, Pid, ProcPid
  <2>2. /\ p_waitOn[p] \in ProcPid \ {p}
        /\ p_state[p_waitOn[p]] \in {"RUNNABLE", "BLOCKED"}
    BY <2>1 DEF IInv, NoLostWakeup
  <2> QED BY <2>1, <2>2, NPROCSAssumption
            DEF IInv, TypeOK, Spawn, Pid, ProcPid
<1> QED BY <1>2, <1>3, <1>4, <1>5 DEF IInv

(* A step that changes no entry but %eax, and maybe stops the machine.     *)
LEMMA EaxOnlyKeepsIInv ==
  ASSUME IInv, eax' \in [Pid -> Int], cpu' \in CpuModes,
         cpu' = cpu \/ cpu' \in {"hang", "wild"},
         UNCHANGED <<p_state, stack, p_exit_status, p_waitOn, current, calls>>
  PROVE  IInv'
<1>1. TypeOK'
  BY DEF IInv, TypeOK
<1>2. RunningEntry' /\ NoLostWakeup' /\ SpinIdle'
  BY DEF IInv, RunningEntry, NoLostWakeup, SpinIdle
<1> QED BY <1>1, <1>2 DEF IInv

LEMMA EaxStaysTyped ==
  ASSUME TypeOK, NEW v \in Int
  PROVE  [eax EXCEPT ![current] = v] \in [Pid -> Int]
  BY DEF TypeOK

LEMMA TableFullKeepsIInv == ASSUME IInv, TableFull, calls' = calls PROVE IInv'
<1>1. eax' \in [Pid -> Int]
  <2>1. -1 \in Int
    OBVIOUS
  <2> QED BY <2>1, EaxStaysTyped DEF TableFull, IInv
<1>2. UNCHANGED <<p_state, stack, p_exit_status, p_waitOn, current, cpu, calls>>
  BY DEF TableFull, Resume
<1> QED BY <1>1, <1>2, EaxOnlyKeepsIInv DEF IInv, TypeOK

LEMMA ExitKeepsIInv ==
  ASSUME IInv, NEW status \in Int, Exit(status)
  PROVE  IInv'
<1> USE DEF IInv
<1>0. /\ 0 \in Pid /\ 0 # current
      /\ current \in Pid
      /\ p_state[current] \in {"RUNNABLE", "ZOMBIE"}
  BY NPROCSAssumption
     DEF Exit, Call, TypeOK, RunningEntry, Pid, ProcPid
<1>1. /\ p_state' \in [Pid -> States]
      /\ eax' \in [Pid -> Int]
      /\ p_exit_status' \in [Pid -> Int]
  BY DEF Exit, TypeOK, States
<1>2. stack' \in [Pid -> Pid] /\ p_waitOn' \in [Pid -> Pid]
  BY DEF Exit, TypeOK
<1>3. 0 \notin Waiters(current) /\ current \notin Waiters(current)
  BY <1>0 DEF Waiters, ProcPid
<1>4. p_state'[0] = "EMPTY" /\ p_state'[current] = "ZOMBIE"
  BY <1>0, <1>3 DEF Exit, RunningEntry
<1>5. NoLostWakeup'
  <2> SUFFICES ASSUME NEW p \in Pid, p_state'[p] = "BLOCKED"
               PROVE  /\ p_waitOn'[p] \in ProcPid \ {p}
                      /\ p_state'[p_waitOn'[p]] \in {"RUNNABLE", "BLOCKED"}
    BY DEF NoLostWakeup
  <2>1. p_state[p] = "BLOCKED" /\ p \notin Waiters(current)
    BY DEF Exit
  <2>2. p # 0
    BY <2>1 DEF RunningEntry
  <2>3. /\ p_waitOn[p] \in ProcPid \ {p}
        /\ p_state[p_waitOn[p]] \in {"RUNNABLE", "BLOCKED"}
    BY <2>1 DEF NoLostWakeup
  <2>4. p \in ProcPid
    BY <2>2, NPROCSAssumption DEF Pid, ProcPid
  <2>5. p_waitOn[p] # current
    BY <2>1, <2>4 DEF Waiters
  <2>6. p_waitOn[p] \in Pid
    BY <2>3, NPROCSAssumption DEF Pid, ProcPid
  <2>7. p_state'[p_waitOn[p]] \in {"RUNNABLE", "BLOCKED"}
    BY <2>3, <2>5, <2>6 DEF Exit
  <2> QED BY <2>3, <2>7 DEF Exit
<1>6. Schedule /\ calls' = calls
  BY DEF Exit, Call
<1> QED BY <1>1, <1>2, <1>4, <1>5, <1>6, ThroughSchedule

LEMMA WaitKeepsIInv ==
  ASSUME IInv, NEW p, Wait(p)
  PROVE  IInv'
<1> USE DEF IInv
<1>0. /\ 0 \in Pid /\ 0 # current
      /\ current \in Pid
      /\ p_state[current] \in {"RUNNABLE", "ZOMBIE"}
      /\ p_state[0] = "EMPTY"
  BY NPROCSAssumption
     DEF Wait, Call, TypeOK, RunningEntry, Pid, ProcPid
<1>1. /\ Schedule /\ stack' \in [Pid -> Pid] /\ p_exit_status' \in [Pid -> Int]
      /\ calls' = calls
  BY DEF Wait, Call, TypeOK
<1>2. CASE WaitInvalid(p)
  <2>1. eax' \in [Pid -> Int]
    <3>1. -1 \in Int
      OBVIOUS
    <3> QED BY <1>2, <3>1, EaxStaysTyped DEF WaitInvalid
  <2>2. UNCHANGED <<p_state, p_waitOn>>
    BY <1>2 DEF WaitInvalid
  <2>3. NoLostWakeup'
    BY <2>2 DEF NoLostWakeup
  <2> QED BY <1>0, <1>1, <2>1, <2>2, <2>3, ThroughSchedule DEF TypeOK
<1>3. CASE WaitReaps(p)
  <2>1. /\ p \in Pid \ {0, current} /\ p_state[p] = "ZOMBIE"
        /\ p_state' = [p_state EXCEPT ![p] = "EMPTY"]
        /\ p_waitOn' = p_waitOn
    BY <1>3, NPROCSAssumption DEF WaitReaps, Existing, Pid, ProcPid
  <2>2. eax' \in [Pid -> Int]
    BY <1>3, <2>1 DEF WaitReaps, TypeOK
  <2>3. p_state' \in [Pid -> States]
    BY <2>1 DEF TypeOK, States
  <2>4. p_state'[0] = "EMPTY" /\ p_state'[current] # "EMPTY"
    BY <1>0, <2>1 DEF TypeOK
  <2>5. NoLostWakeup'
    <3> SUFFICES ASSUME NEW q \in Pid, p_state'[q] = "BLOCKED"
                 PROVE  /\ p_waitOn'[q] \in ProcPid \ {q}
                        /\ p_state'[p_waitOn'[q]] \in {"RUNNABLE", "BLOCKED"}
      BY DEF NoLostWakeup
    <3>1. p_state[q] = "BLOCKED"
      BY <2>1 DEF TypeOK
    <3>2. /\ p_waitOn[q] \in ProcPid \ {q}
          /\ p_state[p_waitOn[q]] \in {"RUNNABLE", "BLOCKED"}
      BY <3>1 DEF NoLostWakeup
    <3>3. p_waitOn[q] \in Pid \ {p}
      BY <2>1, <3>2, NPROCSAssumption DEF Pid, ProcPid
    <3> QED BY <2>1, <3>2, <3>3 DEF TypeOK
  <2> QED BY <1>1, <2>1, <2>2, <2>3, <2>4, <2>5, ThroughSchedule DEF TypeOK
<1>4. CASE WaitBlocks(p)
  <2>1. /\ p \in ProcPid \ {current} /\ p \in Pid
        /\ p_state[p] \in {"RUNNABLE", "BLOCKED"}
    BY <1>4, NPROCSAssumption
       DEF WaitBlocks, Existing, Pid, ProcPid, TypeOK, States
  <2>2. /\ p_state' = [p_state EXCEPT ![current] = "BLOCKED"]
        /\ p_waitOn' = [p_waitOn EXCEPT ![current] = p]
        /\ eax' = [eax EXCEPT ![current] = p]
    BY <1>4 DEF WaitBlocks
  <2>3. p \in Int
    BY <2>1, NPROCSAssumption DEF ProcPid
  <2>4. eax' \in [Pid -> Int] /\ p_waitOn' \in [Pid -> Pid]
    BY <2>1, <2>2, <2>3 DEF TypeOK
  <2>5. p_state' \in [Pid -> States]
    BY <2>2 DEF TypeOK, States
  <2>6. p_state'[0] = "EMPTY" /\ p_state'[current] # "EMPTY"
    BY <1>0, <2>2 DEF TypeOK
  <2>7. NoLostWakeup'
    <3> SUFFICES ASSUME NEW q \in Pid, p_state'[q] = "BLOCKED"
                 PROVE  /\ p_waitOn'[q] \in ProcPid \ {q}
                        /\ p_state'[p_waitOn'[q]] \in {"RUNNABLE", "BLOCKED"}
      BY DEF NoLostWakeup
    <3>1. CASE q = current
      BY <3>1, <1>0, <2>1, <2>2 DEF TypeOK
    <3>2. CASE q # current
      <4>1. p_state[q] = "BLOCKED" /\ p_waitOn'[q] = p_waitOn[q]
        BY <3>2, <2>2 DEF TypeOK
      <4>2. /\ p_waitOn[q] \in ProcPid \ {q}
            /\ p_state[p_waitOn[q]] \in {"RUNNABLE", "BLOCKED"}
        BY <4>1 DEF NoLostWakeup
      <4>3. p_waitOn[q] \in Pid
        BY <4>2, NPROCSAssumption DEF Pid, ProcPid
      <4> QED BY <4>1, <4>2, <4>3, <2>2 DEF TypeOK
    <3> QED BY <3>1, <3>2
  <2> QED BY <1>1, <2>4, <2>5, <2>6, <2>7, ThroughSchedule
<1> QED BY <1>2, <1>3, <1>4 DEF Wait

LEMMA KillKeepsIInv ==
  ASSUME IInv, NEW p, Kill(p)
  PROVE  IInv'
<1> USE DEF IInv
<1>1. CASE KillInvalid(p)
  <2>1. eax' \in [Pid -> Int]
    <3>1. -1 \in Int
      OBVIOUS
    <3> QED BY <1>1, <3>1, EaxStaysTyped DEF KillInvalid
  <2>2. UNCHANGED <<p_state, stack, p_exit_status, p_waitOn, current, cpu, calls>>
    BY <1>1 DEF Kill, KillInvalid, Resume, Call
  <2> QED BY <2>1, <2>2, EaxOnlyKeepsIInv DEF TypeOK
<1>2. CASE KillTarget(p)
  <2>1. /\ p \in ProcPid /\ p \in Pid /\ p # 0 /\ 0 \in Pid
        /\ current \in Pid
    BY <1>2, NPROCSAssumption
       DEF KillTarget, Existing, TypeOK, Pid, ProcPid
  <2>2. /\ p_state' \in [Pid -> States]
        /\ eax' \in [Pid -> Int]
        /\ p_exit_status' \in [Pid -> Int]
    <3>1. p_state' \in [Pid -> States]
      BY <1>2 DEF KillTarget, TypeOK, States
    <3>2. eax' \in [Pid -> Int]
      BY <1>2, EaxStaysTyped DEF KillTarget
    <3>3. p_exit_status' \in [Pid -> Int]
      BY <1>2, <2>1 DEF KillTarget, TypeOK
    <3> QED BY <3>1, <3>2, <3>3
  <2>3. UNCHANGED <<stack, p_waitOn, current, cpu, calls>> /\ cpu = "user"
    BY <1>2 DEF Kill, Resume, Call
  <2>4. TypeOK'
    BY <2>2, <2>3 DEF TypeOK
  <2>5. RunningEntry'
    <3>1. 0 \notin Waiters(p) /\ current \notin Waiters(p)
      BY <2>3 DEF Waiters, RunningEntry
    <3>2. p_state'[0] = "EMPTY"
      BY <3>1, <2>1, <1>2 DEF KillTarget, RunningEntry
    <3>3. p_state'[current] \in {"RUNNABLE", "ZOMBIE"}
      BY <3>1, <2>1, <2>3, <1>2 DEF KillTarget, RunningEntry
    <3> QED BY <3>2, <3>3, <2>3 DEF RunningEntry
  <2>6. SpinIdle'
    BY <2>3 DEF SpinIdle
  <2>7. NoLostWakeup'
    <3> SUFFICES ASSUME NEW q \in Pid, p_state'[q] = "BLOCKED"
                 PROVE  /\ p_waitOn'[q] \in ProcPid \ {q}
                        /\ p_state'[p_waitOn'[q]] \in {"RUNNABLE", "BLOCKED"}
      BY DEF NoLostWakeup
    <3>1. p_state[q] = "BLOCKED" /\ q \notin Waiters(p) \ {p} /\ q # p
      BY <1>2 DEF KillTarget
    <3>2. q # 0
      BY <3>1 DEF RunningEntry
    <3>3. /\ p_waitOn[q] \in ProcPid \ {q}
          /\ p_state[p_waitOn[q]] \in {"RUNNABLE", "BLOCKED"}
      BY <3>1 DEF NoLostWakeup
    <3>4. q \in ProcPid /\ p_waitOn[q] \in Pid
      BY <3>2, <3>3, NPROCSAssumption DEF Pid, ProcPid
    <3>5. p_waitOn[q] # p
      BY <3>1, <3>4 DEF Waiters
    <3>6. p_state'[p_waitOn[q]] \in {"RUNNABLE", "BLOCKED"}
      BY <3>3, <3>4, <3>5, <1>2 DEF KillTarget
    <3> QED BY <3>3, <3>6, <2>3
  <2> QED BY <2>4, <2>5, <2>6, <2>7
<1> QED BY <1>1, <1>2 DEF Kill

LEMMA CurrentInTable == IInv => current \in Pid /\ stack[current] \in Pid
<1> SUFFICES ASSUME IInv PROVE current \in Pid /\ stack[current] \in Pid
  OBVIOUS
<1>1. current \in Pid
  BY NPROCSAssumption DEF IInv, TypeOK, Pid, ProcPid
<1> QED BY <1>1 DEF IInv, TypeOK

(* Any system call of the kernel, whatever its arguments.                  *)
AnyCall ==
  \/ GetPid \/ Fork \/ NewThread \/ Yield \/ UserInterrupt
  \/ \E status \in Int : Exit(status)
  \/ \E p \in Int : Wait(p)
  \/ \E p \in Int : Kill(p)

LEMMA NextIsCall == Next => AnyCall
<1>1. PidArg \subseteq Int
  BY NPROCSAssumption DEF PidArg
<1> QED BY <1>1, StatusesAssumption DEF Next, AnyCall

(* The application is the one the machine was started with.                *)
LEMMA AppIsFixed == [AnyCall]_vars => calls' = calls
  BY DEF AnyCall, vars, GetPid, Fork, NewThread, Yield, UserInterrupt, Exit, Wait,
         Kill, Call

LEMMA CallKeepsIInv == IInv /\ [AnyCall]_vars => IInv'
<1> SUFFICES ASSUME IInv, [AnyCall]_vars PROVE IInv'
  OBVIOUS
<1>0. calls' = calls
  BY AppIsFixed
<1>1. CASE GetPid
  <2>1. current \in Int
    BY NPROCSAssumption DEF IInv, TypeOK, ProcPid
  <2> QED BY <1>0, <1>1, <2>1, EaxOnlyKeepsIInv DEF GetPid, Resume, IInv, TypeOK
<1>2. CASE Fork
  <2>1. CASE TableFull
    BY <1>0, <2>1, TableFullKeepsIInv
  <2>2. ASSUME NEW j \in ProcPid, FirstEmpty(j),
               stack[current] <= current, ChildStack(j) >= 1,
               Spawn(j, ChildStack(j))
        PROVE  IInv'
    <3>1. stack[current] \in Pid
      BY CurrentInTable
    <3>2. ChildStack(j) \in Pid
      <4>1. current \in 1 .. NPROCS-1 /\ stack[current] \in 0 .. NPROCS-1
        BY <3>1 DEF IInv, TypeOK, Pid, ProcPid
      <4>2. j - (current - stack[current]) \in 0 .. NPROCS-1
        BY <4>1, <2>2, NPROCSAssumption DEF ChildStack, ProcPid
      <4> QED BY <4>2 DEF ChildStack, Pid
    <3> QED BY <1>0, <2>2, <3>2, <1>2, SpawnKeepsIInv DEF Fork, Call
  <2>3. CASE /\ cpu' = "wild"
             /\ UNCHANGED <<p_state, eax, stack, p_exit_status, p_waitOn,
                            current>>
    BY <1>0, <2>3, EaxOnlyKeepsIInv DEF IInv, TypeOK, CpuModes
  <2> QED BY <1>2, <2>1, <2>2, <2>3 DEF Fork
<1>3. CASE NewThread
  <2>1. CASE TableFull
    BY <1>0, <2>1, TableFullKeepsIInv
  <2>2. ASSUME NEW j \in ProcPid, FirstEmpty(j), Spawn(j, stack[current])
        PROVE  IInv'
    <3>1. stack[current] \in Pid
      BY CurrentInTable
    <3> QED BY <1>0, <2>2, <3>1, <1>3, SpawnKeepsIInv DEF NewThread, Call
  <2> QED BY <1>3, <2>1, <2>2 DEF NewThread
<1>4. CASE Yield
  <2>1. p_state'[0] = "EMPTY" /\ p_state'[current] # "EMPTY" /\ NoLostWakeup'
    BY <1>4 DEF Yield, IInv, RunningEntry, NoLostWakeup
  <2> QED BY <1>0, <1>4, <2>1, ThroughSchedule DEF Yield, IInv, TypeOK
<1>5. CASE \E status \in Int : Exit(status)
  BY <1>5, ExitKeepsIInv
<1>6. CASE \E p \in Int : Wait(p)
  BY <1>6, WaitKeepsIInv
<1>7. CASE \E p \in Int : Kill(p)
  BY <1>7, KillKeepsIInv
<1>8. CASE UserInterrupt
  BY <1>0, <1>8, EaxOnlyKeepsIInv DEF UserInterrupt, IInv, TypeOK, CpuModes
<1>9. CASE UNCHANGED vars
  BY <1>0, <1>9, EaxOnlyKeepsIInv DEF vars, IInv, TypeOK
<1> QED BY <1>1, <1>2, <1>3, <1>4, <1>5, <1>6, <1>7, <1>8, <1>9 DEF AnyCall

LEMMA NextKeepsIInv == IInv /\ [Next]_vars => IInv'
  BY NextIsCall, CallKeepsIInv

-----------------------------------------------------------------------------
LEMMA Inductive == Spec => []IInv
BY InitIInv, NextKeepsIInv, PTL DEF Spec

(* Every variable of the kernel keeps its type, whatever the applications  *)
(* call: no entry number leaves the process table, for instance.           *)
THEOREM TypeCorrect == Spec => []TypeOK
<1>1. IInv => TypeOK
  BY DEF IInv
<1> QED BY Inductive, <1>1, PTL

(* `current' always points to an existing process, runnable or self-killed *)
(* while it runs.                                                          *)
THEOREM CurrentExists == Spec => []RunningEntry
<1>1. IInv => RunningEntry
  BY DEF IInv
<1> QED BY Inductive, <1>1, PTL

(* No wake-up is lost: who is blocked in sys_wait waits for a process that *)
(* can still exit or be killed.                                            *)
THEOREM WakeupsNotLost == Spec => []NoLostWakeup
<1>1. IInv => NoLostWakeup
  BY DEF IInv
<1> QED BY Inductive, <1>1, PTL

(* When schedule() spins, only a cycle of waiting processes is left.       *)
THEOREM SpinsOnlyWhenStuck == Spec => []SpinMeansStuck
<1>1. IInv => SpinMeansStuck
  <2> SUFFICES ASSUME IInv, cpu = "spin", NEW p \in Pid
               PROVE  /\ p_state[p] # "RUNNABLE"
                      /\ p_state[p] = "BLOCKED" =>
                           p_state[p_waitOn[p]] = "BLOCKED"
    BY DEF SpinMeansStuck
  <2>1. p_state[p] # "RUNNABLE"
    BY DEF IInv, SpinIdle
  <2>2. ASSUME p_state[p] = "BLOCKED"
        PROVE  p_state[p_waitOn[p]] = "BLOCKED"
    <3>1. p_waitOn[p] \in Pid
      BY DEF IInv, TypeOK
    <3> QED BY <2>2, <3>1 DEF IInv, NoLostWakeup, SpinIdle
  <2> QED BY <2>1, <2>2
<1> QED BY Inductive, <1>1, PTL

-----------------------------------------------------------------------------
(* An entry becomes empty in sys_wait only, by the call of another process *)
(* that takes the zombie's exit status along.                              *)
THEOREM ReapingTakesStatus == Spec => ReapedWithStatus
<1>1. ASSUME IInv, [Next]_vars, NEW p \in Pid,
             p_state[p] # "EMPTY", p_state'[p] = "EMPTY"
      PROVE  /\ p_state[p] = "ZOMBIE" /\ p # current
             /\ eax'[current] = p_exit_status[p]
  <2>1. current \in Pid
    BY <1>1, CurrentInTable
  <2>2. CASE \E q \in PidArg : Wait(q)
    <3>1. PICK q \in PidArg : Wait(q)
      BY <2>2
    <3>2. ~WaitInvalid(q) /\ ~WaitBlocks(q)
      BY <1>1, <2>1 DEF WaitInvalid, WaitBlocks, IInv, TypeOK
    <3>3. WaitReaps(q)
      BY <3>1, <3>2 DEF Wait
    <3>4. q = p
      BY <1>1, <3>3 DEF WaitReaps, IInv, TypeOK
    <3> QED BY <1>1, <2>1, <3>3, <3>4 DEF WaitReaps, IInv, TypeOK
  <2>3. CASE ~ \E q \in PidArg : Wait(q)
    <3>1. \/ UNCHANGED p_state
          \/ \E j \in ProcPid, r \in Int : Spawn(j, r)
          \/ \E status \in Statuses : Exit(status)
          \/ \E q \in ProcPid : KillTarget(q)
      <4>1. ASSUME NEW j \in ProcPid PROVE ChildStack(j) \in Int
        <5>1. j \in Int /\ current \in Int /\ stack[current] \in Int
          BY <1>1, <2>1, CurrentInTable, NPROCSAssumption DEF Pid, ProcPid
        <5> QED BY <5>1 DEF ChildStack
      <4>2. CASE Fork
        BY <4>1, <4>2 DEF Fork, TableFull
      <4>3. CASE NewThread
        <5>1. stack[current] \in Int
          BY <1>1, CurrentInTable, NPROCSAssumption DEF Pid
        <5> QED BY <4>3, <5>1 DEF NewThread, TableFull
      <4>4. CASE \E q \in PidArg : Kill(q)
        BY <4>4 DEF Kill, KillInvalid, KillTarget, Existing
      <4> QED BY <1>1, <2>3, <4>2, <4>3, <4>4
              DEF Next, vars, GetPid, Yield, UserInterrupt
    <3>2. CASE \E j \in ProcPid, r \in Int : Spawn(j, r)
      BY <1>1, <3>2 DEF Spawn, IInv, TypeOK
    <3>3. CASE \E status \in Statuses : Exit(status)
      BY <1>1, <3>3 DEF Exit
    <3>4. CASE \E q \in ProcPid : KillTarget(q)
      BY <1>1, <3>4 DEF KillTarget
    <3> QED BY <1>1, <3>1, <3>2, <3>3, <3>4
  <2> QED BY <2>2, <2>3
<1>2. IInv /\ [Next]_vars =>
        [\A p \in Pid : p_state[p] # "EMPTY" /\ p_state'[p] = "EMPTY" =>
           /\ p_state[p] = "ZOMBIE" /\ p # current
           /\ eax'[current] = p_exit_status[p]]_vars
  BY <1>1
<1> QED BY <1>2, Inductive, PTL DEF Spec, ReapedWithStatus

-----------------------------------------------------------------------------
(* Without threads every process keeps to the stack region of its own pid. *)
OwnStack == \A p \in ProcPid : p_state[p] # "EMPTY" => stack[p] = p

(* The calls that leave %esp where the process's own region is.            *)
StackCall ==
  \/ GetPid \/ Fork \/ Yield \/ UserInterrupt
  \/ \E status \in Int : Exit(status)
  \/ \E p \in Int : Wait(p)
  \/ \E p \in Int : Kill(p)

LEMMA OwnStackKept ==
  ASSUME IInv, OwnStack, [StackCall]_vars
  PROVE  OwnStack'
<1> SUFFICES ASSUME NEW p \in ProcPid, p_state'[p] # "EMPTY"
             PROVE  stack'[p] = p
  BY DEF OwnStack
<1>1. p \in Pid /\ current \in Pid /\ current \in ProcPid
  BY CurrentInTable, NPROCSAssumption DEF Pid, ProcPid, IInv, TypeOK
<1>2. CASE Fork
  <2>1. stack[current] = current
    BY <1>1 DEF OwnStack, IInv, RunningEntry
  <2>2. ASSUME NEW j \in ProcPid, Spawn(j, ChildStack(j))
        PROVE  stack'[p] = p
    <3>1. ChildStack(j) = j
      <4>1. j \in Int /\ current \in Int
        BY <1>1, NPROCSAssumption DEF ProcPid
      <4> QED BY <2>1, <4>1 DEF ChildStack
    <3> QED BY <2>2, <3>1, <1>1 DEF Spawn, IInv, TypeOK, OwnStack
  <2>3. CASE UNCHANGED <<p_state, stack>>
    BY <2>3 DEF OwnStack
  <2> QED BY <1>2, <2>2, <2>3 DEF Fork, TableFull
<1>4. CASE UNCHANGED stack /\ (p_state[p] = "EMPTY" => p_state'[p] = "EMPTY")
  BY <1>4 DEF OwnStack
<1>5. ASSUME NEW status \in Int, Exit(status)
      PROVE  UNCHANGED stack /\ (p_state[p] = "EMPTY" => p_state'[p] = "EMPTY")
  <2>1. p_state[p] = "EMPTY" => p # current /\ p \notin Waiters(current)
    BY DEF IInv, RunningEntry, Waiters
  <2> QED BY <1>1, <1>5, <2>1 DEF Exit
<1>6. ASSUME NEW q \in Int, Wait(q)
      PROVE  UNCHANGED stack /\ (p_state[p] = "EMPTY" => p_state'[p] = "EMPTY")
  <2>1. p_state[p] = "EMPTY" => p # current
    BY DEF IInv, RunningEntry
  <2>2. CASE WaitInvalid(q)
    BY <1>6, <2>2 DEF Wait, WaitInvalid
  <2>3. CASE WaitReaps(q)
    BY <1>1, <1>6, <2>3 DEF Wait, WaitReaps, IInv, TypeOK
  <2>4. CASE WaitBlocks(q)
    BY <1>1, <1>6, <2>1, <2>4 DEF Wait, WaitBlocks, IInv, TypeOK
  <2> QED BY <1>6, <2>2, <2>3, <2>4 DEF Wait
<1>7. ASSUME NEW q \in Int, Kill(q)
      PROVE  UNCHANGED stack /\ (p_state[p] = "EMPTY" => p_state'[p] = "EMPTY")
  <2>1. CASE KillInvalid(q)
    BY <1>7, <2>1 DEF Kill, KillInvalid
  <2>2. CASE KillTarget(q)
    <3>1. p_state[p] = "EMPTY" => p # q /\ p \notin Waiters(q)
      BY <2>2 DEF KillTarget, Existing, Waiters
    <3> QED BY <1>1, <1>7, <2>2, <3>1 DEF Kill, KillTarget
  <2> QED BY <1>7, <2>1, <2>2 DEF Kill
<1> QED BY <1>2, <1>4, <1>5, <1>6, <1>7
        DEF StackCall, vars, GetPid, Yield, UserInterrupt

(* In an application without sys_newthread no two live processes share a   *)
(* stack region: copy_stack always has room for the copy where the child's *)
(* pid says.                                                               *)
THEOREM ForkKeepsStacksPrivate == Spec => []StacksPrivate
<1> DEFINE Kept == "NEWTHREAD" \notin calls => OwnStack
<1>1. Init => Kept
  BY NPROCSAssumption DEF Init, OwnStack, Pid, ProcPid
<1>2. IInv /\ Kept /\ [Next]_vars => Kept'
  <2> SUFFICES ASSUME IInv, Kept, [Next]_vars, "NEWTHREAD" \notin calls'
               PROVE  OwnStack'
    OBVIOUS
  <2>1. calls' = calls
    BY NextIsCall, AppIsFixed
  <2>2. Next => StackCall
    BY <2>1, NextIsCall DEF AnyCall, StackCall, NewThread, Call
  <2> QED BY <2>1, <2>2, OwnStackKept
<1>3. Kept => StacksPrivate
  BY DEF OwnStack, StacksPrivate, Live
<1> QED BY <1>1, <1>2, <1>3, Inductive, PTL DEF Spec

-----------------------------------------------------------------------------
(* In an application without sys_kill every caller that had to block in    *)
(* sys_wait, the only one or one of several that wait for one process,     *)
(* wakes up with the exit status of the process it waited for.             *)
THEOREM ExitWakesWithStatus == Spec => WaiterGetsStatus
<1>1. ASSUME IInv, [Next]_vars, NEW p \in ProcPid, "KILL" \notin calls,
             p_state[p] = "BLOCKED", p_state'[p] = "RUNNABLE"
      PROVE  eax'[p] = p_exit_status'[p_waitOn[p]]
  <2>1. p \in Pid /\ current \in Pid
    BY <1>1, CurrentInTable, NPROCSAssumption DEF Pid, ProcPid
  <2>2. CASE \E status \in Statuses : Exit(status)
    <3>1. PICK status \in Statuses : Exit(status)
      BY <2>2
    <3>2. p \in Waiters(current)
      BY <1>1, <2>1, <3>1 DEF Exit
    <3>3. p_waitOn[p] = current
      BY <3>2 DEF Waiters
    <3> QED BY <1>1, <2>1, <3>1, <3>2, <3>3 DEF Exit, IInv, TypeOK
  <2>3. ASSUME NEW q \in PidArg, Wait(q) PROVE FALSE
    <3>1. p_state'[p] # "RUNNABLE"
      BY <1>1, <2>1, <2>3
         DEF Wait, WaitInvalid, WaitReaps, WaitBlocks, IInv, TypeOK
    <3> QED BY <1>1, <3>1
  <2>4. ASSUME NEW j \in ProcPid, NEW r, FirstEmpty(j), Spawn(j, r)
        PROVE  FALSE
    <3>1. p # j
      BY <1>1, <2>4 DEF FirstEmpty, Empty
    <3> QED BY <1>1, <2>1, <2>4, <3>1 DEF Spawn, IInv, TypeOK
  <2>5. ASSUME NEW q \in PidArg, Kill(q) PROVE FALSE
    BY <1>1, <2>5 DEF Kill, Call
  <2>6. p_state' # p_state
    BY <1>1
  <2>7. ~GetPid /\ ~Yield /\ ~UserInterrupt /\ ~UNCHANGED vars /\ ~TableFull
    BY <2>6 DEF GetPid, Yield, UserInterrupt, vars, TableFull
  <2>8. ~Fork /\ ~NewThread
    BY <2>4, <2>6, <2>7 DEF Fork, NewThread
  <2> QED BY <1>1, <2>2, <2>3, <2>5, <2>7, <2>8 DEF Next
<1>2. IInv /\ [Next]_vars =>
        [\A p \in ProcPid :
           /\ "KILL" \notin calls
           /\ p_state[p] = "BLOCKED" /\ p_state'[p] = "RUNNABLE"
           => eax'[p] = p_exit_status'[p_waitOn[p]]]_vars
  BY <1>1
<1> QED BY <1>2, Inductive, PTL DEF Spec, WaiterGetsStatus

-----------------------------------------------------------------------------
(* The applications.                                                       *)
(* How the cyclic search goes on: nothing runnable lies between the caller *)
(* and the process found.                                                  *)
LEMMA AfterIs ==
  ASSUME NEW p \in Pid, NEW k \in 1 .. NPROCS
  PROVE  After(p, k) = IF p + k < NPROCS THEN p + k ELSE p + k - NPROCS
<1>1. NPROCS \in Int /\ p \in Int /\ k \in Int /\ 0 <= p /\ p < NPROCS
      /\ 1 <= k /\ k <= NPROCS
  BY NPROCSAssumption DEF Pid
<1>2. CASE p + k < NPROCS
  BY <1>1, <1>2 DEF After
<1>3. CASE p + k >= NPROCS
  <2>1. p + k - NPROCS < NPROCS
    BY <1>1
  <2>2. (p + k) % NPROCS = p + k - NPROCS
    BY <1>1, <1>3, <2>1
  <2> QED BY <1>1, <1>3, <2>2 DEF After
<1> QED BY <1>1, <1>2, <1>3

LEMMA ScheduleOrder ==
  ASSUME current \in Pid, Schedule
  PROVE  \/ /\ cpu' = "user" /\ current' \in Pid
            /\ p_state'[current'] = "RUNNABLE"
            /\ \A q \in Pid : p_state'[q] = "RUNNABLE" =>
                 IF current < current' THEN q <= current \/ current' <= q
                                       ELSE current' <= q /\ q <= current
         \/ /\ cpu' = "spin" /\ current' = current
            /\ \A q \in Pid : p_state'[q] # "RUNNABLE"
<1>1. ASSUME NEW k \in 1 .. NPROCS, p_state'[After(current, k)] = "RUNNABLE",
             \A i \in 1 .. k-1 : p_state'[After(current, i)] # "RUNNABLE",
             current' = After(current, k), cpu' = "user"
      PROVE  /\ current' \in Pid /\ p_state'[current'] = "RUNNABLE"
             /\ \A q \in Pid : p_state'[q] = "RUNNABLE" =>
                  IF current < current' THEN q <= current \/ current' <= q
                                        ELSE current' <= q /\ q <= current
  <2>1. current' \in Pid
    BY <1>1, AfterInTable
  <2>2. ASSUME NEW q \in Pid, p_state'[q] = "RUNNABLE"
        PROVE  IF current < current' THEN q <= current \/ current' <= q
                                     ELSE current' <= q /\ q <= current
    <3>1. /\ NPROCS \in Int /\ current \in Int /\ k \in Int /\ q \in Int
          /\ 0 <= current /\ current < NPROCS /\ 0 <= q /\ q < NPROCS
          /\ 1 <= k /\ k <= NPROCS
      BY NPROCSAssumption DEF Pid
    <3>2. current' = IF current + k < NPROCS THEN current + k
                                             ELSE current + k - NPROCS
      BY <1>1, AfterIs
    <3>3. ASSUME NEW i \in 1 .. k-1 PROVE q # After(current, i)
      BY <1>1, <2>2, <3>3
    <3>4. ASSUME NEW i \in Int, 1 <= i, i <= k - 1
          PROVE  q # IF current + i < NPROCS THEN current + i
                                             ELSE current + i - NPROCS
      <4>1. i \in 1 .. k-1 /\ i \in 1 .. NPROCS
        BY <3>1, <3>4
      <4> QED BY <4>1, <3>3, AfterIs
    <3>5. ASSUME 1 <= q - current, q - current <= k - 1 PROVE FALSE
      <4>1. q - current \in Int
        BY <3>1
      <4>2. q # IF current + (q - current) < NPROCS
                THEN current + (q - current)
                ELSE current + (q - current) - NPROCS
        BY <3>4, <3>5, <4>1
      <4> QED BY <3>1, <4>2
    <3>6. ASSUME 1 <= q - current + NPROCS, q - current + NPROCS <= k - 1
          PROVE  FALSE
      <4>1. q - current + NPROCS \in Int
        BY <3>1
      <4>2. q # IF current + (q - current + NPROCS) < NPROCS
                THEN current + (q - current + NPROCS)
                ELSE current + (q - current + NPROCS) - NPROCS
        BY <3>4, <3>6, <4>1
      <4> QED BY <3>1, <4>2
    <3> QED BY <3>1, <3>2, <3>5, <3>6
  <2> QED BY <1>1, <2>1, <2>2
<1> QED BY <1>1 DEF Schedule

Labels == {"start", "forked", "yield", "waited", "exited", "outer", "inner",
           "waits", "child", "kill"}

Frame == [checker : {0, 1}, p : Int, n_started : Int, input_counter : Int,
          i : Int]

AppTypeOK ==
  /\ program \in {1, 2}
  /\ counter \in Int
  /\ pc \in [Pid -> Labels]
  /\ frame \in [Pid -> Frame]

(* What holds of every application that creates no threads: the kernel's   *)
(* invariant, and a stack of its own for every process.                    *)
AppBase == IInv /\ OwnStack /\ AppTypeOK

LEMMA MyFrame ==
  ASSUME AppBase
  PROVE  /\ current \in Pid /\ current \in ProcPid /\ current \in Int
         /\ 1 \in Pid /\ 1 \in ProcPid
         /\ stack[current] = current
         /\ My = frame[current] /\ My \in Frame
         /\ p_state[current] # "EMPTY" /\ eax[current] \in Int
<1>1. current \in Pid /\ current \in ProcPid /\ current \in Int
  BY NPROCSAssumption DEF AppBase, IInv, TypeOK, Pid, ProcPid
<1>2. stack[current] = current /\ p_state[current] # "EMPTY"
  BY <1>1 DEF AppBase, IInv, RunningEntry, OwnStack
<1>3. 1 \in Pid /\ 1 \in ProcPid
  BY NPROCSAssumption DEF Pid, ProcPid
<1> QED BY <1>1, <1>2, <1>3 DEF My, AppBase, AppTypeOK, IInv, TypeOK

(* What sys_fork() does when every process has its own stack.              *)
LEMMA ForkEffect ==
  ASSUME AppBase, Fork
  PROVE  /\ UNCHANGED <<p_exit_status, p_waitOn, current, cpu>>
         /\ cpu = "user"
         /\ \/ /\ Empty = {} /\ UNCHANGED <<p_state, stack>>
               /\ eax' = [eax EXCEPT ![current] = -1]
            \/ \E j \in Empty :
                 /\ \A p \in Empty : j <= p
                 /\ j # current /\ j \in Pid
                 /\ p_state' = [p_state EXCEPT ![j] = "RUNNABLE"]
                 /\ eax' = [eax EXCEPT ![current] = j, ![j] = 0]
                 /\ stack' = [stack EXCEPT ![j] = j]
<1>1. /\ current \in Int /\ stack[current] = current
      /\ p_state[current] # "EMPTY"
  BY MyFrame
<1>2. cpu = "user"
  BY DEF Fork, Call
<1>3. ASSUME NEW j \in ProcPid, FirstEmpty(j)
      PROVE  /\ ChildStack(j) = j /\ j \in Int /\ j >= 1 /\ j \in Pid /\ j # current
             /\ j \in Empty /\ \A p \in Empty : j <= p
  <2>1. j \in Int /\ j >= 1 /\ j \in Pid
    BY NPROCSAssumption DEF Pid, ProcPid
  <2>2. j \in Empty /\ j # current
    BY <1>1, <1>3 DEF FirstEmpty, Empty
  <2> QED BY <1>1, <1>3, <2>1, <2>2 DEF ChildStack, FirstEmpty
<1>4. CASE TableFull
  BY <1>2, <1>4 DEF TableFull, Resume
<1>5. ASSUME NEW j \in ProcPid, FirstEmpty(j), Spawn(j, ChildStack(j))
      PROVE  /\ UNCHANGED <<p_exit_status, p_waitOn, current, cpu>>
             /\ \E i \in Empty :
                 /\ \A p \in Empty : i <= p
                 /\ i # current /\ i \in Pid
                 /\ p_state' = [p_state EXCEPT ![i] = "RUNNABLE"]
                 /\ eax' = [eax EXCEPT ![current] = i, ![i] = 0]
                 /\ stack' = [stack EXCEPT ![i] = i]
  BY <1>3, <1>5 DEF Spawn, Resume
<1>6. ASSUME NEW j \in ProcPid, FirstEmpty(j),
             stack[current] > current \/ ChildStack(j) < 1
      PROVE  FALSE
  BY <1>1, <1>3, <1>6
<1> QED BY <1>2, <1>4, <1>5, <1>6 DEF Fork

(* sys_fork() of an application: caller and child go on at one label.      *)
LEMMA ForkToEffect ==
  ASSUME AppBase, NEW label \in Labels, ForkTo(label, My)
  PROVE  /\ UNCHANGED <<p_exit_status, p_waitOn, current, cpu, program, counter>>
         /\ cpu = "user" /\ pc' \in [Pid -> Labels] /\ frame' \in [Pid -> Frame]
         /\ \/ /\ Empty = {} /\ UNCHANGED p_state
               /\ eax' = [eax EXCEPT ![current] = -1]
               /\ pc' = [pc EXCEPT ![current] = label]
               /\ frame' = frame
            \/ \E j \in Empty :
                 /\ \A p \in Empty : j <= p
                 /\ j # current /\ j \in Pid
                 /\ p_state' = [p_state EXCEPT ![j] = "RUNNABLE"]
                 /\ eax' = [eax EXCEPT ![current] = j, ![j] = 0]
                 /\ pc' = [pc EXCEPT ![current] = label, ![j] = label]
                 /\ frame' = [frame EXCEPT ![j] = frame[current]]
<1> DEFINE Born == {j \in ProcPid : p_state[j] = "EMPTY" /\ p_state'[j] # "EMPTY"}
<1>1. /\ current \in Pid /\ stack[current] = current
      /\ My = frame[current] /\ My \in Frame
      /\ p_state \in [Pid -> States] /\ stack \in [Pid -> Pid]
      /\ pc \in [Pid -> Labels] /\ frame \in [Pid -> Frame]
  BY MyFrame DEF AppBase, AppTypeOK, IInv, TypeOK
<1>2. /\ pc' = [p \in Pid |-> IF p \in Born \cup {current} THEN label
                              ELSE pc[p]]
      /\ frame' = [r \in Pid |->
           IF r = stack[current] \/ \E j \in Born : r = stack'[j] THEN My
           ELSE frame[r]]
      /\ UNCHANGED <<program, counter>>
  BY DEF ForkTo
<1>3. pc' \in [Pid -> Labels] /\ frame' \in [Pid -> Frame]
  BY <1>1, <1>2
<1>4. /\ UNCHANGED <<p_exit_status, p_waitOn, current, cpu>> /\ cpu = "user"
      /\ \/ /\ Empty = {} /\ UNCHANGED <<p_state, stack>>
            /\ eax' = [eax EXCEPT ![current] = -1]
         \/ \E j \in Empty :
              /\ \A p \in Empty : j <= p
              /\ j # current /\ j \in Pid
              /\ p_state' = [p_state EXCEPT ![j] = "RUNNABLE"]
              /\ eax' = [eax EXCEPT ![current] = j, ![j] = 0]
              /\ stack' = [stack EXCEPT ![j] = j]
  BY ForkEffect DEF ForkTo
<1>5. CASE /\ Empty = {} /\ UNCHANGED <<p_state, stack>>
           /\ eax' = [eax EXCEPT ![current] = -1]
  <2>1. Born = {}
    BY <1>5
  <2>2. pc' = [pc EXCEPT ![current] = label]
    BY <1>1, <1>2, <2>1
  <2>3. frame' = frame
    BY <1>1, <1>2, <2>1
  <2> QED BY <1>2, <1>3, <1>4, <1>5, <2>2, <2>3
<1>6. ASSUME NEW j \in Empty, \A p \in Empty : j <= p, j # current, j \in Pid,
             p_state' = [p_state EXCEPT ![j] = "RUNNABLE"],
             eax' = [eax EXCEPT ![current] = j, ![j] = 0],
             stack' = [stack EXCEPT ![j] = j]
      PROVE  /\ pc' = [pc EXCEPT ![current] = label, ![j] = label]
             /\ frame' = [frame EXCEPT ![j] = frame[current]]
  <2>1. Born = {j} /\ stack'[j] = j
    <3>1. j \in ProcPid /\ p_state[j] = "EMPTY"
      BY DEF Empty
    <3>2. \A p \in ProcPid : p \in Pid
      BY NPROCSAssumption DEF Pid, ProcPid
    <3> QED BY <1>1, <1>6, <3>1, <3>2
  <2>2. pc' = [pc EXCEPT ![current] = label, ![j] = label]
    BY <1>1, <1>2, <2>1
  <2>3. frame' = [r \in Pid |-> IF r = current \/ r = j THEN My ELSE frame[r]]
    <3> HIDE DEF Born
    <3> QED BY <1>1, <1>2, <2>1
  <2>4. frame' = [frame EXCEPT ![j] = frame[current]]
    BY <1>1, <2>3
  <2> QED BY <2>2, <2>4
<1> QED BY <1>2, <1>3, <1>4, <1>5, <1>6

LEMMA GotoTyped ==
  ASSUME AppBase, NEW label \in Labels, NEW f \in Frame, Goto(label, f)
  PROVE  /\ pc' = [pc EXCEPT ![current] = label]
         /\ frame' = [frame EXCEPT ![current] = f]
         /\ pc' \in [Pid -> Labels] /\ frame' \in [Pid -> Frame]
         /\ program' = program
  BY MyFrame DEF Goto, AppBase, AppTypeOK

LEMMA ExitWithIsCall ==
  ASSUME AppBase, NEW status \in Int, ExitWith(status)
  PROVE  StackCall /\ AppTypeOK'
<1>1. "exited" \in Labels
  BY DEF Labels
<1>2. Goto("exited", My)
  BY DEF ExitWith
<1>3. AppTypeOK'
  BY <1>1, <1>2, GotoTyped, MyFrame DEF ExitWith, AppBase, AppTypeOK
<1> QED BY <1>3 DEF ExitWith, StackCall

LEMMA GotoKeepsTypes ==
  ASSUME AppBase, NEW label \in Labels, NEW f \in Frame, Goto(label, f),
         counter' \in Int
  PROVE  AppTypeOK'
BY GotoTyped DEF AppBase, AppTypeOK

(* Every step of an application is a system call that leaves %esp in the   *)
(* process's own region, or no call at all.                                *)
LEMMA AppStepIsCall ==
  ASSUME AppBase, AppNext
  PROVE  [StackCall]_vars /\ AppTypeOK'
<1> USE DEF Labels
<1>1. /\ current \in Pid /\ current \in Int /\ My \in Frame
      /\ eax[current] \in Int /\ counter \in Int
  BY MyFrame DEF AppBase, AppTypeOK
<1>2. ASSUME NEW label \in Labels, ForkTo(label, My)
      PROVE  StackCall /\ AppTypeOK'
  BY <1>2, ForkToEffect DEF ForkTo, StackCall, AppBase, AppTypeOK
<1>3. CASE AppForks
  BY <1>2, <1>3 DEF AppForks
<1>4. CASE ChildStarts
  <2>1. [My EXCEPT !.checker = 1, !.i = 0] \in Frame
    <3> DEFINE f == [My EXCEPT !.checker = 1]
    <3>1. f \in Frame
      BY <1>1 DEF Frame
    <3>2. [f EXCEPT !.i = 0] \in Frame
      <4> HIDE DEF f
      <4> QED BY <3>1 DEF Frame
    <3> QED BY <3>2
  <2> QED BY <1>1, <1>4, <2>1, GotoKeepsTypes DEF ChildStarts
<1>5. CASE ChildYields
  <2>1. [My EXCEPT !.i = @ + 1] \in Frame
    BY <1>1 DEF Frame
  <2> QED BY <1>1, <1>5, <2>1, GotoKeepsTypes DEF ChildYields, StackCall
<1>6. CASE ChildExits
  BY <1>6, ExitWithIsCall DEF ChildExits
<1>7. CASE AppWaits
  <2>1. [My EXCEPT !.p = Result] \in Frame
    BY <1>1 DEF Frame, Result
  <2>2. Result \in Int
    BY <1>1 DEF Result
  <2> QED BY <1>1, <1>7, <2>1, <2>2, GotoKeepsTypes DEF AppWaits, StackCall
<1>8. CASE AppExits
  BY <1>8, ExitWithIsCall DEF AppExits
<1>9. CASE RoundBegins
  <2>1. [My EXCEPT !.n_started = 0] \in Frame
    BY <1>1 DEF Frame
  <2> QED BY <1>1, <1>9, <2>1, GotoKeepsTypes DEF RoundBegins
<1>10. CASE MainForks
  BY <1>2, <1>10 DEF MainForks
<1>11. CASE MainCounts
  <2>1. [My EXCEPT !.n_started = @ + 1] \in Frame
    BY <1>1 DEF Frame
  <2> QED BY <1>1, <1>11, <2>1, GotoKeepsTypes DEF MainCounts
<1>12. CASE WaitsBegin
  <2>1. [My EXCEPT !.p = 2] \in Frame
    BY <1>1 DEF Frame
  <2> QED BY <1>1, <1>12, <2>1, GotoKeepsTypes DEF WaitsBegin
<1>13. CASE MainWaits
  <2>1. [My EXCEPT !.p = @ + 1] \in Frame /\ My.p \in Int
    BY <1>1 DEF Frame
  <2> QED BY <1>1, <1>13, <2>1, GotoKeepsTypes DEF MainWaits, StackCall
<1>14. CASE WaitsEnd
  BY <1>1, <1>14, GotoKeepsTypes DEF WaitsEnd
<1>15. CASE MainExits
  BY <1>15, ExitWithIsCall DEF MainExits
<1>16. CASE ChildCounts
  <2>1. [My EXCEPT !.input_counter = counter] \in Frame
    BY <1>1 DEF Frame
  <2>2. counter' \in Int
    BY <1>1, <1>16 DEF ChildCounts
  <2> QED BY <1>1, <1>16, <2>1, <2>2, GotoKeepsTypes DEF ChildCounts, StackCall
<1>17. CASE ChildKills
  <2>1. /\ [My EXCEPT !.i = 3] \in Frame
        /\ [My EXCEPT !.i = @ + 2] \in Frame /\ My.i \in Int
    BY <1>1 DEF Frame
  <2> QED BY <1>1, <1>17, <2>1, GotoKeepsTypes DEF ChildKills, StackCall
<1>18. CASE ChildEnds
  <2>1. My.input_counter \in Int
    BY <1>1 DEF Frame
  <2> QED BY <1>18, <2>1, ExitWithIsCall DEF ChildEnds
<1> QED BY <1>3, <1>4, <1>5, <1>6, <1>7, <1>8, <1>9, <1>10, <1>11, <1>12,
           <1>13, <1>14, <1>15, <1>16, <1>17, <1>18
        DEF AppNext, App1Next, App2Next

LEMMA AppBaseKept == AppBase /\ [AppNext]_<<vars, appVars>> => AppBase'
<1> SUFFICES ASSUME AppBase, [AppNext]_<<vars, appVars>> PROVE AppBase'
  OBVIOUS
<1>1. [StackCall]_vars /\ AppTypeOK'
  <2>1. CASE AppNext
    BY <2>1, AppStepIsCall
  <2>2. CASE UNCHANGED <<vars, appVars>>
    BY <2>2 DEF appVars, AppBase, AppTypeOK
  <2> QED BY <2>1, <2>2
<1>2. [AnyCall]_vars
  BY <1>1 DEF StackCall, AnyCall
<1> QED BY <1>1, <1>2, CallKeepsIInv, OwnStackKept DEF AppBase

LEMMA AppInitBase == AppInit => AppBase
<1> SUFFICES ASSUME AppInit PROVE AppBase
  OBVIOUS
<1>1. IInv
  BY InitIInv DEF AppInit
<1>2. OwnStack
  BY NPROCSAssumption DEF AppInit, Init, OwnStack, Pid, ProcPid
<1>3. AppTypeOK
  <2>1. Locals \in Frame
    BY DEF Locals, Frame
  <2> QED BY <2>1 DEF AppInit, AppTypeOK, Labels
<1> QED BY <1>1, <1>2, <1>3 DEF AppBase

-----------------------------------------------------------------------------
(* mpos-app: how far the two processes are.                                *)
Alone    == \A p \in ProcPid \ {1} : p_state[p] = "EMPTY"
MainRuns == current = 1 /\ cpu = "user"

Starting == pc[1] = "start" /\ MainRuns /\ Alone

HasForked ==
  /\ pc[1] = "forked" /\ MainRuns
  /\ \/ eax[1] = -1 /\ Alone
     \/ /\ eax[1] = 2 /\ 2 \in ProcPid
        /\ p_state[2] = "RUNNABLE" /\ pc[2] = "forked" /\ eax[2] = 0

Waiting ==
  /\ pc[1] = "waited" /\ p_state[1] = "BLOCKED" /\ p_waitOn[1] = 2
  /\ 2 \in ProcPid /\ current = 2 /\ cpu = "user"
  /\ pc[2] = "yield" \/ (pc[2] = "forked" /\ eax[2] = 0)

Woken == pc[1] = "waited" /\ MainRuns /\ eax[1] = 1000 /\ p_state[2] = "ZOMBIE"

Ended == pc[1] = "exited" /\ cpu = "spin"

(* Entry 2 is the only one the program ever takes, and only the child      *)
(* writes to `checker', on its own stack.                                  *)
App1Inv ==
  program = 1 =>
    /\ \A p \in ProcPid \ {1, 2} : p_state[p] = "EMPTY"
    /\ frame[1].checker = 0
    /\ Starting \/ HasForked \/ Waiting \/ Woken \/ Ended

LEMMA OnlyRunnable ==
  ASSUME current \in Pid, Schedule, NEW p \in Pid, p_state'[p] = "RUNNABLE",
         \A q \in Pid : p_state'[q] = "RUNNABLE" => q = p
  PROVE  current' = p /\ cpu' = "user"
<1>1. \/ cpu' = "user" /\ current' \in Pid /\ p_state'[current'] = "RUNNABLE"
      \/ \A q \in Pid : p_state'[q] # "RUNNABLE"
  BY ScheduleOrder
<1> QED BY <1>1, ScheduleOrder

LEMMA App1Kept ==
  ASSUME AppBase, App1Inv, [AppNext]_<<vars, appVars>>
  PROVE  App1Inv'
<1> SUFFICES ASSUME program' = 1 PROVE App1Inv'
  BY DEF App1Inv
<1>0. /\ current \in Pid /\ current \in ProcPid /\ current \in Int
      /\ 1 \in Pid /\ 1 \in ProcPid /\ stack[current] = current
      /\ My = frame[current] /\ My \in Frame /\ p_state[current] # "EMPTY"
      /\ p_state \in [Pid -> States] /\ eax \in [Pid -> Int]
      /\ p_waitOn \in [Pid -> Pid] /\ pc \in [Pid -> Labels]
      /\ frame \in [Pid -> Frame] /\ p_state[0] = "EMPTY" /\ 0 \in Pid
      /\ \A p \in ProcPid : p \in Pid
      /\ \A p \in Pid : p = 0 \/ p \in ProcPid
      /\ NPROCS \in Int
  <2>1. /\ 0 \in Pid /\ \A p \in ProcPid : p \in Pid
        /\ \A p \in Pid : p = 0 \/ p \in ProcPid
        /\ NPROCS \in Int
    BY NPROCSAssumption DEF Pid, ProcPid
  <2> QED BY <2>1, MyFrame DEF AppBase, AppTypeOK, IInv, TypeOK, RunningEntry
<1>1. CASE UNCHANGED <<vars, appVars>>
  BY <1>1 DEF vars, appVars, App1Inv, Starting, HasForked, Waiting, Woken, Ended,
              MainRuns, Alone
<1>2. program = 1
  BY <1>1 DEF AppNext, App1Next, App2Next, AppForks, ChildStarts, ChildYields,
     ChildExits, AppWaits, AppExits, At, RoundBegins, MainForks, MainCounts,
     WaitsBegin, InnerEnds, MainWaits, WaitsEnd, MainExits, MainEnds, ChildCounts,
     ChildKills, ChildEnds, ForkTo, Goto, ExitWith, appVars
<1>3. CASE App1Next
  <2>0. /\ \A p \in ProcPid \ {1, 2} : p_state[p] = "EMPTY"
        /\ frame[1].checker = 0
        /\ Starting \/ HasForked \/ Waiting \/ Woken \/ Ended
    BY <1>2 DEF App1Inv
  <2>1. CASE AppForks
    <3>1. Starting
      BY <2>0, <2>1 DEF AppForks, At, Starting, HasForked, Waiting, Woken, Ended,
                        MainRuns
    <3>2. current = 1 /\ cpu = "user" /\ pc[1] = "start"
      BY <3>1 DEF Starting, MainRuns
    <3>3. /\ UNCHANGED <<current, cpu>>
          /\ \/ /\ UNCHANGED p_state
                /\ eax' = [eax EXCEPT ![current] = -1]
                /\ pc' = [pc EXCEPT ![current] = "forked"]
                /\ frame' = frame
             \/ \E j \in Empty :
                  /\ \A p \in Empty : j <= p
                  /\ j # current /\ j \in Pid
                  /\ p_state' = [p_state EXCEPT ![j] = "RUNNABLE"]
                  /\ eax' = [eax EXCEPT ![current] = j, ![j] = 0]
                  /\ pc' = [pc EXCEPT ![current] = "forked", ![j] = "forked"]
                  /\ frame' = [frame EXCEPT ![j] = frame[current]]
      <4>1. "forked" \in Labels
        BY DEF Labels
      <4> QED BY <4>1, <2>1, ForkToEffect DEF AppForks
    <3>4. CASE /\ UNCHANGED p_state
               /\ eax' = [eax EXCEPT ![current] = -1]
               /\ pc' = [pc EXCEPT ![current] = "forked"]
               /\ frame' = frame
      <4>1. HasForked'
        BY <1>0, <3>1, <3>2, <3>3, <3>4 DEF HasForked, MainRuns, Starting, Alone
      <4> QED BY <4>1, <2>0, <3>4 DEF App1Inv
    <3>5. ASSUME NEW j \in Empty, \A p \in Empty : j <= p,
                 j # current, j \in Pid,
                 p_state' = [p_state EXCEPT ![j] = "RUNNABLE"],
                 eax' = [eax EXCEPT ![current] = j, ![j] = 0],
                 pc' = [pc EXCEPT ![current] = "forked", ![j] = "forked"],
                 frame' = [frame EXCEPT ![j] = frame[current]]
          PROVE  App1Inv'
      <4>1. j = 2
        <5>1. j \in 1 .. NPROCS-1 /\ j # 1
          BY <3>2, <3>5 DEF Empty, ProcPid
        <5>2. 2 \in 1 .. NPROCS-1
          BY <1>0, <5>1
        <5>3. 2 \in Empty
          BY <5>2, <3>1 DEF Starting, Alone, Empty, ProcPid
        <5> QED BY <5>1, <5>3, <3>5
      <4>2. 2 \in ProcPid /\ 2 \in Pid
        BY <4>1, <3>5 DEF Empty
      <4>3. HasForked'
        BY <1>0, <3>2, <3>3, <3>5, <4>1, <4>2 DEF HasForked, MainRuns
      <4>4. frame'[1].checker = 0
        BY <1>0, <2>0, <3>2, <3>5, <4>1
      <4>5. \A p \in ProcPid \ {1, 2} : p_state'[p] = "EMPTY"
        BY <1>0, <2>0, <3>5, <4>1
      <4> QED BY <4>3, <4>4, <4>5 DEF App1Inv
    <3> QED BY <3>3, <3>4, <3>5
  <2>2. CASE ChildStarts
    <3>1. Waiting
      BY <2>0, <2>2 DEF ChildStarts, At, Result, Starting, HasForked, Waiting,
                        Woken, Ended, MainRuns
    <3>2. UNCHANGED <<p_state, p_waitOn, current, cpu>>
      BY <2>2 DEF ChildStarts, vars
    <3>3. /\ pc' = [pc EXCEPT ![current] = "yield"]
          /\ frame' = [frame EXCEPT ![current] =
                         [My EXCEPT !.checker = 1, !.i = 0]]
      BY <1>0, <2>2 DEF ChildStarts, Goto
    <3>4. frame'[1].checker = 0
      BY <1>0, <2>0, <3>1, <3>3 DEF Waiting
    <3>5. Waiting'
      BY <1>0, <3>1, <3>2, <3>3 DEF Waiting
    <3> QED BY <2>0, <3>2, <3>4, <3>5 DEF App1Inv
  <2>3. CASE ChildYields
    <3>1. Waiting
      BY <2>0, <2>3 DEF ChildYields, At, Result, Starting, HasForked, Waiting,
                        Woken, Ended, MainRuns
    <3>2. UNCHANGED <<p_state, eax, p_waitOn>> /\ Schedule
      BY <2>3 DEF ChildYields, Yield
    <3>3. /\ pc' = [pc EXCEPT ![current] = "yield"]
          /\ frame' = [frame EXCEPT ![current] = [My EXCEPT !.i = @ + 1]]
      BY <1>0, <2>3 DEF ChildYields, Goto
    <3>4. frame'[1].checker = 0
      BY <1>0, <2>0, <3>1, <3>3 DEF Waiting
    <3>5. p_state[2] = "RUNNABLE"
      BY <1>0, <3>1 DEF Waiting, AppBase, IInv, NoLostWakeup, RunningEntry
    <3>6. current' = 2 /\ cpu' = "user"
      <4>1. \A q \in Pid : p_state'[q] = "RUNNABLE" => q = 2
        BY <1>0, <2>0, <3>1, <3>2 DEF Waiting
      <4>2. 2 \in Pid /\ p_state'[2] = "RUNNABLE"
        BY <1>0, <3>1, <3>2, <3>5 DEF Waiting
      <4> QED BY <1>0, <3>2, <4>1, <4>2, OnlyRunnable
    <3>7. Waiting'
      BY <1>0, <3>1, <3>2, <3>3, <3>6 DEF Waiting
    <3> QED BY <2>0, <3>2, <3>4, <3>7 DEF App1Inv
  <2>4. CASE ChildExits
    <3>1. Waiting
      BY <2>0, <2>4 DEF ChildExits, At, Result, Starting, HasForked, Waiting,
                        Woken, Ended, MainRuns
    <3>2. /\ current = 2 /\ p_waitOn[1] = 2 /\ p_state[1] = "BLOCKED"
          /\ 2 \in Pid /\ Waiters(2) = {1}
      <4>1. current = 2 /\ p_waitOn[1] = 2 /\ p_state[1] = "BLOCKED"
        BY <3>1 DEF Waiting
      <4>2. p_state[2] # "BLOCKED"
        BY <1>0, <3>1 DEF Waiting, AppBase, IInv, RunningEntry
      <4>3. Waiters(2) = {1}
        BY <1>0, <2>0, <4>1, <4>2 DEF Waiters
      <4> QED BY <1>0, <4>1, <4>3
    <3>3. /\ p_state' = [p \in Pid |-> IF p \in Waiters(current) THEN "RUNNABLE"
                               ELSE IF p = current THEN "ZOMBIE"
                               ELSE p_state[p]]
          /\ eax' = [p \in Pid |-> IF p \in Waiters(current) \cup {current}
                                  THEN 1000 ELSE eax[p]]
          /\ Schedule
      BY <2>4 DEF ChildExits, ExitWith, Exit
    <3>4. /\ p_state'[1] = "RUNNABLE" /\ p_state'[2] = "ZOMBIE" /\ eax'[1] = 1000
          /\ \A p \in ProcPid \ {1, 2} : p_state'[p] = "EMPTY"
          /\ p_state'[0] = "EMPTY"
      BY <1>0, <2>0, <3>2, <3>3
    <3>5. current' = 1 /\ cpu' = "user"
      <4>1. \A q \in Pid : p_state'[q] = "RUNNABLE" => q = 1
        BY <1>0, <3>4
      <4> QED BY <1>0, <3>3, <3>4, <4>1, OnlyRunnable
    <3>6. /\ pc' = [pc EXCEPT ![current] = "exited"]
          /\ frame' = [frame EXCEPT ![current] = My]
      BY <1>0, <2>4 DEF ChildExits, ExitWith, Goto
    <3>7. frame'[1].checker = 0 /\ pc'[1] = "waited"
      BY <1>0, <2>0, <3>1, <3>2, <3>6 DEF Waiting
    <3>8. Woken'
      BY <3>4, <3>5, <3>7 DEF Woken, MainRuns
    <3> QED BY <3>4, <3>7, <3>8 DEF App1Inv
  <2>5. CASE AppWaits
    <3>1. /\ current = 1 /\ eax[1] = 2 /\ 2 \in ProcPid
          /\ p_state[2] = "RUNNABLE" /\ pc[2] = "forked" /\ eax[2] = 0
      BY <2>0, <2>5 DEF AppWaits, At, Result, Starting, HasForked, Waiting,
                        Woken, Ended, MainRuns
    <3>2. WaitBlocks(2) /\ Schedule
      <4>1. Wait(2)
        BY <2>5, <3>1 DEF AppWaits, Result
      <4>2. ~WaitInvalid(2) /\ ~WaitReaps(2)
        BY <3>1 DEF WaitInvalid, WaitReaps, Existing
      <4> QED BY <4>1, <4>2 DEF Wait
    <3>3. /\ p_state' = [p_state EXCEPT ![1] = "BLOCKED"]
          /\ p_waitOn' = [p_waitOn EXCEPT ![1] = 2]
          /\ eax' = [eax EXCEPT ![1] = 2]
      BY <3>1, <3>2 DEF WaitBlocks
    <3>4. /\ p_state'[1] = "BLOCKED" /\ p_state'[2] = "RUNNABLE"
          /\ p_waitOn'[1] = 2 /\ eax'[2] = 0 /\ p_state'[0] = "EMPTY"
          /\ \A p \in ProcPid \ {1, 2} : p_state'[p] = "EMPTY"
      BY <1>0, <2>0, <3>1, <3>3
    <3>5. current' = 2 /\ cpu' = "user"
      <4>1. \A q \in Pid : p_state'[q] = "RUNNABLE" => q = 2
        BY <1>0, <3>4
      <4> QED BY <1>0, <3>1, <3>2, <3>4, <4>1, OnlyRunnable
    <3>6. /\ pc' = [pc EXCEPT ![1] = "waited"]
          /\ frame' = [frame EXCEPT ![1] = [My EXCEPT !.p = Result]]
      BY <1>0, <2>5, <3>1 DEF AppWaits, Goto
    <3>7. /\ pc'[1] = "waited" /\ pc'[2] = "forked"
          /\ frame'[1].checker = 0
      BY <1>0, <2>0, <3>1, <3>6 DEF Frame
    <3>8. Waiting'
      BY <3>1, <3>4, <3>5, <3>7 DEF Waiting
    <3> QED BY <3>4, <3>7, <3>8 DEF App1Inv
  <2>6. CASE AppExits
    <3>1. /\ current = 1
          /\ \A q \in ProcPid \ {1} : p_state[q] # "RUNNABLE" /\ p_state[q] # "BLOCKED"
          /\ p_state[1] # "BLOCKED"
      <4>1. MainRuns /\ (Woken \/ (eax[1] = -1 /\ Alone))
        BY <2>0, <2>6 DEF AppExits, AppEnds, At, Result, Starting, HasForked,
                          Waiting, Woken, Ended, MainRuns
      <4>2. p_state[1] # "BLOCKED"
        BY <4>1 DEF MainRuns, AppBase, IInv, RunningEntry
      <4>3. CASE Woken
        BY <2>0, <4>1, <4>2, <4>3 DEF Woken, MainRuns
      <4>4. CASE eax[1] = -1 /\ Alone
        BY <4>1, <4>2, <4>4 DEF Alone, MainRuns
      <4> QED BY <4>1, <4>3, <4>4
    <3>2. PICK status \in Int : ExitWith(status)
      <4>1. (IF pc[current] = "forked" \/ My.checker # 0 THEN 1 ELSE 0) \in Int
        OBVIOUS
      <4> QED BY <2>6, <4>1 DEF AppExits
    <3>3. Waiters(1) = {}
      BY <1>0, <3>1 DEF Waiters
    <3>4. /\ \A q \in Pid : p_state'[q] # "RUNNABLE"
          /\ \A p \in ProcPid \ {1, 2} : p_state'[p] = "EMPTY"
          /\ Schedule
      BY <1>0, <2>0, <3>1, <3>2, <3>3 DEF ExitWith, Exit
    <3>5. cpu' = "spin"
      BY <1>0, <3>4, ScheduleOrder
    <3>6. pc'[1] = "exited" /\ frame'[1].checker = 0
      BY <1>0, <2>0, <3>1, <3>2 DEF ExitWith, Goto
    <3> QED BY <3>4, <3>5, <3>6 DEF App1Inv, Ended
  <2> QED BY <1>3, <2>1, <2>2, <2>3, <2>4, <2>5, <2>6 DEF App1Next
<1>4. CASE App2Next
  BY <1>2, <1>4 DEF App2Next, At, RoundBegins, MainForks, MainCounts,
     WaitsBegin, InnerEnds, MainWaits, WaitsEnd, MainExits, MainEnds, ChildCounts,
     ChildKills, ChildEnds
<1> QED BY <1>1, <1>3, <1>4 DEF AppNext

-----------------------------------------------------------------------------
(* mpos-app2.                                                              *)
Children     == ProcPid \ {1}
ChildrenRest == \A c \in Children : p_state[c] # "RUNNABLE"

(* The zombie that a round may leave is the first entry waited for.        *)
OnlyEntryTwo == \A c \in Children : p_state[c] # "EMPTY" => c = 2

(* A child that runs: the main process is at its first sys_wait, and the   *)
(* children with a smaller pid have run before.                            *)
ChildRuns ==
  /\ \A q \in Children : q < current => p_state[q] # "RUNNABLE"
  /\ pc[1] = "waits" => frame[1].p = 3
  /\ \/ /\ pc[current] = "forked" /\ eax[current] = 0
        /\ p_state[current] = "RUNNABLE"
     \/ pc[current] = "child"
     \/ pc[current] = "kill" /\ frame[current].i >= 3

(* The main process runs: it has not waited yet, or no child is left to    *)
(* run and the entries after 2 that it has waited for are empty.           *)
MainAtWork ==
  /\ pc[1] \in {"outer", "inner", "forked", "waits", "exited"}
  /\ pc[1] = "forked" => eax[1] # 0
  /\ pc[1] = "waits" =>
       \/ frame[1].p = 2
       \/ /\ frame[1].p \in 3 .. NPROCS
          /\ ChildrenRest
          /\ \A q \in Children :
               2 < q /\ q < frame[1].p => p_state[q] = "EMPTY"

(* Children never block and run in the order of their entries while the    *)
(* main process is in its first sys_wait; then nobody is left to run, and  *)
(* the other waits only collect.                                           *)
App2Inv ==
  program = 2 =>
    /\ cpu \in {"user", "spin"}
    /\ \A c \in Children : p_state[c] # "BLOCKED"
    /\ \A c \in Children : p_state[c] = "RUNNABLE" /\ c # current =>
         pc[c] = "forked" /\ eax[c] = 0
    /\ pc[1] # "waited"
    /\ pc[1] = "outer" => ChildrenRest /\ OnlyEntryTwo
    /\ current # 1 => pc[1] \in {"waits", "exited"}
    /\ cpu = "user" => IF current = 1 THEN MainAtWork ELSE ChildRuns

(* Typing and the whereabouts of the caller, in the form the steps need.   *)
Typed2 ==
  /\ current \in Pid /\ current \in ProcPid /\ current \in Int
  /\ 1 \in Pid /\ 1 \in ProcPid /\ 0 \in Pid
  /\ Children \subseteq Pid /\ Children \subseteq Int
  /\ \A p \in Pid : p = 0 \/ p = 1 \/ p \in Children
  /\ \A c \in Children : 2 <= c /\ c < NPROCS
  /\ NPROCS \in Int /\ NPROCS >= 2
  /\ p_state[0] = "EMPTY"
  /\ p_state \in [Pid -> States] /\ eax \in [Pid -> Int]
  /\ p_waitOn \in [Pid -> Pid] /\ pc \in [Pid -> Labels]
  /\ frame \in [Pid -> Frame]
  /\ My = frame[current] /\ My \in Frame

LEMMA BaseTyped2 == AppBase => Typed2
<1>1. /\ 0 \in Pid /\ Children \subseteq Pid /\ Children \subseteq Int
      /\ \A p \in Pid : p = 0 \/ p = 1 \/ p \in Children
      /\ \A c \in Children : 2 <= c /\ c < NPROCS
      /\ NPROCS \in Int /\ NPROCS >= 2
  BY NPROCSAssumption DEF Pid, ProcPid, Children
<1> QED BY <1>1, MyFrame
        DEF Typed2, AppBase, AppTypeOK, IInv, TypeOK, RunningEntry

LEMMA Goes ==
  ASSUME AppBase, NEW label, NEW f, Goto(label, f)
  PROVE  /\ pc' = [pc EXCEPT ![current] = label]
         /\ frame' = [frame EXCEPT ![current] = f]
         /\ program' = program
  BY MyFrame DEF Goto

(* Whom schedule() finds when the main process gives up the processor...   *)
LEMMA AfterMain ==
  ASSUME Typed2, current = 1, Schedule, p_state'[0] = "EMPTY"
  PROVE  /\ cpu' \in {"user", "spin"} /\ (cpu' = "spin" => current' = 1)
         /\ \/ current' = 1
            \/ /\ current' \in Children /\ p_state'[current'] = "RUNNABLE"
               /\ \A q \in Children : q < current' => p_state'[q] # "RUNNABLE"
         /\ current' = 1 /\ cpu' = "user" =>
              \A q \in Children : p_state'[q] # "RUNNABLE"
<1>1. CASE cpu' = "spin" /\ current' = current
  BY <1>1
<1>2. CASE /\ cpu' = "user" /\ current' \in Pid
           /\ p_state'[current'] = "RUNNABLE"
           /\ \A q \in Pid : p_state'[q] = "RUNNABLE" =>
                IF current < current' THEN q <= current \/ current' <= q
                                      ELSE current' <= q /\ q <= current
  <2>1. current' = 1 \/ current' \in Children
    BY <1>2 DEF Typed2
  <2>2. CASE current' = 1
    <3>1. ASSUME NEW q \in Children, p_state'[q] = "RUNNABLE" PROVE FALSE
      <4>1. q \in Pid /\ q >= 2 /\ q \in Int
        BY DEF Typed2
      <4> QED BY <1>2, <2>2, <3>1, <4>1
    <3> QED BY <1>2, <2>2, <3>1
  <2>3. CASE current' \in Children
    <3>1. current' >= 2 /\ current' \in Int
      BY <2>3 DEF Typed2
    <3>2. ASSUME NEW q \in Children, p_state'[q] = "RUNNABLE", q < current'
          PROVE  FALSE
      <4>1. q \in Pid /\ q >= 2 /\ q \in Int
        BY DEF Typed2
      <4> QED BY <1>2, <3>1, <3>2, <4>1
    <3> QED BY <1>2, <2>3, <3>1, <3>2
  <2> QED BY <2>1, <2>2, <2>3
<1> QED BY <1>1, <1>2, ScheduleOrder DEF Typed2

(* ... and when a child ends that has none below it left to run.           *)
LEMMA AfterChild ==
  ASSUME Typed2, current \in Children, Schedule, p_state'[0] = "EMPTY",
         \A q \in Children : q <= current => p_state'[q] # "RUNNABLE"
  PROVE  /\ cpu' \in {"user", "spin"} /\ (cpu' = "spin" => current' = current)
         /\ \/ cpu' = "spin"
            \/ current' = 1 /\ \A q \in Children : p_state'[q] # "RUNNABLE"
            \/ /\ current' \in Children /\ p_state'[current'] = "RUNNABLE"
               /\ current' # current
               /\ \A q \in Children : q < current' => p_state'[q] # "RUNNABLE"
<1>1. CASE cpu' = "spin" /\ current' = current
  BY <1>1
<1>2. CASE /\ cpu' = "user" /\ current' \in Pid
           /\ p_state'[current'] = "RUNNABLE"
           /\ \A q \in Pid : p_state'[q] = "RUNNABLE" =>
                IF current < current' THEN q <= current \/ current' <= q
                                      ELSE current' <= q /\ q <= current
  <2>0. current \in Int /\ current >= 2
    BY DEF Typed2
  <2>1. current' = 1 \/ current' \in Children
    BY <1>2 DEF Typed2
  <2>2. CASE current' = 1
    <3>1. ASSUME NEW q \in Children, p_state'[q] = "RUNNABLE" PROVE FALSE
      <4>1. q \in Pid /\ q >= 2 /\ q \in Int
        BY DEF Typed2
      <4> QED BY <1>2, <2>0, <2>2, <3>1, <4>1
    <3> QED BY <1>2, <2>2, <3>1
  <2>3. CASE current' \in Children
    <3>1. current' >= 2 /\ current' \in Int /\ current' > current
      BY <1>2, <2>0, <2>3 DEF Typed2
    <3>2. ASSUME NEW q \in Children, p_state'[q] = "RUNNABLE", q < current'
          PROVE  FALSE
      <4>1. q \in Pid /\ q >= 2 /\ q \in Int
        BY DEF Typed2
      <4> QED BY <1>2, <2>0, <3>1, <3>2, <4>1
    <3> QED BY <1>2, <2>0, <2>3, <3>1, <3>2
  <2> QED BY <2>1, <2>2, <2>3
<1> QED BY <1>1, <1>2, ScheduleOrder DEF Typed2

LEMMA App2Kept ==
  ASSUME AppBase, App2Inv, [AppNext]_<<vars, appVars>>
  PROVE  App2Inv'
<1> SUFFICES ASSUME program' = 2 PROVE App2Inv'
  BY DEF App2Inv
<1>0. Typed2
  BY BaseTyped2
<1>1. CASE UNCHANGED <<vars, appVars>>
  BY <1>1 DEF vars, appVars, App2Inv, MainAtWork, ChildRuns, ChildrenRest,
              OnlyEntryTwo
<1>2. program = 2
  BY <1>1 DEF AppNext, App1Next, App2Next, AppForks, ChildStarts, ChildYields,
     ChildExits, AppWaits, AppExits, At, RoundBegins, MainForks, MainCounts,
     WaitsBegin, InnerEnds, MainWaits, WaitsEnd, MainExits, MainEnds, ChildCounts,
     ChildKills, ChildEnds, ForkTo, Goto, ExitWith, appVars
<1>3. CASE App1Next
  BY <1>2, <1>3 DEF App1Next, AppForks, ChildStarts, ChildYields, ChildExits,
                    AppWaits, AppExits, AppEnds, At
<1>4. CASE App2Next
  <2>0. /\ cpu \in {"user", "spin"}
        /\ \A c \in Children : p_state[c] # "BLOCKED"
        /\ \A c \in Children : p_state[c] = "RUNNABLE" /\ c # current =>
             pc[c] = "forked" /\ eax[c] = 0
        /\ pc[1] # "waited"
        /\ pc[1] = "outer" => ChildrenRest /\ OnlyEntryTwo
        /\ current # 1 => pc[1] \in {"waits", "exited"}
        /\ cpu = "user" => IF current = 1 THEN MainAtWork ELSE ChildRuns
    BY <1>2 DEF App2Inv
  <2>1. CASE RoundBegins
    <3>1. /\ current = 1 /\ cpu = "user" /\ MainAtWork
          /\ UNCHANGED <<p_state, eax, current, cpu>>
          /\ pc' = [pc EXCEPT ![1] = "inner"]
          /\ frame' = [frame EXCEPT ![1] = [My EXCEPT !.n_started = 0]]
      BY <2>0, <2>1, Goes DEF RoundBegins, At, ChildRuns, vars
    <3>2. \A c \in Children : pc'[c] = pc[c]
      BY <1>0, <3>1 DEF Typed2, Children
    <3>3. pc'[1] = "inner"
      BY <1>0, <3>1 DEF Typed2
    <3> QED BY <2>0, <3>1, <3>2, <3>3 DEF App2Inv, MainAtWork
  <2>2. CASE MainForks
    <3>1. current = 1 /\ cpu = "user" /\ MainAtWork /\ pc[1] = "inner"
      BY <2>0, <2>2 DEF MainForks, At, ChildRuns
    <3>2. /\ UNCHANGED <<current, cpu>>
          /\ \/ /\ UNCHANGED p_state
                /\ eax' = [eax EXCEPT ![current] = -1]
                /\ pc' = [pc EXCEPT ![current] = "forked"]
             \/ \E j \in Empty :
                  /\ j # current /\ j \in Pid
                  /\ p_state' = [p_state EXCEPT ![j] = "RUNNABLE"]
                  /\ eax' = [eax EXCEPT ![current] = j, ![j] = 0]
                  /\ pc' = [pc EXCEPT ![current] = "forked", ![j] = "forked"]
      <4>1. "forked" \in Labels
        BY DEF Labels
      <4> QED BY <4>1, <2>2, ForkToEffect DEF MainForks
    <3>3. CASE /\ UNCHANGED p_state
               /\ eax' = [eax EXCEPT ![current] = -1]
               /\ pc' = [pc EXCEPT ![current] = "forked"]
      <4>1. pc'[1] = "forked" /\ eax'[1] = -1
        BY <1>0, <3>1, <3>3 DEF Typed2
      <4>2. \A c \in Children : pc'[c] = pc[c] /\ eax'[c] = eax[c]
        BY <1>0, <3>1, <3>3 DEF Typed2, Children
      <4> QED BY <2>0, <3>1, <3>2, <3>3, <4>1, <4>2 DEF App2Inv, MainAtWork
    <3>4. ASSUME NEW j \in Empty, j # current, j \in Pid,
                 p_state' = [p_state EXCEPT ![j] = "RUNNABLE"],
                 eax' = [eax EXCEPT ![current] = j, ![j] = 0],
                 pc' = [pc EXCEPT ![current] = "forked", ![j] = "forked"]
          PROVE  App2Inv'
      <4>1. j \in Children
        BY <3>1, <3>4 DEF Empty, Children
      <4>2. pc'[1] = "forked" /\ eax'[1] # 0
        BY <1>0, <3>1, <3>4, <4>1 DEF Typed2
      <4>3. \A c \in Children : /\ p_state'[c] # "BLOCKED"
                                /\ p_state'[c] = "RUNNABLE" =>
                                     pc'[c] = "forked" /\ eax'[c] = 0
        BY <1>0, <2>0, <3>1, <3>4, <4>1 DEF Typed2, Children
      <4> QED BY <2>0, <3>1, <3>2, <4>2, <4>3 DEF App2Inv, MainAtWork
    <3> QED BY <3>2, <3>3, <3>4
  <2>3. CASE MainCounts
    <3>1. /\ current = 1 /\ cpu = "user" /\ MainAtWork
          /\ UNCHANGED <<p_state, eax, current, cpu>>
          /\ pc' = [pc EXCEPT ![1] = "inner"]
      BY <2>0, <2>3, Goes DEF MainCounts, At, ChildRuns, vars, Result
    <3>2. \A c \in Children : pc'[c] = pc[c]
      BY <1>0, <3>1 DEF Typed2, Children
    <3>3. pc'[1] = "inner"
      BY <1>0, <3>1 DEF Typed2
    <3> QED BY <2>0, <3>1, <3>2, <3>3 DEF App2Inv, MainAtWork
  <2>4. CASE WaitsBegin
    <3>1. /\ current = 1 /\ cpu = "user" /\ MainAtWork
          /\ UNCHANGED <<p_state, eax, current, cpu>>
          /\ pc' = [pc EXCEPT ![1] = "waits"]
          /\ frame' = [frame EXCEPT ![1] = [My EXCEPT !.p = 2]]
      BY <2>0, <2>4, Goes
         DEF WaitsBegin, InnerEnds, At, ChildRuns, vars, Result
    <3>2. \A c \in Children : pc'[c] = pc[c]
      BY <1>0, <3>1 DEF Typed2, Children
    <3>3. pc'[1] = "waits" /\ frame'[1].p = 2
      BY <1>0, <3>1 DEF Typed2, Frame
    <3> QED BY <2>0, <3>1, <3>2, <3>3 DEF App2Inv, MainAtWork
  <2>6. CASE WaitsEnd
    <3>1. /\ current = 1 /\ cpu = "user" /\ MainAtWork
          /\ UNCHANGED <<p_state, eax, current, cpu>>
          /\ pc' = [pc EXCEPT ![1] = "outer"]
          /\ pc[1] = "waits" /\ frame[1].p = NPROCS
      BY <1>0, <2>0, <2>6, Goes DEF WaitsEnd, At, ChildRuns, vars, Typed2
    <3>2. \A c \in Children : pc'[c] = pc[c]
      BY <1>0, <3>1 DEF Typed2, Children
    <3>3. ChildrenRest /\ OnlyEntryTwo
      <4>1. CASE NPROCS = 2
        BY <1>0, <4>1 DEF Typed2, ChildrenRest, OnlyEntryTwo
      <4>2. CASE NPROCS # 2
        <5>1. /\ ChildrenRest
              /\ \A q \in Children :
                   2 < q /\ q < NPROCS => p_state[q] = "EMPTY"
          BY <3>1, <4>2 DEF MainAtWork
        <5>2. \A q \in Children : q = 2 \/ (2 < q /\ q < NPROCS)
          BY <1>0 DEF Typed2
        <5> QED BY <5>1, <5>2 DEF OnlyEntryTwo
      <4> QED BY <4>1, <4>2
    <3>4. pc'[1] = "outer"
      BY <1>0, <3>1 DEF Typed2
    <3>5. ChildrenRest' /\ OnlyEntryTwo'
      BY <3>1, <3>3 DEF ChildrenRest, OnlyEntryTwo
    <3> QED BY <2>0, <3>1, <3>2, <3>4, <3>5 DEF App2Inv, MainAtWork
  <2>5. CASE MainWaits
    <3> DEFINE w == frame[1].p
    <3>1. /\ current = 1 /\ cpu = "user" /\ MainAtWork
          /\ Wait(w) /\ Schedule /\ pc[1] = "waits"
          /\ pc' = [pc EXCEPT ![1] = "waits"]
          /\ frame' = [frame EXCEPT ![1] = [My EXCEPT !.p = @ + 1]]
          /\ w < NPROCS
      <4>1. current = 1
        BY <2>0, <2>5 DEF MainWaits, At, ChildRuns
      <4> QED BY <1>0, <2>0, <2>5, <4>1, Goes DEF MainWaits, At, Wait, Typed2
    <3>2. w \in Int /\ w >= 2 /\ w \in Children
      <4>1. w \in Int
        BY <1>0 DEF Typed2, Frame
      <4>2. w >= 2
        BY <1>0, <3>1, <4>1 DEF MainAtWork, Typed2
      <4>3. \A c \in Int : 2 <= c /\ c < NPROCS => c \in Children
        BY <1>0 DEF Typed2, Children, ProcPid
      <4> QED BY <3>1, <4>1, <4>2, <4>3
    <3>3. w # 2 => /\ w >= 3 /\ ChildrenRest
                   /\ \A q \in Children : 2 < q /\ q < w => p_state[q] = "EMPTY"
      BY <3>1, <3>2 DEF MainAtWork
    <3>4. /\ p_state'[0] = "EMPTY"
          /\ \A c \in Children :
               /\ p_state'[c] = p_state[c] \/ p_state'[c] = "EMPTY"
               /\ eax'[c] = eax[c]
          /\ w # 2 => p_state'[w] = "EMPTY"
      <4>1. CASE WaitInvalid(w)
        <5>1. p_state[w] = "EMPTY" /\ UNCHANGED p_state
          BY <3>1, <3>2, <4>1 DEF WaitInvalid, Existing, Children
        <5> QED BY <1>0, <3>1, <4>1, <5>1 DEF WaitInvalid, Typed2, Children
      <4>2. CASE WaitReaps(w)
        BY <1>0, <3>1, <3>2, <4>2 DEF WaitReaps, Typed2, Children
      <4>3. CASE WaitBlocks(w)
        <5>1. w = 2
          <6>1. p_state[w] = "RUNNABLE"
            BY <1>0, <2>0, <3>2, <4>3 DEF WaitBlocks, Existing, Typed2, States
          <6> QED BY <3>2, <3>3, <6>1 DEF ChildrenRest
        <5>2. p_state' = [p_state EXCEPT ![1] = "BLOCKED"]
          BY <3>1, <4>3 DEF WaitBlocks
        <5>3. eax' = [eax EXCEPT ![1] = w]
          BY <3>1, <4>3 DEF WaitBlocks
        <5> QED BY <1>0, <5>1, <5>2, <5>3 DEF Typed2, Children
      <4> QED BY <3>1, <4>1, <4>2, <4>3 DEF Wait
    <3>5. /\ \A c \in Children : pc'[c] = pc[c]
          /\ pc'[1] = "waits" /\ frame'[1].p = w + 1
      BY <1>0, <3>1 DEF Typed2, Children, Frame
    <3>6. /\ \A c \in Children : p_state'[c] # "BLOCKED"
          /\ \A c \in Children : p_state'[c] = "RUNNABLE" =>
               p_state[c] = "RUNNABLE" /\ pc'[c] = "forked" /\ eax'[c] = 0
      BY <2>0, <3>1, <3>4, <3>5 DEF Children
    <3>7. /\ cpu' \in {"user", "spin"} /\ (cpu' = "spin" => current' = 1)
          /\ \/ current' = 1
             \/ /\ current' \in Children /\ p_state'[current'] = "RUNNABLE"
                /\ \A q \in Children : q < current' => p_state'[q] # "RUNNABLE"
          /\ current' = 1 /\ cpu' = "user" =>
               \A q \in Children : p_state'[q] # "RUNNABLE"
      BY <1>0, <3>1, <3>4, AfterMain
    <3>8. ASSUME current' = 1, cpu' = "user" PROVE MainAtWork'
      <4>1. ChildrenRest'
        BY <3>7, <3>8 DEF ChildrenRest
      <4>2. frame'[1].p \in 3 .. NPROCS
        BY <1>0, <3>1, <3>2, <3>5 DEF Typed2
      <4>3. ASSUME NEW q \in Children, 2 < q, q < frame'[1].p
            PROVE  p_state'[q] = "EMPTY"
        <5>1. q \in Int /\ q <= w /\ w # 2
          BY <1>0, <3>2, <3>5, <4>3 DEF Typed2
        <5>2. CASE q = w
          BY <3>4, <5>1, <5>2
        <5>3. CASE q # w
          BY <3>2, <3>3, <3>4, <4>3, <5>1, <5>3
        <5> QED BY <5>2, <5>3
      <4> QED BY <3>5, <4>1, <4>2, <4>3 DEF MainAtWork
    <3>9. ASSUME current' # 1, cpu' = "user" PROVE ChildRuns'
      <4>1. /\ current' \in Children /\ p_state'[current'] = "RUNNABLE"
            /\ \A q \in Children : q < current' => p_state'[q] # "RUNNABLE"
        BY <3>7, <3>9
      <4>2. w = 2
        BY <3>3, <3>6, <4>1 DEF ChildrenRest
      <4> QED BY <3>5, <3>6, <4>1, <4>2 DEF ChildRuns
    <3> HIDE DEF w
    <3> QED BY <3>5, <3>6, <3>7, <3>8, <3>9 DEF App2Inv
  <2>7. CASE MainExits
    <3>1. current = 1 /\ cpu = "user" /\ Exit(0) /\ Schedule
      <4>1. current = 1
        BY <2>0, <2>7 DEF MainExits, MainEnds, InnerEnds, At, ChildRuns, Result
      <4> QED BY <2>7, <4>1 DEF MainExits, ExitWith, Exit, Call
    <3>2. Waiters(1) = {}
      BY <2>0, <3>1 DEF Waiters, AppBase, IInv, RunningEntry, Children
    <3>3. /\ p_state' = [p \in Pid |-> IF p = 1 THEN "ZOMBIE" ELSE p_state[p]]
          /\ eax' = [p \in Pid |-> IF p = 1 THEN 0 ELSE eax[p]]
      BY <3>1, <3>2 DEF Exit
    <3>4. pc' = [pc EXCEPT ![1] = "exited"]
      BY <2>7, <3>1, Goes DEF MainExits, ExitWith
    <3>5. /\ p_state'[0] = "EMPTY" /\ pc'[1] = "exited"
          /\ \A c \in Children : /\ p_state'[c] = p_state[c] /\ eax'[c] = eax[c]
                                 /\ pc'[c] = pc[c]
      BY <1>0, <3>3, <3>4 DEF Typed2, Children
    <3>6. /\ cpu' \in {"user", "spin"}
          /\ \/ current' = 1
             \/ /\ current' \in Children /\ p_state'[current'] = "RUNNABLE"
                /\ \A q \in Children : q < current' => p_state'[q] # "RUNNABLE"
      BY <1>0, <3>1, <3>5, AfterMain
    <3>7. \A c \in Children : /\ p_state'[c] # "BLOCKED"
                              /\ p_state'[c] = "RUNNABLE" =>
                                   pc'[c] = "forked" /\ eax'[c] = 0
      BY <2>0, <3>1, <3>5 DEF Children
    <3>8. current' = 1 => MainAtWork'
      BY <3>5 DEF MainAtWork
    <3>9. current' # 1 => ChildRuns'
      BY <3>5, <3>6, <3>7 DEF ChildRuns
    <3> QED BY <3>5, <3>6, <3>7, <3>8, <3>9 DEF App2Inv
  <2>8. CASE ChildCounts
    <3>1. /\ current # 1 /\ cpu = "user" /\ ChildRuns
          /\ eax' = [eax EXCEPT ![current] = current]
          /\ UNCHANGED <<p_state, current, cpu>>
          /\ pc' = [pc EXCEPT ![current] = "child"]
          /\ frame' = [frame EXCEPT ![current] =
                         [My EXCEPT !.input_counter = counter]]
      <4>1. current # 1
        BY <2>0, <2>8 DEF ChildCounts, At, MainAtWork, Result
      <4> QED BY <2>0, <2>8, <4>1, Goes DEF ChildCounts, GetPid, Resume, At
    <3>2. /\ pc'[current] = "child" /\ pc'[1] = pc[1] /\ frame'[1] = frame[1]
          /\ \A c \in Children : c # current => pc'[c] = pc[c] /\ eax'[c] = eax[c]
      BY <1>0, <3>1 DEF Typed2
    <3>3. ChildRuns'
      BY <3>1, <3>2 DEF ChildRuns
    <3> QED BY <2>0, <3>1, <3>2, <3>3 DEF App2Inv, ChildrenRest, OnlyEntryTwo
  <2>9. CASE ChildKills
    <3>1. /\ current # 1 /\ cpu = "user" /\ ChildRuns /\ UNCHANGED <<current, cpu>>
          /\ pc' = [pc EXCEPT ![current] = "kill"]
      <4>1. current # 1
        BY <2>0, <2>9 DEF ChildKills, At, MainAtWork
      <4> QED BY <2>0, <2>9, <4>1, Goes DEF ChildKills, Kill, Resume, At, vars
    <3>2. /\ frame'[1] = frame[1] /\ frame'[current].i >= 3
          /\ \A c \in Children :
               /\ p_state'[c] # "BLOCKED"
               /\ p_state'[c] = "RUNNABLE" => p_state[c] = "RUNNABLE"
               /\ c # current => eax'[c] = eax[c]
      <4>1. CASE /\ Goto("kill", [My EXCEPT !.i = 3]) /\ UNCHANGED vars
        <5>1. frame' = [frame EXCEPT ![current] = [My EXCEPT !.i = 3]]
          BY <4>1, Goes
        <5> QED BY <1>0, <2>0, <3>1, <4>1, <5>1 DEF Typed2, Frame, vars
      <4>2. CASE /\ At(2, "kill") /\ Kill(My.i)
                 /\ Goto("kill", [My EXCEPT !.i = @ + 2])
        <5> DEFINE t == My.i
        <5>1. t \in Int /\ t >= 3
          BY <1>0, <2>0, <3>1, <4>2 DEF At, ChildRuns, Typed2, Frame
        <5>2. frame' = [frame EXCEPT ![current] = [My EXCEPT !.i = @ + 2]]
          BY <4>2, Goes
        <5>3. frame'[1] = frame[1] /\ frame'[current].i = t + 2
          BY <1>0, <3>1, <5>2 DEF Typed2, Frame
        <5>4. CASE KillInvalid(t)
          <6>1. \A c \in Children : /\ p_state'[c] = p_state[c]
                                    /\ c # current => eax'[c] = eax[c]
            BY <1>0, <5>4 DEF KillInvalid, Typed2
          <6> HIDE DEF t
          <6> QED BY <2>0, <5>1, <5>3, <6>1
        <5>5. CASE KillTarget(t)
          <6>1. \A c \in Children : c \notin Waiters(t)
            BY <2>0 DEF Waiters
          <6>2. \A c \in Children :
                  /\ p_state'[c] = IF c = t THEN "ZOMBIE" ELSE p_state[c]
                  /\ c # current => eax'[c] = eax[c]
            BY <1>0, <5>5, <6>1 DEF KillTarget, Typed2
          <6> HIDE DEF t
          <6> QED BY <2>0, <5>1, <5>3, <6>2
        <5> QED BY <4>2, <5>4, <5>5 DEF Kill
      <4> QED BY <2>9, <4>1, <4>2 DEF ChildKills
    <3>3. /\ pc'[current] = "kill" /\ pc'[1] = pc[1]
          /\ \A c \in Children : c # current => pc'[c] = pc[c]
      BY <1>0, <3>1 DEF Typed2
    <3>4. ChildRuns'
      BY <3>1, <3>2, <3>3 DEF ChildRuns
    <3>5. pc[1] # "outer"
      BY <2>0, <3>1
    <3> QED BY <2>0, <3>1, <3>2, <3>3, <3>4, <3>5 DEF App2Inv
  <2>10. CASE ChildEnds
    <3>1. PICK status \in Int : Exit(status) /\ Goto("exited", My)
      <4>1. My.input_counter \in Int
        BY <1>0 DEF Typed2, Frame
      <4> QED BY <2>10, <4>1 DEF ChildEnds, ExitWith
    <3>2. /\ current # 1 /\ current \in Children /\ cpu = "user" /\ ChildRuns
          /\ Schedule /\ pc' = [pc EXCEPT ![current] = "exited"]
          /\ frame' = [frame EXCEPT ![current] = My]
      <4>1. current # 1
        BY <2>0, <2>10 DEF ChildEnds, At, MainAtWork
      <4> QED BY <1>0, <2>0, <3>1, <4>1, Goes DEF Exit, Call, Children, Typed2
    <3>3. \A c \in Children : c \notin Waiters(current)
      BY <2>0 DEF Waiters
    <3>4. /\ p_state'[0] = "EMPTY"
          /\ \A c \in Children :
               /\ p_state'[c] = IF c = current THEN "ZOMBIE" ELSE p_state[c]
               /\ c # current => eax'[c] = eax[c]
      <4>1. 0 \notin Waiters(current) /\ 0 # current
        BY <1>0, <3>2 DEF Waiters, Typed2
      <4> QED BY <1>0, <3>1, <3>3, <4>1 DEF Exit, Typed2
    <3>5. /\ pc'[1] = pc[1] /\ frame'[1] = frame[1]
          /\ \A c \in Children : c # current => pc'[c] = pc[c]
      BY <1>0, <3>2 DEF Typed2
    <3>6. \A q \in Children : q <= current => p_state'[q] # "RUNNABLE"
      BY <1>0, <3>2, <3>4 DEF ChildRuns, Typed2
    <3>7. /\ cpu' \in {"user", "spin"} /\ (cpu' = "spin" => current' = current)
          /\ \/ cpu' = "spin"
             \/ current' = 1 /\ \A q \in Children : p_state'[q] # "RUNNABLE"
             \/ /\ current' \in Children /\ p_state'[current'] = "RUNNABLE"
                /\ current' # current
                /\ \A q \in Children : q < current' => p_state'[q] # "RUNNABLE"
      BY <1>0, <3>2, <3>4, <3>6, AfterChild
    <3>8. /\ pc'[1] \in {"waits", "exited"}
          /\ pc'[1] = "waits" => frame'[1].p = 3
      BY <2>0, <3>2, <3>5 DEF ChildRuns
    <3>9. \A c \in Children : /\ p_state'[c] # "BLOCKED"
                              /\ p_state'[c] = "RUNNABLE" =>
                                   pc'[c] = "forked" /\ eax'[c] = 0
      BY <2>0, <3>4, <3>5
    <3>10. ASSUME cpu' = "user", current' = 1 PROVE MainAtWork'
      <4>1. ChildrenRest'
        BY <3>2, <3>7, <3>10 DEF ChildrenRest, Children
      <4>2. 3 \in 3 .. NPROCS
        BY <1>0, <3>2 DEF Typed2
      <4>3. \A q \in Children : ~(2 < q /\ q < 3)
        BY <1>0 DEF Typed2
      <4> QED BY <3>8, <4>1, <4>2, <4>3 DEF MainAtWork
    <3>11. ASSUME cpu' = "user", current' # 1 PROVE ChildRuns'
      <4>1. /\ current' \in Children /\ p_state'[current'] = "RUNNABLE"
            /\ \A q \in Children : q < current' => p_state'[q] # "RUNNABLE"
        BY <3>7, <3>11
      <4> QED BY <3>8, <3>9, <4>1 DEF ChildRuns
    <3> QED BY <3>7, <3>8, <3>9, <3>10, <3>11 DEF App2Inv
  <2> QED BY <1>4, <2>1, <2>2, <2>3, <2>4, <2>5, <2>6, <2>7, <2>8, <2>9, <2>10
          DEF App2Next
<1> QED BY <1>1, <1>3, <1>4 DEF AppNext

-----------------------------------------------------------------------------
AppInv == AppBase /\ App1Inv /\ App2Inv

LEMMA AppInductive == AppSpec => []AppInv
<1>1. AppInit => AppInv
  <2> SUFFICES ASSUME AppInit PROVE AppInv
    OBVIOUS
  <2>1. AppBase
    BY AppInitBase
  <2>2. /\ 1 \in Pid /\ Children \subseteq Pid /\ \A c \in Children : c # 1
        /\ \A p \in ProcPid : p \in Pid
    BY NPROCSAssumption DEF Pid, ProcPid, Children
  <2>3. App1Inv
    BY <2>2 DEF AppInit, Init, App1Inv, Starting, MainRuns, Alone, Locals
  <2>4. App2Inv
    BY <2>2 DEF AppInit, Init, App2Inv, MainAtWork, ChildrenRest, OnlyEntryTwo
  <2> QED BY <2>1, <2>3, <2>4 DEF AppInv
<1>2. AppInv /\ [AppNext]_<<vars, appVars>> => AppInv'
  BY AppBaseKept, App1Kept, App2Kept DEF AppInv
<1> QED BY <1>1, <1>2, PTL DEF AppSpec

(* mpos-app: when the main process goes on after sys_wait it has the       *)
(* child's exit status, and the child has not written to its stack.        *)
THEOREM MainGetsChildStatus == AppSpec => []ChildStatusArrives
<1>1. AppInv => ChildStatusArrives
  <2> SUFFICES ASSUME AppInv, p_state[1] = "RUNNABLE", pc[1] = "waited"
               PROVE  eax[1] = 1000 /\ frame[stack[1]].checker = 0
    BY DEF ChildStatusArrives
  <2>1. program = 1
    BY DEF AppInv, AppBase, AppTypeOK, App2Inv
  <2>2. Woken /\ frame[1].checker = 0
    BY <2>1 DEF AppInv, App1Inv, Starting, HasForked, Waiting, Ended
  <2>3. stack[1] = 1
    BY MyFrame DEF AppInv, AppBase, OwnStack
  <2> QED BY <2>2, <2>3 DEF Woken
<1> QED BY <1>1, AppInductive, PTL

(* mpos-app2: a round leaves at most one zombie, that of entry 2.          *)
THEOREM RoundsCleanUp == AppSpec => []RoundsLeaveOneZombie
<1>1. AppInv => RoundsLeaveOneZombie
  <2> SUFFICES ASSUME AppInv, program = 2, pc[1] = "outer"
               PROVE  /\ \A p \in Pid \ {1} : p_state[p] \in {"EMPTY", "ZOMBIE"}
                      /\ Cardinality({p \in Pid \ {1} : p_state[p] = "ZOMBIE"}) <= 1
    BY DEF RoundsLeaveOneZombie
  <2> DEFINE Z == {p \in Pid \ {1} : p_state[p] = "ZOMBIE"}
  <2>1. Typed2
    BY BaseTyped2 DEF AppInv
  <2>2. /\ \A c \in Children : p_state[c] \in {"EMPTY", "ZOMBIE"}
        /\ \A c \in Children : p_state[c] # "EMPTY" => c = 2
    BY <2>1 DEF AppInv, App2Inv, ChildrenRest, OnlyEntryTwo, Typed2, States
  <2>3. \A p \in Pid \ {1} : p = 0 \/ p \in Children
    BY <2>1 DEF Typed2
  <2>4. \A p \in Pid \ {1} : p_state[p] \in {"EMPTY", "ZOMBIE"}
    BY <2>1, <2>2, <2>3 DEF Typed2
  <2>5. Z \subseteq {2}
    BY <2>1, <2>2, <2>3 DEF Typed2
  <2>6. Cardinality(Z) <= 1
    <3>1. IsFiniteSet({2}) /\ Cardinality({2}) = 1
      BY FS_Singleton
    <3> HIDE DEF Z
    <3> QED BY <2>5, <3>1, FS_Subset
  <2> QED BY <2>4, <2>6
<1> QED BY <1>1, AppInductive, PTL

-----------------------------------------------------------------------------
(* How many processes mpos-app2 has run.                                   *)
(* The children that are to run and have not yet increased the counter.    *)
Uncounted ==
  {c \in Children : p_state[c] = "RUNNABLE" /\ (c = current => pc[c] = "forked")}

(* The processes that the main process has forked in this round.           *)
Started ==
  frame[1].n_started + (IF pc[1] = "forked" /\ eax[1] > 0 THEN 1 ELSE 0)

(* Who has been forked has been counted or is still to run, so the counter *)
(* never passes Total.                                                     *)
CountInv ==
  program = 2 =>
    /\ counter >= 0 /\ counter + Cardinality(Uncounted) <= Total
    /\ pc[1] \in {"inner", "forked"} =>
         /\ frame[1].n_started >= 0
         /\ Cardinality(Uncounted) <= Started
         /\ counter + Started <= Total
    /\ \A c \in Children : pc[c] \in {"child", "kill"} =>
         frame[c].input_counter \in 0 .. Total

LEMMA UncountedFinite ==
  /\ IsFiniteSet(Uncounted) /\ Cardinality(Uncounted) \in Nat
  /\ IsFiniteSet(Uncounted') /\ Cardinality(Uncounted') \in Nat
<1>1. IsFiniteSet(Children)
  <2>1. 1 \in Int /\ NPROCS-1 \in Int
    BY NPROCSAssumption
  <2>2. IsFiniteSet(1 .. NPROCS-1)
    BY <2>1, FS_Interval
  <2> QED BY <2>2, FS_Subset DEF Children, ProcPid
<1>2. Uncounted \subseteq Children /\ Uncounted' \subseteq Children
  BY DEF Uncounted, Children
<1>3. IsFiniteSet(Uncounted) /\ IsFiniteSet(Uncounted')
  BY <1>1, <1>2, FS_Subset
<1> QED BY <1>3, FS_CardinalityType

LEMMA UncountedGrows ==
  ASSUME NEW j, Uncounted' \subseteq Uncounted \cup {j}
  PROVE  Cardinality(Uncounted') <= Cardinality(Uncounted) + 1
<1>1. /\ IsFiniteSet(Uncounted \cup {j})
      /\ Cardinality(Uncounted \cup {j}) =
           IF j \in Uncounted THEN Cardinality(Uncounted)
                              ELSE Cardinality(Uncounted) + 1
  BY UncountedFinite, FS_AddElement
<1>2. Cardinality(Uncounted') <= Cardinality(Uncounted \cup {j})
  BY <1>1, FS_Subset
<1>3. Cardinality(Uncounted) \in Nat /\ Cardinality(Uncounted') \in Nat
  BY UncountedFinite
<1> QED BY <1>1, <1>2, <1>3

LEMMA UncountedShrinks ==
  ASSUME NEW j, Uncounted' \subseteq Uncounted \ {j}
  PROVE  /\ Cardinality(Uncounted') <= Cardinality(Uncounted)
         /\ j \in Uncounted => Cardinality(Uncounted') <= Cardinality(Uncounted) - 1
<1>1. /\ IsFiniteSet(Uncounted \ {j})
      /\ Cardinality(Uncounted \ {j}) =
           IF j \in Uncounted THEN Cardinality(Uncounted) - 1
                              ELSE Cardinality(Uncounted)
  BY UncountedFinite, FS_RemoveElement
<1>2. Cardinality(Uncounted') <= Cardinality(Uncounted \ {j})
  BY <1>1, FS_Subset
<1>3. Cardinality(Uncounted) \in Nat /\ Cardinality(Uncounted') \in Nat
  BY UncountedFinite
<1> QED BY <1>1, <1>2, <1>3

(* Whose turn it is at each label of mpos-app2.                            *)
MainSteps ==
  \/ RoundBegins \/ MainForks \/ MainCounts \/ WaitsBegin \/ MainWaits
  \/ WaitsEnd \/ MainExits

ChildSteps == ChildCounts \/ ChildKills \/ ChildEnds

LEMMA TurnOf ==
  ASSUME AppInv, App2Next
  PROVE  /\ program = 2 /\ cpu = "user"
         /\ MainSteps => current = 1 /\ MainAtWork
         /\ ChildSteps => current # 1 /\ ChildRuns /\ current \in Children
<1>1. program = 2 /\ cpu = "user"
  BY DEF App2Next, At, RoundBegins, MainForks, MainCounts, WaitsBegin, InnerEnds,
     MainWaits, WaitsEnd, MainExits, MainEnds, ChildCounts, ChildKills, ChildEnds
<1>2. /\ IF current = 1 THEN MainAtWork ELSE ChildRuns
      /\ current \in ProcPid
  BY <1>1, MyFrame DEF AppInv, App2Inv
<1>3. MainSteps => current = 1
  BY <1>2 DEF MainSteps, ChildRuns, At, Result, RoundBegins, MainForks, MainCounts,
     WaitsBegin, InnerEnds, MainWaits, WaitsEnd, MainExits, MainEnds
<1>4. ChildSteps => current # 1
  BY <1>2 DEF ChildSteps, MainAtWork, At, Result, ChildCounts, ChildKills, ChildEnds
<1> QED BY <1>1, <1>2, <1>3, <1>4 DEF Children

(* A call other than sys_fork makes only a blocked process runnable, and   *)
(* `current' changes only when its process has ended or given up.          *)
LEMMA NoneStarted ==
  ASSUME AppInv, App2Next, ~MainForks
  PROVE  /\ \A c \in Children : p_state'[c] = "RUNNABLE" => p_state[c] = "RUNNABLE"
         /\ ChildSteps /\ current' # current => p_state'[current] = "ZOMBIE"
         /\ p_state'[1] = "ZOMBIE" => p_state[1] = "ZOMBIE" \/ MainExits
<1>0. Typed2 /\ \A c \in Children : p_state[c] # "BLOCKED"
  BY TurnOf, BaseTyped2 DEF AppInv, App2Inv
<1>1. CASE UNCHANGED vars
  BY <1>1 DEF vars
<1>2. CASE MainWaits
  <2>1. current = 1 /\ Wait(My.p)
    BY <1>2, TurnOf DEF MainSteps, MainWaits
  <2>2. ~ChildSteps
    BY <1>2, <2>1, TurnOf
  <2>3. \A c \in Pid : p_state'[c] = p_state[c] \/ p_state'[c] \in {"BLOCKED", "EMPTY"}
    BY <1>0, <2>1 DEF Wait, WaitInvalid, WaitReaps, WaitBlocks, Typed2
  <2> QED BY <1>0, <2>2, <2>3 DEF Typed2
<1>3. CASE MainExits
  <2>1. current = 1 /\ Exit(0)
    BY <1>3, TurnOf DEF MainSteps, MainExits, ExitWith
  <2>2. ~ChildSteps
    BY <1>3, <2>1, TurnOf
  <2> QED BY <1>0, <1>3, <2>1, <2>2 DEF Exit, Typed2, Waiters, Children
<1>4. CASE ChildCounts
  BY <1>4 DEF ChildCounts, GetPid, Resume
<1>5. CASE \E i \in Int : i >= 3 /\ Kill(i)
  <2>1. PICK i \in Int : i >= 3 /\ Kill(i)
    BY <1>5
  <2>2. current' = current
    BY <2>1 DEF Kill, Resume
  <2>3. \A c \in Pid : p_state'[c] = "RUNNABLE" =>
          p_state[c] \in {"RUNNABLE", "BLOCKED"}
    BY <2>1 DEF Kill, KillInvalid, KillTarget, Waiters
  <2>4. p_state'[1] = "ZOMBIE" => p_state[1] = "ZOMBIE"
    BY <1>0, <2>1 DEF Kill, KillInvalid, KillTarget, Typed2
  <2> QED BY <1>0, <2>2, <2>3, <2>4 DEF Typed2
<1>6. CASE ChildEnds
  <2>1. PICK status : Exit(status)
    BY <1>6 DEF ChildEnds, ExitWith
  <2>2. current # 1
    BY <1>6, TurnOf DEF ChildSteps
  <2>3. p_state[current] # "BLOCKED"
    BY TurnOf DEF AppInv, AppBase, IInv, RunningEntry
  <2> QED BY <1>0, <2>1, <2>2, <2>3 DEF Exit, Typed2, Waiters, Children
<1>7. CASE ChildKills /\ ~UNCHANGED vars
  <2>1. At(2, "kill") /\ Kill(My.i)
    BY <1>7 DEF ChildKills
  <2>2. My.i \in Int /\ My.i >= 3
    BY <1>0, <1>7, <2>1, TurnOf DEF ChildSteps, ChildRuns, At, Typed2, Frame
  <2> QED BY <2>1, <2>2, <1>5
<1> QED BY <1>1, <1>2, <1>3, <1>4, <1>6, <1>7
        DEF App2Next, RoundBegins, MainCounts, WaitsBegin, WaitsEnd

LEMMA UncountedLess ==
  ASSUME AppInv, App2Next, ~MainForks
  PROVE  Uncounted' \subseteq Uncounted \ {current}
<1> SUFFICES ASSUME NEW c \in Children, p_state'[c] = "RUNNABLE",
                    c = current' => pc'[c] = "forked"
             PROVE  p_state[c] = "RUNNABLE" /\ c # current
  BY DEF Uncounted, Children
<1>1. p_state[c] = "RUNNABLE"
  BY NoneStarted
<1>2. ASSUME c = current PROVE FALSE
  <2>1. ChildSteps
    BY <1>2, TurnOf DEF App2Next, MainSteps, ChildSteps, Children
  <2>2. \E label \in {"child", "kill", "exited"} : \E f : Goto(label, f)
    BY <2>1 DEF ChildSteps, ChildCounts, ChildKills, ChildEnds, ExitWith
  <2>3. pc'[current] \in {"child", "kill", "exited"}
    <3>1. Typed2
      BY BaseTyped2 DEF AppInv
    <3> QED BY <2>2, <3>1, Goes DEF Typed2, AppInv
  <2>4. current' # current
    BY <1>2, <2>3
  <2> QED BY <1>2, <2>1, <2>4, NoneStarted
<1> QED BY <1>1, <1>2

LEMMA CountKept ==
  ASSUME AppInv, CountInv, [AppNext]_<<vars, appVars>>
  PROVE  CountInv'
<1> SUFFICES ASSUME program' = 2 PROVE CountInv'
  BY DEF CountInv
<1>0. Typed2 /\ counter \in Int /\ Total \in Nat
  BY BaseTyped2, TotalAssumption DEF AppInv, AppBase, AppTypeOK
<1>1. CASE UNCHANGED <<vars, appVars>>
  <2>1. Uncounted' = Uncounted /\ Started' = Started
    BY <1>1 DEF Uncounted, Started, vars, appVars
  <2> QED BY <1>1, <2>1 DEF CountInv, vars, appVars
<1>2. CASE App1Next
  <2>1. program' = program /\ program = 1
    BY <1>2 DEF App1Next, AppForks, ChildStarts, ChildYields, ChildExits,
       AppWaits, AppExits, AppEnds, At, ForkTo, Goto, ExitWith
  <2> QED BY <2>1
<1>3. CASE App2Next
  <2>0. /\ program = 2
        /\ counter >= 0 /\ counter + Cardinality(Uncounted) <= Total
        /\ pc[1] \in {"inner", "forked"} =>
             /\ frame[1].n_started >= 0
             /\ Cardinality(Uncounted) <= Started
             /\ counter + Started <= Total
        /\ \A c \in Children : pc[c] \in {"child", "kill"} =>
             frame[c].input_counter \in 0 .. Total
    BY <1>3, TurnOf DEF CountInv
  <2>00. /\ Cardinality(Uncounted) \in Nat /\ Cardinality(Uncounted') \in Nat
         /\ frame[1].n_started \in Int /\ eax[1] \in Int
    BY <1>0, UncountedFinite DEF Typed2, Frame
  <2>1. CASE MainForks
    <3>1. current = 1 /\ cpu = "user" /\ pc[1] = "inner"
          /\ counter + frame[1].n_started < Total
      BY <1>0, <2>1, <1>3, TurnOf DEF MainForks, MainSteps, At, Typed2
    <3>2. Started = frame[1].n_started
      BY <2>00, <3>1 DEF Started
    <3>3. /\ UNCHANGED <<current, counter>>
          /\ \/ /\ UNCHANGED <<p_state, frame>>
                /\ eax' = [eax EXCEPT ![current] = -1]
                /\ pc' = [pc EXCEPT ![current] = "forked"]
             \/ \E j \in Empty :
                  /\ j # current /\ j \in Pid
                  /\ p_state' = [p_state EXCEPT ![j] = "RUNNABLE"]
                  /\ eax' = [eax EXCEPT ![current] = j, ![j] = 0]
                  /\ pc' = [pc EXCEPT ![current] = "forked", ![j] = "forked"]
                  /\ frame' = [frame EXCEPT ![j] = frame[current]]
      <4>1. "forked" \in Labels
        BY DEF Labels
      <4> QED BY <4>1, <2>1, ForkToEffect DEF MainForks, AppInv
    <3>4. CASE /\ UNCHANGED <<p_state, frame>>
               /\ eax' = [eax EXCEPT ![current] = -1]
               /\ pc' = [pc EXCEPT ![current] = "forked"]
      <4>1. pc'[1] = "forked" /\ eax'[1] = -1
            /\ \A c \in Children : pc'[c] = pc[c]
        BY <1>0, <3>1, <3>4 DEF Typed2, Children
      <4>2. Uncounted' = Uncounted
        BY <3>1, <3>3, <3>4, <4>1 DEF Uncounted, Children
      <4>3. Started' = frame[1].n_started
        BY <2>00, <3>4, <4>1 DEF Started
      <4> QED BY <1>0, <2>0, <2>00, <3>1, <3>2, <3>3, <3>4, <4>1, <4>2, <4>3
              DEF CountInv
    <3>5. ASSUME NEW j \in Empty, j # current, j \in Pid,
                 p_state' = [p_state EXCEPT ![j] = "RUNNABLE"],
                 eax' = [eax EXCEPT ![current] = j, ![j] = 0],
                 pc' = [pc EXCEPT ![current] = "forked", ![j] = "forked"],
                 frame' = [frame EXCEPT ![j] = frame[current]]
          PROVE  CountInv'
      <4>1. j \in Children /\ j > 0 /\ j # 1
        BY <1>0, <3>1, <3>5 DEF Empty, Children, Typed2
      <4>2. /\ pc'[1] = "forked" /\ eax'[1] = j /\ frame'[1] = frame[1]
            /\ pc'[j] = "forked"
            /\ \A c \in Children : c # j =>
                 pc'[c] = pc[c] /\ frame'[c] = frame[c] /\ p_state'[c] = p_state[c]
        BY <1>0, <3>1, <3>5, <4>1 DEF Typed2, Children
      <4>3. Uncounted' \subseteq Uncounted \cup {j}
        BY <3>1, <3>3, <4>2 DEF Uncounted, Children
      <4>4. Cardinality(Uncounted') <= Cardinality(Uncounted) + 1
        BY <4>3, UncountedGrows
      <4>5. Started' = frame[1].n_started + 1
        BY <4>1, <4>2 DEF Started
      <4>6. \A c \in Children : pc'[c] \in {"child", "kill"} =>
              frame'[c].input_counter \in 0 .. Total
        BY <2>0, <4>2
      <4> QED BY <1>0, <2>0, <2>00, <3>1, <3>2, <3>3, <4>2, <4>4, <4>5, <4>6
              DEF CountInv
    <3> QED BY <3>3, <3>4, <3>5
  <2>2. CASE ~MainForks
    <3>1. /\ Cardinality(Uncounted') <= Cardinality(Uncounted)
          /\ current \in Uncounted =>
               Cardinality(Uncounted') <= Cardinality(Uncounted) - 1
      BY <1>3, <2>2, UncountedLess, UncountedShrinks
    <3>2. PICK label \in Labels, f \in Frame : Goto(label, f)
      <4>1. /\ [My EXCEPT !.n_started = 0] \in Frame
            /\ [My EXCEPT !.n_started = @ + 1] \in Frame
            /\ [My EXCEPT !.p = 2] \in Frame
            /\ [My EXCEPT !.p = @ + 1] \in Frame
            /\ [My EXCEPT !.input_counter = counter] \in Frame
            /\ [My EXCEPT !.i = 3] \in Frame
            /\ [My EXCEPT !.i = @ + 2] \in Frame
        <5>1. [My EXCEPT !.n_started = 0] \in Frame
          BY <1>0 DEF Typed2, Frame
        <5>2. [My EXCEPT !.n_started = @ + 1] \in Frame
          BY <1>0 DEF Typed2, Frame
        <5>3. [My EXCEPT !.p = 2] \in Frame
          BY <1>0 DEF Typed2, Frame
        <5>4. [My EXCEPT !.p = @ + 1] \in Frame
          BY <1>0 DEF Typed2, Frame
        <5>5. [My EXCEPT !.input_counter = counter] \in Frame
          BY <1>0 DEF Typed2, Frame
        <5>6. [My EXCEPT !.i = 3] \in Frame
          BY <1>0 DEF Typed2, Frame
        <5>7. [My EXCEPT !.i = @ + 2] \in Frame
          BY <1>0 DEF Typed2, Frame
        <5> QED BY <5>1, <5>2, <5>3, <5>4, <5>5, <5>6, <5>7
      <4>2. {"inner", "waits", "outer", "exited", "child", "kill"} \subseteq Labels
        BY DEF Labels
      <4>3. My \in Frame
        BY <1>0 DEF Typed2
      <4> QED BY <1>3, <2>2, <4>1, <4>2, <4>3
              DEF App2Next, RoundBegins, MainCounts, WaitsBegin, MainWaits, WaitsEnd,
                  MainExits, ChildCounts, ChildKills, ChildEnds, ExitWith
    <3>3. /\ pc' = [pc EXCEPT ![current] = label]
          /\ frame' = [frame EXCEPT ![current] = f]
          /\ pc'[current] = label /\ frame'[current] = f
          /\ \A q \in Pid : q # current => pc'[q] = pc[q] /\ frame'[q] = frame[q]
      BY <1>0, <3>2, Goes DEF Typed2, AppInv
    <3>4. CASE MainSteps
      <4>1. current = 1 /\ MainAtWork /\ 1 \in Pid
        BY <1>0, <1>3, <3>4, TurnOf DEF Typed2
      <4>2. counter' = counter
        BY <2>2, <3>4 DEF MainSteps, RoundBegins, MainCounts, WaitsBegin, MainWaits,
                          WaitsEnd, MainExits, ExitWith
      <4>3. \A c \in Children : pc'[c] = pc[c] /\ frame'[c] = frame[c]
        BY <1>0, <3>3, <4>1 DEF Typed2, Children
      <4>4. CASE RoundBegins
        <5>1. pc[1] = "outer" /\ counter < Total
          BY <4>1, <4>4 DEF RoundBegins, At
        <5>2. Uncounted = {}
          BY <2>0, <5>1 DEF AppInv, App2Inv, ChildrenRest, Uncounted
        <5>3. Cardinality(Uncounted) = 0
          BY <5>2, FS_EmptySet
        <5>4. pc'[1] = "inner" /\ frame'[1].n_started = 0
          BY <1>0, <4>1, <4>4, Goes DEF RoundBegins, AppInv, Typed2, Frame
        <5>5. Started' = 0
          BY <5>4 DEF Started
        <5> QED BY <1>0, <2>0, <2>00, <3>1, <4>2, <4>3, <5>1, <5>3, <5>4, <5>5
                DEF CountInv
      <4>5. CASE MainCounts
        <5>1. pc[1] = "forked" /\ eax[1] > 0
          BY <4>1, <4>5 DEF MainCounts, At, Result
        <5>2. pc'[1] = "inner" /\ frame'[1].n_started = frame[1].n_started + 1
          BY <1>0, <4>1, <4>5, Goes DEF MainCounts, AppInv, Typed2, Frame
        <5>3. Started' = Started /\ Started \in Int
          BY <2>00, <5>1, <5>2 DEF Started
        <5>4. /\ frame'[1].n_started >= 0
              /\ Cardinality(Uncounted') <= Started'
              /\ counter' + Started' <= Total
              /\ counter' + Cardinality(Uncounted') <= Total
          BY <1>0, <2>0, <2>00, <3>1, <4>2, <5>1, <5>2, <5>3
        <5> QED BY <2>0, <4>2, <4>3, <5>4 DEF CountInv
      <4>6. CASE WaitsBegin \/ MainWaits \/ WaitsEnd \/ MainExits
        <5>1. pc'[1] \in {"waits", "outer", "exited"}
          BY <1>0, <4>1, <4>6, Goes
             DEF WaitsBegin, MainWaits, WaitsEnd, MainExits, ExitWith, AppInv, Typed2
        <5> QED BY <1>0, <2>0, <2>00, <3>1, <4>2, <4>3, <5>1 DEF CountInv
      <4> QED BY <2>2, <3>4, <4>4, <4>5, <4>6 DEF MainSteps
    <3>5. CASE ChildSteps
      <4>1. current # 1 /\ ChildRuns /\ current \in Children
        BY <1>3, <3>5, TurnOf
      <4>2. /\ pc[1] \in {"waits", "exited"} /\ pc'[1] = pc[1]
            /\ frame'[1] = frame[1]
            /\ \A c \in Children : c # current =>
                 pc'[c] = pc[c] /\ frame'[c] = frame[c]
        BY <1>0, <2>0, <3>3, <4>1 DEF AppInv, App2Inv, Typed2
      <4>3. CASE ChildCounts
        <5>1. counter' = counter + 1 /\ pc[current] = "forked"
          BY <4>3 DEF ChildCounts, At
        <5>2. current \in Uncounted
          BY <4>1, <5>1 DEF ChildRuns, Uncounted
        <5>3. frame'[current].input_counter = counter
          BY <1>0, <4>1, <4>3, Goes DEF ChildCounts, AppInv, Typed2, Frame
        <5>4. counter \in 0 .. Total
          BY <1>0, <2>0, <2>00
        <5> QED BY <1>0, <2>0, <2>00, <3>1, <4>2, <5>1, <5>2, <5>3, <5>4
                DEF CountInv
      <4>4. CASE ChildKills \/ ChildEnds
        <5>1. counter' = counter
          BY <4>4 DEF ChildKills, ChildEnds, ExitWith
        <5>2. pc'[current] \in {"child", "kill"} =>
                frame'[current].input_counter \in 0 .. Total
          <6>1. CASE ChildKills
            <7>1. pc[current] \in {"child", "kill"}
              BY <6>1 DEF ChildKills, At
            <7>2. frame'[current].input_counter = frame[current].input_counter
              BY <1>0, <6>1, Goes DEF ChildKills, AppInv, Typed2, Frame
            <7> QED BY <2>0, <4>1, <7>1, <7>2
          <6>2. CASE ChildEnds
            <7>1. pc'[current] = "exited"
              BY <1>0, <6>2, Goes DEF ChildEnds, ExitWith, AppInv, Typed2
            <7> QED BY <7>1
          <6> QED BY <4>4, <6>1, <6>2
        <5> QED BY <1>0, <2>0, <2>00, <3>1, <4>2, <5>1, <5>2 DEF CountInv
      <4> QED BY <3>5, <4>3, <4>4 DEF ChildSteps
    <3> QED BY <1>3, <2>2, <3>4, <3>5 DEF App2Next, MainSteps, ChildSteps
  <2> QED BY <2>1, <2>2
<1> QED BY <1>1, <1>2, <1>3 DEF AppNext

LEMMA CountInductive == AppSpec => [](AppInv /\ CountInv)
<1>1. AppInit => CountInv
  <2> SUFFICES ASSUME AppInit, program = 2 PROVE CountInv
    BY DEF CountInv
  <2>1. 1 \in Pid /\ \A c \in Children : c # 1 /\ c \in Pid
    BY NPROCSAssumption DEF Pid, ProcPid, Children
  <2>2. Uncounted = {}
    BY <2>1 DEF AppInit, Init, Uncounted
  <2>3. Cardinality(Uncounted) = 0
    BY <2>2, FS_EmptySet
  <2> QED BY <2>1, <2>3, TotalAssumption DEF AppInit, CountInv
<1>2. AppInv /\ CountInv /\ [AppNext]_<<vars, appVars>> => CountInv'
  BY CountKept
<1> QED BY <1>1, <1>2, AppInductive, PTL DEF AppSpec

(* The applications are one way to use the kernel: what Spec guarantees    *)
(* for arbitrary calls holds for theirs.                                   *)
THEOREM AppsRefineKernel ==
  ASSUME (0 .. Total) \cup {1, 1000} \subseteq Statuses
  PROVE  AppSpec => Spec
<1>1. ASSUME AppInv, CountInv, [AppNext]_<<vars, appVars>>
      PROVE  [Next]_vars
  <2>0. Typed2 /\ NPROCS \in Int /\ 0 \in Statuses /\ 1 \in Statuses
    BY <1>1, BaseTyped2, NPROCSAssumption, TotalAssumption DEF AppInv
  <2>1. CASE UNCHANGED <<vars, appVars>>
    BY <2>1
  <2>2. CASE App1Next
    <3>1. CASE AppWaits
      <4>1. Result \in PidArg
        <5>1. program = 1 /\ pc[current] = "forked" /\ eax[current] > 0
              /\ cpu = "user"
          BY <3>1 DEF AppWaits, At, Result
        <5>2. eax[current] = 2 /\ 2 \in ProcPid
          BY <1>1, <5>1 DEF AppInv, App1Inv, Starting, HasForked, Waiting, Woken,
                            Ended, MainRuns
        <5> QED BY <2>0, <5>2 DEF PidArg, ProcPid, Result
      <4> QED BY <3>1, <4>1 DEF AppWaits, Next
    <3>2. CASE AppExits
      BY <2>0, <3>2 DEF AppExits, ExitWith, Next
    <3> QED BY <2>2, <3>1, <3>2
            DEF App1Next, AppForks, ForkTo, ChildStarts, ChildYields, ChildExits,
                ExitWith, Next
  <2>3. CASE App2Next
    <3>1. CASE MainWaits
      <4>1. current = 1 /\ MainAtWork /\ My.p < NPROCS /\ pc[1] = "waits"
        BY <1>1, <2>3, <3>1, TurnOf DEF MainSteps, MainWaits, At
      <4>2. My.p \in PidArg
        BY <2>0, <4>1 DEF MainAtWork, PidArg, Typed2
      <4> QED BY <3>1, <4>2 DEF MainWaits, Next
    <3>2. CASE ChildKills
      <4>1. CASE /\ At(2, "kill") /\ My.i < NPROCS /\ Kill(My.i)
        <5>1. ChildRuns
          BY <1>1, <2>3, <3>2, TurnOf DEF ChildSteps
        <5>2. My.i \in Int /\ My.i >= 3
          BY <2>0, <4>1, <5>1 DEF ChildRuns, At, Typed2, Frame
        <5>3. My.i \in PidArg
          BY <2>0, <4>1, <5>2 DEF PidArg
        <5> QED BY <4>1, <5>3 DEF Next
      <4> QED BY <3>2, <4>1 DEF ChildKills
    <3>3. CASE ChildEnds
      <4>1. current \in Children /\ pc[current] \in {"child", "kill"} /\ program = 2
        BY <1>1, <2>3, <3>3, TurnOf DEF ChildSteps, ChildEnds, At
      <4>2. My.input_counter \in Statuses
        BY <1>1, <2>0, <4>1 DEF CountInv, Typed2
      <4> QED BY <3>3, <4>2 DEF ChildEnds, ExitWith, Next
    <3> QED BY <2>0, <2>3, <3>1, <3>2, <3>3
            DEF App2Next, RoundBegins, MainForks, ForkTo, MainCounts, WaitsBegin,
                WaitsEnd, MainExits, ExitWith, ChildCounts, Next
  <2> QED BY <1>1, <2>1, <2>2, <2>3 DEF AppNext, vars
<1>2. AppInv /\ CountInv /\ [AppNext]_<<vars, appVars>> => [Next]_vars
  BY <1>1
<1>3. AppInit => Init
  BY DEF AppInit
<1> QED BY <1>2, <1>3, CountInductive, PTL DEF AppSpec, Spec

-----------------------------------------------------------------------------
(* mpos-app2 does not give up (mpos-app2.c:39).                            *)
AllHaveRun == program = 2 /\ p_state[1] = "ZOMBIE" => counter = Total

(* The first fork of a round finds an entry, since the round before leaves *)
(* only entry 2 taken.                                                     *)
ForksSucceed ==
  program = 2 =>
    /\ pc[1] = "inner" /\ frame[1].n_started = 0 =>
         counter < Total /\ OnlyEntryTwo
    /\ pc[1] = "forked" /\ frame[1].n_started = 0 => eax[1] > 0
    /\ p_state[1] = "ZOMBIE" => counter >= Total

LEMMA ForksSucceedKept ==
  ASSUME NPROCS >= 4, AppInv, CountInv, ForksSucceed,
         [AppNext]_<<vars, appVars>>
  PROVE  ForksSucceed'
<1> SUFFICES ASSUME program' = 2 PROVE ForksSucceed'
  BY DEF ForksSucceed
<1>0. Typed2 /\ counter \in Int /\ Total \in Nat
  BY BaseTyped2, TotalAssumption DEF AppInv, AppBase, AppTypeOK
<1>1. CASE UNCHANGED <<vars, appVars>>
  BY <1>1 DEF ForksSucceed, OnlyEntryTwo, vars, appVars
<1>2. CASE App1Next
  <2>1. program' = program /\ program = 1
    BY <1>2 DEF App1Next, AppForks, ChildStarts, ChildYields, ChildExits,
       AppWaits, AppExits, AppEnds, At, ForkTo, Goto, ExitWith
  <2> QED BY <2>1
<1>3. CASE App2Next
  <2>0. /\ program = 2
        /\ pc[1] = "inner" /\ frame[1].n_started = 0 =>
             counter < Total /\ OnlyEntryTwo
        /\ pc[1] = "forked" /\ frame[1].n_started = 0 => eax[1] > 0
        /\ p_state[1] = "ZOMBIE" => counter >= Total
        /\ pc[1] \in {"inner", "forked"} => frame[1].n_started >= 0
    BY <1>3, TurnOf DEF ForksSucceed, CountInv
  <2>1. CASE MainForks
    <3>1. current = 1 /\ cpu = "user" /\ pc[1] = "inner"
      BY <2>1, <1>3, TurnOf DEF MainForks, MainSteps, At
    <3>2. /\ UNCHANGED <<current, counter>>
          /\ pc'[1] = "forked" /\ frame'[1] = frame[1]
          /\ p_state'[1] = p_state[1]
          /\ \/ Empty = {}
             \/ eax'[1] > 0
      <4>1. "forked" \in Labels
        BY DEF Labels
      <4>2. /\ UNCHANGED <<current, counter>>
            /\ \/ /\ Empty = {} /\ UNCHANGED <<p_state, frame>>
                  /\ pc' = [pc EXCEPT ![current] = "forked"]
               \/ \E j \in Empty :
                    /\ j # current /\ j \in Pid
                    /\ p_state' = [p_state EXCEPT ![j] = "RUNNABLE"]
                    /\ eax' = [eax EXCEPT ![current] = j, ![j] = 0]
                    /\ pc' = [pc EXCEPT ![current] = "forked", ![j] = "forked"]
                    /\ frame' = [frame EXCEPT ![j] = frame[current]]
        BY <4>1, <2>1, ForkToEffect DEF MainForks, AppInv
      <4>3. ASSUME NEW j \in Empty, j # current, j \in Pid,
                   p_state' = [p_state EXCEPT ![j] = "RUNNABLE"],
                   eax' = [eax EXCEPT ![current] = j, ![j] = 0],
                   pc' = [pc EXCEPT ![current] = "forked", ![j] = "forked"],
                   frame' = [frame EXCEPT ![j] = frame[current]]
            PROVE  /\ pc'[1] = "forked" /\ frame'[1] = frame[1]
                   /\ p_state'[1] = p_state[1] /\ eax'[1] > 0
        <5>1. j \in Children /\ j > 0 /\ j # 1
          BY <1>0, <3>1, <4>3 DEF Empty, Children, Typed2
        <5> QED BY <1>0, <3>1, <4>3, <5>1 DEF Typed2
      <4>4. CASE /\ Empty = {} /\ UNCHANGED <<p_state, frame>>
                 /\ pc' = [pc EXCEPT ![current] = "forked"]
        BY <1>0, <3>1, <4>2, <4>4 DEF Typed2
      <4> QED BY <4>2, <4>3, <4>4
    <3>3. frame[1].n_started = 0 => Empty # {}
      <4>1. 3 \in Children
        BY <1>0 DEF Children, ProcPid, Typed2
      <4> QED BY <2>0, <3>1, <4>1 DEF OnlyEntryTwo, Empty, Children
    <3> QED BY <2>0, <3>2, <3>3 DEF ForksSucceed
  <2>2. CASE ~MainForks
    <3>0. p_state'[1] = "ZOMBIE" => p_state[1] = "ZOMBIE" \/ MainExits
      BY <1>3, <2>2, NoneStarted
    <3>1. CASE RoundBegins
      <4>1. /\ current = 1 /\ pc[1] = "outer" /\ counter < Total
            /\ counter' = counter /\ p_state' = p_state
        BY <1>3, <3>1, TurnOf DEF MainSteps, RoundBegins, At, vars
      <4>2. pc'[1] = "inner"
        BY <1>0, <3>1, <4>1, Goes DEF RoundBegins, AppInv, Typed2
      <4>3. OnlyEntryTwo'
        BY <2>0, <4>1 DEF AppInv, App2Inv, OnlyEntryTwo
      <4> QED BY <2>0, <4>1, <4>2, <4>3 DEF ForksSucceed
    <3>2. CASE MainCounts
      <4>1. /\ current = 1 /\ pc[1] = "forked"
            /\ counter' = counter /\ p_state' = p_state
        BY <1>3, <3>2, TurnOf DEF MainSteps, MainCounts, At, vars
      <4>2. pc'[1] = "inner" /\ frame'[1].n_started = frame[1].n_started + 1
        BY <1>0, <3>2, <4>1, Goes DEF MainCounts, AppInv, Typed2, Frame
      <4>3. frame'[1].n_started # 0
        BY <1>0, <2>0, <4>1, <4>2 DEF Typed2, Frame
      <4> QED BY <2>0, <4>1, <4>2, <4>3 DEF ForksSucceed
    <3>3. CASE WaitsBegin \/ MainWaits \/ WaitsEnd
      <4>1. current = 1
        BY <1>3, <3>3, TurnOf DEF MainSteps
      <4>2. pc'[1] \in {"waits", "outer"}
        BY <1>0, <3>3, <4>1, Goes
           DEF WaitsBegin, MainWaits, WaitsEnd, AppInv, Typed2
      <4>3. counter' = counter /\ ~MainExits
        BY <1>0, <3>3, <4>1, <4>2, Goes
           DEF WaitsBegin, MainWaits, WaitsEnd, MainExits, ExitWith, AppInv, Typed2
      <4> QED BY <2>0, <3>0, <4>2, <4>3 DEF ForksSucceed
    <3>4. CASE MainExits
      <4>1. current = 1
        BY <1>3, <3>4, TurnOf DEF MainSteps
      <4>2. pc'[1] = "exited" /\ counter' = counter
        BY <1>0, <3>4, <4>1, Goes DEF MainExits, ExitWith, AppInv, Typed2
      <4>3. counter >= Total
        <5>1. CASE At(2, "outer") /\ counter >= Total
          BY <5>1
        <5>2. CASE InnerEnds /\ My.n_started = 0
          <6>1. My.n_started = frame[1].n_started /\ eax[1] \in Int
            BY <1>0, <4>1 DEF Typed2
          <6> QED BY <1>0, <2>0, <4>1, <5>2, <6>1 DEF InnerEnds, At, Result
        <5> QED BY <3>4, <5>1, <5>2 DEF MainExits, MainEnds
      <4> QED BY <4>2, <4>3 DEF ForksSucceed
    <3>5. CASE ChildSteps
      <4>1. current # 1
        BY <1>3, <3>5, TurnOf
      <4>2. pc'[1] = pc[1] /\ pc[1] \in {"waits", "exited"} /\ ~MainExits
        <5>1. \E label, f : Goto(label, f)
          BY <3>5 DEF ChildSteps, ChildCounts, ChildKills, ChildEnds, ExitWith
        <5>2. pc'[1] = pc[1]
          BY <1>0, <4>1, <5>1, Goes DEF AppInv, Typed2
        <5>3. ~MainExits
          BY <1>3, <4>1, TurnOf DEF MainSteps
        <5> QED BY <2>0, <4>1, <5>2, <5>3 DEF AppInv, App2Inv
      <4>3. counter' >= counter /\ counter' \in Int
        BY <1>0, <3>5 DEF ChildSteps, ChildCounts, ChildKills, ChildEnds, ExitWith
      <4> QED BY <1>0, <2>0, <3>0, <4>2, <4>3 DEF ForksSucceed
    <3> QED BY <1>3, <2>2, <3>1, <3>2, <3>3, <3>4, <3>5 DEF App2Next, ChildSteps
  <2> QED BY <2>1, <2>2
<1> QED BY <1>1, <1>2, <1>3 DEF AppNext

(* When the main process of mpos-app2 ends, exactly Total processes have   *)
(* increased the counter: the safety half of MainFinishes.  With three     *)
(* entries it gives up, the zombie of entry 2 filling the table.           *)
THEOREM AllProcessesRun ==
  ASSUME NPROCS >= 4
  PROVE  AppSpec => []AllHaveRun
<1>1. AppInit => ForksSucceed
  <2>1. 1 \in Pid
    BY NPROCSAssumption DEF Pid
  <2> QED BY <2>1 DEF AppInit, Init, ForksSucceed
<1>2. AppInv /\ CountInv /\ ForksSucceed /\ [AppNext]_<<vars, appVars>>
        => ForksSucceed'
  BY ForksSucceedKept
<1>3. AppInv /\ CountInv /\ ForksSucceed => AllHaveRun
  <2> SUFFICES ASSUME AppInv, CountInv, ForksSucceed, program = 2,
                      p_state[1] = "ZOMBIE"
               PROVE  counter = Total
    BY DEF AllHaveRun
  <2>1. counter \in Int /\ Total \in Int /\ Cardinality(Uncounted) \in Nat
    BY TotalAssumption, UncountedFinite DEF AppInv, AppBase, AppTypeOK
  <2> QED BY <2>1 DEF ForksSucceed, CountInv
<1> QED BY <1>1, <1>2, <1>3, CountInductive, PTL DEF AppSpec

(* Whatever an application's place in its program, each of its processes   *)
(* runs on the stack region of its own pid, so no two share one.           *)
THEOREM AppStacksPrivate == AppSpec => []OwnStack
<1>1. AppInv => OwnStack
  BY DEF AppInv, AppBase
<1> QED BY <1>1, AppInductive, PTL
=============================================================================
