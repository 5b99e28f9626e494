-------------------------------- MODULE Mpos --------------------------------
(***************************************************************************)
(* The MiniprocOS kernel, weensyos1-sunnie/mpos-kern.c: the process table, *)
(* the system calls and the cooperative scheduler.                         *)
(*                                                                         *)
(* The kernel runs with interrupts off on one processor, so a whole system *)
(* call, from the copy of the registers to run(), is one action.  The      *)
(* application is whatever calls the processes may make: every action but  *)
(* Init is a call of the process that `current' points to.                 *)
(*                                                                         *)
(* Of the registers the model keeps %eax, which carries the argument into  *)
(* a call and the result out of it, and, of %esp, the number of the stack  *)
(* region it points into.  Region p is the one whose top is                *)
(* PROC1_STACK_ADDR + p * PROC_STACK_SIZE.                                 *)
(***************************************************************************)
EXTENDS Integers

CONSTANTS
  NPROCS,      \* size of proc_array; entry 0 is never used
  Statuses,    \* the statuses the applications pass to sys_exit
  Programs     \* the applications: for each, the system calls it makes

AllCalls == {"GETPID", "FORK", "YIELD", "EXIT", "WAIT", "KILL", "NEWTHREAD",
             "USER"}

ASSUME NPROCSAssumption == NPROCS \in Nat /\ NPROCS >= 2
ASSUME StatusesAssumption == Statuses \subseteq Int
ASSUME ProgramsAssumption == Programs \subseteq SUBSET AllCalls

VARIABLES
  p_state,        \* proc_array[p].p_state
  eax,            \* proc_array[p].p_registers.reg_eax
  stack,          \* the stack region proc_array[p].p_registers.reg_esp is in
  p_exit_status,
  p_waitOn,
  current,        \* the pid of the process `current' points to
  cpu,            \* what the processor is doing
  calls           \* the system calls made by the application loaded at boot

vars == <<p_state, eax, stack, p_exit_status, p_waitOn, current, cpu, calls>>

Pid     == 0 .. NPROCS-1
ProcPid == 1 .. NPROCS-1       \* the entries the kernel's loops visit
PidArg  == -1 .. NPROCS        \* what an application may name as a process

States == {"EMPTY", "RUNNABLE", "BLOCKED", "ZOMBIE"}

(* "user": `current' executes application code.  "spin": schedule() found  *)
(* nothing runnable and loops.  "hang": an unknown interrupt number.       *)
(* "wild": a stack was copied over memory that is not a stack.             *)
CpuModes == {"user", "spin", "hang", "wild"}

TypeOK ==
  /\ p_state \in [Pid -> States]
  /\ eax \in [Pid -> Int]
  /\ stack \in [Pid -> Pid]
  /\ p_exit_status \in [Pid -> Int]
  /\ p_waitOn \in [Pid -> Pid]
  /\ current \in ProcPid
  /\ cpu \in CpuModes
  /\ calls \in Programs

(***************************************************************************)
(* start(): the table is cleared and process 1 runs on stack 1, with the   *)
(* application it was given.                                               *)
(***************************************************************************)
Init ==
  /\ p_state = [p \in Pid |-> IF p = 1 THEN "RUNNABLE" ELSE "EMPTY"]
  /\ eax = [p \in Pid |-> 0]
  /\ stack = [p \in Pid |-> IF p = 1 THEN 1 ELSE 0]
  /\ p_exit_status = [p \in Pid |-> 0]
  /\ p_waitOn = [p \in Pid |-> 0]
  /\ current = 1
  /\ cpu = "user"
  /\ calls \in Programs

(* The process that runs makes system call c.                              *)
Call(c) == cpu = "user" /\ c \in calls /\ UNCHANGED calls

(***************************************************************************)
(* schedule(): the first runnable process after `current', in cyclic       *)
(* order, gets the processor; `current' itself comes last.  If there is    *)
(* none the loop never ends.                                               *)
(***************************************************************************)
(* Fault: the search restarts at entry 1 each time.                        *)
AfterZero(p, k) == k % NPROCS

After(p, k) == (p + k) % NPROCS

Schedule ==
  \/ \E k \in 1 .. NPROCS :
       /\ p_state'[After(current, k)] = "RUNNABLE"
       /\ \A i \in 1 .. k-1 : p_state'[After(current, i)] # "RUNNABLE"
       /\ current' = After(current, k)
       /\ cpu' = "user"
  \/ /\ \A p \in Pid : p_state'[p] # "RUNNABLE"
     /\ current' = current
     /\ cpu' = "spin"

(* run(current): the caller goes on.                                       *)
Resume == UNCHANGED <<current, cpu>>

(* Fault: the wake-up loop starts one entry too late.                      *)
WaitersPastMain(p) ==
  {q \in ProcPid \ {1} : p_state[q] = "BLOCKED" /\ p_waitOn[q] = p}

(* The processes blocked in sys_wait(p).                                   *)
Waiters(p) == {q \in ProcPid : p_state[q] = "BLOCKED" /\ p_waitOn[q] = p}

-----------------------------------------------------------------------------
GetPid ==
  /\ Call("GETPID")
  /\ eax' = [eax EXCEPT ![current] = current]
  /\ Resume
  /\ UNCHANGED <<p_state, stack, p_exit_status, p_waitOn>>

(* do_fork() and create_thread() take the first empty entry.               *)
Empty == {p \in ProcPid : p_state[p] = "EMPTY"}
FirstEmpty(j) == j \in Empty /\ \A p \in Empty : j <= p

TableFull ==
  /\ Empty = {}
  /\ eax' = [eax EXCEPT ![current] = -1]
  /\ Resume
  /\ UNCHANGED <<p_state, stack, p_exit_status, p_waitOn>>

(* The new process j is runnable on stack region r; its %eax is 0.         *)
Spawn(j, r) ==
  /\ p_state' = [p_state EXCEPT ![j] = "RUNNABLE"]
  /\ eax' = [eax EXCEPT ![current] = j, ![j] = 0]
  /\ stack' = [stack EXCEPT ![j] = r]
  /\ Resume
  /\ UNCHANGED <<p_exit_status, p_waitOn>>

(***************************************************************************)
(* copy_stack() measures the caller's stack from the top of the region     *)
(* that its pid names, and puts the copy as far below the top of the       *)
(* child's region.  A caller that runs on another region than its own      *)
(* (see NewThread) moves the child's by the same distance.  With %esp      *)
(* above the assumed top, the unsigned length wraps around; with the       *)
(* child's %esp below region 1 the copy lands on the application and the   *)
(* kernel.                                                                 *)
(***************************************************************************)
(* Faults: the child stays on the caller's stack; its top is one too high. *)
CallerStack(j) == stack[current]
ChildStackHigh(j) == (j + 1) - (current - stack[current])

ChildStack(j) == j - (current - stack[current])

Fork ==
  /\ Call("FORK")
  /\ \/ TableFull
     \/ \E j \in ProcPid :
          /\ FirstEmpty(j)
          /\ stack[current] <= current /\ ChildStack(j) >= 1
          /\ Spawn(j, ChildStack(j))
     \/ \E j \in ProcPid :
          /\ FirstEmpty(j)
          /\ stack[current] > current \/ ChildStack(j) < 1
          /\ cpu' = "wild"
          /\ UNCHANGED <<p_state, eax, stack, p_exit_status, p_waitOn, current>>

(* create_thread() copies every register, %esp included.                   *)
NewThread ==
  /\ Call("NEWTHREAD")
  /\ \/ TableFull
     \/ \E j \in ProcPid : FirstEmpty(j) /\ Spawn(j, stack[current])

Yield ==
  /\ Call("YIELD")
  /\ UNCHANGED <<p_state, eax, stack, p_exit_status, p_waitOn>>
  /\ Schedule

(* Every waiter is woken with the status; the entry stays a zombie.        *)
Exit(status) ==
  /\ Call("EXIT")
  /\ p_state' = [p \in Pid |-> IF p \in Waiters(current) THEN "RUNNABLE"
                               ELSE IF p = current THEN "ZOMBIE"
                               ELSE p_state[p]]
  /\ eax' = [p \in Pid |-> IF p \in Waiters(current) \cup {current} THEN status
                           ELSE eax[p]]
  /\ p_exit_status' = [p_exit_status EXCEPT ![current] = status]
  /\ UNCHANGED <<stack, p_waitOn>>
  /\ Schedule

Existing == {p \in ProcPid : p_state[p] # "EMPTY"}

WaitInvalid(p) ==
  /\ p \notin Existing \ {current}
  /\ eax' = [eax EXCEPT ![current] = -1]
  /\ UNCHANGED <<p_state, p_waitOn>>

(* Fault: the status is returned, but the entry stays taken.               *)
WaitKeepsZombie(p) ==
  /\ p \in Existing \ {current} /\ p_state[p] = "ZOMBIE"
  /\ eax' = [eax EXCEPT ![current] = p_exit_status[p]]
  /\ UNCHANGED <<p_state, p_waitOn>>

WaitReaps(p) ==
  /\ p \in Existing \ {current} /\ p_state[p] = "ZOMBIE"
  /\ eax' = [eax EXCEPT ![current] = p_exit_status[p]]
  /\ p_state' = [p_state EXCEPT ![p] = "EMPTY"]
  /\ UNCHANGED p_waitOn

WaitBlocks(p) ==
  /\ p \in Existing \ {current} /\ p_state[p] # "ZOMBIE"
  /\ eax' = [eax EXCEPT ![current] = p]
  /\ p_state' = [p_state EXCEPT ![current] = "BLOCKED"]
  /\ p_waitOn' = [p_waitOn EXCEPT ![current] = p]

(* All three outcomes of sys_wait() end in schedule().                     *)
Wait(p) ==
  /\ Call("WAIT")
  /\ WaitInvalid(p) \/ WaitReaps(p) \/ WaitBlocks(p)
  /\ UNCHANGED <<stack, p_exit_status>>
  /\ Schedule

KillInvalid(p) ==
  /\ p \notin Existing
  /\ eax' = [eax EXCEPT ![current] = -1]
  /\ UNCHANGED <<p_state, p_exit_status>>

(* Fault: the entry is freed although nobody has collected the status.     *)
KillFrees(p) ==
  /\ p \in Existing
  /\ p_state' = [q \in Pid |-> IF q \in Waiters(p) \ {p} THEN "RUNNABLE"
                               ELSE IF q = p THEN "EMPTY"
                               ELSE p_state[q]]
  /\ p_exit_status' = [p_exit_status EXCEPT ![p] = 1]
  /\ eax' = [eax EXCEPT ![current] = 0]

(* The waiters become runnable with what %eax held when they called        *)
(* sys_wait(), which is p; the target may be the caller, process 1 or      *)
(* already a zombie.                                                       *)
KillTarget(p) ==
  /\ p \in Existing
  /\ p_state' = [q \in Pid |-> IF q \in Waiters(p) \ {p} THEN "RUNNABLE"
                               ELSE IF q = p THEN "ZOMBIE"
                               ELSE p_state[q]]
  /\ p_exit_status' = [p_exit_status EXCEPT ![p] = 1]
  /\ eax' = [eax EXCEPT ![current] = 0]

Kill(p) ==
  /\ Call("KILL")
  /\ KillInvalid(p) \/ KillTarget(p)
  /\ Resume
  /\ UNCHANGED <<stack, p_waitOn>>

(* The default case of interrupt().                                        *)
UserInterrupt ==
  /\ Call("USER")
  /\ cpu' = "hang"
  /\ UNCHANGED <<p_state, eax, stack, p_exit_status, p_waitOn, current>>

-----------------------------------------------------------------------------
Next ==
  \/ GetPid
  \/ Fork
  \/ NewThread
  \/ Yield
  \/ \E status \in Statuses : Exit(status)
  \/ \E p \in PidArg : Wait(p)
  \/ \E p \in PidArg : Kill(p)
  \/ UserInterrupt

Spec == Init /\ [][Next]_vars

(***************************************************************************)
(* The processor is shared cooperatively (mpos-kern.c:159): every process  *)
(* that runs sooner or later makes a call that ends in schedule().         *)
(***************************************************************************)
Relinquish ==
  \/ Yield
  \/ \E status \in Statuses : Exit(status)
  \/ \E p \in PidArg : Wait(p)

FairSpec == Spec /\ WF_vars(Relinquish)

-----------------------------------------------------------------------------
(* Entry 0 is never a process, and the entry that runs is one: runnable,   *)
(* or a zombie that has killed itself.                                     *)
RunningEntry ==
  /\ p_state[0] = "EMPTY"
  /\ p_state[current] # "EMPTY"
  /\ cpu = "user" => p_state[current] \in {"RUNNABLE", "ZOMBIE"}

(* A blocked process waits for another process that has not yet exited or  *)
(* been killed, so the call that ends the wait is still to come: sys_wait  *)
(* and the two wake-up loops of interrupt() never miss one another.        *)
NoLostWakeup ==
  \A p \in Pid : p_state[p] = "BLOCKED" =>
    /\ p_waitOn[p] \in ProcPid \ {p}
    /\ p_state[p_waitOn[p]] \in {"RUNNABLE", "BLOCKED"}

(* schedule() spins only when the processes that are left wait for one     *)
(* another: nobody is runnable, and who is blocked waits for the blocked.  *)
SpinMeansStuck ==
  cpu = "spin" => \A p \in Pid :
    /\ p_state[p] # "RUNNABLE"
    /\ p_state[p] = "BLOCKED" => p_state[p_waitOn[p]] = "BLOCKED"

(* A process leaves the table only as a zombie whose exit status goes, in  *)
(* the same step, to another process: no pid is reused before that.        *)
ReapedWithStatus ==
  [][\A p \in Pid : p_state[p] # "EMPTY" /\ p_state'[p] = "EMPTY" =>
       /\ p_state[p] = "ZOMBIE" /\ p # current
       /\ eax'[current] = p_exit_status[p]]_vars

(* No two live processes have their stack in one region: copy_stack puts   *)
(* the child's into the region that belongs to its pid, after any chain of *)
(* forks and whatever became of the entry's last owner.  Threads share     *)
(* their creator's region, so this is about applications without them.     *)
Live(p) == p_state[p] \in {"RUNNABLE", "BLOCKED"}

StacksPrivate ==
  "NEWTHREAD" \notin calls =>
    \A p, q \in ProcPid : Live(p) /\ Live(q) /\ p # q => stack[p] # stack[q]

(* In an application that does not use sys_kill, sys_wait returns the exit *)
(* status of the process waited for also to a caller that had to block, be *)
(* there one such caller or several.                                       *)
WaiterGetsStatus ==
  [][\A p \in ProcPid :
       /\ "KILL" \notin calls
       /\ p_state[p] = "BLOCKED" /\ p_state'[p] = "RUNNABLE"
       => eax'[p] = p_exit_status'[p_waitOn[p]]]_vars

(* "If two processes call sys_wait(pid) for the same pid, only one of them *)
(* will return the actual exit status" (mpos-app.h:143): no step answers   *)
(* two waits for one process.                                              *)
Answered(p) ==
  p_state[p] = "BLOCKED" /\ p_state'[p] = "RUNNABLE" /\
  eax'[p] = p_exit_status'[p_waitOn[p]]

StatusGivenOnce ==
  [][\A p, q \in ProcPid :
       p_waitOn[p] = p_waitOn[q] /\ Answered(p) /\ Answered(q) => p = q]_vars

(* With every process cooperating, schedule() starves nobody: a runnable   *)
(* process gets the processor unless it is killed first, or the machine    *)
(* stops on an unknown interrupt or a wild copy.                           *)
RunnableRuns ==
  \A p \in ProcPid : p_state[p] = "RUNNABLE" ~>
    (current = p \/ p_state[p] # "RUNNABLE" \/ cpu \in {"hang", "wild"})
=============================================================================
