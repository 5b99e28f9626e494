------------------------------- MODULE MposApps -----------------------------
(***************************************************************************)
(* The two applications of MiniprocOS on its kernel: mpos-app.c, whose     *)
(* child yields while the main process waits for it, and mpos-app2.c,      *)
(* which starts Total processes although the table has fewer entries.      *)
(*                                                                         *)
(* A process keeps its place in the program (pc, standing for %eip) and,   *)
(* in its stack region, the locals of start() and run_child().  Nothing    *)
(* preempts a process, so code between two system calls is not divided;    *)
(* app_printf, whose sys_getpid only overwrites %eax, is left out.         *)
(***************************************************************************)
EXTENDS Mpos, FiniteSets

CONSTANTS
  Total,    \* 1025, the processes that mpos-app2 wants to have run
  Yields    \* 20, how often the child of mpos-app yields

ASSUME TotalAssumption == Total \in Nat
ASSUME YieldsAssumption == Yields \in Nat

VARIABLES
  program,  \* the digit typed at the prompt of start()
  counter,  \* mpos-app2's global
  pc,
  frame     \* frame[r]: the locals in stack region r

appVars == <<program, counter, pc, frame>>

Locals == [checker |-> 0, p |-> 0, n_started |-> 0, input_counter |-> 0,
           i |-> 0]

(* The system calls that stand in the two applications.                    *)
AppCalls == AllCalls \ {"NEWTHREAD", "USER"}

AppInit ==
  /\ Init /\ calls = AppCalls
  /\ program \in {1, 2}
  /\ counter = 0
  /\ pc = [p \in Pid |-> IF program = 1 THEN "start" ELSE "outer"]
  /\ frame = [r \in Pid |-> Locals]

At(prog, label) == cpu = "user" /\ program = prog /\ pc[current] = label
My == frame[stack[current]]
Result == eax[current]

(* Go on at a label, with the locals f.                                    *)
Goto(label, f) ==
  /\ pc' = [pc EXCEPT ![current] = label]
  /\ frame' = [frame EXCEPT ![stack[current]] = f]
  /\ UNCHANGED program

(* sys_fork(): the child has the caller's registers and a copy of its stack*)
ForkTo(label, f) ==
  /\ Fork
  /\ LET Born == {j \in ProcPid : p_state[j] = "EMPTY" /\ p_state'[j] # "EMPTY"}
     IN  /\ pc' = [p \in Pid |-> IF p \in Born \cup {current} THEN label
                                 ELSE pc[p]]
         /\ frame' = [r \in Pid |->
              IF r = stack[current] \/ \E j \in Born : r = stack'[j] THEN f
              ELSE frame[r]]
  /\ UNCHANGED <<program, counter>>

ExitWith(status) == Exit(status) /\ Goto("exited", My) /\ UNCHANGED counter

-----------------------------------------------------------------------------
(* mpos-app.c                                                              *)
AppForks == At(1, "start") /\ ForkTo("forked", My)

ChildStarts ==
  /\ At(1, "forked") /\ Result = 0
  /\ Goto("yield", [My EXCEPT !.checker = 1, !.i = 0])
  /\ UNCHANGED <<vars, counter>>

ChildYields ==
  /\ At(1, "yield") /\ My.i < Yields
  /\ Yield /\ Goto("yield", [My EXCEPT !.i = @ + 1])
  /\ UNCHANGED counter

ChildExits == At(1, "yield") /\ My.i = Yields /\ ExitWith(1000)

AppWaits ==
  /\ At(1, "forked") /\ Result > 0
  /\ Wait(Result) /\ Goto("waited", [My EXCEPT !.p = Result])
  /\ UNCHANGED counter

(* The fork has failed, or the child's status has been printed.            *)
AppEnds == At(1, "waited") \/ (At(1, "forked") /\ Result < 0)

AppExits ==
  /\ AppEnds
  /\ ExitWith(IF pc[current] = "forked" \/ My.checker # 0 THEN 1 ELSE 0)

-----------------------------------------------------------------------------
(* mpos-app2.c, start()                                                    *)
RoundBegins ==
  /\ At(2, "outer") /\ counter < Total
  /\ Goto("inner", [My EXCEPT !.n_started = 0])
  /\ UNCHANGED <<vars, counter>>

MainForks ==
  /\ At(2, "inner") /\ counter + My.n_started < Total
  /\ ForkTo("forked", My)

MainCounts ==
  /\ At(2, "forked") /\ Result > 0
  /\ Goto("inner", [My EXCEPT !.n_started = @ + 1])
  /\ UNCHANGED <<vars, counter>>

(* The inner loop is over; with nothing started the program gives up.      *)
InnerEnds ==
  \/ At(2, "inner") /\ counter + My.n_started >= Total
  \/ At(2, "forked") /\ Result < 0

WaitsBegin ==
  /\ InnerEnds /\ My.n_started # 0
  /\ Goto("waits", [My EXCEPT !.p = 2])
  /\ UNCHANGED <<vars, counter>>

MainWaits ==
  /\ At(2, "waits") /\ My.p < NPROCS
  /\ Wait(My.p) /\ Goto("waits", [My EXCEPT !.p = @ + 1])
  /\ UNCHANGED counter

WaitsEnd ==
  /\ At(2, "waits") /\ My.p = NPROCS
  /\ Goto("outer", My)
  /\ UNCHANGED <<vars, counter>>

MainEnds ==
  \/ At(2, "outer") /\ counter >= Total
  \/ InnerEnds /\ My.n_started = 0

MainExits == MainEnds /\ ExitWith(0)

(* run_child()                                                             *)
ChildCounts ==
  /\ At(2, "forked") /\ Result = 0
  /\ counter' = counter + 1
  /\ GetPid /\ Goto("child", [My EXCEPT !.input_counter = counter])

ChildKills ==
  \/ /\ At(2, "child") /\ Result % 2 = 0
     /\ Goto("kill", [My EXCEPT !.i = 3])
     /\ UNCHANGED <<vars, counter>>
  \/ /\ At(2, "kill") /\ My.i < NPROCS
     /\ Kill(My.i) /\ Goto("kill", [My EXCEPT !.i = @ + 2])
     /\ UNCHANGED counter

ChildEnds ==
  /\ \/ At(2, "child") /\ Result % 2 # 0
     \/ At(2, "kill") /\ My.i >= NPROCS
  /\ ExitWith(My.input_counter)

App1Next == AppForks \/ ChildStarts \/ ChildYields \/ ChildExits \/ AppWaits \/ AppExits

App2Next ==
  \/ RoundBegins \/ MainForks \/ MainCounts \/ WaitsBegin \/ MainWaits
  \/ WaitsEnd \/ MainExits
  \/ ChildCounts \/ ChildKills \/ ChildEnds

AppNext == App1Next \/ App2Next

(* The processor executes the program as long as there is one to execute.  *)
AppSpec == AppInit /\ [][AppNext]_<<vars, appVars>> /\ WF_<<vars, appVars>>(AppNext)

-----------------------------------------------------------------------------
(* Every process an application starts finds a place although the table  *)
(* is full most of the time: the main process comes to its last line, and  *)
(* mpos-app2 not because it has given up (mpos-app2.c:39).                 *)
MainFinishes ==
  <>(p_state[1] = "ZOMBIE" /\ (program = 2 => counter = Total))

(* sys_wait gives mpos-app the status of its child, which has left the     *)
(* main process's stack alone (mpos-app.c:41, 51).                         *)
ChildStatusArrives ==
  p_state[1] = "RUNNABLE" /\ pc[1] = "waited" =>
    eax[1] = 1000 /\ frame[stack[1]].checker = 0

(* When mpos-app2 begins a round of forks, nothing is left of the last     *)
(* round but at most one zombie: the one for which main had to block.      *)
RoundsLeaveOneZombie ==
  program = 2 /\ pc[1] = "outer" =>
    /\ \A p \in Pid \ {1} : p_state[p] \in {"EMPTY", "ZOMBIE"}
    /\ Cardinality({p \in Pid \ {1} : p_state[p] = "ZOMBIE"}) <= 1
=============================================================================
