------------------------------- MODULE MCMpos -------------------------------
(* Model values for the runs of the MiniprocOS kernel.                     *)
EXTENDS Mpos

(* The calls the assignment started with, sys_getpid aside.                *)
MCCallsWait == {"FORK", "YIELD", "EXIT", "WAIT"}

MCPrograms == {AllCalls, MCCallsWait}
MCWaitOnly == {MCCallsWait}

(* The kernel never reads %eax but for the argument of a call, nor the     *)
(* fields of an entry that its state makes stale, so states that differ    *)
(* in these alone have the same future.                                    *)
MCView ==
  <<p_state, current, cpu, calls,
    [p \in Pid |-> IF p_state[p] = "EMPTY" THEN 0 ELSE stack[p]],
    [p \in Pid |-> IF p_state[p] = "ZOMBIE" THEN p_exit_status[p] ELSE 0],
    [p \in Pid |-> IF p_state[p] = "BLOCKED" THEN p_waitOn[p] ELSE 0]>>
=============================================================================
