-------------------------------- MODULE Tally -------------------------------
(***************************************************************************)
(* What lab4/addtest.c promises of its shared counter: every thread adds   *)
(* one Iterations times and then subtracts one as often, and each of these *)
(* operations takes effect at once, on the counter's present value.        *)
(***************************************************************************)
EXTENDS Integers

CONSTANTS Threads, Iterations

VARIABLES
  counter,
  done        \* done[t]: how many operations of thread t have taken effect

Operations == 2 * Iterations

(* The operation a thread makes when k of its operations are over.         *)
Delta(k) == IF k < Iterations THEN 1 ELSE -1

Init ==
  /\ counter = 0
  /\ done = [t \in Threads |-> 0]

Add(t) ==
  /\ done[t] < Operations
  /\ counter' = counter + Delta(done[t])
  /\ done' = [done EXCEPT ![t] = @ + 1]

Next == \E t \in Threads : Add(t)

vars == <<counter, done>>

Spec == Init /\ [][Next]_vars

LiveSpec == Spec /\ \A t \in Threads : WF_vars(Add(t))
=============================================================================
