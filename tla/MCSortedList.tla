---------------------------- MODULE MCSortedList ----------------------------
(* Model values for the runs of sltest.c: two threads with two elements    *)
(* each, equal keys, and two lists with keys of both threads.              *)
EXTENDS SortedList
CONSTANTS t1, t2

MCThreads == {t1, t2}
MCKey == [e \in Elements |-> IF e[1] = t1 THEN e[2] ELSE IF e[2] = 0 THEN 2 ELSE 0]
MCHash == [k \in 0 .. 2 |-> k % NLists]
=============================================================================
