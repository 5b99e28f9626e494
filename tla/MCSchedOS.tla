----------------------------- MODULE MCSchedOS ------------------------------
(* Model values for the runs of SchedOS: priorities and shares as start()  *)
(* sets them up, for one process less.                                     *)
EXTENDS SchedOS

MCFirstPriority == [p \in ProcPid |-> IF p = NPROCS-1 THEN 2 ELSE 1]
MCFirstShare == [p \in ProcPid |-> p]
MCPriorityArgs == [p \in ProcPid |-> IF p = NPROCS-1 THEN {0, 2} ELSE {}]

(* No two processes ever have the same share.                              *)
MCShareArgs == [p \in ProcPid |-> IF p = 1 THEN {1, 4} ELSE {p}]

(* All have the same share.                                                *)
MCEqualShare == [p \in ProcPid |-> 2]
(* Words inside the table, beside it on either side, and far from it.      *)
MCFirstWords == (-5 .. 5) \cup {-2147483647, 2147483647}

MCNoArgs == [p \in ProcPid |-> {}]
=============================================================================
