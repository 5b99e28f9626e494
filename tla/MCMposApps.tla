----------------------------- MODULE MCMposApps -----------------------------
(* The applications of MiniprocOS with the sizes of mpos.h, mpos-app.c and *)
(* mpos-app2.c.                                                            *)
EXTENDS MposApps

MCStatuses == 0 .. 1025
MCPrograms == {AppCalls}
=============================================================================
