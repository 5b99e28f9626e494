------------------------------ MODULE MCAddTest -----------------------------
(* Model values for the run of addtest.                                    *)
EXTENDS AddTest

CONSTANTS t1, t2, t3

MCThreads == {t1, t2, t3}
=============================================================================
