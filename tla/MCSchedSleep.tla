---------------------------- MODULE MCSchedSleep -----------------------------
(* Schedulers and threads for TLC.                                         *)
EXTENDS SchedSleep, TLC

CONSTANTS s1, s2, w1

SchedulerSymmetry == Permutations(Schedulers)
=============================================================================
