----------------------------- MODULE MCProcLock ------------------------------
(* Threads and processes for TLC: one thread uses all locks, one locks both *)
(* processes, one a single lock.                                            *)
EXTENDS ProcLock, TLC

CONSTANTS t1, t2, t3

OneToAll ==
  t1 :> <<{0, 1}, {0, 1}>> @@ t2 :> <<{0}, {0, 1}>> @@ t3 :> <<{}, {1}>>
=============================================================================
