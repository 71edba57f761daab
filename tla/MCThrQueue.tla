----------------------------- MODULE MCThrQueue -----------------------------
(* Small instances of ThrQueue.                                            *)
EXTENDS ThrQueue
=============================================================================
