--------------------------- MODULE MCThrProgress ----------------------------
(* Small instances of ThrProgress.                                         *)
EXTENDS ThrProgress
=============================================================================
