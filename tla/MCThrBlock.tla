----------------------------- MODULE MCThrBlock -----------------------------
(* Small instances of ThrBlock.                                            *)
EXTENDS ThrBlock
=============================================================================
