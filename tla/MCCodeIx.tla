------------------------------ MODULE MCCodeIx ------------------------------
(* CodeIx on a small instance.                                             *)
EXTENDS CodeIx, TLC

ProcSymmetry == Permutations(Procs)
=============================================================================
