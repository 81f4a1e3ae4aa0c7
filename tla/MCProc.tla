------------------------------- MODULE MCProc -------------------------------
(* Instances of XvProc for TLC. *)
EXTENDS XvProc, TLC

\* Processors are interchangeable.
Symm == Permutations(CPUs)
=============================================================================
