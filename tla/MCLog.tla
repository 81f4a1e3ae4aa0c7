------------------------------- MODULE MCLog -------------------------------
(* Instances of XvLog for TLC: the constants come from the .cfg files. *)
EXTENDS XvLog, TLC

\* Processes are interchangeable, so are blocks and their contents: no action or
\* invariant names one.  Sound for safety runs only.
Symm == Permutations(Procs) \cup Permutations(Blocks) \cup Permutations(Vals)
=============================================================================
