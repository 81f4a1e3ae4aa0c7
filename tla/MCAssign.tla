------------------------------ MODULE MCAssign ------------------------------
(***************************************************************************)
(* The programs of the assignment: the process pool (ChildPool) and the     *)
(* threads (ThreadSum).  processThread.c has both; they share nothing, so a *)
(* behaviour runs one of them while the other has ended.                    *)
(***************************************************************************)
EXTENDS ChildPool, ThreadSum

\* A pool that is over: main() has exited with the slot it took last.
PoolOver ==
  /\ sem = MAX_CHILDREN - 1 /\ main = "exited" /\ sigpend = 0 /\ hpc = "off"
  /\ child = [c \in Pids |-> "none"]

MCInit == (Init /\ ThreadInit("exited")) \/ (PoolOver /\ ThreadInit("input"))

MCNext == (Next /\ UNCHANGED threadvars) \/ (ThreadNext /\ UNCHANGED vars)

MCSpec == MCInit /\ [][MCNext]_<<vars, threadvars>> /\ Fairness
=============================================================================
