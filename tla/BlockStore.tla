---------------------------- MODULE BlockStore ----------------------------
(***************************************************************************)
(* What the buffer cache promises its callers: a block is in the hands of   *)
(* at most one process at a time, and only that process changes it.         *)
(***************************************************************************)
CONSTANTS Procs, Blocks, Vals, Nobody
VARIABLES store, holder

Init == store \in [Blocks -> Vals] /\ holder = [b \in Blocks |-> Nobody]

Get(p, b) == holder[b] = Nobody /\ holder' = [holder EXCEPT ![b] = p] /\ UNCHANGED store

Write(p, b, v) == holder[b] = p /\ store' = [store EXCEPT ![b] = v] /\ UNCHANGED holder

Release(p, b) == holder[b] = p /\ holder' = [holder EXCEPT ![b] = Nobody] /\ UNCHANGED store

Next == \E p \in Procs, b \in Blocks : Get(p, b) \/ Release(p, b) \/ \E v \in Vals : Write(p, b, v)

Spec == Init /\ [][Next]_<<store, holder>>
=============================================================================
