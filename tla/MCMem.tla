------------------------------- MODULE MCMem --------------------------------
(***************************************************************************)
(* Memory, in the kernel (XvMem) and in a user program (XvMalloc): the two  *)
(* meet only in sbrk(), which fails when the kernel runs out of pages, so a *)
(* behaviour exercises one of them and leaves the other idle.               *)
(***************************************************************************)
EXTENDS XvMem, XvMalloc

MCSbrk == {-3, -2, 3}

Init == MemInit /\ HeapInit /\ (calls = 0 \/ ops = 0)
Next ==
  \/ MemNext /\ ops = 0 /\ UNCHANGED heapvars
  \/ HeapNext /\ UNCHANGED memvars
Spec == Init /\ [][Next]_<<memvars, heapvars>>
=============================================================================
