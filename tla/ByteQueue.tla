----------------------------- MODULE ByteQueue -----------------------------
(***************************************************************************)
(* What a pipe promises: a first-in first-out queue of at most Capacity    *)
(* bytes.  "got" is the byte most recently handed to a reader.             *)
(***************************************************************************)
EXTENDS Naturals, Sequences

CONSTANTS Bytes,     \* what a write may carry
          Capacity,  \* most bytes in flight
          Nothing    \* no byte handed out yet

VARIABLES q, got

QInit == q = << >> /\ got = Nothing

Put(v) ==
  /\ Len(q) < Capacity
  /\ q' = Append(q, v)
  /\ UNCHANGED got

Take ==
  /\ q # << >>
  /\ got' = Head(q)
  /\ q' = Tail(q)

QNext == (\E v \in Bytes : Put(v)) \/ Take

QSpec == QInit /\ [][QNext]_<<q, got>>
=============================================================================
