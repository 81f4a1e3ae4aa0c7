----------------------------- MODULE LineQueue -----------------------------
(***************************************************************************)
(* What the console promises a typist and the programs that read: a line    *)
(* being edited, and the finished bytes in the order they were typed.       *)
(***************************************************************************)
EXTENDS Naturals, Sequences
CONSTANTS Keys, Ends, Room
VARIABLES line, ready

Init == line = <<>> /\ ready = <<>>

\* A key is kept while there is room; an end of line, or the last room, finishes.
Type(c) ==
  /\ Len(ready) + Len(line) < Room
  /\ IF c \in Ends \/ Len(ready) + Len(line) + 1 = Room
     THEN ready' = ready \o Append(line, c) /\ line' = <<>>
     ELSE line' = Append(line, c) /\ UNCHANGED ready

\* Only what is still being edited can be taken back.
Erase(n) == n <= Len(line) /\ line' = SubSeq(line, 1, Len(line) - n) /\ UNCHANGED ready

Take == ready # <<>> /\ ready' = Tail(ready) /\ UNCHANGED line

Next == Take \/ (\E c \in Keys : Type(c)) \/ Erase(1) \/ Erase(Len(line))

Spec == Init /\ [][Next]_<<line, ready>>
=============================================================================
