----------------------------- MODULE XvConsole -----------------------------
(***************************************************************************)
(* Console input (console.c): the ring of typed characters between the      *)
(* keyboard or serial interrupt and the processes that read the console.    *)
(* Echoing is left out.  A step is a section under cons.lock: the interrupt *)
(* for one character, or one turn of consoleread()'s loop (whose lock keeps *)
(* the interrupt out until it sleeps or returns).                           *)
(***************************************************************************)
EXTENDS Integers, Sequences

CONSTANTS Readers,
          Chars,     \* the characters that are neither control keys nor newline
          INPUT_BUF,
          WORD,      \* r, w and e are unsigned: they count modulo WORD
          Typed,     \* what is typed: the runs to explore
          Reads      \* sequences of read() sizes, one of which each reader makes

VARIABLES ring, r, w, e,
          typed,             \* keys still to come
          rpc, left, target, \* of each reader in consoleread(): n and target
          calls, killed      \* reads still to be made; p->killed

consvars == <<ring, r, w, e, typed, rpc, left, target, calls, killed>>

NL == "nl"
CtrlD == "^D"
CtrlU == "^U"
CtrlH == "^H"

ASSUME RingAssumption ==
  /\ INPUT_BUF \in Nat \ {0} /\ WORD \in Nat /\ WORD > INPUT_BUF /\ WORD % INPUT_BUF = 0
  /\ NL \notin Chars /\ Typed \subseteq Seq(Chars \cup {NL, CtrlD, CtrlU, CtrlH})

Minus(x, y) == (x + WORD - y) % WORD
At_(x) == ring[x % INPUT_BUF]

ConsInit ==
  /\ ring = [i \in 0..(INPUT_BUF - 1) |-> ""]
  /\ r \in 0..(WORD - 1) /\ w = r /\ e = r   \* after some lines were typed and read
  /\ typed \in Typed
  /\ rpc = [q \in Readers |-> "idle"] /\ left = [q \in Readers |-> 0] /\ target = [q \in Readers |-> 0]
  /\ calls \in [Readers -> Reads] /\ killed = [q \in Readers |-> FALSE]

\* cons.lock is free unless a reader is in its loop.
Unlocked == \A q \in Readers : rpc[q] \notin {"read", "sleepy"}

\* wakeup(&input.r)
Woken == [q \in Readers |-> IF rpc[q] = "sleep" THEN "wake" ELSE rpc[q]]

\* How far ^U goes back: to the end of the last line.
KillLength ==
  LET ks == {k \in 0..Minus(e, w) : \A j \in 1..k : At_(Minus(e, j)) # NL}
  IN  CHOOSE k \in ks : \A j \in ks : j <= k

\* Mutant: the ring is one short when compared without regard to wrapping.
RingFull_NoWrap(x) == x = r + INPUT_BUF

\* input.e == input.r + INPUT_BUF
RingFull(x) == Minus(x, r) = INPUT_BUF

\* Mutant: a full ring is handed over without a wakeup.
Wakes_OnlyLines(c) == c \in {NL, CtrlD}

\* consoleintr() with one character.
Wakes(c) == c \in {NL, CtrlD} \/ RingFull((e + 1) % WORD)

ConsoleIntr ==
  /\ Unlocked /\ typed # <<>>
  /\ typed' = Tail(typed)
  /\ LET c == Head(typed)
     IN  \/ /\ c = CtrlU
            /\ e' = Minus(e, KillLength) /\ UNCHANGED <<ring, w, rpc>>
         \/ /\ c = CtrlH
            /\ e' = IF e # w THEN Minus(e, 1) ELSE e
            /\ UNCHANGED <<ring, w, rpc>>
         \/ /\ c \notin {CtrlU, CtrlH} /\ Minus(e, r) < INPUT_BUF
            /\ ring' = [ring EXCEPT ![e % INPUT_BUF] = c]
            /\ e' = (e + 1) % WORD
            /\ w' = IF c \in {NL, CtrlD} \/ RingFull(e') THEN e' ELSE w
            /\ rpc' = IF Wakes(c) THEN Woken ELSE rpc
         \/ /\ c \notin {CtrlU, CtrlH} /\ Minus(e, r) >= INPUT_BUF
            /\ UNCHANGED <<ring, e, w, rpc>>
  /\ UNCHANGED <<r, left, target, calls, killed>>

\* consoleread(): a call starts, or a woken reader takes cons.lock again.
ReadStart(q) ==
  /\ rpc[q] = "idle" /\ calls[q] # <<>> /\ Unlocked
  /\ rpc' = [rpc EXCEPT ![q] = IF Head(calls[q]) > 0 THEN "read" ELSE "idle"]
  /\ left' = [left EXCEPT ![q] = Head(calls[q])]
  /\ target' = [target EXCEPT ![q] = Head(calls[q])]
  /\ calls' = [calls EXCEPT ![q] = Tail(@)]
  /\ UNCHANGED <<ring, r, w, e, typed, killed>>

ReadWake(q) ==
  /\ rpc[q] = "wake" /\ Unlocked
  /\ rpc' = [rpc EXCEPT ![q] = "read"]
  /\ UNCHANGED <<ring, r, w, e, typed, left, target, calls, killed>>

\* One turn of the loop: nothing there (give up if killed, else sleep), an end of
\* file (put back if something was read before it), or a byte.
ReadTurn(q) ==
  /\ rpc[q] = "read"
  /\ LET c == At_(r)
         eof == c = CtrlD
     IN  \/ /\ left[q] > 0 /\ r = w
            /\ rpc' = [rpc EXCEPT ![q] = IF killed[q] THEN "idle" ELSE "sleepy"]
            /\ UNCHANGED <<r, left>>
         \/ /\ left[q] > 0 /\ r # w
            /\ r' = IF eof /\ left[q] < target[q] THEN r ELSE (r + 1) % WORD
            /\ left' = IF eof THEN left ELSE [left EXCEPT ![q] = @ - 1]
            /\ rpc' = [rpc EXCEPT ![q] = IF eof \/ c = NL \/ left[q] = 1 THEN "idle" ELSE "read"]
  /\ UNCHANGED <<ring, w, e, typed, target, calls, killed>>

\* sleep(&input.r, &cons.lock): on the channel and the lock released together.
ReadSleep(q) ==
  /\ rpc[q] = "sleepy"
  /\ rpc' = [rpc EXCEPT ![q] = "sleep"]
  /\ UNCHANGED <<ring, r, w, e, typed, left, target, calls, killed>>

\* kill(): wakes the process only if it sleeps already.
KillReader(q) ==
  /\ rpc[q] # "idle" /\ ~killed[q]
  /\ killed' = [killed EXCEPT ![q] = TRUE]
  /\ rpc' = IF rpc[q] = "sleep" THEN [rpc EXCEPT ![q] = "wake"] ELSE rpc
  /\ UNCHANGED <<ring, r, w, e, typed, left, target, calls>>

ConsNext ==
  ConsoleIntr \/ \E q \in Readers : ReadStart(q) \/ ReadWake(q) \/ ReadTurn(q) \/ ReadSleep(q) \/ KillReader(q)

ConsSpec == ConsInit /\ [][ConsNext]_consvars

----------------------------------------------------------------------------
\* The part of the ring from x up to y.
Part(x, y) == [i \in 1..Minus(y, x) |-> At_((x + i - 1) % WORD)]

Lines == INSTANCE LineQueue WITH Keys <- Chars \cup {NL, CtrlD}, Ends <- {NL, CtrlD}, Room <- INPUT_BUF,
                                 line <- Part(w, e), ready <- Part(r, w)

\* However the counters wrap: bytes reach readers in the order typed, editing never
\* takes back a finished line, and the ring is never overrun.
LinesAreKept == Lines!Spec

\* Nobody sleeps for input that is there.
ReaderIsTold == \A q \in Readers : rpc[q] = "sleep" => r = w
=============================================================================
