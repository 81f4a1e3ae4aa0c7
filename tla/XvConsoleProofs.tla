-------------------------- MODULE XvConsoleProofs --------------------------
(***************************************************************************)
(* Proofs about XvConsole for every alphabet, every number of readers, and *)
(* every size of the ring and of the counters that the first divides: the  *)
(* ring is the line queue, and no reader sleeps while there is input.      *)
(***************************************************************************)
EXTENDS XvConsole, SequenceTheorems, NatFacts

Kept == Chars \cup {NL, CtrlD}

Ready == Minus(w, r)
Edited == Minus(e, w)

ConsTypes ==
  /\ ring \in [0 .. (INPUT_BUF - 1) -> Kept \cup {""}]
  /\ r \in 0 .. (WORD - 1) /\ w \in 0 .. (WORD - 1) /\ e \in 0 .. (WORD - 1)
  /\ typed \in Seq(Kept \cup {CtrlU, CtrlH})

\* The ring is never overrun.
CountInv == Ready + Edited <= INPUT_BUF

\* A line that is being edited has no end yet.
LineInv == \A i \in 1 .. Edited : Part(w, e)[i] # NL

\* A reader that sleeps, or is about to, has read all that is finished.
ToldInv ==
  /\ rpc \in [Readers -> {"idle", "read", "sleepy", "sleep", "wake"}]
  /\ \A q \in Readers : rpc[q] \in {"sleep", "sleepy"} => r = w

ConsInv == ConsTypes /\ CountInv /\ LineInv /\ ToldInv
-----------------------------------------------------------------------------
\* The size of the ring divides the range of the counters, and is less.
LEMMA ConsConsts ==
  /\ WORD \in Nat \ {0} /\ INPUT_BUF \in Nat \ {0} /\ INPUT_BUF < WORD
  /\ WORD % INPUT_BUF = 0 /\ WORD % WORD = 0
  BY RingAssumption

\* What of this is not about remainders.
LEMMA ConsSizes == WORD \in Nat \ {0} /\ INPUT_BUF \in Nat \ {0} /\ INPUT_BUF < WORD
  BY RingAssumption

\* Counting from x up to y, whether or not the counter wraps on the way.
LEMMA Counting ==
  ASSUME NEW x \in 0 .. (WORD - 1), NEW y \in 0 .. (WORD - 1)
  PROVE  /\ Minus(y, x) \in 0 .. (WORD - 1)
         /\ y = (x + Minus(y, x)) % WORD
         /\ Minus(y, x) = 0 <=> x = y
<1>0. WORD \in Nat \ {0}
  BY ConsConsts
<1>1. Minus(y, x) = IF x <= y THEN y - x ELSE y - x + WORD
  BY <1>0 DEF Minus
<1> QED
  BY <1>0, <1>1

\* The n-th count from x is n away from it.
LEMMA CountOn ==
  ASSUME NEW x \in 0 .. (WORD - 1), NEW n \in 0 .. (WORD - 1)
  PROVE  (x + n) % WORD \in 0 .. (WORD - 1) /\ Minus((x + n) % WORD, x) = n
<1>0. WORD \in Nat \ {0}
  BY ConsConsts
<1>1. (x + n) % WORD = IF x + n < WORD THEN x + n ELSE x + n - WORD
  BY <1>0
<1> QED
  BY <1>0, <1>1 DEF Minus

\* How far apart the counters are, and where they stand from r and from w.
Ranges ==
  /\ Ready \in 0 .. INPUT_BUF /\ Edited \in 0 .. INPUT_BUF /\ Ready + Edited \in 0 .. INPUT_BUF
  /\ r \in 0 .. (WORD - 1) /\ w \in 0 .. (WORD - 1) /\ e \in 0 .. (WORD - 1)
  /\ Minus(e, r) = Ready + Edited
Counters ==
  /\ Ranges
  /\ w = (r + Ready) % WORD /\ e = (w + Edited) % WORD /\ e = (r + (Ready + Edited)) % WORD

\* They do, since the ring is never overrun and is shorter than their range.
LEMMA CountersStand ==
  ASSUME ConsTypes, CountInv
  PROVE  Counters
<1>0. WORD \in Nat \ {0} /\ INPUT_BUF \in Nat \ {0} /\ INPUT_BUF < WORD /\ WORD % WORD = 0
  BY ConsConsts
<1>a. r \in 0 .. (WORD - 1) /\ Ready \in 0 .. (WORD - 1) /\ Edited \in 0 .. (WORD - 1)
  BY Counting DEF ConsTypes, Ready, Edited
<1>1. w = (r + Ready) % WORD /\ e = (w + Edited) % WORD
  BY Counting DEF ConsTypes, Ready, Edited
<1>2. Ready \in 0 .. INPUT_BUF /\ Edited \in 0 .. INPUT_BUF /\ Ready + Edited \in 0 .. INPUT_BUF
  BY <1>0, <1>a DEF CountInv
<1>3. e = (r + (Ready + Edited)) % WORD
  <2>1. r + Ready \in 0 .. (2 * WORD - 1) /\ Edited \in Int
    BY <1>0, <1>a
  <2>2. (((r + Ready) % WORD) + Edited) % WORD = ((r + Ready) + Edited) % WORD
    BY <1>0, <2>1, ModShift, ZenonT(30)
  <2>3. (r + Ready) + Edited = r + (Ready + Edited)
    BY <1>0, <1>a
  <2> QED
    BY <1>1, <2>2, <2>3, Zenon
<1>4. Minus(e, r) = Ready + Edited
  <2>1. r \in 0 .. (WORD - 1) /\ Ready + Edited \in 0 .. (WORD - 1)
    BY <1>0, <1>2, <1>a
  <2>2. Minus((r + (Ready + Edited)) % WORD, r) = Ready + Edited
    BY <2>1, CountOn, Zenon
  <2> QED
    BY <1>3, <2>2, Zenon
<1> QED
  BY <1>1, <1>2, <1>3, <1>4 DEF Counters, Ranges, ConsTypes

\* A function on 1 .. n is a sequence of length n.
LEMMA FunSeq ==
  ASSUME NEW S, NEW n \in Nat, NEW f \in [1 .. n -> S]
  PROVE  f \in Seq(S) /\ Len(f) = n
<1>1. f \in Seq(S)
  BY SeqDef
<1>2. DOMAIN f = 1 .. Len(f) /\ Len(f) \in Nat
  BY <1>1, LenProperties
<1>3. DOMAIN f = 1 .. n
  OBVIOUS
<1> QED
  BY <1>1, <1>2, <1>3

\* The elements of two sequences put together.
LEMMA ConcatSeq ==
  ASSUME NEW K, NEW s \in Seq(K), NEW t \in Seq(K)
  PROVE  /\ s \o t \in Seq(K) /\ Len(s \o t) = Len(s) + Len(t)
         /\ \A i \in 1 .. Len(s) : (s \o t)[i] = s[i]
         /\ \A i \in 1 .. Len(t) : (s \o t)[Len(s) + i] = t[i]
<1> DEFINE a == Len(s)
           b == Len(t)
<1>0. a \in Nat /\ b \in Nat
  OBVIOUS
<1>1. /\ s \o t \in Seq(K) /\ Len(s \o t) = a + b
      /\ \A i \in 1 .. (a + b) : (s \o t)[i] = IF i <= a THEN s[i] ELSE t[i - a]
  BY ConcatProperties
<1> HIDE DEF a, b
<1> DEFINE u == s \o t
<1>2. \A i \in 1 .. (a + b) : u[i] = IF i <= a THEN s[i] ELSE t[i - a]
  BY <1>1
<1> HIDE DEF u
<1>3. \A i \in 1 .. a : u[i] = s[i]
  BY <1>0, <1>2
<1>4. ASSUME NEW i \in 1 .. b PROVE u[a + i] = t[i]
  <2>1. a + i \in 1 .. (a + b) /\ ~(a + i <= a) /\ (a + i) - a = i
    BY <1>0
  <2> QED
    BY <1>2, <2>1
<1> QED
  BY <1>1, <1>3, <1>4 DEF u, a, b

\* The two parts of the ring as sequences, both seen from r.
Cell(k) == ring[(r + k) % INPUT_BUF]
Parts ==
  /\ Part(r, w) \in Seq(Kept \cup {""}) /\ Len(Part(r, w)) = Ready
  /\ \A i \in 1 .. Ready : Part(r, w)[i] = Cell(i - 1)
  /\ Part(w, e) \in Seq(Kept \cup {""}) /\ Len(Part(w, e)) = Edited
  /\ \A i \in 1 .. Edited : Part(w, e)[i] = Cell(Ready + i - 1)

\* So the ring holds them.
LEMMA PartsSeen == ConsTypes /\ CountInv => Parts /\ Counters
<1> SUFFICES ASSUME ConsTypes, CountInv PROVE Parts /\ Counters
  OBVIOUS
<1>0. Counters /\ Ranges
  BY CountersStand DEF Counters
<1> USE ConsSizes
<1>1. ASSUME NEW k \in Int
      PROVE  Cell(k) \in Kept \cup {""}
  <2>1. r + k \in Int
    BY <1>0 DEF Ranges
  <2>2. (r + k) % INPUT_BUF \in 0 .. (INPUT_BUF - 1)
    BY <2>1, ConsConsts, ModType, Zenon
  <2> QED
    BY <2>2 DEF Cell, ConsTypes
<1>2. ASSUME NEW i \in 1 .. Ready
      PROVE  At_((r + i - 1) % WORD) = Cell(i - 1)
  <2>1. r + i - 1 \in Int /\ r + i - 1 = r + (i - 1)
    BY <1>0 DEF Ranges
  <2>2. ((r + i - 1) % WORD) % INPUT_BUF = (r + i - 1) % INPUT_BUF
    BY <2>1, ConsConsts, ModMod, Zenon
  <2> QED
    BY <2>1, <2>2, Zenon DEF At_, Cell
<1>3. ASSUME NEW i \in 1 .. Edited
      PROVE  At_((w + i - 1) % WORD) = Cell(Ready + i - 1)
  <2>1. /\ w + i - 1 \in Int /\ w + i - 1 = w + (i - 1) /\ i - 1 \in Int
        /\ r + Ready \in 0 .. (2 * WORD - 1) /\ (r + Ready) + (i - 1) = r + (Ready + i - 1)
    BY <1>0 DEF Ranges
  <2>2. ((w + i - 1) % WORD) % INPUT_BUF = (w + i - 1) % INPUT_BUF
    BY <2>1, ConsConsts, ModMod, Zenon
  <2>3. (((r + Ready) % WORD) + (i - 1)) % INPUT_BUF = ((r + Ready) + (i - 1)) % INPUT_BUF
    <3>1. r + Ready \in 0 .. (2 * WORD - 1) /\ i - 1 \in Int
      BY <2>1
    <3> QED
      BY <3>1, ConsConsts, ModShift, Zenon
  <2>4. w = (r + Ready) % WORD
    BY <1>0 DEF Counters
  <2> QED
    BY <2>1, <2>2, <2>3, <2>4, Zenon DEF At_, Cell
<1>4. Part(r, w) = [i \in 1 .. Ready |-> Cell(i - 1)]
  BY <1>2 DEF Part, Ready
<1>5. Part(w, e) = [i \in 1 .. Edited |-> Cell(Ready + i - 1)]
  BY <1>3 DEF Part, Edited
<1>6. Ready \in Nat /\ Edited \in Nat
  BY <1>0 DEF Ranges
<1>7. (\A i \in 1 .. Ready : Cell(i - 1) \in Kept \cup {""}) /\ \A i \in 1 .. Edited : Cell(Ready + i - 1) \in Kept \cup {""}
  <2>1. \A k \in Int : Cell(k) \in Kept \cup {""}
    BY <1>1
  <2>2. (\A i \in 1 .. Ready : i - 1 \in Int) /\ \A i \in 1 .. Edited : Ready + i - 1 \in Int
    BY <1>6
  <2> QED
    BY <2>1, <2>2, Zenon
<1>8. Part(r, w) \in Seq(Kept \cup {""}) /\ Len(Part(r, w)) = Ready
  <2>1. Part(r, w) \in [1 .. Ready -> Kept \cup {""}]
    BY <1>4, <1>7, Zenon
  <2> QED
    BY <1>6, <2>1, FunSeq
<1>9. Part(w, e) \in Seq(Kept \cup {""}) /\ Len(Part(w, e)) = Edited
  <2>1. Part(w, e) \in [1 .. Edited -> Kept \cup {""}]
    BY <1>5, <1>7, Zenon
  <2> QED
    BY <1>6, <2>1, FunSeq
<1>10. \A i \in 1 .. Ready : Part(r, w)[i] = Cell(i - 1)
  BY <1>4
<1>11. \A i \in 1 .. Edited : Part(w, e)[i] = Cell(Ready + i - 1)
  BY <1>5
<1> QED
  BY <1>0, <1>8, <1>9, <1>10, <1>11 DEF Parts
-----------------------------------------------------------------------------
(* What the steps do to the counters and to the two sequences. *)

\* The counters' distances, from where they stand.
LEMMA Counted ==
  ASSUME r' \in 0 .. (WORD - 1), w' \in 0 .. (WORD - 1),
         NEW m \in 0 .. (WORD - 1), w' = (r' + m) % WORD,
         NEW n \in 0 .. (WORD - 1), e' = (w' + n) % WORD
  PROVE  Ready' = m /\ Edited' = n
<1>1. Minus((r' + m) % WORD, r') = m
  BY CountOn, Zenon
<1>2. Minus((w' + n) % WORD, w') = n
  BY CountOn, Zenon
<1>3. Ready' = Minus(w', r') /\ Edited' = Minus(e', w')
  BY DEF Ready, Edited, Minus
<1> QED
  BY <1>1, <1>2, <1>3, Zenon

\* The room for one more key, and where it goes.
LEMMA RoomForKey ==
  ASSUME ConsTypes, CountInv, Minus(e, r) < INPUT_BUF
  PROVE  LET n == Ready + Edited
             f == (e + 1) % WORD
         IN  /\ n \in 0 .. (INPUT_BUF - 1) /\ f \in 0 .. (WORD - 1)
             /\ f = (r + (n + 1)) % WORD /\ f = (w + (Edited + 1)) % WORD
             /\ Minus(f, r) = n + 1
             /\ e % INPUT_BUF = (r + n) % INPUT_BUF
<1> DEFINE n == Ready + Edited
           f == (e + 1) % WORD
<1>0. Counters /\ Ranges
  BY CountersStand DEF Counters
<1>1. /\ Ready \in 0 .. INPUT_BUF /\ Edited \in 0 .. INPUT_BUF /\ n \in 0 .. (INPUT_BUF - 1)
      /\ r \in 0 .. (WORD - 1) /\ w \in 0 .. (WORD - 1) /\ e \in 0 .. (WORD - 1)
  BY <1>0, ConsSizes DEF Ranges
<1>2. e = (r + n) % WORD /\ e = (w + Edited) % WORD
  BY <1>0 DEF Counters
<1>3. r + n \in 0 .. (2 * WORD - 1) /\ w + Edited \in 0 .. (2 * WORD - 1) /\ r + n \in Int /\ 1 \in Int
  BY <1>1, ConsSizes
<1>4. (r + n) + 1 = r + (n + 1) /\ (w + Edited) + 1 = w + (Edited + 1) /\ n + 1 \in 0 .. (WORD - 1)
  BY <1>1, ConsSizes
<1> HIDE DEF n
<1>5. f = (r + (n + 1)) % WORD
  <2>1. (((r + n) % WORD) + 1) % WORD = ((r + n) + 1) % WORD
    BY <1>3, ConsConsts, ModShift, Zenon
  <2> QED
    BY <1>2, <1>4, <2>1, Zenon
<1>6. f = (w + (Edited + 1)) % WORD
  <2>1. (((w + Edited) % WORD) + 1) % WORD = ((w + Edited) + 1) % WORD
    BY <1>3, ConsConsts, ModShift, Zenon
  <2> QED
    BY <1>2, <1>4, <2>1, Zenon
<1>7. f \in 0 .. (WORD - 1) /\ Minus(f, r) = n + 1
  <2>1. (r + (n + 1)) % WORD \in 0 .. (WORD - 1) /\ Minus((r + (n + 1)) % WORD, r) = n + 1
    BY <1>1, <1>4, CountOn, Zenon
  <2> HIDE DEF f
  <2> QED
    BY <1>5, <2>1, Zenon
<1>8. e % INPUT_BUF = (r + n) % INPUT_BUF
  <2>1. ((r + n) % WORD) % INPUT_BUF = (r + n) % INPUT_BUF
    BY <1>3, ConsConsts, ModMod, Zenon
  <2> QED
    BY <1>2, <2>1, Zenon
<1> QED
  BY <1>1, <1>5, <1>6, <1>7, <1>8, Zenon DEF n

\* The key is stored after the last, in a cell that no other key is in.
LEMMA KeyStored ==
  ASSUME ConsTypes, CountInv, Minus(e, r) < INPUT_BUF, r' = r,
         NEW c \in Kept, ring' = [ring EXCEPT ![e % INPUT_BUF] = c]
  PROVE  /\ ring' \in [0 .. (INPUT_BUF - 1) -> Kept \cup {""}]
         /\ \A k \in 0 .. ((Ready + Edited) - 1) : Cell(k)' = Cell(k)
         /\ ring'[(r + (Ready + Edited)) % INPUT_BUF] = c
<1> DEFINE n == Ready + Edited
<1>a. n \in 0 .. (INPUT_BUF - 1) /\ e % INPUT_BUF = (r + n) % INPUT_BUF
  BY RoomForKey
<1>b. n \in 0 .. (INPUT_BUF - 1)
  BY <1>a
<1> HIDE DEF n
<1>1. n \in 0 .. (INPUT_BUF - 1) /\ e % INPUT_BUF = (r + n) % INPUT_BUF
  BY <1>a
<1>r. r \in 0 .. (WORD - 1)
  BY Zenon DEF ConsTypes
<1>2. r + n \in Int /\ r \in 0 .. (WORD - 1)
  BY <1>b, <1>r, ConsSizes
<1>3. (r + n) % INPUT_BUF \in 0 .. (INPUT_BUF - 1)
  BY <1>2, ConsConsts, ModType, Zenon
<1>4. ring' = [ring EXCEPT ![(r + n) % INPUT_BUF] = c] /\ ring \in [0 .. (INPUT_BUF - 1) -> Kept \cup {""}]
  BY <1>1, Zenon DEF ConsTypes
<1>5. ASSUME NEW k \in 0 .. (n - 1)
      PROVE  Cell(k)' = Cell(k)
  <2>1. /\ r + k \in Int /\ n - k \in 1 .. (INPUT_BUF - 1) /\ (r + k) + (n - k) = r + n
    BY <1>b, <1>2, ConsSizes
  <2>2. ((r + k) + (n - k)) % INPUT_BUF # (r + k) % INPUT_BUF
    BY <2>1, ConsConsts, ModApart, Zenon
  <2>3. (r + n) % INPUT_BUF # (r + k) % INPUT_BUF
    BY <2>1, <2>2, Zenon
  <2>4. (r + k) % INPUT_BUF \in 0 .. (INPUT_BUF - 1)
    BY <2>1, ConsConsts, ModType, Zenon
  <2> DEFINE a == (r + n) % INPUT_BUF
             b == (r + k) % INPUT_BUF
  <2>5. ring' = [ring EXCEPT ![a] = c] /\ a # b /\ b \in 0 .. (INPUT_BUF - 1)
    BY <1>4, <2>3, <2>4, Zenon
  <2> HIDE DEF a, b
  <2>6. ring'[b] = ring[b]
    BY <1>4, <2>5
  <2> QED
    BY <2>6, Zenon DEF Cell, b
<1>6. ring' \in [0 .. (INPUT_BUF - 1) -> Kept \cup {""}] /\ ring'[(r + n) % INPUT_BUF] = c
  <2> DEFINE a == (r + n) % INPUT_BUF
  <2>1. ring' = [ring EXCEPT ![a] = c] /\ a \in 0 .. (INPUT_BUF - 1)
    BY <1>3, <1>4, Zenon
  <2> HIDE DEF a
  <2>2. ring' \in [0 .. (INPUT_BUF - 1) -> Kept \cup {""}] /\ ring'[a] = c
    BY <1>4, <2>1
  <2> QED
    BY <2>2 DEF a
<1>7. \A k \in 0 .. (n - 1) : Cell(k)' = Cell(k)
  BY <1>5
<1> QED
  BY <1>6, <1>7, Zenon DEF n

\* A key that does not finish the line is appended to it.
LEMMA KeyAppended ==
  ASSUME ConsTypes, CountInv, ConsTypes', Minus(e, r) < INPUT_BUF, r' = r, w' = w, e' = (e + 1) % WORD,
         NEW c \in Kept, ring' = [ring EXCEPT ![e % INPUT_BUF] = c]
  PROVE  /\ CountInv' /\ Part(r, w)' = Part(r, w) /\ Part(w, e)' = Append(Part(w, e), c)
         /\ Ready' = Ready /\ Edited' = Edited + 1
<1> DEFINE n == Ready + Edited
<1>1. Parts /\ Counters /\ Ranges
  BY PartsSeen DEF Counters
<1>2. /\ n \in 0 .. (INPUT_BUF - 1) /\ e' = (w' + (Edited + 1)) % WORD /\ w' = (r' + Ready) % WORD
  BY <1>1, RoomForKey, Zenon DEF Counters
<1>3. n \in 0 .. (INPUT_BUF - 1) /\ Ready \in 0 .. INPUT_BUF /\ Edited \in 0 .. INPUT_BUF
  BY <1>1, <1>2, Zenon DEF Ranges
<1>4. Ready \in 0 .. (WORD - 1) /\ Edited + 1 \in 0 .. (WORD - 1)
  BY <1>3, ConsSizes
<1>5. r' \in 0 .. (WORD - 1) /\ w' \in 0 .. (WORD - 1)
  BY Zenon DEF ConsTypes
<1>6. Ready' = Ready /\ Edited' = Edited + 1
  BY <1>2, <1>4, <1>5, Counted, Zenon
<1>7. CountInv'
  <2>1. Ready + (Edited + 1) <= INPUT_BUF
    BY <1>3, ConsSizes
  <2> QED
    BY <1>6, <2>1, Zenon DEF CountInv
<1>8. Parts'
  BY <1>7, PartsSeen, PTL
<1> DEFINE D(k) == ring'[(r + k) % INPUT_BUF]
<1>9. D(n) = c /\ \A k \in 0 .. (n - 1) : D(k) = Cell(k)
  BY KeyStored, Zenon DEF Cell
<1> DEFINE L == Part(w, e)
           M == Part(r, w)
           K == Kept \cup {""}
<1>10. /\ L \in Seq(K) /\ Len(L) = Edited /\ M \in Seq(K) /\ Len(M) = Ready /\ c \in K
       /\ L' \in Seq(K) /\ Len(L') = Edited + 1 /\ M' \in Seq(K) /\ Len(M') = Ready
  BY <1>1, <1>6, <1>8, Zenon DEF Parts
<1>11. /\ \A i \in 1 .. Ready : M[i] = Cell(i - 1) /\ M'[i] = D(i - 1)
       /\ \A i \in 1 .. Edited : L[i] = Cell(Ready + i - 1)
       /\ \A i \in 1 .. (Edited + 1) : L'[i] = D(Ready + i - 1)
  BY <1>1, <1>6, <1>8, Zenon DEF Parts, Cell
<1> HIDE DEF L, M, K, D
<1>12. ASSUME NEW i \in 1 .. Ready PROVE M'[i] = M[i]
  <2>1. i - 1 \in 0 .. (n - 1)
    BY <1>3
  <2> QED
    BY <1>9, <1>11, <2>1, Zenon
<1>13. M' = M
  BY <1>10, <1>12, SeqEqual
<1>14. ASSUME NEW i \in 1 .. Edited PROVE L'[i] = L[i]
  <2>1. Ready + i - 1 \in 0 .. (n - 1) /\ i \in 1 .. (Edited + 1)
    BY <1>3
  <2> QED
    BY <1>9, <1>11, <2>1, Zenon
<1>15. L'[Edited + 1] = c
  <2>1. Ready + (Edited + 1) - 1 = n /\ Edited + 1 \in 1 .. (Edited + 1)
    BY <1>3
  <2> QED
    BY <1>9, <1>11, <2>1, Zenon
<1> DEFINE A == Append(L, c)
<1>16. /\ A \in Seq(K) /\ Len(A) = Edited + 1 /\ A[Edited + 1] = c
       /\ \A i \in 1 .. Edited : A[i] = L[i]
  BY <1>3, <1>10
<1>17. \A i \in 1 .. (Edited + 1) : L'[i] = A[i]
  BY <1>3, <1>14, <1>15, <1>16
<1> HIDE DEF A
<1>18. L' = A
  BY <1>10, <1>16, <1>17, SeqEqual
<1> QED
  BY <1>6, <1>7, <1>13, <1>18 DEF A, L, M

\* A key that finishes the line hands it over with the keys before it.
LEMMA LineFinished ==
  ASSUME ConsTypes, CountInv, ConsTypes', Minus(e, r) < INPUT_BUF, r' = r, w' = e', e' = (e + 1) % WORD,
         NEW c \in Kept, ring' = [ring EXCEPT ![e % INPUT_BUF] = c]
  PROVE  /\ CountInv' /\ Part(r, w)' = Part(r, w) \o Append(Part(w, e), c) /\ Part(w, e)' = << >>
         /\ Edited' = 0
<1> DEFINE n == Ready + Edited
<1>1. Parts /\ Counters /\ Ranges
  BY PartsSeen DEF Counters
<1>2. /\ n \in 0 .. (INPUT_BUF - 1) /\ w' = (r' + (n + 1)) % WORD
  BY RoomForKey, Zenon
<1>3. n \in 0 .. (INPUT_BUF - 1) /\ Ready \in 0 .. INPUT_BUF /\ Edited \in 0 .. INPUT_BUF
  BY <1>1, <1>2, Zenon DEF Ranges
<1>4. 0 \in 0 .. (WORD - 1) /\ n + 1 \in 0 .. (WORD - 1) /\ n \in Nat
  BY <1>3, ConsSizes
<1>5. r' \in 0 .. (WORD - 1) /\ w' \in 0 .. (WORD - 1)
  BY Zenon DEF ConsTypes
<1>6. Ready' = n + 1 /\ Edited' = 0
  <2>1. w' + 0 = w'
    BY <1>5, ConsSizes
  <2>2. w' % WORD = w'
    BY <1>5, ConsSizes
  <2>3. e' = (w' + 0) % WORD
    BY <2>1, <2>2, Zenon
  <2> HIDE DEF n
  <2> QED
    BY <1>2, <1>4, <1>5, <2>3, Counted, Zenon
<1>7. CountInv'
  <2>1. (n + 1) + 0 <= INPUT_BUF
    BY <1>3, ConsSizes
  <2> QED
    BY <1>6, <2>1, Zenon DEF CountInv
<1>8. Parts'
  BY <1>7, PartsSeen, PTL
<1> DEFINE D(k) == ring'[(r + k) % INPUT_BUF]
<1>9. D(n) = c /\ \A k \in 0 .. (n - 1) : D(k) = Cell(k)
  BY KeyStored, Zenon DEF Cell
<1> DEFINE L == Part(w, e)
           M == Part(r, w)
           K == Kept \cup {""}
<1>10. /\ L \in Seq(K) /\ Len(L) = Edited /\ M \in Seq(K) /\ Len(M) = Ready /\ c \in K
       /\ L' \in Seq(K) /\ Len(L') = 0 /\ M' \in Seq(K) /\ Len(M') = n + 1
  BY <1>1, <1>6, <1>8, Zenon DEF Parts
<1>11. /\ \A i \in 1 .. Ready : M[i] = Cell(i - 1)
       /\ \A i \in 1 .. Edited : L[i] = Cell(Ready + i - 1)
       /\ \A i \in 1 .. (n + 1) : M'[i] = D(i - 1)
  BY <1>1, <1>6, <1>8, Zenon DEF Parts, Cell
<1> HIDE DEF L, M, K, D
<1> DEFINE A == M \o Append(L, c)
<1>12. /\ A \in Seq(K) /\ Len(A) = n + 1
       /\ \A i \in 1 .. Ready : A[i] = M[i]
       /\ \A i \in 1 .. Edited : A[Ready + i] = L[i]
       /\ A[n + 1] = c
  <2> DEFINE B == Append(L, c)
  <2>1. /\ B \in Seq(K) /\ Len(B) = Edited + 1 /\ B[Edited + 1] = c
        /\ \A i \in 1 .. Edited : B[i] = L[i]
    BY <1>3, <1>10
  <2> HIDE DEF B
  <2>2. /\ M \o B \in Seq(K) /\ Len(M \o B) = n + 1
        /\ \A i \in 1 .. Ready : (M \o B)[i] = M[i]
        /\ \A i \in 1 .. (Edited + 1) : (M \o B)[Ready + i] = B[i]
    <3>1. Ready \in Nat /\ Edited + 1 \in Nat /\ n + 1 = Ready + (Edited + 1)
      BY <1>3, ConsSizes
    <3>2. M \in Seq(K) /\ B \in Seq(K) /\ Len(M) = Ready /\ Len(B) = Edited + 1
      BY <1>10, <2>1
    <3>a. \A s, t \in Seq(K) : /\ s \o t \in Seq(K) /\ Len(s \o t) = Len(s) + Len(t)
                               /\ \A i \in 1 .. Len(s) : (s \o t)[i] = s[i]
                               /\ \A i \in 1 .. Len(t) : (s \o t)[Len(s) + i] = t[i]
      BY ConcatSeq
    <3>3. /\ M \o B \in Seq(K) /\ Len(M \o B) = Len(M) + Len(B)
          /\ \A i \in 1 .. Len(M) : (M \o B)[i] = M[i]
          /\ \A i \in 1 .. Len(B) : (M \o B)[Len(M) + i] = B[i]
      BY <3>2, <3>a, Zenon
    <3> QED
      BY <3>1, <3>2, <3>3, Zenon
  <2>3. (M \o B)[Ready + (Edited + 1)] = c /\ Ready + (Edited + 1) = n + 1
    BY <1>3, <2>1, <2>2
  <2>4. \A i \in 1 .. Edited : (M \o B)[Ready + i] = L[i]
    <3>1. \A i \in 1 .. Edited : i \in 1 .. (Edited + 1)
      BY <1>3
    <3> QED
      BY <2>1, <2>2, <3>1, Zenon
  <2> QED
    BY <2>2, <2>3, <2>4 DEF B
<1> HIDE DEF A
<1>13. ASSUME NEW i \in 1 .. (n + 1) PROVE M'[i] = A[i]
  <2>1. CASE i \in 1 .. Ready
    <3>1. i - 1 \in 0 .. (n - 1)
      BY <1>3, <2>1
    <3> QED
      BY <1>9, <1>11, <1>12, <2>1, <3>1, Zenon
  <2>2. CASE i \in (Ready + 1) .. n
    <3> DEFINE j == i - Ready
    <3>1. j \in 1 .. Edited /\ i = Ready + j /\ Ready + j - 1 = i - 1 /\ i - 1 \in 0 .. (n - 1)
      BY <1>3, <2>2
    <3> HIDE DEF j
    <3>2. A[i] = L[j] /\ L[j] = Cell(i - 1)
      BY <1>11, <1>12, <3>1, Zenon
    <3> QED
      BY <1>9, <1>11, <3>1, <3>2, Zenon
  <2>3. CASE i = n + 1
    <3>1. i - 1 = n
      BY <1>3, <2>3
    <3> QED
      BY <1>9, <1>11, <1>12, <2>3, <3>1, Zenon
  <2> QED
    BY <1>3, <2>1, <2>2, <2>3
<1>14. M' = A
  BY <1>4, <1>10, <1>12, <1>13, SeqEqual
<1>15. L' = << >>
  BY <1>10
<1> QED
  BY <1>6, <1>7, <1>14, <1>15 DEF A, L, M

\* Backspaces shorten the line that is being edited, and nothing else.
LEMMA KeysErased ==
  ASSUME ConsTypes, CountInv, ConsTypes', NEW k \in Nat, k <= Edited,
         e' = Minus(e, k), ring' = ring, r' = r, w' = w
  PROVE  /\ CountInv' /\ Part(r, w)' = Part(r, w) /\ Part(w, e)' = SubSeq(Part(w, e), 1, Edited - k)
         /\ Edited' = Edited - k
<1>1. Parts /\ Counters /\ Ranges
  BY PartsSeen DEF Counters
<1>2. /\ Ready \in 0 .. INPUT_BUF /\ Edited \in 0 .. INPUT_BUF /\ Ready + Edited \in 0 .. INPUT_BUF
      /\ r \in 0 .. (WORD - 1) /\ w \in 0 .. (WORD - 1) /\ e \in 0 .. (WORD - 1)
  BY <1>1, Zenon DEF Ranges
<1>3. e' = (w' + (Edited - k)) % WORD
  <2> DEFINE x == (w + (Edited - k)) + WORD
  <2>1. e = (w + Edited) % WORD
    BY <1>1 DEF Counters
  <2>2. /\ w + Edited \in 0 .. (2 * WORD - 1) /\ WORD - k \in Int /\ x \in Int
        /\ (w + Edited) + (WORD - k) = x /\ x - WORD = w + (Edited - k)
    BY <1>2, ConsSizes
  <2>3. e' = (((w + Edited) % WORD) + (WORD - k)) % WORD
    BY <2>1, Zenon DEF Minus
  <2>4. (((w + Edited) % WORD) + (WORD - k)) % WORD = ((w + Edited) + (WORD - k)) % WORD
    BY <2>2, ConsConsts, ModShift, Zenon
  <2> HIDE DEF x
  <2>5. (x - WORD) % WORD = x % WORD
    BY <2>2, ConsConsts, ModBack, Zenon
  <2> QED
    BY <2>2, <2>3, <2>4, <2>5, Zenon
<1>4. Ready \in 0 .. (WORD - 1) /\ Edited - k \in 0 .. (WORD - 1)
  BY <1>2, ConsSizes
<1>5. w' = (r' + Ready) % WORD
  BY <1>1, Zenon DEF Counters
<1>6. Ready' = Ready /\ Edited' = Edited - k
  <2>1. r' \in 0 .. (WORD - 1) /\ w' \in 0 .. (WORD - 1)
    BY <1>2
  <2> QED
    BY <1>3, <1>4, <1>5, <2>1, Counted, Zenon
<1>7. CountInv'
  <2>1. Ready + (Edited - k) <= INPUT_BUF
    BY <1>2, ConsSizes
  <2> QED
    BY <1>6, <2>1, Zenon DEF CountInv
<1>8. Parts'
  BY <1>7, PartsSeen, PTL
<1> DEFINE L == Part(w, e)
           M == Part(r, w)
           K == Kept \cup {""}
           m == Edited - k
<1>9. /\ L \in Seq(K) /\ Len(L) = Edited /\ M \in Seq(K) /\ Len(M) = Ready
      /\ L' \in Seq(K) /\ Len(L') = m /\ M' \in Seq(K) /\ Len(M') = Ready
  BY <1>1, <1>6, <1>8, Zenon DEF Parts
<1>10. /\ \A i \in 1 .. Ready : M[i] = Cell(i - 1) /\ M'[i] = Cell(i - 1)
       /\ \A i \in 1 .. Edited : L[i] = Cell(Ready + i - 1)
       /\ \A i \in 1 .. m : L'[i] = Cell(Ready + i - 1)
  BY <1>1, <1>6, <1>8, Zenon DEF Parts, Cell
<1>11. m \in 0 .. Edited
  BY <1>2
<1> HIDE DEF L, M, K, m
<1>12. M' = M
  BY <1>9, <1>10, SeqEqual
<1> DEFINE S == SubSeq(L, 1, m)
<1>13. S \in Seq(K) /\ Len(S) = m /\ \A i \in 1 .. m : S[i] = L[i]
  BY <1>2, <1>9, <1>11
<1> HIDE DEF S
<1>14. \A i \in 1 .. m : L'[i] = S[i]
  <2>1. \A i \in 1 .. m : i \in 1 .. Edited
    BY <1>2, <1>11
  <2> QED
    BY <1>10, <1>13, <2>1, Zenon
<1>15. L' = S
  BY <1>9, <1>13, <1>14, SeqEqual
<1> QED
  BY <1>6, <1>7, <1>12, <1>15 DEF S, L, M, m

\* A reader takes the oldest key, and the others stay.
LEMMA KeyTaken ==
  ASSUME ConsTypes, CountInv, ConsTypes', r # w, r' = (r + 1) % WORD, ring' = ring, w' = w, e' = e
  PROVE  /\ CountInv' /\ Part(r, w) # << >> /\ Part(r, w)' = Tail(Part(r, w)) /\ Part(w, e)' = Part(w, e)
         /\ Edited' = Edited
<1>1. Parts /\ Counters /\ Ranges
  BY PartsSeen DEF Counters
<1>2. /\ Ready \in 0 .. INPUT_BUF /\ Edited \in 0 .. INPUT_BUF /\ Ready + Edited \in 0 .. INPUT_BUF
      /\ r \in 0 .. (WORD - 1) /\ w \in 0 .. (WORD - 1) /\ e \in 0 .. (WORD - 1)
  BY <1>1, Zenon DEF Ranges
<1>3. Ready # 0
  BY <1>2, Counting, Zenon DEF Ready
<1>4. r + 1 \in 0 .. (2 * WORD - 1) /\ Ready - 1 \in Int /\ (r + 1) + (Ready - 1) = r + Ready
  BY <1>2, ConsSizes
<1>5. w' = (r' + (Ready - 1)) % WORD /\ e' = (w' + Edited) % WORD
  <2>1. (((r + 1) % WORD) + (Ready - 1)) % WORD = ((r + 1) + (Ready - 1)) % WORD
    BY <1>4, ConsConsts, ModShift, Zenon
  <2>2. w = (r + Ready) % WORD /\ e = (w + Edited) % WORD
    BY <1>1, Zenon DEF Counters
  <2> QED
    BY <1>4, <2>1, <2>2, Zenon
<1>6. Ready' = Ready - 1 /\ Edited' = Edited
  <2>1. r' \in 0 .. (WORD - 1) /\ w' \in 0 .. (WORD - 1)
    BY Zenon DEF ConsTypes
  <2>2. Ready - 1 \in 0 .. (WORD - 1) /\ Edited \in 0 .. (WORD - 1)
    BY <1>2, <1>3, ConsSizes
  <2> QED
    BY <1>5, <2>1, <2>2, Counted, Zenon
<1>7. CountInv'
  <2>1. (Ready - 1) + Edited <= INPUT_BUF
    BY <1>2, ConsSizes
  <2> QED
    BY <1>6, <2>1, Zenon DEF CountInv
<1>8. Parts'
  BY <1>7, PartsSeen, PTL
<1> DEFINE L == Part(w, e)
           M == Part(r, w)
           K == Kept \cup {""}
           D(k) == ring[(r' + k) % INPUT_BUF]
<1>9. /\ L \in Seq(K) /\ Len(L) = Edited /\ M \in Seq(K) /\ Len(M) = Ready
      /\ L' \in Seq(K) /\ Len(L') = Edited /\ M' \in Seq(K) /\ Len(M') = Ready - 1
  BY <1>1, <1>6, <1>8, Zenon DEF Parts
<1>10. /\ \A i \in 1 .. Ready : M[i] = Cell(i - 1)
       /\ \A i \in 1 .. (Ready - 1) : M'[i] = D(i - 1)
       /\ \A i \in 1 .. Edited : L[i] = Cell(Ready + i - 1) /\ L'[i] = D((Ready - 1) + i - 1)
  BY <1>1, <1>6, <1>8, Zenon DEF Parts, Cell
<1>11. ASSUME NEW k \in Int PROVE D(k) = Cell(k + 1)
  <2>1. (((r + 1) % WORD) + k) % INPUT_BUF = ((r + 1) + k) % INPUT_BUF
    BY <1>4, ConsConsts, ModShift, Zenon
  <2>2. (r + 1) + k = r + (k + 1)
    BY <1>2
  <2> QED
    BY <2>1, <2>2, Zenon DEF Cell
<1> HIDE DEF L, M, K, D
<1>12. ASSUME NEW i \in 1 .. (Ready - 1) PROVE M'[i] = M[i + 1]
  <2>1. i - 1 \in Int /\ (i - 1) + 1 = i /\ (i + 1) - 1 = i /\ i + 1 \in 1 .. Ready
    BY <1>2
  <2>2. M'[i] = Cell(i)
    BY <1>10, <1>11, <2>1, Zenon
  <2>3. M[i + 1] = Cell((i + 1) - 1)
    BY <1>10, <2>1, Zenon
  <2> QED
    BY <2>1, <2>2, <2>3, Zenon
<1> DEFINE T == Tail(M)
<1>13. M # << >> /\ T \in Seq(K) /\ Len(T) = Ready - 1 /\ \A i \in 1 .. (Ready - 1) : T[i] = M[i + 1]
  BY <1>2, <1>3, <1>9
<1> HIDE DEF T
<1>14. \A i \in 1 .. (Ready - 1) : M'[i] = T[i]
  BY <1>12, <1>13, Zenon
<1>15. M' = T
  BY <1>9, <1>13, <1>14, SeqEqual
<1>16. ASSUME NEW i \in 1 .. Edited PROVE L'[i] = L[i]
  <2>1. (Ready - 1) + i - 1 \in Int /\ ((Ready - 1) + i - 1) + 1 = Ready + i - 1
    BY <1>2
  <2> QED
    BY <1>10, <1>11, <2>1, Zenon
<1>17. L' = L
  BY <1>9, <1>16, SeqEqual
<1> QED
  BY <1>6, <1>7, <1>13, <1>15, <1>17 DEF T, L, M

\* ^U takes back the whole of the line that is being edited: there is no newline in it
\* for its loop to stop at.
LEMMA WholeLine ==
  ASSUME ConsTypes, CountInv, LineInv
  PROVE  KillLength = Edited
<1>1. Parts /\ Counters /\ Ranges
  BY PartsSeen DEF Counters
<1>2. /\ Ready \in 0 .. INPUT_BUF /\ Edited \in 0 .. INPUT_BUF /\ Ready + Edited \in 0 .. INPUT_BUF
      /\ r \in 0 .. (WORD - 1) /\ w \in 0 .. (WORD - 1) /\ e \in 0 .. (WORD - 1)
  BY <1>1, Zenon DEF Ranges
<1> DEFINE n == Ready + Edited
<1>3. ASSUME NEW j \in 1 .. Edited PROVE At_(Minus(e, j)) # NL
  <2> DEFINE y == r + (n - j)
             i == Edited - j + 1
  <2>1. /\ e + (WORD - j) \in Int /\ r + n \in 0 .. (2 * WORD - 1) /\ WORD - j \in Int
        /\ (r + n) + (WORD - j) = WORD + y /\ y \in Int /\ WORD \in 0 .. (2 * WORD - 1)
        /\ 0 + y = y /\ i \in 1 .. Edited /\ n - j = Ready + i - 1
    BY <1>2, ConsSizes
  <2> HIDE DEF y, i
  <2>2. ((e + (WORD - j)) % WORD) % INPUT_BUF = (e + (WORD - j)) % INPUT_BUF
    BY <2>1, ConsConsts, ModMod, Zenon
  <2>3. e = (r + n) % WORD
    BY <1>1, Zenon DEF Counters
  <2> HIDE DEF n
  <2>4. (((r + n) % WORD) + (WORD - j)) % INPUT_BUF = ((r + n) + (WORD - j)) % INPUT_BUF
    BY <2>1, ConsConsts, ModShift, Zenon
  <2>5. ((WORD % WORD) + y) % INPUT_BUF = (WORD + y) % INPUT_BUF
    BY <2>1, ConsConsts, ModShift, Zenon
  <2>6. WORD % WORD = 0
    BY ConsConsts
  <2>7. ((e + (WORD - j)) % WORD) % INPUT_BUF = y % INPUT_BUF
    BY <2>1, <2>2, <2>3, <2>4, <2>5, <2>6, Zenon
  <2>8. At_(Minus(e, j)) = Cell(n - j)
    BY <2>7, Zenon DEF At_, Minus, Cell, y
  <2>9. Cell(n - j) = Part(w, e)[i]
    BY <1>1, <2>1, Zenon DEF Parts
  <2> QED
    BY <2>1, <2>8, <2>9, Zenon DEF LineInv
<1> DEFINE ks == {k \in 0 .. Minus(e, w) : \A j \in 1 .. k : At_(Minus(e, j)) # NL}
<1>4. KillLength = CHOOSE k \in ks : \A j \in ks : j <= k
  BY DEF KillLength
<1>5. Minus(e, w) = Edited
  BY DEF Edited
<1>6. Edited \in ks
  <2>1. Edited \in 0 .. Edited
    BY <1>2
  <2>2. \A j \in 1 .. Edited : At_(Minus(e, j)) # NL
    BY <1>3
  <2> QED
    BY <1>5, <2>1, <2>2, Zenon
<1>7. ks \subseteq 0 .. Edited
  BY <1>5, Zenon
<1> HIDE DEF ks
<1>8. Edited \in ks /\ \A j \in ks : j <= Edited
  BY <1>2, <1>6, <1>7
<1>9. ASSUME NEW k \in ks, \A j \in ks : j <= k PROVE k = Edited
  BY <1>2, <1>7, <1>8, <1>9
<1>10. (CHOOSE k \in ks : \A j \in ks : j <= k) = Edited
  BY <1>8, <1>9
<1> QED
  BY <1>4, <1>10, Zenon

\* What consoleintr() does with one key, as the line queue sees it.
LEMMA IntrSeen ==
  ASSUME ConsTypes, CountInv, LineInv, ConsoleIntr
  PROVE  /\ ConsTypes' /\ CountInv' /\ LineInv'
         /\ \/ UNCHANGED <<Part(w, e), Part(r, w)>>
            \/ \E c \in Kept : Lines!Type(c)
            \/ Lines!Erase(1) \/ Lines!Erase(Len(Part(w, e)))
<1> DEFINE c == Head(typed)
           L == Part(w, e)
           M == Part(r, w)
           K == Kept \cup {""}
<1>1. Parts /\ Ranges
  BY PartsSeen DEF Counters
<1>a. Ready \in Nat /\ Edited \in Nat /\ INPUT_BUF \in Nat
  BY <1>1, ConsSizes DEF Ranges
<1>b. Len(L) = Edited /\ L \in Seq(K)
  BY <1>1, Zenon DEF Parts
<1> HIDE DEF K
<1>c. Minus(e, r) \in Nat
  BY <1>1, <1>a DEF Ranges
<1>2. Minus(e, r) = Ready + Edited /\ Len(L) = Edited /\ Len(M) = Ready
  BY <1>1, Zenon DEF Ranges, Parts
<1>3. typed \in Seq(Kept \cup {CtrlU, CtrlH}) /\ typed # << >> /\ typed' = Tail(typed) /\ r' = r
  BY DEF ConsoleIntr, ConsTypes
<1>4. c \in Kept \cup {CtrlU, CtrlH} /\ typed' \in Seq(Kept \cup {CtrlU, CtrlH})
  BY <1>3
<1> HIDE DEF c
<1>5. ASSUME NEW x \in Int PROVE Minus(e, x) \in 0 .. (WORD - 1)
  <2>1. e + (WORD - x) \in Int
    BY <1>1, ConsSizes DEF Ranges
  <2> QED
    BY <2>1, ConsConsts, ModType, Zenon DEF Minus
<1>6. ASSUME NEW k \in Nat, k <= Edited, e' = Minus(e, k), UNCHANGED <<ring, w>>
      PROVE  ConsTypes' /\ CountInv' /\ LineInv' /\ Lines!Erase(k)
  <2>1. ConsTypes'
    <3>1. k \in Int
      OBVIOUS
    <3>2. e' \in 0 .. (WORD - 1)
      BY <1>5, <1>6, <3>1, Zenon
    <3> QED
      BY <1>3, <1>4, <1>6, <3>2, Zenon DEF ConsTypes
  <2>2. CountInv' /\ M' = M /\ L' = SubSeq(L, 1, Edited - k) /\ Edited' = Edited - k
    BY <1>3, <1>6, <2>1, KeysErased, Zenon
  <2>3. LineInv'
    <3> HIDE DEF L, M
    <3>1. \A i \in 1 .. (Edited - k) : SubSeq(L, 1, Edited - k)[i] = L[i]
      BY <1>a, <1>b, <1>6
    <3>2. \A i \in 1 .. (Edited - k) : i \in 1 .. Edited
      BY <1>a, <1>6
    <3>3. \A i \in 1 .. Edited : L[i] # NL
      BY Zenon DEF L, LineInv
    <3>4. \A i \in 1 .. Edited' : L'[i] # NL
      BY <2>2, <3>1, <3>2, <3>3, Zenon
    <3> QED
      BY <3>4, Zenon DEF L, LineInv
  <2>4. Lines!Erase(k)
    BY <1>2, <1>6, <2>2, Zenon DEF Lines!Erase
  <2> QED
    BY <2>1, <2>2, <2>3, <2>4
<1>7. CASE c = CtrlU
  <2>1. e' = Minus(e, KillLength) /\ UNCHANGED <<ring, w>>
    BY <1>7 DEF ConsoleIntr, CtrlU, CtrlH, c
  <2>2. PICK k \in Nat : k = Edited
    BY <1>a
  <2>a. k <= Edited
    BY <1>a, <2>2
  <2>3. e' = Minus(e, k) /\ k <= Edited /\ k = Len(L)
    BY <1>2, <2>1, <2>2, <2>a, WholeLine, Zenon
  <2> QED
    BY <1>6, <2>1, <2>3, Zenon
<1>8. CASE c = CtrlH
  <2>1. e' = (IF e # w THEN Minus(e, 1) ELSE e) /\ UNCHANGED <<ring, w>>
    BY <1>8 DEF ConsoleIntr, CtrlU, CtrlH, c
  <2>2. CASE e # w
    <3>1. Edited # 0
      BY <1>1, <2>2, Counting, Zenon DEF Ranges, Edited
    <3>2. 1 \in Nat /\ 1 <= Edited
      BY <1>a, <3>1
    <3> QED
      BY <1>6, <2>1, <2>2, <3>2, Zenon
  <2>3. CASE e = w
    <3>1. UNCHANGED <<ring, r, w, e>>
      BY <1>3, <2>1, <2>3
    <3> QED
      BY <1>3, <1>4, <3>1 DEF ConsTypes, CountInv, LineInv, Ready, Edited, Minus, Part, At_
  <2> QED
    BY <2>2, <2>3
<1>9. CASE c \notin {CtrlU, CtrlH} /\ Minus(e, r) >= INPUT_BUF
  <2>1. UNCHANGED <<ring, r, w, e>>
    <3>1. ~(Minus(e, r) < INPUT_BUF)
      BY <1>a, <1>c, <1>9
    <3> QED
      BY <1>3, <1>9, <3>1, Zenon DEF ConsoleIntr, c
  <2> QED
    BY <1>3, <1>4, <2>1 DEF ConsTypes, CountInv, LineInv, Ready, Edited, Minus, Part, At_
<1>10. CASE c \notin {CtrlU, CtrlH} /\ Minus(e, r) < INPUT_BUF
  <2>1. /\ ring' = [ring EXCEPT ![e % INPUT_BUF] = c] /\ e' = (e + 1) % WORD
        /\ w' = IF c \in {NL, CtrlD} \/ RingFull(e') THEN e' ELSE w
    <3>1. ~(Minus(e, r) >= INPUT_BUF)
      BY <1>a, <1>c, <1>10
    <3> QED
      BY <1>10, <3>1, Zenon DEF ConsoleIntr, c
  <2>2. PICK d \in Kept : d = c
    BY <1>4, <1>10
  <2>3. Minus(e', r) = Ready + Edited + 1 /\ e' \in 0 .. (WORD - 1)
    BY <1>10, <2>1, RoomForKey, Zenon
  <2>4. RingFull(e') <=> Len(M) + Len(L) + 1 = INPUT_BUF
    BY <1>2, <2>3, Zenon DEF RingFull
  <2>5. ring' = [ring EXCEPT ![e % INPUT_BUF] = d]
    BY <2>1, <2>2, Zenon
  <2>6. ConsTypes'
    <3>1. ring' \in [0 .. (INPUT_BUF - 1) -> Kept \cup {""}]
      BY <1>3, <1>10, <2>5, KeyStored, Zenon
    <3>2. w' \in 0 .. (WORD - 1) /\ r' \in 0 .. (WORD - 1)
      BY <1>1, <1>3, <2>1, <2>3, Zenon DEF Ranges
    <3> QED
      BY <1>4, <2>3, <3>1, <3>2 DEF ConsTypes
  <2>7. Len(M) + Len(L) < INPUT_BUF
    BY <1>2, <1>10, Zenon
  <2>8. CASE c \in {NL, CtrlD} \/ RingFull(e')
    <3>1. w' = e'
      BY <2>1, <2>8
    <3>2. CountInv' /\ M' = M \o Append(L, d) /\ L' = << >> /\ Edited' = 0
      BY <1>3, <1>10, <2>1, <2>5, <2>6, <3>1, LineFinished, Zenon
    <3>3. LineInv'
      BY <3>2 DEF LineInv
    <3>4. Lines!Type(d)
      BY <2>2, <2>4, <2>7, <2>8, <3>2, Zenon DEF Lines!Type
    <3> QED
      BY <2>6, <3>2, <3>3, <3>4, Zenon
  <2>9. CASE ~(c \in {NL, CtrlD} \/ RingFull(e'))
    <3>1. w' = w
      BY <2>1, <2>9
    <3>2. CountInv' /\ M' = M /\ L' = Append(L, d) /\ Edited' = Edited + 1
      BY <1>3, <1>10, <2>1, <2>5, <2>6, <3>1, KeyAppended, Zenon
    <3>3. LineInv'
      <4>1. \A i \in 1 .. Edited : L[i] # NL
        BY Zenon DEF LineInv
      <4> HIDE DEF L
      <4>2. \A i \in 1 .. (Edited + 1) : Append(L, d)[i] = IF i = Edited + 1 THEN d ELSE L[i]
        <5>1. d \in K
          BY DEF K
        <5> QED
          BY <1>a, <1>b, <5>1
      <4>3. \A i \in 1 .. (Edited + 1) : i = Edited + 1 \/ i \in 1 .. Edited
        BY <1>a
      <4>4. d # NL
        BY <2>2, <2>9
      <4>5. \A i \in 1 .. Edited' : L'[i] # NL
        BY <3>2, <4>1, <4>2, <4>3, <4>4, Zenon
      <4> QED
        BY <4>5, Zenon DEF L, LineInv
    <3>4. Lines!Type(d)
      BY <2>2, <2>4, <2>7, <2>9, <3>2, Zenon DEF Lines!Type
    <3> QED
      BY <2>6, <3>2, <3>3, <3>4, Zenon
  <2> QED
    BY <2>8, <2>9
<1>11. Minus(e, r) < INPUT_BUF \/ Minus(e, r) >= INPUT_BUF
  BY <1>a, <1>c
<1> QED
  BY <1>7, <1>8, <1>9, <1>10, <1>11, Zenon

\* What the steps of readers do, as the line queue sees it.
LEMMA ReadSeen ==
  ASSUME ConsTypes, CountInv, LineInv, NEW q \in Readers,
         \/ ReadStart(q) \/ ReadWake(q) \/ ReadTurn(q) \/ ReadSleep(q) \/ KillReader(q) \/ UNCHANGED consvars
  PROVE  /\ ConsTypes' /\ CountInv' /\ LineInv'
         /\ UNCHANGED <<Part(w, e), Part(r, w)>> \/ Lines!Take
<1>1. UNCHANGED <<ring, w, e, typed>> /\ (r' = r \/ (r # w /\ r' = (r + 1) % WORD))
  BY DEF ReadStart, ReadWake, ReadTurn, ReadSleep, KillReader, consvars
<1>2. CASE r' = r
  BY <1>1, <1>2 DEF ConsTypes, CountInv, LineInv, Ready, Edited, Minus, Part, At_
<1>3. CASE r # w /\ r' = (r + 1) % WORD
  <2>1. r' \in 0 .. (WORD - 1)
    <3>1. r \in 0 .. (WORD - 1)
      BY Zenon DEF ConsTypes
    <3>2. r + 1 \in Int
      BY <3>1, ConsSizes
    <3> QED
      BY <1>3, <3>2, ConsConsts, ModType, Zenon
  <2>2. ConsTypes'
    BY <1>1, <2>1, Zenon DEF ConsTypes
  <2>3. /\ CountInv' /\ Part(r, w) # << >> /\ Part(r, w)' = Tail(Part(r, w)) /\ Part(w, e)' = Part(w, e)
        /\ Edited' = Edited
    BY <1>1, <1>3, <2>2, KeyTaken, Zenon
  <2>4. LineInv'
    BY <2>3, Zenon DEF LineInv
  <2>5. Lines!Take
    BY <2>3, Zenon DEF Lines!Take
  <2> QED
    BY <2>2, <2>3, <2>4, <2>5, Zenon
<1> QED
  BY <1>1, <1>2, <1>3, Zenon

\* wakeup(&input.r) is called whenever something is finished, and consoleread() keeps the
\* interrupt out from its test of the ring until it sleeps.
LEMMA ToldStep ==
  ASSUME ConsTypes, CountInv, ToldInv, [ConsNext]_consvars
  PROVE  ToldInv'
<1> DEFINE Pcs == {"idle", "read", "sleepy", "sleep", "wake"}
<1>0. rpc \in [Readers -> Pcs] /\ \A q \in Readers : rpc[q] \in {"sleep", "sleepy"} => r = w
  BY DEF ToldInv
<1>1. CASE ConsoleIntr
  <2>1. \A q \in Readers : rpc[q] # "sleepy"
    BY <1>1 DEF ConsoleIntr, Unlocked
  <2>2. CASE w' = w /\ rpc' = rpc
    BY <1>1, <2>2 DEF ConsoleIntr, ToldInv
  <2>3. CASE rpc' = Woken
    <3>1. rpc' \in [Readers -> Pcs]
      BY <1>0, <2>3 DEF Woken
    <3>2. \A q \in Readers : rpc'[q] \notin {"sleep", "sleepy"}
      BY <2>1, <2>3 DEF Woken
    <3> QED
      BY <3>1, <3>2 DEF ToldInv
  <2>4. (w' = w /\ rpc' = rpc) \/ rpc' = Woken
    <3>1. CASE Wakes(Head(typed))
      BY <1>1, <3>1, Zenon DEF ConsoleIntr
    <3>2. CASE ~Wakes(Head(typed))
      BY <1>1, <3>2, Zenon DEF ConsoleIntr, Wakes
    <3> QED
      BY <3>1, <3>2
  <2> QED
    BY <2>2, <2>3, <2>4
<1>2. ASSUME NEW q \in Readers, ReadTurn(q) PROVE ToldInv'
  <2>1. w' = w
    BY <1>2 DEF ReadTurn
  <2>2. CASE r = w
    <3>1. r' = r /\ \E l \in {"idle", "sleepy"} : rpc' = [rpc EXCEPT ![q] = l]
      BY <1>2, <2>2 DEF ReadTurn
    <3>2. rpc' \in [Readers -> Pcs]
      BY <1>0, <3>1
    <3> QED
      BY <2>1, <2>2, <3>1, <3>2 DEF ToldInv
  <2>3. CASE r # w
    <3>1. \E l \in {"idle", "read"} : rpc' = [rpc EXCEPT ![q] = l]
      BY <1>2, <2>3 DEF ReadTurn
    <3>2. \A p \in Readers : rpc'[p] \notin {"sleep", "sleepy"}
      BY <1>0, <2>3, <3>1
    <3>3. rpc' \in [Readers -> Pcs]
      BY <1>0, <3>1
    <3> QED
      BY <3>2, <3>3 DEF ToldInv
  <2> QED
    BY <2>2, <2>3
<1>3. ASSUME NEW q \in Readers, ReadStart(q) \/ ReadWake(q) \/ ReadSleep(q) \/ KillReader(q) PROVE ToldInv'
  <2>1. r' = r /\ w' = w
    BY <1>3 DEF ReadStart, ReadWake, ReadSleep, KillReader
  <2>2. \/ \E l \in {"idle", "read", "wake"} : rpc' = [rpc EXCEPT ![q] = l]
        \/ rpc[q] = "sleepy" /\ rpc' = [rpc EXCEPT ![q] = "sleep"]
        \/ rpc' = rpc
    <3>1. CASE ReadStart(q)
      BY <3>1 DEF ReadStart
    <3>2. CASE ReadWake(q)
      BY <3>2 DEF ReadWake
    <3>3. CASE ReadSleep(q)
      BY <3>3 DEF ReadSleep
    <3>4. CASE KillReader(q)
      BY <3>4 DEF KillReader
    <3> QED
      BY <1>3, <3>1, <3>2, <3>3, <3>4
  <2>3. rpc' \in [Readers -> Pcs]
    BY <1>0, <2>2
  <2>4. \A p \in Readers : rpc'[p] \in {"sleep", "sleepy"} => rpc[p] \in {"sleep", "sleepy"}
    BY <1>0, <2>2
  <2> QED
    BY <1>0, <2>1, <2>3, <2>4 DEF ToldInv
<1>4. CASE UNCHANGED consvars
  BY <1>4 DEF consvars, ToldInv
<1> QED
  BY <1>1, <1>2, <1>3, <1>4 DEF ConsNext

\* The ring is empty when the console is opened, wherever its counters stand.
LEMMA ConsInitial == ConsInit => ConsInv /\ Ready = 0 /\ Edited = 0
<1> SUFFICES ASSUME ConsInit PROVE ConsInv /\ Ready = 0 /\ Edited = 0
  OBVIOUS
<1>1. ConsTypes
  BY RingAssumption DEF ConsInit, ConsTypes, Kept
<1>2. Ready = 0 /\ Edited = 0
  BY <1>1, Counting DEF ConsInit, ConsTypes, Ready, Edited
<1>3. CountInv /\ LineInv
  BY <1>2, ConsSizes DEF CountInv, LineInv
<1>4. ToldInv
  BY DEF ConsInit, ToldInv
<1> QED
  BY <1>1, <1>2, <1>3, <1>4 DEF ConsInv

\* The steps of the console.
LEMMA ConsStep ==
  ASSUME ConsInv, [ConsNext]_consvars
  PROVE  ConsInv' /\ [Lines!Next]_<<Part(w, e), Part(r, w)>>
<1>1. ConsTypes /\ CountInv /\ LineInv /\ ToldInv
  BY DEF ConsInv
<1>2. ToldInv'
  BY <1>1, ToldStep
<1>3. CASE ConsoleIntr
  BY <1>1, <1>2, <1>3, IntrSeen, Zenon DEF ConsInv, Lines!Next, Kept
<1>4. ASSUME NEW q \in Readers, ReadStart(q) \/ ReadWake(q) \/ ReadTurn(q) \/ ReadSleep(q) \/ KillReader(q)
      PROVE  ConsInv' /\ [Lines!Next]_<<Part(w, e), Part(r, w)>>
  BY <1>1, <1>2, <1>4, ReadSeen, Zenon DEF ConsInv, Lines!Next
<1>5. CASE UNCHANGED consvars
  BY <1>2, <1>5 DEF consvars, ConsInv, ConsTypes, CountInv, LineInv, Ready, Edited, Minus, Part, At_
<1> QED
  BY <1>3, <1>4, <1>5 DEF ConsNext

\* Nobody sleeps in consoleread() for input that is there: no wakeup is lost between the
\* test of the ring and sleep(), or when a full ring is handed over without a newline.
THEOREM NoLostInput == ConsSpec => []ReaderIsTold
<1>1. ConsInv => ReaderIsTold
  BY DEF ConsInv, ToldInv, ReaderIsTold
<1>2. ConsInit => ConsInv
  BY ConsInitial
<1>3. ConsInv /\ [ConsNext]_consvars => ConsInv'
  BY ConsStep
<1> QED
  BY <1>1, <1>2, <1>3, PTL DEF ConsSpec

\* The console's ring, with its three wrapping counters, is the line queue: keys reach
\* the readers in the order they were typed, ^U and backspace take back only what is
\* still being edited, and the ring is never overrun (consoleintr(), consoleread()).
THEOREM ConsoleRefines == ConsSpec => LinesAreKept
<1>1. ConsInit => ConsInv /\ Lines!Init
  <2> SUFFICES ASSUME ConsInit PROVE ConsInv /\ Lines!Init
    OBVIOUS
  <2>1. ConsInv /\ Ready = 0 /\ Edited = 0
    BY ConsInitial
  <2>2. Parts
    BY <2>1, PartsSeen DEF ConsInv
  <2>3. Len(Part(r, w)) = 0 /\ Len(Part(w, e)) = 0 /\ Part(r, w) \in Seq(Kept \cup {""}) /\ Part(w, e) \in Seq(Kept \cup {""})
    BY <2>1, <2>2, Zenon DEF Parts
  <2>4. Part(r, w) = << >> /\ Part(w, e) = << >>
    BY <2>3
  <2> QED
    BY <2>1, <2>4 DEF Lines!Init
<1>2. ConsInv /\ [ConsNext]_consvars => ConsInv' /\ [Lines!Next]_<<Part(w, e), Part(r, w)>>
  BY ConsStep
<1> QED
  BY <1>1, <1>2, PTL DEF ConsSpec, LinesAreKept, Lines!Spec

=============================================================================
