------------------------------ MODULE NatFacts ------------------------------
(***************************************************************************)
(* Facts about natural numbers that several proofs need: sets of naturals  *)
(* have a least element, and the arithmetic of counters that wrap around   *)
(* (remainders, when one modulus divides another).                         *)
(***************************************************************************)
EXTENDS Integers, WellFoundedInduction, TLAPS

\* A set of naturals that is not empty has a least element: what a search from
\* the start of a table (allocproc(), kill(), bget()) finds.
LEMMA LeastElement ==
  ASSUME NEW S, S \subseteq Nat, S # {}
  PROVE  \E m \in S : \A n \in S : m <= n
<1>1. \A n, m \in Nat : n < m => <<n, m>> \in OpToRel(<, Nat)
  BY DEF OpToRel
<1>2. \E m \in S : \A n \in S : ~(<<n, m>> \in OpToRel(<, Nat))
  BY NatLessThanWellFounded, WFMin
<1>3. \E m \in S : \A n \in S : ~(n < m)
  BY <1>1, <1>2, Zenon
<1> QED
  BY <1>3

\* A non-empty set of naturals with a bound has a greatest element.
LEMMA GreatestElement ==
  ASSUME NEW n \in Nat, NEW S, S \subseteq 0 .. n, S # {}
  PROVE  \E m \in S : \A k \in S : k <= m
<1> DEFINE R == {c \in Nat : c <= n /\ n - c \in S}
<1>1. R \subseteq Nat /\ R # {}
  <2>1. PICK k \in S : k \in 0 .. n
    OBVIOUS
  <2>2. n - k \in R
    <3>1. n - (n - k) = k /\ n - k \in Nat /\ n - k <= n
      BY <2>1
    <3> QED
      BY <3>1
  <2> QED
    BY <2>2
<1>2. PICK c \in R : \A d \in R : c <= d
  BY <1>1, LeastElement, Zenon
<1>3. ASSUME NEW k \in S
      PROVE  k <= n - c
  <2>1. k \in 0 .. n /\ n - (n - k) = k /\ n - k \in Nat /\ n - k <= n
    OBVIOUS
  <2>2. n - k \in R
    BY <2>1
  <2>3. c <= n - k /\ c \in Nat
    BY <1>2, <2>2
  <2> QED
    BY <2>1, <2>3
<1> QED
  BY <1>2, <1>3

\* The remainder is in range.
LEMMA ModType ==
  ASSUME NEW P \in Nat \ {0}, NEW x \in Int
  PROVE  x % P \in 0 .. (P - 1)
  OBVIOUS

\* Every integer is a multiple of P plus its remainder,
LEMMA ModSplit ==
  ASSUME NEW P \in Nat \ {0}, NEW x \in Int
  PROVE  \E q \in Int : x = (P * q) + (x % P)
<1>1. x = (P * (x \div P)) + (x % P) /\ (x \div P) \in Int
  OBVIOUS
<1> QED
  BY <1>1

\* and no other number below P is such a remainder.
LEMMA ModUnique ==
  ASSUME NEW P \in Nat \ {0}, NEW q \in Int, NEW s \in 0 .. (P - 1)
  PROVE  ((P * q) + s) % P = s
  OBVIOUS

\* A counter that is within one turn of its range: what % does to it.
LEMMA ModTurn ==
  ASSUME NEW P \in Nat \ {0}, NEW x \in Int
  PROVE  /\ x \in 0 .. (P - 1) => x % P = x
         /\ x \in P .. (2 * P - 1) => x % P = x - P
         /\ x \in (-P) .. -1 => x % P = x + P
  OBVIOUS

\* Counting on by one.
LEMMA ModNext ==
  ASSUME NEW P \in Nat \ {0}, NEW x \in Int
  PROVE  (x + 1) % P = IF (x % P) + 1 = P THEN 0 ELSE (x % P) + 1
<1>0. x + 1 \in Int /\ (x % P) \in 0 .. (P - 1)
  OBVIOUS
<1>1. PICK q \in Int : x = (P * q) + (x % P)
  BY ModSplit, Zenon
<1>2. CASE (x % P) + 1 = P
  <2>1. x + 1 = (P * (q + 1)) + 0 /\ q + 1 \in Int /\ 0 \in 0 .. (P - 1)
    BY <1>1, <1>2
  <2>2. ((P * (q + 1)) + 0) % P = 0
    BY <2>1, ModUnique, Zenon
  <2>3. (x + 1) % P = 0
    BY <2>2, <2>1, Zenon
  <2> QED
    BY <2>3, <1>2
<1>3. CASE (x % P) + 1 < P
  <2>1. x + 1 = (P * q) + ((x % P) + 1) /\ ((x % P) + 1) \in 0 .. (P - 1)
    BY <1>0, <1>1, <1>3
  <2>2. ((P * q) + ((x % P) + 1)) % P = (x % P) + 1
    BY <2>1, ModUnique, Zenon
  <2>3. (x + 1) % P = (x % P) + 1
    BY <2>2, <2>1, Zenon
  <2> QED
    BY <2>3, <1>3, <1>0
<1> QED
  BY <1>0, <1>2, <1>3

\* Going back a whole turn changes nothing.
LEMMA ModBack ==
  ASSUME NEW P \in Nat \ {0}, NEW x \in Int
  PROVE  (x - P) % P = x % P
<1> DEFINE s == x % P
<1>0. s \in 0 .. (P - 1)
  OBVIOUS
<1>1. PICK q \in Int : x = (P * q) + s
  BY ModSplit, Zenon
<1> HIDE DEF s
<1>2. x - P = (P * (q - 1)) + s /\ q - 1 \in Int
  BY <1>0, <1>1
<1>3. ((P * (q - 1)) + s) % P = s
  BY <1>0, <1>2, ModUnique, Zenon
<1>4. (x - P) % P = s
  BY <1>2, <1>3, Zenon
<1> QED
  BY <1>4 DEF s

\* A counter that wraps at a multiple of P has the same remainder by P as if it
\* did not wrap.
LEMMA ModMod ==
  ASSUME NEW P \in Nat \ {0}, NEW W \in Nat \ {0}, W % P = 0, NEW x \in Int
  PROVE  (x % W) % P = x % P
<1> DEFINE y == x % W
           z == y % P
<1>0. y \in Int /\ W \in Int /\ z \in 0 .. (P - 1)
  OBVIOUS
<1>1. PICK q \in Int : x = (W * q) + y
  BY ModSplit, <1>0, Zenon
<1>2. PICK k \in Int : W = (P * k) + (W % P)
  BY ModSplit, <1>0, Zenon
<1>3. PICK j \in Int : y = (P * j) + z
  BY ModSplit, <1>0, Zenon
<1> HIDE DEF z, y
<1>4. x = (P * (k * q + j)) + z /\ k * q + j \in Int
  <2>1. W = P * k
    BY <1>2
  <2>2. W * q = P * (k * q)
    BY <2>1
  <2> QED
    BY <1>0, <1>1, <1>3, <2>2
<1>5. ((P * (k * q + j)) + z) % P = z
  BY <1>4, <1>0, ModUnique, Zenon
<1>6. x % P = z
  BY <1>4, <1>5, Zenon
<1> QED
  BY <1>6 DEF y, z

\* Two places of a ring less than one turn apart are different places.
LEMMA ModApart ==
  ASSUME NEW P \in Nat \ {0}, NEW x \in Int, NEW d \in 1 .. (P - 1)
  PROVE  (x + d) % P # x % P
<1> DEFINE s == x % P
<1>0. s \in 0 .. (P - 1) /\ x + d \in Int
  OBVIOUS
<1>1. PICK q \in Int : x = (P * q) + s
  BY ModSplit, Zenon
<1> HIDE DEF s
<1>2. CASE s + d < P
  <2>1. x + d = (P * q) + (s + d) /\ s + d \in 0 .. (P - 1)
    BY <1>0, <1>1, <1>2
  <2>2. ((P * q) + (s + d)) % P = s + d
    BY <2>1, ModUnique, Zenon
  <2>3. (x + d) % P = s + d
    BY <2>1, <2>2, Zenon
  <2> QED
    BY <2>3, <1>0 DEF s
<1>3. CASE s + d >= P
  <2>1. x + d = (P * (q + 1)) + (s + d - P) /\ s + d - P \in 0 .. (P - 1) /\ q + 1 \in Int
    BY <1>0, <1>1, <1>3
  <2>2. ((P * (q + 1)) + (s + d - P)) % P = s + d - P
    BY <2>1, ModUnique, Zenon
  <2>3. (x + d) % P = s + d - P
    BY <2>1, <2>2, Zenon
  <2> QED
    BY <2>3, <1>0 DEF s
<1> QED
  BY <1>0, <1>2, <1>3
\* A wrapped counter and the counter itself name the same place of a ring whose size
\* divides the counter's range, and so do the places at a distance from them.
LEMMA ModShift ==
  ASSUME NEW P \in Nat \ {0}, NEW W \in Nat \ {0}, W % P = 0,
         NEW x \in 0 .. (2 * W - 1), NEW j \in Int
  PROVE  ((x % W) + j) % P = (x + j) % P
<1>1. x + j \in Int /\ (x + j) - W \in Int
  OBVIOUS
<1>2. ((x + j) - W) % P = (x + j) % P
  <2>1. (((x + j) - W) % W) % P = ((x + j) - W) % P
    BY <1>1, ModMod, Zenon
  <2>2. ((x + j) % W) % P = (x + j) % P
    BY <1>1, ModMod, Zenon
  <2>3. ((x + j) - W) % W = (x + j) % W
    BY <1>1, ModBack, Zenon
  <2> QED
    BY <2>1, <2>2, <2>3, Zenon
<1>3. CASE x < W
  <2>1. x % W = x
    BY <1>3, ModTurn
  <2> QED
    BY <2>1
<1>4. CASE x >= W
  <2>0. x \in W .. (2 * W - 1) /\ x \in Int
    BY <1>4
  <2>1. x % W = x - W
    BY <2>0, ModTurn, Zenon
  <2>2. (x - W) + j = (x + j) - W
    OBVIOUS
  <2> QED
    BY <1>2, <2>1, <2>2, Zenon
<1> QED
  BY <1>3, <1>4

=============================================================================
