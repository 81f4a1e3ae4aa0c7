---------------------------- MODULE AssignProofs ----------------------------
(***************************************************************************)
(* Proofs about the programs of the assignment.                            *)
(*                                                                         *)
(* ChildPool, for every MAX_CHILDREN and every set of process ids:         *)
(* SlotsConserved bounds sem only together with the types, and the types   *)
(* need sem's bound: the two are proved by one induction.                  *)
(*                                                                         *)
(* ThreadSum, for every number of threads and every length of a query: the *)
(* runs dealt out so far tile the first currentStart trapezoids, and total *)
(* counts those of the threads that have added theirs.                     *)
(***************************************************************************)
EXTENDS ChildPool, ThreadSum, FiniteSetTheorems, NatFacts

\* What main() may rely on between any two steps of the children and the handler.
PoolInv == TypeOK /\ SlotsConserved /\ ZombieIsNoticed

\* The unreaped children are finitely many.
LEMMA UnreapedFinite == IsFiniteSet(Unreaped) /\ Cardinality(Unreaped) \in Nat
  BY PoolAssumption, FS_Subset, FS_CardinalityType DEF Unreaped

\* Reaping a zombie takes one from the unreaped children.
LEMMA ReapOne ==
  ASSUME TypeOK, NEW c \in Pids, child[c] # "none",
         child' = [child EXCEPT ![c] = "none"]
  PROVE  Cardinality(Unreaped') = Cardinality(Unreaped) - 1
<1>1. Unreaped' = Unreaped \ {c} /\ c \in Unreaped
  BY DEF Unreaped, TypeOK
<1> QED
  BY <1>1, UnreapedFinite, FS_RemoveElement

\* A fork adds one to the unreaped children.
LEMMA ForkOne ==
  ASSUME TypeOK, NEW c \in Pids, child[c] = "none",
         child' = [child EXCEPT ![c] = "running"]
  PROVE  Cardinality(Unreaped') = Cardinality(Unreaped) + 1
<1>1. Unreaped' = Unreaped \cup {c} /\ c \notin Unreaped
  BY DEF Unreaped, TypeOK
<1> QED
  BY <1>1, UnreapedFinite, FS_AddElement

\* The slots add up after every step.
LEMMA SlotStep ==
  ASSUME PoolInv, [Next]_vars
  PROVE  SlotsConserved' /\ sem' \in 0 .. MAX_CHILDREN
<1>0. /\ TypeOK /\ SlotsConserved /\ MAX_CHILDREN \in Nat
      /\ sem \in Nat /\ Cardinality(Unreaped) \in Nat
  BY PoolAssumption, UnreapedFinite DEF PoolInv, TypeOK
<1>1. Cardinality(Unreaped') \in Nat /\ sem' \in Nat /\ SlotsConserved'
  <2>0. Cardinality(Unreaped') \in Nat
    BY PoolAssumption, FS_Subset, FS_CardinalityType DEF Unreaped
  <2>1. ASSUME NEW c \in Pids, ForkChild(c)
        PROVE  sem' \in Nat /\ SlotsConserved'
    <3>1. Cardinality(Unreaped') = Cardinality(Unreaped) + 1
      BY <1>0, <2>1, ForkOne DEF ForkChild
    <3> QED
      BY <1>0, <2>1, <3>1 DEF ForkChild, MainAt, SlotsConserved, One
  <2>2. ASSUME NEW c \in Pids, HandlerReap(c) \/ MainReap(c)
        PROVE  sem' \in Nat /\ SlotsConserved'
    <3>1. Cardinality(Unreaped') = Cardinality(Unreaped) - 1
      BY <1>0, <2>2, ReapOne DEF HandlerReap, MainReap
    <3> QED
      BY <1>0, <2>2, <3>1 DEF HandlerReap, MainReap, MainAt, SlotsConserved, One
  <2>3. ASSUME NEW c \in Pids, ChildExit(c)
        PROVE  sem' \in Nat /\ SlotsConserved'
    <3>1. Unreaped' = Unreaped
      BY <1>0, <2>3 DEF ChildExit, Unreaped, TypeOK
    <3> QED
      BY <1>0, <2>3, <3>1 DEF ChildExit, SlotsConserved
  <2>4. CASE SemWait \/ ValidInput \/ InvalidInput \/ ForkFails
    <3>1. Unreaped' = Unreaped
      BY <2>4 DEF SemWait, ValidInput, InvalidInput, ForkFails, Unreaped
    <3> QED
      BY <1>0, <2>4, <3>1 DEF SemWait, ValidInput, InvalidInput, ForkFails, MainAt, SlotsConserved, One
  <2>5. CASE HandlerEnter \/ HandlerPost \/ HandlerReturn \/ MainPost \/ MainExit
    <3>1. Unreaped' = Unreaped
      BY <2>5 DEF HandlerEnter, HandlerPost, HandlerReturn, MainPost, MainExit, Unreaped
    <3> QED
      BY <1>0, <2>5, <3>1 DEF HandlerEnter, HandlerPost, HandlerReturn, MainPost, MainExit,
                              MainAt, SlotsConserved, One
  <2>6. CASE UNCHANGED vars
    BY <1>0, <2>6 DEF vars, SlotsConserved, Unreaped
  <2> QED
    BY <2>0, <2>1, <2>2, <2>3, <2>4, <2>5, <2>6
       DEF Next, MainLoop, MainDrain, Handler, Terminated
<1> QED
  BY <1>0, <1>1 DEF SlotsConserved, One

\* The invariant is inductive.
LEMMA PoolStep ==
  ASSUME PoolInv, [Next]_vars
  PROVE  PoolInv'
<1> USE DEF PoolInv, MainPc, HandlerPc, ChildState
<1>1. TypeOK'
  BY SlotStep DEF TypeOK, Next, MainLoop, MainDrain, Handler, Terminated, vars, SemWait, ValidInput,
     InvalidInput, ForkChild, ForkFails, ChildExit, HandlerEnter, HandlerReap, HandlerPost,
     HandlerReturn, MainReap, MainPost, MainExit
<1>2. ZombieIsNoticed'
  BY DEF ZombieIsNoticed, TypeOK, Next, MainLoop, MainDrain, Handler, Terminated, vars, SemWait,
     ValidInput, InvalidInput, ForkChild, ForkFails, ChildExit, HandlerEnter, HandlerReap,
     HandlerPost, HandlerReturn, MainReap, MainPost, MainExit
<1> QED
  BY <1>1, <1>2, SlotStep

\* The initial state satisfies the invariant.
LEMMA PoolInit == Init => PoolInv
<1> SUFFICES ASSUME Init PROVE PoolInv
  OBVIOUS
<1>1. Unreaped = {} /\ Cardinality(Unreaped) = 0
  BY FS_EmptySet DEF Init, Unreaped
<1> QED
  BY <1>1, PoolAssumption DEF Init, PoolInv, TypeOK, SlotsConserved,
     ZombieIsNoticed, One, MainPc, HandlerPc, ChildState

\* The invariant holds in every reachable state.
LEMMA PoolAlways == Spec => []PoolInv
  BY PoolInit, PoolStep, PTL DEF Spec

\* The types hold, the semaphore staying within 0 .. MAX_CHILDREN.
THEOREM PoolTypeCorrect == Spec => []TypeOK
  BY PoolAlways, PTL DEF PoolInv

\* No slot of the pool is lost or invented, for any number of slots and any
\* interleaving of main(), the SIGCHLD handler and the children.
THEOREM PoolConservesSlots == Spec => []SlotsConserved
  BY PoolAlways, PTL DEF PoolInv

\* No exited child is forgotten: as long as one is unreaped, a SIGCHLD is pending or
\* the handler is running, although exits that coincide raise one signal only.
THEOREM PoolNoticesZombies == Spec => []ZombieIsNoticed
  BY PoolAlways, PTL DEF PoolInv
-----------------------------------------------------------------------------
(* ThreadSum *)

\* main() is between reading a query and printing its result, and the query has a
\* trapezoid for each thread.
Busy == mpc \in {"create", "join", "print"}
Working == Busy /\ numSteps >= THREADS

Double == [Grid -> Nat] \cup {NaN}

\* The threads that main() has given their run in this query, those it has joined,
\* and those that have added their area to total.
Dealt == {t \in Thread : (mpc = "create" /\ t < i) \/ mpc \in {"join", "print"}}
Joined == {t \in Thread : (mpc = "join" /\ t < i) \/ mpc = "print"}
Done == {t \in Thread : t \in Joined \/ tpc[t] \in {"unlock", "ended"}}

\* The trapezoids of the run of thread t.
Run(t) == {k \in Grid : args[t].start <= k /\ k < args[t].start + args[t].steps}

ThreadTypes ==
  /\ mpc \in {"input", "create", "join", "print", "exited"}
  /\ Busy => numSteps \in Sizes
  /\ mpc \in {"create", "join"} => i \in Thread
  /\ currentStart \in Nat
  /\ args \in [Thread -> [start : Nat, steps : Nat]]
  /\ total \in Double
  /\ mutex \in Thread \cup {None}
  /\ tpc \in [Thread -> {"none", "lock", "load", "store", "unlock", "ended"}]
  /\ reg \in [Thread -> Double]

\* A thread exists from its creation until it is joined; the one inside total += area
\* holds the mutex, and what it has loaded is still what total is.
ThreadsInv ==
  /\ \A t \in Thread : tpc[t] # "none" <=> t \in Dealt \ Joined
  /\ mpc # "exited" => \A t \in Thread : mutex = t <=> tpc[t] \in {"load", "store", "unlock"}
  /\ \A t \in Thread : tpc[t] = "store" => reg[t] = total

\* Where main()'s loop has got to before it deals out the run of the thread j.
Dealing(n, j) == j * (n \div THREADS) + (IF j < n % THREADS THEN j ELSE n % THREADS)

\* The runs dealt out are not empty, follow each other and cover what main() has
\* passed; currentStart is where the closed form says.
RunsInv ==
  Working =>
  /\ \A t \in Dealt : args[t].steps > 0 /\ args[t].start + args[t].steps <= currentStart
  /\ \A s, t \in Dealt : s < t => args[s].start + args[s].steps <= args[t].start
  /\ \A k \in Nat : k < currentStart =>
       \E t \in Dealt : args[t].start <= k /\ k < args[t].start + args[t].steps
  /\ mpc = "create" => currentStart = Dealing(numSteps, i)
  /\ mpc # "create" => currentStart = numSteps

\* total counts each trapezoid of the threads that are done, once.
TotalInv ==
  Working => total = [k \in Grid |-> IF \E t \in Done : k \in Run(t) THEN 1 ELSE 0]

SumInv == ThreadTypes /\ ThreadsInv /\ RunsInv /\ TotalInv
-----------------------------------------------------------------------------
\* The arithmetic of main()'s loop: no run is empty when there are enough trapezoids,
\* each run takes currentStart to the beginning of the next, the last one to numSteps.
LEMMA DealOut ==
  ASSUME NEW n \in Nat, n >= THREADS, NEW j \in Thread
  PROVE  LET s == n \div THREADS + (IF j < n % THREADS THEN 1 ELSE 0)
         IN  /\ s \in Nat \ {0}
             /\ Dealing(n, 0) = 0
             /\ Dealing(n, j) + s = Dealing(n, j + 1)
             /\ j + 1 = THREADS => Dealing(n, j) + s = n
<1> DEFINE q == n \div THREADS
           r == n % THREADS
           s == q + (IF j < r THEN 1 ELSE 0)
<1>0. THREADS \in Nat \ {0} /\ j \in 0 .. (THREADS - 1)
  BY ThreadAssumption DEF Thread
<1>1. q \in Int /\ r \in 0 .. (THREADS - 1) /\ n = (THREADS * q) + r
  BY <1>0
<1> HIDE DEF q, r
<1>2. q >= 1
  <2>1. CASE q <= 0
    <3>1. THREADS * q <= 0
      BY <1>0, <1>1, <2>1
    <3> QED
      BY <1>0, <1>1, <3>1
  <2> QED
    BY <1>1, <2>1
<1>3. /\ 0 * q = 0 /\ (j + 1) * q = (j * q) + q /\ j * q \in Int
      /\ j + 1 = THREADS => (j + 1) * q = THREADS * q
  BY <1>0, <1>1
<1>4. \A c : Dealing(n, c) = c * q + (IF c < r THEN c ELSE r)
  BY DEF Dealing, q, r
<1>5. s \in Nat \ {0}
  BY <1>1, <1>2
<1>6. Dealing(n, 0) = 0
  BY <1>1, <1>3, <1>4
<1>7. Dealing(n, j) + s = Dealing(n, j + 1)
  BY <1>0, <1>1, <1>3, <1>4
<1>8. j + 1 = THREADS => Dealing(n, j) + s = n
  BY <1>0, <1>1, <1>3, <1>4, <1>7
<1> QED
  BY <1>5, <1>6, <1>7, <1>8 DEF s, q, r

\* What the constants give, and that no area is NaN.
LEMMA SumConsts ==
  /\ THREADS \in Nat \ {0} /\ MaxSteps \in Nat /\ Sizes \subseteq 1 .. MaxSteps
  /\ Thread = 0 .. (THREADS - 1) /\ None \notin Thread /\ NaN \notin [Grid -> Nat] /\ Grid \subseteq Nat
  BY ThreadAssumption DEF Thread, None, Grid

\* The invariant holds initially,
LEMMA SumInit == ThreadInit("input") => SumInv
<1> SUFFICES ASSUME ThreadInit("input") PROVE SumInv
  OBVIOUS
<1>1. ThreadTypes
  BY SumConsts DEF ThreadInit, ThreadTypes, Busy, Double, Zero
<1>2. Dealt = {} /\ ~Working
  BY DEF ThreadInit, Dealt, Working, Busy
<1>3. ThreadsInv
  BY <1>2, SumConsts DEF ThreadInit, ThreadsInv
<1> QED
  BY <1>1, <1>2, <1>3 DEF SumInv, RunsInv, TotalInv

\* getValidInput() starts a new query,
LEMMA StepQuery ==
  ASSUME SumInv, NEW n \in Sizes, ReadQuery(n)
  PROVE  SumInv'
<1> USE SumConsts
<1>0. ThreadTypes /\ ThreadsInv
  BY DEF SumInv
<1>1. Dealt = {} /\ Dealt' = {} /\ Joined' = {}
  BY DEF ReadQuery, Dealt, Joined
<1>2. /\ mpc = "input" /\ mpc' = "create" /\ numSteps' = n /\ i' = 0 /\ currentStart' = 0 /\ total' = Zero
      /\ UNCHANGED <<args, mutex, tpc, reg>>
  BY DEF ReadQuery
<1>3. \A t \in Thread : tpc[t] = "none"
  BY <1>0, <1>1 DEF ThreadsInv
<1>4. ThreadTypes'
  BY <1>0, <1>2, SMTT(30) DEF ThreadTypes, Double, Zero
<1>5. ThreadsInv'
  BY <1>0, <1>1, <1>2, <1>3 DEF ThreadsInv
<1>6. Done' = {}
  BY <1>1, <1>2, <1>3 DEF Done
<1>7. RunsInv'
  <2>1. n >= THREADS => Dealing(n, 0) = 0
    BY DealOut
  <2> QED
    BY <1>1, <1>2, <2>1 DEF RunsInv, Working
<1>8. TotalInv'
  BY <1>2, <1>6 DEF TotalInv, Zero
<1> QED
  BY <1>4, <1>5, <1>7, <1>8 DEF SumInv

\* main() gives the next thread its run,
LEMMA StepCreate ==
  ASSUME SumInv, CreateThread
  PROVE  SumInv'
<1> USE SumConsts
<1>0. ThreadTypes /\ ThreadsInv /\ RunsInv /\ TotalInv
  BY DEF SumInv
<1>1. i \in Thread /\ numSteps \in Nat /\ numSteps \in Sizes
  <2>1. mpc = "create"
    BY DEF CreateThread
  <2>2. i \in Thread /\ numSteps \in Sizes
    BY <1>0, <2>1 DEF ThreadTypes, Busy
  <2> QED
    BY <2>2
<1> DEFINE s == Steps(i)
           Enough == numSteps >= THREADS
<1>2. /\ s \in Nat
      /\ Enough => /\ s # 0 /\ Dealing(numSteps, i) + s = Dealing(numSteps, i + 1)
                   /\ i + 1 = THREADS => Dealing(numSteps, i) + s = numSteps
  <2>1. s \in Nat
    BY <1>1 DEF Steps
  <2> QED
    BY <1>1, <2>1, DealOut DEF Steps
<1>3. currentStart \in Nat /\ (Enough => currentStart = Dealing(numSteps, i))
  BY <1>0 DEF CreateThread, RunsInv, ThreadTypes, Working, Busy
<1>4. /\ mpc = "create" /\ mpc' \in {"create", "join"} /\ i' \in Thread /\ i' >= 0
      /\ mpc' = "create" => i' = i + 1
      /\ mpc' = "join" => i' = 0 /\ i + 1 = THREADS
      /\ currentStart' = currentStart + s
      /\ args' = [args EXCEPT ![i] = [start |-> currentStart, steps |-> s]]
      /\ tpc' = [tpc EXCEPT ![i] = "lock"]
      /\ UNCHANGED <<numSteps, total, mutex, reg>>
  <2>1. CASE i + 1 < THREADS
    BY <1>1, <2>1 DEF CreateThread, NextRound
  <2>2. CASE ~(i + 1 < THREADS)
    BY <1>1, <2>2 DEF CreateThread, NextRound
  <2> QED
    BY <2>1, <2>2
<1>e. (Working <=> Enough) /\ (Working' <=> Enough) /\ Busy /\ Busy'
  BY <1>4 DEF Working, Busy
<1> HIDE DEF s, Enough
<1>5. /\ Dealt' = Dealt \cup {i} /\ i \notin Dealt /\ Joined = {} /\ Joined' = {}
      /\ \A t \in Dealt : t < i
  BY <1>1, <1>4 DEF Dealt, Joined
<1>6. ThreadTypes'
  <2>1. args' \in [Thread -> [start : Nat, steps : Nat]] /\ tpc' \in [Thread -> {"none", "lock", "load", "store", "unlock", "ended"}]
    BY <1>0, <1>1, <1>2, <1>3, <1>4 DEF ThreadTypes
  <2>2. currentStart' \in Nat
    BY <1>2, <1>3, <1>4
  <2> QED
    BY <1>0, <1>1, <1>4, <2>1, <2>2, <1>e DEF ThreadTypes
<1>7. tpc[i] = "none" /\ mutex # i
  BY <1>0, <1>1, <1>4, <1>5 DEF ThreadsInv
<1>8. /\ tpc'[i] = "lock" /\ \A t \in Thread : t # i => tpc'[t] = tpc[t]
      /\ args'[i] = [start |-> currentStart, steps |-> s]
      /\ \A t \in Thread : t # i => args'[t] = args[t]
  BY <1>0, <1>1, <1>4 DEF ThreadTypes
<1>9. ThreadsInv'
  BY <1>0, <1>4, <1>5, <1>7, <1>8 DEF ThreadsInv
<1>10. Done' = Done /\ i \notin Done
  BY <1>5, <1>7, <1>8 DEF Done
<1>11. TotalInv'
  <2>1. \A t \in Done : Run(t)' = Run(t)
    BY <1>8, <1>10 DEF Run, Done
  <2> QED
    BY <1>0, <1>4, <1>10, <2>1, <1>e DEF TotalInv
<1>12. ASSUME Enough, NEW t \in Dealt'
       PROVE  args'[t].steps > 0 /\ args'[t].start + args'[t].steps <= currentStart'
  <2>1. CASE t = i
    BY <1>2, <1>3, <1>4, <1>8, <1>12, <2>1
  <2>2. CASE t # i
    <3>1. t \in Dealt /\ t \in Thread
      BY <1>5, <2>2 DEF Dealt
    <3>2. args[t].steps > 0 /\ args[t].start + args[t].steps <= currentStart
      BY <1>0, <1>12, <1>e, <3>1 DEF RunsInv
    <3>3. args[t].start \in Nat /\ args[t].steps \in Nat
      BY <1>0, <3>1 DEF ThreadTypes
    <3> QED
      BY <1>2, <1>3, <1>4, <1>8, <2>2, <3>1, <3>2, <3>3, SMTT(30)
  <2> QED
    BY <2>1, <2>2
<1>13. ASSUME Enough, NEW u \in Dealt', NEW t \in Dealt', u < t
       PROVE  args'[u].start + args'[u].steps <= args'[t].start
  <2>1. u \in Dealt /\ u # i /\ u \in Thread
    BY <1>1, <1>5, <1>13 DEF Dealt
  <2>2. CASE t = i
    BY <1>0, <1>8, <1>13, <1>e, <2>1, <2>2 DEF RunsInv
  <2>3. CASE t # i
    <3>1. t \in Dealt /\ t \in Thread
      BY <1>5, <2>3 DEF Dealt
    <3> QED
      BY <1>0, <1>8, <1>13, <1>e, <2>1, <2>3, <3>1 DEF RunsInv
  <2> QED
    BY <2>2, <2>3
<1>14. ASSUME Enough, NEW k \in Nat, k < currentStart'
       PROVE  \E t \in Dealt' : args'[t].start <= k /\ k < args'[t].start + args'[t].steps
  <2>1. CASE k < currentStart
    <3>1. PICK t \in Dealt : args[t].start <= k /\ k < args[t].start + args[t].steps
      BY <1>0, <1>14, <1>e, <2>1 DEF RunsInv
    <3>2. t \in Dealt' /\ args'[t] = args[t]
      BY <1>5, <1>8, <3>1 DEF Dealt
    <3> QED
      BY <3>1, <3>2
  <2>2. CASE currentStart <= k
    BY <1>3, <1>4, <1>5, <1>8, <1>14, <2>2
  <2> QED
    BY <1>3, <2>1, <2>2
<1>15. Enough => /\ mpc' = "create" => currentStart' = Dealing(numSteps, i')
                 /\ mpc' # "create" => currentStart' = numSteps
  BY <1>2, <1>3, <1>4
<1>16. RunsInv'
  <2>1. CASE Enough
    <3>1. Dealing(numSteps, i)' = Dealing(numSteps, i')
      BY <1>4 DEF Dealing
    <3>2. numSteps' = numSteps
      BY <1>4
    <3>3. \A t \in Dealt' : args'[t].steps > 0 /\ args'[t].start + args'[t].steps <= currentStart'
      BY <1>12, <2>1
    <3>4. \A u, t \in Dealt' : u < t => args'[u].start + args'[u].steps <= args'[t].start
      BY <1>13, <2>1
    <3>5. \A k \in Nat : k < currentStart' =>
            \E t \in Dealt' : args'[t].start <= k /\ k < args'[t].start + args'[t].steps
      BY <1>14, <2>1
    <3> QED
      BY <1>15, <2>1, <3>1, <3>2, <3>3, <3>4, <3>5, Zenon DEF RunsInv
  <2>2. CASE ~Enough
    BY <1>e, <2>2 DEF RunsInv
  <2> QED
    BY <2>1, <2>2
<1> QED
  BY <1>6, <1>9, <1>11, <1>16 DEF SumInv

\* and joins the threads one after the other.
LEMMA StepJoin ==
  ASSUME SumInv, JoinThread
  PROVE  SumInv'
<1> USE SumConsts
<1>0. ThreadTypes /\ ThreadsInv /\ RunsInv /\ TotalInv
  BY DEF SumInv
<1>1. /\ mpc = "join" /\ i \in Thread /\ tpc[i] = "ended" /\ tpc' = [tpc EXCEPT ![i] = "none"]
      /\ UNCHANGED <<numSteps, currentStart, args, total, mutex, reg>>
  BY <1>0 DEF JoinThread, ThreadTypes
<1>2. \/ mpc' = "join" /\ i' = i + 1 /\ i' \in Thread
      \/ mpc' = "print" /\ i' = 0 /\ i + 1 = THREADS
  <2>1. CASE i + 1 < THREADS
    BY <1>1, <2>1 DEF JoinThread, NextRound
  <2>2. CASE ~(i + 1 < THREADS)
    BY <1>1, <2>2 DEF JoinThread, NextRound
  <2> QED
    BY <2>1, <2>2
<1>3. /\ Dealt = Thread /\ Dealt' = Thread /\ Joined' = Joined \cup {i} /\ i \notin Joined
      /\ Busy /\ Busy' /\ (Working' <=> Working)
  BY <1>1, <1>2 DEF Dealt, Joined, Working, Busy
<1>4. tpc'[i] = "none" /\ \A t \in Thread : t # i => tpc'[t] = tpc[t]
  BY <1>0, <1>1 DEF ThreadTypes
<1>5. ThreadTypes'
  BY <1>0, <1>1, <1>2, <1>3 DEF ThreadTypes
<1>6. ThreadsInv'
  BY <1>0, <1>1, <1>2, <1>3, <1>4 DEF ThreadsInv
<1>7. Done' = Done
  BY <1>1, <1>3, <1>4 DEF Done
<1>8. TotalInv'
  BY <1>0, <1>1, <1>3, <1>7 DEF TotalInv, Run
<1>9. RunsInv'
  BY <1>0, <1>1, <1>2, <1>3 DEF RunsInv
<1> QED
  BY <1>5, <1>6, <1>8, <1>9 DEF SumInv

\* Outside main()'s loops nothing is shared.
LEMMA StepIdle ==
  ASSUME SumInv, EndOfInput \/ PrintTotal \/ CreateFails
  PROVE  SumInv'
<1> USE SumConsts
<1>0. ThreadTypes /\ ThreadsInv
  BY DEF SumInv
<1>1. /\ mpc' \in {"input", "exited"} /\ UNCHANGED <<i, currentStart, args, total, mutex, reg>>
      /\ \/ mpc \in {"input", "print"} /\ UNCHANGED tpc
         \/ mpc' = "exited" /\ tpc' = [t \in Thread |-> "none"]
  BY DEF EndOfInput, PrintTotal, CreateFails
<1>2. ~Busy' /\ ~Working' /\ Dealt' = {}
  BY <1>1 DEF Working, Busy, Dealt
<1>3. mpc \in {"input", "print"} => Dealt \ Joined = {}
  BY DEF Dealt, Joined
<1>4. \A t \in Thread : tpc'[t] = "none"
  BY <1>0, <1>1, <1>3 DEF ThreadsInv
<1>5. ThreadTypes'
  BY <1>0, <1>1, <1>2 DEF ThreadTypes
<1>6. ThreadsInv'
  BY <1>0, <1>1, <1>2, <1>4 DEF ThreadsInv
<1> QED
  BY <1>2, <1>5, <1>6 DEF SumInv, RunsInv, TotalInv

\* A thread takes the mutex, reads total or gives the mutex back.
LEMMA StepThread ==
  ASSUME SumInv, NEW t \in Thread, LockMutex(t) \/ LoadTotal(t) \/ UnlockMutex(t)
  PROVE  SumInv'
<1> USE SumConsts
<1>0. ThreadTypes /\ ThreadsInv /\ RunsInv /\ TotalInv
  BY DEF SumInv
<1>1. UNCHANGED <<mpc, numSteps, i, currentStart, args, total>>
  BY DEF LockMutex, LoadTotal, UnlockMutex
<1>2. Dealt' = Dealt /\ Joined' = Joined /\ (Working' <=> Working) /\ (Busy' <=> Busy)
  BY <1>1 DEF Dealt, Joined, Working, Busy
<1>3. tpc[t] \in {"lock", "load", "unlock"} /\ tpc'[t] # "none" /\ \A u \in Thread : u # t => tpc'[u] = tpc[u]
  BY <1>0 DEF ThreadTypes, LockMutex, LoadTotal, UnlockMutex
<1>4. tpc[t] = "unlock" <=> tpc'[t] \in {"unlock", "ended"}
  BY <1>0 DEF ThreadTypes, LockMutex, LoadTotal, UnlockMutex
<1>5. ThreadTypes'
  <2>1. tpc' \in [Thread -> {"none", "lock", "load", "store", "unlock", "ended"}] /\ mutex' \in Thread \cup {None}
    BY <1>0 DEF ThreadTypes, LockMutex, LoadTotal, UnlockMutex
  <2>2. reg' \in [Thread -> Double]
    BY <1>0 DEF ThreadTypes, LockMutex, LoadTotal, UnlockMutex
  <2> QED
    BY <1>0, <1>1, <1>2, <2>1, <2>2 DEF ThreadTypes
<1>6. ThreadsInv'
  <2>1. \A u \in Thread : tpc'[u] # "none" <=> u \in Dealt' \ Joined'
    BY <1>0, <1>2, <1>3 DEF ThreadsInv
  <2>2. mpc # "exited"
    BY <1>0, <1>3 DEF ThreadsInv, Dealt
  <2>3. \A u \in Thread : mutex' = u <=> tpc'[u] \in {"load", "store", "unlock"}
    <3>0. \A u \in Thread : mutex = u <=> tpc[u] \in {"load", "store", "unlock"}
      BY <1>0, <2>2 DEF ThreadsInv
    <3>1. CASE LockMutex(t)
      <4>1. mutex' = t /\ mutex = None /\ tpc'[t] = "load"
        BY <1>0, <3>1 DEF ThreadTypes, LockMutex
      <4> QED
        BY <1>3, <3>0, <4>1
    <3>2. CASE LoadTotal(t)
      <4>1. mutex' = mutex /\ tpc[t] = "load" /\ tpc'[t] = "store"
        BY <1>0, <3>2 DEF ThreadTypes, LoadTotal
      <4> QED
        BY <1>3, <3>0, <4>1
    <3>3. CASE UnlockMutex(t)
      <4>1. mutex' = None /\ tpc[t] = "unlock" /\ tpc'[t] = "ended"
        BY <1>0, <3>3 DEF ThreadTypes, UnlockMutex
      <4> QED
        BY <1>3, <3>0, <4>1
    <3> QED
      BY <1>0, <3>1, <3>2, <3>3
  <2>4. \A u \in Thread : tpc'[u] = "store" => reg'[u] = total'
    BY <1>0, Zenon DEF ThreadTypes, ThreadsInv, LockMutex, LoadTotal, UnlockMutex
  <2> QED
    BY <2>1, <2>3, <2>4 DEF ThreadsInv
<1>7. Done' = Done
  BY <1>2, <1>3, <1>4 DEF Done
<1>8. TotalInv' /\ RunsInv'
  BY <1>0, <1>1, <1>2, <1>7 DEF TotalInv, RunsInv, Run
<1> QED
  BY <1>5, <1>6, <1>8 DEF SumInv

\* A thread adds its area: what it read is still in total, its run is not empty, and
\* no thread that is done had a trapezoid of it.
LEMMA StepStore ==
  ASSUME SumInv, NEW t \in Thread, StoreTotal(t)
  PROVE  SumInv'
<1> USE SumConsts
<1>0. ThreadTypes /\ ThreadsInv /\ RunsInv /\ TotalInv
  BY DEF SumInv
<1>1. /\ UNCHANGED <<mpc, numSteps, i, currentStart, args, mutex, reg>>
      /\ tpc[t] = "store" /\ tpc' = [tpc EXCEPT ![t] = "unlock"]
  BY DEF StoreTotal
<1>2. tpc'[t] = "unlock" /\ \A u \in Thread : u # t => tpc'[u] = tpc[u]
  BY <1>0, <1>1 DEF ThreadTypes
<1>3. /\ Dealt' = Dealt /\ Joined' = Joined /\ (Working' <=> Working)
      /\ t \in Dealt /\ t \notin Joined /\ Busy /\ Busy'
  BY <1>0, <1>1 DEF Dealt, Joined, Working, Busy, ThreadsInv
<1>4. Done' = Done \cup {t} /\ t \notin Done /\ Done \subseteq Dealt
  BY <1>0, <1>1, <1>2, <1>3 DEF Done, ThreadsInv, Joined, Dealt
<1>5. ASSUME Working
      PROVE  /\ args[t].steps \in Nat \ {0} /\ args[t].start \in Nat
             /\ \A u \in Done : Run(u) \cap Run(t) = {}
  <2>1. args[t].steps > 0
    BY <1>0, <1>3, <1>5 DEF RunsInv
  <2>2. ASSUME NEW u \in Done, NEW k \in Grid, k \in Run(u), k \in Run(t)
        PROVE  FALSE
    <3>1. u \in Dealt /\ u \in Thread /\ u # t
      BY <1>4 DEF Dealt
    <3>2. \/ args[u].start + args[u].steps <= args[t].start
          \/ args[t].start + args[t].steps <= args[u].start
      BY <1>0, <1>3, <1>5, <3>1 DEF RunsInv
    <3>3. /\ args[u].start \in Nat /\ args[u].steps \in Nat
          /\ args[t].start \in Nat /\ args[t].steps \in Nat
      BY <1>0, <3>1 DEF ThreadTypes
    <3> QED
      BY <2>2, <3>2, <3>3, SMTT(30) DEF Run
  <2>3. args[t].start \in Nat /\ args[t].steps \in Nat
    BY <1>0 DEF ThreadTypes
  <2>4. \A u : Run(u) \subseteq Grid
    BY DEF Run
  <2>5. \A u \in Done : Run(u) \cap Run(t) = {}
    BY <2>2, <2>4
  <2> QED
    BY <2>1, <2>3, <2>5
<1>6. ASSUME Working
      PROVE  total' = [k \in Grid |-> IF \E u \in Done' : k \in Run(u) THEN 1 ELSE 0]
  <2> DEFINE a == Area(args[t].start, args[t].steps)
  <2>1. a = [k \in Grid |-> IF k \in Run(t) THEN 1 ELSE 0]
    BY <1>5, <1>6 DEF Area, Run
  <2>2. a \in [Grid -> Nat]
    BY <2>1
  <2>3. reg[t] = total /\ total \in [Grid -> Nat]
    BY <1>0, <1>1, <1>6 DEF ThreadsInv, TotalInv
  <2>4. total' = Add(reg[t], a)
    BY DEF StoreTotal
  <2> HIDE DEF a
  <2>5. total # NaN /\ a # NaN
    BY <2>2, <2>3
  <2>6. total' = [k \in Grid |-> total[k] + a[k]]
    BY <2>3, <2>4, <2>5 DEF Add
  <2>7. ASSUME NEW k \in Grid
        PROVE  total[k] + a[k] = IF \E u \in Done' : k \in Run(u) THEN 1 ELSE 0
    <3>1. total[k] = IF \E u \in Done : k \in Run(u) THEN 1 ELSE 0
      BY <1>0, <1>3, <1>6 DEF TotalInv
    <3>2. a[k] = IF k \in Run(t) THEN 1 ELSE 0
      BY <2>1
    <3> QED
      BY <1>4, <1>5, <1>6, <3>1, <3>2
  <2> QED
    BY <2>6, <2>7
<1>7. TotalInv'
  BY <1>1, <1>3, <1>6 DEF TotalInv, Run
<1>8. ThreadTypes'
  <2>1. total' \in Double
    <3> DEFINE a == Area(args[t].start, args[t].steps)
    <3>1. a \in Double
      BY DEF Area, Double
    <3>2. reg[t] \in Double /\ total' = Add(reg[t], a)
      BY <1>0 DEF ThreadTypes, StoreTotal
    <3> HIDE DEF a
    <3> QED
      BY <3>1, <3>2 DEF Add, Double
  <2> QED
    BY <1>0, <1>1, <1>3, <2>1 DEF ThreadTypes
<1>9. ThreadsInv'
  <2>1. mpc # "exited" /\ mutex = t
    BY <1>0, <1>1, <1>3 DEF Busy, ThreadsInv
  <2>2. \A u \in Thread : tpc[u] = "store" => u = t
    BY <1>0, <2>1 DEF ThreadsInv
  <2> QED
    BY <1>0, <1>1, <1>2, <1>3, <2>1, <2>2 DEF ThreadsInv
<1>10. RunsInv'
  BY <1>0, <1>1, <1>3 DEF RunsInv
<1> QED
  BY <1>7, <1>8, <1>9, <1>10 DEF SumInv

\* Every step keeps the invariant.
LEMMA SumStep ==
  ASSUME SumInv, [ThreadNext]_threadvars
  PROVE  SumInv'
<1>1. CASE UNCHANGED threadvars
  BY <1>1 DEF threadvars, SumInv, ThreadTypes, ThreadsInv, RunsInv, TotalInv, Working, Busy, Dealt, Joined, Done, Run
<1>2. CASE ThreadNext
  BY <1>1, <1>2, StepQuery, StepCreate, StepJoin, StepIdle, StepThread, StepStore
     DEF ThreadNext, MainStep, ThreadStep, AllJoined
<1> QED
  BY <1>1, <1>2

\* For a query with at least as many trapezoids as there are threads, the total main()
\* prints holds each trapezoid exactly once, for any number of threads and any
\* interleaving of them, whatever queries came before (thread.c).
THEOREM ThreadsIntegrate == ThreadSpec => []TotalIsIntegral
<1>1. SumInv => TotalIsIntegral
  <2> SUFFICES ASSUME SumInv, mpc = "print", numSteps >= THREADS PROVE total = SerialArea(numSteps)
    BY DEF TotalIsIntegral
  <2>1. Done = Thread /\ Dealt = Thread /\ Working
    BY DEF Done, Joined, Dealt, Working, Busy
  <2>2. numSteps \in 1 .. MaxSteps /\ currentStart = numSteps
    BY <2>1, SumConsts DEF SumInv, ThreadTypes, RunsInv, Working
  <2>3. ASSUME NEW k \in Grid
        PROVE  (\E t \in Done : k \in Run(t)) <=> k < numSteps
    <3>1. k \in Nat
      BY SumConsts
    <3>2. k < numSteps => \E t \in Thread : k \in Run(t)
      BY <2>1, <2>2, <3>1 DEF SumInv, RunsInv, Run
    <3>3. ASSUME NEW t \in Thread, k \in Run(t)
          PROVE  k < numSteps
      <4>1. args[t].start \in Nat /\ args[t].steps \in Nat
        BY DEF SumInv, ThreadTypes
      <4>2. args[t].start + args[t].steps <= numSteps
        BY <2>1, <2>2 DEF SumInv, RunsInv
      <4> QED
        BY <2>2, <3>1, <3>3, <4>1, <4>2 DEF Run
    <3> QED
      BY <2>1, <3>2, <3>3
  <2>4. SerialArea(numSteps) = [k \in Grid |-> IF k < numSteps THEN 1 ELSE 0]
    <3>1. \A k \in Grid : k \in Nat /\ (0 <= k /\ k < 0 + numSteps <=> k < numSteps)
      BY <2>2, SumConsts
    <3>2. numSteps # 0
      BY <2>2
    <3> QED
      BY <3>1, <3>2 DEF SerialArea, Area
  <2>5. total = [k \in Grid |-> IF \E t \in Done : k \in Run(t) THEN 1 ELSE 0]
    BY <2>1 DEF SumInv, TotalInv
  <2> QED
    BY <2>3, <2>4, <2>5
<1>2. SumInv /\ [ThreadNext]_threadvars => SumInv'
  BY SumStep
<1> QED
  BY <1>1, <1>2, SumInit, PTL DEF ThreadSpec
=============================================================================
