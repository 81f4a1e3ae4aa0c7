----------------------------- MODULE ThreadSum -----------------------------
(***************************************************************************)
(* The multi-threaded integrator: main() and integrateTrap() of            *)
(* assignment/thread.c, and the body of a child of                         *)
(* assignment/processThread.c, which is the same code for one query.       *)
(*                                                                         *)
(* main() deals the numSteps trapezoids of a query out to THREADS threads  *)
(* in consecutive runs; each thread adds the area of its run to the shared *)
(* total under a mutex; main() joins them all and prints total.            *)
(*                                                                         *)
(* Data: an area is the function that counts, for each trapezoid of the    *)
(* serial program's grid, how often it has been added; bounds of ranges    *)
(* are numbers of trapezoids from rangeStart (rounding is left out).  A    *)
(* double may also be NaN, which every addition preserves.                 *)
(***************************************************************************)
EXTENDS Integers

CONSTANTS THREADS,   \* thread.c:16
          Sizes,     \* numSteps of the queries in the input
          MaxSteps,  \* bound: the longest query
          NaN        \* the double that is not a number

ASSUME ThreadAssumption ==
  /\ THREADS \in Nat \ {0}
  /\ MaxSteps \in Nat
  /\ Sizes \subseteq 1 .. MaxSteps
  /\ NaN \notin [0 .. (MaxSteps - 1) -> Nat]

VARIABLES mpc,       \* where main() is
          numSteps,
          i,         \* index of main()'s loops
          currentStart,
          args,      \* threadArgs[]: first trapezoid and number of trapezoids
          total,
          mutex,     \* thread that holds the mutex, or None
          tpc,       \* where each thread is
          reg        \* total as a thread has read it for +=

threadvars == <<mpc, numSteps, i, currentStart, args, total, mutex, tpc, reg>>

Thread == 0 .. (THREADS - 1)
None == -1
Grid == 0 .. (MaxSteps - 1)

Zero == [k \in Grid |-> 0]
Add(a, b) == IF a = NaN \/ b = NaN THEN NaN ELSE [k \in Grid |-> a[k] + b[k]]

\* What integrateTrap() computes for steps trapezoids from start: with none,
\* dx = rangeSize / steps is 0.0 / 0 and the area sum * dx is NaN.
Area(start, steps) ==
  IF steps = 0 THEN NaN
  ELSE [k \in Grid |-> IF start <= k /\ k < start + steps THEN 1 ELSE 0]

\* What serial.c computes for a query of n steps.
SerialArea(n) == Area(0, n)

\* main() starts at l: "exited" when the program is not run.
ThreadInit(l) ==
  /\ mpc = l
  /\ numSteps = 0 /\ i = 0 /\ currentStart = 0
  /\ args = [t \in Thread |-> [start |-> 0, steps |-> 0]]
  /\ total = Zero
  /\ mutex = None
  /\ tpc = [t \in Thread |-> "none"]
  /\ reg = [t \in Thread |-> Zero]
-----------------------------------------------------------------------------
(* main() *)

\* getValidInput() accepts a query; total is reset for it.
ReadQuery(n) ==
  /\ mpc = "input"
  /\ numSteps' = n
  /\ total' = Zero
  /\ currentStart' = 0
  /\ i' = 0
  /\ mpc' = "create"
  /\ UNCHANGED <<args, mutex, tpc, reg>>

\* The input ends or is not valid: _exit(0).
EndOfInput ==
  /\ mpc = "input"
  /\ mpc' = "exited"
  /\ UNCHANGED <<numSteps, i, currentStart, args, total, mutex, tpc, reg>>

\* The first numSteps % THREADS threads take one trapezoid more.
Steps(t) == numSteps \div THREADS + (IF t < numSteps % THREADS THEN 1 ELSE 0)

\* Next round of a loop of main(), or the label after it.
NextRound(l) ==
  IF i + 1 < THREADS THEN i' = i + 1 /\ UNCHANGED mpc ELSE i' = 0 /\ mpc' = l

CreateThread ==
  /\ mpc = "create"
  /\ args' = [args EXCEPT ![i] = [start |-> currentStart, steps |-> Steps(i)]]
  /\ tpc' = [tpc EXCEPT ![i] = "lock"]
  /\ currentStart' = currentStart + Steps(i)
  /\ NextRound("join")
  /\ UNCHANGED <<numSteps, total, mutex, reg>>

\* pthread_create() fails: exit(1) ends every thread of the process.
CreateFails ==
  /\ mpc = "create"
  /\ mpc' = "exited"
  /\ tpc' = [t \in Thread |-> "none"]
  /\ UNCHANGED <<numSteps, i, currentStart, args, total, mutex, reg>>

JoinThread ==
  /\ mpc = "join" /\ tpc[i] = "ended"
  /\ tpc' = [tpc EXCEPT ![i] = "none"]
  /\ NextRound("print")
  /\ UNCHANGED <<numSteps, currentStart, args, total, mutex, reg>>

\* printf() of the result, back to the loop's condition.
PrintTotal ==
  /\ mpc = "print"
  /\ mpc' = "input"
  /\ UNCHANGED <<numSteps, i, currentStart, args, total, mutex, tpc, reg>>
-----------------------------------------------------------------------------
(* integrateTrap(): the computation is private, total += area is not. *)

\* Mutant: total += area without the mutex.
LockMutex_None(t) ==
  /\ tpc[t] = "lock"
  /\ mutex' = t
  /\ tpc' = [tpc EXCEPT ![t] = "load"]
  /\ UNCHANGED <<mpc, numSteps, i, currentStart, args, total, reg>>

LockMutex(t) ==
  /\ tpc[t] = "lock" /\ mutex = None
  /\ mutex' = t
  /\ tpc' = [tpc EXCEPT ![t] = "load"]
  /\ UNCHANGED <<mpc, numSteps, i, currentStart, args, total, reg>>

LoadTotal(t) ==
  /\ tpc[t] = "load"
  /\ reg' = [reg EXCEPT ![t] = total]
  /\ tpc' = [tpc EXCEPT ![t] = "store"]
  /\ UNCHANGED <<mpc, numSteps, i, currentStart, args, total, mutex>>

StoreTotal(t) ==
  /\ tpc[t] = "store"
  /\ total' = Add(reg[t], Area(args[t].start, args[t].steps))
  /\ tpc' = [tpc EXCEPT ![t] = "unlock"]
  /\ UNCHANGED <<mpc, numSteps, i, currentStart, args, mutex, reg>>

UnlockMutex(t) ==
  /\ tpc[t] = "unlock"
  /\ mutex' = None
  /\ tpc' = [tpc EXCEPT ![t] = "ended"]
  /\ UNCHANGED <<mpc, numSteps, i, currentStart, args, total, reg>>
-----------------------------------------------------------------------------
MainStep == CreateThread \/ CreateFails \/ JoinThread \/ PrintTotal

ThreadStep(t) == LockMutex(t) \/ LoadTotal(t) \/ StoreTotal(t) \/ UnlockMutex(t)

AllJoined == mpc = "exited" /\ UNCHANGED threadvars

ThreadNext ==
  \/ \E n \in Sizes : ReadQuery(n)
  \/ EndOfInput \/ MainStep
  \/ \E t \in Thread : ThreadStep(t)
  \/ AllJoined

ThreadSpec == ThreadInit("input") /\ [][ThreadNext]_threadvars
-----------------------------------------------------------------------------
(* Properties *)

\* For a query with a trapezoid for each thread, numSteps >= THREADS, the threads
\* together compute what the serial program does: when main() has joined them,
\* total holds each trapezoid of the query exactly once, none lost by a += that
\* overtook another, none at the seams left out or doubled, nothing left over
\* from the previous query, not even the NaN of one that was too short.
TotalIsIntegral ==
  mpc = "print" /\ numSteps >= THREADS => total = SerialArea(numSteps)
=============================================================================
