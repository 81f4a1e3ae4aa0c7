---------------------------- MODULE XvProcProofs ----------------------------
(***************************************************************************)
(* Proofs about XvProc for every size of the process table, every number   *)
(* of processors and every pid a process may pass to kill().  The three    *)
(* properties hold together: who is whose parent (TreeInv) depends on what *)
(* a fork() in progress owns (ForkInv), and a parent asleep in wait() is   *)
(* woken only because the tree is right.                                   *)
(***************************************************************************)
EXTENDS XvProc, NatFacts

Forking(s) == kpc[s] \in {"embryo", "copied"}

\* A fork() in progress owns its new slot alone, and the slot is nobody's child
\* until fork() has written its parent.
ForkInv ==
  /\ \A s \in Slot : Forking(s) =>
       /\ state[s] \in {"RUNNABLE", "RUNNING"}
       /\ np[s] \in Slot /\ state[np[s]] = "EMBRYO"
       /\ parent[np[s]] = IF kpc[s] = "copied" THEN s ELSE None
  /\ \A s, t \in Slot : Forking(s) /\ Forking(t) /\ np[s] = np[t] => s = t

\* The family tree, with its slots in the making and its free slots.
TreeInv ==
  /\ state[initproc] \in Live /\ parent[initproc] = None
  /\ \A s \in Slot : state[s] = "UNUSED" => parent[s] = None
  /\ \A s \in Slot \ {initproc} : state[s] \in Live \cup {"ZOMBIE"} => parent[s] # None
  /\ \A s \in Slot : parent[s] # None => parent[s] # s /\ state[parent[s]] \in Live
  /\ \A s \in Slot : state[s] = "EMBRYO" /\ parent[s] # None =>
       kpc[parent[s]] = "copied" /\ np[parent[s]] = s

\* The steps of a waiting call that leave it running.
Returns(s) == IoReturn(s) \/ AwaitTest(s) \/ AwaitReturn(s)

ProcInv == TypeOK /\ RunsOnOneCpu /\ ForkInv /\ TreeInv /\ WaiterIsNeeded
-----------------------------------------------------------------------------
\* What the constants give.
LEMMA ConstFacts ==
  /\ NPROC \in Nat /\ NPROC >= 1 /\ initproc \in Slot /\ IoChan \notin Slot
  /\ None \notin Slot /\ Slot \subseteq Nat /\ IoChan # None
  /\ AwaitChan \notin Slot /\ AwaitChan # None /\ UserCalls \subseteq Calls
  BY ProcAssumption DEF Slot, initproc, IoChan, AwaitChan, None

\* The search through the table finds a slot of the kind looked for.
LEMMA FirstIn ==
  ASSUME NEW S, S \subseteq Slot, S # {}
  PROVE  First(S) \in S
<1>1. S \subseteq Nat
  BY ConstFacts
<1>2. \E s \in S : \A t \in S : s <= t
  BY <1>1, LeastElement, Zenon
<1> QED
  BY <1>2, Zenon DEF First

\* allocproc() takes a free slot, which is nobody's child.
LEMMA FreeSlot ==
  ASSUME TreeInv, Unused # {}
  PROVE  /\ First(Unused) \in Slot /\ state[First(Unused)] = "UNUSED"
         /\ parent[First(Unused)] = None
<1>1. Unused \subseteq Slot
  BY DEF Unused
<1>2. First(Unused) \in Unused
  BY <1>1, FirstIn
<1> HIDE DEF First
<1> QED
  BY <1>2 DEF Unused, TreeInv

\* A step of [Next]_vars is a step of one of the actions, or a stutter.
LEMMA NextCases ==
  ASSUME [Next]_vars
  PROVE  \/ \E s \in Slot :
              \/ \E call \in UserCalls : Syscall(s, call)
              \/ TrapKilled(s) \/ AllocFails(s) \/ Returns(s)
              \/ Yield(s) \/ SleepIo(s) \/ AwaitSleep(s)
              \/ AllocProc(s) \/ ForkFails(s) \/ ForkCopy(s) \/ ForkDone(s)
              \/ Exit(s) \/ (\E k \in Slot : WaitReap(s, k)) \/ WaitNone(s)
              \/ \E n \in KillArgs : Kill(s, n)
              \/ \E c \in CPUs : Schedule(c, s)
         \/ (\E c \in {IoChan, AwaitChan} : WakeupIo(c)) \/ InitExits \/ UNCHANGED vars
  BY Zenon DEF Next, ProcStep, Finish, Returns

\* The types of the state are kept.
LEMMA TypeStep ==
  ASSUME ProcInv, [Next]_vars
  PROVE  TypeOK'
<1> USE ConstFacts DEF ProcState, KernelPc, Calls
<1>0. TypeOK /\ ForkInv
  BY DEF ProcInv
<1>1. ASSUME NEW s \in Slot, (\E call \in UserCalls : Syscall(s, call)) \/ TrapKilled(s) \/ AllocFails(s) \/ Returns(s)
      PROVE  TypeOK'
  BY <1>0, <1>1 DEF TypeOK, Syscall, TrapKilled, AllocFails, Returns, IoReturn, AwaitTest, AwaitReturn, Goto
<1>2. ASSUME NEW s \in Slot, Yield(s) \/ SleepIo(s) \/ AwaitSleep(s) \/ WaitNone(s)
      PROVE  TypeOK'
  BY <1>0, <1>2 DEF TypeOK, Yield, SleepIo, AwaitSleep, WaitNone, LeaveCpu, Goto
<1>3. ASSUME NEW s \in Slot, AllocProc(s)
      PROVE  TypeOK'
  <2>1. First(Unused) \in Slot
    BY <1>3, FirstIn DEF AllocProc, Unused
  <2> QED
    BY <1>0, <1>3, <2>1 DEF TypeOK, AllocProc, Goto
<1>4. ASSUME NEW s \in Slot, ForkFails(s) \/ ForkCopy(s) \/ ForkDone(s)
      PROVE  TypeOK'
  <2>1. np[s] \in Slot
    BY <1>0, <1>4 DEF ForkInv, Forking, ForkFails, ForkCopy, ForkDone, At
  <2> QED
    BY <1>0, <1>4, <2>1 DEF TypeOK, ForkFails, ForkCopy, ForkDone, Goto
<1>5. ASSUME NEW s \in Slot, Exit(s)
      PROVE  TypeOK'
  <2>1. state' \in [Slot -> ProcState]
    BY <1>0, <1>5 DEF TypeOK, Exit, Wakeup1
  <2> QED
    BY <1>0, <1>5, <2>1 DEF TypeOK, Exit, LeaveCpu
<1>6. ASSUME NEW s \in Slot, NEW k \in Slot, WaitReap(s, k)
      PROVE  TypeOK'
  BY <1>0, <1>6 DEF TypeOK, WaitReap, Goto
<1>7. ASSUME NEW s \in Slot, NEW n \in KillArgs, Kill(s, n)
      PROVE  TypeOK'
  BY <1>0, <1>7 DEF TypeOK, Kill, Goto
<1>8. ASSUME NEW s \in Slot, NEW c \in CPUs, Schedule(c, s)
      PROVE  TypeOK'
  BY <1>0, <1>8 DEF TypeOK, Schedule
<1>9. CASE (\E c \in {IoChan, AwaitChan} : WakeupIo(c)) \/ InitExits \/ UNCHANGED vars
  BY <1>0, <1>9 DEF TypeOK, WakeupIo, InitExits, Wakeup1, vars
<1> QED
  BY <1>1, <1>2, <1>3, <1>4, <1>5, <1>6, <1>7, <1>8, <1>9, NextCases

\* Processors and RUNNING processes stay matched.
LEMMA CpuStep ==
  ASSUME ProcInv, [Next]_vars
  PROVE  RunsOnOneCpu'
<1> USE ConstFacts DEF ProcState
<1>0. TypeOK /\ RunsOnOneCpu /\ ForkInv /\ TypeOK'
  BY TypeStep DEF ProcInv
<1>1. ASSUME UNCHANGED cpu, \A s \in Slot : state'[s] = "RUNNING" <=> state[s] = "RUNNING"
      PROVE  RunsOnOneCpu'
  BY <1>0, <1>1 DEF RunsOnOneCpu
<1>2. ASSUME NEW s \in Slot, state[s] = "RUNNING", LeaveCpu(s), state'[s] # "RUNNING",
             \A t \in Slot \ {s} : state'[t] = "RUNNING" <=> state[t] = "RUNNING"
      PROVE  RunsOnOneCpu'
  BY <1>0, <1>2 DEF RunsOnOneCpu, LeaveCpu, TypeOK
<1>3. ASSUME NEW s \in Slot, (\E call \in UserCalls : Syscall(s, call)) \/ TrapKilled(s) \/ AllocFails(s) \/ Returns(s) \/ ForkCopy(s)
      PROVE  RunsOnOneCpu'
  BY <1>1, <1>3 DEF Syscall, TrapKilled, AllocFails, Returns, IoReturn, AwaitTest, AwaitReturn, ForkCopy
<1>4. ASSUME NEW s \in Slot, Yield(s) \/ SleepIo(s) \/ AwaitSleep(s)
      PROVE  RunsOnOneCpu'
  BY <1>0, <1>2, <1>4 DEF Yield, SleepIo, AwaitSleep, At, TypeOK
<1>5. ASSUME NEW s \in Slot, WaitNone(s)
      PROVE  RunsOnOneCpu'
  BY <1>0, <1>1, <1>2, <1>5 DEF WaitNone, At, TypeOK
<1>6. ASSUME NEW s \in Slot, AllocProc(s)
      PROVE  RunsOnOneCpu'
  <2>1. First(Unused) \in Unused /\ Unused \subseteq Slot
    BY <1>6, FirstIn DEF AllocProc, Unused
  <2> QED
    BY <1>0, <1>1, <1>6, <2>1 DEF TypeOK, AllocProc, Unused
<1>7. ASSUME NEW s \in Slot, ForkFails(s) \/ ForkDone(s)
      PROVE  RunsOnOneCpu'
  <2>1. np[s] \in Slot /\ state[np[s]] = "EMBRYO"
    BY <1>0, <1>7 DEF ForkInv, Forking, ForkFails, ForkDone, At
  <2> QED
    BY <1>0, <1>1, <1>7, <2>1 DEF TypeOK, ForkFails, ForkDone
<1>8. ASSUME NEW s \in Slot, Exit(s)
      PROVE  RunsOnOneCpu'
  BY <1>0, <1>2, <1>8 DEF TypeOK, Exit, Wakeup1, At
<1>9. ASSUME NEW s \in Slot, NEW k \in Slot, WaitReap(s, k)
      PROVE  RunsOnOneCpu'
  BY <1>0, <1>1, <1>9 DEF TypeOK, WaitReap
<1>10. ASSUME NEW s \in Slot, NEW n \in KillArgs, Kill(s, n)
      PROVE  RunsOnOneCpu'
  BY <1>0, <1>1, <1>10 DEF TypeOK, Kill
<1>11. ASSUME NEW s \in Slot, NEW c \in CPUs, Schedule(c, s)
      PROVE  RunsOnOneCpu'
  BY <1>0, <1>11 DEF RunsOnOneCpu, TypeOK, Schedule
<1>12. CASE (\E c \in {IoChan, AwaitChan} : WakeupIo(c)) \/ InitExits \/ UNCHANGED vars
  BY <1>0, <1>1, <1>12 DEF TypeOK, WakeupIo, InitExits, Wakeup1, vars
<1> QED
  BY <1>3, <1>4, <1>5, <1>6, <1>7, <1>8, <1>9, <1>10, <1>11, <1>12, NextCases

\* A step that leaves the forks in progress, their slots and those slots' parents as
\* they are.
LEMMA ForksStay ==
  ASSUME TypeOK, ForkInv, UNCHANGED <<kpc, np>>,
         \A t \in Slot : Forking(t) =>
           state'[t] = state[t] /\ state'[np[t]] = state[np[t]] /\ parent'[np[t]] = parent[np[t]]
  PROVE  ForkInv'
<1>1. \A t \in Slot : Forking(t)' <=> Forking(t)
  BY DEF Forking
<1>2. ASSUME NEW t \in Slot, Forking(t)'
      PROVE  /\ state'[t] \in {"RUNNABLE", "RUNNING"} /\ np'[t] \in Slot /\ state'[np'[t]] = "EMBRYO"
             /\ parent'[np'[t]] = IF kpc'[t] = "copied" THEN t ELSE None
  <2>1. /\ Forking(t) /\ state[t] \in {"RUNNABLE", "RUNNING"} /\ np[t] \in Slot /\ state[np[t]] = "EMBRYO"
        /\ parent[np[t]] = IF kpc[t] = "copied" THEN t ELSE None
    BY <1>1, <1>2 DEF ForkInv
  <2> QED
    BY <2>1
<1>3. \A t, u \in Slot : Forking(t)' /\ Forking(u)' /\ np'[t] = np'[u] => t = u
  BY <1>1 DEF ForkInv
<1> QED
  BY <1>2, <1>3 DEF ForkInv

\* Each fork() in progress keeps its slot to itself.
LEMMA ForkStep ==
  ASSUME ProcInv, [Next]_vars
  PROVE  ForkInv'
<1> USE ConstFacts DEF ProcState, Calls, Live
<1>0. TypeOK /\ ForkInv /\ TreeInv /\ TypeOK'
  BY TypeStep DEF ProcInv
<1>1. ASSUME NEW s \in Slot, UNCHANGED <<state, parent, np>>, ~Forking(s),
             NEW l \in KernelPc \ {"embryo", "copied"}, Goto(s, l)
      PROVE  ForkInv'
  BY <1>0, <1>1 DEF ForkInv, Forking, Goto, TypeOK
<1>2. ASSUME NEW s \in Slot, UNCHANGED <<parent, np, kpc>>, ~Forking(s),
             \A t \in Slot \ {s} : state'[t] = state[t] \/ (state[t] = "SLEEPING" /\ state'[t] = "RUNNABLE"),
             state[s] # "EMBRYO"
      PROVE  ForkInv'
  <2>1. ASSUME NEW t \in Slot, Forking(t)
        PROVE  state'[t] = state[t] /\ state'[np[t]] = state[np[t]] /\ parent'[np[t]] = parent[np[t]]
    <3>1. state[t] \in {"RUNNABLE", "RUNNING"} /\ np[t] \in Slot /\ state[np[t]] = "EMBRYO"
      BY <1>0, <2>1 DEF ForkInv
    <3>2. t \in Slot \ {s} /\ np[t] \in Slot \ {s}
      BY <1>2, <2>1, <3>1
    <3> QED
      BY <1>2, <3>1, <3>2
  <2> QED
    BY <1>0, <1>2, <2>1, ForksStay
<1>3. ASSUME NEW s \in Slot, (\E call \in UserCalls : Syscall(s, call)) \/ TrapKilled(s) \/ AllocFails(s) \/ Returns(s)
      PROVE  ForkInv'
  BY <1>1, <1>3 DEF Syscall, TrapKilled, AllocFails, Returns, IoReturn, AwaitTest, AwaitReturn, At, Forking, KernelPc
<1>4. ASSUME NEW s \in Slot, SleepIo(s)
      PROVE  ForkInv'
  BY <1>0, <1>2, <1>4 DEF SleepIo, At, Forking, TypeOK
<1>4a. ASSUME NEW s \in Slot, AwaitSleep(s)
      PROVE  ForkInv'
  <2>1. /\ state[s] = "RUNNING" /\ kpc[s] = "tosleep" /\ UNCHANGED <<parent, np>>
        /\ kpc' = [kpc EXCEPT ![s] = "await"] /\ state' = [state EXCEPT ![s] = "SLEEPING"]
    BY <1>4a DEF AwaitSleep, At, Goto
  <2>2. \A t \in Slot : Forking(t)' <=> Forking(t) /\ t # s
    BY <1>0, <2>1 DEF Forking, TypeOK
  <2>3. \A t \in Slot : t # s => kpc'[t] = kpc[t] /\ state'[t] = state[t]
    BY <1>0, <2>1 DEF TypeOK
  <2>4. ASSUME NEW t \in Slot, Forking(t)'
        PROVE  /\ state'[t] \in {"RUNNABLE", "RUNNING"} /\ np'[t] \in Slot /\ state'[np'[t]] = "EMBRYO"
               /\ parent'[np'[t]] = IF kpc'[t] = "copied" THEN t ELSE None
    <3>1. /\ t # s /\ state[t] \in {"RUNNABLE", "RUNNING"} /\ np[t] \in Slot /\ state[np[t]] = "EMBRYO"
          /\ parent[np[t]] = IF kpc[t] = "copied" THEN t ELSE None
      BY <1>0, <2>2, <2>4 DEF ForkInv
    <3> QED
      BY <2>1, <2>3, <3>1
  <2>5. \A t, u \in Slot : Forking(t)' /\ Forking(u)' /\ np'[t] = np'[u] => t = u
    BY <1>0, <2>1, <2>2 DEF ForkInv
  <2> QED
    BY <2>4, <2>5 DEF ForkInv
<1>5. ASSUME NEW s \in Slot, Yield(s)
      PROVE  ForkInv'
  BY <1>0, <1>5 DEF Yield, ForkInv, Forking, TypeOK
<1>6. ASSUME NEW s \in Slot, WaitNone(s)
      PROVE  ForkInv'
  <2>1. CASE Goto(s, "user") /\ UNCHANGED state
    BY <1>1, <1>6, <2>1 DEF WaitNone, At, Forking, KernelPc
  <2>2. CASE UNCHANGED kpc /\ state' = [state EXCEPT ![s] = "SLEEPING"]
    BY <1>0, <1>2, <1>6, <2>2 DEF WaitNone, At, Forking, TypeOK
  <2> QED
    BY <1>6, <2>1, <2>2 DEF WaitNone
<1>7. ASSUME NEW s \in Slot, AllocProc(s)
      PROVE  ForkInv'
  <2>1. First(Unused) \in Slot /\ state[First(Unused)] = "UNUSED" /\ parent[First(Unused)] = None
    BY <1>0, <1>7, FreeSlot DEF AllocProc
  <2> QED
    BY <1>0, <1>7, <2>1 DEF AllocProc, At, Goto, ForkInv, Forking, TypeOK
<1>8. ASSUME NEW s \in Slot, ForkFails(s)
      PROVE  ForkInv'
  BY <1>0, <1>8 DEF ForkFails, At, Goto, ForkInv, Forking, TypeOK
<1>9. ASSUME NEW s \in Slot, ForkCopy(s)
      PROVE  ForkInv'
  BY <1>0, <1>9 DEF ForkCopy, At, Goto, ForkInv, Forking, TypeOK
<1>10. ASSUME NEW s \in Slot, ForkDone(s)
      PROVE  ForkInv'
  BY <1>0, <1>10 DEF ForkDone, At, ForkInv, Forking, TypeOK
<1>11. ASSUME NEW s \in Slot, Exit(s)
      PROVE  ForkInv'
  <2>1. \A t \in Slot : Forking(t) => parent[np[t]] # s
    BY <1>0, <1>11 DEF Exit, At, ForkInv, Forking
  <2>2. \A t \in Slot \ {s} : state'[t] = state[t] \/ (state[t] = "SLEEPING" /\ state'[t] = "RUNNABLE")
    BY <1>0, <1>11 DEF Exit, Wakeup1, TypeOK
  <2>3. /\ UNCHANGED <<kpc, np>> /\ kpc[s] = "exit" /\ state[s] = "RUNNING"
        /\ \A t \in Slot : parent'[t] = IF parent[t] = s THEN initproc ELSE parent[t]
    BY <1>11 DEF Exit, At
  <2>4. \A t \in Slot : Forking(t) => t # s /\ np[t] # s
    BY <1>0, <2>3 DEF ForkInv, Forking
  <2>5. ASSUME NEW t \in Slot, Forking(t)
        PROVE  state'[t] = state[t] /\ state'[np[t]] = state[np[t]] /\ parent'[np[t]] = parent[np[t]]
    <3>1. state[t] \in {"RUNNABLE", "RUNNING"} /\ np[t] \in Slot /\ state[np[t]] = "EMBRYO"
      BY <1>0, <2>5 DEF ForkInv
    <3>2. t \in Slot \ {s} /\ np[t] \in Slot \ {s} /\ parent[np[t]] # s
      BY <2>1, <2>4, <2>5, <3>1
    <3> QED
      BY <2>2, <2>3, <3>1, <3>2
  <2> QED
    BY <1>0, <2>3, <2>5, ForksStay
<1>12. ASSUME NEW s \in Slot, NEW k \in Slot, WaitReap(s, k)
      PROVE  ForkInv'
  BY <1>0, <1>12 DEF WaitReap, At, Goto, ForkInv, Forking, TypeOK
<1>13. ASSUME NEW s \in Slot, NEW n \in KillArgs, Kill(s, n)
      PROVE  ForkInv'
  <2>1. \A t \in Slot : state'[t] = state[t] \/ (state[t] = "SLEEPING" /\ state'[t] = "RUNNABLE")
    BY <1>0, <1>13 DEF Kill, TypeOK
  <2>2. UNCHANGED <<parent, np>> /\ kpc[s] = "kill" /\ kpc' = [kpc EXCEPT ![s] = "user"]
    BY <1>13 DEF Kill, At, Goto
  <2>3. \A t \in Slot : Forking(t)' <=> Forking(t) /\ t # s
    BY <1>0, <2>2 DEF Forking, TypeOK
  <2>4. \A t \in Slot : t # s => kpc'[t] = kpc[t]
    BY <1>0, <2>2 DEF TypeOK
  <2>5. ASSUME NEW t \in Slot, Forking(t)'
        PROVE  /\ state'[t] \in {"RUNNABLE", "RUNNING"} /\ np'[t] \in Slot /\ state'[np'[t]] = "EMBRYO"
               /\ parent'[np'[t]] = IF kpc'[t] = "copied" THEN t ELSE None
    <3>1. /\ t # s /\ state[t] \in {"RUNNABLE", "RUNNING"} /\ np[t] \in Slot /\ state[np[t]] = "EMBRYO"
          /\ parent[np[t]] = IF kpc[t] = "copied" THEN t ELSE None
      BY <1>0, <2>3, <2>5 DEF ForkInv
    <3> QED
      BY <2>1, <2>2, <2>4, <3>1
  <2>6. \A t, u \in Slot : Forking(t)' /\ Forking(u)' /\ np'[t] = np'[u] => t = u
    BY <1>0, <2>2, <2>3 DEF ForkInv
  <2> QED
    BY <2>5, <2>6 DEF ForkInv
<1>14. ASSUME NEW s \in Slot, NEW c \in CPUs, Schedule(c, s)
      PROVE  ForkInv'
  BY <1>0, <1>14 DEF Schedule, ForkInv, Forking, TypeOK
<1>15. CASE (\E c \in {IoChan, AwaitChan} : WakeupIo(c)) \/ InitExits \/ UNCHANGED vars
  <2>1. \A t \in Slot : state'[t] = state[t] \/ (state[t] = "SLEEPING" /\ state'[t] = "RUNNABLE")
    BY <1>0, <1>15 DEF WakeupIo, Wakeup1, InitExits, vars, TypeOK
  <2>2. UNCHANGED <<parent, np, kpc>>
    BY <1>15 DEF WakeupIo, InitExits, vars
  <2>3. ASSUME NEW t \in Slot, Forking(t)
        PROVE  state'[t] = state[t] /\ state'[np[t]] = state[np[t]] /\ parent'[np[t]] = parent[np[t]]
    <3>1. state[t] \in {"RUNNABLE", "RUNNING"} /\ np[t] \in Slot /\ state[np[t]] = "EMBRYO"
      BY <1>0, <2>3 DEF ForkInv
    <3> QED
      BY <2>1, <2>2, <3>1
  <2> QED
    BY <1>0, <2>2, <2>3, ForksStay
<1> QED
  BY <1>3, <1>4, <1>4a, <1>5, <1>6, <1>7, <1>8, <1>9, <1>10, <1>11, <1>12, <1>13, <1>14, <1>15, NextCases

\* The family tree stays whole.
LEMMA TreeStep ==
  ASSUME ProcInv, [Next]_vars
  PROVE  TreeInv'
<1> USE ConstFacts DEF ProcState, Calls, Live
<1>0. TypeOK /\ ForkInv /\ TreeInv /\ TypeOK'
  BY TypeStep DEF ProcInv
\* Steps that move a process among the states of the living.
<1>1. ASSUME UNCHANGED <<parent, np>>,
             \A t \in Slot : state'[t] = state[t] \/ (state[t] \in Live /\ state'[t] \in Live),
             \A t \in Slot : kpc[t] = "copied" => kpc'[t] = "copied"
      PROVE  TreeInv'
  <2>1. state'[initproc] \in Live /\ parent'[initproc] = None
    BY <1>0, <1>1 DEF TreeInv
  <2>2. \A s \in Slot : state'[s] = "UNUSED" => parent'[s] = None
    BY <1>0, <1>1 DEF TreeInv
  <2>3. \A s \in Slot \ {initproc} : state'[s] \in Live \cup {"ZOMBIE"} => parent'[s] # None
    BY <1>0, <1>1 DEF TreeInv
  <2>4. ASSUME NEW s \in Slot, parent'[s] # None
        PROVE  parent'[s] # s /\ state'[parent'[s]] \in Live
    <3>1. parent[s] \in Slot /\ parent[s] # s /\ state[parent[s]] \in Live /\ parent'[s] = parent[s]
      BY <1>0, <1>1, <2>4 DEF TreeInv, TypeOK
    <3> QED
      BY <1>1, <3>1
  <2>5. ASSUME NEW s \in Slot, state'[s] = "EMBRYO", parent'[s] # None
        PROVE  kpc'[parent'[s]] = "copied" /\ np'[parent'[s]] = s
    <3>1. parent[s] \in Slot /\ state[s] = "EMBRYO" /\ parent'[s] = parent[s]
      BY <1>0, <1>1, <2>5 DEF TypeOK
    <3>2. kpc[parent[s]] = "copied" /\ np[parent[s]] = s
      BY <1>0, <1>1, <2>5, <3>1 DEF TreeInv
    <3> QED
      BY <1>1, <3>1, <3>2
  <2> QED
    BY <2>1, <2>2, <2>3, <2>4, <2>5 DEF TreeInv
<1>2. ASSUME NEW s \in Slot, (\E call \in UserCalls : Syscall(s, call)) \/ TrapKilled(s) \/ AllocFails(s) \/ Returns(s)
      PROVE  TreeInv'
  BY <1>0, <1>1, <1>2 DEF Syscall, TrapKilled, AllocFails, Returns, IoReturn, AwaitTest, AwaitReturn, At, Goto, TypeOK
<1>3. ASSUME NEW s \in Slot, SleepIo(s) \/ AwaitSleep(s) \/ Yield(s)
      PROVE  TreeInv'
  BY <1>0, <1>1, <1>3 DEF SleepIo, AwaitSleep, Yield, Goto, At, TypeOK
<1>4. ASSUME NEW s \in Slot, WaitNone(s)
      PROVE  TreeInv'
  BY <1>0, <1>1, <1>4 DEF WaitNone, At, Goto, TypeOK
<1>5. ASSUME NEW s \in Slot, AllocProc(s)
      PROVE  TreeInv'
  <2>1. First(Unused) \in Slot /\ state[First(Unused)] = "UNUSED" /\ parent[First(Unused)] = None
    BY <1>0, <1>5, FreeSlot DEF AllocProc
  <2> QED
    BY <1>0, <1>5, <2>1 DEF AllocProc, At, Goto, TreeInv, TypeOK
<1>6. ASSUME NEW s \in Slot, ForkFails(s)
      PROVE  TreeInv'
  <2>1. np[s] \in Slot /\ state[np[s]] = "EMBRYO" /\ parent[np[s]] = None /\ kpc[s] = "embryo"
    BY <1>0, <1>6 DEF ForkFails, At, ForkInv, Forking
  <2> QED
    BY <1>0, <1>6, <2>1 DEF ForkFails, Goto, TreeInv, TypeOK
<1>7. ASSUME NEW s \in Slot, ForkCopy(s)
      PROVE  TreeInv'
  <2>1. np[s] \in Slot /\ state[np[s]] = "EMBRYO" /\ parent[np[s]] = None /\ kpc[s] = "embryo" /\ state[s] = "RUNNING"
    BY <1>0, <1>7 DEF ForkCopy, At, ForkInv, Forking
  <2> QED
    BY <1>0, <1>7, <2>1 DEF ForkCopy, Goto, TreeInv, TypeOK
<1>8. ASSUME NEW s \in Slot, ForkDone(s)
      PROVE  TreeInv'
  <2>1. np[s] \in Slot /\ state[np[s]] = "EMBRYO" /\ parent[np[s]] = s /\ kpc[s] = "copied" /\ state[s] = "RUNNING"
    BY <1>0, <1>8 DEF ForkDone, At, ForkInv, Forking
  <2>2. /\ UNCHANGED parent /\ state' = [state EXCEPT ![np[s]] = "RUNNABLE"]
        /\ np' = [np EXCEPT ![s] = None]
        /\ kpc' = [kpc EXCEPT ![s] = "user", ![np[s]] = "user"]
    BY <1>8 DEF ForkDone
  <2>3. np[s] # initproc /\ np[s] # s
    BY <1>0, <2>1 DEF TreeInv
  <2>4. \A t \in Slot : state'[t] = "EMBRYO" /\ parent'[t] # None =>
          kpc'[parent'[t]] = "copied" /\ np'[parent'[t]] = t
    <3> SUFFICES ASSUME NEW t \in Slot, state'[t] = "EMBRYO", parent'[t] # None
                 PROVE  kpc'[parent'[t]] = "copied" /\ np'[parent'[t]] = t
      OBVIOUS
    <3>1. t # np[s] /\ state[t] = "EMBRYO" /\ parent[t] # None /\ parent[t] \in Slot
      BY <1>0, <2>1, <2>2 DEF TypeOK
    <3>2. kpc[parent[t]] = "copied" /\ np[parent[t]] = t /\ state[parent[t]] \in Live
      BY <1>0, <3>1 DEF TreeInv
    <3>3. parent[t] # s /\ parent[t] # np[s]
      BY <2>1, <3>1, <3>2
    <3> QED
      BY <1>0, <2>2, <3>1, <3>2, <3>3 DEF TypeOK
  <2>5. /\ state'[initproc] \in Live /\ parent'[initproc] = None
        /\ \A t \in Slot : state'[t] = "UNUSED" => parent'[t] = None
        /\ \A t \in Slot \ {initproc} : state'[t] \in Live \cup {"ZOMBIE"} => parent'[t] # None
    BY <1>0, <2>1, <2>2, <2>3 DEF TreeInv, TypeOK
  <2>6. \A t \in Slot : parent'[t] # None => parent'[t] # t /\ state'[parent'[t]] \in Live
    BY <1>0, <2>1, <2>2, <2>3 DEF TreeInv, TypeOK
  <2> QED
    BY <2>4, <2>5, <2>6 DEF TreeInv
<1>9. ASSUME NEW s \in Slot, Exit(s)
      PROVE  TreeInv'
  <2>1. \A t \in Slot \ {s} : state'[t] = state[t] \/ (state[t] = "SLEEPING" /\ state'[t] = "RUNNABLE")
    BY <1>0, <1>9 DEF Exit, Wakeup1, TypeOK
  <2>2. state'[s] = "ZOMBIE" /\ kpc[s] = "exit" /\ state[s] = "RUNNING" /\ s # initproc
    BY <1>0, <1>9 DEF Exit, At, Wakeup1, TypeOK
  <2>3. /\ UNCHANGED <<kpc, np>>
        /\ \A t \in Slot : parent'[t] = IF parent[t] = s THEN initproc ELSE parent[t]
    BY <1>0, <1>9 DEF Exit
  <2>4. /\ state'[initproc] \in Live /\ parent'[initproc] = None
        /\ \A t \in Slot : state'[t] = "UNUSED" => parent'[t] = None
        /\ \A t \in Slot \ {initproc} : state'[t] \in Live \cup {"ZOMBIE"} => parent'[t] # None
    BY <1>0, <2>1, <2>2, <2>3 DEF TreeInv, TypeOK
  <2>5. ASSUME NEW t \in Slot, parent'[t] # None
        PROVE  parent'[t] # t /\ state'[parent'[t]] \in Live
    <3>1. parent[t] \in Slot /\ parent[t] # t /\ state[parent[t]] \in Live
      BY <1>0, <2>3, <2>5 DEF TreeInv, TypeOK
    <3>2. CASE parent[t] = s
      BY <1>0, <2>1, <2>2, <2>3, <2>4, <3>2 DEF TreeInv
    <3>3. CASE parent[t] # s
      BY <2>1, <2>3, <3>1, <3>3
    <3> QED
      BY <3>2, <3>3
  <2>6. \A t \in Slot : state'[t] = "EMBRYO" /\ parent'[t] # None =>
          kpc'[parent'[t]] = "copied" /\ np'[parent'[t]] = t
    BY <1>0, <2>1, <2>2, <2>3 DEF TreeInv, TypeOK
  <2> QED
    BY <2>4, <2>5, <2>6 DEF TreeInv
<1>10. ASSUME NEW s \in Slot, NEW k \in Slot, WaitReap(s, k)
      PROVE  TreeInv'
  BY <1>0, <1>10 DEF WaitReap, At, Goto, Kids, TreeInv, TypeOK
<1>11. ASSUME NEW s \in Slot, NEW n \in KillArgs, Kill(s, n)
      PROVE  TreeInv'
  BY <1>0, <1>1, <1>11 DEF Kill, At, Goto, TypeOK
<1>12. ASSUME NEW s \in Slot, NEW c \in CPUs, Schedule(c, s)
      PROVE  TreeInv'
  BY <1>0, <1>1, <1>12 DEF Schedule, TypeOK
<1>13. CASE (\E c \in {IoChan, AwaitChan} : WakeupIo(c)) \/ InitExits \/ UNCHANGED vars
  BY <1>0, <1>1, <1>13 DEF WakeupIo, Wakeup1, InitExits, vars, TypeOK
<1> QED
  BY <1>2, <1>3, <1>4, <1>5, <1>6, <1>7, <1>8, <1>9, <1>10, <1>11, <1>12, <1>13, NextCases

\* No step leaves a process asleep in wait() without a child, or with an exited one.
LEMMA WaiterStep ==
  ASSUME ProcInv, [Next]_vars
  PROVE  WaiterIsNeeded'
<1> USE ConstFacts DEF ProcState, Calls, Live
<1>0. TypeOK /\ ForkInv /\ TreeInv /\ WaiterIsNeeded /\ TypeOK'
  BY TypeStep DEF ProcInv
\* Steps that put nobody to sleep in wait(), take no child away and end no process.
<1>1. ASSUME \A t \in Slot : state'[t] = "SLEEPING" /\ chan'[t] = t => state[t] = "SLEEPING" /\ chan[t] = t,
             \A k \in Slot : state'[k] = "ZOMBIE" => state[k] = "ZOMBIE" /\ parent'[k] = parent[k],
             \A k \in Slot : parent[k] # None => parent'[k] = parent[k]
      PROVE  WaiterIsNeeded'
  <2> SUFFICES ASSUME NEW t \in Slot, state'[t] = "SLEEPING", chan'[t] = t
               PROVE  Kids(t)' # {} /\ \A k \in Kids(t)' : state'[k] # "ZOMBIE"
    BY DEF WaiterIsNeeded
  <2>1. Kids(t) # {} /\ \A k \in Kids(t) : state[k] # "ZOMBIE"
    BY <1>0, <1>1 DEF WaiterIsNeeded
  <2>2. PICK k \in Slot : parent[k] = t
    BY <2>1 DEF Kids
  <2>3. parent'[k] = t
    BY <1>1, <2>2
  <2>4. ASSUME NEW j \in Slot, parent'[j] = t, state'[j] = "ZOMBIE"
        PROVE  FALSE
    BY <1>1, <2>1, <2>4 DEF Kids
  <2> QED
    BY <2>3, <2>4 DEF Kids
<1>2. ASSUME NEW s \in Slot, (\E call \in UserCalls : Syscall(s, call)) \/ TrapKilled(s) \/ AllocFails(s) \/ Returns(s)
      PROVE  WaiterIsNeeded'
  BY <1>1, <1>2 DEF Syscall, TrapKilled, AllocFails, Returns, IoReturn, AwaitTest, AwaitReturn
<1>3. ASSUME NEW s \in Slot, SleepIo(s) \/ AwaitSleep(s) \/ Yield(s)
      PROVE  WaiterIsNeeded'
  BY <1>0, <1>1, <1>3 DEF SleepIo, AwaitSleep, Yield, Goto, At, TypeOK
<1>4. ASSUME NEW s \in Slot, WaitNone(s)
      PROVE  WaiterIsNeeded'
  BY <1>0, <1>4 DEF WaitNone, At, Kids, WaiterIsNeeded, TypeOK
<1>5. ASSUME NEW s \in Slot, AllocProc(s)
      PROVE  WaiterIsNeeded'
  <2>1. First(Unused) \in Slot /\ state[First(Unused)] = "UNUSED"
    BY <1>0, <1>5, FirstIn DEF AllocProc, Unused
  <2> QED
    BY <1>0, <1>1, <1>5, <2>1 DEF AllocProc, TypeOK
<1>6. ASSUME NEW s \in Slot, ForkFails(s) \/ ForkCopy(s) \/ ForkDone(s)
      PROVE  WaiterIsNeeded'
  <2>1. np[s] \in Slot /\ state[np[s]] = "EMBRYO" /\ (kpc[s] = "embryo" => parent[np[s]] = None)
    BY <1>0, <1>6 DEF ForkFails, ForkCopy, ForkDone, At, ForkInv, Forking
  <2> QED
    BY <1>0, <1>1, <1>6, <2>1 DEF ForkFails, ForkCopy, ForkDone, At, TypeOK
<1>7. ASSUME NEW s \in Slot, Exit(s)
      PROVE  WaiterIsNeeded'
  <2> SUFFICES ASSUME NEW t \in Slot, state'[t] = "SLEEPING", chan'[t] = t
               PROVE  Kids(t)' # {} /\ \A k \in Kids(t)' : state'[k] # "ZOMBIE"
    BY DEF WaiterIsNeeded
  <2>1. /\ state[t] = "SLEEPING" /\ chan[t] = t /\ t # s /\ t # parent[s]
        /\ t = initproc => \A k \in Kids(s) : state[k] # "ZOMBIE"
    BY <1>0, <1>7 DEF Exit, Wakeup1, TypeOK
  <2>2. \A k \in Slot : parent'[k] = IF parent[k] = s THEN initproc ELSE parent[k]
    BY <1>7 DEF Exit
  <2>3. \A k \in Slot \ {s} : state'[k] = "ZOMBIE" => state[k] = "ZOMBIE"
    BY <1>0, <1>7 DEF Exit, Wakeup1, TypeOK
  <2>4. Kids(t) # {} /\ \A k \in Kids(t) : state[k] # "ZOMBIE"
    BY <1>0, <2>1 DEF WaiterIsNeeded
  <2>5. parent[s] # s
    BY <1>0 DEF TreeInv, TypeOK
  <2> QED
    BY <2>1, <2>2, <2>3, <2>4, <2>5 DEF Kids
<1>8. ASSUME NEW s \in Slot, NEW k \in Slot, WaitReap(s, k)
      PROVE  WaiterIsNeeded'
  BY <1>0, <1>8 DEF WaitReap, At, Kids, WaiterIsNeeded, TypeOK
<1>9. ASSUME NEW s \in Slot, NEW n \in KillArgs, Kill(s, n)
      PROVE  WaiterIsNeeded'
  BY <1>0, <1>1, <1>9 DEF Kill, TypeOK
<1>10. ASSUME NEW s \in Slot, NEW c \in CPUs, Schedule(c, s)
      PROVE  WaiterIsNeeded'
  BY <1>0, <1>1, <1>10 DEF Schedule, TypeOK
<1>11. CASE (\E c \in {IoChan, AwaitChan} : WakeupIo(c)) \/ InitExits \/ UNCHANGED vars
  BY <1>0, <1>1, <1>11 DEF WakeupIo, Wakeup1, InitExits, vars, TypeOK
<1> QED
  BY <1>2, <1>3, <1>4, <1>5, <1>6, <1>7, <1>8, <1>9, <1>10, <1>11, NextCases

\* The invariant holds initially,
LEMMA ProcInit == Init => ProcInv
  BY ConstFacts DEF Init, ProcInv, TypeOK, RunsOnOneCpu, ForkInv, Forking, TreeInv, WaiterIsNeeded,
     ProcState, KernelPc, Calls, Live

\* and in every reachable state.
LEMMA ProcAlways == Spec => []ProcInv
<1>1. ProcInv /\ [Next]_vars => ProcInv'
  BY TypeStep, CpuStep, ForkStep, TreeStep, WaiterStep DEF ProcInv
<1> QED
  BY <1>1, ProcInit, PTL DEF Spec

-----------------------------------------------------------------------------
\* A process is on a processor exactly while it is RUNNING, and on one only, for
\* every number of processors and processes (scheduler(), sched()).
THEOREM OneCpuEach == Spec => []RunsOnOneCpu
  BY ProcAlways, PTL DEF ProcInv

\* Every process but init has a living parent and init never leaves the table,
\* whatever generations exit in whatever order (exit(), fork()).
THEOREM TreeIsWhole == Spec => []ParentIsAlive
<1>1. ProcInv => ParentIsAlive
  BY ConstFacts DEF ProcInv, TypeOK, TreeInv, ParentIsAlive, Live
<1> QED
  BY <1>1, ProcAlways, PTL

\* exit() and wait() lose no wakeup: whoever sleeps in wait() has a child and no
\* exited one, also when init inherits children from a process that exits.
THEOREM NoLostWait == Spec => []WaiterIsNeeded
  BY ProcAlways, PTL DEF ProcInv
=============================================================================
