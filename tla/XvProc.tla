------------------------------- MODULE XvProc -------------------------------
(***************************************************************************)
(* The process table of xv6 (lab10xv6/xv6/proc.c): allocproc, fork, exit,  *)
(* wait, kill, sleep/wakeup, yield and the per-CPU scheduler, and the      *)
(* points of trap.c where a killed process is sent to exit().              *)
(*                                                                         *)
(* A critical section under ptable.lock is one step; it ends either with   *)
(* release() or with the switch back to the CPU's scheduler.  What fork()  *)
(* does to the new slot between its two critical sections (the write of    *)
(* np->parent, a failure that puts the slot back to UNUSED) is done        *)
(* without the lock and is a step of its own.                              *)
(***************************************************************************)
EXTENDS Integers, FiniteSets

CONSTANTS NPROC,      \* size of ptable.proc
          CPUs,       \* processors
          MaxPid,     \* bound: last pid handed out in a run
          KillArgs,   \* pids that processes pass to kill()
          UserCalls   \* system calls that processes make

Calls == {"fork", "exit", "wait", "kill", "io", "await"}

ASSUME ProcAssumption ==
  /\ NPROC \in Nat \ {0}
  /\ MaxPid \in Nat \ {0}
  /\ KillArgs \subseteq Nat /\ KillArgs # {}
  /\ UserCalls \subseteq Calls

Slot == 1 .. NPROC
initproc == 1         \* userinit() takes the first slot
None == 0             \* a null struct proc*, no channel
IoChan == NPROC + 1   \* a channel whose wakeup comes about: disk, lock, log, clock
AwaitChan == NPROC + 2 \* one whose wakeup may never come: a pipe, the console

VARIABLES state,     \* p->state
          pid,       \* p->pid
          parent,    \* p->parent
          killed,    \* p->killed
          chan,      \* p->chan
          kpc,       \* where the process is in the kernel, "user" when it is not
          np,        \* fork()'s new process
          cpu,       \* c->proc of each processor
          nextpid,
          panic

vars == <<state, pid, parent, killed, chan, kpc, np, cpu, nextpid, panic>>

ProcState == {"UNUSED", "EMBRYO", "SLEEPING", "RUNNABLE", "RUNNING", "ZOMBIE"}
KernelPc == Calls \cup {"user", "embryo", "copied", "tosleep"}

Init ==
  /\ state = [s \in Slot |-> IF s = initproc THEN "RUNNABLE" ELSE "UNUSED"]
  /\ pid = [s \in Slot |-> IF s = initproc THEN 1 ELSE 0]
  /\ parent = [s \in Slot |-> None]
  /\ killed = [s \in Slot |-> 0]
  /\ chan = [s \in Slot |-> None]
  /\ kpc = [s \in Slot |-> "user"]
  /\ np = [s \in Slot |-> None]
  /\ cpu = [c \in CPUs |-> None]
  /\ nextpid = 2
  /\ panic = "none"

\* p runs on a processor, at label l of the kernel.
At(s, l) == state[s] = "RUNNING" /\ kpc[s] = l /\ panic = "none"
Goto(s, l) == kpc' = [kpc EXCEPT ![s] = l]

\* sched() from process s: its processor goes back to the scheduler loop.
LeaveCpu(s) == cpu' = [c \in CPUs |-> IF cpu[c] = s THEN None ELSE cpu[c]]

\* wakeup1(c) applied to the state function st.
Wakeup1(st, c) ==
  [s \in Slot |-> IF st[s] = "SLEEPING" /\ chan[s] = c THEN "RUNNABLE" ELSE st[s]]
-----------------------------------------------------------------------------
(* trap(): a killed process goes to exit(), any other may make a call. *)

\* init reads neither the console nor a pipe (init.c).
Syscall(s, call) ==
  /\ At(s, "user") /\ killed[s] = 0
  /\ call = "await" => s # initproc
  /\ Goto(s, call)
  /\ UNCHANGED <<state, pid, parent, killed, chan, np, cpu, nextpid, panic>>

TrapKilled(s) ==
  /\ At(s, "user") /\ killed[s] = 1
  /\ Goto(s, "exit")
  /\ UNCHANGED <<state, pid, parent, killed, chan, np, cpu, nextpid, panic>>

\* The timer interrupts a running process, in user space or in the kernel, but
\* not while it holds a spinlock, as it does on its way to sleep().
Yield(s) ==
  /\ state[s] = "RUNNING" /\ kpc[s] # "tosleep" /\ panic = "none"
  /\ state' = [state EXCEPT ![s] = "RUNNABLE"]
  /\ LeaveCpu(s)
  /\ UNCHANGED <<pid, parent, killed, chan, kpc, np, nextpid, panic>>
-----------------------------------------------------------------------------
(* fork() *)

Unused == {s \in Slot : state[s] = "UNUSED"}
First(S) == CHOOSE s \in S : \A t \in S : s <= t

\* allocproc(): the first UNUSED slot becomes an EMBRYO with a new pid.
AllocProc(s) ==
  /\ At(s, "fork") /\ Unused # {} /\ nextpid <= MaxPid
  /\ state' = [state EXCEPT ![First(Unused)] = "EMBRYO"]
  /\ pid' = [pid EXCEPT ![First(Unused)] = nextpid]
  /\ np' = [np EXCEPT ![s] = First(Unused)]
  /\ nextpid' = nextpid + 1
  /\ Goto(s, "embryo")
  /\ UNCHANGED <<parent, killed, chan, cpu, panic>>

\* No slot (or no pid left within the bound): fork() returns -1.
AllocFails(s) ==
  /\ At(s, "fork") /\ (Unused = {} \/ nextpid > MaxPid)
  /\ Goto(s, "user")
  /\ UNCHANGED <<state, pid, parent, killed, chan, np, cpu, nextpid, panic>>

\* kalloc() or copyuvm() fails: the slot is UNUSED again, its pid stays.
ForkFails(s) ==
  /\ At(s, "embryo")
  /\ state' = [state EXCEPT ![np[s]] = "UNUSED"]
  /\ np' = [np EXCEPT ![s] = None]
  /\ Goto(s, "user")
  /\ UNCHANGED <<pid, parent, killed, chan, cpu, nextpid, panic>>

\* Address space, files, directory and parent copied, without ptable.lock.
ForkCopy(s) ==
  /\ At(s, "embryo")
  /\ parent' = [parent EXCEPT ![np[s]] = s]
  /\ Goto(s, "copied")
  /\ UNCHANGED <<state, pid, killed, chan, np, cpu, nextpid, panic>>

\* The child starts at forkret() and trapret(), in user space.
ForkDone(s) ==
  /\ At(s, "copied")
  /\ state' = [state EXCEPT ![np[s]] = "RUNNABLE"]
  /\ np' = [np EXCEPT ![s] = None]
  /\ kpc' = [kpc EXCEPT ![s] = "user", ![np[s]] = "user"]
  /\ UNCHANGED <<pid, parent, killed, chan, cpu, nextpid, panic>>
-----------------------------------------------------------------------------
(* exit() and wait() *)

Kids(s) == {k \in Slot : parent[k] = s}

\* Mutant: init is not woken for the exited children it inherits.
Exit_OrphansUnseen(s) ==
  /\ At(s, "exit") /\ s # initproc
  /\ state' = [Wakeup1(state, parent[s]) EXCEPT ![s] = "ZOMBIE"]
  /\ parent' = [k \in Slot |-> IF parent[k] = s THEN initproc ELSE parent[k]]
  /\ LeaveCpu(s)
  /\ UNCHANGED <<pid, killed, chan, kpc, np, nextpid, panic>>

\* Mutant: the children are not handed to init.
Exit_KeepsKids(s) ==
  /\ At(s, "exit") /\ s # initproc
  /\ state' = [Wakeup1(state, parent[s]) EXCEPT ![s] = "ZOMBIE"]
  /\ LeaveCpu(s)
  /\ UNCHANGED <<pid, parent, killed, chan, kpc, np, nextpid, panic>>

\* Mutant: the parent is not woken.
Exit_Silent(s) ==
  /\ At(s, "exit") /\ s # initproc
  /\ state' = [state EXCEPT ![s] = "ZOMBIE"]
  /\ parent' = [k \in Slot |-> IF parent[k] = s THEN initproc ELSE parent[k]]
  /\ LeaveCpu(s)
  /\ UNCHANGED <<pid, killed, chan, kpc, np, nextpid, panic>>

\* The last part of exit(), under ptable.lock.
Exit(s) ==
  /\ At(s, "exit") /\ s # initproc
  /\ LET orphanZombie == \E k \in Kids(s) : state[k] = "ZOMBIE"
         woken == Wakeup1(state, parent[s])
     IN state' = [(IF orphanZombie THEN Wakeup1(woken, initproc) ELSE woken)
                     EXCEPT ![s] = "ZOMBIE"]
  /\ parent' = [k \in Slot |-> IF parent[k] = s THEN initproc ELSE parent[k]]
  /\ LeaveCpu(s)
  /\ UNCHANGED <<pid, killed, chan, kpc, np, nextpid, panic>>

\* exit() of init, when exec() or fork() fails it (initcode.S, init.c) or when
\* it is killed: the kernel stops.
InitExits ==
  /\ At(initproc, "exit")
  /\ panic' = "init_exiting"
  /\ UNCHANGED <<state, pid, parent, killed, chan, kpc, np, cpu, nextpid>>

\* wait() finds an exited child k and frees its slot.
WaitReap(s, k) ==
  /\ At(s, "wait") /\ k \in Kids(s) /\ state[k] = "ZOMBIE"
  /\ state' = [state EXCEPT ![k] = "UNUSED"]
  /\ pid' = [pid EXCEPT ![k] = 0]
  /\ parent' = [parent EXCEPT ![k] = None]
  /\ killed' = [killed EXCEPT ![k] = 0]
  /\ Goto(s, "user")
  /\ UNCHANGED <<chan, np, cpu, nextpid, panic>>

\* wait() returns -1, or sleeps on the caller's own struct proc.
WaitNone(s) ==
  /\ At(s, "wait") /\ \A k \in Kids(s) : state[k] # "ZOMBIE"
  /\ \/ /\ Kids(s) = {} \/ killed[s] = 1
        /\ Goto(s, "user")
        /\ UNCHANGED <<state, chan, cpu>>
     \/ /\ Kids(s) # {} /\ killed[s] = 0
        /\ state' = [state EXCEPT ![s] = "SLEEPING"]
        /\ chan' = [chan EXCEPT ![s] = s]
        /\ LeaveCpu(s)
        /\ UNCHANGED kpc
  /\ UNCHANGED <<pid, parent, killed, np, nextpid, panic>>
-----------------------------------------------------------------------------
(* sleep() and wakeup() on anything else, kill(), the scheduler *)

\* A call that waits for the disk, a buffer's or an inode's lock, the log or the
\* clock sleeps, any number of times, whether or not it has been killed meanwhile
\* (so does exit(), when it closes files),
SleepIo(s) ==
  /\ At(s, "io") \/ (At(s, "exit") /\ s # initproc)
  /\ state' = [state EXCEPT ![s] = "SLEEPING"]
  /\ chan' = [chan EXCEPT ![s] = IoChan]
  /\ LeaveCpu(s)
  /\ UNCHANGED <<pid, parent, killed, kpc, np, nextpid, panic>>

\* and in the end returns.
IoReturn(s) ==
  /\ At(s, "io")
  /\ Goto(s, "user")
  /\ UNCHANGED <<state, pid, parent, killed, chan, np, cpu, nextpid, panic>>

\* A call that waits for what may never come (piperead(), pipewrite(),
\* consoleread()) tests killed, each time round its loop, while it
\* holds the spinlock of what it waits for,
AwaitTest(s) ==
  /\ At(s, "await") /\ killed[s] = 0
  /\ Goto(s, "tosleep")
  /\ UNCHANGED <<state, pid, parent, killed, chan, np, cpu, nextpid, panic>>

\* and then calls sleep(), which takes ptable.lock: a kill() may come in between.
AwaitSleep(s) ==
  /\ At(s, "tosleep")
  /\ state' = [state EXCEPT ![s] = "SLEEPING"]
  /\ chan' = [chan EXCEPT ![s] = AwaitChan]
  /\ LeaveCpu(s)
  /\ Goto(s, "await")
  /\ UNCHANGED <<pid, parent, killed, np, nextpid, panic>>

\* It returns with what it waited for, or with -1 because it is killed.
AwaitReturn(s) ==
  /\ At(s, "await")
  /\ Goto(s, "user")
  /\ UNCHANGED <<state, pid, parent, killed, chan, np, cpu, nextpid, panic>>

\* Somebody, an interrupt handler for one, calls wakeup().
WakeupIo(c) ==
  /\ panic = "none" /\ \E s \in Slot : state[s] = "SLEEPING" /\ chan[s] = c
  /\ state' = Wakeup1(state, c)
  /\ UNCHANGED <<pid, parent, killed, chan, kpc, np, cpu, nextpid, panic>>

\* Mutant: kill() sets killed and leaves a sleeper asleep.
Kill_LeavesAsleep(s, n) ==
  LET hit == {v \in Slot : pid[v] = n} IN
  /\ At(s, "kill")
  /\ killed' = [v \in Slot |-> IF hit # {} /\ v = First(hit) THEN 1 ELSE killed[v]]
  /\ Goto(s, "user")
  /\ UNCHANGED <<state, pid, parent, chan, np, cpu, nextpid, panic>>

\* kill(n): the first slot whose pid field is n, whatever its state.
Kill(s, n) ==
  LET hit == {v \in Slot : pid[v] = n} IN
  /\ At(s, "kill")
  /\ \/ /\ hit # {}
        /\ killed' = [killed EXCEPT ![First(hit)] = 1]
        /\ state' = [state EXCEPT ![First(hit)] = IF @ = "SLEEPING" THEN "RUNNABLE" ELSE @]
     \/ /\ hit = {}
        /\ UNCHANGED <<killed, state>>
  /\ Goto(s, "user")
  /\ UNCHANGED <<pid, parent, chan, np, cpu, nextpid, panic>>

\* scheduler() switches to s, which comes back from sched() in yield() or
\* sleep() (where it clears its channel) and releases ptable.lock.
Schedule(c, s) ==
  /\ cpu[c] = None /\ state[s] = "RUNNABLE" /\ panic = "none"
  /\ cpu' = [cpu EXCEPT ![c] = s]
  /\ state' = [state EXCEPT ![s] = "RUNNING"]
  /\ chan' = [chan EXCEPT ![s] = None]
  /\ UNCHANGED <<pid, parent, killed, kpc, np, nextpid, panic>>
-----------------------------------------------------------------------------
\* The steps that take a process out of a system call, or put it to sleep in it:
\* what it does by itself once it runs.
Finish(s) ==
  \/ TrapKilled(s) \/ Exit(s)
  \/ AllocProc(s) \/ AllocFails(s) \/ ForkFails(s) \/ ForkCopy(s) \/ ForkDone(s)
  \/ (\E k \in Slot : WaitReap(s, k)) \/ WaitNone(s) \/ IoReturn(s)
  \/ AwaitSleep(s) \/ (killed[s] = 1 /\ AwaitReturn(s))
  \/ \E n \in KillArgs : Kill(s, n)

ProcStep(s) ==
  Finish(s) \/ SleepIo(s) \/ AwaitTest(s) \/ AwaitReturn(s) \/ Yield(s) \/ \E call \in UserCalls : Syscall(s, call)

Next ==
  \/ \E s \in Slot : ProcStep(s)
  \/ \E c \in CPUs, s \in Slot : Schedule(c, s)
  \/ (\E c \in {IoChan, AwaitChan} : WakeupIo(c)) \/ InitExits

Spec == Init /\ [][Next]_vars

\* Each processor scans the table in turn, so a process that keeps becoming
\* RUNNABLE runs; the timer takes the processor away from it; it is not
\* preempted for ever in the same place; the disk answers, and locks and log
\* come free; a killed process traps within a tick; and init, whatever else it
\* does, calls wait() again and again (init.c).  Nothing is assumed of pipes or
\* the console: a process that waits for those may sleep for ever.
Fairness ==
  /\ \A s \in Slot : SF_vars(\E c \in CPUs : Schedule(c, s))
  /\ \A s \in Slot : WF_vars(Yield(s))
  /\ \A s \in Slot : SF_vars(Finish(s))
  /\ WF_vars(WakeupIo(IoChan))
  /\ SF_vars(InitExits)
  /\ SF_vars(Syscall(initproc, "wait"))

LiveSpec == Spec /\ Fairness
-----------------------------------------------------------------------------
(* Properties *)

\* Type invariant.
TypeOK ==
  /\ state \in [Slot -> ProcState]
  /\ pid \in [Slot -> Nat]
  /\ parent \in [Slot -> Slot \cup {None}]
  /\ killed \in [Slot -> {0, 1}]
  /\ chan \in [Slot -> Slot \cup {None, IoChan, AwaitChan}]
  /\ kpc \in [Slot -> KernelPc]
  /\ np \in [Slot -> Slot \cup {None}]
  /\ cpu \in [CPUs -> Slot \cup {None}]
  /\ nextpid \in Nat
  /\ panic \in {"none", "init_exiting"}

Live == {"SLEEPING", "RUNNABLE", "RUNNING"}

\* A process is on a processor exactly while it is RUNNING, and on one only.
RunsOnOneCpu ==
  /\ \A s \in Slot : state[s] = "RUNNING" <=> \E c \in CPUs : cpu[c] = s
  /\ \A c, d \in CPUs : cpu[c] = cpu[d] /\ cpu[c] # None => c = d

\* The family tree: every process but init has a living parent (exit() hands
\* its children to init before it becomes a zombie), and init never leaves.
ParentIsAlive ==
  /\ state[initproc] \in Live
  /\ \A s \in Slot \ {initproc} :
       state[s] \in Live \cup {"ZOMBIE"} => parent[s] # None /\ state[parent[s]] \in Live

\* exit() and wait() lose no wakeup: a process asleep in wait() has a child
\* and no exited one.
WaiterIsNeeded ==
  \A s \in Slot : state[s] = "SLEEPING" /\ chan[s] = s =>
    /\ Kids(s) # {}
    /\ \A k \in Kids(s) : state[k] # "ZOMBIE"

Gone(s) == state[s] \in {"ZOMBIE", "UNUSED"} \/ panic # "none"

\* A killed process exits, in user space, in wait(), asleep for the disk or asleep
\* for input that never comes; except when kill() finds it between the test of
\* killed and sleep() (pipe.c:86-91 and 107-111, console.c:246-251).
KilledExits ==
  \A s \in Slot \ {initproc} :
    [](killed[s] = 1 => kpc[s] # "tosleep") =>
      ((killed[s] = 1 /\ state[s] \in Live) ~> Gone(s))

\* An exited process whose parent is init, or has left it to init, is reaped.
InitReaps ==
  \A s \in Slot \ {initproc} :
    (state[s] = "ZOMBIE" /\ parent[s] = initproc) ~> (state[s] = "UNUSED" \/ panic # "none")
=============================================================================
