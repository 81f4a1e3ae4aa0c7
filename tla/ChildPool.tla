----------------------------- MODULE ChildPool -----------------------------
(***************************************************************************)
(* The pool of worker processes of assignment/process.c and                *)
(* assignment/processThread.c (the two mains and handlers are the same     *)
(* code; they differ in what a child computes).                            *)
(*                                                                         *)
(* The parent takes a slot from the semaphore numFreeChildren, reads a     *)
(* query, forks a child for it; a SIGCHLD handler reaps exited children    *)
(* and gives their slots back; after the input ends the parent reaps the   *)
(* rest itself with wait(), still racing with the handler.                 *)
(*                                                                         *)
(* Signals: SIGCHLD is not queued, one pending bit stands for any number   *)
(* of exits; it is blocked while its handler runs; SA_RESTART makes        *)
(* sem_wait, scanf's read and wait resume after the handler.  The parent   *)
(* has one thread, so main() stands still while the handler runs.          *)
(***************************************************************************)
EXTENDS Integers, FiniteSets

CONSTANTS Pids,          \* process ids the kernel can give a child
          MAX_CHILDREN   \* process.c:20, processThread.c:36

ASSUME PoolAssumption ==
  /\ MAX_CHILDREN \in Nat \ {0}
  /\ IsFiniteSet(Pids)

VARIABLES sem,       \* value of numFreeChildren
          main,      \* where main() is
          child,     \* state of each process id
          sigpend,   \* 1 iff SIGCHLD is pending
          hpc        \* where handleChildExit() is, "off" when not running

vars == <<sem, main, child, sigpend, hpc>>

MainPc == {"sem_wait", "input", "fork", "wait", "post", "exited"}
HandlerPc == {"off", "waitpid", "post"}
ChildState == {"none", "running", "zombie"}

Unreaped == {c \in Pids : child[c] # "none"}

\* main() runs only when no handler does.
MainAt(l) == main = l /\ hpc = "off"

Init ==
  /\ sem = MAX_CHILDREN
  /\ main = "sem_wait"
  /\ child = [c \in Pids |-> "none"]
  /\ sigpend = 0
  /\ hpc = "off"
-----------------------------------------------------------------------------
(* main(): the query loop. *)

SemWait ==
  /\ MainAt("sem_wait") /\ sem > 0
  /\ sem' = sem - 1
  /\ main' = "input"
  /\ UNCHANGED <<child, sigpend, hpc>>

\* getValidInput() accepts the next query.
ValidInput ==
  /\ MainAt("input")
  /\ main' = "fork"
  /\ UNCHANGED <<sem, child, sigpend, hpc>>

\* End of the input or an invalid query: break, keeping the slot.
InvalidInput ==
  /\ MainAt("input")
  /\ main' = "wait"
  /\ UNCHANGED <<sem, child, sigpend, hpc>>

ForkChild(c) ==
  /\ MainAt("fork") /\ child[c] = "none"
  /\ child' = [child EXCEPT ![c] = "running"]
  /\ main' = "sem_wait"
  /\ UNCHANGED <<sem, sigpend, hpc>>

\* Mutant: the slot is not given back when fork() fails.
ForkFails_KeepsSlot ==
  /\ MainAt("fork")
  /\ main' = "sem_wait"
  /\ UNCHANGED <<sem, child, sigpend, hpc>>

\* fork() fails: the slot goes back, the query is dropped.
ForkFails ==
  /\ MainAt("fork")
  /\ sem' = sem + 1
  /\ main' = "sem_wait"
  /\ UNCHANGED <<child, sigpend, hpc>>

\* The child has computed and printed its integral, and calls _exit(0).
ChildExit(c) ==
  /\ child[c] = "running"
  /\ child' = [child EXCEPT ![c] = "zombie"]
  /\ sigpend' = 1
  /\ UNCHANGED <<sem, main, hpc>>
-----------------------------------------------------------------------------
(* handleChildExit(): reap until waitpid(WNOHANG) finds no exited child. *)

HandlerEnter ==
  /\ sigpend = 1 /\ hpc = "off" /\ main # "exited"
  /\ sigpend' = 0
  /\ hpc' = "waitpid"
  /\ UNCHANGED <<sem, main, child>>

HandlerReap(c) ==
  /\ hpc = "waitpid" /\ child[c] = "zombie"
  /\ child' = [child EXCEPT ![c] = "none"]
  /\ hpc' = "post"
  /\ UNCHANGED <<sem, main, sigpend>>

\* Mutant: "if" instead of "while", one child reaped per signal.
HandlerPost_Once ==
  /\ hpc = "post"
  /\ sem' = sem + 1
  /\ hpc' = "off"
  /\ UNCHANGED <<main, child, sigpend>>

\* Mutant: the handler reaps and gives no slot back.
HandlerPost_Forgets ==
  /\ hpc = "post"
  /\ hpc' = "waitpid"
  /\ UNCHANGED <<sem, main, child, sigpend>>

HandlerPost ==
  /\ hpc = "post"
  /\ sem' = sem + 1
  /\ hpc' = "waitpid"
  /\ UNCHANGED <<main, child, sigpend>>

HandlerReturn ==
  /\ hpc = "waitpid" /\ \A c \in Pids : child[c] # "zombie"
  /\ hpc' = "off"
  /\ UNCHANGED <<sem, main, child, sigpend>>
-----------------------------------------------------------------------------
(* main(): the wait() loop after the input. *)

MainReap(c) ==
  /\ MainAt("wait") /\ child[c] = "zombie"
  /\ child' = [child EXCEPT ![c] = "none"]
  /\ main' = "post"
  /\ UNCHANGED <<sem, sigpend, hpc>>

MainPost ==
  /\ MainAt("post")
  /\ sem' = sem + 1
  /\ main' = "wait"
  /\ UNCHANGED <<child, sigpend, hpc>>

\* wait() returns -1: no child is left.  _exit(0).
MainExit ==
  /\ MainAt("wait") /\ Unreaped = {}
  /\ main' = "exited"
  /\ UNCHANGED <<sem, child, sigpend, hpc>>
-----------------------------------------------------------------------------
Handler ==
  HandlerEnter \/ (\E c \in Pids : HandlerReap(c)) \/ HandlerPost \/ HandlerReturn

MainLoop ==
  \/ SemWait \/ ValidInput \/ InvalidInput \/ ForkFails
  \/ \E c \in Pids : ForkChild(c)

MainDrain == (\E c \in Pids : MainReap(c)) \/ MainPost \/ MainExit

\* The program is over.
Terminated == main = "exited" /\ UNCHANGED vars

Next ==
  \/ MainLoop \/ MainDrain \/ Handler
  \/ \E c \in Pids : ChildExit(c)
  \/ Terminated

Spec == Init /\ [][Next]_vars

\* The kernel runs the parent and the children, and delivers signals; a child
\* finishes, because numSteps is finite.
Fairness ==
  /\ WF_vars(MainLoop \/ MainDrain)
  /\ WF_vars(Handler)
  /\ \A c \in Pids : WF_vars(ChildExit(c))

LiveSpec == Spec /\ Fairness
-----------------------------------------------------------------------------
(* Properties *)

\* Type invariant; at most MAX_CHILDREN slots are ever free.
TypeOK ==
  /\ sem \in 0 .. MAX_CHILDREN
  /\ main \in MainPc
  /\ child \in [Pids -> ChildState]
  /\ sigpend \in {0, 1}
  /\ hpc \in HandlerPc

One(b) == IF b THEN 1 ELSE 0

\* No slot is lost or invented, whoever reaps a child and wherever the signal
\* lands: free slots, unreaped children, posts on their way and the slot
\* main() holds add up to MAX_CHILDREN.
SlotsConserved ==
  sem + Cardinality(Unreaped) + One(main # "sem_wait")
      + One(hpc = "post") + One(main = "post") = MAX_CHILDREN

\* Exits coalesced into one SIGCHLD, or arriving while the handler runs, are
\* not forgotten: as long as an exited child is unreaped, a signal is pending
\* or the handler is still looking.
ZombieIsNoticed ==
  (\E c \in Pids : child[c] = "zombie") => sigpend = 1 \/ hpc # "off"

\* The parent is never stuck: in sem_wait() a slot comes back, and once the
\* input has ended it exits, whoever reaps the last children.
PoolKeepsGoing ==
  /\ (main = "sem_wait") ~> (main = "input")
  /\ (main = "wait") ~> (main = "exited")
=============================================================================
