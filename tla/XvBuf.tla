------------------------------- MODULE XvBuf -------------------------------
(***************************************************************************)
(* The buffer cache (bio.c) with its sleep locks (sleeplock.c), above the   *)
(* IDE driver and the disk it talks to (ide.c).  A process has a buffer in  *)
(* use, and while it holds that one it may use a second (write_log() and    *)
(* install_trans(), a block allocated below an indirect one).  It changes a *)
(* block it holds through to the disk (bwrite) or in memory only            *)
(* (log_write, which pins the buffer by B_DIRTY until a later bwrite).      *)
(* Every section under a spin lock is one step; sleep() and wakeup() are    *)
(* what they are in the code, so that a wakeup can be missed.               *)
(***************************************************************************)
EXTENDS Integers, Sequences, FiniteSets, SequencesExt

CONSTANTS Procs, Blocks, Vals, Nobody,
          NBUF,     \* buffers
          Wants,    \* the blocks each process asks for: the runs to explore
          MaxPins   \* bound: buffers the log keeps dirty at a time

Bufs == 1..NBUF
\* A use of a buffer: by a process, as its first or as its second.
Uses == Procs \X {1, 2}

ASSUME BuffersAssumption ==
  /\ NBUF \in Nat /\ MaxPins \in Nat /\ IsFiniteSet(Procs)
  /\ Nobody \notin Uses \cup Blocks /\ Vals # {}
  /\ Wants \subseteq [Uses -> Seq(Blocks)]

VARIABLES
  buf,    \* [blk, ref, valid, dirty, data, lock]; lock: the use that has the sleep lock
  lru,    \* the list from head.next (most recently used) on
  queue,  \* idequeue: its head is the active request
  ide,    \* what the disk was told: [cmd, blk, data], cmd "none" when it is done
  disk,
  pc, at, \* where each use is, and with which buffer
  gets,   \* the blocks each use has still to ask for
  asleep, \* uses whose process sleeps, for the buffer's lock or for the disk
  halted  \* processes that panicked

bufvars == <<buf, lru, queue, ide, disk, pc, at, gets, asleep, halted>>

Idle == [cmd |-> "none", blk |-> Nobody, data |-> Nobody]

BufInit ==
  /\ disk = [b \in Blocks |-> CHOOSE v \in Vals : TRUE]
  /\ buf = [i \in Bufs |-> [blk |-> Nobody, ref |-> 0, valid |-> FALSE, dirty |-> FALSE,
                            data |-> CHOOSE v \in Vals : TRUE, lock |-> Nobody]]
  /\ lru = [i \in Bufs |-> NBUF + 1 - i]
  /\ queue = <<>> /\ ide = Idle
  /\ pc = [u \in Uses |-> "idle"] /\ at = [u \in Uses |-> 0]
  /\ gets \in Wants /\ asleep = {} /\ halted = {}

Pinned == {i \in Bufs : buf[i].dirty /\ i \notin ToSet(queue)}
Cached(b) == {i \in Bufs : buf[i].blk = b}

\* Mutant: B_DIRTY does not keep a buffer.
Victims_Pinned == {i \in Bufs : buf[i].ref = 0}

\* Buffers that may be given to another block.
Victims == {i \in Bufs : buf[i].ref = 0 /\ ~buf[i].dirty}

\* The victim nearest the least recently used end.
Victim == lru[CHOOSE k \in Bufs : lru[k] \in Victims /\ \A j \in (k + 1)..NBUF : lru[j] \notin Victims]

\* A process asks for a second buffer while it holds the first, and has given the
\* second back when it asks for a first again.
MayGet(u) == IF u[2] = 2 THEN pc[<<u[1], 1>>] = "hold" ELSE pc[<<u[1], 2>>] = "idle"

\* bget() under bcache.lock: the block's buffer, or a recycled one.
Bget(u, b) ==
  /\ pc[u] = "idle" /\ MayGet(u) /\ gets[u] # <<>> /\ b = Head(gets[u])
  /\ gets' = [gets EXCEPT ![u] = Tail(@)]
  /\ IF Cached(b) # {}
     THEN LET i == CHOOSE j \in Cached(b) : TRUE
          IN  buf' = [buf EXCEPT ![i].ref = @ + 1] /\ at' = [at EXCEPT ![u] = i]
     ELSE /\ Victims # {}
          /\ buf' = [buf EXCEPT ![Victim] = [@ EXCEPT !.blk = b, !.ref = 1, !.valid = FALSE, !.dirty = FALSE]]
          /\ at' = [at EXCEPT ![u] = Victim]
  /\ pc' = [pc EXCEPT ![u] = "lock"]
  /\ UNCHANGED <<lru, queue, ide, disk, asleep, halted>>

\* "bget: no buffers": the process stops, with what it holds.
BgetPanics(u) ==
  /\ pc[u] = "idle" /\ MayGet(u) /\ gets[u] # <<>> /\ Cached(Head(gets[u])) = {} /\ Victims = {}
  /\ halted' = halted \cup {u[1]}
  /\ UNCHANGED <<buf, lru, queue, ide, disk, pc, at, gets, asleep>>

\* acquiresleep(); bread() then reads the block unless it is valid.
Acquire(u) ==
  /\ pc[u] = "lock" /\ u \notin asleep /\ buf[at[u]].lock = Nobody
  /\ buf' = [buf EXCEPT ![at[u]].lock = u]
  /\ pc' = [pc EXCEPT ![u] = IF buf[at[u]].valid THEN "hold" ELSE "rw"]
  /\ UNCHANGED <<lru, queue, ide, disk, at, gets, asleep, halted>>

\* B_VALID set and B_DIRTY clear: what iderw() waits for.
Finished(i) == buf[i].valid /\ ~buf[i].dirty

\* sleep() in the loops of acquiresleep() and iderw(), which test again when woken.
SleepAgain(u) ==
  /\ u \notin asleep
  /\ \/ pc[u] = "lock" /\ buf[at[u]].lock # Nobody
     \/ pc[u] \in {"io", "writing"} /\ ~Finished(at[u])
  /\ asleep' = asleep \cup {u}
  /\ UNCHANGED <<buf, lru, queue, ide, disk, pc, at, gets, halted>>

\* kill() makes a sleeping process runnable, whatever it sleeps for.
KillWakes(u) ==
  /\ u \in asleep
  /\ asleep' = asleep \ {u}
  /\ UNCHANGED <<buf, lru, queue, ide, disk, pc, at, gets, halted>>

\* idestart(): a write hands its data over at once.
Idestart(i) ==
  ide' = [cmd |-> IF buf[i].dirty THEN "write" ELSE "read", blk |-> buf[i].blk, data |-> buf[i].data]

\* iderw() under idelock: queue the buffer, start the disk if it was idle, sleep.
Iderw(u) ==
  /\ pc[u] \in {"rw", "write"}
  /\ queue' = Append(queue, at[u])
  /\ IF queue = <<>> THEN Idestart(at[u]) ELSE UNCHANGED ide
  /\ pc' = [pc EXCEPT ![u] = IF pc[u] = "rw" THEN "io" ELSE "writing"]
  /\ asleep' = asleep \cup {u}
  /\ UNCHANGED <<buf, lru, disk, at, gets, halted>>

\* The loop of iderw() finds the request finished.
IderwEnd(u) ==
  /\ pc[u] \in {"io", "writing"} /\ u \notin asleep /\ Finished(at[u])
  /\ pc' = [pc EXCEPT ![u] = IF pc[u] = "io" THEN "hold" ELSE "done"]
  /\ UNCHANGED <<buf, lru, queue, ide, disk, at, gets, asleep, halted>>

\* External: the disk does what it was told; its interrupt is then pending.
DiskWorks ==
  /\ ide.cmd \in {"read", "write"}
  /\ disk' = IF ide.cmd = "write" THEN [disk EXCEPT ![ide.blk] = ide.data] ELSE disk
  /\ ide' = [ide EXCEPT !.cmd = "irq", !.data = disk[ide.blk]]
  /\ UNCHANGED <<buf, lru, queue, pc, at, gets, asleep, halted>>

\* Mutant: the next request is not started.
StartNext_Never(q) == ide' = Idle

\* Start disk on next buf in queue.
StartNext(q) == IF q # <<>> THEN Idestart(Head(q)) ELSE ide' = Idle

\* Those who sleep on buffer i (at one of the labels), wakeup(b) and wakeup(lk).
Sleepers(i, labels) == {u \in asleep : at[u] = i /\ pc[u] \in labels}

\* Mutant: ideintr() does not call wakeup(b).
Ideintr_Silent ==
  /\ ide.cmd = "irq" /\ queue # <<>>
  /\ LET i == Head(queue)
     IN  buf' = [buf EXCEPT ![i] = [@ EXCEPT !.valid = TRUE, !.dirty = FALSE,
                                             !.data = IF buf[i].dirty THEN buf[i].data ELSE ide.data]]
  /\ queue' = Tail(queue)
  /\ StartNext(Tail(queue))
  /\ UNCHANGED <<lru, disk, pc, at, gets, asleep, halted>>

\* ideintr(): the head of the queue is finished, whoever waits for it is woken, the
\* next request started.
Ideintr ==
  /\ ide.cmd = "irq" /\ queue # <<>>
  /\ LET i == Head(queue)
     IN  /\ buf' = [buf EXCEPT ![i] = [@ EXCEPT !.valid = TRUE, !.dirty = FALSE,
                                                !.data = IF buf[i].dirty THEN buf[i].data ELSE ide.data]]
         /\ asleep' = asleep \ Sleepers(i, {"io", "writing"})
  /\ queue' = Tail(queue)
  /\ StartNext(Tail(queue))
  /\ UNCHANGED <<lru, disk, pc, at, gets, halted>>

\* The holder changes the block and calls bwrite(), its last use of the buffer.
Bwrite(u, v) ==
  /\ pc[u] = "hold"
  /\ buf' = [buf EXCEPT ![at[u]].data = v, ![at[u]].dirty = TRUE]
  /\ pc' = [pc EXCEPT ![u] = "write"]
  /\ UNCHANGED <<lru, queue, ide, disk, at, gets, asleep, halted>>

\* The holder changes the block and calls log_write().
LogWrite(u, v) ==
  /\ pc[u] = "hold" /\ (buf[at[u]].dirty \/ Cardinality(Pinned) < MaxPins)
  /\ buf' = [buf EXCEPT ![at[u]].data = v, ![at[u]].dirty = TRUE]
  /\ UNCHANGED <<lru, queue, ide, disk, pc, at, gets, asleep, halted>>

\* brelse(): releasesleep() first, then the reference under bcache.lock.
Brelse(u) ==
  /\ pc[u] \in {"hold", "done"}
  /\ buf' = [buf EXCEPT ![at[u]].lock = Nobody]
  /\ asleep' = asleep \ Sleepers(at[u], {"lock"})
  /\ pc' = [pc EXCEPT ![u] = "drop"]
  /\ UNCHANGED <<lru, queue, ide, disk, at, gets, halted>>

\* Mutant: the reference is kept.
BrelseDrop_KeepsRef(u) ==
  /\ pc[u] = "drop"
  /\ pc' = [pc EXCEPT ![u] = "idle"] /\ at' = [at EXCEPT ![u] = 0]
  /\ UNCHANGED <<buf, lru, queue, ide, disk, gets, asleep, halted>>

\* Buffer i, at k in the list, moves to its front: those before it move back by one.
MoveToFront(i) ==
  LET k == CHOOSE j \in Bufs : lru[j] = i
  IN  [j \in Bufs |-> IF j = 1 THEN i ELSE IF j <= k THEN lru[j - 1] ELSE lru[j]]

BrelseDrop(u) ==
  /\ pc[u] = "drop"
  /\ buf' = [buf EXCEPT ![at[u]].ref = @ - 1]
  /\ lru' = IF buf[at[u]].ref = 1 THEN MoveToFront(at[u]) ELSE lru
  /\ pc' = [pc EXCEPT ![u] = "idle"] /\ at' = [at EXCEPT ![u] = 0]
  /\ UNCHANGED <<queue, ide, disk, gets, asleep, halted>>

\* A process does one thing at a time, and nothing after a panic.
Turn(u) == u[1] \notin halted /\ pc[<<u[1], 3 - u[2]>>] \in {"idle", "hold", "done"}

ProcStep(u) ==
  /\ Turn(u)
  /\ \/ Acquire(u) \/ SleepAgain(u) \/ Iderw(u) \/ IderwEnd(u) \/ Brelse(u) \/ BrelseDrop(u)
     \/ BgetPanics(u) \/ \E b \in Blocks : Bget(u, b)

Change(u) == Turn(u) /\ \E v \in Vals : Bwrite(u, v) \/ LogWrite(u, v)

BufNext ==
  \/ DiskWorks \/ Ideintr
  \/ \E u \in Uses : ProcStep(u) \/ Change(u) \/ KillWakes(u)

BufSpec == BufInit /\ [][BufNext]_bufvars

\* The disk answers, interrupts are taken, and a process that can go on does; no
\* process holds a buffer for ever.
BufFair == WF_bufvars(DiskWorks) /\ WF_bufvars(Ideintr) /\ \A u \in Uses : WF_bufvars(ProcStep(u))

----------------------------------------------------------------------------
\* A block's contents are those of its buffer, once that is valid.
Contents(b) ==
  LET c == {i \in Cached(b) : buf[i].valid}
  IN  IF c = {} THEN disk[b] ELSE buf[CHOOSE i \in c : TRUE].data
Owner(b) ==
  LET c == {i \in Cached(b) : buf[i].lock # Nobody}
  IN  IF c = {} THEN Nobody ELSE buf[CHOOSE i \in c : TRUE].lock

ProcOf(u) == IF u = Nobody THEN Nobody ELSE u[1]

Store == INSTANCE BlockStore WITH store <- [b \in Blocks |-> Contents(b)],
                                  holder <- [b \in Blocks |-> ProcOf(Owner(b))]

\* Whatever is recycled, queued, read or written back: a block changes only by a
\* write of the process that holds it, and one process holds it at a time.
BlocksAreKept == Store!Spec

\* bget() panics only when there is no other way: every buffer is in the hands of a
\* process at that moment, or pinned by the log.  No reference is ever lost.
PanicsOnlyWhenFull ==
  [][\A p \in halted' \ halted, i \in Bufs : i \in Pinned \/ \E u \in Uses : at[u] = i]_bufvars

\* No wakeup is lost, however acquiresleep(), releasesleep(), iderw(), ideintr() and
\* kill() interleave: who sleeps for a sleep lock finds it taken, who sleeps for the disk
\* has its buffer in the queue.
SleepersAreOwed ==
  \A u \in asleep : \/ pc[u] = "lock" /\ buf[at[u]].lock # Nobody
                    \/ pc[u] \in {"io", "writing"} /\ at[u] \in ToSet(queue)

\* Unless the kernel panics, a process that asked for a block gets it and its request
\* finishes.
RequestsFinish ==
  [](halted = {}) => \A u \in Uses : (pc[u] \notin {"idle", "hold"}) ~> (pc[u] \in {"idle", "hold"})
=============================================================================
