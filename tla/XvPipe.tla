------------------------------- MODULE XvPipe -------------------------------
(***************************************************************************)
(* One pipe of xv6 (lab10xv6/xv6/pipe.c) shared by reader and writer       *)
(* processes, with the sleep/wakeup and kill() of proc.c it relies on and  *)
(* the reference counting of its two struct files (file.c fileclose()).    *)
(*                                                                         *)
(* The pipe's spinlock is state: a process holds it across the whole       *)
(* copying loop, one byte per step, and between the test of myproc()->     *)
(* killed and the moment sleep() has marked the process SLEEPING.  Only    *)
(* kill(), which takes ptable.lock and not the pipe's, can get in between. *)
(*                                                                         *)
(* The counters nread and nwrite are C uints: they count modulo WORD       *)
(* (2^32 in the code, small here, a multiple of PIPESIZE in both).         *)
(***************************************************************************)
EXTENDS Integers, Sequences, FiniteSets

CONSTANTS Readers, Writers,  \* processes that have the read / the write end open
          Killable,          \* processes that may be the target of kill()
          Bytes,             \* values of a byte
          PIPESIZE,          \* capacity of the pipe
          WORD,              \* number of values of a uint
          Lens,              \* the n of the read()s and write()s
          Nobody,            \* the lock is free
          Nothing            \* no byte handed to a reader yet

Procs == Readers \cup Writers

ASSUME PipeAssumption ==
  /\ PIPESIZE \in Nat \ {0}
  /\ WORD \in Nat /\ WORD % PIPESIZE = 0 /\ WORD > PIPESIZE
  /\ Lens \subseteq Nat
  /\ Readers \cap Writers = {} /\ Nobody \notin Procs
  /\ Killable \subseteq Procs
  /\ Nothing \notin Bytes

VARIABLES
  data,       \* struct pipe: the ring of bytes
  nread,      \* number of bytes read, modulo WORD
  nwrite,     \* number of bytes written, modulo WORD
  readopen,   \* 1 iff the read end is open
  writeopen,  \* 1 iff the write end is open
  lock,       \* holder of the pipe's spinlock
  freed,      \* number of times the pipe was given to kfree()
  refs,       \* processes holding a reference to the struct file of their end
  pc,         \* where a process is
  left,       \* n - i of its read() or write()
  killed,     \* processes whose p->killed is set
  got         \* the last byte copied to a reader

ring == <<data, nread, nwrite>>
ends == <<readopen, writeopen, freed, refs>>
vars == <<ring, ends, lock, pc, left, killed, got>>

Pc == {"user", "acquire", "copy", "tosleep", "asleep", "closing", "closed"}

Init ==
  /\ data \in {[i \in 0 .. (PIPESIZE - 1) |-> v] : v \in Bytes}
  /\ nread = 0 /\ nwrite = 0
  /\ readopen = 1 /\ writeopen = 1
  /\ lock = Nobody
  /\ freed = 0
  /\ refs = Procs
  /\ pc = [p \in Procs |-> "user"]
  /\ left = [p \in Procs |-> 0]
  /\ killed = {}
  /\ got = Nothing

Goto(p, l) == pc' = [pc EXCEPT ![p] = l]

\* wakeup(chan) for the processes W that sleep on chan, then p goes to l.
\* Readers sleep on &nread, writers on &nwrite; sleep() takes the lock again.
WakeupThen(W, p, l) ==
  pc' = [q \in Procs |-> IF q = p THEN l
                         ELSE IF q \in W /\ pc[q] = "asleep" THEN "acquire" ELSE pc[q]]

Empty == nread = nwrite
\* Mutant: one byte too many.
Full_Late == nwrite = (nread + PIPESIZE + 1) % WORD

Full == nwrite = (nread + PIPESIZE) % WORD
-----------------------------------------------------------------------------
(* A process enters the kernel: read(fd, addr, n) or write(fd, addr, n). *)

\* trap() sends a killed process to exit() instead.
Syscall(p, n) ==
  /\ pc[p] = "user" /\ p \notin killed /\ p \in refs
  /\ left' = [left EXCEPT ![p] = n]
  /\ Goto(p, "acquire")
  /\ UNCHANGED <<ring, ends, lock, killed, got>>

\* sleep(): under ptable.lock release the pipe's lock and become SLEEPING.
Sleep(p) ==
  /\ pc[p] = "tosleep"
  /\ lock' = Nobody
  /\ Goto(p, "asleep")
  /\ UNCHANGED <<ring, ends, left, killed, got>>
-----------------------------------------------------------------------------
(* piperead() *)

\* acquire(&p->lock) and the test of the while loop, on entry and after sleep().
ReadEnter(p) ==
  /\ p \in Readers /\ pc[p] = "acquire" /\ lock = Nobody
  /\ \/ /\ Empty /\ writeopen = 1 /\ p \in killed      \* return -1
        /\ Goto(p, "user")
        /\ UNCHANGED lock
     \/ /\ Empty /\ writeopen = 1 /\ p \notin killed
        /\ Goto(p, "tosleep")
        /\ lock' = p
     \/ /\ ~(Empty /\ writeopen = 1)
        /\ Goto(p, "copy")
        /\ lock' = p
  /\ UNCHANGED <<ring, ends, left, killed, got>>

ReadByte(p) ==
  /\ p \in Readers /\ pc[p] = "copy" /\ left[p] > 0 /\ ~Empty
  /\ got' = data[nread % PIPESIZE]
  /\ nread' = (nread + 1) % WORD
  /\ left' = [left EXCEPT ![p] = @ - 1]
  /\ UNCHANGED <<data, nwrite, ends, lock, pc, killed>>

\* Mutant: no wakeup(&p->nwrite).
ReadDone_Silent(p) ==
  /\ p \in Readers /\ pc[p] = "copy" /\ (left[p] = 0 \/ Empty)
  /\ Goto(p, "user")
  /\ lock' = Nobody
  /\ UNCHANGED <<ring, ends, left, killed, got>>

ReadDone(p) ==
  /\ p \in Readers /\ pc[p] = "copy" /\ (left[p] = 0 \/ Empty)
  /\ WakeupThen(Writers, p, "user")
  /\ lock' = Nobody
  /\ UNCHANGED <<ring, ends, left, killed, got>>
-----------------------------------------------------------------------------
(* pipewrite() *)

WriteEnter(p) ==
  /\ p \in Writers /\ pc[p] = "acquire" /\ lock = Nobody
  /\ lock' = p
  /\ Goto(p, "copy")
  /\ UNCHANGED <<ring, ends, left, killed, got>>

WriteByte(p, v) ==
  /\ p \in Writers /\ pc[p] = "copy" /\ left[p] > 0 /\ ~Full
  /\ data' = [data EXCEPT ![nwrite % PIPESIZE] = v]
  /\ nwrite' = (nwrite + 1) % WORD
  /\ left' = [left EXCEPT ![p] = @ - 1]
  /\ UNCHANGED <<nread, ends, lock, pc, killed, got>>

\* The pipe is full: give up (no wakeup), or wake the readers and sleep.
WriteFull(p) ==
  /\ p \in Writers /\ pc[p] = "copy" /\ left[p] > 0 /\ Full
  /\ \/ /\ readopen = 0 \/ p \in killed                \* return -1
        /\ Goto(p, "user")
        /\ lock' = Nobody
     \/ /\ ~(readopen = 0 \/ p \in killed)
        /\ WakeupThen(Readers, p, "tosleep")
        /\ UNCHANGED lock
  /\ UNCHANGED <<ring, ends, left, killed, got>>

\* Mutant: no wakeup(&p->nread) at the end of pipewrite().
WriteDone_Silent(p) ==
  /\ p \in Writers /\ pc[p] = "copy" /\ left[p] = 0
  /\ Goto(p, "user")
  /\ lock' = Nobody
  /\ UNCHANGED <<ring, ends, left, killed, got>>

WriteDone(p) ==
  /\ p \in Writers /\ pc[p] = "copy" /\ left[p] = 0
  /\ WakeupThen(Readers, p, "user")
  /\ lock' = Nobody
  /\ UNCHANGED <<ring, ends, left, killed, got>>
-----------------------------------------------------------------------------
(* close(fd), or the exit() of a killed process, and kill(). *)

\* fileclose(): drop the reference; the last one goes on to pipeclose().
Close(p) ==
  /\ pc[p] = "user" /\ p \in refs
  /\ refs' = refs \ {p}
  /\ Goto(p, IF refs' \cap (IF p \in Readers THEN Readers ELSE Writers) = {}
             THEN "closing" ELSE "closed")
  /\ UNCHANGED <<ring, readopen, writeopen, freed, lock, left, killed, got>>

\* Mutant: the pipe is freed as soon as one end is closed.
PipeClose_FreesEarly(p) ==
  /\ pc[p] = "closing" /\ lock = Nobody
  /\ IF p \in Writers
     THEN writeopen' = 0 /\ UNCHANGED readopen /\ WakeupThen(Readers, p, "closed")
     ELSE readopen' = 0 /\ UNCHANGED writeopen /\ WakeupThen(Writers, p, "closed")
  /\ freed' = freed + 1
  /\ UNCHANGED <<ring, refs, lock, left, killed, got>>

\* Mutant: closing an end wakes nobody.
PipeClose_Silent(p) ==
  /\ pc[p] = "closing" /\ lock = Nobody
  /\ IF p \in Writers THEN writeopen' = 0 /\ UNCHANGED readopen
                      ELSE readopen' = 0 /\ UNCHANGED writeopen
  /\ Goto(p, "closed")
  /\ freed' = IF readopen' = 0 /\ writeopen' = 0 THEN freed + 1 ELSE freed
  /\ UNCHANGED <<ring, refs, lock, left, killed, got>>

PipeClose(p) ==
  /\ pc[p] = "closing" /\ lock = Nobody
  /\ IF p \in Writers
     THEN writeopen' = 0 /\ UNCHANGED readopen /\ WakeupThen(Readers, p, "closed")
     ELSE readopen' = 0 /\ UNCHANGED writeopen /\ WakeupThen(Writers, p, "closed")
  /\ freed' = IF readopen' = 0 /\ writeopen' = 0 THEN freed + 1 ELSE freed
  /\ UNCHANGED <<ring, refs, lock, left, killed, got>>

Kill(p) ==
  /\ p \in Killable \ killed
  /\ killed' = killed \cup {p}
  /\ pc' = [pc EXCEPT ![p] = IF @ = "asleep" THEN "acquire" ELSE @]
  /\ UNCHANGED <<ring, ends, lock, left, got>>
-----------------------------------------------------------------------------
\* The steps of a process inside the kernel, once it may run.
KernelStep(p) ==
  \/ ReadEnter(p) \/ ReadByte(p) \/ ReadDone(p)
  \/ WriteEnter(p) \/ WriteFull(p) \/ WriteDone(p) \/ Sleep(p) \/ PipeClose(p)
  \/ \E v \in Bytes : WriteByte(p, v)

Next ==
  \/ \E p \in Procs : KernelStep(p) \/ Close(p) \/ Kill(p)
  \/ \E p \in Procs, n \in Lens : Syscall(p, n)

Spec == Init /\ [][Next]_vars

\* The scheduler runs every runnable process.  A spinlock promises no order
\* among those that spin on it, only that a lock that keeps coming free is
\* won in the end (xchg on a bus that is fair enough): strong fairness.  A
\* killed process leaves user space at its next trap, a timer tick at latest.
\* Nothing obliges a process to read, write or close.
Fairness ==
  /\ \A p \in Procs : SF_vars(KernelStep(p))
  /\ \A p \in Procs : WF_vars(p \in killed /\ Close(p))

LiveSpec == Spec /\ Fairness
-----------------------------------------------------------------------------
(* Properties *)

\* Type invariant.
TypeOK ==
  /\ data \in [0 .. (PIPESIZE - 1) -> Bytes]
  /\ nread \in 0 .. (WORD - 1) /\ nwrite \in 0 .. (WORD - 1)
  /\ readopen \in {0, 1} /\ writeopen \in {0, 1}
  /\ lock \in Procs \cup {Nobody}
  /\ freed \in Nat
  /\ refs \subseteq Procs
  /\ pc \in [Procs -> Pc]
  /\ left \in [Procs -> Nat]
  /\ killed \subseteq Killable
  /\ got \in Bytes \cup {Nothing}

\* The bytes in the pipe, oldest first, across the wrap of both the counters
\* and the ring.
InFlight == [i \in 1 .. ((nwrite - nread) % WORD) |-> data[(nread + i - 1) % PIPESIZE]]

Q == INSTANCE ByteQueue WITH q <- InFlight, Capacity <- PIPESIZE

\* The pipe is a bounded FIFO queue: every byte written is read once, in
\* order, and never more than PIPESIZE are in flight, although nread and
\* nwrite wrap around and several readers and writers interleave.
PipeIsFifo == Q!QSpec

\* The pipe is freed once, after both ends are closed, and then no process is
\* inside it: none is copying, spinning on its lock or sleeping in it.
NoUseAfterFree ==
  /\ freed <= 1
  /\ freed = 1 => /\ lock = Nobody
                  /\ \A p \in Procs : pc[p] \in {"user", "closed"} /\ p \notin refs

Inside(p) == pc[p] \in {"acquire", "copy", "tosleep", "asleep"}

\* The killed writers that are out of pipewrite().  One that filled the pipe and then
\* found itself killed left it without the wakeup (pipe.c:86-88).
LeftKilled == {w \in Writers \cap killed : ~Inside(w)}

\* No lost wakeup but one.  A reader sleeps only while the write end is open, and
\* only while there is nothing to read, or a writer is in the middle of its copying
\* loop (and will call wakeup before it lets go of the lock), or, the one wakeup the
\* code does lose, a killed writer has left the pipe with bytes in it.  A writer
\* sleeps only while the read end is open, and the pipe is full or a reader is
\* copying: there no kill costs a wakeup.
SleepsForCause ==
  /\ \A r \in Readers : pc[r] = "asleep" =>
       writeopen = 1 /\ (Empty \/ (\E w \in Writers : pc[w] = "copy") \/ LeftKilled # {})
  /\ \A w \in Writers : pc[w] = "asleep" =>
       readopen = 1 /\ (Full \/ \E r \in Readers : pc[r] = "copy")

\* When the last writer has closed, every read() returns (end of file), and
\* when the last reader has closed, every write() returns.
ClosedEndReleases ==
  /\ \A r \in Readers : (Inside(r) /\ writeopen = 0) ~> ~Inside(r)
  /\ \A w \in Writers : (Inside(w) /\ readopen = 0) ~> ~Inside(w)

\* A reader does not sleep for ever on a pipe that has bytes in it, unless a writer
\* was killed: one that returns from a full pipe because of that wakes nobody
\* (pipe.c:86-88), and the readers sleep on until another process writes or closes.
BytesReachReader ==
  \A r \in Readers :
    (pc[r] = "asleep" /\ ~Empty) ~> (pc[r] # "asleep" \/ Empty \/ LeftKilled # {})
=============================================================================
