------------------------------- MODULE XvLog -------------------------------
(***************************************************************************)
(* The write-ahead log of xv6 (lab10xv6/xv6/log.c): group commit of        *)
(* concurrent FS system calls, reservation of log space, absorption, the   *)
(* commit protocol one disk write at a time, a crash between any two disk  *)
(* writes, and the recovery that initlog() runs at boot (itself subject to *)
(* crashes).                                                               *)
(*                                                                         *)
(* The buffer cache is the function cache (what bread() returns) and the   *)
(* set dirty of blocks pinned by B_DIRTY; a block that is neither held nor *)
(* pinned may be recycled and read again from the disk (bio.c).  A disk    *)
(* write of one block is atomic: the header is 124 bytes of a 512-byte     *)
(* sector, and iderw() waits for each write.                               *)
(*                                                                         *)
(* A critical section under log.lock is one step.  The two panic tests of  *)
(* log_write() run before it takes the lock, and are a step of their own.  *)
(***************************************************************************)
EXTENDS Integers, Sequences, FiniteSets

CONSTANTS Procs,        \* processes making FS system calls
          Blocks,       \* home block numbers of the file system
          Vals,         \* contents of a block
          LOGSIZE,      \* param.h: capacity of the header's block array
          MAXOPBLOCKS,  \* param.h: what begin_op() reserves for one operation
          SIZE,         \* log.size (superblock nlog): header block + data blocks
          OpBlocks,     \* distinct blocks one operation really writes, at most
          NoBlock       \* "holds no buffer"

ASSUME LogAssumption ==
  /\ LOGSIZE \in Nat /\ MAXOPBLOCKS \in Nat \ {0} /\ MAXOPBLOCKS <= LOGSIZE
  /\ SIZE \in Nat /\ SIZE >= 2
  /\ OpBlocks \in Nat /\ OpBlocks <= MAXOPBLOCKS
  /\ NoBlock \notin Blocks
  /\ IsFiniteSet(Procs)

VARIABLES
  \* on disk
  home,        \* the file system's blocks at their home locations
  slot,        \* data blocks of the log: slot[i] is block log.start + i
  dhead,       \* header block of the log: its n and block[] as a sequence
  \* in memory
  cache,       \* contents of each block as bread() returns it
  dirty,       \* blocks pinned by B_DIRTY
  lh,          \* log.lh: n and block[] as a sequence
  outstanding, \* log.outstanding
  committing,  \* log.committing
  tail,        \* loop index of write_log() / install_trans()
  boot,        \* where initlog() is, "up" once it has returned
  panic,       \* the message of the panic that stopped the kernel, or "none"
  \* per process
  pc,          \* where the process is
  buf,         \* the buffer it holds between bread() and brelse()
  wrote        \* blocks logged by its current operation

disk == <<home, slot, dhead>>
mem == <<cache, dirty, lh, outstanding, committing, tail, boot, panic>>
vars == <<disk, mem, pc, buf, wrote>>

SlotIdx == 1 .. (SIZE - 1)
OpPc == {"op", "modified", "checked"}
CommitPc == {"write_log", "write_head", "install", "clear", "end_commit"}
Pc == {"idle", "asleep", "woken"} \cup OpPc \cup CommitPc
Boot == {"read_head", "install", "clear", "up"}
Panic == {"none", "too_big", "outside", "committing"}

InOp == {p \in Procs : pc[p] \in OpPc}
Held == {b \in Blocks : \E p \in Procs : buf[p] = b}
Entries(s) == {s[i] : i \in 1 .. Len(s)}

Running == boot = "up" /\ panic = "none"
Goto(p, l) == pc' = [pc EXCEPT ![p] = l]

\* mkfs has zeroed the log: header n = 0, data blocks all alike.
Init ==
  /\ home \in [Blocks -> Vals]
  /\ \E zero \in Vals : slot = [i \in SlotIdx |-> zero]
  /\ dhead = << >>
  /\ cache = home
  /\ dirty = {}
  /\ lh = << >>
  /\ outstanding = 0
  /\ committing = 0
  /\ tail = 0
  /\ boot = "read_head"
  /\ panic = "none"
  /\ pc = [p \in Procs |-> "idle"]
  /\ buf = [p \in Procs |-> NoBlock]
  /\ wrote = [p \in Procs |-> {}]
-----------------------------------------------------------------------------
(* begin_op(): log space for one more operation, or sleep on &log. *)

\* Mutant: the operations already admitted are not counted.
LogFull_NoOutstanding == Len(lh) + MAXOPBLOCKS > LOGSIZE

LogFull == Len(lh) + (outstanding + 1) * MAXOPBLOCKS > LOGSIZE

\* Mutant: begin_op() does not wait for a commit.
MustWait_NotCommitting == LogFull

MustWait == committing = 1 \/ LogFull

BeginOpSleep(p) ==
  /\ Running /\ pc[p] \in {"idle", "woken"}
  /\ MustWait
  /\ Goto(p, "asleep")
  /\ UNCHANGED <<disk, mem, buf, wrote>>

BeginOpEnter(p) ==
  /\ Running /\ pc[p] \in {"idle", "woken"}
  /\ ~MustWait
  /\ outstanding' = outstanding + 1
  /\ wrote' = [wrote EXCEPT ![p] = {}]
  /\ Goto(p, "op")
  /\ UNCHANGED <<disk, cache, dirty, lh, committing, tail, boot, panic, buf>>
-----------------------------------------------------------------------------
(* The body of an operation: bread, modify, log_write, brelse, repeatedly. *)

\* bp = bread(b); modify bp->data.  The sleeplock of bp is held until brelse.
ModifyBlock(p, b, v) ==
  /\ Running /\ pc[p] = "op"
  /\ b \in wrote[p] \/ Cardinality(wrote[p]) < OpBlocks
  /\ b \notin Held
  /\ cache' = [cache EXCEPT ![b] = v]
  /\ buf' = [buf EXCEPT ![p] = b]
  /\ Goto(p, "modified")
  /\ UNCHANGED <<disk, dirty, lh, outstanding, committing, tail, boot, panic, wrote>>

TooBig == Len(lh) >= LOGSIZE \/ Len(lh) >= SIZE - 1

\* The tests at the top of log_write(), made without log.lock.
LogWriteCheck(p) ==
  /\ Running /\ pc[p] = "modified"
  /\ panic' = IF TooBig THEN "too_big" ELSE IF outstanding < 1 THEN "outside" ELSE "none"
  /\ IF panic' = "none" THEN Goto(p, "checked") ELSE UNCHANGED pc
  /\ UNCHANGED <<disk, cache, dirty, lh, outstanding, committing, tail, boot, buf, wrote>>

\* Log absorption: a block already in the log keeps its slot.
Absorb(b) == IF b \in Entries(lh) THEN lh ELSE Append(lh, b)

\* Mutant: log_write() does not set B_DIRTY.
LogWrite_Unpinned(p) ==
  /\ Running /\ pc[p] = "checked"
  /\ lh' = Absorb(buf[p])
  /\ wrote' = [wrote EXCEPT ![p] = @ \cup {buf[p]}]
  /\ buf' = [buf EXCEPT ![p] = NoBlock]
  /\ Goto(p, "op")
  /\ UNCHANGED <<disk, cache, dirty, outstanding, committing, tail, boot, panic>>

\* The locked part of log_write(), and the brelse() that follows it.
LogWrite(p) ==
  /\ Running /\ pc[p] = "checked"
  /\ lh' = Absorb(buf[p])
  /\ dirty' = dirty \cup {buf[p]}
  /\ wrote' = [wrote EXCEPT ![p] = @ \cup {buf[p]}]
  /\ buf' = [buf EXCEPT ![p] = NoBlock]
  /\ Goto(p, "op")
  /\ UNCHANGED <<disk, cache, outstanding, committing, tail, boot, panic>>

\* bget() recycles an unpinned, unreferenced buffer; a later bread() finds
\* the block on the disk again.
Recycle(b) ==
  /\ boot = "up" /\ panic = "none"
  /\ b \notin dirty /\ b \notin Held
  /\ cache' = [cache EXCEPT ![b] = home[b]]
  /\ UNCHANGED <<disk, dirty, lh, outstanding, committing, tail, boot, panic, pc, buf, wrote>>
-----------------------------------------------------------------------------
(* end_op() and commit(). *)

\* wakeup(&log), then process p goes to label l.
WakeupThen(p, l) ==
  pc' = [q \in Procs |-> IF q = p THEN l
                         ELSE IF pc[q] = "asleep" THEN "woken" ELSE pc[q]]

EndOp(p) ==
  /\ Running /\ pc[p] = "op"
  /\ outstanding' = outstanding - 1
  /\ \/ /\ committing = 1
        /\ panic' = "committing"
        /\ UNCHANGED <<committing, tail, pc>>
     \/ /\ committing = 0 /\ outstanding' = 0
        /\ committing' = 1
        /\ tail' = 0
        /\ Goto(p, IF Len(lh) > 0 THEN "write_log" ELSE "end_commit")
        /\ UNCHANGED panic
     \/ /\ committing = 0 /\ outstanding' # 0
        /\ WakeupThen(p, "idle")
        /\ UNCHANGED <<committing, tail, panic>>
  /\ UNCHANGED <<disk, cache, dirty, lh, boot, buf, wrote>>

\* One round of write_log(): copy a modified block from the cache to the log.
WriteLog(p) ==
  /\ Running /\ pc[p] = "write_log"
  /\ slot' = [slot EXCEPT ![tail + 1] = cache[lh[tail + 1]]]
  /\ tail' = tail + 1
  /\ IF tail' = Len(lh) THEN Goto(p, "write_head") ELSE UNCHANGED pc
  /\ UNCHANGED <<home, dhead, cache, dirty, lh, outstanding, committing, boot, panic, buf, wrote>>

\* write_head(): the true point at which the current transaction commits.
WriteHead(p) ==
  /\ Running /\ pc[p] = "write_head"
  /\ dhead' = lh
  /\ tail' = 0
  /\ Goto(p, "install")
  /\ UNCHANGED <<home, slot, cache, dirty, lh, outstanding, committing, boot, panic, buf, wrote>>

\* One round of install_trans(): log block -> buffer of the home block -> disk.
\* iderw() clears B_DIRTY when the write is done.
InstallBlock ==
  LET b == lh[tail + 1] IN
  /\ cache' = [cache EXCEPT ![b] = slot[tail + 1]]
  /\ home' = [home EXCEPT ![b] = slot[tail + 1]]
  /\ dirty' = dirty \ {b}
  /\ tail' = tail + 1
  /\ UNCHANGED <<slot, dhead, lh, outstanding, committing, panic, buf, wrote>>

InstallTrans(p) ==
  /\ Running /\ pc[p] = "install"
  /\ InstallBlock
  /\ IF tail' = Len(lh) THEN Goto(p, "clear") ELSE UNCHANGED pc
  /\ UNCHANGED boot

\* log.lh.n = 0; write_head(): erase the transaction from the log.
EraseLog ==
  /\ lh' = << >>
  /\ dhead' = << >>
  /\ UNCHANGED <<home, slot, cache, dirty, outstanding, committing, tail, panic, buf, wrote>>

CommitClear(p) ==
  /\ Running /\ pc[p] = "clear"
  /\ EraseLog
  /\ Goto(p, "end_commit")
  /\ UNCHANGED boot

\* Mutant: end_op() does not call wakeup(&log) after the commit.
EndCommit_Silent(p) ==
  /\ Running /\ pc[p] = "end_commit"
  /\ committing' = 0
  /\ Goto(p, "idle")
  /\ UNCHANGED <<disk, cache, dirty, lh, outstanding, tail, boot, panic, buf, wrote>>

\* Mutant: end_op() leaves log.committing set.
EndCommit_KeepsFlag(p) ==
  /\ Running /\ pc[p] = "end_commit"
  /\ WakeupThen(p, "idle")
  /\ UNCHANGED <<disk, cache, dirty, lh, outstanding, committing, tail, boot, panic, buf, wrote>>

EndCommit(p) ==
  /\ Running /\ pc[p] = "end_commit"
  /\ committing' = 0
  /\ WakeupThen(p, "idle")
  /\ UNCHANGED <<disk, cache, dirty, lh, outstanding, tail, boot, panic, buf, wrote>>
-----------------------------------------------------------------------------
(* Power failure (or a reboot after a panic), and recover_from_log(). *)

Crash ==
  /\ boot' = "read_head"
  /\ cache' = home
  /\ dirty' = {}
  /\ lh' = << >>
  /\ outstanding' = 0
  /\ committing' = 0
  /\ tail' = 0
  /\ panic' = "none"
  /\ pc' = [p \in Procs |-> "idle"]
  /\ buf' = [p \in Procs |-> NoBlock]
  /\ wrote' = [p \in Procs |-> {}]
  /\ UNCHANGED disk

\* Mutant: recover_from_log() does not call install_trans().
ReadHead_NoInstall ==
  /\ boot = "read_head"
  /\ lh' = dhead
  /\ tail' = 0
  /\ boot' = "clear"
  /\ UNCHANGED <<disk, cache, dirty, outstanding, committing, panic, pc, buf, wrote>>

ReadHead ==
  /\ boot = "read_head"
  /\ lh' = dhead
  /\ tail' = 0
  /\ boot' = IF Len(dhead) > 0 THEN "install" ELSE "clear"
  /\ UNCHANGED <<disk, cache, dirty, outstanding, committing, panic, pc, buf, wrote>>

RecoverInstall ==
  /\ boot = "install"
  /\ InstallBlock
  /\ boot' = IF tail' = Len(lh) THEN "clear" ELSE "install"
  /\ UNCHANGED pc

RecoverClear ==
  /\ boot = "clear"
  /\ EraseLog
  /\ boot' = "up"
  /\ UNCHANGED pc
-----------------------------------------------------------------------------
Recover == ReadHead \/ RecoverInstall \/ RecoverClear

CommitStep(p) ==
  WriteLog(p) \/ WriteHead(p) \/ InstallTrans(p) \/ CommitClear(p) \/ EndCommit(p)

OpStep(p) ==
  \/ BeginOpSleep(p) \/ BeginOpEnter(p)
  \/ \E b \in Blocks, v \in Vals : ModifyBlock(p, b, v)
  \/ LogWriteCheck(p) \/ LogWrite(p) \/ EndOp(p)

Next ==
  \/ \E p \in Procs : OpStep(p) \/ CommitStep(p)
  \/ \E b \in Blocks : Recycle(b)
  \/ Crash
  \/ Recover

Spec == Init /\ [][Next]_vars
-----------------------------------------------------------------------------
(* Fairness.  The scheduler runs every process that is not asleep, so each *)
(* step that stays possible is taken; iderw() returns, so the committer    *)
(* and the recovery go on.  An FS system call makes finitely many          *)
(* log_writes, so it does not put off end_op() for ever: strong fairness,  *)
(* because the steps of its own body disable EndOp in between.             *)

Fairness ==
  /\ WF_vars(Recover)
  /\ \A p \in Procs : WF_vars(CommitStep(p))
  /\ \A p \in Procs : WF_vars(LogWriteCheck(p) \/ LogWrite(p))
  /\ \A p \in Procs : SF_vars(EndOp(p))

\* Power failures come to an end.
CrashesStop == <>[][~Crash]_vars

LiveSpec == Spec /\ Fairness /\ CrashesStop
-----------------------------------------------------------------------------
(* Properties *)

\* Type invariant.
TypeOK ==
  /\ home \in [Blocks -> Vals]
  /\ slot \in [SlotIdx -> Vals]
  /\ dhead \in Seq(Blocks)
  /\ cache \in [Blocks -> Vals]
  /\ dirty \subseteq Blocks
  /\ lh \in Seq(Blocks)
  /\ outstanding \in Int
  /\ committing \in {0, 1}
  /\ tail \in Nat
  /\ boot \in Boot
  /\ panic \in Panic
  /\ pc \in [Procs -> Pc]
  /\ buf \in [Procs -> Blocks \cup {NoBlock}]
  /\ wrote \in [Procs -> SUBSET Blocks]

\* No legal sequence of begin_op / log_write / end_op calls by concurrent
\* operations reaches a panic() of log.c, although log_write() tests the size
\* of the log before it takes log.lock, and no transaction outgrows the data
\* blocks of the on-disk log (log.start + tail + 1 would run into the inodes).
LogHasRoom ==
  /\ panic = "none"
  /\ Len(lh) <= SIZE - 1

\* Every index log.c uses is inside its array, whoever else has written the log
\* since it was tested: log_write() stores at block[n] of block[LOGSIZE], which it
\* compared with the limit before it took log.lock; write_log() and
\* install_trans(), of a commit and of a recovery from whatever header a crash has
\* left, read block[tail] below n and use a block the on-disk log has.
IndicesInBounds ==
  /\ Len(lh) <= LOGSIZE /\ Len(dhead) <= LOGSIZE
  /\ \A p \in Procs : pc[p] = "checked" => Len(lh) < LOGSIZE
  /\ (boot = "install" \/ \E p \in Procs : pc[p] \in {"write_log", "install"}) =>
       tail \in 0 .. (Len(lh) - 1) /\ tail + 1 \in SlotIdx

\* log.c:11-15: a commit only runs when there are no FS system calls active,
\* so it never writes part of an unfinished call's updates.
CommitIsAlone ==
  committing = 1 => outstanding = 0 /\ InOp = {}

\* B_DIRTY pins exactly the blocks whose only up-to-date copy is in memory:
\* those in log.lh, until install_trans() has written them home.  Every other
\* buffer nobody holds agrees with the disk, so bget() may recycle it.
PinnedUntilInstalled ==
  boot = "up" =>
    /\ dirty = {lh[i] : i \in (IF \E p \in Procs : pc[p] \in {"install", "clear"}
                               THEN (tail + 1) .. Len(lh) ELSE 1 .. Len(lh))}
    /\ \A b \in Blocks \ (dirty \cup Held) : cache[b] = home[b]

\* A process asleep in begin_op() waits for something that will call
\* wakeup(&log): a commit in progress or an operation that has not ended.
SomeoneWillWake ==
  (\E p \in Procs : pc[p] = "asleep") => committing = 1 \/ outstanding > 0

\* The file system recover_from_log() would leave if the machine stopped now.
Recovered ==
  [b \in Blocks |->
     IF b \in Entries(dhead)
     THEN slot[CHOOSE i \in 1 .. Len(dhead) :
                 dhead[i] = b /\ \A j \in (i + 1) .. Len(dhead) : dhead[j] # b]
     ELSE home[b]]

AD == INSTANCE AtomicDisk WITH
        durable <- Recovered,
        image <- IF boot = "up" THEN cache ELSE Recovered,
        inop <- InOp

\* The log implements the atomic disk: wherever the machine stops, during the
\* commit or during the recovery, what recovery leaves is the file system at
\* a point where no operation was half done, and nothing committed is undone.
CrashAtomic == AD!ASpec

\* begin_op() sleeps only for a while: every sleeper is woken.  And once power
\* failures stop, recovery completes and every commit finishes.
LogKeepsGoing ==
  /\ \A p \in Procs : (pc[p] = "asleep") ~> (pc[p] # "asleep")
  /\ []<>(boot = "up" /\ committing = 0)
=============================================================================
