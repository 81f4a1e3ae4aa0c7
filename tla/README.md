# A TLA+ model of the ENCE360 repository

The repository is a course's coursework: the xv6 teaching operating system
(`lab10xv6/xv6`, by far the largest part), a numerical-integration assignment in
four versions (`assignment/`: serial, threads, processes, processes with
threads), and small lab exercises. This directory holds TLA+ modules for the parts of it in
which processes, threads, interrupts or crashes interleave, the TLC configurations
that check them, and proofs checked by TLAPS.

Run a check with `tlc -config <cfg> <module>` and a proof with `tlapm <module>.tla`.
`PROJECT.json` lists the runs, maps every definition to the lines it models, and
lists the hazards the properties are for.

## 1. Inventory

### xv6

| Part | State | Operations | Interacts with |
|---|---|---|---|
| Log (`log.c`) | in-memory header `log.lh`, `outstanding`, `committing`; header and data blocks on disk | `begin_op`, `log_write`, `end_op`/`commit`, recovery in `initlog` | every FS system call; buffer cache (pinning with `B_DIRTY`); `sleep`/`wakeup` |
| Buffer cache (`bio.c`), sleep locks, IDE driver (`ide.c`) | LRU list, `refcnt`, flags, request queue | `bread`, `bwrite`, `brelse`, `iderw`, `ideintr` | log, file system, disk interrupts |
| Inodes and directories (`fs.c`) | inode cache (`ref`, `valid`), on-disk inodes, bitmap | `iget`, `ilock`, `iput`, `ialloc`, `bmap`, `itrunc`, `dirlink`, `namex` | log, buffer cache |
| Files and FS calls (`file.c`, `sysfile.c`) | file table with reference counts, per-process descriptors | `open`, `close`, `dup`, `link`, `unlink`, `create`, `pipe` | inodes, pipes, log |
| Pipes (`pipe.c`) | ring, counters `nread`/`nwrite`, the two open flags, spin lock | `piperead`, `pipewrite`, `pipeclose` | file table; `sleep`/`wakeup`; `kill` |
| Processes (`proc.c`, `trap.c`) | process table, each CPU's current process, `nextpid` | `fork`, `exit`, `wait`, `sleep`, `wakeup`, `yield`, `scheduler`, `kill` | everything that sleeps |
| Spin locks, interrupts (`spinlock.c`) | holder, nesting of `cli` | `acquire`, `release`, `pushcli`, `popcli` | everything |
| Memory (`vm.c`, `kalloc.c`, `exec.c`) | page tables, free list | `kalloc`, `kfree`, `allocuvm`, `copyuvm`, `exec` | processes |
| Console (`console.c`) | input ring with `r`, `w`, `e` | `consoleintr`, `consoleread` | interrupts, `kill`, `sleep` |
| User allocator (`umalloc.c`) | circular free list | `malloc`, `free` | user programs, `sbrk` |
| Shell and init (`sh.c`, `init.c`) | the processes and descriptors of each line | parser, `runcmd` | `fork`, `exec`, `wait`, pipes, files |
| Tests (`usertests.c`) | | calls and what they must return | all FS calls |

The hard behaviours are: a crash between any two disk writes; groups of concurrent
operations sharing one transaction; tests made before a lock is taken; lost
wakeups; `kill` arriving anywhere; orphans and zombies when several generations
exit; counters that wrap; failures half-way through an operation.

### Assignment

* `process.c`, `processThread.c`: a parent takes a slot from a semaphore, reads a query, forks a
  child; a SIGCHLD handler reaps children and returns slots; at the end the parent
  itself waits for the rest. Hard: signals that coalesce, the handler racing with
  `wait()`, `fork` failing.
* `thread.c` (and each child of `processThread.c`): `main` deals the steps of a query out to
  THREADS threads, which add to one `total` under a mutex. Hard: the division of the steps,
  the shared `+=`, state left from one query to the next.
* `serial.c`: the reference.

`assignment/ENCE360Assignment/` holds identical copies of the four programs.

### Labs

Short demonstrations (fork, pipe and dup2; signals; pthreads; MPI; cache blocking; C revision).
They are listed in `PROJECT.json` with the reason each is left out.

### What makes each part correct

* Log: a crash leaves whole groups of finished operations; no interleaving panics
  or overruns the log; nobody sleeps for ever in `begin_op`.
* Buffer cache and driver: a block is changed only by the process that holds it, whatever is
  recycled; every request finishes; no sleeper of a lock or of the disk is forgotten; the panic for want of a buffer comes only when all are in use.
* File system: whenever the log can commit, every name leads to an inode in use, link counts cover
  the names, every block in use has one owner; an open inode outlives its names; error paths return
  references, files, descriptors and locks; every `iput` is in a transaction; no panic; nobody waits for ever (which is false, see 3.1).
* Pipe: a bounded FIFO; freed once, after its last user; no lost wakeup (but one, see 3.2); closing
  an end releases the other side.
* Console: readers get what was typed, as edited, in order; no sleeper is forgotten.
* Processes: one CPU each; everybody has a living parent; no zombie is missed;
  a killed process exits (but for a window, see 3.2); init reaps.
* Memory: each page has one owner at every moment; a call that fails changes nothing (`sbrk` can, see 3.2).
* `malloc`: the list describes the heap exactly, in address order, fully joined.
* Shell: lines mean what the grammar says; programs get exactly their descriptors; the prompt waits
  for the foreground; everything ends and is reaped.
* Pool: slots conserved; no zombie overlooked; the parent comes to its end.
* Threads: the total is the serial program's (with at least a step per thread, see 3.2).

## 2. Modules

| Module | Models | Notes |
|---|---|---|
| `AtomicDisk` | what the log promises | abstract specification |
| `XvLog` | `log.c`, and of `bio.c` what pinning needs | refines `AtomicDisk` |
| `BlockStore` | what the buffer cache promises | abstract specification |
| `XvBuf` | `bio.c`, `sleeplock.c`, `ide.c` | refines `BlockStore` |
| `XvFs` | `fs.c`, `file.c`, `sysfile.c`, `mkfs.c`, the file side of `fork`/`exit`/`wait` | over the log's promise and `ByteQueue`'s |
| `UserTests` | 23 tests of `usertests.c` | programs for `XvFs` |
| `ByteQueue` | what a pipe promises | abstract specification |
| `XvPipe` | `pipe.c`, `fileclose`, `sleep`, `kill` | refines `ByteQueue` |
| `LineQueue` | what the console promises | abstract specification |
| `XvConsole` | `consoleintr`, `consoleread` of `console.c` | refines `LineQueue` |
| `XvProc` | `proc.c`, the killed tests and the timer of `trap.c` | |
| `XvMem` | `kalloc.c`, `vm.c`, `exec.c`, the memory side of `proc.c` | |
| `XvMalloc` | `umalloc.c` | recursive: model-checked only |
| `ShParse` | the parser of `sh.c`, and a grammar as reference | recursive: model-checked only |
| `Sh` | `runcmd`, `main` of `sh.c`, `init.c` | uses `ShParse` |
| `ChildPool` | `process.c`, `processThread.c` (parent) | |
| `ThreadSum` | `thread.c`, `processThread.c` (child), reference from `serial.c` | |
| `XvLogProofs`, `XvBufProofs`, `XvPipeProofs`, `XvConsoleProofs`, `XvProcProofs`, `XvMemProofs` | | TLAPS proofs about `XvLog`, `XvBuf`, ... |
| `AssignProofs` | | TLAPS proofs about `ChildPool` and `ThreadSum` |
| `NatFacts` | | lemmas about least elements and remainders that several proofs use |
| `MCLog`, `MCPipe`, `MCProc`, `MCFs`, `MCSh` | | TLC instances of one module |
| `MCDevices`, `MCMem`, `MCAssign` | `XvBuf` with `XvConsole`, `XvMem` with `XvMalloc`, `ChildPool` with `ThreadSum` | TLC instances of two components that share no state; in each behaviour one of them is idle |

How they stack: `XvBuf` is the disk below `XvLog`; `XvLog` shows that the disk after a crash is one of a
moment without outstanding operations, and `DiskIsSound` of `XvFs` is about exactly those moments;
`XvFs` uses pipes as `XvPipe` shows them to behave; `Sh` uses files, pipes and processes as `XvFs` and
`XvProc` show them to behave.

Definitions named `X_Something` next to a definition `X` (for instance `EndCommit_Silent`) are *mutants*: `X`
with a plausible bug. No specification uses them; substituting one for `X` makes TLC
report the property `PROJECT.json` names, which shows that the property depends on that code.

### XvLog

Disk: `home` (the file system's blocks), `slot` (the log's data blocks), `dhead` (its
header). Memory: `cache` (what `bread` returns), `dirty` (pinned by `B_DIRTY`), `lh`,
`outstanding`, `committing`. A critical section under `log.lock` is one step, and so is each disk write of
`write_log`, `write_head`, `install_trans`. `LogWriteCheck` (the tests of `log_write` before the lock) and
`LogWrite` are separate. `Crash` may happen in any state, during recovery too, and keeps only the disk.
`Recycle` lets `bget` take any buffer that is neither pinned nor held. Not in the
model: the size of the buffer pool (see `XvBuf`); the wakeup a `kill` gives to a sleeper of `begin_op` (it
re-tests and sleeps again).

`OpBlocks` is how many distinct blocks an operation really writes, against the
MAXOPBLOCKS it reserves. Both matter: see the proofs and the observations.

### XvBuf

A *use* is a process with its first or its second buffer: `write_log`, `install_trans` and a block allocated below an indirect one hold two at a
time. `bget` is one critical section that finds or recycles a buffer (`lru` is the list of `bio.c`), or panics; waiting for the
sleep lock is the next step, so a buffer can be wanted by several. Sleeping is a state: `acquiresleep` and `iderw` test and sleep under their spin lock,
`releasesleep` and `ideintr` wake whoever sleeps on the buffer, `kill` wakes a sleeper too early and it tests again. `brelse` releases the lock and then, in a second
section, the reference. The disk and its interrupt are steps of their own. Disk errors, which
`ideintr` answers by declaring the buffer valid, and spurious interrupts are left out.

### XvFs

A process runs its system call as a sequence of *sections*, cut where the code may wait or where another
process can see the difference: `begin_op`, each sleep lock, the four parts of `iput`, the return of `namex`,
each of the allocations of `open` and `pipe`, `open`'s filling of `struct file` after `end_op`. `todo[p]` holds the sections still to run. File contents are
cells (directory entries or data), `CPB` to a block, with `NDIRECT` direct blocks and one indirect block. Inside a section
the sleep lock of the inode is held by the process, so the section is atomic for everyone who uses the inode properly. Names are
tokens, with one pair that `DIRSIZ` makes equal. The transaction is a place among `MAXOPS`. The image is
what `mkfs` makes. A device goes through `devsw`: the console, whose driver lets the inode go while it works and returns what `XvConsole` says it may, or no
driver. A `panic` is a process without a next step; `Panics(p)` lists them, running out of inodes, cache entries and disk blocks included, and
`NoPanic` says that none is reached.

### UserTests

Each test is the sequence of its calls with what it requires of the result: success, failure, the
data, the multiset of data (when processes share an offset), or a stream. Loops are cut to the turns that cross the bounds of the
instance; `concreate` keeps one turn of each kind (both create, both link, and the two mixed ones). Each test starts on a fresh image; the real program
runs them one after the other. `longshared` is an addition: two processes write more than a transaction each through one open file.

### XvPipe

The spin lock is a variable, because a process keeps it across the whole copying
loop (one byte per step) and between its test of `killed` and the moment `sleep` has
marked it SLEEPING. The counters count modulo `WORD`. The set of processes that hold an end is
fixed at the start and shrinks by `close`/`exit`; `fork` adding holders is in `XvFs`.

### XvConsole

One step per character of `consoleintr` and per turn of `consoleread`, both under `cons.lock`; a reader that has decided to sleep
keeps the lock until it is on the channel. Indices count modulo `WORD` and start just below the wrap. Echo and `^P` are left out.

### XvProc

A critical section under `ptable.lock` is one step; the writes `fork` makes
without the lock are steps of their own. `kpc` says where in the kernel a process is: a process
enters a call only if `trap` finds it not killed, but may be killed right after. There are two
kinds of sleeping other than in `wait`: on `IoChan`, for the disk, a lock or the log, which somebody ends; and on `AwaitChan`, for input
(`piperead`, `pipewrite`, `consoleread`), which may never end. The latter first tests `killed` and then sleeps, and `kill` may come between
(`tosleep`).

### XvMem

Pages are frames with an owner and contents; a process has a page directory, tables and pages. One turn of the loops in
`allocuvm` and `copyuvm` is two steps, `kalloc` of the page and `mappages`, which may need a page table and not get it; in between the page is in `page[p]`. So
several processes and a pipe compete for the last pages, and each error path is taken. `sbrk` takes any argument: minus the whole size leaves the program without a page
(`lost`), and its next access ends in `trap`. What a processor's TLB still has after that call, which does not reload the page table, is left out.
Addresses count in half pages. `exec` loads one segment and may fail at the header, at the size, while reading and at the arguments. The
order of the free list is left out.

### XvMalloc

`heap` has the header of every unit; `Search` and `Place` are the loops of `malloc` and `free`. `sbrk` may fail, and the
program may call it itself, so that the next piece is not adjacent. Freed blocks are ones the program holds.

### ShParse and Sh

A line is a sequence of tokens (`gettoken` without the characters). The parsing functions keep their names and their order of `peek` and
`gettoken`; the reference is the set of trees a context-free grammar gives the line. `Sh` runs the trees: processes with
descriptors, parents and a place in `runcmd`; a program is a filter (ends at the end of its input, needs its output to be drained) or just ends.
One call of a session (`fork`, `pipe`, `open`, `exec`, `chdir`) may fail, and tables may be full. `init` (process 0) reaps orphans and restarts the shell.

### ChildPool

One pending bit for SIGCHLD; the handler excludes itself; `main` stands still while the handler runs; SA_RESTART
makes interrupted calls resume. `process.c` and `processThread.c` have the same parent.

### ThreadSum

A double is abstracted to how often each trapezoid of the serial grid is in it, or
NaN. `total += area` is a load and a store. Rounding is left out, and with it the difference
in the last digits between a serial and a threaded sum.

## 3. Runs

| Run | Bounds | Shows |
|---|---|---|
| `log_space` | 3 processes, 5 blocks, LOGSIZE = nlog = 6, MAXOPBLOCKS 3 | two operations fit at once, the third waits, and a wrong reservation would overflow: `LogHasRoom`, `CommitIsAlone`, `SomeoneWillWake` |
| `log_crash` | 2 processes, 2 blocks of 2 contents | `CrashAtomic` (refinement of `AtomicDisk`), `PinnedUntilInstalled`, `LogKeepsGoing` |
| `fs` | 2 processes, two calls each (links, directories, files and pipes, or devices) on the same names; 4 cache entries, 3 files, 2 descriptors | `DiskIsSound`, `RefsAreHeld`, `OpenInodeLives`, `NoPanic` |
| `usertests` | 23 tests and `longshared`; 7 processes, 5 cache entries, 12 inodes, files of up to 4 blocks, writes of 2 cells to a transaction | `TestsPass` (no panic included), `DiskIsSound`, `PutsInTransaction`, `DeadlockOnlyInIput` |
| `fs_linkunlink` | the programs of `linkunlink`, two calls each | *violation* of `NoDeadlock` |
| `devices` | 3 buffers, 4 blocks, one pinned, 2 processes, one of which holds two buffers; every 3 keystrokes over one letter and the four control characters, a ring of 2, indices mod 4, 2 readers that ask for 2, 0 and 1 bytes | `BlocksAreKept` and `LinesAreKept` (refinements), `SleepersAreOwed`, `PanicsOnlyWhenFull`, `RequestsFinish`, `ReaderIsTold` |
| `memory` | 2 processes, 12 pages, 3 calls, tables of 2 pages, images that fit and do not, sbrk of -3, -2 and 3 half pages; a heap of 14 units, 7 operations of 1, 9 or 40 bytes | `PagesOwnedOnce`, `MemoryIsKept`, `HeapIsSound` |
| `pipe` | 1 reader, 2 writers, the reader and one writer killable, PIPESIZE 2, counters mod 4, transfers of 3 bytes of 2 values | `PipeIsFifo` (refinement), `NoUseAfterFree`, `SleepsForCause`, `ClosedEndReleases`, `BytesReachReader` |
| `proc` | 4 slots, 2 CPUs, 3 forks, `kill` of pids 0 and 3 | `ParentIsAlive`, `WaiterIsNeeded` |
| `proc_live` | 3 slots, 2 CPUs, `kill(2)` (a process that may itself be waiting for a child or for input) | `InitReaps`, `KilledExits` |
| `shell` | all lines of up to 5 tokens; 6 sessions with 7 processes, 6 descriptors, one failing call | `ParseIsRight`, `PlumbingIsRight`, `ForegroundFirst`, `SessionEnds` |
| `assignment` | 4 pids, 3 slots; 3 threads; 2, 5 or 7 steps | `SlotsConserved`, `ZombieIsNoticed`, `PoolKeepsGoing`; `TotalIsIntegral` |

Why the bounds are enough: in `log_space` there are as many blocks as the log can hold data
blocks and enough processes to over-commit a wrong reservation; four process slots allow a chain
init - parent - child - grandchild, the shortest in which init inherits a zombie without
itself being the parent of the process that exits; a pipe of two bytes with counters modulo four wraps both the ring and the counters,
and a transfer of three bytes is longer than the pipe; sizes 5 and 7 for three threads have remainders 2 and 1, and 2 gives a thread no step, so that what a NaN leaves for the next query is seen.
The races of the file system take two processes and two names; the tables are small enough that `open` and `pipe` fail at each of their allocations. The files of `usertests` grow past the direct blocks, and `iref` would use up the inode cache if one path lost a reference.
In `devices` there are more blocks than buffers and one pinned, so recycling happens with the log's buffer in the list and can fail; three keys are one more than the console's ring holds. 12 pages hold two
small processes but not a fork of a grown one, so every allocation of every call fails in some behaviour. Five tokens hold every
operator between operands, a block with a redirection and one error after each.

`CHECK_DEADLOCK FALSE` is set where programs end or may stop: once every pipe end is closed or every program has exited nothing is left to
do. `NoDeadlock` is the property that nobody stops *before* that; the code does not have it, and `DeadlockOnlyInIput` says how far it goes. In the process runs a panic (init exiting) stops the machine.

### 3.1 What the violation shows

* `fs_linkunlink`: `create` lets its directory go with `iunlockput(dp)` (`sysfile.c:280`) while it holds the lock of the new inode, and `iput` locks the
  inode it puts (`fs.c:334`). If another process's `unlink` of the same name locks the directory between the unlock and the `iput`, it
  finds the new entry and waits for the new inode, whose holder waits for the directory. Both are inside transactions, so the log never commits
  again. `linkunlink` of `usertests.c` is there "to look for deadlocks" and can meet this one.

The same lock of `iput` deadlocks on both sides in the `concreate` test, which the run `usertests` reaches. `dirlink` finds that the name exists and puts the inode it found with
the directory locked (`fs.c:559-560`); that inode's lock is with a `create` of the name, which is putting the directory. The test makes these calls in its turn i = 4.
`DeadlockOnlyInIput`, in `usertests`, says that there is no third way: everything else respects the order from parent to child. Up to the deadlock all other properties hold.

### 3.2 Observations that are not runs

* `log_write` panics at LOGSIZE - 1 blocks (`log.c:218`): `param.h` calls LOGSIZE the number of *data* blocks, `mkfs` makes the whole log, header
  included, that long. Today's calls use at most 7 of the 10 reserved blocks, and `LogNeverOverflows` proves this to be enough.
* `growproc` takes the new size 0 for an error of `deallocuvm` (`proc.c:169`): `sbrk` of minus the whole size returns -1 and keeps the old size, with every page freed.
  `MemoryIsKept` excepts this call and says what it leaves.
* `kill` between the test of `killed` and `sleep` (`pipe.c:107-111`, `console.c:246-251`) is not noticed until the next wakeup, which may never come; `KilledExits` excepts the
  process that is there.
* A query with fewer steps than threads is accepted (`thread.c:91`) and answered with NaN: a thread without a step divides 0 by 0 (`thread.c:53`). `TotalIsIntegral` is about the
  other queries, those after such a one included.
* `unlink` of a current directory leaves its `..`, which names a free inode once the parent is removed too; `open("..")` then panics in `ilock` (`fs.c:309`). The
  programs of the runs do not remove a parent under a removed directory.
* A writer killed while the pipe is full returns without waking the readers (`pipe.c:86-88`); `SleepsForCause` and `BytesReachReader` name this case.
* `kill` does not look at `p->state` (`proc.c:486`), so it can mark a free slot, and the next child is born killed.
* `link(f, "d/.")` makes `dirlink` put the directory it holds locked and waits for itself; `link(f, "d/..")` takes locks from child to parent.
* A file created in a directory that was removed meanwhile keeps a link count without a name, so it is never freed (`DiskIsSound` says at least, not exactly).
* `mkfs` rounds the root directory up by a whole block when it ends at a block boundary (`mkfs.c:161`), where no block is allocated (`ResourcesAssumption`).
* NBUF is 30, of which the log may pin 29, for up to 64 processes with up to two buffers each: enough processes inside `bread` make `bget` panic. NINODE is 50 for 64 current
  directories and 100 files: `iget` panics when more than 50 inodes are in use.
* `a & b` is a syntax error for the shell; when a command has several redirections the first in the text wins; `>>` is the same as `>`. A failing
  `fork` makes the shell itself exit, and `init` starts another; a failing `fork` in `init` stops the machine and is left out.

### 3.3 Fairness

* `XvLog`: weak fairness of the committer, of recovery and of `log_write` (the scheduler runs what can
  run and `iderw` returns); strong fairness of `EndOp` (a system call makes finitely many writes). Power failures end.
* `XvBuf`: weak fairness of the disk, its interrupt and each process's next step; a holder may write as often as it
  likes but lets the buffer go.
* `XvPipe`: strong fairness of each process's kernel steps (a spin lock that keeps coming free is won eventually);
  nothing obliges anyone to read, write or close, except a killed process, which exits.
* `XvProc`: the scheduler's round robin (strong fairness of being scheduled), the timer (`Yield`), progress of
  a system call despite preemption, a disk that answers, and init's loop around `wait`. No fairness of what wakes a reader of a pipe or of the console.
* `Sh`: weak fairness of each process, init's reaping included; programs that are not filters end.
* `ChildPool`: weak fairness of each process, of signal delivery, and of the children's computation.

## 4. Proofs

Eight modules; each theorem is for every value of the constants that the named assumption of the model allows, and is about the same
definition a run checks, but for `IndicesInBounds` and `RunsOnOneCpu`, which are only proved. In each component the properties are proved from one inductive invariant, a conjunction of named
parts; the invariants were also checked by TLC on the runs' instances. `tlapm <module>.tla` checks each.

| Module | Theorems | Property |
|---|---|---|
| `XvLogProofs` | `LogInBounds`, `LogNeverOverflows`, `CommitRunsAlone`, `NoLostLogWakeup`, `PinsAreExact`, `LogIsAtomic` | `IndicesInBounds`, `LogHasRoom`, `CommitIsAlone`, `SomeoneWillWake`, `PinnedUntilInstalled`, `CrashAtomic` |
| `XvBufProofs` | `PanicIsHonest`, `NoLostBufWakeup`, `CacheRefines` | `PanicsOnlyWhenFull`, `SleepersAreOwed`, `BlocksAreKept` |
| `XvPipeProofs` | `PipeFreedOnce`, `NoLostPipeWakeup`, `PipeRefines` | `NoUseAfterFree`, `SleepsForCause`, `PipeIsFifo` |
| `XvConsoleProofs` | `NoLostInput`, `ConsoleRefines` | `ReaderIsTold`, `LinesAreKept` |
| `XvProcProofs` | `OneCpuEach`, `TreeIsWhole`, `NoLostWait` | `RunsOnOneCpu`, `ParentIsAlive`, `WaiterIsNeeded` |
| `XvMemProofs` | `PagesHaveOneOwner`, `MemoryIsOnesOwn` | `PagesOwnedOnce`, `MemoryIsKept` |
| `AssignProofs` | `PoolTypeCorrect`, `PoolConservesSlots`, `PoolNoticesZombies`, `ThreadsIntegrate` | types, `SlotsConserved`, `ZombieIsNoticed`, `TotalIsIntegral` |

### The log

All under `ReservationOK` (`MaxTxn <= SIZE - 2` and `MaxTxn <= LOGSIZE - 1`, where `MaxTxn = LOGSIZE - (MAXOPBLOCKS - OpBlocks)`; xv6's
30/10/7 satisfies it). `IndInv` has the types, `ControlInv` (there is one committer and only while `committing`; `outstanding` counts the
processes in an operation; the log is empty when nobody is active; loop indices are inside the header) and `SpaceInv`, the accounting
of log space: `Unused` has one token for each block a running operation may still log, and
`Len(lh) + Cardinality(Unused) <= MaxTxn`. `begin_op` creates OpBlocks tokens within the MAXOPBLOCKS it checked for, a fresh
`log_write` turns one into an entry, `end_op` drops the rest.

`CrashInv` is what a crash finds: no block is logged twice (`DistinctInv`); the header on the disk is the one in memory from `write_head` until it
is erased and empty otherwise (`HeadInv`); what is logged and not installed is pinned, and every other buffer that nobody holds agrees with the
disk (`PinInv`); the first `tail` log blocks are copies, or are installed, as far as the loop has come (`SlotInv`). With it every step of the log
is a step or a stutter of `AtomicDisk` (`LogIsAtomic`): writing the header is the commit, whatever is in the log blocks before and in the home blocks after.

### The buffer cache

For any number of buffers, fewer than the processes and pins included. `BufInv`: references are the uses of a buffer and the sleep
lock is with the one inside (`UseInv`), no block is in two buffers, a clean valid buffer agrees with the disk (`DataInv`), the queue holds each buffer
once, for a use that waits for it (`QueueInv`), and the disk works for its head (`IdeInv`). `PanicIsHonest`: a buffer that is neither used nor pinned has no reference and
is not dirty, so `bget` would have taken it. For `NoLostBufWakeup`, `WaitInv` (a request stays queued until it is finished) and `SleepInv` are added: whoever sleeps finds the lock taken or the
request unfinished, because the test and the falling asleep are one section and whoever makes the condition true wakes. For `CacheRefines` the store is what the buffer of a block has,
else what the disk has; recycling loses nothing because an unused buffer that is not dirty agrees with the disk.

### Pipes and the console

The assumption is that the size divides the range of the counters (512 and 2^32, 128 and 2^32). The facts about remainders are in `NatFacts`. The spin
lock is with the process in the copying loop or on its way to sleep (`LockInv`), an end is closed by the last that has it (`EndInv`), and `SleepInv`, `ToldInv`
say why a process sleeps. `NoLostPipeWakeup` is for any set of killed processes: the one wakeup the code loses, when a killed writer leaves a full pipe
(`pipe.c:86-88`), is a case of the property (`LeftKilled`). In the refinements the queue is the part of the ring between the counters; the ring is never overrun (`RingInv`,
`CountInv`).

### Processes

The three properties need each other. `ForkInv`: a `fork` in progress has its slot alone, and the slot is nobody's child until `fork` has
written its parent, which it does without the lock. `TreeInv`: free slots have no parent, everybody else's parent is alive and not itself.

### Memory

`MemInv`: ownership (`PagesOwnedOnce`), which slots have memory and which embryo belongs to which `fork` (`SlotInv`), how far each loop of `allocuvm` and
`copyuvm` has come (`SizeOK`: exactly the pages below `a` are mapped, so that the next one is not mapped yet and the undo of a failed `sbrk`
gives back exactly what the call added; the page in `page[p]` is the call's own), what is in the pages (`DataOK`: while a call can still fail, its caller sees what it saw at the start; a copy
agrees with the original so far) and that only free pages hold junk. Each step passes pages between two or three users; nothing is said of which page `kalloc`
picks. `MemAssumption` says that the first process fits. `sbrk` may have any argument: `MemoryIsKept` excepts the call that
gives everything back (`lost`), and says what it leaves.

### The assignment

Conservation of slots is inductive with the types. `ThreadsIntegrate` is for every number of threads and every query with at least as many steps as
threads (with fewer the program prints NaN, see 3.2): the runs dealt out tile the first `currentStart` trapezoids, and `total` has those of the
threads that have added theirs, whatever their order.

### Only model-checked

* Liveness (`LogKeepsGoing`, `RequestsFinish`, `ClosedEndReleases`, `BytesReachReader`, `KilledExits`, `InitReaps`, `SessionEnds`, `PoolKeepsGoing`):
  fairness is outside the prover's reach.
* `ParseIsRight`, `PlumbingIsRight`, `ForegroundFirst`, `HeapIsSound`: what recursive operators compute.
* The properties of `XvFs` and `UserTests`: the counting over `todo` and the directory trees that their inductive invariants need has not been worked out to the end.

## 5. Plan

1. Proofs next: `XvFs`, beginning with `RefsAreHeld` (reference counts of files and inodes against who holds them).
2. Modelling left: `sys_sleep` and argument fetching; the memory tests of `usertests.c`; `pushcli`/`popcli`; `ChildPool` with buffered output.

## 6. Not modelled

Boot and platform code, device registers, the CGA screen and the serial line, the small user programs and the lab demonstrations have no protocol of their
own or are clients of what is modelled; spin locks are the atomicity of steps; `PROJECT.json` gives the reason for each component. In modelled components:
disk errors, argument fetching, characters (names, words, echo), what the kernel does after a panic, and printing.
