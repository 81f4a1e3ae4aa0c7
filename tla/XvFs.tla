-------------------------------- MODULE XvFs --------------------------------
(***************************************************************************)
(* The xv6 file system above the log: on-disk inodes, block bitmap and      *)
(* directories, the inode cache and its sleep locks (fs.c), the file table  *)
(* (file.c), the file system calls (sysfile.c), and the part fork(), exit() *)
(* and wait() play in them (proc.c).                                        *)
(*                                                                          *)
(* A step of a process is a section of the code between two points where it *)
(* may have to wait: begin_op(), the sleep lock of an inode, a pipe.  The   *)
(* sections a process has still to run are the sequence todo[p]; running    *)
(* one may put others in front.  Several sections of different processes    *)
(* interleave freely.  A file or directory is a sequence of cells, CPB to a *)
(* block; a cell is a directory entry <<name, inum>> or data <<"", v>>.     *)
(* A panic() ends the machine: the process that meets one has no next step, *)
(* and NoPanic is about every such state.                                   *)
(* There is no crash here: XvLog shows that recovery restores a disk of a   *)
(* moment when no operation was outstanding, and DiskIsSound is about those *)
(* moments.                                                                 *)
(***************************************************************************)
EXTENDS Integers, Sequences, FiniteSets, FiniteSetsExt, SequencesExt

CONSTANTS NPROC,     \* processes; number 1 runs first and forks the others
          NINODE,    \* entries of the inode cache
          NINODES,   \* inodes on disk
          NFILE, NOFILE,
          NBLOCK,    \* data blocks
          CPB,       \* cells per block
          NDIRECT, MAXFILE,
          MAXOPS,    \* operations the log admits at once
          MAXWRITE,  \* cells filewrite() puts into one transaction
          PIPESIZE,
          Files,     \* the names mkfs puts into the root directory
          Programs   \* the calls of every process: the runs to explore

ASSUME ResourcesAssumption ==
  /\ {NPROC, NINODE, NINODES, NFILE, NOFILE, NBLOCK, CPB, MAXOPS, MAXWRITE} \subseteq Nat \ {0}
  \* mkfs rounds the root directory up to a block; at a block boundary it
  \* would add a block that is not there.
  /\ (Len(Files) + 2) % CPB # 0

Procs == 1..NPROC
Slots == 1..NINODE
FDs == 1..NOFILE
T_DIR == 1
T_FILE == 2
T_DEV == 3
ROOTINO == 1
NoCell == <<"", 0>>
CONSOLE == 1   \* the only driver in devsw
NoInode == [type |-> 0, major |-> 0, nlink |-> 0, size |-> 0, addrs |-> <<>>, ind |-> 0]
NoFile == [ref |-> 0, type |-> "none", ip |-> 0, off |-> 0, rd |-> FALSE, wr |-> FALSE]

VARIABLES
  disk,    \* [inode, used, blk]: dinodes, bitmap, block contents
  icache,  \* [inum, ref, valid, lock, ino] per entry
  ftable,  \* struct file
  pipes,   \* [r, w, data] for each page kalloc() has for a pipe
  ofile, cwd, st,   \* of struct proc
  op,      \* processes between begin_op() and end_op()
  todo,    \* sections each process has still to run
  res,     \* what namex() returned: [ip, name]
  prog,    \* calls each process has still to make
  failed   \* some call did not return what its caller expected

fsvars == <<disk, icache, ftable, pipes, ofile, cwd, st, op, todo, res, prog, failed>>

----------------------------------------------------------------------------
\* Blocks and inode contents.  A writer is a record [used, blk, ino, full].

Balloc(w) ==
  LET free == (1..NBLOCK) \ w.used
  IN  IF free = {} THEN <<0, [w EXCEPT !.full = TRUE]>>
      ELSE <<Min(free), [w EXCEPT !.used = @ \cup {Min(free)},
                                  !.blk[Min(free)] = [c \in 0..(CPB - 1) |-> NoCell]]>>

\* The block of cell number c, allocated (with the indirect block, if it is the
\* first one past NDIRECT) when there is none.
Bmap(w, c) ==
  IF c \div CPB < Len(w.ino.addrs) THEN w
  ELSE LET w1 == IF Len(w.ino.addrs) = NDIRECT
                 THEN LET b == Balloc(w) IN [b[2] EXCEPT !.ino.ind = b[1]] ELSE w
           b == Balloc(w1)
       IN  [b[2] EXCEPT !.ino.addrs = Append(@, b[1])]

\* writei(): the cells cs at offset off, one after the other; full when the disk
\* has no block left (balloc() panics) or the file would outgrow MAXFILE.
Writei(d, ino, off, cs) ==
  LET Put(w, i) ==
        LET v == Bmap(w, off + i - 1)
        IN  IF v.full THEN v
            ELSE [v EXCEPT !.blk[v.ino.addrs[(off + i - 1) \div CPB + 1]][(off + i - 1) % CPB] = cs[i],
                           !.ino.size = IF off + i > @ THEN off + i ELSE @]
  IN  FoldLeft(Put, [used |-> d.used, blk |-> d.blk, ino |-> ino, full |-> off + Len(cs) > MAXFILE * CPB],
               [i \in 1..Len(cs) |-> i])

Cell(d, ino, c) == d.blk[ino.addrs[c \div CPB + 1]][c % CPB]

Readi(d, ino, off, n) ==
  [i \in 1..Min({n, ino.size - off}) |-> Cell(d, ino, off + i - 1)]

\* The blocks of a file, its indirect block included.
BlocksOf(ino) == (ToSet(ino.addrs) \cup {ino.ind}) \ {0}

\* Mutant: the indirect block is forgotten.
Itrunc_KeepsIndirect(d, ino) == [d EXCEPT !.used = @ \ ToSet(ino.addrs)]

\* itrunc(): every block back to the bitmap.
Itrunc(d, ino) == [d EXCEPT !.used = @ \ BlocksOf(ino)]

Iupdate(d, inum, ino) == [d EXCEPT !.inode[inum] = ino]

\* What a writer leaves on disk.
Flush(d, inum, w) == Iupdate([d EXCEPT !.used = w.used, !.blk = w.blk], inum, w.ino)

\* DIRSIZ: only the first 14 characters of a name are kept.
Stored(name) == IF name = "name15" THEN "name14" ELSE name

\* dirlookup(): the offset of the entry, or -1.
Find(d, dp, name) ==
  LET at == {c \in 0..(dp.size - 1) : Cell(d, dp, c)[1] = Stored(name) /\ Cell(d, dp, c)[2] # 0}
  IN  IF at = {} THEN -1 ELSE Min(at)

\* The first free directory entry, or the end of the directory.
FreeEntry(d, dp) ==
  LET free == {c \in 0..(dp.size - 1) : Cell(d, dp, c)[2] = 0}
  IN  IF free = {} THEN dp.size ELSE Min(free)

Dirlink(d, dp, name, inum) == Writei(d, dp, FreeEntry(d, dp), <<<<Stored(name), inum>>>>)

\* Mutant: the first entry after the dots is skipped.
IsDirEmpty_SkipsFirst(d, dp) == \A c \in 3..(dp.size - 1) : Cell(d, dp, c)[2] = 0

IsDirEmpty(d, dp) == \A c \in 2..(dp.size - 1) : Cell(d, dp, c)[2] = 0

----------------------------------------------------------------------------
\* The inode cache.

SlotOf(ic, inum) ==
  LET hit == {s \in Slots : ic[s].ref > 0 /\ ic[s].inum = inum}
      empty == {s \in Slots : ic[s].ref = 0}
  IN  IF hit # {} THEN Min(hit) ELSE IF empty # {} THEN Min(empty) ELSE 0

Iget(ic, inum) ==
  [ic EXCEPT ![SlotOf(ic, inum)] =
     IF @.ref > 0 THEN [@ EXCEPT !.ref = @ + 1]
     ELSE [@ EXCEPT !.inum = inum, !.ref = 1, !.valid = FALSE]]

Idup(ic, s) == [ic EXCEPT ![s].ref = @ + 1]

----------------------------------------------------------------------------
\* Sections.  At(p, l): the next section of p is l; Arg(p, i): its arguments.

At(p, l) == todo[p] # <<>> /\ Head(todo[p])[1] = l
Arg(p, i) == Head(todo[p])[i]
Then(p, s) == todo' = [todo EXCEPT ![p] = s \o Tail(@)]
Fail == <<<<"end">>, <<"ret", -1>>>>
Done == <<<<"end">>, <<"ret", 0>>>>

\* The entry the next section of p locks first, 0 if none.
Target(p) ==
  CASE todo[p] = <<>> -> 0
    [] Head(todo[p])[1] = "walk" -> IF Arg(p, 3) = <<>> THEN 0 ELSE Arg(p, 2)
    [] Head(todo[p])[1] \in {"create2", "create3", "unlink2", "linkbad", "io", "console"} -> Arg(p, 2)
    [] Head(todo[p])[1] \in {"open1", "create1", "unlink1", "link1", "link2", "chdir1"} -> res[p].ip
    [] OTHER -> 0

\* The inode as ilock() leaves it in memory, read from disk when not valid.
Loaded(s) == IF icache[s].valid THEN icache[s].ino ELSE disk.inode[icache[s].inum]

\* Mutant: whoever holds the lock is not waited for.
Ilock_NoWait(p) == Target(p) # 0 /\ Loaded(Target(p)).type # 0

\* ilock(): the lock is free and the inode is in use.
Ilock(p) == Target(p) # 0 /\ icache[Target(p)].lock = 0 /\ Loaded(Target(p)).type # 0

\* Entry s of ic with contents ino, its lock held by q (0: released).
Keep(ic, s, ino, q) == [ic EXCEPT ![s].valid = TRUE, ![s].ino = ino, ![s].lock = q]

\* The transaction of the call: log.c admits MAXOPS of them at once.
BeginOp(p) ==
  /\ At(p, "begin") /\ Cardinality(op) < MAXOPS
  /\ op' = op \cup {p} /\ Then(p, <<>>)
  /\ UNCHANGED <<disk, icache, ftable, pipes, ofile, cwd, st, res, prog, failed>>

EndOp(p) ==
  /\ At(p, "end")
  /\ op' = op \ {p} /\ Then(p, <<>>)
  /\ UNCHANGED <<disk, icache, ftable, pipes, ofile, cwd, st, res, prog, failed>>

----------------------------------------------------------------------------
\* iput(): the test, freeing the inode, clearing valid, dropping the reference.
\* Another process may find the entry, or reuse the inode, between any two.

\* Mutant: other holders of the entry are not looked at.
Unused_AnyRef(e) == e.valid /\ e.ino.nlink = 0

Unused(e) == e.valid /\ e.ino.nlink = 0 /\ e.ref = 1

Iput(p) ==
  /\ At(p, "iput") /\ icache[Arg(p, 2)].lock = 0
  /\ LET s == Arg(p, 2)
     IN  IF Unused(icache[s])
         THEN icache' = [icache EXCEPT ![s].lock = p] /\ Then(p, <<<<"ifree", s>>>>)
         ELSE icache' = icache /\ Then(p, <<<<"idrop", s>>>>)
  /\ UNCHANGED <<disk, ftable, pipes, ofile, cwd, st, op, res, prog, failed>>

\* itrunc(), type 0 and iupdate(); bfree() panics over a block that is free.
IputFree(p) ==
  /\ At(p, "ifree") /\ BlocksOf(icache[Arg(p, 2)].ino) \subseteq disk.used
  /\ LET s == Arg(p, 2)
         e == icache[s]
     IN  /\ disk' = Iupdate(Itrunc(disk, e.ino), e.inum, NoInode)
         /\ icache' = [icache EXCEPT ![s].ino = NoInode]
         /\ Then(p, <<<<"iclear", s>>>>)
  /\ UNCHANGED <<ftable, pipes, ofile, cwd, st, op, res, prog, failed>>

IputClear(p) ==
  /\ At(p, "iclear")
  /\ icache' = [icache EXCEPT ![Arg(p, 2)].valid = FALSE, ![Arg(p, 2)].lock = 0]
  /\ Then(p, <<<<"idrop", Arg(p, 2)>>>>)
  /\ UNCHANGED <<disk, ftable, pipes, ofile, cwd, st, op, res, prog, failed>>

IputDrop(p) ==
  /\ At(p, "idrop")
  /\ icache' = [icache EXCEPT ![Arg(p, 2)].ref = @ - 1]
  /\ Then(p, <<>>)
  /\ UNCHANGED <<disk, ftable, pipes, ofile, cwd, st, op, res, prog, failed>>

\* iunlockput() of an entry p kept locked.
Iunlockput(p) ==
  /\ At(p, "unlockput")
  /\ icache' = [icache EXCEPT ![Arg(p, 2)].lock = 0]
  /\ Then(p, <<<<"iput", Arg(p, 2)>>>>)
  /\ UNCHANGED <<disk, ftable, pipes, ofile, cwd, st, op, res, prog, failed>>

----------------------------------------------------------------------------
\* Path lookup.  A path is a sequence of names, the first "/" if it is absolute.

\* The first reference is to the root or to the current directory.
Namex(p) ==
  /\ At(p, "namex")
  /\ LET path == Arg(p, 2)
         abs == path # <<>> /\ Head(path) = "/"
     IN  /\ abs => SlotOf(icache, ROOTINO) # 0
         /\ icache' = IF abs THEN Iget(icache, ROOTINO) ELSE Idup(icache, cwd[p])
         /\ Then(p, IF abs THEN <<<<"walk", SlotOf(icache, ROOTINO), Tail(path), Arg(p, 3)>>>>
                    ELSE <<<<"walk", cwd[p], path, Arg(p, 3)>>>>)
  /\ UNCHANGED <<disk, ftable, pipes, ofile, cwd, st, op, res, prog, failed>>

\* The path is used up: namei() returns the inode, nameiparent() nothing.
NamexEnd(p) ==
  /\ At(p, "walk") /\ Arg(p, 3) = <<>>
  /\ res' = [res EXCEPT ![p] = [ip |-> IF Arg(p, 4) THEN 0 ELSE Arg(p, 2), name |-> ""]]
  /\ Then(p, IF Arg(p, 4) THEN <<<<"iput", Arg(p, 2)>>>> ELSE <<>>)
  /\ UNCHANGED <<disk, icache, ftable, pipes, ofile, cwd, st, op, prog, failed>>

\* One element: not a directory, the parent that was wanted, no such name, or down.
\* iget() panics when the cache has no entry for the next inode.
NamexStep(p) ==
  /\ At(p, "walk") /\ Arg(p, 3) # <<>> /\ Ilock(p)
  /\ LET s == Arg(p, 2)
         name == Head(Arg(p, 3))
         ip == Loaded(s)
         ic == Keep(icache, s, ip, 0)
         last == Arg(p, 4) /\ Len(Arg(p, 3)) = 1
         c == IF ip.type = T_DIR THEN Find(disk, ip, name) ELSE -1
     IN  \/ /\ ip.type = T_DIR /\ last
            /\ icache' = ic /\ Then(p, <<>>)
            /\ res' = [res EXCEPT ![p] = [ip |-> s, name |-> name]]
         \/ /\ ip.type # T_DIR \/ (~last /\ c = -1)
            /\ icache' = ic /\ Then(p, <<<<"iput", s>>>>)
            /\ res' = [res EXCEPT ![p] = [ip |-> 0, name |-> ""]]
         \/ /\ ~last /\ c # -1 /\ SlotOf(ic, Cell(disk, ip, c)[2]) # 0
            /\ icache' = Iget(ic, Cell(disk, ip, c)[2])
            /\ Then(p, <<<<"iput", s>>, <<"walk", SlotOf(ic, Cell(disk, ip, c)[2]), Tail(Arg(p, 3)), Arg(p, 4)>>>>)
            /\ UNCHANGED res
  /\ UNCHANGED <<disk, ftable, pipes, ofile, cwd, st, op, prog, failed>>

----------------------------------------------------------------------------
\* create(), and the calls that use it.  The new or found inode is left locked.

Create(p) ==
  /\ At(p, "create1") /\ res[p].ip = 0
  /\ Then(p, Fail)
  /\ UNCHANGED <<disk, icache, ftable, pipes, ofile, cwd, st, op, res, prog, failed>>

\* ialloc() marks the first free inode; the directory stays locked.  Without a free
\* inode, or an entry of the cache for it, the kernel panics.
CreateIn(p) ==
  /\ At(p, "create1") /\ Ilock(p)
  /\ LET d == res[p].ip
         dp == Loaded(d)
         c == Find(disk, dp, res[p].name)
         free == {i \in 1..NINODES : disk.inode[i].type = 0}
         inum == IF c # -1 THEN Cell(disk, dp, c)[2] ELSE Min(free)
         ic == Keep(icache, d, dp, IF c # -1 THEN 0 ELSE p)
     IN  /\ c # -1 \/ free # {}
         /\ SlotOf(ic, inum) # 0
         /\ icache' = Iget(ic, inum)
         /\ IF c # -1
            THEN /\ Then(p, <<<<"iput", d>>, <<"create2", SlotOf(ic, inum), Arg(p, 2)>>>>)
                 /\ UNCHANGED disk
            ELSE /\ Then(p, <<<<"create3", SlotOf(ic, inum), Arg(p, 2), d>>>>)
                 /\ disk' = Iupdate(disk, inum, [NoInode EXCEPT !.type = Arg(p, 2)])
  /\ UNCHANGED <<ftable, pipes, ofile, cwd, st, op, res, prog, failed>>

\* Mutant: the error path forgets to unlock.
CreateOld_KeepsLock(p) ==
  /\ At(p, "create2") /\ Ilock(p)
  /\ LET s == Arg(p, 2)
         good == Arg(p, 3) = T_FILE /\ Loaded(s).type = T_FILE
     IN  /\ icache' = Keep(icache, s, Loaded(s), p)
         /\ Then(p, IF good THEN <<<<"opened", s>>>> ELSE <<<<"iput", s>>>> \o Fail)
  /\ UNCHANGED <<disk, ftable, pipes, ofile, cwd, st, op, res, prog, failed>>

\* The name exists: only a file asked for as a file will do.
CreateOld(p) ==
  /\ At(p, "create2") /\ Ilock(p)
  /\ LET s == Arg(p, 2)
         good == Arg(p, 3) = T_FILE /\ Loaded(s).type = T_FILE
     IN  /\ icache' = Keep(icache, s, Loaded(s), IF good THEN p ELSE 0)
         /\ Then(p, IF good THEN <<<<"opened", s>>>> ELSE <<<<"iput", s>>>> \o Fail)
  /\ UNCHANGED <<disk, ftable, pipes, ofile, cwd, st, op, res, prog, failed>>

\* What create() writes of a new name, the inode of entry s under directory d: link
\* count, "." and "..", then the entry in the directory.
CreateWrites(p) ==
  LET s == Arg(p, 2)
      type == Arg(p, 3)
      d == Arg(p, 4)
      i == icache[s].inum
      ip == [Loaded(s) EXCEPT !.nlink = 1, !.major = IF type = T_DEV THEN Head(prog[p]).n ELSE 0]
      dp == [icache[d].ino EXCEPT !.nlink = IF type = T_DIR THEN @ + 1 ELSE @]
      w1 == Writei(disk, ip, 0, IF type = T_DIR THEN <<<<".", i>>, <<"..", icache[d].inum>>>> ELSE <<>>)
      w2 == Dirlink(Flush(disk, i, w1), dp, res[p].name, i)
  IN  <<w1, [w2 EXCEPT !.full = w1.full \/ @]>>

\* The name is new, and still is; the directory is let go, the inode stays locked.
CreateNew(p) ==
  /\ At(p, "create3") /\ Ilock(p)
  /\ LET s == Arg(p, 2)
         d == Arg(p, 4)
         w == CreateWrites(p)
     IN  /\ Find(disk, icache[d].ino, res[p].name) = -1 /\ ~w[2].full
         /\ disk' = Flush(Flush(disk, icache[s].inum, w[1]), icache[d].inum, w[2])
         /\ icache' = Keep(Keep(icache, s, w[1].ino, p), d, w[2].ino, 0)
         /\ Then(p, <<<<"iput", d>>>> \o (IF Arg(p, 3) = T_FILE THEN <<<<"opened", s>>>>
                                          ELSE <<<<"unlockput", s>>>> \o Done))
  /\ UNCHANGED <<ftable, pipes, ofile, cwd, st, op, res, prog, failed>>

\* sys_open() without O_CREATE: a directory can only be read.
Open(p) ==
  /\ At(p, "open1")
  /\ \/ /\ res[p].ip = 0
        /\ Then(p, Fail) /\ UNCHANGED icache
     \/ /\ Ilock(p)
        /\ LET s == res[p].ip
               bad == Loaded(s).type = T_DIR /\ Head(prog[p]).mode # "r"
           IN  /\ icache' = Keep(icache, s, Loaded(s), IF bad THEN 0 ELSE p)
               /\ Then(p, IF bad THEN <<<<"iput", s>>>> \o Fail ELSE <<<<"opened", s>>>>)
  /\ UNCHANGED <<disk, ftable, pipes, ofile, cwd, st, op, res, prog, failed>>

FreeFiles == {f \in 1..NFILE : ftable[f].ref = 0}
FreeFds(p) == {fd \in FDs : ofile[p][fd] = 0}

\* filealloc(), with the inode locked.
OpenFile(p) ==
  /\ At(p, "opened")
  /\ IF FreeFiles = {} THEN Then(p, <<<<"unlockput", Arg(p, 2)>>>> \o Fail) /\ UNCHANGED ftable
     ELSE /\ ftable' = [ftable EXCEPT ![Min(FreeFiles)].ref = 1]
          /\ Then(p, <<<<"openfd", Min(FreeFiles), Arg(p, 2)>>>>)
  /\ UNCHANGED <<disk, icache, pipes, ofile, cwd, st, op, res, prog, failed>>

\* fdalloc(); without a descriptor the file is closed again.
OpenFd(p) ==
  /\ At(p, "openfd")
  /\ LET f == Arg(p, 2)
         s == Arg(p, 3)
     IN  IF FreeFds(p) = {}
         THEN Then(p, <<<<"fclose", f>>, <<"unlockput", s>>>> \o Fail) /\ UNCHANGED <<icache, ofile>>
         ELSE /\ ofile' = [ofile EXCEPT ![p][Min(FreeFds(p))] = f]
              /\ icache' = [icache EXCEPT ![s].lock = 0]
              /\ Then(p, <<<<"end">>, <<"fill", f, s>>, <<"ret", Min(FreeFds(p))>>>>)
  /\ UNCHANGED <<disk, ftable, pipes, cwd, st, op, res, prog, failed>>

\* The struct file is filled in after end_op().
OpenFill(p) ==
  /\ At(p, "fill")
  /\ LET m == Head(prog[p]).mode
     IN  ftable' = [ftable EXCEPT ![Arg(p, 2)] = [@ EXCEPT !.type = "inode", !.ip = Arg(p, 3), !.off = 0,
                                                  !.rd = m # "w", !.wr = m # "r"]]
  /\ Then(p, <<>>)
  /\ UNCHANGED <<disk, icache, pipes, ofile, cwd, st, op, res, prog, failed>>

----------------------------------------------------------------------------
\* unlink(), link(), chdir().

Unlink(p) ==
  /\ At(p, "unlink1")
  /\ \/ /\ res[p].ip = 0
        /\ Then(p, Fail) /\ UNCHANGED icache
     \/ /\ Ilock(p)
        /\ LET d == res[p].ip
               dp == Loaded(d)
               c == Find(disk, dp, res[p].name)
               bad == res[p].name \in {".", ".."} \/ c = -1
               inum == Cell(disk, dp, c)[2]
           IN  IF bad THEN /\ icache' = Keep(icache, d, dp, 0)
                           /\ Then(p, <<<<"iput", d>>>> \o Fail)
               ELSE /\ SlotOf(icache, inum) # 0
                    /\ icache' = Iget(Keep(icache, d, dp, p), inum)
                    /\ Then(p, <<<<"unlink2", SlotOf(icache, inum), d, c>>>>)
  /\ UNCHANGED <<disk, ftable, pipes, ofile, cwd, st, op, res, prog, failed>>

\* With the directory still locked: the entry is cleared, the directory let go,
\* and only then is the inode's link count lowered.
UnlinkEntry(p) ==
  /\ At(p, "unlink2") /\ Ilock(p)
  /\ LET s == Arg(p, 2)
         d == Arg(p, 3)
         ip == Loaded(s)
         isdir == ip.type = T_DIR
         w == Writei(disk, icache[d].ino, Arg(p, 4), <<NoCell>>)
         dp == IF isdir THEN [w.ino EXCEPT !.nlink = @ - 1] ELSE w.ino
     IN  /\ ip.nlink >= 1
         /\ IF isdir /\ ~IsDirEmpty(disk, ip)
            THEN /\ icache' = Keep(icache, s, ip, 0) /\ UNCHANGED disk
                 /\ Then(p, <<<<"iput", s>>, <<"unlockput", d>>>> \o Fail)
            ELSE /\ disk' = Flush(disk, icache[d].inum, [w EXCEPT !.ino = dp])
                 /\ icache' = Keep(Keep(icache, s, ip, p), d, dp, 0)
                 /\ Then(p, <<<<"iput", d>>, <<"unlink3", s>>>>)
  /\ UNCHANGED <<ftable, pipes, ofile, cwd, st, op, res, prog, failed>>

\* Mutant: counts are only ever lowered.
Relink_NeverUp(s, ino, n) ==
  LET ip == [ino EXCEPT !.nlink = IF n > 0 THEN @ ELSE @ + n]
  IN  /\ disk' = Iupdate(disk, icache[s].inum, ip)
      /\ icache' = Keep(icache, s, ip, 0)

\* nlink changed by n and written through; the lock is released.
Relink(s, ino, n) ==
  LET ip == [ino EXCEPT !.nlink = @ + n]
  IN  /\ disk' = Iupdate(disk, icache[s].inum, ip)
      /\ icache' = Keep(icache, s, ip, 0)

UnlinkInode(p) ==
  /\ At(p, "unlink3")
  /\ Relink(Arg(p, 2), icache[Arg(p, 2)].ino, -1)
  /\ Then(p, <<<<"iput", Arg(p, 2)>>>> \o Done)
  /\ UNCHANGED <<ftable, pipes, ofile, cwd, st, op, res, prog, failed>>

\* The link count goes up before the new name is written.
Link(p) ==
  /\ At(p, "link1")
  /\ LET s == res[p].ip
     IN  \/ /\ s = 0
            /\ Then(p, Fail) /\ UNCHANGED <<disk, icache>>
         \/ /\ Ilock(p) /\ Loaded(s).type = T_DIR
            /\ icache' = Keep(icache, s, Loaded(s), 0)
            /\ Then(p, <<<<"iput", s>>>> \o Fail) /\ UNCHANGED disk
         \/ /\ Ilock(p) /\ Loaded(s).type # T_DIR
            /\ Relink(s, Loaded(s), 1)
            /\ Then(p, <<<<"namex", Head(prog[p]).b, TRUE>>, <<"link2", s>>>>)
  /\ UNCHANGED <<ftable, pipes, ofile, cwd, st, op, res, prog, failed>>

\* dirlink() of the new name; if it exists, dirlink() drops the inode it found
\* while the directory is locked.
LinkName(p) ==
  /\ At(p, "link2")
  /\ LET d == res[p].ip
         s == Arg(p, 2)
         dp == Loaded(d)
         c == Find(disk, dp, res[p].name)
         w == Dirlink(disk, dp, res[p].name, icache[s].inum)
         inum == Cell(disk, dp, c)[2]
     IN  \/ /\ d = 0
            /\ Then(p, <<<<"linkbad", s>>>>) /\ UNCHANGED <<disk, icache>>
         \/ /\ Ilock(p) /\ c # -1 /\ SlotOf(icache, inum) # 0
            /\ icache' = Iget(Keep(icache, d, dp, p), inum)
            /\ Then(p, <<<<"iput", SlotOf(icache, inum)>>, <<"unlockput", d>>, <<"linkbad", s>>>>)
            /\ UNCHANGED disk
         \/ /\ Ilock(p) /\ c = -1 /\ ~w.full
            /\ disk' = Flush(disk, icache[d].inum, w)
            /\ icache' = Keep(icache, d, w.ino, 0)
            /\ Then(p, <<<<"iput", d>>, <<"iput", s>>>> \o Done)
  /\ UNCHANGED <<ftable, pipes, ofile, cwd, st, op, res, prog, failed>>

\* The failed link() takes its link count back.
LinkBad(p) ==
  /\ At(p, "linkbad") /\ Ilock(p)
  /\ Relink(Arg(p, 2), Loaded(Arg(p, 2)), -1)
  /\ Then(p, <<<<"iput", Arg(p, 2)>>>> \o Fail)
  /\ UNCHANGED <<ftable, pipes, ofile, cwd, st, op, res, prog, failed>>

Chdir(p) ==
  /\ At(p, "chdir1")
  /\ LET s == res[p].ip
     IN  \/ /\ s = 0
            /\ Then(p, Fail) /\ UNCHANGED icache
         \/ /\ Ilock(p)
            /\ icache' = Keep(icache, s, Loaded(s), 0)
            /\ Then(p, IF Loaded(s).type # T_DIR THEN <<<<"iput", s>>>> \o Fail
                       ELSE <<<<"iput", cwd[p]>>, <<"end">>, <<"setcwd", s>>, <<"ret", 0>>>>)
  /\ UNCHANGED <<disk, ftable, pipes, ofile, cwd, st, op, res, prog, failed>>

\* p->cwd is set after end_op(); until then it points to an inode already put.
SetCwd(p) ==
  /\ At(p, "setcwd")
  /\ cwd' = [cwd EXCEPT ![p] = Arg(p, 2)]
  /\ Then(p, <<>>)
  /\ UNCHANGED <<disk, icache, ftable, pipes, ofile, st, op, res, prog, failed>>

----------------------------------------------------------------------------
\* Files.

\* fileclose(): the last reference closes the pipe end or puts the inode, in a
\* transaction of its own.
FileClose(p) ==
  /\ At(p, "fclose")
  /\ LET f == Arg(p, 2)
         ff == ftable[f]
         last == ff.ref = 1
     IN  /\ ftable' = [ftable EXCEPT ![f].ref = @ - 1, ![f].type = IF last THEN "none" ELSE @]
         /\ pipes' = IF last /\ ff.type = "pipe"
                     THEN [pipes EXCEPT ![ff.ip] = IF ff.wr THEN [@ EXCEPT !.w = FALSE] ELSE [@ EXCEPT !.r = FALSE]]
                     ELSE pipes
         /\ Then(p, IF last /\ ff.type = "inode" THEN <<<<"begin">>, <<"iput", ff.ip>>, <<"end">>>> ELSE <<>>)
  /\ UNCHANGED <<disk, icache, ofile, cwd, st, op, res, prog, failed>>

\* A turn of filewrite()'s loop has written n1 of the cells data: the next turn is a
\* transaction of its own.
NextTurn(p, s, f, data, n1) ==
  <<<<"end">>>> \o IF n1 = Len(data) THEN <<<<"ret", Len(Head(prog[p]).b)>>>>
                  ELSE <<<<"begin">>, <<"io", s, f, SubSeq(data, n1 + 1, Len(data))>>>>

\* A device goes through devsw: the console lets go of the inode while it works,
\* for any other there is no driver.
DeviceIo(p) ==
  /\ At(p, "io") /\ Ilock(p) /\ Loaded(Arg(p, 2)).type = T_DEV /\ Head(prog[p]).op # "fstat"
  /\ icache' = Keep(icache, Arg(p, 2), Loaded(Arg(p, 2)), 0)
  /\ Then(p, CASE Loaded(Arg(p, 2)).major = CONSOLE -> <<[Head(todo[p]) EXCEPT ![1] = "console"]>>
               [] Head(prog[p]).op = "read" -> <<<<"ret", -1>>>>
               [] OTHER -> Fail)
  /\ UNCHANGED <<disk, ftable, pipes, ofile, cwd, st, op, res, prog, failed>>

\* The driver takes the lock again: a line is read, as XvConsole shows, or nothing
\* at the end of the input, or -1 when the reader was killed; a write is complete.
ConsoleIo(p) ==
  /\ At(p, "console") /\ Ilock(p)
  /\ LET s == Arg(p, 2)
         f == Arg(p, 3)
         n1 == Min({MAXWRITE, Len(Arg(p, 4))})
     IN  /\ icache' = Keep(icache, s, Loaded(s), 0)
         /\ \/ /\ Head(prog[p]).op = "read"
               /\ \E r \in -1..Head(prog[p]).n :
                    /\ ftable' = [ftable EXCEPT ![f].off = IF r > 0 THEN @ + r ELSE @]
                    /\ Then(p, <<<<"ret", r>>>>)
            \/ /\ Head(prog[p]).op = "write"
               /\ ftable' = [ftable EXCEPT ![f].off = @ + n1]
               /\ Then(p, NextTurn(p, s, f, Arg(p, 4), n1))
  /\ UNCHANGED <<disk, pipes, ofile, cwd, st, op, res, prog, failed>>

\* fileread() of a file or directory, filestat().
FileRead(p) ==
  /\ At(p, "io") /\ Ilock(p) /\ Head(prog[p]).op \in {"read", "fstat"}
  /\ LET s == Arg(p, 2)
         f == Arg(p, 3)
         ip == Loaded(s)
         data == Readi(disk, ip, ftable[f].off, Head(prog[p]).n)
     IN  /\ icache' = Keep(icache, s, ip, 0)
         /\ \/ /\ Head(prog[p]).op = "fstat"
               /\ Then(p, <<<<"ret", ip.nlink>>>>) /\ UNCHANGED ftable
            \/ /\ Head(prog[p]).op = "read" /\ ip.type # T_DEV
               /\ Then(p, <<<<"data", data>>>>)
               /\ ftable' = [ftable EXCEPT ![f].off = @ + Len(data)]
  /\ UNCHANGED <<disk, pipes, ofile, cwd, st, op, res, prog, failed>>

\* One turn of filewrite()'s loop: at most MAXWRITE cells in one transaction.
FileWrite(p) ==
  /\ At(p, "io") /\ Ilock(p) /\ Head(prog[p]).op = "write" /\ Loaded(Arg(p, 2)).type # T_DEV
  /\ LET s == Arg(p, 2)
         f == Arg(p, 3)
         data == Arg(p, 4)
         n1 == Min({MAXWRITE, Len(data)})
         ip == Loaded(s)
         off == ftable[f].off
         w == Writei(disk, ip, off, SubSeq(data, 1, n1))
     IN  IF off > ip.size \/ off + n1 > MAXFILE * CPB
         THEN icache' = Keep(icache, s, ip, 0) /\ Then(p, Fail) /\ UNCHANGED <<disk, ftable>>
         ELSE /\ ~w.full
              /\ disk' = Flush(disk, icache[s].inum, w)
              /\ icache' = Keep(icache, s, w.ino, 0)
              /\ ftable' = [ftable EXCEPT ![f].off = off + n1]
              /\ Then(p, NextTurn(p, s, f, data, n1))
  /\ UNCHANGED <<pipes, ofile, cwd, st, op, res, prog, failed>>

\* piperead() and pipewrite(), as XvPipe shows them to behave.
PipeRead(p) ==
  /\ At(p, "pread")
  /\ LET k == Arg(p, 2)
         n == Min({Head(prog[p]).n, Len(pipes[k].data)})
     IN  /\ pipes[k].data # <<>> \/ ~pipes[k].w
         /\ pipes' = [pipes EXCEPT ![k].data = SubSeq(@, n + 1, Len(@))]
         /\ Then(p, <<<<"data", SubSeq(pipes[k].data, 1, n)>>>>)
  /\ UNCHANGED <<disk, icache, ftable, ofile, cwd, st, op, res, prog, failed>>

PipeWrite(p) ==
  /\ At(p, "pwrite")
  /\ LET k == Arg(p, 2)
         data == Arg(p, 3)
         n == Min({Len(data), PIPESIZE - Len(pipes[k].data)})
     IN  IF n = Len(data) \/ ~pipes[k].r
         THEN /\ pipes' = IF n = Len(data) THEN [pipes EXCEPT ![k].data = @ \o data] ELSE pipes
              /\ Then(p, <<<<"ret", IF n = Len(data) THEN n ELSE -1>>>>)
         ELSE /\ n > 0
              /\ pipes' = [pipes EXCEPT ![k].data = @ \o SubSeq(data, 1, n)]
              /\ Then(p, <<<<"pwrite", k, SubSeq(data, n + 1, Len(data))>>>>)
  /\ UNCHANGED <<disk, icache, ftable, ofile, cwd, st, op, res, prog, failed>>

\* The bad: path: every file got is closed again.
GiveBack(fs) == [i \in 1..Len(fs) |-> <<"fclose", fs[i]>>] \o <<<<"ret", -1>>>>

\* pipealloc() takes a file, another one and a page of memory, any of which may be
\* missing; "pipe" has the files taken so far.
PipeFile(p) ==
  /\ At(p, "pipe")
  /\ IF FreeFiles = {} THEN Then(p, GiveBack(Arg(p, 2))) /\ UNCHANGED ftable
     ELSE /\ ftable' = [ftable EXCEPT ![Min(FreeFiles)].ref = 1]
          /\ Then(p, <<<<IF Arg(p, 2) = <<>> THEN "pipe" ELSE "pipepage", Append(Arg(p, 2), Min(FreeFiles))>>>>)
  /\ UNCHANGED <<disk, icache, pipes, ofile, cwd, st, op, res, prog, failed>>

PipePage(p) ==
  /\ At(p, "pipepage")
  /\ LET fs == Arg(p, 2)
         ks == {k \in DOMAIN pipes : ~pipes[k].r /\ ~pipes[k].w}
         End(k, rd) == [ref |-> 1, type |-> "pipe", ip |-> k, off |-> 0, rd |-> rd, wr |-> ~rd]
     IN  IF ks = {} THEN Then(p, GiveBack(fs)) /\ UNCHANGED <<ftable, pipes>>
         ELSE /\ pipes' = [pipes EXCEPT ![Min(ks)] = [r |-> TRUE, w |-> TRUE, data |-> <<>>]]
              /\ ftable' = [ftable EXCEPT ![fs[1]] = End(Min(ks), TRUE), ![fs[2]] = End(Min(ks), FALSE)]
              /\ Then(p, <<<<"pipefd", fs, <<>>>>>>)
  /\ UNCHANGED <<disk, icache, ofile, cwd, st, op, res, prog, failed>>

\* Mutant: the first descriptor stays when there is no second one.
Unalloc_Keeps(p, fds) == ofile

\* The descriptors fds are free again.
Unalloc(p, fds) == [ofile EXCEPT ![p] = [fd \in FDs |-> IF fd \in fds THEN 0 ELSE @[fd]]]

\* sys_pipe(): fdalloc() of the read end, then of the write end; fds are those it has.
SysPipe(p) ==
  /\ At(p, "pipefd")
  /\ LET fs == Arg(p, 2)
         fds == Arg(p, 3)
         fd == Min(FreeFds(p))
     IN  IF FreeFds(p) = {} THEN ofile' = Unalloc(p, ToSet(fds)) /\ Then(p, GiveBack(fs))
         ELSE /\ ofile' = [ofile EXCEPT ![p][fd] = fs[Len(fds) + 1]]
              /\ Then(p, IF fds = <<>> THEN <<<<"pipefd", fs, <<fd>>>>>> ELSE <<<<"ret", 0>>>>)
  /\ UNCHANGED <<disk, icache, ftable, pipes, cwd, st, op, res, prog, failed>>

\* sys_dup(): fdalloc(), then filedup().
SysDup(p) ==
  /\ At(p, "dup")
  /\ IF FreeFds(p) = {} THEN Then(p, <<<<"ret", -1>>>>) /\ UNCHANGED <<ftable, ofile>>
     ELSE /\ ofile' = [ofile EXCEPT ![p][Min(FreeFds(p))] = Arg(p, 2)]
          /\ ftable' = [ftable EXCEPT ![Arg(p, 2)].ref = @ + 1]
          /\ Then(p, <<<<"ret", Min(FreeFds(p))>>>>)
  /\ UNCHANGED <<disk, icache, pipes, cwd, st, op, res, prog, failed>>

----------------------------------------------------------------------------
\* System calls: what a call of the program starts with.

\* Calls on a path.
SysPath(c) ==
  CASE c.op = "mkdir"  -> <<<<"begin">>, <<"namex", c.a, TRUE>>, <<"create1", T_DIR>>>>
    [] c.op = "mknod"  -> <<<<"begin">>, <<"namex", c.a, TRUE>>, <<"create1", T_DEV>>>>
    [] c.op = "creat"  -> <<<<"begin">>, <<"namex", c.a, TRUE>>, <<"create1", T_FILE>>>>
    [] c.op = "open"   -> <<<<"begin">>, <<"namex", c.a, FALSE>>, <<"open1">>>>
    [] c.op = "unlink" -> <<<<"begin">>, <<"namex", c.a, TRUE>>, <<"unlink1">>>>
    [] c.op = "link"   -> <<<<"begin">>, <<"namex", c.a, FALSE>>, <<"link1">>>>
    [] c.op = "chdir"  -> <<<<"begin">>, <<"namex", c.a, FALSE>>, <<"chdir1">>>>

\* Calls on descriptor c.fd, which argfd() finds to be file f.
SysFile(c, f) ==
  LET ff == ftable[f]
      refused == \/ c.op = "read" /\ ~ff.rd
                 \/ c.op = "write" /\ ~ff.wr
                 \/ c.op = "fstat" /\ ff.type # "inode"
  IN  CASE c.op = "close" -> <<<<"fclose", f>>, <<"ret", 0>>>>
        [] c.op = "dup" -> <<<<"dup", f>>>>
        [] refused -> <<<<"ret", -1>>>>
        [] c.op = "read" /\ ~refused /\ ff.type = "pipe" -> <<<<"pread", ff.ip>>>>
        [] c.op = "write" /\ ~refused /\ ff.type = "pipe" -> <<<<"pwrite", ff.ip, c.b>>>>
        [] c.op = "write" /\ ~refused /\ ff.type = "inode" -> <<<<"begin">>, <<"io", ff.ip, f, c.b>>>>
        [] OTHER -> <<<<"io", ff.ip, f>>>>

PathCalls == {"mkdir", "mknod", "creat", "open", "unlink", "link", "chdir"}
FileCalls == {"close", "dup", "read", "write", "fstat"}
Idle(p) == st[p] = "run" /\ todo[p] = <<>>

Syscall(p) ==
  /\ Idle(p) /\ prog[p] # <<>> /\ Head(prog[p]).op \in PathCalls \cup FileCalls \cup {"pipe"}
  /\ LET c == Head(prog[p])
         f == IF c.fd \in FDs THEN ofile[p][c.fd] ELSE 0
     IN  /\ todo' = [todo EXCEPT ![p] = CASE c.op = "pipe" -> <<<<"pipe", <<>>>>>>
                                           [] c.op \in PathCalls -> SysPath(c)
                                           [] c.op \in FileCalls /\ f = 0 -> <<<<"ret", -1>>>>
                                           [] OTHER -> SysFile(c, f)]
         /\ ofile' = IF c.op = "close" /\ f # 0 THEN [ofile EXCEPT ![p][c.fd] = 0] ELSE ofile
  /\ UNCHANGED <<disk, icache, ftable, pipes, cwd, st, op, res, prog, failed>>

\* What the caller finds wrong with the result: the tests of usertests.c.
Unexpected(c, r) == (c.want = "ok" /\ r < 0) \/ (c.want = "fail" /\ r >= 0)
Seen(cell) == IF cell[1] = "" THEN cell ELSE <<cell[1], 0>>
Count(x, s) == Cardinality({i \in DOMAIN s : Seen(s[i]) = x})
\* A read is checked against the data itself, against how often it holds the
\* values of b, or (a loop that reads to the end) as the next part of a stream.
UnexpectedData(c, data) ==
  \/ c.want = "ok" /\ data # c.b
  \/ c.want = "bag" /\ \E x \in ToSet(c.b) : Count(x, data) # Count(x, c.b)
  \/ c.want = "stream" /\ IF data = <<>> THEN c.b # <<>> ELSE ~IsPrefix(data, c.b)
Rest(c, data) ==
  IF c.want = "stream" /\ data # <<>> THEN <<[c EXCEPT !.b = SubSeq(@, Len(data) + 1, Len(@))]>> ELSE <<>>

Return(p) ==
  /\ At(p, "ret") \/ At(p, "data")
  /\ LET c == Head(prog[p])
         r == Arg(p, 2)
     IN  /\ failed' = (failed \/ IF At(p, "ret") THEN Unexpected(c, r) ELSE UnexpectedData(c, r))
         /\ prog' = [prog EXCEPT ![p] = (IF At(p, "data") THEN Rest(c, r) ELSE <<>>) \o Tail(@)]
  /\ res' = [res EXCEPT ![p] = [ip |-> 0, name |-> ""]]
  /\ Then(p, <<>>)
  /\ UNCHANGED <<disk, icache, ftable, pipes, ofile, cwd, st, op>>

\* fork(): every descriptor and the current directory get one more holder.
Fork(p) ==
  /\ Idle(p) /\ prog[p] # <<>> /\ Head(prog[p]).op = "fork"
  /\ LET q == Head(prog[p]).n
     IN  /\ st[q] = "unused"
         /\ st' = [st EXCEPT ![q] = "run"]
         /\ ofile' = [ofile EXCEPT ![q] = ofile[p]]
         /\ ftable' = [f \in 1..NFILE |-> [ftable[f] EXCEPT !.ref = @ + Cardinality({fd \in FDs : ofile[p][fd] = f})]]
         /\ cwd' = [cwd EXCEPT ![q] = cwd[p]]
         /\ icache' = Idup(icache, cwd[p])
  /\ prog' = [prog EXCEPT ![p] = Tail(@)]
  /\ UNCHANGED <<disk, pipes, op, todo, res, failed>>

\* Mutant: the current directory is put without a transaction.
Exit_NoOp(p) ==
  /\ Idle(p) /\ prog[p] = <<>>
  /\ ofile' = [ofile EXCEPT ![p] = [fd \in FDs |-> 0]]
  /\ todo' = [todo EXCEPT ![p] =
               [i \in 1..Cardinality(FDs \ FreeFds(p)) |-> <<"fclose", ofile[p][SetToSortSeq(FDs \ FreeFds(p), <)[i]]>>]
               \o <<<<"iput", cwd[p]>>, <<"zombie">>>>]
  /\ UNCHANGED <<disk, icache, ftable, pipes, cwd, st, op, res, prog, failed>>

\* exit(): close every file, put the current directory in a transaction.
Exit(p) ==
  /\ Idle(p) /\ prog[p] = <<>>
  /\ ofile' = [ofile EXCEPT ![p] = [fd \in FDs |-> 0]]
  /\ todo' = [todo EXCEPT ![p] =
               [i \in 1..Cardinality(FDs \ FreeFds(p)) |-> <<"fclose", ofile[p][SetToSortSeq(FDs \ FreeFds(p), <)[i]]>>]
               \o <<<<"begin">>, <<"iput", cwd[p]>>, <<"end">>, <<"zombie">>>>]
  /\ UNCHANGED <<disk, icache, ftable, pipes, cwd, st, op, res, prog, failed>>

Zombie(p) ==
  /\ At(p, "zombie")
  /\ st' = [st EXCEPT ![p] = "zombie"]
  /\ cwd' = [cwd EXCEPT ![p] = 0]
  /\ Then(p, <<>>)
  /\ UNCHANGED <<disk, icache, ftable, pipes, ofile, op, res, prog, failed>>

\* wait(): some child has exited; the programs wait only for children they have.
Wait(p) ==
  /\ Idle(p) /\ prog[p] # <<>> /\ Head(prog[p]).op = "wait"
  /\ \E q \in Procs \ {1, p} :
       /\ st[q] = "zombie"
       /\ st' = [st EXCEPT ![q] = "unused"]
  /\ prog' = [prog EXCEPT ![p] = Tail(@)]
  /\ UNCHANGED <<disk, icache, ftable, pipes, ofile, cwd, op, todo, res, failed>>

----------------------------------------------------------------------------
\* The image mkfs builds: a root directory, rounded up to whole blocks, and one
\* file of one cell per name of Files.
MkRoot ==
  LET n == Len(Files) + 2
      nb == n \div CPB + 1
      ents == <<<<".", ROOTINO>>, <<"..", ROOTINO>>>> \o [i \in 1..Len(Files) |-> <<Files[i], i + 1>>]
      w == Writei([used |-> {}, blk |-> [b \in 1..NBLOCK |-> [c \in 0..(CPB - 1) |-> NoCell]]],
                  [NoInode EXCEPT !.type = T_DIR, !.nlink = 1], 0, ents)
  IN  [w EXCEPT !.ino.size = nb * CPB]

MkFile(w, i) ==
  LET v == Writei([used |-> w.used, blk |-> w.blk], [NoInode EXCEPT !.type = T_FILE, !.nlink = 1], 0, <<<<"", i>>>>)
  IN  [used |-> v.used, blk |-> v.blk, inode |-> Append(w.inode, v.ino)]

Mkfs ==
  LET r == MkRoot
      all == FoldLeft(MkFile, [used |-> r.used, blk |-> r.blk, inode |-> <<r.ino>>], [i \in 1..Len(Files) |-> i])
  IN  [used |-> all.used, blk |-> all.blk,
       inode |-> [i \in 1..NINODES |-> IF i <= Len(all.inode) THEN all.inode[i] ELSE NoInode]]

\* Process 1 starts in the root directory without open files.
Init ==
  /\ disk = Mkfs
  /\ icache = [s \in Slots |-> [inum |-> IF s = 1 THEN ROOTINO ELSE 0, ref |-> IF s = 1 THEN 1 ELSE 0,
                                valid |-> FALSE, lock |-> 0, ino |-> NoInode]]
  /\ ftable = [f \in 1..NFILE |-> NoFile]
  /\ pipes = [k \in 1..1 |-> [r |-> FALSE, w |-> FALSE, data |-> <<>>]]
  /\ ofile = [p \in Procs |-> [fd \in FDs |-> 0]]
  /\ cwd = [p \in Procs |-> IF p = 1 THEN 1 ELSE 0]
  /\ st = [p \in Procs |-> IF p = 1 THEN "run" ELSE "unused"]
  /\ op = {}
  /\ todo = [p \in Procs |-> <<>>]
  /\ res = [p \in Procs |-> [ip |-> 0, name |-> ""]]
  /\ prog \in Programs
  /\ failed = FALSE

Step(p) ==
  \/ Syscall(p) \/ Return(p) \/ Fork(p) \/ Exit(p) \/ Zombie(p) \/ Wait(p)
  \/ BeginOp(p) \/ EndOp(p) \/ Iput(p) \/ IputFree(p) \/ IputClear(p) \/ IputDrop(p) \/ Iunlockput(p)
  \/ Namex(p) \/ NamexEnd(p) \/ NamexStep(p)
  \/ Create(p) \/ CreateIn(p) \/ CreateOld(p) \/ CreateNew(p) \/ Open(p) \/ OpenFile(p) \/ OpenFd(p) \/ OpenFill(p)
  \/ Unlink(p) \/ UnlinkEntry(p) \/ UnlinkInode(p) \/ Link(p) \/ LinkName(p) \/ LinkBad(p)
  \/ Chdir(p) \/ SetCwd(p)
  \/ FileClose(p) \/ FileRead(p) \/ FileWrite(p) \/ DeviceIo(p) \/ ConsoleIo(p) \/ PipeRead(p) \/ PipeWrite(p)
  \/ PipeFile(p) \/ PipePage(p) \/ SysPipe(p) \/ SysDup(p)

Next == \E p \in Procs : Step(p)

Spec == Init /\ [][Next]_fsvars

----------------------------------------------------------------------------
\* Properties.

Entries(d) == {c \in 0..(disk.inode[d].size - 1) : Cell(disk, disk.inode[d], c)[2] # 0}
Entry(d, c) == Cell(disk, disk.inode[d], c)
DirsIn(D) == {i \in 1..NINODES : disk.inode[i].type = T_DIR /\ \E d \in D : \E c \in Entries(d) :
                                    Entry(d, c)[2] = i /\ Entry(d, c)[1] \notin {".", ".."}}
\* The directories a path from the root leads to.
Linked == FoldLeft(LAMBDA D, i : D \cup DirsIn(D), {ROOTINO}, [i \in 1..NINODES |-> i])
\* The entries that name inode i, "." aside.
NamesOf(i) == {x \in {<<d, c>> : d \in Linked, c \in 0..(MAXFILE * CPB)} :
                 x[2] \in Entries(x[1]) /\ Entry(x[1], x[2])[2] = i /\ Entry(x[1], x[2])[1] # "."}
Owned(i) == BlocksOf(disk.inode[i])

\* Whenever no operation is outstanding (the states the log can commit, so the
\* states a crash can leave): every name in the tree leads to an inode in use
\* whose link count covers all its names, and every block that the bitmap has in
\* use belongs to exactly one inode in use.
DiskIsSound ==
  op = {} =>
    /\ \A d \in Linked : \A c \in Entries(d) : disk.inode[Entry(d, c)[2]].type # 0
    /\ \A i \in 1..NINODES : disk.inode[i].type # 0 => disk.inode[i].nlink >= Cardinality(NamesOf(i))
    /\ disk.used = UNION {Owned(i) : i \in 1..NINODES}
    /\ \A i, j \in 1..NINODES : i # j => Owned(i) \cap Owned(j) = {}

Holders(s) == Cardinality({p \in Procs : cwd[p] = s})
              + Cardinality({f \in 1..NFILE : ftable[f].ref > 0 /\ ftable[f].type = "inode" /\ ftable[f].ip = s})
FdsOf(f) == Cardinality({x \in Procs \X FDs : ofile[x[1]][x[2]] = f})

\* Once no process is inside a call, every error path has given back what it
\* took: ip->ref counts the open files and current directories, f->ref the
\* descriptors, and no sleep lock is held.
RefsAreHeld ==
  (\A p \in Procs : todo[p] = <<>>) =>
    /\ \A s \in Slots : icache[s].ref = Holders(s) /\ icache[s].lock = 0
    /\ \A f \in 1..NFILE : ftable[f].ref = FdsOf(f)
    /\ \A k \in DOMAIN pipes : pipes[k].r = \E f \in 1..NFILE :
         ftable[f].ref > 0 /\ ftable[f].type = "pipe" /\ ftable[f].ip = k /\ ftable[f].rd

\* An inode behind a descriptor is in use however often it was unlinked, and the
\* cache holds it once and as it is on disk.
OpenInodeLives ==
  /\ \A f \in 1..NFILE : ftable[f].ref > 0 /\ ftable[f].type = "inode" =>
       LET e == icache[ftable[f].ip] IN e.ref > 0 /\ disk.inode[e.inum].type # 0
  /\ \A s, t \in Slots : icache[s].ref > 0 /\ icache[t].ref > 0 /\ icache[s].inum = icache[t].inum => s = t
  /\ \A s \in Slots : icache[s].ref > 0 /\ icache[s].valid /\ icache[s].lock = 0 =>
       icache[s].ino = disk.inode[icache[s].inum]

\* What p waits for has not happened: room in the log, a sleep lock, bytes or room
\* in a pipe, a child's exit.
Blocked(p) ==
  \/ At(p, "begin") /\ Cardinality(op) >= MAXOPS
  \/ At(p, "iput") /\ icache[Arg(p, 2)].lock # 0
  \/ Target(p) # 0 /\ icache[Target(p)].lock # 0
  \/ At(p, "pread") /\ pipes[Arg(p, 2)].data = <<>> /\ pipes[Arg(p, 2)].w
  \/ At(p, "pwrite") /\ Len(pipes[Arg(p, 2)].data) = PIPESIZE /\ pipes[Arg(p, 2)].r
  \/ Idle(p) /\ prog[p] # <<>> /\ Head(prog[p]).op = "wait" /\ \A q \in Procs : st[q] # "zombie"

\* The next section of p ends in a panic() of fs.c or sysfile.c: ilock() of a free
\* inode, iget() and ialloc() without an entry left, balloc() without a block,
\* bfree() of a free one, unlink() of an inode without links, create() of a name that
\* appeared meanwhile, dirlink() in a full directory.
Panics(p) ==
  \/ At(p, "namex") /\ Arg(p, 2) # <<>> /\ Head(Arg(p, 2)) = "/" /\ SlotOf(icache, ROOTINO) = 0
  \/ At(p, "ifree") /\ ~(BlocksOf(icache[Arg(p, 2)].ino) \subseteq disk.used)
  \/ /\ Target(p) # 0 /\ icache[Target(p)].lock = 0
     /\ LET ip == Loaded(Target(p))
            name == IF At(p, "walk") THEN Head(Arg(p, 3)) ELSE res[p].name
            c == Find(disk, ip, name)
            Uncached(inum) == SlotOf(icache, inum) = 0
            free == {i \in 1..NINODES : disk.inode[i].type = 0}
            looksUp == \/ At(p, "walk") /\ ip.type = T_DIR /\ ~(Arg(p, 4) /\ Len(Arg(p, 3)) = 1)
                       \/ At(p, "unlink1") /\ name \notin {".", ".."}
                       \/ At(p, "create1") \/ At(p, "link2")
        IN  \/ ip.type = 0
            \/ looksUp /\ c # -1 /\ Uncached(Cell(disk, ip, c)[2])
            \/ At(p, "create1") /\ c = -1 /\ (free = {} \/ Uncached(Min(free)))
            \/ At(p, "create3") /\ (Find(disk, icache[Arg(p, 4)].ino, name) # -1 \/ CreateWrites(p)[2].full)
            \/ At(p, "unlink2") /\ ip.nlink < 1
            \/ At(p, "link2") /\ c = -1 /\ Dirlink(disk, ip, name, icache[Arg(p, 2)].inum).full
            \/ At(p, "io") /\ Head(prog[p]).op = "write" /\ ip.type # T_DEV
               /\ ftable[Arg(p, 3)].off + Min({MAXWRITE, Len(Arg(p, 4))}) <= MAXFILE * CPB
               /\ Writei(disk, ip, ftable[Arg(p, 3)].off, SubSeq(Arg(p, 4), 1, Min({MAXWRITE, Len(Arg(p, 4))}))).full

\* No process comes to a panic(), with an inode cache, inode table and bitmap of the
\* sizes of the instance.
NoPanic == \A p \in Procs : ~Panics(p)

\* iput() can free an inode and its blocks, so whoever is about to call it is
\* between begin_op() and end_op(): chdir(), exit(), the error paths of open(), and
\* every other caller.
PutsInTransaction == \A p \in Procs : At(p, "iput") \/ At(p, "unlockput") => p \in op

\* Until all have exited some process can go on: no cycle of inode locks, no lock
\* kept by an error path.  Programs are finite, so everyone comes to the end.
NoDeadlock ==
  (\E p \in Procs : st[p] = "run") => \E p \in Procs : st[p] = "run" /\ ~Blocked(p) /\ ~Panics(p)

\* The one way to a deadlock is iput()'s lock (fs.c:334), taken by a process that
\* holds the lock of another inode: the locks of ilock() go from parent to child,
\* begin_op() and the pipes wait for nobody who waits for them, and no error path
\* keeps a lock.
DeadlockOnlyInIput ==
  NoDeadlock \/ \E p \in Procs : At(p, "iput") /\ \E s \in Slots \ {Arg(p, 2)} : icache[s].lock = p

\* The checks of usertests.c: no call returns what its caller takes for a bug, and
\* none brings the kernel down, were it by using up the inode cache.
TestsPass == ~failed /\ NoPanic
=============================================================================
