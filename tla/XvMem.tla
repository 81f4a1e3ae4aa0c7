------------------------------- MODULE XvMem -------------------------------
(***************************************************************************)
(* Physical pages and address spaces: kalloc.c, vm.c, exec.c, and what      *)
(* fork(), exit(), wait() and growproc() do with memory (proc.c).  A step   *)
(* takes one page from the free list, or gives a whole table back; the      *)
(* steps of several processes, and pipes, compete for the free list.        *)
(* Addresses count in halves of a page, so sizes need not be page aligned.  *)
(* Which free page kalloc() returns does not matter here: the lowest.       *)
(***************************************************************************)
EXTENDS Integers, FiniteSets, FiniteSetsExt, Functions

CONSTANTS NPROC,
          NFRAME,     \* pages on the free list after kinit2()
          NPAGE,      \* user pages below KERNBASE
          PERTAB,     \* pages per page table
          KTABS,      \* page tables of setupkvm()'s kernel mappings
          SbrkArgs, ImageSizes,
          MaxCalls,   \* system calls in a run (bound)
          MaxPipes    \* pages held by pipes at once (bound)

Procs == 1..NPROC
Frames == 1..NFRAME
Pages == 0..(NPAGE - 1)
PG == 2
KERNBASE == NPAGE * PG

ASSUME MemAssumption ==
  /\ NPROC \in Nat \ {0} /\ NFRAME \in Nat /\ NPAGE \in Nat \ {0} /\ PERTAB \in Nat \ {0} /\ KTABS \in Nat
  \* userinit() fits
  /\ NFRAME >= 4 + KTABS /\ ImageSizes \subseteq Nat \ {0} /\ SbrkArgs \subseteq Int

VARIABLES
  free,    \* kmem.freelist
  mem,     \* contents of each page: "junk" after kfree(), "zero", or data
  pipe,    \* pages of pipe buffers
  pd, sz, kstack, st, parent,  \* of struct proc
  new,     \* the page table a call is building
  page,    \* the page a turn of its loop got and has not mapped yet, or 0
  job,     \* the call each process is in: [call, pc, a, to, q, img, ok, old]
  calls    \* calls still to be made

memvars == <<free, mem, pipe, pd, sz, kstack, st, parent, new, page, job, calls>>

NoTable == [dir |-> 0, ktab |-> {}, tab |-> <<>>, pg |-> <<>>, nouser |-> {}]
NoJob == [call |-> "none", pc |-> "idle", a |-> 0, to |-> 0, q |-> 0, img |-> 0, ok |-> TRUE, old |-> <<>>]

PGROUNDUP(a) == ((a + PG - 1) \div PG) * PG
PDX(v) == v \div PERTAB

\* All pages a page table holds.
FramesOf(t) == ({t.dir} \ {0}) \cup t.ktab \cup Range(t.tab) \cup Range(t.pg)

\* What process p sees: the contents of its pages, and its size.
View(p) == [sz |-> sz[p], pg |-> [v \in DOMAIN pd[p].pg |-> mem[pd[p].pg[v]]]]

----------------------------------------------------------------------------
\* kfree() of a set of pages; m is a record [free, mem].
M == [free |-> free, mem |-> mem]
Kfree(m, fs) == [free |-> m.free \cup fs, mem |-> [f \in Frames |-> IF f \in fs THEN "junk" ELSE m.mem[f]]]
\* kalloc(): the page, as a set that is empty when there is none.
Kalloc == IF free = {} THEN {} ELSE {Min(free)}
Take(fs, val) == [free |-> free \ fs, mem |-> [f \in Frames |-> IF f \in fs THEN val ELSE mem[f]]]
SetM(m) == free' = m.free /\ mem' = m.mem

Drop(f, S) == [x \in DOMAIN f \ S |-> f[x]]
Add(f, x, y) == [z \in DOMAIN f \cup {x} |-> IF z = x THEN y ELSE f[z]]

\* mappages() of frame f at user page v, with a page table if it needed one.
Mapped(t, v, f, table) ==
  [t EXCEPT !.pg = Add(@, v, f), !.tab = IF table = {} THEN @ ELSE Add(@, PDX(v), Min(table))]

\* The pages deallocuvm() gives back.
Above(t, newsz, oldsz) == {v \in DOMAIN t.pg : v * PG >= PGROUNDUP(newsz) /\ v * PG < oldsz}

Deallocuvm(t, vs) == [t EXCEPT !.pg = Drop(@, vs), !.nouser = @ \ vs]
PagesAt(t, vs) == {t.pg[v] : v \in vs}

----------------------------------------------------------------------------
\* System calls begin and end.

Idle(p) == st[p] = "run" /\ job[p].pc = "idle"
Ready(p) == Idle(p) /\ calls > 0
Enter(p, j) == job' = [job EXCEPT ![p] = [j EXCEPT !.old = View(p)]] /\ calls' = calls - 1
Goto(p, l) == job' = [job EXCEPT ![p].pc = l]
Result(p, ok) == job' = [job EXCEPT ![p].pc = "ret", ![p].ok = ok]

Return(p) ==
  /\ job[p].pc = "ret"
  /\ job' = [job EXCEPT ![p] = NoJob]
  /\ UNCHANGED <<free, mem, pipe, pd, sz, kstack, st, parent, new, page, calls>>

\* growproc(n).  Below zero the unsigned size wraps, and deallocuvm() finds nothing to
\* do.  A size of exactly zero reads as deallocuvm()'s failure: the pages are gone, sz
\* is left as it was, and the program does not survive the -1.
Sbrk(p, n) ==
  /\ Ready(p)
  /\ LET newsz == sz[p] + n
         gone == IF n < 0 /\ newsz >= 0 THEN Above(pd[p], newsz, sz[p]) ELSE {}
         j == [NoJob EXCEPT !.call = "sbrk"]
     IN  /\ SetM(Kfree(M, PagesAt(pd[p], gone)))
         /\ pd' = [pd EXCEPT ![p] = Deallocuvm(@, gone)]
         /\ sz' = [sz EXCEPT ![p] = IF n < 0 /\ newsz > 0 THEN newsz ELSE @]
         /\ Enter(p, IF n < 0 /\ newsz = 0 THEN [j EXCEPT !.pc = "lost", !.ok = FALSE, !.a = -n]
                     ELSE IF n <= 0 THEN [j EXCEPT !.pc = "ret"]
                     ELSE IF newsz >= KERNBASE THEN [j EXCEPT !.pc = "ret", !.ok = FALSE]
                     ELSE [j EXCEPT !.pc = "map", !.a = PGROUNDUP(sz[p]), !.to = newsz])
  /\ UNCHANGED <<pipe, kstack, st, parent, new, page>>

\* allocproc(): the first unused slot and a kernel stack, if there are both.
Fork(p) ==
  /\ Ready(p)
  /\ LET slots == {q \in Procs : st[q] = "unused"}
         got == IF slots = {} THEN {} ELSE Kalloc
         q == Min(slots)
         j == [NoJob EXCEPT !.call = "fork"]
     IN  IF got = {} THEN Enter(p, [j EXCEPT !.pc = "ret", !.ok = FALSE]) /\ UNCHANGED <<free, mem, kstack, st>>
         ELSE /\ SetM(Take(got, "data"))
              /\ kstack' = [kstack EXCEPT ![q] = Min(got)]
              /\ st' = [st EXCEPT ![q] = "embryo"]
              /\ Enter(p, [j EXCEPT !.pc = "dir", !.q = q])
  /\ UNCHANGED <<pipe, pd, sz, parent, new, page>>

\* exec() of an image of s units, if its header is good.
Exec(p, s, good) ==
  /\ Ready(p)
  /\ LET j == [NoJob EXCEPT !.call = "exec", !.img = s]
     IN  Enter(p, IF good THEN [j EXCEPT !.pc = "dir"] ELSE [j EXCEPT !.pc = "ret", !.ok = FALSE])
  /\ UNCHANGED <<free, mem, pipe, pd, sz, kstack, st, parent, new, page>>

----------------------------------------------------------------------------
\* Building a page table.

\* The kernel stack that a failed fork() frees.
StackOf(p) == IF job[p].call = "fork" THEN {kstack[job[p].q]} ELSE {}

\* Mutant: the page is kept when there is none for its page table.
PageOf_Kept(p) == {}

\* kfree(mem), when mappages() fails.
PageOf(p) == {page[p]} \ {0}

\* goto bad: freevm() of what was built, and fork() gives the slot back.
Bad(p) ==
  LET j == job[p]
  IN  /\ SetM(Kfree(M, FramesOf(new[p]) \cup StackOf(p) \cup PageOf(p)))
      /\ new' = [new EXCEPT ![p] = NoTable] /\ page' = [page EXCEPT ![p] = 0]
      /\ kstack' = IF j.call = "fork" THEN [kstack EXCEPT ![j.q] = 0] ELSE kstack
      /\ st' = IF j.call = "fork" THEN [st EXCEPT ![j.q] = "unused"] ELSE st
      /\ Result(p, FALSE)
      /\ UNCHANGED <<pd, sz>>

\* setupkvm(): the directory, then the tables of the kernel's mappings.
Setupkvm(p) ==
  /\ job[p].pc = "dir"
  /\ LET got == Kalloc
         t == new[p]
         t1 == IF t.dir = 0 THEN [t EXCEPT !.dir = Min(got)] ELSE [t EXCEPT !.ktab = @ \cup got]
     IN  IF got = {} THEN Bad(p)
         ELSE /\ SetM(Take(got, "zero"))
              /\ new' = [new EXCEPT ![p] = t1]
              /\ IF Cardinality(t1.ktab) < KTABS THEN UNCHANGED job
                 ELSE IF job[p].call = "fork" THEN Goto(p, "copy")
                 ELSE job' = [job EXCEPT ![p].pc = "load", ![p].to = job[p].img]
              /\ UNCHANGED <<pd, sz, kstack, st, page>>
  /\ UNCHANGED <<pipe, parent, calls>>

\* Mutant: pages got before the failure are kept.
Undo_Nothing(p) == UNCHANGED <<free, mem, pd, page>>

\* allocuvm() fails for growproc(): deallocuvm() of what this call had added.
Undo(p) ==
  LET gone == Above(pd[p], sz[p], job[p].to)
  IN  /\ SetM(Kfree(M, PagesAt(pd[p], gone) \cup PageOf(p)))
      /\ pd' = [pd EXCEPT ![p] = Deallocuvm(@, gone)] /\ page' = [page EXCEPT ![p] = 0]

Fail(p) ==
  IF job[p].pc = "map" THEN Undo(p) /\ Result(p, FALSE) /\ UNCHANGED <<sz, kstack, st, new>> ELSE Bad(p)

\* The loop of copyuvm(), of growproc()'s allocuvm() or of exec()'s has another turn.
More(p) ==
  \/ job[p].pc = "copy" /\ job[p].a < sz[p]
  \/ job[p].pc = "map" /\ job[p].a < job[p].to
  \/ job[p].pc \in {"load", "stack"} /\ job[p].to < KERNBASE /\ job[p].a < job[p].to

At(p) == job[p].a \div PG

\* What is put into the page: a copy, the program, or zeroes.
Fill(p) ==
  IF job[p].pc = "copy" THEN mem[pd[p].pg[At(p)]] ELSE IF job[p].pc = "load" THEN "text" ELSE "zero"

\* A turn gets its page.
KallocPage(p) ==
  /\ More(p) /\ page[p] = 0
  /\ IF Kalloc = {} THEN Fail(p)
     ELSE /\ SetM(Take(Kalloc, Fill(p))) /\ page' = [page EXCEPT ![p] = Min(Kalloc)]
          /\ UNCHANGED <<pd, sz, kstack, st, new, job>>
  /\ UNCHANGED <<pipe, parent, calls>>

\* mappages() puts it into the table; walkpgdir() may need a page table first.
Mappages(p) ==
  /\ page[p] # 0
  /\ LET old == IF job[p].pc = "map" THEN pd[p] ELSE new[p]
         got == IF PDX(At(p)) \in DOMAIN old.tab THEN {} ELSE Kalloc
         t == Mapped(old, At(p), page[p], got)
     IN  IF PDX(At(p)) \notin DOMAIN old.tab /\ got = {} THEN Fail(p)
         ELSE /\ SetM(Take(got, "zero")) /\ page' = [page EXCEPT ![p] = 0]
              /\ IF job[p].pc = "map" THEN pd' = [pd EXCEPT ![p] = t] /\ UNCHANGED new
                 ELSE /\ UNCHANGED pd
                      /\ new' = [new EXCEPT ![p] = IF job[p].pc = "copy" /\ At(p) \in pd[p].nouser
                                                   THEN [t EXCEPT !.nouser = @ \cup {At(p)}] ELSE t]
              /\ job' = [job EXCEPT ![p].a = @ + PG] /\ UNCHANGED <<sz, kstack, st>>
  /\ UNCHANGED <<pipe, parent, calls>>

\* copyuvm() returns.
Copyuvm(p) ==
  /\ job[p].pc = "copy" /\ job[p].a >= sz[p]
  /\ Goto(p, "start")
  /\ UNCHANGED <<free, mem, pipe, pd, sz, kstack, st, parent, new, page, calls>>

\* The rest of fork(): the child becomes runnable.
ForkEnd(p) ==
  /\ job[p].pc = "start"
  /\ LET q == job[p].q
     IN  /\ pd' = [pd EXCEPT ![q] = new[p]]
         /\ sz' = [sz EXCEPT ![q] = sz[p]]
         /\ parent' = [parent EXCEPT ![q] = p]
         /\ st' = [st EXCEPT ![q] = "run"]
  /\ new' = [new EXCEPT ![p] = NoTable]
  /\ Result(p, TRUE)
  /\ UNCHANGED <<free, mem, pipe, kstack, page, calls>>

\* growproc() has what it needs.
Grow(p) ==
  /\ job[p].pc = "map" /\ job[p].a >= job[p].to
  /\ sz' = [sz EXCEPT ![p] = job[p].to] /\ Result(p, TRUE)
  /\ UNCHANGED <<free, mem, pipe, pd, kstack, st, parent, new, page, calls>>

\* exec()'s allocuvm() refuses a size, or returns: after the image loaduvm() may find
\* the file too short, and two pages are added at the next page boundary.
Load(p) ==
  /\ job[p].pc \in {"load", "stack"}
  /\ LET top == PGROUNDUP(job[p].to)
     IN  \/ job[p].to >= KERNBASE /\ Bad(p)
         \/ job[p].to < KERNBASE /\ job[p].a >= job[p].to /\ job[p].pc = "load" /\ Bad(p)
         \/ /\ job[p].to < KERNBASE /\ job[p].a >= job[p].to
            /\ job' = [job EXCEPT ![p].pc = IF @ = "load" THEN "stack" ELSE "args", ![p].a = top,
                                  ![p].to = IF job[p].pc = "load" THEN top + 2 * PG ELSE top]
            /\ UNCHANGED <<free, mem, pd, sz, kstack, st, new, page>>
  /\ UNCHANGED <<pipe, parent, calls>>

\* clearpteu() below the stack; the arguments fit or do not; the new image is
\* committed and the old one freed.
ExecEnd(p) ==
  /\ job[p].pc = "args"
  /\ \/ Bad(p)
     \/ /\ pd' = [pd EXCEPT ![p] = [new[p] EXCEPT !.nouser = {job[p].to \div PG - 2}]]
        /\ sz' = [sz EXCEPT ![p] = job[p].to]
        /\ SetM(Kfree(M, FramesOf(pd[p])))
        /\ new' = [new EXCEPT ![p] = NoTable]
        /\ Result(p, TRUE) /\ UNCHANGED <<kstack, st, page>>
  /\ UNCHANGED <<pipe, parent, calls>>

----------------------------------------------------------------------------
\* exit() hands the children to init; a program that has lost its memory faults, and
\* trap() ends it.  wait() frees a dead child's memory.
Exit(p) ==
  /\ p # 1 /\ st[p] = "run" /\ job[p].pc \in {"idle", "lost"}
  /\ st' = [st EXCEPT ![p] = "zombie"] /\ job' = [job EXCEPT ![p] = NoJob]
  /\ parent' = [q \in Procs |-> IF parent[q] = p THEN 1 ELSE parent[q]]
  /\ UNCHANGED <<free, mem, pipe, pd, sz, kstack, new, page, calls>>

Wait(p, q) ==
  /\ Idle(p) /\ st[q] = "zombie" /\ parent[q] = p
  /\ SetM(Kfree(M, FramesOf(pd[q]) \cup {kstack[q]}))
  /\ pd' = [pd EXCEPT ![q] = NoTable] /\ kstack' = [kstack EXCEPT ![q] = 0] /\ sz' = [sz EXCEPT ![q] = 0]
  /\ st' = [st EXCEPT ![q] = "unused"] /\ parent' = [parent EXCEPT ![q] = 0]
  /\ UNCHANGED <<pipe, new, page, job, calls>>

\* The program writes to a page it may use.
Store(p, v) ==
  /\ Idle(p) /\ v \in DOMAIN pd[p].pg \ pd[p].nouser
  /\ mem' = [mem EXCEPT ![pd[p].pg[v]] = "data"]
  /\ UNCHANGED <<free, pipe, pd, sz, kstack, st, parent, new, page, job, calls>>

\* pipealloc() and pipeclose() of whatever other process.
PipeTakes ==
  /\ Cardinality(pipe) < MaxPipes /\ free # {}
  /\ SetM(Take(Kalloc, "data")) /\ pipe' = pipe \cup Kalloc
  /\ UNCHANGED <<pd, sz, kstack, st, parent, new, page, job, calls>>

PipeGives ==
  /\ pipe # {}
  /\ SetM(Kfree(M, {Min(pipe)})) /\ pipe' = pipe \ {Min(pipe)}
  /\ UNCHANGED <<pd, sz, kstack, st, parent, new, page, job, calls>>

\* userinit() and inituvm(): process 1 with one page.
MemInit ==
  /\ LET k == 3 + KTABS
         t == [dir |-> 2, ktab |-> 3..(2 + KTABS), tab |-> [x \in {0} |-> k], pg |-> [x \in {0} |-> k + 1], nouser |-> {}]
     IN  /\ pd = [p \in Procs |-> IF p = 1 THEN t ELSE NoTable]
         /\ free = Frames \ 1..(k + 1)
         /\ mem = [f \in Frames |-> IF f = k + 1 THEN "text" ELSE IF f <= k THEN "zero" ELSE "junk"]
  /\ pipe = {} /\ calls \in {MaxCalls, 0}
  /\ sz = [p \in Procs |-> IF p = 1 THEN PG ELSE 0]
  /\ kstack = [p \in Procs |-> IF p = 1 THEN 1 ELSE 0]
  /\ st = [p \in Procs |-> IF p = 1 THEN "run" ELSE "unused"]
  /\ parent = [p \in Procs |-> 0]
  /\ new = [p \in Procs |-> NoTable] /\ page = [p \in Procs |-> 0] /\ job = [p \in Procs |-> NoJob]

MemStep(p) ==
  \/ Return(p) \/ Setupkvm(p) \/ KallocPage(p) \/ Mappages(p) \/ Copyuvm(p) \/ ForkEnd(p) \/ Grow(p) \/ Load(p)
  \/ ExecEnd(p) \/ Exit(p) \/ Fork(p)
  \/ \E n \in SbrkArgs : Sbrk(p, n)
  \/ \E q \in Procs : Wait(p, q)
  \/ \E s \in ImageSizes, good \in BOOLEAN : Exec(p, s, good)
  \/ \E v \in Pages : Store(p, v)

MemNext == PipeTakes \/ PipeGives \/ \E p \in Procs : MemStep(p)

MemSpec == MemInit /\ [][MemNext]_memvars

----------------------------------------------------------------------------
\* Who has pages, and which.
Users == {<<"free", 0>>, <<"pipe", 0>>} \cup {"table", "new", "page", "stack"} \X Procs
Held(u) ==
  CASE u[1] = "free" -> free
    [] u[1] = "pipe" -> pipe
    [] u[1] = "table" -> FramesOf(pd[u[2]])
    [] u[1] = "new" -> FramesOf(new[u[2]])
    [] u[1] = "page" -> PageOf(u[2])
    [] u[1] = "stack" -> {kstack[u[2]]} \ {0}

\* No page is in two places of a page table.
NoAlias(t) ==
  /\ IsInjective(t.tab) /\ IsInjective(t.pg)
  /\ t.dir \notin t.ktab \cup Range(t.tab) \cup Range(t.pg)
  /\ t.ktab \cap Range(t.tab) = {} /\ (t.ktab \cup Range(t.tab)) \cap Range(t.pg) = {}

\* At every moment, in the middle of any call: each page of memory is on the free
\* list or in exactly one use, so nothing leaks, is shared or is freed twice.
PagesOwnedOnce ==
  /\ UNION {Held(u) : u \in Users} = Frames
  /\ \A u, x \in Users : u # x => Held(u) \cap Held(x) = {}
  /\ \A p \in Procs : NoAlias(pd[p]) /\ NoAlias(new[p])

\* A call that fails leaves the caller's memory as it was, but for sbrk() of all the
\* memory there is, which gives every page back and then fails (proc.c:169); a child
\* starts with its parent's memory; no program finds a page that was freed.
MemoryIsKept ==
  \A p \in Procs :
    /\ job[p].pc = "ret" /\ ~job[p].ok => View(p) = job[p].old
    /\ job[p].pc = "lost" => job[p].a = sz[p] /\ DOMAIN pd[p].pg = {}
    /\ job[p].pc = "start" => [v \in DOMAIN new[p].pg |-> mem[new[p].pg[v]]] = View(p).pg
    /\ \A v \in DOMAIN pd[p].pg : mem[pd[p].pg[v]] # "junk"
    /\ Idle(p) => DOMAIN pd[p].pg = {v \in Pages : v * PG < sz[p]}
=============================================================================
