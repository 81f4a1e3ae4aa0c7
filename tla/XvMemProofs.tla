---------------------------- MODULE XvMemProofs -----------------------------
(***************************************************************************)
(* Proofs about XvMem for any number of processes, of pages of memory, of  *)
(* pages of a process and of page tables, and any images and sbrk()s: each *)
(* page has one owner at every moment, and the memory of a process is its  *)
(* own.  Who owns what needs to know how far each loop has come            *)
(* (SizeOK: a page that is mapped twice is lost) and which slot a fork()   *)
(* fills (SlotInv); what is in the pages (DataOK) needs all of it.         *)
(***************************************************************************)
EXTENDS XvMem, FiniteSetTheorems, NatFacts

Contents == {"junk", "zero", "data", "text"}
Maps(S) == UNION {[D -> Frames] : D \in SUBSET S}
Tabs == {PDX(v) : v \in Pages}
Table == [dir : 0 .. NFRAME, ktab : SUBSET Frames, tab : Maps(Tabs), pg : Maps(Pages), nouser : SUBSET Int]
Images == [sz : Nat, pg : UNION {[D -> Contents] : D \in SUBSET Pages}]
Building == {"dir", "copy", "start", "load", "stack", "args"}
Job == [call : {"none", "sbrk", "fork", "exec"}, pc : Building \cup {"idle", "ret", "lost", "map"}, a : Nat, to : Nat,
        q : 0 .. NPROC, img : Nat, ok : BOOLEAN, old : Images \cup {<<>>}]

MemTypes ==
  /\ free \subseteq Frames /\ pipe \subseteq Frames /\ mem \in [Frames -> Contents]
  /\ pd \in [Procs -> Table] /\ new \in [Procs -> Table] /\ job \in [Procs -> Job]
  /\ sz \in [Procs -> Nat] /\ kstack \in [Procs -> 0 .. NFRAME] /\ page \in [Procs -> 0 .. NFRAME]
  /\ st \in [Procs -> {"unused", "embryo", "run", "zombie"}]

\* p is in a fork(), and has a slot for the child.
InFork(p) == job[p].pc \in Building /\ job[p].call = "fork"

\* Which slots have memory; the embryo a fork() fills is its own.
SlotInv ==
  /\ \A p \in Procs : job[p].pc # "idle" => st[p] = "run"
  /\ \A p \in Procs : job[p].pc \notin Building => new[p] = NoTable
  /\ \A p \in Procs : InFork(p) => job[p].q \in Procs /\ st[job[p].q] = "embryo"
  /\ \A p, x \in Procs : InFork(p) /\ InFork(x) /\ job[p].q = job[x].q => p = x
  /\ \A p \in Procs : job[p].pc = "dir" => job[p].call \in {"fork", "exec"}
  /\ \A p \in Procs : job[p].pc \in {"copy", "start"} => job[p].call = "fork"
  /\ \A p \in Procs : job[p].pc \in {"load", "stack", "args"} => job[p].call = "exec"
  /\ \A p \in Procs : st[p] \in {"unused", "embryo"} => pd[p] = NoTable
  /\ \A p \in Procs : kstack[p] = 0 <=> st[p] = "unused"
  /\ \A p \in Procs : st[p] # "run" => page[p] = 0

\* The user pages below n.
Below(n) == {v \in Pages : v * PG < n}
Even(n) == n % PG = 0

\* What is mapped, when the loop of call j of a process with table pd, table new in
\* the making and size n has come as far as j.a.
SizeOK(j, old, made, n) ==
  /\ n <= KERNBASE
  /\ j.pc \notin {"map", "lost"} => DOMAIN old = Below(n)
  /\ j.pc = "lost" => DOMAIN old = {} /\ j.a = n
  /\ j.pc = "map" => /\ DOMAIN old = Below(j.a) /\ Even(j.a) /\ n <= j.a /\ n <= j.to
                     /\ j.a < j.to + PG /\ j.to <= KERNBASE
  /\ j.pc \in Building => DOMAIN made = Below(j.a) /\ Even(j.a)
  /\ j.pc = "dir" => j.a = 0
  /\ j.pc \in {"copy", "start"} => j.a < n + PG
  /\ j.pc = "start" => n <= j.a
  /\ j.pc \in {"load", "stack"} => j.a < j.to + PG
  /\ j.pc = "stack" => Even(j.to)
  /\ j.pc = "args" => j.a = j.to /\ j.to <= KERNBASE

\* While a call can still fail the caller's memory is what it was; a copy is the same
\* as the original.
DataOK(j, old, made, n, m) ==
  /\ j.pc \in Building \cup {"map"} \/ (j.pc = "ret" /\ ~j.ok) =>
       j.old = [sz |-> n, pg |-> [v \in Below(n) |-> m[old[v]]]]
  /\ j.pc \in {"copy", "start"} => \A v \in DOMAIN made : m[made[v]] = m[old[v]]

\* A page is taken for the turn that the loop has come to, and a copy is made at once.
PageOK(p) ==
  page[p] # 0 => /\ More(p)
                 /\ job[p].pc = "copy" => mem[page[p]] = mem[pd[p].pg[At(p)]]

Fine(p) ==
  /\ SizeOK(job[p], pd[p].pg, new[p].pg, sz[p])
  /\ DataOK(job[p], pd[p].pg, new[p].pg, sz[p], mem)
  /\ PageOK(p)
CallInv == \A p \in Procs : st[p] = "run" => Fine(p)

\* A page that is not free is not junk.
NoJunk == \A f \in Frames \ free : mem[f] # "junk"

MemInv == MemTypes /\ PagesOwnedOnce /\ SlotInv /\ CallInv /\ NoJunk
-----------------------------------------------------------------------------
(* Numbers, page tables and the free list *)

\* The constants without the assumptions that matter to init only.
LEMMA MemConsts ==
  /\ NPROC \in Nat \ {0} /\ NFRAME \in Nat /\ NPAGE \in Nat \ {0} /\ PERTAB \in Nat \ {0} /\ KTABS \in Nat
  /\ ImageSizes \subseteq Nat /\ SbrkArgs \subseteq Int
  BY MemAssumption

\* PGROUNDUP() goes to the next page boundary.
LEMMA Round ==
  ASSUME NEW n \in Nat
  PROVE  PGROUNDUP(n) \in Nat /\ Even(PGROUNDUP(n)) /\ n <= PGROUNDUP(n) /\ PGROUNDUP(n) < n + PG
  BY DEF PGROUNDUP, PG, Even

\* A size and the page boundary above it have the same pages below them.
LEMMA BelowEven ==
  ASSUME NEW a \in Nat, NEW n \in Nat, Even(a), n <= a, a < n + PG
  PROVE  Below(a) = Below(n)
<1>1. \A v \in Pages : v * PG < a <=> v * PG < n
  BY DEF Even, PG, Pages
<1> QED
  BY <1>1 DEF Below

\* The page at a is the next one.
LEMMA BelowNext ==
  ASSUME NEW a \in Nat, Even(a), a < KERNBASE
  PROVE  /\ a \div PG \in Pages \ Below(a) /\ Below(a + PG) = Below(a) \cup {a \div PG}
         /\ a + PG \in Nat /\ Even(a + PG)
<1>1. PICK k \in Nat : a = 2 * k /\ a \div PG = k
  BY DEF Even, PG
<1>2. k \in Pages
  BY <1>1, MemConsts DEF KERNBASE, PG, Pages
<1>3. \A v \in Pages : v * PG < a + PG <=> v * PG < a \/ v = k
  BY <1>1 DEF PG, Pages
<1>4. ~(k * PG < a)
  BY <1>1 DEF PG
<1>5. Below(a + PG) = Below(a) \cup {k}
  BY <1>2, <1>3 DEF Below
<1>6. k \notin Below(a)
  BY <1>4 DEF Below
<1>7. a + PG \in Nat /\ Even(a + PG)
  BY DEF Even, PG
<1> QED
  BY <1>1, <1>2, <1>5, <1>6, <1>7

\* The maps of a page table.
LEMMA MapIs ==
  ASSUME NEW f, NEW S
  PROVE  f \in Maps(S) <=> /\ f = [x \in DOMAIN f |-> f[x]] /\ DOMAIN f \subseteq S
                           /\ \A x \in DOMAIN f : f[x] \in Frames
  BY DEF Maps

\* The parts of a page table.
LEMMA TableIs ==
  ASSUME NEW t \in Table
  PROVE  /\ t.dir \in 0 .. NFRAME /\ t.ktab \subseteq Frames /\ t.tab \in Maps(Tabs) /\ t.pg \in Maps(Pages) /\ t.nouser \subseteq Int
         /\ FramesOf(t) \subseteq Frames
         /\ \A v \in DOMAIN t.pg : t.pg[v] \in FramesOf(t)
<1>1. /\ t.dir \in 0 .. NFRAME /\ t.ktab \subseteq Frames /\ t.tab \in Maps(Tabs) /\ t.pg \in Maps(Pages) /\ t.nouser \subseteq Int
  BY DEF Table
<1>2. Range(t.tab) \subseteq Frames /\ Range(t.pg) \subseteq Frames
  BY <1>1, MapIs DEF Range
<1>3. t.dir # 0 => t.dir \in Frames
  BY <1>1, MemConsts DEF Frames
<1>4. \A v \in DOMAIN t.pg : t.pg[v] \in FramesOf(t)
  BY DEF FramesOf, Range
<1> QED
  BY <1>1, <1>2, <1>3, <1>4 DEF FramesOf

\* The empty table.
LEMMA NoTableIs ==
  /\ NoTable \in Table /\ FramesOf(NoTable) = {} /\ NoAlias(NoTable)
  /\ NoTable.dir = 0 /\ NoTable.pg = << >> /\ DOMAIN NoTable.pg = {}
<1>1. DOMAIN << >> = {} /\ << >> \in [{} -> Frames]
  OBVIOUS
<1>2. << >> \in Maps(Tabs) /\ << >> \in Maps(Pages)
  BY <1>1, Zenon DEF Maps
<1>3. Range(<< >>) = {} /\ IsInjective(<< >>)
  BY <1>1, Zenon DEF Range, IsInjective
<1>4. NoTable \in Table
  BY <1>2, MemConsts DEF NoTable, Table
<1>5. NoTable.dir = 0 /\ NoTable.ktab = {} /\ NoTable.tab = << >> /\ NoTable.pg = << >>
  BY DEF NoTable
<1> QED
  BY <1>1, <1>3, <1>4, <1>5, Zenon DEF FramesOf, NoAlias

\* What mappages() of page v into t gets: the page, and a page table if needed.
Fits(t, v, f, got) ==
  /\ f \in Frames \ FramesOf(t)
  /\ IF PDX(v) \in DOMAIN t.tab THEN got = {}
     ELSE \E y \in Frames \ FramesOf(t) : got = {y} /\ y # f

\* g is f with one point more, or with fewer.
Added(g, f, x, y) ==
  /\ DOMAIN g = DOMAIN f \cup {x} /\ g[x] = y /\ \A z \in DOMAIN f : g[z] = f[z]
  /\ Range(g) = Range(f) \cup {y}
  /\ IsInjective(f) /\ y \notin Range(f) => IsInjective(g)
Dropped(g, f, vs) ==
  /\ DOMAIN g = DOMAIN f \ vs /\ \A z \in DOMAIN g : g[z] = f[z]
  /\ Range(g) = Range(f) \ {f[v] : v \in vs} /\ IsInjective(g)

\* Adding one point to a map.
LEMMA AddIs ==
  ASSUME NEW S, NEW f \in Maps(S), NEW x \in S, NEW y \in Frames, x \notin DOMAIN f
  PROVE  Add(f, x, y) \in Maps(S) /\ Added(Add(f, x, y), f, x, y)
<1> DEFINE g == Add(f, x, y)
<1>1. /\ DOMAIN g = DOMAIN f \cup {x} /\ g[x] = y /\ \A z \in DOMAIN f : g[z] = f[z]
      /\ g = [z \in DOMAIN g |-> g[z]]
  BY DEF Add
<1>2. /\ DOMAIN f \subseteq S /\ \A z \in DOMAIN f : f[z] \in Frames
  BY MapIs
<1> HIDE DEF g
<1>3. g \in Maps(S)
  BY <1>1, <1>2, MapIs
<1>4. Range(g) = Range(f) \cup {y}
  BY <1>1 DEF Range
<1>5. ASSUME IsInjective(f), y \notin Range(f) PROVE IsInjective(g)
  BY <1>1, <1>5 DEF Range, IsInjective
<1> QED
  BY <1>1, <1>3, <1>4, <1>5 DEF g, Added

\* Taking points from a map.
LEMMA DropIs ==
  ASSUME NEW S, NEW f \in Maps(S), NEW vs \in SUBSET DOMAIN f, IsInjective(f)
  PROVE  Drop(f, vs) \in Maps(S) /\ Dropped(Drop(f, vs), f, vs)
<1> DEFINE g == Drop(f, vs)
<1>1. /\ DOMAIN g = DOMAIN f \ vs /\ \A z \in DOMAIN f \ vs : g[z] = f[z]
      /\ g = [z \in DOMAIN g |-> g[z]]
  BY DEF Drop
<1>2. /\ DOMAIN f \subseteq S /\ \A z \in DOMAIN f : f[z] \in Frames
  BY MapIs
<1> HIDE DEF g
<1>3. g \in Maps(S)
  BY <1>1, <1>2, MapIs
<1>4. \A z \in DOMAIN f \ vs, v \in vs : f[z] # f[v]
  BY DEF IsInjective
<1>5. Range(g) = Range(f) \ {f[v] : v \in vs}
  BY <1>1, <1>4 DEF Range
<1>6. IsInjective(g)
  BY <1>1 DEF IsInjective
<1> QED
  BY <1>1, <1>3, <1>5, <1>6 DEF g, Dropped

\* The least of one number.
LEMMA Only ==
  ASSUME NEW x \in Nat
  PROVE  Min({x}) = x
  BY DEF Min

\* mappages() of one page.
LEMMA MappedIs ==
  ASSUME NEW t \in Table, NoAlias(t), NEW v \in Pages, v \notin DOMAIN t.pg, NEW x, NEW got, Fits(t, v, x, got)
  PROVE  /\ Mapped(t, v, x, got) \in Table /\ NoAlias(Mapped(t, v, x, got))
         /\ FramesOf(Mapped(t, v, x, got)) = FramesOf(t) \cup {x} \cup got
         /\ Added(Mapped(t, v, x, got).pg, t.pg, v, x) /\ Mapped(t, v, x, got).nouser = t.nouser
<1> DEFINE u == Mapped(t, v, x, got)
           y == Min(got)
           T == IF got = {} THEN t.tab ELSE Add(t.tab, PDX(v), y)
           P == Add(t.pg, v, x)
<1>1. /\ u.dir = t.dir /\ u.ktab = t.ktab /\ u.nouser = t.nouser /\ u.pg = P /\ u.tab = T
      /\ u = [dir |-> u.dir, ktab |-> u.ktab, tab |-> u.tab, pg |-> u.pg, nouser |-> u.nouser]
  <2>1. PICK a, b, c, d, e : t = [dir |-> a, ktab |-> b, tab |-> c, pg |-> d, nouser |-> e]
    BY DEF Table
  <2>2. u = [t EXCEPT !.pg = P, !.tab = T]
    BY DEF Mapped
  <2> HIDE DEF P, T, u
  <2> QED
    BY <2>1, <2>2
<1>2. /\ t.dir \in 0 .. NFRAME /\ t.ktab \subseteq Frames /\ t.tab \in Maps(Tabs) /\ t.pg \in Maps(Pages)
      /\ t.nouser \subseteq Int
  BY TableIs
<1>3. /\ x \in Frames /\ x \notin FramesOf(t) /\ got \subseteq Frames /\ got \cap FramesOf(t) = {} /\ x \notin got
      /\ PDX(v) \in Tabs
      /\ IF PDX(v) \in DOMAIN t.tab THEN got = {} ELSE got = {y}
  <2>1. PDX(v) \in Tabs
    BY DEF Tabs
  <2>2. CASE PDX(v) \in DOMAIN t.tab
    BY <2>1, <2>2 DEF Fits
  <2>3. CASE PDX(v) \notin DOMAIN t.tab
    <3>1. PICK z \in Frames \ FramesOf(t) : got = {z} /\ z # x
      BY <2>3 DEF Fits
    <3>2. z \in Nat
      BY <3>1, MemConsts DEF Frames
    <3>3. y = z
      BY <3>1, <3>2, Only
    <3> HIDE DEF y
    <3> QED
      BY <2>1, <2>3, <3>1, <3>3 DEF Fits
  <2> QED
    BY <2>2, <2>3
<1> HIDE DEF u, y
<1>4. /\ P \in Maps(Pages) /\ Added(P, t.pg, v, x) /\ Range(P) = Range(t.pg) \cup {x} /\ IsInjective(P)
  <2>1. x \in Frames /\ x \notin Range(t.pg)
    BY <1>3 DEF FramesOf
  <2>2. P \in Maps(Pages) /\ Added(P, t.pg, v, x)
    BY <1>2, <2>1, AddIs, Zenon
  <2> QED
    BY <2>1, <2>2, Zenon DEF Added, NoAlias
<1>5. /\ T \in Maps(Tabs) /\ IsInjective(T) /\ Range(T) = Range(t.tab) \cup got
  <2>1. CASE PDX(v) \in DOMAIN t.tab
    BY <1>2, <1>3, <2>1 DEF NoAlias
  <2>2. CASE PDX(v) \notin DOMAIN t.tab
    <3>1. y \in Frames /\ y \notin Range(t.tab) /\ got # {}
      BY <1>3, <2>2 DEF FramesOf
    <3> DEFINE A == Add(t.tab, PDX(v), y)
    <3>2. A \in Maps(Tabs) /\ Added(A, t.tab, PDX(v), y)
      BY <1>2, <1>3, <2>2, <3>1, AddIs, Zenon
    <3> HIDE DEF A
    <3>3. IsInjective(A) /\ Range(A) = Range(t.tab) \cup {y}
      BY <3>1, <3>2, Zenon DEF Added, NoAlias
    <3> QED
      BY <1>3, <2>2, <3>1, <3>2, <3>3 DEF A
  <2> QED
    BY <2>1, <2>2
<1> HIDE DEF P, T
<1>6. u \in Table
  BY <1>1, <1>2, <1>4, <1>5, Zenon DEF Table
<1>7. FramesOf(u) = FramesOf(t) \cup {x} \cup got
  BY <1>1, <1>4, <1>5 DEF FramesOf
<1>8. NoAlias(u)
  <2>0. t.dir \notin got /\ t.dir # x
    BY <1>2, <1>3, MemConsts DEF FramesOf, Frames
  <2>1. u.dir \notin u.ktab \cup Range(u.tab) \cup Range(u.pg)
    BY <1>1, <1>2, <1>3, <1>4, <1>5, <2>0 DEF NoAlias
  <2>2. u.ktab \cap Range(u.tab) = {}
    BY <1>1, <1>3, <1>5 DEF NoAlias, FramesOf
  <2>3. (u.ktab \cup Range(u.tab)) \cap Range(u.pg) = {}
    BY <1>1, <1>3, <1>4, <1>5 DEF NoAlias, FramesOf
  <2> QED
    BY <1>1, <1>4, <1>5, <2>1, <2>2, <2>3, Zenon DEF NoAlias
<1> QED
  BY <1>1, <1>4, <1>6, <1>7, <1>8 DEF u

\* deallocuvm() of some pages.
LEMMA DroppedIs ==
  ASSUME NEW t \in Table, NoAlias(t), NEW vs \in SUBSET DOMAIN t.pg
  PROVE  /\ Deallocuvm(t, vs) \in Table /\ NoAlias(Deallocuvm(t, vs))
         /\ FramesOf(Deallocuvm(t, vs)) = FramesOf(t) \ PagesAt(t, vs) /\ PagesAt(t, vs) \subseteq FramesOf(t)
         /\ Dropped(Deallocuvm(t, vs).pg, t.pg, vs)
<1> DEFINE u == Deallocuvm(t, vs)
           P == Drop(t.pg, vs)
<1>1. /\ u.dir = t.dir /\ u.ktab = t.ktab /\ u.nouser = t.nouser \ vs /\ u.pg = P /\ u.tab = t.tab
      /\ u = [dir |-> u.dir, ktab |-> u.ktab, tab |-> u.tab, pg |-> u.pg, nouser |-> u.nouser]
  <2>1. PICK a, b, c, d, e : t = [dir |-> a, ktab |-> b, tab |-> c, pg |-> d, nouser |-> e]
    BY DEF Table
  <2>2. u = [t EXCEPT !.pg = P, !.nouser = @ \ vs]
    BY DEF Deallocuvm
  <2> HIDE DEF P, u
  <2> QED
    BY <2>1, <2>2
<1>2. /\ t.dir \in 0 .. NFRAME /\ t.ktab \subseteq Frames /\ t.tab \in Maps(Tabs) /\ t.pg \in Maps(Pages)
      /\ t.nouser \subseteq Int
  BY TableIs
<1> HIDE DEF u
<1>3. /\ P \in Maps(Pages) /\ Dropped(P, t.pg, vs) /\ Range(P) = Range(t.pg) \ PagesAt(t, vs) /\ IsInjective(P)
  <2>1. IsInjective(t.pg)
    BY DEF NoAlias
  <2>2. P \in Maps(Pages) /\ Dropped(P, t.pg, vs)
    BY <1>2, <2>1, DropIs, Zenon
  <2> HIDE DEF P
  <2> QED
    BY <2>2, Zenon DEF Dropped, PagesAt
<1> HIDE DEF P
<1>4. u \in Table
  <2>1. u.nouser \subseteq Int
    BY <1>1, <1>2
  <2> QED
    BY <1>1, <1>2, <1>3, <2>1, Zenon DEF Table
<1>5. PagesAt(t, vs) \subseteq Range(t.pg)
  BY DEF PagesAt, Range
<1>6. FramesOf(u) = FramesOf(t) \ PagesAt(t, vs)
  BY <1>1, <1>3, <1>5 DEF FramesOf, NoAlias
<1>7. NoAlias(u)
  BY <1>1, <1>3 DEF NoAlias
<1> QED
  BY <1>1, <1>3, <1>4, <1>5, <1>6, <1>7 DEF u, FramesOf

\* The least of a set of numbers is one of them.
LEMMA MinIsIn ==
  ASSUME NEW S, S \subseteq Nat, S # {}
  PROVE  Min(S) \in S
<1>1. \E m \in S : \A n \in S : m <= n
  BY LeastElement
<1> QED
  BY <1>1 DEF Min

\* A page from the free list, if there is one.
LEMMA KallocOne ==
  ASSUME free \subseteq Frames
  PROVE  Kalloc = {} \/ \E x \in free : Kalloc = {x} /\ Min(Kalloc) = x
<1> SUFFICES ASSUME free # {} PROVE \E x \in free : Kalloc = {x} /\ Min(Kalloc) = x
  BY DEF Kalloc
<1>1. free \subseteq Nat
  BY MemConsts DEF Frames
<1>2. PICK x \in free : x = Min(free)
  BY <1>1, MinIsIn
<1>3. Kalloc = {x}
  BY <1>2 DEF Kalloc
<1>4. x \in Nat
  BY <1>1
<1>5. Min({x}) = x
  BY <1>4, Only
<1> QED
  BY <1>3, <1>5

\* kfree() and kalloc() of sets of pages: pages that stay in use keep their contents,
\* and what is in use is not junk.
Keeps == \A f \in Frames : f \notin free /\ f \notin free' => mem'[f] = mem[f]

\* kfree() fills what it frees with junk, and nothing else changes.
LEMMA Freeing ==
  ASSUME MemTypes, NoJunk, NEW S \in SUBSET Frames, SetM(Kfree(M, S))
  PROVE  free' = free \cup S /\ free' \subseteq Frames /\ mem' \in [Frames -> Contents] /\ Keeps /\ NoJunk'
<1>1. free' = free \cup S /\ mem' = [f \in Frames |-> IF f \in S THEN "junk" ELSE mem[f]]
  BY DEF SetM, Kfree, M
<1> QED
  BY <1>1 DEF MemTypes, Contents, Keeps, NoJunk

\* kalloc() takes pages off the free list, and their user fills them.
LEMMA Taking ==
  ASSUME MemTypes, NoJunk, NEW S \in SUBSET free, NEW val \in Contents \ {"junk"}, SetM(Take(S, val))
  PROVE  free' = free \ S /\ free' \subseteq Frames /\ mem' \in [Frames -> Contents] /\ Keeps /\ NoJunk'
<1>1. free' = free \ S /\ mem' = [f \in Frames |-> IF f \in S THEN val ELSE mem[f]]
  BY DEF SetM, Take
<1> QED
  BY <1>1 DEF MemTypes, Contents, Keeps, NoJunk
-----------------------------------------------------------------------------
(* Ownership *)

\* The users of pages.
LEMMA UserIs ==
  ASSUME NEW u \in Users
  PROVE  \/ u = <<"free", 0>> \/ u = <<"pipe", 0>>
         \/ \E p \in Procs : u = <<"table", p>> \/ u = <<"new", p>> \/ u = <<"page", p>> \/ u = <<"stack", p>>
  BY DEF Users

\* The free list, the pipes and each process are users of pages.
LEMMA UsersAre ==
  ASSUME NEW p \in Procs
  PROVE  /\ <<"free", 0>> \in Users /\ <<"pipe", 0>> \in Users
         /\ <<"table", p>> \in Users /\ <<"new", p>> \in Users /\ <<"page", p>> \in Users /\ <<"stack", p>> \in Users
  BY DEF Users

\* What they hold.
LEMMA HeldIs ==
  ASSUME NEW p \in Procs
  PROVE  /\ Held(<<"free", 0>>) = free /\ Held(<<"pipe", 0>>) = pipe
         /\ Held(<<"table", p>>) = FramesOf(pd[p]) /\ Held(<<"new", p>>) = FramesOf(new[p])
         /\ Held(<<"stack", p>>) = {kstack[p]} \ {0} /\ Held(<<"page", p>>) = PageOf(p)
         /\ Held(<<"free", 0>>)' = free' /\ Held(<<"pipe", 0>>)' = pipe'
         /\ Held(<<"table", p>>)' = FramesOf(pd'[p]) /\ Held(<<"new", p>>)' = FramesOf(new'[p])
         /\ Held(<<"stack", p>>)' = {kstack'[p]} \ {0} /\ Held(<<"page", p>>)' = PageOf(p)'
  BY DEF Held, FramesOf, PageOf

\* What a step leaves alone, if W are the users whose pages it may change.
LEMMA HeldRest ==
  ASSUME NEW W,
         <<"free", 0>> \in W \/ free' = free, <<"pipe", 0>> \in W \/ pipe' = pipe,
         \A p \in Procs : <<"table", p>> \in W \/ pd'[p] = pd[p],
         \A p \in Procs : <<"new", p>> \in W \/ new'[p] = new[p],
         \A p \in Procs : <<"page", p>> \in W \/ page'[p] = page[p],
         \A p \in Procs : <<"stack", p>> \in W \/ kstack'[p] = kstack[p]
  PROVE  \A u \in Users \ W : Held(u)' = Held(u)
<1> SUFFICES ASSUME NEW u \in Users, u \notin W PROVE Held(u)' = Held(u)
  OBVIOUS
<1>1. CASE u = <<"free", 0>>
  BY <1>1 DEF Held
<1>2. CASE u = <<"pipe", 0>>
  BY <1>2 DEF Held
<1>3. ASSUME NEW p \in Procs, u = <<"table", p>> \/ u = <<"new", p>> \/ u = <<"page", p>> \/ u = <<"stack", p>>
      PROVE Held(u)' = Held(u)
  <2>1. CASE u = <<"page", p>>
    BY <2>1, HeldIs DEF PageOf
  <2> QED
    BY <1>3, <2>1, HeldIs
<1> QED
  BY <1>1, <1>2, <1>3, UserIs

Shaped == \A p \in Procs : NoAlias(pd[p]) /\ NoAlias(new[p])

\* Pages may pass between two users, or three.
LEMMA PassTwo ==
  ASSUME PagesOwnedOnce, NEW a \in Users, NEW b \in Users,
         \A u \in Users \ {a, b} : Held(u)' = Held(u),
         Held(a)' \cup Held(b)' = Held(a) \cup Held(b), a # b => Held(a)' \cap Held(b)' = {}, Shaped'
  PROVE  PagesOwnedOnce'
<1>1. UNION {Held(u)' : u \in Users} = Frames
  BY DEF PagesOwnedOnce
<1>2. \A u, x \in Users : u # x => Held(u)' \cap Held(x)' = {}
  <2> SUFFICES ASSUME NEW u \in Users, NEW x \in Users, u # x, NEW f, f \in Held(u)', f \in Held(x)' PROVE FALSE
    OBVIOUS
  <2>1. Held(u) \cap Held(x) = {} /\ (Held(a) \cap Held(x) = {} \/ a = x)
    BY DEF PagesOwnedOnce
  <2>2. \A z \in Users \ {a, b} : Held(z) \cap Held(a) = {} /\ Held(z) \cap Held(b) = {}
    BY DEF PagesOwnedOnce
  <2>3. \A z, y \in Users : z # y => Held(z) \cap Held(y) = {}
    BY DEF PagesOwnedOnce
  <2> QED
    BY <2>2, <2>3
<1> QED
  BY <1>1, <1>2 DEF PagesOwnedOnce, Shaped

\* Pages pass between three users.
LEMMA PassThree ==
  ASSUME PagesOwnedOnce, NEW a \in Users, NEW b \in Users, NEW c \in Users,
         \A u \in Users \ {a, b, c} : Held(u)' = Held(u),
         Held(a)' \cup Held(b)' \cup Held(c)' = Held(a) \cup Held(b) \cup Held(c),
         Held(a)' \cap Held(b)' = {}, Held(a)' \cap Held(c)' = {}, Held(b)' \cap Held(c)' = {}, Shaped'
  PROVE  PagesOwnedOnce'
<1>1. UNION {Held(u)' : u \in Users} = Frames
  BY DEF PagesOwnedOnce
<1>2. \A u, x \in Users : u # x => Held(u)' \cap Held(x)' = {}
  <2> SUFFICES ASSUME NEW u \in Users, NEW x \in Users, u # x, NEW f, f \in Held(u)', f \in Held(x)' PROVE FALSE
    OBVIOUS
  <2>2. \A z \in Users \ {a, b, c} : Held(z) \cap (Held(a) \cup Held(b) \cup Held(c)) = {}
    BY DEF PagesOwnedOnce
  <2>3. \A z, y \in Users : z # y => Held(z) \cap Held(y) = {}
    BY DEF PagesOwnedOnce
  <2> QED
    BY <2>2, <2>3
<1> QED
  BY <1>1, <1>2 DEF PagesOwnedOnce, Shaped

\* Pages pass between four users.
LEMMA PassFour ==
  ASSUME PagesOwnedOnce, NEW a \in Users, NEW b \in Users, NEW c \in Users, NEW d \in Users,
         \A u \in Users \ {a, b, c, d} : Held(u)' = Held(u),
         Held(a)' \cup Held(b)' \cup Held(c)' \cup Held(d)' = Held(a) \cup Held(b) \cup Held(c) \cup Held(d),
         Held(a)' \cap Held(b)' = {}, Held(a)' \cap Held(c)' = {}, Held(b)' \cap Held(c)' = {},
         (Held(a)' \cup Held(b)' \cup Held(c)') \cap Held(d)' = {}, Shaped'
  PROVE  PagesOwnedOnce'
<1>1. UNION {Held(u)' : u \in Users} = Frames
  BY DEF PagesOwnedOnce
<1>2. \A u, x \in Users : u # x => Held(u)' \cap Held(x)' = {}
  <2> SUFFICES ASSUME NEW u \in Users, NEW x \in Users, u # x, NEW f, f \in Held(u)', f \in Held(x)' PROVE FALSE
    OBVIOUS
  <2>2. \A z \in Users \ {a, b, c, d} : Held(z) \cap (Held(a) \cup Held(b) \cup Held(c) \cup Held(d)) = {}
    BY DEF PagesOwnedOnce
  <2>3. \A z, y \in Users : z # y => Held(z) \cap Held(y) = {}
    BY DEF PagesOwnedOnce
  <2> QED
    BY <2>2, <2>3
<1> QED
  BY <1>1, <1>2 DEF PagesOwnedOnce, Shaped

\* What p's tables and its loop hold, with the free list, is shared out anew.
ShareOut(p, t, old) ==
  /\ free' \cup FramesOf(t) \cup PageOf(p)' = free \cup FramesOf(old) \cup PageOf(p)
  /\ free' \cap FramesOf(t) = {} /\ free' \cap PageOf(p)' = {} /\ FramesOf(t) \cap PageOf(p)' = {}

\* Pages pass between the free list, the table p is building and the page at hand.
LEMMA FreeNew ==
  ASSUME PagesOwnedOnce, NEW p \in Procs, pipe' = pipe, pd' = pd, kstack' = kstack,
         \A x \in Procs \ {p} : new'[x] = new[x] /\ page'[x] = page[x], NoAlias(new'[p]),
         ShareOut(p, new'[p], new[p])
  PROVE  PagesOwnedOnce'
<1> DEFINE a == <<"free", 0>>
           b == <<"new", p>>
           c == <<"page", p>>
<1>1. a \in Users /\ b \in Users /\ c \in Users
  BY UsersAre
<1>2. \A u \in Users \ {a, b, c} : Held(u)' = Held(u)
  <2>1. \A x \in Procs : b = <<"new", x>> \/ new'[x] = new[x]
    OBVIOUS
  <2>2. \A x \in Procs : c = <<"page", x>> \/ page'[x] = page[x]
    OBVIOUS
  <2> QED
    BY <2>1, <2>2, HeldRest
<1>3. /\ Held(a) = free /\ Held(b) = FramesOf(new[p]) /\ Held(a)' = free' /\ Held(b)' = FramesOf(new'[p])
      /\ Held(c) = PageOf(p) /\ Held(c)' = PageOf(p)'
  BY HeldIs
<1>4. Shaped'
  BY DEF PagesOwnedOnce, Shaped
<1> HIDE DEF a, b, c
<1>5. /\ Held(a)' \cup Held(b)' \cup Held(c)' = Held(a) \cup Held(b) \cup Held(c)
      /\ Held(a)' \cap Held(b)' = {} /\ Held(a)' \cap Held(c)' = {} /\ Held(b)' \cap Held(c)' = {}
  BY <1>3 DEF ShareOut
<1> QED
  BY <1>1, <1>2, <1>4, <1>5, PassThree, Zenon

\* Pages pass between the free list, the table of p and the page at hand.
LEMMA FreeTable ==
  ASSUME PagesOwnedOnce, NEW p \in Procs, pipe' = pipe, new' = new, kstack' = kstack,
         \A x \in Procs \ {p} : pd'[x] = pd[x] /\ page'[x] = page[x], NoAlias(pd'[p]),
         ShareOut(p, pd'[p], pd[p])
  PROVE  PagesOwnedOnce'
<1> DEFINE a == <<"free", 0>>
           b == <<"table", p>>
           c == <<"page", p>>
<1>1. a \in Users /\ b \in Users /\ c \in Users
  BY UsersAre
<1>2. \A u \in Users \ {a, b, c} : Held(u)' = Held(u)
  <2>1. \A x \in Procs : b = <<"table", x>> \/ pd'[x] = pd[x]
    OBVIOUS
  <2>2. \A x \in Procs : c = <<"page", x>> \/ page'[x] = page[x]
    OBVIOUS
  <2> QED
    BY <2>1, <2>2, HeldRest
<1>3. /\ Held(a) = free /\ Held(b) = FramesOf(pd[p]) /\ Held(a)' = free' /\ Held(b)' = FramesOf(pd'[p])
      /\ Held(c) = PageOf(p) /\ Held(c)' = PageOf(p)'
  BY HeldIs
<1>4. Shaped'
  BY DEF PagesOwnedOnce, Shaped
<1> HIDE DEF a, b, c
<1>5. /\ Held(a)' \cup Held(b)' \cup Held(c)' = Held(a) \cup Held(b) \cup Held(c)
      /\ Held(a)' \cap Held(b)' = {} /\ Held(a)' \cap Held(c)' = {} /\ Held(b)' \cap Held(c)' = {}
  BY <1>3 DEF ShareOut
<1> QED
  BY <1>1, <1>2, <1>4, <1>5, PassThree, Zenon

\* Nobody's pages are free or anybody else's.
Separate ==
  /\ \A x \in Procs : FramesOf(pd[x]) \cap free = {} /\ FramesOf(new[x]) \cap free = {}
  /\ \A x, y \in Procs : x # y => FramesOf(pd[x]) \cap FramesOf(pd[y]) = {}
  /\ \A x, y \in Procs : FramesOf(pd[x]) \cap FramesOf(new[y]) = {}
  /\ \A x \in Procs : PageOf(x) \cap free = {}
  /\ \A x, y \in Procs : PageOf(x) \cap FramesOf(pd[y]) = {} /\ PageOf(x) \cap FramesOf(new[y]) = {}

\* The part of page ownership that the contents of pages depend on.
LEMMA Apart == PagesOwnedOnce => Separate
<1> SUFFICES ASSUME PagesOwnedOnce PROVE Separate
  OBVIOUS
<1>1. \A u, x \in Users : u # x => Held(u) \cap Held(x) = {}
  BY DEF PagesOwnedOnce
<1>2. ASSUME NEW x \in Procs PROVE FramesOf(pd[x]) \cap free = {} /\ FramesOf(new[x]) \cap free = {}
  <2>1. <<"free", 0>> # <<"table", x>> /\ <<"free", 0>> # <<"new", x>>
    OBVIOUS
  <2> QED
    BY <1>1, <2>1, UsersAre, HeldIs, Zenon
<1>3. ASSUME NEW x \in Procs, NEW y \in Procs
      PROVE  /\ x # y => FramesOf(pd[x]) \cap FramesOf(pd[y]) = {}
             /\ FramesOf(pd[x]) \cap FramesOf(new[y]) = {}
  <2>1. (x # y => <<"table", x>> # <<"table", y>>) /\ <<"table", x>> # <<"new", y>>
    OBVIOUS
  <2> QED
    <3>1. /\ <<"table", x>> \in Users /\ <<"table", y>> \in Users /\ <<"new", y>> \in Users
          /\ Held(<<"table", x>>) = FramesOf(pd[x]) /\ Held(<<"table", y>>) = FramesOf(pd[y])
          /\ Held(<<"new", y>>) = FramesOf(new[y])
      BY UsersAre, HeldIs, Zenon
    <3>2. x # y => FramesOf(pd[x]) \cap FramesOf(pd[y]) = {}
      BY <1>1, <2>1, <3>1, Zenon
    <3>3. FramesOf(pd[x]) \cap FramesOf(new[y]) = {}
      BY <1>1, <2>1, <3>1, Zenon
    <3> QED
      BY <3>2, <3>3
<1>4. ASSUME NEW x \in Procs, NEW y \in Procs
      PROVE  /\ PageOf(x) \cap free = {}
             /\ PageOf(x) \cap FramesOf(pd[y]) = {} /\ PageOf(x) \cap FramesOf(new[y]) = {}
  <2>1. <<"page", x>> # <<"free", 0>> /\ <<"page", x>> # <<"table", y>> /\ <<"page", x>> # <<"new", y>>
    OBVIOUS
  <2>2. /\ <<"page", x>> \in Users /\ <<"free", 0>> \in Users /\ <<"table", y>> \in Users /\ <<"new", y>> \in Users
        /\ Held(<<"page", x>>) = PageOf(x) /\ Held(<<"free", 0>>) = free
        /\ Held(<<"table", y>>) = FramesOf(pd[y]) /\ Held(<<"new", y>>) = FramesOf(new[y])
    BY UsersAre, HeldIs, Zenon
  <2>3. PageOf(x) \cap free = {}
    BY <1>1, <2>1, <2>2, Zenon
  <2>4. PageOf(x) \cap FramesOf(pd[y]) = {}
    BY <1>1, <2>1, <2>2, Zenon
  <2>5. PageOf(x) \cap FramesOf(new[y]) = {}
    BY <1>1, <2>1, <2>2, Zenon
  <2> QED
    BY <2>3, <2>4, <2>5
<1> QED
  BY <1>2, <1>3, <1>4 DEF Separate

\* The page copyuvm() has come to is there in the original.
LEMMA CopySource ==
  ASSUME NEW a \in Nat, NEW n \in Nat, Even(a), a < n, n <= KERNBASE
  PROVE  a \div PG \in Below(n)
<1>1. a < KERNBASE
  BY MemConsts DEF KERNBASE, PG
<1>2. a \div PG \in Pages
  BY <1>1, BelowNext
<1>3. (a \div PG) * PG < n
  BY DEF Even, PG
<1> QED
  BY <1>2, <1>3 DEF Below

\* A process whose memory and call a step leaves alone is as fine as before.
LEMMA StillFine ==
  ASSUME MemTypes, NEW x \in Procs, Fine(x),
         job'[x] = job[x], pd'[x] = pd[x], new'[x] = new[x], sz'[x] = sz[x],
         page'[x] = page[x],
         \A f \in FramesOf(pd[x]) \cup FramesOf(new[x]) \cup PageOf(x) : mem'[f] = mem[f]
  PROVE  Fine(x)'
<1> DEFINE j == job[x]
           o == pd[x].pg
           n == new[x].pg
<1>1. pd[x] \in Table /\ new[x] \in Table
  BY DEF MemTypes
<1>2. (\A v \in DOMAIN o : mem'[o[v]] = mem[o[v]]) /\ (\A v \in DOMAIN n : mem'[n[v]] = mem[n[v]])
  BY <1>1, TableIs
<1>3. SizeOK(j, o, n, sz[x]) /\ DataOK(j, o, n, sz[x], mem) /\ PageOK(x)
  BY DEF Fine
<1>9. PageOK(x)'
  <2> SUFFICES ASSUME page[x] # 0 PROVE More(x)' /\ (j.pc = "copy" => mem'[page[x]] = mem'[o[At(x)]])
    BY DEF PageOK, At
  <2>1. More(x)'
    BY <1>3 DEF PageOK, More
  <2>2. ASSUME j.pc = "copy" PROVE mem'[page[x]] = mem'[o[At(x)]]
    <3>1. At(x) \in DOMAIN o
      <4>1. j.a < sz[x]
        BY <1>3, <2>2 DEF PageOK, More
      <4>2. DOMAIN o = Below(sz[x]) /\ Even(j.a) /\ sz[x] <= KERNBASE
        BY <1>3, <2>2 DEF SizeOK, Building
      <4>3. sz[x] \in Nat /\ j.a \in Nat
        BY DEF MemTypes, Job
      <4> QED
        BY <4>1, <4>2, <4>3, CopySource DEF At
    <3>2. mem[page[x]] = mem[o[At(x)]]
      BY <1>3, <2>2 DEF PageOK
    <3>3. mem'[page[x]] = mem[page[x]]
      BY DEF PageOf
    <3> QED
      BY <1>2, <3>1, <3>2, <3>3
  <2> QED
    BY <2>1, <2>2
<1> HIDE DEF j, o, n
<1>4. j.pc \notin {"map", "lost"} => DOMAIN o = Below(sz[x])
  BY <1>3 DEF SizeOK
<1>5. j.pc = "map" => Below(sz[x]) \subseteq DOMAIN o
  <2>1. sz[x] \in Nat /\ j.a \in Nat
    BY DEF MemTypes, Job, j
  <2> QED
    BY <1>3, <2>1 DEF SizeOK, Below, Pages, PG
<1>6. j.pc # "lost" => [v \in Below(sz[x]) |-> mem'[o[v]]] = [v \in Below(sz[x]) |-> mem[o[v]]]
  BY <1>2, <1>4, <1>5
<1>7. ASSUME j.pc \in {"copy", "start"}, NEW v \in DOMAIN n PROVE mem'[n[v]] = mem'[o[v]]
  <2>1. mem[n[v]] = mem[o[v]]
    BY <1>3, <1>7 DEF DataOK
  <2>2. v \in DOMAIN o
    <3>1. DOMAIN n = Below(j.a) /\ Even(j.a) /\ j.a < sz[x] + PG /\ j.a \in Nat /\ sz[x] \in Nat
      BY <1>3, <1>7 DEF SizeOK, Building, MemTypes, Job, j
    <3>2. \A y \in Pages : y * PG < j.a => y * PG < sz[x]
      BY <3>1 DEF Even, PG, Pages
    <3> QED
      BY <1>4, <1>7, <3>1, <3>2 DEF Below
  <2> QED
    BY <1>2, <2>1, <2>2
<1>8. DataOK(j, o, n, sz[x], mem')
  BY <1>3, <1>6, <1>7 DEF DataOK, Building
<1> QED
  BY <1>3, <1>8, <1>9 DEF Fine, j, o, n

\* So are all processes outside W, if what stays in use keeps its contents.
LEMMA OthersFine ==
  ASSUME MemTypes, CallInv, Separate, Separate', Keeps, NEW W,
         \A x \in Procs \ W : /\ job'[x] = job[x] /\ pd'[x] = pd[x] /\ new'[x] = new[x] /\ sz'[x] = sz[x]
                              /\ page'[x] = page[x]
                              /\ st'[x] = "run" => st[x] = "run"
  PROVE  \A x \in Procs \ W : st'[x] = "run" => Fine(x)'
<1> SUFFICES ASSUME NEW x \in Procs \ W, st'[x] = "run" PROVE Fine(x)'
  OBVIOUS
<1>1. Fine(x)
  BY DEF CallInv
<1>2. FramesOf(pd[x]) \subseteq Frames /\ FramesOf(new[x]) \subseteq Frames
  BY TableIs DEF MemTypes
<1>3. FramesOf(pd[x]) \cap free = {} /\ FramesOf(new[x]) \cap free = {}
  BY DEF Separate
<1>4. FramesOf(pd'[x]) \cap free' = {} /\ FramesOf(new'[x]) \cap free' = {}
  BY DEF Separate
<1>5. \A f \in FramesOf(pd[x]) \cup FramesOf(new[x]) : mem'[f] = mem[f]
  BY <1>2, <1>3, <1>4 DEF Keeps
<1>6. \A f \in PageOf(x) : mem'[f] = mem[f]
  <2>1. PageOf(x) \cap free = {} /\ PageOf(x)' \cap free' = {}
    BY DEF Separate
  <2>2. PageOf(x)' = PageOf(x) /\ PageOf(x) \subseteq Frames
    BY MemConsts DEF PageOf, MemTypes, Frames
  <2> QED
    BY <2>1, <2>2 DEF Keeps
<1> QED
  BY <1>1, <1>5, <1>6, StillFine

\* Steps of a process that change no slot.
LEMMA SlotsStay ==
  ASSUME SlotInv, NEW p \in Procs, st[p] = "run", st' = st, kstack' = kstack,
         \A x \in Procs \ {p} : job'[x] = job[x] /\ new'[x] = new[x] /\ pd'[x] = pd[x] /\ page'[x] = page[x],
         job'[p].pc \notin Building => new'[p] = NoTable,
         InFork(p)' => InFork(p) /\ job'[p].q = job[p].q,
         job'[p].pc = "dir" => job'[p].call \in {"fork", "exec"},
         job'[p].pc \in {"copy", "start"} => job'[p].call = "fork",
         job'[p].pc \in {"load", "stack", "args"} => job'[p].call = "exec"
  PROVE  SlotInv'
<1>1. \A x \in Procs : InFork(x)' => InFork(x) /\ job'[x].q = job[x].q
  BY DEF InFork
<1>2. \A x \in Procs : InFork(x)' => job'[x].q \in Procs /\ st'[job'[x].q] = "embryo"
  BY <1>1 DEF SlotInv
<1>3. \A x, y \in Procs : InFork(x)' /\ InFork(y)' /\ job'[x].q = job'[y].q => x = y
  BY <1>1 DEF SlotInv
<1>4. \A x \in Procs : job'[x].pc # "idle" => st'[x] = "run"
  BY DEF SlotInv
<1>5. \A x \in Procs : st'[x] \in {"unused", "embryo"} => pd'[x] = NoTable
  BY DEF SlotInv
<1>6. \A x \in Procs : kstack'[x] = 0 <=> st'[x] = "unused"
  BY DEF SlotInv
<1>7. \A x \in Procs : job'[x].pc \notin Building => new'[x] = NoTable
  BY DEF SlotInv
<1>8. \A x \in Procs : /\ job'[x].pc = "dir" => job'[x].call \in {"fork", "exec"}
                       /\ job'[x].pc \in {"copy", "start"} => job'[x].call = "fork"
                       /\ job'[x].pc \in {"load", "stack", "args"} => job'[x].call = "exec"
  BY DEF SlotInv
<1>9. \A x \in Procs : st'[x] # "run" => page'[x] = 0
  BY DEF SlotInv
<1> QED
  BY <1>2, <1>3, <1>4, <1>5, <1>6, <1>7, <1>8, <1>9 DEF SlotInv
-----------------------------------------------------------------------------
(* The steps *)

\* A process goes on with its call, or with another.
LEMMA NewJob ==
  ASSUME MemTypes, NEW p \in Procs, NEW j \in Job, job' = [job EXCEPT ![p] = j]
  PROVE  job' \in [Procs -> Job] /\ job'[p] = j /\ \A x \in Procs \ {p} : job'[x] = job[x]
  BY DEF MemTypes

\* A call ends.
LEMMA ResultIs ==
  ASSUME MemTypes, NEW p \in Procs, NEW ok \in BOOLEAN, Result(p, ok)
  PROVE  /\ job' \in [Procs -> Job] /\ \A x \in Procs \ {p} : job'[x] = job[x]
         /\ job'[p].pc = "ret" /\ job'[p].ok = ok /\ job'[p].old = job[p].old
<1> DEFINE j == [job[p] EXCEPT !.pc = "ret", !.ok = ok]
<1>1. job[p] \in Job
  BY DEF MemTypes
<1>2. j \in Job /\ j.pc = "ret" /\ j.ok = ok /\ j.old = job[p].old
  BY <1>1 DEF Job
<1>3. job' = [job EXCEPT ![p] = j]
  BY DEF Result
<1> HIDE DEF j
<1> QED
  BY <1>2, <1>3, NewJob

\* What a program sees of its memory.
Seen(p) == [sz |-> sz[p], pg |-> [v \in Below(sz[p]) |-> mem[pd[p].pg[v]]]]

\* What a process that does not grow sees is what is below its size.
LEMMA ViewIs ==
  ASSUME MemTypes, CallInv, NEW p \in Procs
  PROVE  View(p) \in Images /\ (st[p] = "run" /\ job[p].pc \notin {"map", "lost"} => View(p) = Seen(p))
<1>1. pd[p].pg \in Maps(Pages) /\ sz[p] \in Nat
  BY TableIs DEF MemTypes
<1>2. DOMAIN pd[p].pg \subseteq Pages /\ \A v \in DOMAIN pd[p].pg : pd[p].pg[v] \in Frames
  BY <1>1, MapIs
<1> DEFINE g == [v \in DOMAIN pd[p].pg |-> mem[pd[p].pg[v]]]
<1>3. g \in [DOMAIN pd[p].pg -> Contents]
  BY <1>2 DEF MemTypes
<1>4. View(p) = [sz |-> sz[p], pg |-> g]
  BY DEF View
<1>5. View(p) \in Images
  <2> HIDE DEF g
  <2> QED
    BY <1>1, <1>2, <1>3, <1>4 DEF Images
<1>6. ASSUME st[p] = "run", job[p].pc \notin {"map", "lost"} PROVE View(p) = Seen(p)
  <2>1. DOMAIN pd[p].pg = Below(sz[p])
    BY <1>6 DEF CallInv, Fine, SizeOK
  <2> QED
    BY <1>4, <2>1 DEF Seen
<1> QED
  BY <1>5, <1>6

\* A call begins.
LEMMA EnterIs ==
  ASSUME MemTypes, CallInv, NEW p \in Procs, Idle(p), NEW j \in Job, Enter(p, j)
  PROVE  /\ job' \in [Procs -> Job] /\ \A x \in Procs \ {p} : job'[x] = job[x]
         /\ job'[p] = [j EXCEPT !.old = Seen(p)]
<1> DEFINE k == [j EXCEPT !.old = View(p)]
<1>1. View(p) \in Images /\ View(p) = Seen(p)
  BY ViewIs DEF Idle
<1>2. k \in Job
  BY <1>1 DEF Job
<1>3. job' = [job EXCEPT ![p] = k]
  BY DEF Enter
<1> HIDE DEF k
<1> QED
  BY <1>1, <1>2, <1>3, NewJob DEF k

\* What a process keeps while it does not change its tables.
LEMMA OwnKept ==
  ASSUME MemTypes, Separate, Separate', Keeps, NEW x \in Procs
  PROVE  /\ pd'[x] = pd[x] => \A v \in DOMAIN pd[x].pg : mem'[pd[x].pg[v]] = mem[pd[x].pg[v]]
         /\ new'[x] = new[x] => \A v \in DOMAIN new[x].pg : mem'[new[x].pg[v]] = mem[new[x].pg[v]]
<1>1. pd[x] \in Table /\ new[x] \in Table
  BY DEF MemTypes
<1>2. /\ FramesOf(pd[x]) \subseteq Frames /\ FramesOf(pd[x]) \cap free = {}
      /\ FramesOf(new[x]) \subseteq Frames /\ FramesOf(new[x]) \cap free = {}
  BY <1>1, TableIs DEF Separate
<1>3. FramesOf(pd'[x]) \cap free' = {} /\ FramesOf(new'[x]) \cap free' = {}
  BY DEF Separate
<1> QED
  BY <1>1, <1>2, <1>3, TableIs DEF Keeps

\* A process that is in a call, and has only built a new table so far, still sees what
\* it saw when it began.
LEMMA SeenKept ==
  ASSUME MemTypes, CallInv, Separate, Separate', Keeps, NEW p \in Procs, st[p] = "run", job[p].pc \in Building,
         pd'[p] = pd[p], sz'[p] = sz[p]
  PROVE  /\ sz[p] <= KERNBASE /\ DOMAIN pd[p].pg = Below(sz[p])
         /\ job[p].old = [sz |-> sz'[p], pg |-> [v \in Below(sz'[p]) |-> mem'[pd'[p].pg[v]]]]
<1>1. /\ SizeOK(job[p], pd[p].pg, new[p].pg, sz[p]) /\ DataOK(job[p], pd[p].pg, new[p].pg, sz[p], mem)
  BY DEF CallInv, Fine
<1>2. sz[p] <= KERNBASE /\ DOMAIN pd[p].pg = Below(sz[p])
  BY <1>1 DEF SizeOK, Building
<1>3. job[p].old = [sz |-> sz[p], pg |-> [v \in Below(sz[p]) |-> mem[pd[p].pg[v]]]]
  BY <1>1 DEF DataOK
<1>4. [v \in Below(sz[p]) |-> mem[pd[p].pg[v]]] = [v \in Below(sz[p]) |-> mem'[pd[p].pg[v]]]
  BY <1>2, OwnKept
<1> QED
  BY <1>2, <1>3, <1>4

\* A call that fails has changed nothing its process sees.
LEMMA Failed ==
  ASSUME MemTypes, CallInv, Separate, Separate', Keeps, NEW p \in Procs, st[p] = "run", job[p].pc \in Building,
         job'[p].pc = "ret", job'[p].old = job[p].old, pd'[p] = pd[p], sz'[p] = sz[p], page'[p] = 0
  PROVE  Fine(p)'
<1>1. /\ sz[p] <= KERNBASE /\ DOMAIN pd[p].pg = Below(sz[p])
      /\ job[p].old = [sz |-> sz'[p], pg |-> [v \in Below(sz'[p]) |-> mem'[pd'[p].pg[v]]]]
  BY SeenKept
<1>2. SizeOK(job'[p], pd'[p].pg, new'[p].pg, sz'[p])
  BY <1>1 DEF SizeOK, Building
<1>3. DataOK(job'[p], pd'[p].pg, new'[p].pg, sz'[p], mem')
  BY <1>1 DEF DataOK, Building
<1>4. PageOK(p)'
  BY DEF PageOK
<1> QED
  BY <1>2, <1>3, <1>4 DEF Fine

\* goto bad.
LEMMA BadStep ==
  ASSUME MemInv, NEW p \in Procs, job[p].pc \in Building, Bad(p), pipe' = pipe
  PROVE  MemInv'
<1>0. MemTypes /\ PagesOwnedOnce /\ SlotInv /\ CallInv /\ NoJunk /\ Separate
  BY Apart DEF MemInv
<1>1. st[p] = "run"
  BY <1>0 DEF SlotInv, Building
<1>2. /\ job' \in [Procs -> Job] /\ \A x \in Procs \ {p} : job'[x] = job[x]
      /\ job'[p].pc = "ret" /\ job'[p].old = job[p].old
  BY <1>0, ResultIs DEF Bad
<1>3. new' \in [Procs -> Table] /\ new'[p] = NoTable /\ \A x \in Procs \ {p} : new'[x] = new[x]
  BY <1>0, NoTableIs DEF Bad, MemTypes
<1>4. pd' = pd /\ sz' = sz
  BY DEF Bad
<1>8. page' \in [Procs -> 0 .. NFRAME] /\ page'[p] = 0 /\ \A x \in Procs \ {p} : page'[x] = page[x]
  BY <1>0, MemConsts DEF Bad, MemTypes
<1>9. PageOf(p) \subseteq Frames /\ PageOf(p)' = {}
  BY <1>0, <1>8, MemConsts DEF PageOf, MemTypes, Frames
<1>5. FramesOf(new[p]) \subseteq Frames /\ new[p] \in Table
  BY <1>0, TableIs DEF MemTypes
<1>6. CASE job[p].call = "fork"
  <2>0. PICK q \in Procs : q = job[p].q
    BY <1>0, <1>6 DEF SlotInv, InFork
  <2>1. st[q] = "embryo" /\ kstack[q] # 0
    BY <1>0, <1>6, <2>0 DEF SlotInv, InFork
  <2>2. kstack[q] \in Frames
    BY <1>0, <2>1, MemConsts DEF MemTypes, Frames
  <2>3. /\ kstack' = [kstack EXCEPT ![q] = 0] /\ st' = [st EXCEPT ![q] = "unused"]
        /\ SetM(Kfree(M, FramesOf(new[p]) \cup {kstack[q]} \cup PageOf(p)))
    BY <1>6, <2>0 DEF Bad, StackOf
  <2>4. /\ free' = free \cup (FramesOf(new[p]) \cup {kstack[q]} \cup PageOf(p)) /\ free' \subseteq Frames
        /\ mem' \in [Frames -> Contents] /\ Keeps /\ NoJunk'
    <3>1. FramesOf(new[p]) \cup {kstack[q]} \cup PageOf(p) \in SUBSET Frames
      BY <1>5, <1>9, <2>2
    <3> QED
      BY <1>0, <2>3, <3>1, Freeing, Zenon
  <2>5. q # p
    BY <1>1, <2>1
  <2>6. MemTypes'
    BY <1>0, <1>2, <1>3, <1>4, <1>8, <2>1, <2>3, <2>4, MemConsts DEF MemTypes
  <2>7. PagesOwnedOnce'
    <3> DEFINE a == <<"free", 0>>
               b == <<"new", p>>
               c == <<"page", p>>
               d == <<"stack", q>>
    <3>1. a \in Users /\ b \in Users /\ c \in Users /\ d \in Users
      BY UsersAre
    <3>2. \A u \in Users \ {a, b, c, d} : Held(u)' = Held(u)
      <4>1. \A x \in Procs : d = <<"stack", x>> \/ kstack'[x] = kstack[x]
        BY <1>0, <2>3 DEF MemTypes
      <4>2. \A x \in Procs : b = <<"new", x>> \/ new'[x] = new[x]
        BY <1>3
      <4>3. \A x \in Procs : pd'[x] = pd[x]
        BY <1>4
      <4>4. \A x \in Procs : c = <<"page", x>> \/ page'[x] = page[x]
        BY <1>8
      <4> QED
        BY <4>1, <4>2, <4>3, <4>4, HeldRest
    <3>3. /\ Held(a) = free /\ Held(b) = FramesOf(new[p]) /\ Held(c) = PageOf(p) /\ Held(d) = {kstack[q]}
          /\ Held(a)' = free' /\ Held(b)' = {} /\ Held(c)' = {} /\ Held(d)' = {}
      <4>1. kstack'[q] = 0
        BY <1>0, <2>1, <2>3 DEF MemTypes
      <4>2. {kstack[q]} \ {0} = {kstack[q]} /\ {kstack'[q]} \ {0} = {}
        BY <2>1, <4>1
      <4>3. /\ Held(a) = free /\ Held(b) = FramesOf(new[p]) /\ Held(a)' = free' /\ Held(b)' = FramesOf(new'[p])
        BY HeldIs
      <4>4. Held(d) = {kstack[q]} \ {0} /\ Held(d)' = {kstack'[q]} \ {0}
        BY <2>1, HeldIs
      <4>5. Held(c) = PageOf(p) /\ Held(c)' = PageOf(p)'
        BY HeldIs
      <4> QED
        BY <1>3, <1>9, <4>2, <4>3, <4>4, <4>5, NoTableIs
    <3>4. Shaped'
      BY <1>0, <1>3, <1>4, NoTableIs DEF PagesOwnedOnce, Shaped
    <3> HIDE DEF a, b, c, d
    <3>5. /\ Held(a)' \cup Held(b)' \cup Held(c)' \cup Held(d)' = Held(a) \cup Held(b) \cup Held(c) \cup Held(d)
          /\ Held(a)' \cap Held(b)' = {} /\ Held(a)' \cap Held(c)' = {} /\ Held(b)' \cap Held(c)' = {}
          /\ (Held(a)' \cup Held(b)' \cup Held(c)') \cap Held(d)' = {}
      BY <2>4, <3>3
    <3> QED
      BY <1>0, <3>1, <3>2, <3>4, <3>5, PassFour, Zenon
  <2>8. SlotInv'
    <3>1. \A x \in Procs : InFork(x)' => x # p /\ InFork(x) /\ job'[x].q = job[x].q
      BY <1>2 DEF InFork, Building
    <3>2. \A x \in Procs : InFork(x)' => job'[x].q \in Procs /\ job'[x].q # q /\ st'[job'[x].q] = "embryo"
      <4> SUFFICES ASSUME NEW x \in Procs, InFork(x)'
                   PROVE  job'[x].q \in Procs /\ job'[x].q # q /\ st'[job'[x].q] = "embryo"
        OBVIOUS
      <4>1. x # p /\ job'[x].q = job[x].q /\ job[x].q \in Procs /\ st[job[x].q] = "embryo"
        BY <1>0, <3>1 DEF SlotInv
      <4>2. job[x].q # q
        BY <1>0, <1>6, <2>0, <3>1, <4>1 DEF SlotInv, InFork
      <4> QED
        BY <1>0, <2>3, <4>1, <4>2 DEF MemTypes
    <3>3. \A x, y \in Procs : InFork(x)' /\ InFork(y)' /\ job'[x].q = job'[y].q => x = y
      BY <1>0, <3>1 DEF SlotInv
    <3>4. \A x \in Procs : job'[x].pc # "idle" => st'[x] = "run"
      BY <1>0, <1>1, <1>2, <2>1, <2>3, <2>5 DEF SlotInv, MemTypes
    <3>5. \A x \in Procs : job'[x].pc \notin Building => new'[x] = NoTable
      BY <1>0, <1>2, <1>3 DEF SlotInv
    <3>6. \A x \in Procs : st'[x] \in {"unused", "embryo"} => pd'[x] = NoTable
      BY <1>0, <1>4, <2>1, <2>3 DEF SlotInv, MemTypes
    <3>7. \A x \in Procs : kstack'[x] = 0 <=> st'[x] = "unused"
      BY <1>0, <2>1, <2>3 DEF SlotInv, MemTypes
    <3>8. \A x \in Procs : /\ job'[x].pc = "dir" => job'[x].call \in {"fork", "exec"}
                           /\ job'[x].pc \in {"copy", "start"} => job'[x].call = "fork"
                           /\ job'[x].pc \in {"load", "stack", "args"} => job'[x].call = "exec"
      BY <1>0, <1>2 DEF SlotInv
    <3>9. \A x \in Procs : st'[x] # "run" => page'[x] = 0
      BY <1>0, <1>8, <2>1, <2>3 DEF SlotInv, MemTypes
    <3> QED
      BY <3>2, <3>3, <3>4, <3>5, <3>6, <3>7, <3>8, <3>9 DEF SlotInv
  <2>9. CallInv'
    <3>1. Separate'
      BY <2>7, Apart, PTL
    <3>2. \A x \in Procs \ {p} : st'[x] = "run" => Fine(x)'
      <4>1. \A x \in Procs : st'[x] = "run" => st[x] = "run"
        BY <1>0, <2>3 DEF MemTypes
      <4> QED
        BY <1>0, <1>2, <1>3, <1>4, <1>8, <2>4, <3>1, <4>1, OthersFine
    <3>3. Fine(p)'
      BY <1>0, <1>1, <1>2, <1>4, <1>8, <2>4, <3>1, Failed
    <3> QED
      BY <3>2, <3>3 DEF CallInv
  <2> QED
    BY <2>4, <2>6, <2>7, <2>8, <2>9 DEF MemInv
<1>7. CASE job[p].call # "fork"
  <2>1. kstack' = kstack /\ st' = st /\ SetM(Kfree(M, FramesOf(new[p]) \cup PageOf(p)))
    <3>1. FramesOf(new[p]) \cup {} \cup PageOf(p) = FramesOf(new[p]) \cup PageOf(p)
      OBVIOUS
    <3> QED
      BY <1>7, <3>1 DEF Bad, StackOf
  <2>2. /\ free' = free \cup (FramesOf(new[p]) \cup PageOf(p)) /\ free' \subseteq Frames
        /\ mem' \in [Frames -> Contents] /\ Keeps /\ NoJunk'
    <3>1. FramesOf(new[p]) \cup PageOf(p) \in SUBSET Frames
      BY <1>5, <1>9
    <3> QED
      BY <1>0, <2>1, <3>1, Freeing, Zenon
  <2>3. MemTypes'
    BY <1>0, <1>2, <1>3, <1>4, <1>8, <2>1, <2>2 DEF MemTypes
  <2>4. PagesOwnedOnce'
    <3>1. FramesOf(new'[p]) = {} /\ NoAlias(new'[p])
      BY <1>3, NoTableIs
    <3>2. ShareOut(p, new'[p], new[p])
      BY <1>9, <2>2, <3>1 DEF ShareOut
    <3> QED
      BY <1>0, <1>3, <1>4, <1>8, <2>1, <3>1, <3>2, FreeNew
  <2>5. SlotInv'
    <3>1. ~InFork(p)'
      BY <1>2 DEF InFork, Building
    <3> QED
      BY <1>0, <1>1, <1>2, <1>3, <1>4, <1>8, <2>1, <3>1, SlotsStay
  <2>6. CallInv'
    <3>1. Separate'
      BY <2>4, Apart, PTL
    <3>2. \A x \in Procs \ {p} : st'[x] = "run" => Fine(x)'
      BY <1>0, <1>2, <1>3, <1>4, <1>8, <2>1, <2>2, <3>1, OthersFine
    <3>3. Fine(p)'
      BY <1>0, <1>1, <1>2, <1>4, <1>8, <2>2, <3>1, Failed
    <3> QED
      BY <3>2, <3>3 DEF CallInv
  <2> QED
    BY <2>2, <2>3, <2>4, <2>5, <2>6 DEF MemInv
<1> QED
  BY <1>6, <1>7

\* A step of a call that builds a table: what it gets goes to the table, or is at hand.
LEMMA BuildStep ==
  ASSUME MemInv, NEW p \in Procs, job[p].pc \in Building, UNCHANGED <<pipe, pd, sz, kstack, st>>,
         free' \subseteq Frames, mem' \in [Frames -> Contents], Keeps, NoJunk',
         page' \in [Procs -> 0 .. NFRAME], \A x \in Procs \ {p} : page'[x] = page[x], PageOK(p)',
         NEW t \in Table, NoAlias(t), ShareOut(p, t, new[p]), new' = [new EXCEPT ![p] = t],
         NEW j \in Job, job' = [job EXCEPT ![p] = j],
         j.pc \in Building, j.call = job[p].call, j.q = job[p].q, j.old = job[p].old,
         j.pc \in {"copy", "start"} => j.call = "fork", j.pc \in {"load", "stack", "args"} => j.call = "exec",
         SizeOK(j, pd[p].pg, t.pg, sz[p]),
         j.pc \in {"copy", "start"} =>
           \A v \in DOMAIN t.pg : v \in DOMAIN pd[p].pg /\ mem'[t.pg[v]] = mem[pd[p].pg[v]]
  PROVE  MemInv'
<1>0. MemTypes /\ PagesOwnedOnce /\ SlotInv /\ CallInv /\ NoJunk /\ Separate
  BY Apart DEF MemInv
<1>1. st[p] = "run" /\ (job[p].pc = "dir" => job[p].call \in {"fork", "exec"})
  BY <1>0 DEF SlotInv, Building
<1>2. new' \in [Procs -> Table] /\ new'[p] = t /\ \A x \in Procs \ {p} : new'[x] = new[x]
  BY <1>0 DEF MemTypes
<1>3. job' \in [Procs -> Job] /\ job'[p] = j /\ \A x \in Procs \ {p} : job'[x] = job[x]
  BY <1>0, NewJob
<1>4. MemTypes'
  BY <1>0, <1>2, <1>3 DEF MemTypes
<1>5. PagesOwnedOnce'
  <2>1. ShareOut(p, new'[p], new[p])
    BY <1>2
  <2> QED
    BY <1>0, <1>2, <2>1, FreeNew
<1>6. Separate'
  BY <1>5, Apart, PTL
<1>7. SlotInv'
  <2>1. j.pc = "dir" => j.call \in {"fork", "exec"}
    <3>1. job[p].pc \in {"copy", "start"} => job[p].call = "fork"
      BY <1>0 DEF SlotInv
    <3>2. job[p].pc \in {"load", "stack", "args"} => job[p].call = "exec"
      BY <1>0 DEF SlotInv
    <3> QED
      BY <1>1, <3>1, <3>2 DEF Building
  <2>2. InFork(p)' => InFork(p) /\ job'[p].q = job[p].q
    BY <1>3 DEF InFork
  <2> QED
    BY <1>0, <1>1, <1>2, <1>3, <2>1, <2>2, SlotsStay
<1>8. \A x \in Procs \ {p} : st'[x] = "run" => Fine(x)'
  BY <1>0, <1>2, <1>3, <1>6, OthersFine
<1>9. Fine(p)'
  <2>1. /\ DOMAIN pd[p].pg = Below(sz[p])
        /\ job[p].old = [sz |-> sz'[p], pg |-> [v \in Below(sz'[p]) |-> mem'[pd'[p].pg[v]]]]
    BY <1>0, <1>1, <1>6, SeenKept
  <2>2. \A v \in DOMAIN pd[p].pg : mem'[pd[p].pg[v]] = mem[pd[p].pg[v]]
    BY <1>0, <1>6, OwnKept
  <2>3. DataOK(j, pd'[p].pg, t.pg, sz'[p], mem')
    BY <2>1, <2>2 DEF DataOK
  <2> QED
    BY <1>2, <1>3, <2>3 DEF Fine
<1> QED
  BY <1>4, <1>5, <1>7, <1>8, <1>9 DEF MemInv, CallInv

\* The directory, or a table of the kernel's mappings.
LEMMA KernelTable ==
  ASSUME NEW t \in Table, NoAlias(t), NEW x \in Frames, x \notin FramesOf(t), NEW u,
         u = IF t.dir = 0 THEN [t EXCEPT !.dir = x] ELSE [t EXCEPT !.ktab = @ \cup {x}]
  PROVE  u \in Table /\ NoAlias(u) /\ FramesOf(u) = FramesOf(t) \cup {x} /\ u.pg = t.pg
<1>1. /\ u.tab = t.tab /\ u.pg = t.pg /\ u.nouser = t.nouser
      /\ u.dir = (IF t.dir = 0 THEN x ELSE t.dir) /\ u.ktab = (IF t.dir = 0 THEN t.ktab ELSE t.ktab \cup {x})
      /\ u = [dir |-> u.dir, ktab |-> u.ktab, tab |-> u.tab, pg |-> u.pg, nouser |-> u.nouser]
  <2>1. PICK a, b, c, d, e : t = [dir |-> a, ktab |-> b, tab |-> c, pg |-> d, nouser |-> e]
    BY DEF Table
  <2> QED
    BY <2>1
<1>2. /\ t.dir \in 0 .. NFRAME /\ t.ktab \subseteq Frames /\ t.tab \in Maps(Tabs) /\ t.pg \in Maps(Pages)
      /\ t.nouser \subseteq Int
  BY TableIs
<1>3. x \in 0 .. NFRAME /\ x # 0
  BY MemConsts DEF Frames
<1>4. u.dir \in 0 .. NFRAME /\ u.ktab \subseteq Frames
  BY <1>1, <1>2, <1>3
<1>5. u \in Table
  BY <1>1, <1>2, <1>4, Zenon DEF Table
<1>6. FramesOf(u) = FramesOf(t) \cup {x}
  BY <1>1, <1>3 DEF FramesOf
<1>7. NoAlias(u)
  BY <1>1, <1>3 DEF NoAlias, FramesOf
<1> QED
  BY <1>1, <1>5, <1>6, <1>7

\* Only a loop with another turn to do has a page at hand.
LEMMA NoPage ==
  ASSUME MemInv, NEW p \in Procs, ~More(p)
  PROVE  page[p] = 0 /\ PageOf(p) = {}
<1>1. page[p] = 0
  BY DEF MemInv, SlotInv, CallInv, Fine, PageOK
<1> QED
  BY <1>1 DEF PageOf

\* The page at hand stays there.
LEMMA SamePage ==
  ASSUME MemInv, NEW p \in Procs, page' = page, ~More(p)
  PROVE  /\ page' \in [Procs -> 0 .. NFRAME] /\ \A x \in Procs \ {p} : page'[x] = page[x]
         /\ PageOK(p)' /\ PageOf(p) = {} /\ PageOf(p)' = {}
<1>1. page[p] = 0
  BY NoPage
<1> QED
  BY <1>1 DEF MemInv, MemTypes, PageOK, PageOf

\* setupkvm().
LEMMA SetupkvmStep ==
  ASSUME MemInv, NEW p \in Procs, Setupkvm(p)
  PROVE  MemInv'
<1>0. MemTypes /\ PagesOwnedOnce /\ SlotInv /\ CallInv /\ NoJunk /\ Separate
  BY Apart DEF MemInv
<1>1. job[p].pc = "dir" /\ pipe' = pipe /\ job[p].pc \in Building
  BY DEF Setupkvm, Building
<1>2. CASE Kalloc = {}
  BY <1>1, <1>2, BadStep DEF Setupkvm
<1>3. CASE Kalloc # {}
  <2>1. PICK x \in free : Kalloc = {x}
    BY <1>0, <1>3, KallocOne DEF MemTypes
  <2>2. x \in Frames /\ x \in Nat
    BY <1>0, <2>1, MemConsts DEF MemTypes, Frames
  <2>3. Min({x}) = x
    BY <2>2, Only
  <2> DEFINE t == new[p]
             u == IF t.dir = 0 THEN [t EXCEPT !.dir = x] ELSE [t EXCEPT !.ktab = @ \cup {x}]
  <2>4. /\ SetM(Take({x}, "zero")) /\ new' = [new EXCEPT ![p] = u]
        /\ UNCHANGED <<pipe, pd, sz, kstack, st, page>>
        /\ \/ job' = job
           \/ job[p].call = "fork" /\ job' = [job EXCEPT ![p].pc = "copy"]
           \/ job[p].call # "fork" /\ job' = [job EXCEPT ![p].pc = "load", ![p].to = job[p].img]
    BY <1>3, <2>1, <2>3 DEF Setupkvm, Goto
  <2>5. free' = free \ {x} /\ free' \subseteq Frames /\ mem' \in [Frames -> Contents] /\ Keeps /\ NoJunk'
    <3>1. {x} \in SUBSET free /\ "zero" \in Contents \ {"junk"}
      BY DEF Contents
    <3> QED
      BY <1>0, <2>4, <3>1, Taking, Zenon
  <2>6. u \in Table /\ NoAlias(u) /\ FramesOf(u) = FramesOf(t) \cup {x} /\ u.pg = t.pg
    <3>1. t \in Table /\ NoAlias(t) /\ x \notin FramesOf(t)
      BY <1>0 DEF MemTypes, PagesOwnedOnce, Separate
    <3> QED
      BY <2>2, <3>1, KernelTable
  <2>7. SizeOK(job[p], pd[p].pg, u.pg, sz[p])
    BY <1>0, <1>1, <2>6 DEF CallInv, Fine, SlotInv
  <2>8. job[p] \in Job /\ job[p].call \in {"fork", "exec"}
    BY <1>0, <1>1 DEF MemTypes, SlotInv
  <2>9. DOMAIN u.pg = {} /\ job[p].a = 0
    BY <1>1, <2>7, MemConsts DEF SizeOK, Building, Below, Pages, PG
  <2> HIDE DEF t, u
  <2>10. \E j \in Job :
           /\ job' = [job EXCEPT ![p] = j] /\ j.call = job[p].call /\ j.q = job[p].q /\ j.old = job[p].old
           /\ j.a = 0 /\ (j.pc = "dir" \/ (j.pc = "copy" /\ j.call = "fork") \/ (j.pc = "load" /\ j.call = "exec"))
    <3>1. CASE job' = job
      <4>1. job' = [job EXCEPT ![p] = job[p]]
        BY <1>0, <3>1 DEF MemTypes
      <4> QED
        BY <1>1, <2>8, <2>9, <4>1
    <3>2. CASE job[p].call = "fork" /\ job' = [job EXCEPT ![p].pc = "copy"]
      <4> DEFINE j == [job[p] EXCEPT !.pc = "copy"]
      <4>1. j \in Job /\ j.call = job[p].call /\ j.q = job[p].q /\ j.old = job[p].old /\ j.a = job[p].a /\ j.pc = "copy"
        BY <2>8 DEF Job, Building
      <4>2. job' = [job EXCEPT ![p] = j]
        BY <3>2
      <4> HIDE DEF j
      <4> QED
        BY <2>9, <3>2, <4>1, <4>2
    <3>3. CASE job[p].call # "fork" /\ job' = [job EXCEPT ![p].pc = "load", ![p].to = job[p].img]
      <4> DEFINE j == [job[p] EXCEPT !.pc = "load", !.to = job[p].img]
      <4>1. j \in Job /\ j.call = job[p].call /\ j.q = job[p].q /\ j.old = job[p].old /\ j.a = job[p].a /\ j.pc = "load"
        BY <2>8 DEF Job, Building
      <4>2. job' = [job EXCEPT ![p] = j]
        BY <3>3
      <4> HIDE DEF j
      <4> QED
        BY <2>8, <2>9, <3>3, <4>1, <4>2
    <3> QED
      BY <2>4, <3>1, <3>2, <3>3
  <2>11. PICK j \in Job :
           /\ job' = [job EXCEPT ![p] = j] /\ j.call = job[p].call /\ j.q = job[p].q /\ j.old = job[p].old
           /\ j.a = 0 /\ (j.pc = "dir" \/ (j.pc = "copy" /\ j.call = "fork") \/ (j.pc = "load" /\ j.call = "exec"))
    BY <2>10
  <2>12. SizeOK(j, pd[p].pg, u.pg, sz[p])
    <3>1. j.to \in Nat /\ sz[p] \in Nat
      BY <1>0 DEF MemTypes, Job
    <3>2. sz[p] <= KERNBASE /\ DOMAIN pd[p].pg = Below(sz[p]) /\ DOMAIN u.pg = Below(0) /\ Even(0)
      BY <1>1, <2>7, <2>9 DEF SizeOK, Building
    <3> QED
      BY <2>11, <3>1, <3>2 DEF SizeOK, PG
  <2> QED
    <3>1. ~More(p)
      BY <1>1 DEF More
    <3>5. /\ page' \in [Procs -> 0 .. NFRAME] /\ \A y \in Procs \ {p} : page'[y] = page[y]
          /\ PageOK(p)' /\ PageOf(p) = {} /\ PageOf(p)' = {}
      BY <2>4, <3>1, SamePage
    <3>2. u \in Table /\ NoAlias(u) /\ ShareOut(p, u, new[p])
      <4>1. x \in free /\ FramesOf(new[p]) \cap free = {} /\ FramesOf(u) = FramesOf(new[p]) \cup {x}
        BY <1>0, <2>1, <2>6 DEF Separate, t
      <4> QED
        BY <2>5, <2>6, <3>5, <4>1 DEF ShareOut
    <3>3. j.pc \in Building
      BY <2>11 DEF Building
    <3>4. j.pc \in {"copy", "start"} =>
           \A v \in DOMAIN u.pg : v \in DOMAIN pd[p].pg /\ mem'[u.pg[v]] = mem[pd[p].pg[v]]
      BY <2>9
    <3> QED
      BY <1>1, <2>4, <2>5, <2>11, <2>12, <3>2, <3>3, <3>4, <3>5, BuildStep
<1> QED
  BY <1>2, <1>3

\* The table p builds, and what p's call knows about it.
LEMMA BuildFacts ==
  ASSUME MemInv, NEW p \in Procs, job[p].pc \in Building
  PROVE  /\ MemTypes /\ PagesOwnedOnce /\ SlotInv /\ CallInv /\ NoJunk /\ Separate
         /\ st[p] = "run" /\ job[p] \in Job /\ job[p].a \in Nat /\ job[p].to \in Nat /\ sz[p] \in Nat
         /\ new[p] \in Table /\ pd[p] \in Table /\ NoAlias(new[p]) /\ NoAlias(pd[p])
         /\ FramesOf(new[p]) \cap free = {} /\ PageOK(p)
         /\ SizeOK(job[p], pd[p].pg, new[p].pg, sz[p]) /\ DataOK(job[p], pd[p].pg, new[p].pg, sz[p], mem)
         /\ DOMAIN new[p].pg = Below(job[p].a) /\ Even(job[p].a) /\ DOMAIN pd[p].pg = Below(sz[p]) /\ sz[p] <= KERNBASE
<1>0. MemTypes /\ PagesOwnedOnce /\ SlotInv /\ CallInv /\ NoJunk /\ Separate
  BY Apart DEF MemInv
<1>1. st[p] = "run"
  BY <1>0 DEF SlotInv, Building
<1>2. job[p] \in Job /\ sz[p] \in Nat /\ new[p] \in Table /\ pd[p] \in Table
  BY <1>0 DEF MemTypes
<1>3. job[p].a \in Nat /\ job[p].to \in Nat
  BY <1>2 DEF Job
<1>4. NoAlias(new[p]) /\ NoAlias(pd[p]) /\ FramesOf(new[p]) \cap free = {}
  BY <1>0 DEF PagesOwnedOnce, Separate
<1>5. SizeOK(job[p], pd[p].pg, new[p].pg, sz[p]) /\ DataOK(job[p], pd[p].pg, new[p].pg, sz[p], mem)
  BY <1>0, <1>1 DEF CallInv, Fine
<1>7. PageOK(p)
  BY <1>0, <1>1 DEF CallInv, Fine
<1>6. DOMAIN new[p].pg = Below(job[p].a) /\ Even(job[p].a) /\ DOMAIN pd[p].pg = Below(sz[p]) /\ sz[p] <= KERNBASE
  BY <1>5 DEF SizeOK, Building
<1> QED
  BY <1>0, <1>1, <1>2, <1>3, <1>4, <1>5, <1>6, <1>7

\* The loop goes to the next page.
LEMMA NextPage ==
  ASSUME MemTypes, NEW p \in Procs, job' = [job EXCEPT ![p].a = @ + PG]
  PROVE  \E j \in Job : /\ job' = [job EXCEPT ![p] = j] /\ j.a = job[p].a + PG
                        /\ j.pc = job[p].pc /\ j.call = job[p].call /\ j.q = job[p].q /\ j.old = job[p].old
                        /\ j.to = job[p].to /\ j.ok = job[p].ok
<1> DEFINE j == [job[p] EXCEPT !.a = @ + PG]
<1>1. job[p] \in Job
  BY DEF MemTypes
<1>2. /\ j \in Job /\ j.a = job[p].a + PG /\ j.pc = job[p].pc /\ j.call = job[p].call /\ j.q = job[p].q
      /\ j.old = job[p].old /\ j.to = job[p].to /\ j.ok = job[p].ok
  BY <1>1 DEF Job, PG
<1>3. job' = [job EXCEPT ![p] = j]
  OBVIOUS
<1> HIDE DEF j
<1> QED
  BY <1>2, <1>3

\* Which pages a program may not use is not about frames.
LEMMA HiddenPages ==
  ASSUME NEW t \in Table, NEW S \in SUBSET Int, NEW u, u = [t EXCEPT !.nouser = S]
  PROVE  u \in Table /\ FramesOf(u) = FramesOf(t) /\ u.pg = t.pg /\ (NoAlias(t) => NoAlias(u))
<1>1. PICK a \in 0 .. NFRAME, b \in SUBSET Frames, c \in Maps(Tabs), d \in Maps(Pages), e \in SUBSET Int :
        t = [dir |-> a, ktab |-> b, tab |-> c, pg |-> d, nouser |-> e]
  BY DEF Table
<1>2. u = [dir |-> a, ktab |-> b, tab |-> c, pg |-> d, nouser |-> S]
  BY <1>1
<1>3. /\ u.dir = t.dir /\ u.ktab = t.ktab /\ u.tab = t.tab /\ u.pg = t.pg
  BY <1>1, <1>2
<1>4. u \in Table
  BY <1>2 DEF Table
<1> QED
  BY <1>3, <1>4, Zenon DEF FramesOf, NoAlias

\* What copyuvm() has copied is there in the original.
LEMMA CopiedIsThere ==
  ASSUME NEW a \in Nat, NEW n \in Nat, Even(a), a < n + PG
  PROVE  Below(a) \subseteq Below(n)
<1>1. \A y \in Pages : y * PG < a => y * PG < n
  BY DEF Even, PG, Pages
<1> QED
  BY <1>1 DEF Below

\* copyuvm() returns.
LEMMA CopyuvmStep ==
  ASSUME MemInv, NEW p \in Procs, Copyuvm(p)
  PROVE  MemInv'
<1>1. /\ job[p].pc = "copy" /\ job[p].pc \in Building /\ job[p].a >= sz[p]
      /\ job' = [job EXCEPT ![p].pc = "start"] /\ UNCHANGED <<free, mem, pipe, pd, sz, kstack, st, new, page>>
  BY DEF Copyuvm, Goto, Building
<1>2. /\ MemTypes /\ SlotInv /\ NoJunk /\ job[p] \in Job /\ job[p].a \in Nat /\ sz[p] \in Nat
      /\ new[p] \in Table /\ NoAlias(new[p]) /\ FramesOf(new[p]) \cap free = {}
      /\ SizeOK(job[p], pd[p].pg, new[p].pg, sz[p]) /\ DataOK(job[p], pd[p].pg, new[p].pg, sz[p], mem)
      /\ DOMAIN new[p].pg = Below(job[p].a) /\ Even(job[p].a) /\ DOMAIN pd[p].pg = Below(sz[p]) /\ sz[p] <= KERNBASE
  BY <1>1, BuildFacts
<1>3. job[p].call = "fork" /\ job[p].a < sz[p] + PG
  BY <1>1, <1>2 DEF SlotInv, SizeOK
<1>4. \A v \in DOMAIN new[p].pg : v \in DOMAIN pd[p].pg /\ mem'[new[p].pg[v]] = mem[pd[p].pg[v]]
  BY <1>1, <1>2, <1>3, CopiedIsThere DEF DataOK
<1>5. ~More(p)
  BY <1>1, <1>2 DEF More
<1>6. /\ page' \in [Procs -> 0 .. NFRAME] /\ \A x \in Procs \ {p} : page'[x] = page[x]
      /\ PageOK(p)' /\ PageOf(p) = {} /\ PageOf(p)' = {}
  BY <1>1, <1>5, SamePage
<1> DEFINE j == [job[p] EXCEPT !.pc = "start"]
<1>7. /\ j \in Job /\ j.call = job[p].call /\ j.q = job[p].q /\ j.old = job[p].old /\ j.a = job[p].a /\ j.pc = "start"
  BY <1>2 DEF Job, Building
<1>8. job' = [job EXCEPT ![p] = j]
  BY <1>1
<1> HIDE DEF j
<1>9. SizeOK(j, pd[p].pg, new[p].pg, sz[p])
  BY <1>1, <1>2, <1>3, <1>7 DEF SizeOK
<1>10. new' = [new EXCEPT ![p] = new[p]] /\ free' \subseteq Frames /\ ShareOut(p, new[p], new[p])
  BY <1>1, <1>2, <1>6 DEF MemTypes, ShareOut
<1>11. mem' \in [Frames -> Contents] /\ Keeps /\ NoJunk'
  BY <1>1, <1>2 DEF MemTypes, Keeps, NoJunk
<1>12. j.pc \in Building
  BY <1>7 DEF Building
<1> QED
  BY <1>1, <1>2, <1>3, <1>4, <1>6, <1>7, <1>8, <1>9, <1>10, <1>11, <1>12, BuildStep

\* exec()'s allocuvm() refuses a size, or what comes after its last turn.
LEMMA LoadStep ==
  ASSUME MemInv, NEW p \in Procs, Load(p)
  PROVE  MemInv'
<1>1. job[p].pc \in {"load", "stack"} /\ pipe' = pipe /\ job[p].pc \in Building
  BY DEF Load, Building
<1>2. /\ MemTypes /\ PagesOwnedOnce /\ SlotInv /\ CallInv /\ NoJunk /\ Separate
      /\ st[p] = "run" /\ job[p] \in Job /\ job[p].a \in Nat /\ job[p].to \in Nat /\ sz[p] \in Nat
      /\ new[p] \in Table /\ NoAlias(new[p]) /\ FramesOf(new[p]) \cap free = {}
      /\ SizeOK(job[p], pd[p].pg, new[p].pg, sz[p])
      /\ DOMAIN new[p].pg = Below(job[p].a) /\ Even(job[p].a) /\ DOMAIN pd[p].pg = Below(sz[p]) /\ sz[p] <= KERNBASE
  BY <1>1, BuildFacts
<1>3. job[p].call = "exec" /\ job[p].a < job[p].to + PG /\ (job[p].pc = "stack" => Even(job[p].to))
  BY <1>1, <1>2 DEF SlotInv, SizeOK
<1>4. KERNBASE \in Nat /\ Even(KERNBASE)
  BY MemConsts DEF KERNBASE, PG, Even
<1> DEFINE top == PGROUNDUP(job[p].to)
<1>5. CASE Bad(p)
  BY <1>1, <1>5, BadStep
<1>6. CASE /\ job[p].to < KERNBASE /\ job[p].a >= job[p].to
           /\ job' = [job EXCEPT ![p].pc = IF @ = "load" THEN "stack" ELSE "args", ![p].a = top,
                                 ![p].to = IF job[p].pc = "load" THEN top + 2 * PG ELSE top]
           /\ UNCHANGED <<free, mem, pd, sz, kstack, st, new, page>>
  <2>1. top \in Nat /\ Even(top) /\ job[p].to <= top /\ top < job[p].to + PG
    BY <1>2, Round
  <2> HIDE DEF top
  <2>2. top = job[p].a /\ top <= KERNBASE
    BY <1>2, <1>3, <1>4, <1>6, <2>1 DEF Even, PG
  <2> DEFINE l == IF job[p].pc = "load" THEN "stack" ELSE "args"
             n == IF job[p].pc = "load" THEN top + 2 * PG ELSE top
             j == [job[p] EXCEPT !.pc = l, !.a = top, !.to = n]
  <2>3. job' = [job EXCEPT ![p] = j]
    BY <1>2, <1>6 DEF MemTypes
  <2>4. n \in Nat /\ l \in Building /\ Even(n) /\ (l = "args" => n = top) /\ top < n + PG /\ l \in {"stack", "args"}
    BY <2>1 DEF Building, PG, Even
  <2> HIDE DEF l, n
  <2>5. /\ j \in Job /\ j.call = job[p].call /\ j.q = job[p].q /\ j.old = job[p].old /\ j.a = top /\ j.to = n /\ j.pc = l
    BY <1>2, <2>1, <2>4 DEF Job, Building
  <2> HIDE DEF j
  <2>6. SizeOK(j, pd[p].pg, new[p].pg, sz[p])
    BY <1>2, <2>1, <2>2, <2>4, <2>5 DEF SizeOK
  <2>7. ~More(p)
    BY <1>2, <1>6, <1>1 DEF More
  <2>11. /\ page' \in [Procs -> 0 .. NFRAME] /\ \A x \in Procs \ {p} : page'[x] = page[x]
         /\ PageOK(p)' /\ PageOf(p) = {} /\ PageOf(p)' = {}
    BY <1>6, <2>7, SamePage
  <2>12. new' = [new EXCEPT ![p] = new[p]] /\ free' \subseteq Frames /\ ShareOut(p, new[p], new[p])
    BY <1>2, <1>6, <2>11 DEF MemTypes, ShareOut
  <2>8. mem' \in [Frames -> Contents] /\ Keeps /\ NoJunk'
    BY <1>2, <1>6 DEF MemTypes, Keeps, NoJunk
  <2>9. j.pc \in Building /\ j.pc \notin {"copy", "start"} /\ j.call = "exec"
    BY <1>3, <2>4, <2>5
  <2>10. UNCHANGED <<pipe, pd, sz, kstack, st>>
    BY <1>1, <1>6
  <2> QED
    BY <1>1, <1>2, <2>3, <2>5, <2>6, <2>8, <2>9, <2>10, <2>11, <2>12, BuildStep
<1> QED
  BY <1>5, <1>6 DEF Load

\* exec() commits to the new image and frees the old one.
LEMMA ExecEndStep ==
  ASSUME MemInv, NEW p \in Procs, ExecEnd(p)
  PROVE  MemInv'
<1>1. job[p].pc = "args" /\ pipe' = pipe /\ job[p].pc \in Building
  BY DEF ExecEnd, Building
<1>2. /\ MemTypes /\ PagesOwnedOnce /\ SlotInv /\ CallInv /\ NoJunk /\ Separate
      /\ st[p] = "run" /\ job[p] \in Job /\ job[p].a \in Nat /\ job[p].to \in Nat /\ sz[p] \in Nat
      /\ new[p] \in Table /\ pd[p] \in Table /\ NoAlias(new[p]) /\ FramesOf(new[p]) \cap free = {}
      /\ SizeOK(job[p], pd[p].pg, new[p].pg, sz[p])
      /\ DOMAIN new[p].pg = Below(job[p].a)
  BY <1>1, BuildFacts
<1>3. job[p].a = job[p].to /\ job[p].to <= KERNBASE
  BY <1>1, <1>2 DEF SizeOK
<1>4. CASE Bad(p)
  BY <1>1, <1>4, BadStep
<1> DEFINE S == {job[p].to \div PG - 2}
           t == [new[p] EXCEPT !.nouser = S]
<1>5. CASE /\ pd' = [pd EXCEPT ![p] = t] /\ sz' = [sz EXCEPT ![p] = job[p].to]
           /\ SetM(Kfree(M, FramesOf(pd[p]))) /\ new' = [new EXCEPT ![p] = NoTable]
           /\ Result(p, TRUE) /\ UNCHANGED <<kstack, st, page>>
  <2>0. /\ page' \in [Procs -> 0 .. NFRAME] /\ \A x \in Procs \ {p} : page'[x] = page[x]
        /\ PageOK(p)'
    <3>1. ~More(p)
      BY <1>1 DEF More
    <3> QED
      BY <1>5, <3>1, SamePage
  <2>1. t \in Table /\ FramesOf(t) = FramesOf(new[p]) /\ t.pg = new[p].pg /\ NoAlias(t)
    <3>1. S \in SUBSET Int
      BY <1>2 DEF PG
    <3> HIDE DEF S
    <3> QED
      BY <1>2, <3>1, HiddenPages
  <2> HIDE DEF t
  <2>2. /\ pd' \in [Procs -> Table] /\ pd'[p] = t /\ \A x \in Procs \ {p} : pd'[x] = pd[x]
    BY <1>2, <1>5, <2>1 DEF MemTypes
  <2>3. /\ new' \in [Procs -> Table] /\ new'[p] = NoTable /\ \A x \in Procs \ {p} : new'[x] = new[x]
    BY <1>2, <1>5, NoTableIs DEF MemTypes
  <2>4. /\ sz' \in [Procs -> Nat] /\ sz'[p] = job[p].to /\ \A x \in Procs \ {p} : sz'[x] = sz[x]
    BY <1>2, <1>5 DEF MemTypes
  <2>5. /\ job' \in [Procs -> Job] /\ \A x \in Procs \ {p} : job'[x] = job[x]
        /\ job'[p].pc = "ret" /\ job'[p].ok = TRUE
    BY <1>2, <1>5, ResultIs
  <2>6. /\ free' = free \cup FramesOf(pd[p]) /\ free' \subseteq Frames /\ mem' \in [Frames -> Contents] /\ Keeps /\ NoJunk'
    <3>1. FramesOf(pd[p]) \in SUBSET Frames
      BY <1>2, TableIs
    <3> QED
      BY <1>2, <1>5, <3>1, Freeing, Zenon
  <2>7. MemTypes'
    BY <1>1, <1>2, <1>5, <2>0, <2>2, <2>3, <2>4, <2>5, <2>6 DEF MemTypes
  <2>8. PagesOwnedOnce'
    <3> DEFINE a == <<"free", 0>>
               b == <<"new", p>>
               c == <<"table", p>>
    <3>1. a \in Users /\ b \in Users /\ c \in Users
      BY UsersAre
    <3>2. \A u \in Users \ {a, b, c} : Held(u)' = Held(u)
      <4>1. \A x \in Procs : c = <<"table", x>> \/ pd'[x] = pd[x]
        BY <2>2
      <4>2. \A x \in Procs : b = <<"new", x>> \/ new'[x] = new[x]
        BY <2>3
      <4> QED
        BY <1>1, <1>5, <4>1, <4>2, HeldRest
    <3>3. /\ Held(a) = free /\ Held(b) = FramesOf(new[p]) /\ Held(c) = FramesOf(pd[p])
          /\ Held(a)' = free' /\ Held(b)' = {} /\ Held(c)' = FramesOf(new[p])
      BY <2>1, <2>2, <2>3, HeldIs, NoTableIs
    <3>4. Shaped'
      BY <1>2, <2>1, <2>2, <2>3, NoTableIs DEF PagesOwnedOnce, Shaped
    <3>5. FramesOf(pd[p]) \cap FramesOf(new[p]) = {}
      BY <1>2 DEF Separate
    <3> HIDE DEF a, b, c
    <3>6. /\ Held(a)' \cup Held(b)' \cup Held(c)' = Held(a) \cup Held(b) \cup Held(c)
          /\ Held(a)' \cap Held(b)' = {} /\ Held(a)' \cap Held(c)' = {} /\ Held(b)' \cap Held(c)' = {}
      BY <1>2, <2>6, <3>3, <3>5
    <3> QED
      BY <1>2, <3>1, <3>2, <3>4, <3>6, PassThree
  <2>9. SlotInv'
    <3>1. ~InFork(p)' /\ job'[p].pc \notin Building
      BY <2>5 DEF InFork, Building
    <3> QED
      BY <1>2, <1>5, <2>2, <2>3, <2>5, <3>1, SlotsStay
  <2>10. CallInv'
    <3>1. Separate'
      BY <2>8, Apart, PTL
    <3>2. \A x \in Procs \ {p} : st'[x] = "run" => Fine(x)'
      <4>1. \A x \in Procs \ {p} : /\ job'[x] = job[x] /\ pd'[x] = pd[x] /\ new'[x] = new[x] /\ sz'[x] = sz[x]
                                   /\ page'[x] = page[x]
                                   /\ st'[x] = "run" => st[x] = "run"
        BY <1>5, <2>2, <2>3, <2>4, <2>5
      <4>2. MemTypes /\ CallInv /\ Separate /\ Keeps
        BY <1>2, <2>6
      <4> QED
        BY <3>1, <4>1, <4>2, OthersFine
    <3>3. SizeOK(job'[p], pd'[p].pg, new'[p].pg, sz'[p]) /\ DataOK(job'[p], pd'[p].pg, new'[p].pg, sz'[p], mem')
      BY <1>2, <1>3, <2>1, <2>2, <2>4, <2>5 DEF SizeOK, DataOK, Building
    <3> QED
      BY <2>0, <3>2, <3>3 DEF CallInv, Fine
  <2> QED
    BY <2>6, <2>7, <2>8, <2>9, <2>10 DEF MemInv
<1> QED
  BY <1>4, <1>5 DEF ExecEnd

\* The child becomes runnable.
LEMMA ForkEndStep ==
  ASSUME MemInv, NEW p \in Procs, ForkEnd(p)
  PROVE  MemInv'
<1>1. job[p].pc = "start" /\ pipe' = pipe /\ free' = free /\ mem' = mem /\ kstack' = kstack /\ page' = page /\ job[p].pc \in Building
  BY DEF ForkEnd, Building
<1>2. /\ MemTypes /\ PagesOwnedOnce /\ SlotInv /\ CallInv /\ NoJunk /\ Separate
      /\ st[p] = "run" /\ job[p] \in Job /\ job[p].a \in Nat /\ sz[p] \in Nat
      /\ new[p] \in Table /\ NoAlias(new[p])
      /\ SizeOK(job[p], pd[p].pg, new[p].pg, sz[p])
      /\ DOMAIN new[p].pg = Below(job[p].a) /\ Even(job[p].a) /\ DOMAIN pd[p].pg = Below(sz[p]) /\ sz[p] <= KERNBASE
  BY <1>1, BuildFacts
<1>3. InFork(p)
  BY <1>1, <1>2 DEF SlotInv, InFork
<1>4. PICK q \in Procs : q = job[p].q
  BY <1>2, <1>3 DEF SlotInv
<1>5. st[q] = "embryo" /\ pd[q] = NoTable /\ job[q].pc = "idle" /\ q # p /\ kstack[q] # 0 /\ page[q] = 0
  BY <1>2, <1>3, <1>4 DEF SlotInv
<1>16. page[p] = 0
  <2>1. ~More(p)
    BY <1>1 DEF More
  <2> QED
    BY <2>1, NoPage
<1>6. /\ pd' \in [Procs -> Table] /\ pd'[q] = new[p] /\ \A x \in Procs \ {q} : pd'[x] = pd[x]
  BY <1>2, <1>4 DEF MemTypes, ForkEnd
<1>7. /\ new' \in [Procs -> Table] /\ new'[p] = NoTable /\ \A x \in Procs \ {p} : new'[x] = new[x]
  BY <1>2, NoTableIs DEF MemTypes, ForkEnd
<1>8. /\ sz' \in [Procs -> Nat] /\ sz'[q] = sz[p] /\ \A x \in Procs \ {q} : sz'[x] = sz[x]
  BY <1>2, <1>4 DEF MemTypes, ForkEnd
<1>9. /\ st' \in [Procs -> {"unused", "embryo", "run", "zombie"}]
      /\ st'[q] = "run" /\ \A x \in Procs \ {q} : st'[x] = st[x]
  BY <1>2, <1>4 DEF MemTypes, ForkEnd
<1>10. /\ job' \in [Procs -> Job] /\ \A x \in Procs \ {p} : job'[x] = job[x]
       /\ job'[p].pc = "ret" /\ job'[p].ok = TRUE
  BY <1>2, ResultIs DEF ForkEnd
<1>11. MemTypes'
  BY <1>1, <1>2, <1>6, <1>7, <1>8, <1>9, <1>10 DEF MemTypes
<1>12. PagesOwnedOnce'
  <2> DEFINE a == <<"new", p>>
             b == <<"table", q>>
  <2>1. a \in Users /\ b \in Users
    BY UsersAre
  <2>2. \A u \in Users \ {a, b} : Held(u)' = Held(u)
    <3>1. \A x \in Procs : b = <<"table", x>> \/ pd'[x] = pd[x]
      BY <1>6
    <3>2. \A x \in Procs : a = <<"new", x>> \/ new'[x] = new[x]
      BY <1>7
    <3> QED
      BY <1>1, <3>1, <3>2, HeldRest
  <2>3. Held(a) = FramesOf(new[p]) /\ Held(b) = {} /\ Held(a)' = {} /\ Held(b)' = FramesOf(new[p])
    BY <1>5, <1>6, <1>7, HeldIs, NoTableIs
  <2>4. Shaped'
    BY <1>2, <1>6, <1>7, NoTableIs DEF PagesOwnedOnce, Shaped
  <2> HIDE DEF a, b
  <2>5. Held(a)' \cup Held(b)' = Held(a) \cup Held(b) /\ Held(a)' \cap Held(b)' = {}
    BY <2>3
  <2> QED
    BY <1>2, <2>1, <2>2, <2>4, <2>5, PassTwo, Zenon
<1>13. SlotInv'
  <2>1. \A x \in Procs : InFork(x)' => x # p /\ InFork(x) /\ job'[x].q = job[x].q
    BY <1>10 DEF InFork, Building
  <2>2. \A x \in Procs : InFork(x)' => job'[x].q \in Procs /\ st'[job'[x].q] = "embryo"
    <3> SUFFICES ASSUME NEW x \in Procs, InFork(x)' PROVE job'[x].q \in Procs /\ st'[job'[x].q] = "embryo"
      OBVIOUS
    <3>1. x # p /\ job'[x].q = job[x].q /\ job[x].q \in Procs /\ st[job[x].q] = "embryo"
      BY <1>2, <2>1 DEF SlotInv
    <3>2. job[x].q # q
      BY <1>2, <1>3, <1>4, <2>1, <3>1 DEF SlotInv
    <3> QED
      BY <1>9, <3>1, <3>2
  <2>3. \A x, y \in Procs : InFork(x)' /\ InFork(y)' /\ job'[x].q = job'[y].q => x = y
    BY <1>2, <2>1 DEF SlotInv
  <2>4. \A x \in Procs : job'[x].pc # "idle" => st'[x] = "run"
    BY <1>2, <1>9, <1>10 DEF SlotInv
  <2>5. \A x \in Procs : job'[x].pc \notin Building => new'[x] = NoTable
    BY <1>2, <1>7, <1>10 DEF SlotInv
  <2>6. \A x \in Procs : st'[x] \in {"unused", "embryo"} => pd'[x] = NoTable
    BY <1>2, <1>6, <1>9 DEF SlotInv
  <2>7. \A x \in Procs : kstack'[x] = 0 <=> st'[x] = "unused"
    BY <1>1, <1>2, <1>5, <1>9 DEF SlotInv
  <2>8. \A x \in Procs : /\ job'[x].pc = "dir" => job'[x].call \in {"fork", "exec"}
                         /\ job'[x].pc \in {"copy", "start"} => job'[x].call = "fork"
                         /\ job'[x].pc \in {"load", "stack", "args"} => job'[x].call = "exec"
    BY <1>2, <1>10 DEF SlotInv
  <2>9. \A x \in Procs : st'[x] # "run" => page'[x] = 0
    BY <1>1, <1>2, <1>9 DEF SlotInv
  <2> QED
    BY <2>2, <2>3, <2>4, <2>5, <2>6, <2>7, <2>8, <2>9 DEF SlotInv
<1>14. CallInv'
  <2>1. Separate'
    BY <1>12, Apart, PTL
  <2>2. Keeps
    BY <1>1 DEF Keeps
  <2>3. \A x \in Procs \ {p, q} : st'[x] = "run" => Fine(x)'
    BY <1>1, <1>2, <1>6, <1>7, <1>8, <1>9, <1>10, <2>1, <2>2, OthersFine
  <2>4. SizeOK(job'[p], pd'[p].pg, new'[p].pg, sz'[p]) /\ DataOK(job'[p], pd'[p].pg, new'[p].pg, sz'[p], mem')
    BY <1>2, <1>5, <1>6, <1>8, <1>10 DEF SizeOK, DataOK, Building
  <2>5. DOMAIN new[p].pg = Below(sz[p])
    <3>1. sz[p] <= job[p].a /\ job[p].a < sz[p] + PG
      BY <1>1, <1>2 DEF SizeOK
    <3> QED
      BY <1>2, <3>1, BelowEven
  <2>6. SizeOK(job'[q], pd'[q].pg, new'[q].pg, sz'[q]) /\ DataOK(job'[q], pd'[q].pg, new'[q].pg, sz'[q], mem')
    BY <1>2, <1>5, <1>6, <1>8, <1>10, <2>5 DEF SizeOK, DataOK, Building
  <2>7. PageOK(p)' /\ PageOK(q)'
    BY <1>1, <1>5, <1>16 DEF PageOK
  <2> QED
    BY <2>3, <2>4, <2>6, <2>7 DEF CallInv, Fine
<1>15. NoJunk'
  BY <1>1, <1>2 DEF NoJunk
<1> QED
  BY <1>11, <1>12, <1>13, <1>14, <1>15 DEF MemInv

\* A step that changes nothing but the caller's own table, the page at hand, and its call.
LEMMA TableStep ==
  ASSUME MemInv, NEW p \in Procs, st[p] = "run", job[p].pc \notin Building, UNCHANGED <<pipe, kstack, st, new>>,
         free' \subseteq Frames, mem' \in [Frames -> Contents], Keeps, NoJunk',
         NEW t \in Table, NoAlias(t), pd' = [pd EXCEPT ![p] = t],
         page' \in [Procs -> 0 .. NFRAME], \A x \in Procs \ {p} : page'[x] = page[x], PageOK(p)',
         ShareOut(p, t, pd[p]),
         sz' \in [Procs -> Nat], \A x \in Procs \ {p} : sz'[x] = sz[x],
         job' \in [Procs -> Job], \A x \in Procs \ {p} : job'[x] = job[x],
         job'[p].pc \in Building => job'[p].pc = "dir" /\ job'[p].call = "exec",
         SizeOK(job'[p], t.pg, new[p].pg, sz'[p]), DataOK(job'[p], t.pg, new[p].pg, sz'[p], mem')
  PROVE  MemInv'
<1>0. MemTypes /\ PagesOwnedOnce /\ SlotInv /\ CallInv /\ Separate
  BY Apart DEF MemInv
<1>1. pd' \in [Procs -> Table] /\ pd'[p] = t /\ \A x \in Procs \ {p} : pd'[x] = pd[x]
  BY <1>0 DEF MemTypes
<1>2. MemTypes'
  BY <1>0, <1>1 DEF MemTypes
<1>3. PagesOwnedOnce'
  <2>1. ShareOut(p, pd'[p], pd[p])
    BY <1>1
  <2> QED
    BY <1>0, <1>1, <2>1, FreeTable
<1>4. SlotInv'
  <2>1. new'[p] = NoTable
    BY <1>0 DEF SlotInv
  <2>2. ~InFork(p)'
    BY DEF InFork
  <2>3. /\ job'[p].pc = "dir" => job'[p].call \in {"fork", "exec"}
        /\ job'[p].pc \in {"copy", "start"} => job'[p].call = "fork"
        /\ job'[p].pc \in {"load", "stack", "args"} => job'[p].call = "exec"
    BY DEF Building
  <2> QED
    BY <1>0, <1>1, <2>1, <2>2, <2>3, SlotsStay
<1>5. Separate'
  BY <1>3, Apart, PTL
<1>6. \A x \in Procs \ {p} : st'[x] = "run" => Fine(x)'
  BY <1>0, <1>1, <1>5, OthersFine
<1>7. Fine(p)'
  BY <1>1 DEF Fine
<1> QED
  BY <1>2, <1>3, <1>4, <1>6, <1>7 DEF MemInv, CallInv

\* The memory of a running process that builds no table.
LEMMA TableFacts ==
  ASSUME MemInv, NEW p \in Procs, st[p] = "run", job[p].pc \notin Building
  PROVE  /\ MemTypes /\ PagesOwnedOnce /\ SlotInv /\ CallInv /\ NoJunk /\ Separate
         /\ job[p] \in Job /\ job[p].a \in Nat /\ job[p].to \in Nat /\ sz[p] \in Nat /\ sz[p] <= KERNBASE
         /\ pd[p] \in Table /\ NoAlias(pd[p]) /\ FramesOf(pd[p]) \cap free = {} /\ FramesOf(pd[p]) \subseteq Frames
         /\ new[p] = NoTable /\ DOMAIN new[p].pg = {} /\ PageOK(p)
         /\ SizeOK(job[p], pd[p].pg, new[p].pg, sz[p]) /\ DataOK(job[p], pd[p].pg, new[p].pg, sz[p], mem)
<1>0. MemTypes /\ PagesOwnedOnce /\ SlotInv /\ CallInv /\ NoJunk /\ Separate
  BY Apart DEF MemInv
<1>1. job[p] \in Job /\ sz[p] \in Nat /\ pd[p] \in Table
  BY <1>0 DEF MemTypes
<1>2. job[p].a \in Nat /\ job[p].to \in Nat
  BY <1>1 DEF Job
<1>3. NoAlias(pd[p]) /\ FramesOf(pd[p]) \cap free = {} /\ FramesOf(pd[p]) \subseteq Frames
  BY <1>0, <1>1, TableIs DEF PagesOwnedOnce, Separate
<1>4. new[p] = NoTable /\ DOMAIN new[p].pg = {}
  BY <1>0, NoTableIs DEF SlotInv
<1>5. SizeOK(job[p], pd[p].pg, new[p].pg, sz[p]) /\ DataOK(job[p], pd[p].pg, new[p].pg, sz[p], mem)
  BY <1>0 DEF CallInv, Fine
<1>7. PageOK(p)
  BY <1>0 DEF CallInv, Fine
<1>6. sz[p] <= KERNBASE
  BY <1>5 DEF SizeOK
<1> QED
  BY <1>0, <1>1, <1>2, <1>3, <1>4, <1>5, <1>6, <1>7

\* Calls that begin or end without touching memory: Return, Exec, a failing Fork.
LEMMA JobStep ==
  ASSUME MemInv, NEW p \in Procs, st[p] = "run", job[p].pc \in {"idle", "ret"},
         UNCHANGED <<free, mem, pipe, pd, sz, kstack, st, new, page>>,
         job' \in [Procs -> Job], \A x \in Procs \ {p} : job'[x] = job[x],
         \/ job'[p].pc = "idle"
         \/ job'[p].pc = "ret" /\ job'[p].old = Seen(p)
         \/ job'[p].pc = "dir" /\ job'[p].call = "exec" /\ job'[p].a = 0 /\ job'[p].old = Seen(p)
  PROVE  MemInv'
<1>0. job[p].pc \notin Building
  BY DEF Building
<1>1. /\ MemTypes /\ PagesOwnedOnce /\ NoJunk /\ sz[p] \in Nat /\ sz[p] <= KERNBASE
      /\ pd[p] \in Table /\ NoAlias(pd[p]) /\ FramesOf(pd[p]) \cap free = {} /\ DOMAIN new[p].pg = {}
      /\ SizeOK(job[p], pd[p].pg, new[p].pg, sz[p])
  BY <1>0, TableFacts
<1>2. DOMAIN pd[p].pg = Below(sz[p])
  BY <1>1 DEF SizeOK
<1>3. Below(0) = {} /\ Even(0)
  BY MemConsts DEF Below, Pages, PG, Even
<1>4. SizeOK(job'[p], pd[p].pg, new[p].pg, sz'[p])
  BY <1>1, <1>2, <1>3 DEF SizeOK, Building
<1>5. DataOK(job'[p], pd[p].pg, new[p].pg, sz'[p], mem')
  BY DEF DataOK, Building, Seen
<1>6. pd' = [pd EXCEPT ![p] = pd[p]] /\ free' \subseteq Frames /\ mem' \in [Frames -> Contents] /\ sz' \in [Procs -> Nat]
  BY <1>1 DEF MemTypes
<1>7. Keeps /\ NoJunk'
  BY <1>1 DEF Keeps, NoJunk
<1>10. /\ page' \in [Procs -> 0 .. NFRAME] /\ \A x \in Procs \ {p} : page'[x] = page[x]
       /\ PageOK(p)' /\ PageOf(p) = {} /\ PageOf(p)' = {}
  <2>1. ~More(p)
    BY DEF More
  <2> QED
    BY <2>1, SamePage
<1>8. ShareOut(p, pd[p], pd[p])
  BY <1>1, <1>10 DEF ShareOut
<1>9. job'[p].pc \in Building => job'[p].pc = "dir" /\ job'[p].call = "exec"
  BY DEF Building
<1> QED
  BY <1>0, <1>1, <1>4, <1>5, <1>6, <1>7, <1>8, <1>9, <1>10, TableStep

\* The state of a process that is in no call.
LEMMA NoJobIs == NoJob \in Job
  BY MemConsts DEF NoJob, Job, Building

\* A call returns.
LEMMA ReturnStep ==
  ASSUME MemInv, NEW p \in Procs, Return(p)
  PROVE  MemInv'
<1>0. MemTypes /\ SlotInv
  BY DEF MemInv
<1>1. job[p].pc = "ret" /\ st[p] = "run"
  BY <1>0 DEF Return, SlotInv
<1>2. job' = [job EXCEPT ![p] = NoJob] /\ UNCHANGED <<free, mem, pipe, pd, sz, kstack, st, new, page>>
  BY DEF Return
<1>3. job' \in [Procs -> Job] /\ job'[p] = NoJob /\ \A x \in Procs \ {p} : job'[x] = job[x]
  BY <1>0, <1>2, NoJobIs, NewJob
<1>4. job'[p].pc = "idle"
  BY <1>3 DEF NoJob
<1> QED
  BY <1>1, <1>2, <1>3, <1>4, JobStep

\* exec() begins, or ends at the header.
LEMMA ExecStep ==
  ASSUME MemInv, NEW p \in Procs, NEW s \in ImageSizes, NEW good \in BOOLEAN, Exec(p, s, good)
  PROVE  MemInv'
<1>0. MemTypes /\ SlotInv /\ CallInv
  BY DEF MemInv
<1>1. job[p].pc = "idle" /\ st[p] = "run" /\ Idle(p)
  BY DEF Exec, Ready, Idle
<1>2. UNCHANGED <<free, mem, pipe, pd, sz, kstack, st, new, page>>
  BY DEF Exec
<1> DEFINE i == [NoJob EXCEPT !.call = "exec", !.img = s]
           j == IF good THEN [i EXCEPT !.pc = "dir"] ELSE [i EXCEPT !.pc = "ret", !.ok = FALSE]
           k == [j EXCEPT !.old = Seen(p)]
<1>3. j \in Job
  <2>1. s \in Nat
    BY MemConsts
  <2>2. i \in Job
    BY <2>1, NoJobIs DEF Job
  <2> HIDE DEF i
  <2> QED
    BY <2>2 DEF Job, Building
<1>4. Enter(p, j)
  BY DEF Exec
<1>5. k.old = Seen(p) /\ ((k.pc = "dir" /\ k.call = "exec" /\ k.a = 0) \/ k.pc = "ret")
  BY DEF NoJob
<1> HIDE DEF j
<1>6. job' \in [Procs -> Job] /\ job'[p] = k /\ \A x \in Procs \ {p} : job'[x] = job[x]
  BY <1>0, <1>1, <1>3, <1>4, EnterIs
<1> HIDE DEF k
<1> QED
  BY <1>1, <1>2, <1>5, <1>6, JobStep

\* deallocuvm() from a size down to another leaves what is below that.
LEMMA AboveIs ==
  ASSUME NEW t, NEW a \in Nat, NEW n \in Nat, NEW o \in Nat, DOMAIN t.pg = Below(a), n <= a, a <= o
  PROVE  Above(t, n, o) \in SUBSET DOMAIN t.pg /\ DOMAIN t.pg \ Above(t, n, o) = Below(n)
<1> DEFINE r == PGROUNDUP(n)
<1>1. r \in Nat /\ Even(r) /\ n <= r /\ r < n + PG
  BY Round
<1>2. Above(t, n, o) = {v \in DOMAIN t.pg : v * PG >= r /\ v * PG < o}
  BY DEF Above
<1> HIDE DEF r
<1>3. \A v \in Pages : v * PG < a => (~(v * PG >= r /\ v * PG < o) <=> v * PG < n)
  BY <1>1 DEF Even, PG, Pages
<1>4. \A v \in Pages : v * PG < n => v * PG < a
  BY DEF PG, Pages
<1>5. Above(t, n, o) \in SUBSET DOMAIN t.pg
  BY <1>2
<1>6. ASSUME NEW v PROVE v \in DOMAIN t.pg \ Above(t, n, o) <=> v \in Below(n)
  <2>1. v \in DOMAIN t.pg \ Above(t, n, o) <=> v \in Below(a) /\ ~(v * PG >= r /\ v * PG < o)
    BY <1>2
  <2> QED
    BY <1>3, <1>4, <2>1 DEF Below
<1> QED
  BY <1>5, <1>6

\* Pages that the caller keeps while its table changes have what they had.
LEMMA OldKept ==
  ASSUME MemTypes, Keeps, NEW p \in Procs, NEW t \in Table, free' \cap FramesOf(t) = {},
         FramesOf(pd[p]) \cap free = {}, NEW D, D \subseteq DOMAIN t.pg, D \subseteq DOMAIN pd[p].pg,
         \A v \in D : t.pg[v] = pd[p].pg[v]
  PROVE  [v \in D |-> mem'[t.pg[v]]] = [v \in D |-> mem[pd[p].pg[v]]]
<1>1. ASSUME NEW v \in D PROVE mem'[t.pg[v]] = mem[pd[p].pg[v]]
  <2>1. pd[p] \in Table
    BY DEF MemTypes
  <2>2. t.pg[v] \in Frames /\ t.pg[v] \in FramesOf(t) /\ pd[p].pg[v] \in FramesOf(pd[p]) /\ t.pg[v] = pd[p].pg[v]
    BY <2>1, TableIs
  <2> QED
    BY <2>2 DEF Keeps
<1> QED
  BY <1>1

\* growproc() has what it needs.
LEMMA GrowStep ==
  ASSUME MemInv, NEW p \in Procs, Grow(p)
  PROVE  MemInv'
<1>1. /\ job[p].pc = "map" /\ job[p].pc \notin Building /\ job[p].a >= job[p].to
      /\ sz' = [sz EXCEPT ![p] = job[p].to] /\ Result(p, TRUE)
      /\ UNCHANGED <<free, mem, pipe, pd, kstack, st, new, page>>
  BY DEF Grow, Building
<1>2. st[p] = "run"
  BY <1>1 DEF MemInv, SlotInv
<1>3. /\ MemTypes /\ NoJunk /\ job[p] \in Job /\ job[p].a \in Nat /\ job[p].to \in Nat /\ sz[p] \in Nat
      /\ pd[p] \in Table /\ NoAlias(pd[p]) /\ FramesOf(pd[p]) \cap free = {} /\ SizeOK(job[p], pd[p].pg, new[p].pg, sz[p])
  BY <1>1, <1>2, TableFacts
<1>4. DOMAIN pd[p].pg = Below(job[p].a) /\ Even(job[p].a) /\ job[p].a < job[p].to + PG /\ job[p].to <= KERNBASE
  BY <1>1, <1>3 DEF SizeOK
<1>5. sz' \in [Procs -> Nat] /\ sz'[p] = job[p].to /\ \A x \in Procs \ {p} : sz'[x] = sz[x]
  BY <1>1, <1>3 DEF MemTypes
<1>6. /\ job' \in [Procs -> Job] /\ \A x \in Procs \ {p} : job'[x] = job[x]
      /\ job'[p].pc = "ret" /\ job'[p].ok = TRUE
  BY <1>1, <1>3, ResultIs
<1>7. DOMAIN pd[p].pg = Below(job[p].to)
  BY <1>1, <1>3, <1>4, BelowEven
<1>8. SizeOK(job'[p], pd[p].pg, new[p].pg, sz'[p]) /\ DataOK(job'[p], pd[p].pg, new[p].pg, sz'[p], mem')
  BY <1>4, <1>5, <1>6, <1>7 DEF SizeOK, DataOK, Building
<1>9. pd' = [pd EXCEPT ![p] = pd[p]] /\ free' \subseteq Frames /\ mem' \in [Frames -> Contents] /\ Keeps /\ NoJunk'
  BY <1>1, <1>3 DEF MemTypes, Keeps, NoJunk
<1>10. /\ page' \in [Procs -> 0 .. NFRAME] /\ \A x \in Procs \ {p} : page'[x] = page[x]
       /\ PageOK(p)' /\ PageOf(p) = {} /\ PageOf(p)' = {}
  <2>1. ~More(p)
    BY <1>1, <1>3 DEF More
  <2> QED
    BY <1>1, <2>1, SamePage
<1>11. ShareOut(p, pd[p], pd[p])
  BY <1>1, <1>3, <1>10 DEF ShareOut
<1>12. job'[p].pc \notin Building
  BY <1>6 DEF Building
<1> QED
  BY <1>1, <1>2, <1>3, <1>5, <1>6, <1>8, <1>9, <1>10, <1>11, <1>12, TableStep

\* What a process that grows knows while it does.
LEMMA GrowFacts ==
  ASSUME MemInv, NEW p \in Procs, job[p].pc = "map"
  PROVE  /\ MemTypes /\ NoJunk /\ Separate /\ job[p].pc \notin Building /\ st[p] = "run"
         /\ job[p] \in Job /\ job[p].a \in Nat /\ job[p].to \in Nat /\ sz[p] \in Nat
         /\ pd[p] \in Table /\ NoAlias(pd[p]) /\ FramesOf(pd[p]) \cap free = {} /\ FramesOf(pd[p]) \subseteq Frames
         /\ new[p] = NoTable /\ DOMAIN new[p].pg = {} /\ PageOK(p)
         /\ SizeOK(job[p], pd[p].pg, new[p].pg, sz[p]) /\ DataOK(job[p], pd[p].pg, new[p].pg, sz[p], mem)
         /\ sz[p] <= KERNBASE /\ DOMAIN pd[p].pg = Below(job[p].a) /\ Even(job[p].a) /\ sz[p] <= job[p].a
         /\ sz[p] <= job[p].to /\ job[p].a < job[p].to + PG /\ job[p].to <= KERNBASE
         /\ job[p].old = [sz |-> sz[p], pg |-> [x \in Below(sz[p]) |-> mem[pd[p].pg[x]]]]
         /\ Below(sz[p]) \subseteq DOMAIN pd[p].pg
<1>1. st[p] = "run" /\ job[p].pc \notin Building
  BY DEF MemInv, SlotInv, Building
<1>2. /\ MemTypes /\ NoJunk /\ Separate /\ job[p] \in Job /\ job[p].a \in Nat /\ job[p].to \in Nat /\ sz[p] \in Nat
      /\ pd[p] \in Table /\ NoAlias(pd[p]) /\ FramesOf(pd[p]) \cap free = {} /\ FramesOf(pd[p]) \subseteq Frames
      /\ new[p] = NoTable /\ DOMAIN new[p].pg = {} /\ PageOK(p)
      /\ SizeOK(job[p], pd[p].pg, new[p].pg, sz[p]) /\ DataOK(job[p], pd[p].pg, new[p].pg, sz[p], mem)
  BY <1>1, TableFacts
<1>3. /\ sz[p] <= KERNBASE /\ DOMAIN pd[p].pg = Below(job[p].a) /\ Even(job[p].a) /\ sz[p] <= job[p].a
      /\ sz[p] <= job[p].to /\ job[p].a < job[p].to + PG /\ job[p].to <= KERNBASE
  BY <1>2 DEF SizeOK
<1>4. job[p].old = [sz |-> sz[p], pg |-> [x \in Below(sz[p]) |-> mem[pd[p].pg[x]]]]
  BY <1>2 DEF DataOK
<1>5. Below(sz[p]) \subseteq DOMAIN pd[p].pg
  <2>1. \A x \in Pages : x * PG < sz[p] => x * PG < job[p].a
    BY <1>2, <1>3 DEF Pages, PG
  <2> QED
    BY <1>3, <2>1 DEF Below
<1> QED
  BY <1>1, <1>2, <1>3, <1>4, <1>5

\* A turn of growproc()'s allocuvm() fails.
LEMMA UndoStep ==
  ASSUME MemInv, NEW p \in Procs, job[p].pc = "map", More(p), Undo(p), Result(p, FALSE),
         UNCHANGED <<pipe, sz, kstack, st, new>>
  PROVE  MemInv'
<1>1. /\ MemTypes /\ NoJunk /\ Separate /\ job[p].pc \notin Building /\ st[p] = "run"
      /\ job[p].a \in Nat /\ job[p].to \in Nat /\ sz[p] \in Nat
      /\ pd[p] \in Table /\ NoAlias(pd[p]) /\ FramesOf(pd[p]) \cap free = {} /\ FramesOf(pd[p]) \subseteq Frames
      /\ sz[p] <= KERNBASE /\ DOMAIN pd[p].pg = Below(job[p].a) /\ sz[p] <= job[p].a
      /\ job[p].old = [sz |-> sz[p], pg |-> [x \in Below(sz[p]) |-> mem[pd[p].pg[x]]]]
      /\ Below(sz[p]) \subseteq DOMAIN pd[p].pg
  BY GrowFacts
<1> DEFINE gone == Above(pd[p], sz[p], job[p].to)
           t == Deallocuvm(pd[p], gone)
<1>2. /\ pd' = [pd EXCEPT ![p] = t] /\ SetM(Kfree(M, PagesAt(pd[p], gone) \cup PageOf(p)))
      /\ page' = [page EXCEPT ![p] = 0]
  BY DEF Undo
<1>3. gone \in SUBSET DOMAIN pd[p].pg /\ DOMAIN pd[p].pg \ gone = Below(sz[p])
  <2>1. /\ job[p].a \in Nat /\ job[p].to \in Nat /\ sz[p] \in Nat /\ DOMAIN pd[p].pg = Below(job[p].a)
        /\ sz[p] <= job[p].a /\ job[p].a <= job[p].to
    BY <1>1 DEF More
  <2> QED
    BY <2>1, AboveIs
<1> HIDE DEF gone
<1>4. /\ t \in Table /\ NoAlias(t) /\ FramesOf(t) = FramesOf(pd[p]) \ PagesAt(pd[p], gone)
      /\ PagesAt(pd[p], gone) \subseteq FramesOf(pd[p]) /\ Dropped(t.pg, pd[p].pg, gone)
  BY <1>1, <1>3, DroppedIs
<1> HIDE DEF t
<1>5. DOMAIN t.pg = Below(sz[p]) /\ \A x \in Below(sz[p]) : t.pg[x] = pd[p].pg[x]
  BY <1>3, <1>4 DEF Dropped
<1>6. /\ page' \in [Procs -> 0 .. NFRAME] /\ page'[p] = 0 /\ (\A x \in Procs \ {p} : page'[x] = page[x])
      /\ PageOK(p)' /\ PageOf(p)' = {} /\ PageOf(p) \subseteq Frames
  <2>1. page' \in [Procs -> 0 .. NFRAME] /\ page'[p] = 0 /\ (\A x \in Procs \ {p} : page'[x] = page[x])
    BY <1>1, <1>2, MemConsts DEF MemTypes
  <2>2. page[p] \in 0 .. NFRAME
    BY <1>1 DEF MemTypes
  <2> QED
    BY <2>1, <2>2, MemConsts DEF PageOK, PageOf, Frames
<1>7. /\ free' = free \cup (PagesAt(pd[p], gone) \cup PageOf(p)) /\ free' \subseteq Frames
      /\ mem' \in [Frames -> Contents] /\ Keeps /\ NoJunk'
  <2>1. PagesAt(pd[p], gone) \cup PageOf(p) \in SUBSET Frames
    BY <1>1, <1>4, <1>6
  <2> QED
    BY <1>1, <1>2, <2>1, Freeing, Zenon
<1>8. ShareOut(p, t, pd[p]) /\ free' \cap FramesOf(t) = {}
  <2>1. PageOf(p) \cap FramesOf(pd[p]) = {}
    BY <1>1 DEF Separate
  <2> QED
    BY <1>1, <1>4, <1>6, <1>7, <2>1 DEF ShareOut
<1>9. /\ job' \in [Procs -> Job] /\ \A x \in Procs \ {p} : job'[x] = job[x]
      /\ job'[p].pc = "ret" /\ job'[p].ok = FALSE /\ job'[p].old = job[p].old
  BY <1>1, ResultIs
<1>10. SizeOK(job'[p], t.pg, new[p].pg, sz'[p])
  BY <1>1, <1>5, <1>9 DEF SizeOK, Building
<1>11. DataOK(job'[p], t.pg, new[p].pg, sz'[p], mem')
  <2>1. [x \in Below(sz[p]) |-> mem'[t.pg[x]]] = [x \in Below(sz[p]) |-> mem[pd[p].pg[x]]]
    <3>1. Below(sz[p]) \subseteq DOMAIN t.pg
      BY <1>5
    <3> QED
      BY <1>1, <1>4, <1>5, <1>7, <1>8, <3>1, OldKept
  <2>2. job'[p].old = [sz |-> sz'[p], pg |-> [x \in Below(sz'[p]) |-> mem'[t.pg[x]]]]
    BY <1>1, <1>9, <2>1
  <2> QED
    BY <1>9, <2>2 DEF DataOK, Building
<1>12. job'[p].pc \notin Building /\ sz' \in [Procs -> Nat] /\ \A x \in Procs \ {p} : sz'[x] = sz[x]
  BY <1>1, <1>9 DEF Building, MemTypes
<1> QED
  BY <1>1, <1>2, <1>4, <1>6, <1>7, <1>8, <1>9, <1>10, <1>11, <1>12, TableStep

\* A turn of a loop finds no page.
LEMMA FailStep ==
  ASSUME MemInv, NEW p \in Procs, More(p), Fail(p), pipe' = pipe
  PROVE  MemInv'
<1>1. CASE job[p].pc = "map"
  BY <1>1, UndoStep DEF Fail
<1>2. CASE job[p].pc # "map"
  <2>1. job[p].pc \in Building /\ Bad(p)
    BY <1>2 DEF More, Fail, Building
  <2> QED
    BY <2>1, BadStep
<1> QED
  BY <1>1, <1>2

\* The page that copyuvm() has come to, in the original.
LEMMA Source ==
  ASSUME MemInv, NEW p \in Procs, job[p].pc = "copy", More(p)
  PROVE  At(p) \in DOMAIN pd[p].pg /\ pd[p].pg[At(p)] \in Frames \ free
<1>1. /\ Separate /\ job[p].a \in Nat /\ sz[p] \in Nat /\ pd[p] \in Table
      /\ Even(job[p].a) /\ DOMAIN pd[p].pg = Below(sz[p]) /\ sz[p] <= KERNBASE
  <2>1. job[p].pc \in Building
    BY DEF Building
  <2> QED
    BY <2>1, BuildFacts
<1>2. job[p].a < sz[p]
  BY DEF More
<1>3. At(p) \in DOMAIN pd[p].pg
  BY <1>1, <1>2, CopySource DEF At
<1>4. FramesOf(pd[p]) \cap free = {}
  BY <1>1 DEF Separate
<1> QED
  BY <1>1, <1>3, <1>4, TableIs

\* A turn of a loop gets its page.
LEMMA KallocPageStep ==
  ASSUME MemInv, NEW p \in Procs, KallocPage(p)
  PROVE  MemInv'
<1>0. MemTypes /\ NoJunk /\ Separate /\ SlotInv
  BY Apart DEF MemInv
<1>1. More(p) /\ page[p] = 0 /\ pipe' = pipe
  BY DEF KallocPage
<1>2. CASE Kalloc = {}
  BY <1>1, <1>2, FailStep DEF KallocPage
<1>3. CASE Kalloc # {}
  <2>1. PICK x \in free : Kalloc = {x} /\ Min(Kalloc) = x
    BY <1>0, <1>3, KallocOne DEF MemTypes
  <2>2. /\ SetM(Take({x}, Fill(p))) /\ page' = [page EXCEPT ![p] = x]
        /\ UNCHANGED <<pipe, pd, sz, kstack, st, new, job>>
    BY <1>1, <1>3, <2>1 DEF KallocPage
  <2>3. x \in Frames /\ x # 0 /\ x \in 0 .. NFRAME
    BY <1>0, <2>1, MemConsts DEF MemTypes, Frames
  <2>4. Fill(p) \in Contents \ {"junk"}
    <3>1. CASE job[p].pc = "copy"
      <4>1. pd[p].pg[At(p)] \in Frames \ free
        BY <1>1, <3>1, Source
      <4> QED
        BY <1>0, <3>1, <4>1 DEF MemTypes, NoJunk, Fill
    <3>2. CASE job[p].pc # "copy"
      BY <3>2 DEF Fill, Contents
    <3> QED
      BY <3>1, <3>2
  <2>5. free' = free \ {x} /\ free' \subseteq Frames /\ mem' \in [Frames -> Contents] /\ Keeps /\ NoJunk'
    <3>1. {x} \in SUBSET free
      OBVIOUS
    <3> QED
      BY <1>0, <2>2, <2>4, <3>1, Taking, Zenon
  <2>6. /\ page' \in [Procs -> 0 .. NFRAME] /\ page'[p] = x /\ \A y \in Procs \ {p} : page'[y] = page[y]
    BY <1>0, <2>2, <2>3 DEF MemTypes
  <2>7. PageOf(p) = {} /\ PageOf(p)' = {x}
    BY <1>1, <2>3, <2>6 DEF PageOf
  <2>8. PageOK(p)'
    <3>1. More(p)'
      BY <1>1, <2>2 DEF More
    <3>2. ASSUME job[p].pc = "copy" PROVE mem'[x] = mem'[pd[p].pg[At(p)]]
      <4>1. pd[p].pg[At(p)] \in Frames \ free
        BY <1>1, <3>2, Source
      <4>2. mem'[pd[p].pg[At(p)]] = mem[pd[p].pg[At(p)]]
        BY <2>5, <4>1 DEF Keeps
      <4>3. mem'[x] = Fill(p)
        BY <2>2, <2>3 DEF SetM, Take
      <4> QED
        BY <3>2, <4>2, <4>3 DEF Fill
    <3> QED
      BY <2>2, <2>6, <3>1, <3>2 DEF PageOK, At
  <2>9. CASE job[p].pc = "map"
    <3>1. /\ job[p].pc \notin Building /\ st[p] = "run" /\ pd[p] \in Table /\ NoAlias(pd[p])
          /\ FramesOf(pd[p]) \cap free = {} /\ SizeOK(job[p], pd[p].pg, new[p].pg, sz[p])
          /\ job[p].old = [sz |-> sz[p], pg |-> [v \in Below(sz[p]) |-> mem[pd[p].pg[v]]]]
          /\ Below(sz[p]) \subseteq DOMAIN pd[p].pg
      BY <2>9, GrowFacts
    <3>2. ShareOut(p, pd[p], pd[p]) /\ free' \cap FramesOf(pd[p]) = {}
      BY <2>1, <2>5, <2>7, <3>1 DEF ShareOut
    <3>3. DataOK(job[p], pd[p].pg, new[p].pg, sz[p], mem')
      <4>1. [v \in Below(sz[p]) |-> mem'[pd[p].pg[v]]] = [v \in Below(sz[p]) |-> mem[pd[p].pg[v]]]
        BY <1>0, <2>5, <3>1, <3>2, OldKept
      <4> QED
        BY <2>9, <3>1, <4>1 DEF DataOK
    <3>4. /\ pd' = [pd EXCEPT ![p] = pd[p]] /\ sz' \in [Procs -> Nat] /\ job' \in [Procs -> Job]
          /\ job'[p].pc \notin Building
      BY <1>0, <2>2, <3>1 DEF MemTypes
    <3>5. SizeOK(job'[p], pd[p].pg, new[p].pg, sz'[p]) /\ DataOK(job'[p], pd[p].pg, new[p].pg, sz'[p], mem')
      BY <2>2, <3>1, <3>3
    <3> QED
      BY <2>2, <2>5, <2>6, <2>8, <3>1, <3>2, <3>4, <3>5, TableStep
  <2>10. CASE job[p].pc # "map"
    <3>0. job[p].pc \in Building
      BY <1>1, <2>10 DEF More, Building
    <3>1. /\ SlotInv /\ job[p] \in Job /\ job[p].a \in Nat /\ sz[p] \in Nat /\ new[p] \in Table /\ NoAlias(new[p])
          /\ FramesOf(new[p]) \cap free = {} /\ SizeOK(job[p], pd[p].pg, new[p].pg, sz[p])
          /\ DataOK(job[p], pd[p].pg, new[p].pg, sz[p], mem)
          /\ DOMAIN new[p].pg = Below(job[p].a) /\ Even(job[p].a) /\ DOMAIN pd[p].pg = Below(sz[p])
      BY <3>0, BuildFacts
    <3>2. ShareOut(p, new[p], new[p])
      BY <2>1, <2>5, <2>7, <3>1 DEF ShareOut
    <3>3. ASSUME job[p].pc \in {"copy", "start"}, NEW v \in DOMAIN new[p].pg
          PROVE  v \in DOMAIN pd[p].pg /\ mem'[new[p].pg[v]] = mem[pd[p].pg[v]]
      <4>1. job[p].a < sz[p] + PG /\ mem[new[p].pg[v]] = mem[pd[p].pg[v]]
        BY <3>1, <3>3 DEF SizeOK, DataOK
      <4>2. new[p].pg[v] \in Frames /\ new[p].pg[v] \notin free
        BY <3>1, TableIs
      <4>3. v \in DOMAIN pd[p].pg
        BY <3>1, <4>1, CopiedIsThere
      <4> QED
        BY <2>5, <4>1, <4>2, <4>3 DEF Keeps
    <3>4. new' = [new EXCEPT ![p] = new[p]] /\ job' = [job EXCEPT ![p] = job[p]]
      BY <1>0, <2>2 DEF MemTypes
    <3>5. /\ job[p].pc \in {"copy", "start"} => job[p].call = "fork"
          /\ job[p].pc \in {"load", "stack", "args"} => job[p].call = "exec"
      BY <3>1 DEF SlotInv
    <3> QED
      BY <2>2, <2>5, <2>6, <2>8, <3>0, <3>1, <3>2, <3>3, <3>4, <3>5, BuildStep
  <2> QED
    BY <2>9, <2>10
<1> QED
  BY <1>2, <1>3

\* What mappages() has, when it does not fail.
LEMMA MapFits ==
  ASSUME MemInv, NEW p \in Procs, page[p] # 0, NEW old, old = pd[p] \/ old = new[p], NEW got,
         got = IF PDX(At(p)) \in DOMAIN old.tab THEN {} ELSE Kalloc,
         PDX(At(p)) \in DOMAIN old.tab \/ got # {}
  PROVE  /\ old \in Table /\ NoAlias(old) /\ FramesOf(old) \cap free = {} /\ page[p] \notin FramesOf(old)
         /\ page[p] \in Frames \ free /\ got \in SUBSET free /\ PageOf(p) = {page[p]}
         /\ Fits(old, At(p), page[p], got)
<1>0. MemTypes /\ PagesOwnedOnce /\ Separate
  BY Apart DEF MemInv
<1>1. old \in Table /\ NoAlias(old) /\ FramesOf(old) \cap free = {}
  BY <1>0 DEF MemTypes, PagesOwnedOnce, Separate
<1>2. PageOf(p) = {page[p]} /\ page[p] \in Frames
  BY <1>0, MemConsts DEF PageOf, MemTypes, Frames
<1>3. page[p] \notin FramesOf(old) /\ page[p] \notin free
  BY <1>0, <1>2 DEF Separate
<1>4. CASE PDX(At(p)) \in DOMAIN old.tab
  BY <1>1, <1>2, <1>3, <1>4 DEF Fits
<1>5. CASE PDX(At(p)) \notin DOMAIN old.tab
  <2>1. PICK x \in free : Kalloc = {x}
    BY <1>0, <1>5, KallocOne DEF MemTypes
  <2>2. x \in Frames \ FramesOf(old) /\ got = {x} /\ x # page[p]
    BY <1>0, <1>1, <1>3, <1>5, <2>1 DEF MemTypes
  <2> QED
    BY <1>1, <1>2, <1>3, <1>5, <2>1, <2>2 DEF Fits
<1> QED
  BY <1>4, <1>5

\* The page at hand is mapped, and the loop goes on.
LEMMA MapShares ==
  ASSUME MemInv, NEW p \in Procs, page' = [page EXCEPT ![p] = 0], NEW old, NEW t, NEW got \in SUBSET free,
         free' = free \ got, FramesOf(old) \cap free = {}, page[p] \in Frames \ free, PageOf(p) = {page[p]},
         FramesOf(t) = FramesOf(old) \cup {page[p]} \cup got
  PROVE  /\ page' \in [Procs -> 0 .. NFRAME] /\ \A x \in Procs \ {p} : page'[x] = page[x]
         /\ PageOK(p)' /\ ShareOut(p, t, old) /\ free' \cap FramesOf(t) = {}
<1>1. page' \in [Procs -> 0 .. NFRAME] /\ page'[p] = 0 /\ \A x \in Procs \ {p} : page'[x] = page[x]
  BY MemConsts DEF MemInv, MemTypes
<1>2. PageOf(p)' = {}
  BY <1>1 DEF PageOf
<1> QED
  BY <1>1, <1>2 DEF PageOK, ShareOut

\* mappages() fails, or the page goes into the table and the loop goes on.
LEMMA MappagesStep ==
  ASSUME MemInv, NEW p \in Procs, Mappages(p)
  PROVE  MemInv'
<1>0. MemTypes /\ NoJunk /\ Separate
  BY Apart DEF MemInv
<1>1. page[p] # 0 /\ pipe' = pipe /\ More(p)
  BY NoPage DEF Mappages
<1> DEFINE old == IF job[p].pc = "map" THEN pd[p] ELSE new[p]
           got == IF PDX(At(p)) \in DOMAIN old.tab THEN {} ELSE Kalloc
           u == Mapped(old, At(p), page[p], got)
<1>2. CASE PDX(At(p)) \notin DOMAIN old.tab /\ got = {}
  <2>1. Fail(p)
    BY <1>2 DEF Mappages
  <2> QED
    BY <1>1, <2>1, FailStep
<1>3. CASE ~(PDX(At(p)) \notin DOMAIN old.tab /\ got = {})
  <2> DEFINE t == IF job[p].pc = "copy" /\ At(p) \in pd[p].nouser THEN [u EXCEPT !.nouser = @ \cup {At(p)}] ELSE u
  <2>1. /\ SetM(Take(got, "zero")) /\ page' = [page EXCEPT ![p] = 0]
        /\ job' = [job EXCEPT ![p].a = @ + PG] /\ UNCHANGED <<pipe, sz, kstack, st>>
        /\ job[p].pc = "map" => pd' = [pd EXCEPT ![p] = u] /\ new' = new
        /\ job[p].pc # "map" => new' = [new EXCEPT ![p] = t] /\ pd' = pd
    BY <1>1, <1>3 DEF Mappages
  <2>2. /\ old \in Table /\ NoAlias(old) /\ FramesOf(old) \cap free = {} /\ page[p] \notin FramesOf(old)
        /\ page[p] \in Frames \ free /\ got \in SUBSET free /\ PageOf(p) = {page[p]}
        /\ Fits(old, At(p), page[p], got)
    <3>1. (old = pd[p] \/ old = new[p]) /\ (PDX(At(p)) \in DOMAIN old.tab \/ got # {})
      BY <1>3
    <3> HIDE DEF old
    <3>2. got = IF PDX(At(p)) \in DOMAIN old.tab THEN {} ELSE Kalloc
      OBVIOUS
    <3> HIDE DEF got
    <3> QED
      BY <1>1, <3>1, <3>2, MapFits
  <2>3. /\ job[p].a \in Nat /\ Even(job[p].a) /\ job[p].a < KERNBASE /\ DOMAIN old.pg = Below(job[p].a)
    <3>1. CASE job[p].pc = "map"
      <4>1. /\ job[p].a \in Nat /\ job[p].to \in Nat /\ Even(job[p].a) /\ DOMAIN pd[p].pg = Below(job[p].a)
            /\ job[p].to <= KERNBASE
        BY <3>1, GrowFacts
      <4>2. job[p].a < job[p].to
        BY <1>1, <3>1 DEF More
      <4> QED
        BY <3>1, <4>1, <4>2, MemConsts DEF KERNBASE, PG
    <3>2. CASE job[p].pc # "map"
      <4>0. job[p].pc \in Building
        BY <1>1, <3>2 DEF More, Building
      <4>1. /\ job[p].a \in Nat /\ job[p].to \in Nat /\ sz[p] \in Nat /\ Even(job[p].a)
            /\ DOMAIN new[p].pg = Below(job[p].a) /\ sz[p] <= KERNBASE
        BY <4>0, BuildFacts
      <4>2. job[p].a < sz[p] \/ (job[p].a < job[p].to /\ job[p].to < KERNBASE)
        BY <1>1, <3>2 DEF More
      <4> QED
        BY <3>2, <4>1, <4>2, MemConsts DEF KERNBASE, PG
    <3> QED
      BY <3>1, <3>2
  <2>4. /\ At(p) \in Pages \ Below(job[p].a) /\ Below(job[p].a + PG) = Below(job[p].a) \cup {At(p)}
        /\ job[p].a + PG \in Nat /\ Even(job[p].a + PG)
    BY <2>3, BelowNext DEF At
  <2> HIDE DEF old, got
  <2>5. /\ u \in Table /\ NoAlias(u) /\ FramesOf(u) = FramesOf(old) \cup {page[p]} \cup got
        /\ Added(u.pg, old.pg, At(p), page[p])
    BY <2>2, <2>3, <2>4, MappedIs
  <2> HIDE DEF u
  <2>6. /\ t \in Table /\ NoAlias(t) /\ FramesOf(t) = FramesOf(old) \cup {page[p]} \cup got
        /\ Added(t.pg, old.pg, At(p), page[p])
    <3>1. CASE job[p].pc = "copy" /\ At(p) \in pd[p].nouser
      <4>1. u.nouser \cup {At(p)} \in SUBSET Int
        BY <2>4, <2>5, TableIs DEF Pages
      <4>2. t = [u EXCEPT !.nouser = u.nouser \cup {At(p)}]
        BY <3>1
      <4> HIDE DEF t
      <4>3. t \in Table /\ FramesOf(t) = FramesOf(u) /\ t.pg = u.pg /\ (NoAlias(u) => NoAlias(t))
        BY <2>5, <4>1, <4>2, HiddenPages
      <4> QED
        BY <2>5, <4>3
    <3>2. CASE ~(job[p].pc = "copy" /\ At(p) \in pd[p].nouser)
      BY <2>5, <3>2
    <3> QED
      BY <3>1, <3>2
  <2> HIDE DEF t
  <2>7. free' = free \ got /\ free' \subseteq Frames /\ mem' \in [Frames -> Contents] /\ Keeps /\ NoJunk'
    <3>1. got \in SUBSET free /\ "zero" \in Contents \ {"junk"}
      BY <2>2 DEF Contents
    <3> QED
      BY <1>0, <2>1, <3>1, Taking, Zenon
  <2>8. PICK j \in Job :
          /\ job' = [job EXCEPT ![p] = j] /\ j.a = job[p].a + PG /\ j.to = job[p].to
          /\ j.pc = job[p].pc /\ j.call = job[p].call /\ j.q = job[p].q /\ j.old = job[p].old
    BY <1>0, <2>1, NextPage
  <2>9. CASE job[p].pc = "map"
    <3>1. /\ job[p].pc \notin Building /\ st[p] = "run" /\ job[p].to \in Nat /\ sz[p] \in Nat
          /\ SizeOK(job[p], pd[p].pg, new[p].pg, sz[p])
          /\ sz[p] <= KERNBASE /\ sz[p] <= job[p].a /\ sz[p] <= job[p].to /\ job[p].to <= KERNBASE
          /\ job[p].old = [sz |-> sz[p], pg |-> [x \in Below(sz[p]) |-> mem[pd[p].pg[x]]]]
          /\ Below(sz[p]) \subseteq DOMAIN pd[p].pg
      BY <2>9, GrowFacts
    <3>2. old = pd[p] /\ pd' = [pd EXCEPT ![p] = u] /\ new' = new /\ job[p].a < job[p].to
      BY <1>1, <2>1, <2>9 DEF old, More
    <3>3. /\ page' \in [Procs -> 0 .. NFRAME] /\ (\A x \in Procs \ {p} : page'[x] = page[x])
          /\ PageOK(p)' /\ ShareOut(p, u, pd[p]) /\ free' \cap FramesOf(u) = {}
      BY <2>1, <2>2, <2>5, <2>7, <3>2, MapShares
    <3>4. job' \in [Procs -> Job] /\ job'[p] = j /\ \A x \in Procs \ {p} : job'[x] = job[x]
      BY <1>0, <2>8, NewJob
    <3>5. SizeOK(j, u.pg, new[p].pg, sz[p])
      <4>1. DOMAIN u.pg = Below(j.a) /\ Even(j.a)
        BY <2>3, <2>4, <2>5, <2>8 DEF Added
      <4>2. j.a < j.to + PG /\ sz[p] <= j.a
        BY <2>3, <2>8, <3>1, <3>2 DEF PG
      <4> QED
        BY <2>8, <2>9, <3>1, <4>1, <4>2 DEF SizeOK, Building
    <3>6. DataOK(j, u.pg, new[p].pg, sz[p], mem')
      <4>1. [x \in Below(sz[p]) |-> mem'[u.pg[x]]] = [x \in Below(sz[p]) |-> mem[pd[p].pg[x]]]
        <5>1. Below(sz[p]) \subseteq DOMAIN u.pg /\ \A x \in Below(sz[p]) : u.pg[x] = pd[p].pg[x]
          BY <2>5, <3>1, <3>2 DEF Added
        <5>2. FramesOf(pd[p]) \cap free = {}
          BY <2>2, <3>2
        <5> QED
          BY <1>0, <2>5, <2>7, <3>1, <3>3, <5>1, <5>2, OldKept
      <4>2. j.old = [sz |-> sz[p], pg |-> [x \in Below(sz[p]) |-> mem'[u.pg[x]]]]
        BY <2>8, <3>1, <4>1
      <4> QED
        BY <2>8, <2>9, <4>2 DEF DataOK, Building
    <3>7. /\ job'[p].pc \notin Building /\ sz' \in [Procs -> Nat] /\ \A x \in Procs \ {p} : sz'[x] = sz[x]
      BY <1>0, <2>1, <2>8, <3>1, <3>4 DEF MemTypes
    <3>8. SizeOK(job'[p], u.pg, new[p].pg, sz'[p]) /\ DataOK(job'[p], u.pg, new[p].pg, sz'[p], mem')
      BY <2>1, <3>4, <3>5, <3>6
    <3> QED
      BY <2>1, <2>5, <2>7, <3>1, <3>2, <3>3, <3>4, <3>7, <3>8, TableStep
  <2>10. CASE job[p].pc # "map"
    <3>0. job[p].pc \in Building
      BY <1>1, <2>10 DEF More, Building
    <3>1. /\ SlotInv /\ job[p].to \in Nat /\ sz[p] \in Nat /\ new[p] \in Table /\ FramesOf(new[p]) \cap free = {}
          /\ SizeOK(job[p], pd[p].pg, new[p].pg, sz[p]) /\ DataOK(job[p], pd[p].pg, new[p].pg, sz[p], mem) /\ PageOK(p)
          /\ DOMAIN new[p].pg = Below(job[p].a) /\ DOMAIN pd[p].pg = Below(sz[p]) /\ sz[p] <= KERNBASE
      BY <3>0, BuildFacts
    <3>2. old = new[p] /\ new' = [new EXCEPT ![p] = t] /\ UNCHANGED <<pipe, pd, sz, kstack, st>>
      BY <2>1, <2>10 DEF old
    <3>3. /\ page' \in [Procs -> 0 .. NFRAME] /\ (\A x \in Procs \ {p} : page'[x] = page[x])
          /\ PageOK(p)' /\ ShareOut(p, t, new[p]) /\ free' \cap FramesOf(t) = {}
      BY <2>1, <2>2, <2>6, <2>7, <3>2, MapShares
    <3>4. SizeOK(j, pd[p].pg, t.pg, sz[p])
      <4>1. DOMAIN t.pg = Below(j.a) /\ Even(j.a)
        BY <2>3, <2>4, <2>6, <2>8 DEF Added
      <4>2. /\ j.pc = "copy" => j.a < sz[p] + PG
            /\ j.pc \in {"load", "stack"} => j.a < j.to + PG
        BY <1>1, <2>3, <2>8, <3>1 DEF More, PG
      <4>3. j.pc \in {"copy", "load", "stack"}
        BY <1>1, <2>8, <2>10 DEF More
      <4>4. j.pc = "stack" => Even(j.to)
        BY <2>8, <3>1 DEF SizeOK
      <4> QED
        BY <3>1, <4>1, <4>2, <4>3, <4>4 DEF SizeOK
    <3>5. ASSUME job[p].pc = "copy", NEW w \in DOMAIN t.pg
          PROVE  w \in DOMAIN pd[p].pg /\ mem'[t.pg[w]] = mem[pd[p].pg[w]]
      <4>1. CASE w = At(p)
        <5>1. t.pg[w] = page[p]
          BY <2>6, <4>1 DEF Added
        <5>2. mem'[page[p]] = mem[page[p]]
          BY <2>2, <2>7 DEF Keeps
        <5>3. mem[page[p]] = mem[pd[p].pg[At(p)]]
          BY <1>1, <3>1, <3>5 DEF PageOK
        <5>4. At(p) \in DOMAIN pd[p].pg
          BY <1>1, <3>5, Source
        <5> QED
          BY <4>1, <5>1, <5>2, <5>3, <5>4
      <4>2. CASE w # At(p)
        <5>1. w \in DOMAIN new[p].pg /\ t.pg[w] = new[p].pg[w]
          BY <2>6, <3>2, <4>2 DEF Added
        <5>2. new[p].pg[w] \in Frames /\ new[p].pg[w] \notin free
          BY <3>1, <5>1, TableIs
        <5>3. mem'[new[p].pg[w]] = mem[new[p].pg[w]]
          BY <2>7, <5>2 DEF Keeps
        <5>4. mem[new[p].pg[w]] = mem[pd[p].pg[w]]
          BY <3>1, <3>5, <5>1 DEF DataOK
        <5>5. w \in DOMAIN pd[p].pg
          <6>1. job[p].a < sz[p] + PG
            BY <3>1, <3>5 DEF SizeOK
          <6> QED
            BY <2>3, <3>1, <5>1, <6>1, CopiedIsThere
        <5> QED
          BY <5>1, <5>3, <5>4, <5>5
      <4> QED
        BY <4>1, <4>2
    <3>6. /\ j.pc \in Building /\ j.pc # "start"
          /\ j.pc \in {"copy", "start"} => j.call = "fork"
          /\ j.pc \in {"load", "stack", "args"} => j.call = "exec"
      BY <1>1, <2>8, <3>0, <3>1 DEF SlotInv, More
    <3>7. j.pc \in {"copy", "start"} =>
            \A w \in DOMAIN t.pg : w \in DOMAIN pd[p].pg /\ mem'[t.pg[w]] = mem[pd[p].pg[w]]
      BY <2>8, <3>5, <3>6
    <3> QED
      BY <2>6, <2>7, <2>8, <3>0, <3>2, <3>3, <3>4, <3>6, <3>7, BuildStep
  <2> QED
    BY <2>9, <2>10
<1> QED
  BY <1>2, <1>3

\* sbrk() gives memory back, fails, or begins to grow.
LEMMA SbrkStep ==
  ASSUME MemInv, NEW p \in Procs, NEW n \in SbrkArgs, Sbrk(p, n)
  PROVE  MemInv'
<1>1. job[p].pc = "idle" /\ st[p] = "run" /\ Idle(p) /\ job[p].pc \notin Building /\ UNCHANGED <<pipe, kstack, st, new, page>>
  BY DEF Sbrk, Ready, Idle, Building
<1>2. /\ MemTypes /\ CallInv /\ NoJunk /\ sz[p] \in Nat /\ sz[p] <= KERNBASE
      /\ pd[p] \in Table /\ NoAlias(pd[p]) /\ FramesOf(pd[p]) \cap free = {} /\ FramesOf(pd[p]) \subseteq Frames
      /\ DOMAIN new[p].pg = {} /\ SizeOK(job[p], pd[p].pg, new[p].pg, sz[p])
  BY <1>1, TableFacts
<1>3. DOMAIN pd[p].pg = Below(sz[p])
  BY <1>1, <1>2 DEF SizeOK
<1>4. n \in Int /\ KERNBASE \in Nat /\ sz \in [Procs -> Nat]
  BY <1>2, MemConsts DEF KERNBASE, PG, MemTypes
<1> DEFINE newsz == sz[p] + n
           less == n < 0 /\ newsz > 0
           zero == n < 0 /\ newsz = 0
           gone == IF n < 0 /\ newsz >= 0 THEN Above(pd[p], newsz, sz[p]) ELSE {}
           left == IF zero THEN 0 ELSE sz'[p]
           t == Deallocuvm(pd[p], gone)
           r == PGROUNDUP(sz[p])
           i == [NoJob EXCEPT !.call = "sbrk"]
           j == IF zero THEN [i EXCEPT !.pc = "lost", !.ok = FALSE, !.a = -n]
                ELSE IF n <= 0 THEN [i EXCEPT !.pc = "ret"]
                ELSE IF newsz >= KERNBASE THEN [i EXCEPT !.pc = "ret", !.ok = FALSE]
                ELSE [i EXCEPT !.pc = "map", !.a = r, !.to = newsz]
<1>5. /\ SetM(Kfree(M, PagesAt(pd[p], gone))) /\ pd' = [pd EXCEPT ![p] = t]
      /\ sz' = [sz EXCEPT ![p] = IF less THEN newsz ELSE sz[p]] /\ Enter(p, j)
  BY DEF Sbrk
<1>6. r \in Nat /\ Even(r) /\ sz[p] <= r /\ r < sz[p] + PG /\ Below(r) = Below(sz[p])
  BY <1>2, Round, BelowEven
<1>7. newsz \in Int /\ (n > 0 => newsz \in Nat) /\ (less => newsz \in Nat /\ newsz <= sz[p]) /\ (n >= 0 => ~less)
      /\ (zero => ~less /\ -n = sz[p] /\ newsz \in Nat /\ newsz <= sz[p]) /\ (n < 0 /\ newsz >= 0 <=> less \/ zero)
  BY <1>2, <1>4
<1>8. sz' \in [Procs -> Nat] /\ sz'[p] = (IF less THEN newsz ELSE sz[p]) /\ \A x \in Procs \ {p} : sz'[x] = sz[x]
  BY <1>2, <1>4, <1>5, <1>7
<1>9. gone \in SUBSET DOMAIN pd[p].pg /\ DOMAIN pd[p].pg \ gone = Below(left)
  <2>1. CASE less \/ zero
    <3>1. sz[p] \in Nat /\ newsz \in Nat /\ newsz <= sz[p] /\ sz[p] <= sz[p] /\ gone = Above(pd[p], newsz, sz[p]) /\ left = newsz
      BY <1>2, <1>7, <1>8, <2>1
    <3> HIDE DEF newsz, less, zero, gone, left
    <3> QED
      BY <1>3, <3>1, AboveIs
  <2>2. CASE ~less /\ ~zero
    <3>1. gone = {} /\ left = sz[p]
      BY <1>7, <1>8, <2>2
    <3> HIDE DEF gone, left
    <3> QED
      BY <1>3, <3>1
  <2> QED
    BY <2>1, <2>2
<1> HIDE DEF gone, left
<1>10. /\ t \in Table /\ NoAlias(t) /\ FramesOf(t) = FramesOf(pd[p]) \ PagesAt(pd[p], gone)
       /\ PagesAt(pd[p], gone) \subseteq FramesOf(pd[p]) /\ Dropped(t.pg, pd[p].pg, gone)
  BY <1>2, <1>9, DroppedIs
<1> HIDE DEF t
<1>11. DOMAIN t.pg = Below(left) /\ \A x \in DOMAIN t.pg : t.pg[x] = pd[p].pg[x]
  BY <1>9, <1>10 DEF Dropped
<1>12. /\ free' = free \cup PagesAt(pd[p], gone) /\ free' \subseteq Frames /\ mem' \in [Frames -> Contents]
       /\ Keeps /\ NoJunk'
  <2>1. PagesAt(pd[p], gone) \in SUBSET Frames
    BY <1>2, <1>10
  <2> QED
    BY <1>2, <1>5, <2>1, Freeing, Zenon
<1>25. /\ page' \in [Procs -> 0 .. NFRAME] /\ (\A x \in Procs \ {p} : page'[x] = page[x])
       /\ PageOK(p)' /\ PageOf(p) = {} /\ PageOf(p)' = {}
  <2>1. ~More(p)
    BY <1>1 DEF More
  <2> QED
    BY <1>1, <2>1, SamePage
<1>13. ShareOut(p, t, pd[p]) /\ free' \cap FramesOf(t) = {}
  BY <1>2, <1>10, <1>12, <1>25 DEF ShareOut
<1> DEFINE k == [j EXCEPT !.old = Seen(p)]
<1>14. i \in Job /\ i.ok = TRUE
  BY NoJobIs DEF Job, NoJob
<1>15. j \in Job /\ /\ k.old = Seen(p)
                    /\ \/ k.pc = "lost" /\ zero /\ k.a = sz[p]
                       \/ k.pc = "ret" /\ k.ok = TRUE /\ ~zero
                       \/ k.pc = "ret" /\ ~less /\ ~zero
                       \/ k.pc = "map" /\ ~less /\ ~zero /\ k.a = r /\ k.to = newsz /\ newsz < KERNBASE /\ n > 0
  <2>0. CASE zero
    <3>1. j = [i EXCEPT !.pc = "lost", !.ok = FALSE, !.a = sz[p]]
      BY <1>7, <2>0
    <3> HIDE DEF i, newsz, zero, less
    <3> QED
      BY <1>2, <1>14, <2>0, <3>1 DEF Job
  <2>1. CASE n <= 0 /\ ~zero
    <3>1. j = [i EXCEPT !.pc = "ret"] /\ ~zero
      BY <2>1
    <3> HIDE DEF i, zero
    <3> QED
      BY <1>14, <3>1 DEF Job
  <2>2. CASE n > 0 /\ newsz >= KERNBASE
    <3>1. j = [i EXCEPT !.pc = "ret", !.ok = FALSE] /\ ~less /\ ~zero
      BY <1>4, <1>7, <2>2
    <3> HIDE DEF i, newsz, less, zero
    <3> QED
      BY <1>14, <3>1 DEF Job
  <2>3. CASE n > 0 /\ newsz < KERNBASE
    <3>1. j = [i EXCEPT !.pc = "map", !.a = r, !.to = newsz] /\ ~less /\ ~zero /\ newsz \in Nat
      BY <1>4, <1>7, <2>3
    <3> HIDE DEF i, newsz, less, zero, r
    <3> QED
      BY <1>6, <1>14, <2>3, <3>1 DEF Job
  <2>4. zero \/ (n <= 0 /\ ~zero) \/ (n > 0 /\ newsz >= KERNBASE) \/ (n > 0 /\ newsz < KERNBASE)
    BY <1>4, <1>7
  <2> HIDE DEF newsz, less, zero, r, i, j, k
  <2> QED
    BY <2>0, <2>1, <2>2, <2>3, <2>4
<1>16. Enter(p, j)
  BY <1>5
<1> HIDE DEF j, i, r
<1>17. job' \in [Procs -> Job] /\ job'[p] = k /\ \A x \in Procs \ {p} : job'[x] = job[x]
  BY <1>1, <1>2, <1>15, <1>16, EnterIs
<1> HIDE DEF k
<1>26. Below(0) = {} /\ (~zero => left = sz'[p]) /\ (zero => left = 0 /\ sz'[p] = sz[p])
  BY <1>7, <1>8, MemConsts DEF Below, Pages, PG, left
<1>18. SizeOK(k, t.pg, new[p].pg, sz'[p])
  <2>0. CASE k.pc = "lost"
    <3>1. DOMAIN t.pg = {} /\ k.a = sz'[p] /\ sz'[p] <= KERNBASE
      BY <1>2, <1>11, <1>15, <1>26, <2>0
    <3> QED
      BY <2>0, <3>1 DEF SizeOK, Building
  <2>1. CASE k.pc = "ret"
    <3>1. sz'[p] <= KERNBASE /\ left = sz'[p]
      BY <1>2, <1>4, <1>7, <1>8, <1>15, <1>26, <2>1
    <3> QED
      BY <1>11, <2>1, <3>1 DEF SizeOK, Building
  <2>2. CASE k.pc = "map"
    <3>1. /\ sz'[p] = sz[p] /\ left = sz[p] /\ k.a = r /\ k.to = newsz /\ newsz < KERNBASE /\ n > 0
      BY <1>8, <1>15, <1>26, <2>2
    <3>2. r < newsz + PG /\ sz[p] <= newsz /\ newsz <= KERNBASE
      BY <1>2, <1>4, <1>6, <3>1 DEF PG
    <3> HIDE DEF newsz, less, zero
    <3> QED
      BY <1>2, <1>6, <1>11, <2>2, <3>1, <3>2 DEF SizeOK, Building
  <2> QED
    BY <1>15, <2>0, <2>1, <2>2
<1>19. DataOK(k, t.pg, new[p].pg, sz'[p], mem')
  <2>1. CASE k.pc = "lost" \/ (k.pc = "ret" /\ k.ok = TRUE)
    BY <2>1 DEF DataOK, Building
  <2>2. CASE ~less /\ ~zero
    <3>1. sz'[p] = sz[p] /\ left = sz[p]
      BY <1>8, <1>26, <2>2
    <3>2. [x \in Below(sz[p]) |-> mem'[t.pg[x]]] = [x \in Below(sz[p]) |-> mem[pd[p].pg[x]]]
      <4>1. /\ Below(sz[p]) \subseteq DOMAIN t.pg /\ Below(sz[p]) \subseteq DOMAIN pd[p].pg
            /\ \A x \in Below(sz[p]) : t.pg[x] = pd[p].pg[x]
        BY <1>3, <1>11, <3>1
      <4> QED
        BY <1>2, <1>10, <1>12, <1>13, <4>1, OldKept
    <3>3. k.old = [sz |-> sz'[p], pg |-> [x \in Below(sz'[p]) |-> mem'[t.pg[x]]]]
      BY <1>15, <3>1, <3>2 DEF Seen
    <3>4. k.pc \notin {"copy", "start"}
      BY <1>15
    <3> QED
      BY <3>3, <3>4 DEF DataOK
  <2> QED
    BY <1>15, <2>1, <2>2
<1>20. job'[p].pc \notin Building
  BY <1>15, <1>17 DEF Building
<1>21. pd' = [pd EXCEPT ![p] = t]
  BY <1>5
<1>22. SizeOK(job'[p], t.pg, new[p].pg, sz'[p]) /\ DataOK(job'[p], t.pg, new[p].pg, sz'[p], mem')
  BY <1>17, <1>18, <1>19
<1> HIDE DEF newsz, less, zero
<1>23. sz' \in [Procs -> Nat] /\ \A x \in Procs \ {p} : sz'[x] = sz[x]
  BY <1>8
<1>24. job' \in [Procs -> Job] /\ \A x \in Procs \ {p} : job'[x] = job[x]
  BY <1>17
<1> QED
  BY <1>1, <1>10, <1>12, <1>13, <1>20, <1>21, <1>22, <1>23, <1>24, <1>25, TableStep

\* fork() finds a slot and a kernel stack, or not.
LEMMA ForkStep ==
  ASSUME MemInv, NEW p \in Procs, Fork(p)
  PROVE  MemInv'
<1>1. job[p].pc = "idle" /\ st[p] = "run" /\ Idle(p) /\ job[p].pc \notin Building /\ UNCHANGED <<pipe, pd, sz, new, page>>
  BY DEF Fork, Ready, Idle, Building
<1>2. /\ MemTypes /\ PagesOwnedOnce /\ SlotInv /\ CallInv /\ NoJunk /\ Separate /\ sz[p] \in Nat
      /\ sz[p] <= KERNBASE /\ pd[p] \in Table /\ new[p] = NoTable /\ DOMAIN new[p].pg = {}
      /\ SizeOK(job[p], pd[p].pg, new[p].pg, sz[p])
  BY <1>1, TableFacts
<1>3. DOMAIN pd[p].pg = Below(sz[p])
  BY <1>1, <1>2 DEF SizeOK
<1>7. page[p] = 0
  <2>1. ~More(p)
    BY <1>1 DEF More
  <2> QED
    BY <2>1, NoPage
<1> DEFINE slots == {q \in Procs : st[q] = "unused"}
           got == IF slots = {} THEN {} ELSE Kalloc
           i == [NoJob EXCEPT !.call = "fork"]
<1>4. i \in Job /\ i.a = 0 /\ i.call = "fork"
  BY NoJobIs DEF Job, NoJob
<1>5. CASE got = {}
  <2> DEFINE j == [i EXCEPT !.pc = "ret", !.ok = FALSE]
             k == [j EXCEPT !.old = Seen(p)]
  <2>1. Enter(p, j) /\ UNCHANGED <<free, mem, kstack, st>>
    BY <1>5 DEF Fork
  <2> HIDE DEF i
  <2>2. j \in Job /\ k.pc = "ret" /\ k.old = Seen(p)
    BY <1>4 DEF Job
  <2> HIDE DEF j
  <2>3. job' \in [Procs -> Job] /\ job'[p] = k /\ \A x \in Procs \ {p} : job'[x] = job[x]
    BY <1>1, <1>2, <2>1, <2>2, EnterIs
  <2> HIDE DEF k
  <2> QED
    BY <1>1, <2>1, <2>2, <2>3, JobStep
<1>6. CASE got # {}
  <2>1. PICK f \in free : got = {f}
    <3>1. slots # {} /\ got = Kalloc /\ free \subseteq Frames
      BY <1>2, <1>6 DEF MemTypes
    <3> QED
      BY <1>6, <3>1, KallocOne
  <2>2. f \in Frames /\ f # 0 /\ f \in Nat /\ Min(got) = f
    <3>1. f \in Frames
      BY <1>2 DEF MemTypes
    <3>2. f # 0 /\ f \in Nat
      BY <3>1, MemConsts DEF Frames
    <3> HIDE DEF got
    <3> QED
      BY <2>1, <3>1, <3>2, Only
  <2>3. PICK q \in Procs : q = Min(slots) /\ st[q] = "unused"
    <3>1. slots \subseteq Nat /\ slots # {}
      BY <1>6, MemConsts DEF Procs
    <3> QED
      BY <3>1, MinIsIn
  <2> DEFINE j == [i EXCEPT !.pc = "dir", !.q = q]
             k == [j EXCEPT !.old = Seen(p)]
  <2>4. /\ SetM(Take({f}, "data")) /\ kstack' = [kstack EXCEPT ![q] = f] /\ st' = [st EXCEPT ![q] = "embryo"]
        /\ Enter(p, j)
    BY <1>6, <2>1, <2>2, <2>3 DEF Fork
  <2> HIDE DEF got, slots, i
  <2>5. j \in Job /\ k.pc = "dir" /\ k.call = "fork" /\ k.a = 0 /\ k.q = q /\ k.old = Seen(p)
    <3>1. q \in 0 .. NPROC
      BY MemConsts DEF Procs
    <3>2. j \in Job /\ j.pc = "dir" /\ j.call = "fork" /\ j.a = 0 /\ j.q = q
      BY <1>4, <3>1 DEF Job, Building
    <3> HIDE DEF j
    <3> QED
      BY <3>2 DEF Job
  <2> HIDE DEF j
  <2>6. job' \in [Procs -> Job] /\ job'[p] = k /\ \A x \in Procs \ {p} : job'[x] = job[x]
    BY <1>1, <1>2, <2>4, <2>5, EnterIs
  <2> HIDE DEF k
  <2>7. free' = free \ {f} /\ free' \subseteq Frames /\ mem' \in [Frames -> Contents] /\ Keeps /\ NoJunk'
    <3>1. {f} \in SUBSET free /\ "data" \in Contents \ {"junk"}
      BY <2>1 DEF Contents
    <3> QED
      BY <1>2, <2>4, <3>1, Taking, Zenon
  <2>8. /\ kstack' \in [Procs -> 0 .. NFRAME] /\ kstack'[q] = f /\ \A x \in Procs \ {q} : kstack'[x] = kstack[x]
    BY <1>2, <2>2, <2>4, MemConsts DEF MemTypes, Frames
  <2>9. /\ st' \in [Procs -> {"unused", "embryo", "run", "zombie"}]
        /\ st'[q] = "embryo" /\ \A x \in Procs \ {q} : st'[x] = st[x]
    BY <1>2, <2>4 DEF MemTypes
  <2>10. kstack[q] = 0 /\ pd[q] = NoTable /\ job[q].pc = "idle" /\ q # p
    BY <1>1, <1>2, <2>3 DEF SlotInv
  <2>11. MemTypes'
    BY <1>1, <1>2, <2>6, <2>7, <2>8, <2>9 DEF MemTypes
  <2>12. PagesOwnedOnce'
    <3> DEFINE a == <<"free", 0>>
               b == <<"stack", q>>
    <3>1. a \in Users /\ b \in Users /\ a # b
      BY UsersAre
    <3>2. \A u \in Users \ {a, b} : Held(u)' = Held(u)
      <4>1. \A x \in Procs : b = <<"stack", x>> \/ kstack'[x] = kstack[x]
        BY <2>8
      <4> QED
        BY <1>1, <4>1, HeldRest
    <3>3. Held(a) = free /\ Held(b) = {} /\ Held(a)' = free \ {f} /\ Held(b)' = {f}
      BY <2>2, <2>7, <2>8, <2>10, HeldIs
    <3>4. Shaped'
      BY <1>1, <1>2 DEF PagesOwnedOnce, Shaped
    <3> HIDE DEF a, b
    <3>5. Held(a)' \cup Held(b)' = Held(a) \cup Held(b) /\ Held(a)' \cap Held(b)' = {}
      BY <2>1, <3>3
    <3> QED
      BY <1>2, <3>1, <3>2, <3>4, <3>5, PassTwo, Zenon
  <2>13. SlotInv'
    <3>1. \A x \in Procs \ {p} : InFork(x)' => InFork(x) /\ job'[x].q = job[x].q
      BY <2>6 DEF InFork
    <3>2. \A x \in Procs \ {p} : InFork(x)' => job'[x].q \in Procs /\ job'[x].q # q /\ st'[job'[x].q] = "embryo"
      <4> SUFFICES ASSUME NEW x \in Procs \ {p}, InFork(x)'
                   PROVE  job'[x].q \in Procs /\ job'[x].q # q /\ st'[job'[x].q] = "embryo"
        OBVIOUS
      <4>1. job'[x].q = job[x].q /\ job[x].q \in Procs /\ st[job[x].q] = "embryo"
        BY <1>2, <3>1 DEF SlotInv
      <4> QED
        BY <2>3, <2>9, <4>1
    <3>3. job'[p].q = q
      BY <2>5, <2>6
    <3>4. \A x \in Procs : InFork(x)' => job'[x].q \in Procs /\ st'[job'[x].q] = "embryo"
      BY <2>9, <3>2, <3>3
    <3>5. \A x, y \in Procs : InFork(x)' /\ InFork(y)' /\ job'[x].q = job'[y].q => x = y
      BY <1>2, <3>1, <3>2, <3>3 DEF SlotInv
    <3>6. \A x \in Procs : job'[x].pc # "idle" => st'[x] = "run"
      BY <1>1, <1>2, <2>6, <2>9, <2>10 DEF SlotInv
    <3>7. \A x \in Procs : job'[x].pc \notin Building => new'[x] = NoTable
      BY <1>1, <1>2, <2>6 DEF SlotInv
    <3>8. \A x \in Procs : st'[x] \in {"unused", "embryo"} => pd'[x] = NoTable
      BY <1>1, <1>2, <2>9, <2>10 DEF SlotInv
    <3>9. \A x \in Procs : kstack'[x] = 0 <=> st'[x] = "unused"
      BY <1>2, <2>2, <2>8, <2>9 DEF SlotInv
    <3>10. \A x \in Procs : job'[x].pc = "dir" => job'[x].call \in {"fork", "exec"}
      BY <1>2, <2>5, <2>6 DEF SlotInv
    <3>11. \A x \in Procs : job'[x].pc \in {"copy", "start"} => job'[x].call = "fork"
      BY <1>2, <2>5, <2>6 DEF SlotInv
    <3>12. \A x \in Procs : job'[x].pc \in {"load", "stack", "args"} => job'[x].call = "exec"
      BY <1>2, <2>5, <2>6 DEF SlotInv
    <3>13. \A x \in Procs : st'[x] # "run" => page'[x] = 0
      BY <1>1, <1>2, <2>3, <2>9 DEF SlotInv
    <3> QED
      BY <3>4, <3>5, <3>6, <3>7, <3>8, <3>9, <3>10, <3>11, <3>12, <3>13, Zenon DEF SlotInv
  <2>14. CallInv'
    <3>1. Separate'
      BY <2>12, Apart, PTL
    <3>2. \A x \in Procs \ {p} : st'[x] = "run" => Fine(x)'
      BY <1>1, <1>2, <2>6, <2>7, <2>9, <3>1, OthersFine
    <3>3. SizeOK(k, pd[p].pg, new[p].pg, sz[p])
      <4>1. Below(0) = {} /\ Even(0)
        BY MemConsts DEF Below, Pages, PG, Even
      <4> QED
        BY <1>2, <1>3, <2>5, <4>1 DEF SizeOK
    <3>4. DataOK(k, pd[p].pg, new[p].pg, sz[p], mem')
      <4>1. [v \in Below(sz[p]) |-> mem'[pd[p].pg[v]]] = [v \in Below(sz[p]) |-> mem[pd[p].pg[v]]]
        BY <1>1, <1>2, <1>3, <2>7, <3>1, OwnKept
      <4> QED
        BY <2>5, <4>1 DEF DataOK, Seen
    <3>5. PageOK(p)'
      BY <1>1, <1>7 DEF PageOK
    <3> QED
      BY <1>1, <2>6, <3>2, <3>3, <3>4, <3>5 DEF CallInv, Fine
  <2> QED
    BY <2>7, <2>11, <2>12, <2>13, <2>14 DEF MemInv
<1> QED
  BY <1>5, <1>6

\* exit(): the process keeps its memory for wait().
LEMMA ExitStep ==
  ASSUME MemInv, NEW p \in Procs, Exit(p)
  PROVE  MemInv'
<1>1. /\ job[p].pc \in {"idle", "lost"} /\ st[p] = "run" /\ UNCHANGED <<free, mem, pipe, pd, sz, kstack, new, page>>
      /\ job' = [job EXCEPT ![p] = NoJob]
  BY DEF Exit
<1>2. MemTypes /\ PagesOwnedOnce /\ SlotInv /\ CallInv /\ NoJunk /\ Separate
  BY Apart DEF MemInv
<1>3. /\ st' \in [Procs -> {"unused", "embryo", "run", "zombie"}]
      /\ st'[p] = "zombie" /\ \A x \in Procs \ {p} : st'[x] = st[x]
  BY <1>2 DEF Exit, MemTypes
<1>8. /\ job' \in [Procs -> Job] /\ job'[p].pc = "idle" /\ \A x \in Procs \ {p} : job'[x] = job[x]
  <2>1. NoJob.pc = "idle"
    BY DEF NoJob
  <2> QED
    BY <1>1, <1>2, <2>1, NoJobIs, NewJob
<1>9. page[p] = 0 /\ new[p] = NoTable
  <2>1. ~More(p) /\ job[p].pc \notin Building
    BY <1>1 DEF More, Building
  <2> QED
    BY <1>2, <2>1, NoPage DEF SlotInv
<1>4. MemTypes' /\ NoJunk'
  BY <1>1, <1>2, <1>3, <1>8 DEF MemTypes, NoJunk
<1>5. PagesOwnedOnce'
  <2>1. \A u \in Users : Held(u)' = Held(u)
    BY <1>1 DEF Held, PageOf
  <2>2. Shaped'
    BY <1>1, <1>2 DEF PagesOwnedOnce, Shaped
  <2>3. <<"free", 0>> \in Users
    BY UsersAre
  <2> QED
    BY <1>2, <2>1, <2>2, <2>3, PassTwo
<1>6. SlotInv'
  <2>1. \A x \in Procs : InFork(x)' => x # p /\ InFork(x) /\ job'[x].q = job[x].q
    BY <1>8 DEF InFork, Building
  <2>2. \A x \in Procs : InFork(x)' => job'[x].q \in Procs /\ st'[job'[x].q] = "embryo"
    BY <1>1, <1>2, <1>3, <2>1 DEF SlotInv
  <2>3. \A x \in Procs : job'[x].pc # "idle" => st'[x] = "run"
    BY <1>2, <1>3, <1>8 DEF SlotInv
  <2>6. \A x, y \in Procs : InFork(x)' /\ InFork(y)' /\ job'[x].q = job'[y].q => x = y
    BY <1>2, <2>1 DEF SlotInv
  <2>7. \A x \in Procs : job'[x].pc \notin Building => new'[x] = NoTable
    BY <1>1, <1>2, <1>8, <1>9 DEF SlotInv
  <2>8. \A x \in Procs : /\ job'[x].pc = "dir" => job'[x].call \in {"fork", "exec"}
                         /\ job'[x].pc \in {"copy", "start"} => job'[x].call = "fork"
                         /\ job'[x].pc \in {"load", "stack", "args"} => job'[x].call = "exec"
    BY <1>2, <1>8 DEF SlotInv
  <2>9. \A x \in Procs : st'[x] # "run" => page'[x] = 0
    BY <1>1, <1>2, <1>3, <1>9 DEF SlotInv
  <2>4. \A x \in Procs : st'[x] \in {"unused", "embryo"} => pd[x] = NoTable
    BY <1>2, <1>3 DEF SlotInv
  <2>5. \A x \in Procs : kstack[x] = 0 <=> st'[x] = "unused"
    BY <1>1, <1>2, <1>3 DEF SlotInv
  <2> QED
    BY <1>1, <2>2, <2>3, <2>4, <2>5, <2>6, <2>7, <2>8, <2>9 DEF SlotInv
<1>7. CallInv'
  <2>1. Keeps /\ \A x \in Procs : st'[x] = "run" => st[x] = "run"
    BY <1>1, <1>3 DEF Keeps
  <2>2. Separate'
    BY <1>5, Apart, PTL
  <2>3. \A x \in Procs \ {p} : st'[x] = "run" => Fine(x)'
    BY <1>1, <1>2, <1>8, <2>1, <2>2, OthersFine
  <2> QED
    BY <1>3, <2>3 DEF CallInv
<1> QED
  BY <1>4, <1>5, <1>6, <1>7 DEF MemInv

\* wait() frees all that a dead child had.
LEMMA WaitStep ==
  ASSUME MemInv, NEW p \in Procs, NEW q \in Procs, Wait(p, q)
  PROVE  MemInv'
<1>1. st[q] = "zombie" /\ UNCHANGED <<pipe, new, page, job>>
  BY DEF Wait
<1>2. MemTypes /\ PagesOwnedOnce /\ SlotInv /\ CallInv /\ NoJunk /\ Separate
  BY Apart DEF MemInv
<1>3. pd[q] \in Table /\ kstack[q] \in Frames /\ job[q].pc = "idle" /\ FramesOf(pd[q]) \subseteq Frames
  <2>1. kstack[q] \in 0 .. NFRAME /\ kstack[q] # 0 /\ job[q].pc = "idle" /\ pd[q] \in Table
    BY <1>1, <1>2 DEF SlotInv, MemTypes
  <2>2. kstack[q] \in Frames
    BY <2>1, MemConsts DEF Frames
  <2> QED
    BY <2>1, <2>2, TableIs
<1> DEFINE fs == FramesOf(pd[q]) \cup {kstack[q]}
<1>4. free' = free \cup fs /\ free' \subseteq Frames /\ mem' \in [Frames -> Contents] /\ Keeps /\ NoJunk'
  <2>1. fs \in SUBSET Frames /\ SetM(Kfree(M, fs))
    BY <1>3 DEF Wait
  <2> HIDE DEF fs
  <2> QED
    BY <1>2, <2>1, Freeing, Zenon
<1>5. /\ pd' \in [Procs -> Table] /\ pd'[q] = NoTable /\ \A x \in Procs \ {q} : pd'[x] = pd[x]
  BY <1>2, NoTableIs DEF Wait, MemTypes
<1>6. /\ kstack' \in [Procs -> 0 .. NFRAME] /\ kstack'[q] = 0 /\ \A x \in Procs \ {q} : kstack'[x] = kstack[x]
  BY <1>2, MemConsts DEF Wait, MemTypes
<1>7. /\ sz' \in [Procs -> Nat] /\ \A x \in Procs \ {q} : sz'[x] = sz[x]
  BY <1>2 DEF Wait, MemTypes
<1>8. /\ st' \in [Procs -> {"unused", "embryo", "run", "zombie"}]
      /\ st'[q] = "unused" /\ \A x \in Procs \ {q} : st'[x] = st[x]
  BY <1>2 DEF Wait, MemTypes
<1>9. MemTypes'
  BY <1>1, <1>2, <1>4, <1>5, <1>6, <1>7, <1>8 DEF MemTypes
<1>10. PagesOwnedOnce'
  <2> DEFINE a == <<"free", 0>>
             b == <<"table", q>>
             c == <<"stack", q>>
  <2>1. a \in Users /\ b \in Users /\ c \in Users
    BY UsersAre
  <2>2. \A u \in Users \ {a, b, c} : Held(u)' = Held(u)
    <3>1. \A x \in Procs : b = <<"table", x>> \/ pd'[x] = pd[x]
      BY <1>5
    <3>2. \A x \in Procs : c = <<"stack", x>> \/ kstack'[x] = kstack[x]
      BY <1>6
    <3> QED
      BY <1>1, <3>1, <3>2, HeldRest
  <2>3. /\ Held(a) = free /\ Held(b) = FramesOf(pd[q]) /\ Held(c) = {kstack[q]}
        /\ Held(a)' = free \cup FramesOf(pd[q]) \cup {kstack[q]} /\ Held(b)' = {} /\ Held(c)' = {}
    <3>1. kstack[q] # 0
      BY <1>3, MemConsts DEF Frames
    <3> QED
      BY <1>4, <1>5, <1>6, <3>1, HeldIs, NoTableIs
  <2>4. Shaped'
    BY <1>1, <1>2, <1>5, NoTableIs DEF PagesOwnedOnce, Shaped
  <2> HIDE DEF a, b, c
  <2>5. /\ Held(a)' \cup Held(b)' \cup Held(c)' = Held(a) \cup Held(b) \cup Held(c)
        /\ Held(a)' \cap Held(b)' = {} /\ Held(a)' \cap Held(c)' = {} /\ Held(b)' \cap Held(c)' = {}
    BY <2>3
  <2> QED
    BY <1>2, <2>1, <2>2, <2>4, <2>5, PassThree
<1>11. SlotInv'
  <2>1. \A x \in Procs : InFork(x)' <=> InFork(x)
    BY <1>1 DEF InFork
  <2>2. \A x \in Procs : InFork(x) => job[x].q \in Procs /\ st'[job[x].q] = "embryo"
    BY <1>1, <1>2, <1>8 DEF SlotInv
  <2>3. \A x \in Procs : job[x].pc # "idle" => st'[x] = "run"
    BY <1>2, <1>3, <1>8 DEF SlotInv
  <2>4. \A x \in Procs : st'[x] \in {"unused", "embryo"} => pd'[x] = NoTable
    BY <1>2, <1>5, <1>8 DEF SlotInv
  <2>5. \A x \in Procs : kstack'[x] = 0 <=> st'[x] = "unused"
    BY <1>2, <1>6, <1>8 DEF SlotInv
  <2>6. \A x \in Procs : st'[x] # "run" => page'[x] = 0
    BY <1>1, <1>2, <1>8 DEF SlotInv
  <2> QED
    BY <1>1, <1>2, <2>1, <2>2, <2>3, <2>4, <2>5, <2>6 DEF SlotInv
<1>12. CallInv'
  <2>1. Separate'
    BY <1>10, Apart, PTL
  <2>2. \A x \in Procs \ {q} : st'[x] = "run" => Fine(x)'
    BY <1>1, <1>2, <1>4, <1>5, <1>7, <1>8, <2>1, OthersFine
  <2> QED
    BY <1>8, <2>2 DEF CallInv
<1> QED
  BY <1>4, <1>9, <1>10, <1>11, <1>12 DEF MemInv

\* A program writes to its memory: nobody else sees it.
LEMMA StoreStep ==
  ASSUME MemInv, NEW p \in Procs, NEW v \in Pages, Store(p, v)
  PROVE  MemInv'
<1>1. /\ job[p].pc = "idle" /\ st[p] = "run" /\ v \in DOMAIN pd[p].pg
      /\ UNCHANGED <<free, pipe, pd, sz, kstack, st, new, page, job>>
  BY DEF Store, Idle
<1>2. MemTypes /\ PagesOwnedOnce /\ SlotInv /\ CallInv /\ NoJunk /\ Separate
  BY Apart DEF MemInv
<1>3. PICK f \in Frames : f = pd[p].pg[v] /\ f \in FramesOf(pd[p])
  BY <1>1, <1>2, TableIs DEF MemTypes
<1>4. mem' \in [Frames -> Contents] /\ mem'[f] = "data" /\ \A g \in Frames \ {f} : mem'[g] = mem[g]
  BY <1>2, <1>3 DEF Store, MemTypes, Contents
<1>5. MemTypes' /\ NoJunk'
  BY <1>1, <1>2, <1>4 DEF MemTypes, NoJunk
<1>6. PagesOwnedOnce'
  <2>1. \A u \in Users : Held(u)' = Held(u)
    BY <1>1 DEF Held, PageOf
  <2>2. Shaped'
    BY <1>1, <1>2 DEF PagesOwnedOnce, Shaped
  <2>3. <<"free", 0>> \in Users
    BY UsersAre
  <2> QED
    BY <1>2, <2>1, <2>2, <2>3, PassTwo
<1>7. SlotInv'
  <2>1. \A x \in Procs : InFork(x)' <=> InFork(x)
    BY <1>1 DEF InFork
  <2> QED
    BY <1>1, <1>2, <2>1 DEF SlotInv
<1>8. CallInv'
  <2>1. ASSUME NEW x \in Procs, x # p, st'[x] = "run" PROVE Fine(x)'
    <3>1. Fine(x)
      BY <1>1, <1>2, <2>1 DEF CallInv
    <3>2. FramesOf(pd[x]) \subseteq Frames /\ FramesOf(new[x]) \subseteq Frames
      BY <1>2, TableIs DEF MemTypes
    <3>3. f \notin FramesOf(pd[x]) /\ f \notin FramesOf(new[x])
      BY <1>2, <1>3, <2>1 DEF Separate
    <3>5. PageOf(x) \subseteq Frames /\ f \notin PageOf(x)
      BY <1>2, <1>3, MemConsts DEF Separate, PageOf, MemTypes, Frames
    <3>4. \A g \in FramesOf(pd[x]) \cup FramesOf(new[x]) \cup PageOf(x) : mem'[g] = mem[g]
      BY <1>4, <3>2, <3>3, <3>5
    <3> QED
      BY <1>1, <1>2, <3>1, <3>4, StillFine
  <2>2. Fine(p)'
    <3>1. SizeOK(job[p], pd[p].pg, new[p].pg, sz[p])
      BY <1>1, <1>2 DEF CallInv, Fine
    <3>2. DataOK(job[p], pd[p].pg, new[p].pg, sz[p], mem')
      BY <1>1 DEF DataOK, Building
    <3>3. PageOK(p)'
      <4>1. ~More(p)
        BY <1>1 DEF More
      <4> QED
        BY <1>1, <4>1, NoPage DEF PageOK
    <3> QED
      BY <1>1, <3>1, <3>2, <3>3 DEF Fine
  <2> QED
    BY <2>1, <2>2 DEF CallInv
<1> QED
  BY <1>5, <1>6, <1>7, <1>8 DEF MemInv

\* A page goes from the free list to a pipe, or back.
LEMMA PipeStep ==
  ASSUME MemInv, UNCHANGED <<pd, sz, kstack, st, new, page, job>>,
         free' \subseteq Frames, pipe' \subseteq Frames, mem' \in [Frames -> Contents], Keeps, NoJunk',
         free' \cup pipe' = free \cup pipe, free' \cap pipe' = {}
  PROVE  MemInv'
<1>1. MemTypes /\ PagesOwnedOnce /\ SlotInv /\ CallInv /\ Separate
  BY Apart DEF MemInv
<1>2. MemTypes'
  BY <1>1 DEF MemTypes
<1>3. PagesOwnedOnce'
  <2> DEFINE a == <<"free", 0>>
             b == <<"pipe", 0>>
  <2>1. 1 \in Procs
    BY MemConsts DEF Procs
  <2>2. a \in Users /\ b \in Users
    BY <2>1, UsersAre
  <2>3. \A u \in Users \ {a, b} : Held(u)' = Held(u)
    BY HeldRest
  <2>4. Held(a) = free /\ Held(b) = pipe /\ Held(a)' = free' /\ Held(b)' = pipe'
    BY <2>1, HeldIs
  <2>5. Shaped'
    BY <1>1 DEF PagesOwnedOnce, Shaped
  <2> HIDE DEF a, b
  <2>6. Held(a)' \cup Held(b)' = Held(a) \cup Held(b) /\ Held(a)' \cap Held(b)' = {}
    BY <2>4
  <2> QED
    BY <1>1, <2>2, <2>3, <2>5, <2>6, PassTwo, Zenon
<1>4. SlotInv'
  <2>1. \A x \in Procs : InFork(x)' <=> InFork(x)
    BY DEF InFork
  <2> QED
    BY <1>1, <2>1 DEF SlotInv
<1>5. CallInv'
  <2>1. Separate'
    BY <1>3, Apart, PTL
  <2>2. \A x \in Procs \ {} : st'[x] = "run" => Fine(x)'
    BY <1>1, <2>1, OthersFine
  <2> QED
    BY <2>2 DEF CallInv
<1> QED
  BY <1>2, <1>3, <1>4, <1>5 DEF MemInv

\* pipealloc() and pipeclose() of the rest of the system.
LEMMA PipesStep ==
  ASSUME MemInv, PipeTakes \/ PipeGives
  PROVE  MemInv'
<1>1. MemTypes /\ PagesOwnedOnce /\ NoJunk /\ free \subseteq Frames /\ pipe \subseteq Frames
  BY DEF MemInv, MemTypes
<1>2. free \cap pipe = {}
  <2>1. 1 \in Procs
    BY MemConsts DEF Procs
  <2>2. /\ <<"free", 0>> \in Users /\ <<"pipe", 0>> \in Users /\ Held(<<"free", 0>>) = free
        /\ Held(<<"pipe", 0>>) = pipe /\ <<"free", 0>> # <<"pipe", 0>>
    BY <2>1, UsersAre, HeldIs
  <2>3. \A u, x \in Users : u # x => Held(u) \cap Held(x) = {}
    BY <1>1 DEF PagesOwnedOnce
  <2> QED
    BY <2>2, <2>3
<1>3. CASE PipeTakes
  <2> DEFINE K == Kalloc
  <2>1. SetM(Take(K, "data")) /\ pipe' = pipe \cup K /\ UNCHANGED <<pd, sz, kstack, st, new, page, job>>
    BY <1>3 DEF PipeTakes
  <2>2. K \in SUBSET free
    BY <1>1, KallocOne
  <2> HIDE DEF K
  <2>3. free' = free \ K /\ free' \subseteq Frames /\ mem' \in [Frames -> Contents] /\ Keeps /\ NoJunk'
    <3>1. "data" \in Contents \ {"junk"}
      BY DEF Contents
    <3> QED
      BY <1>1, <2>1, <2>2, <3>1, Taking, Zenon
  <2>4. pipe' \subseteq Frames /\ free' \cup pipe' = free \cup pipe /\ free' \cap pipe' = {}
    BY <1>1, <1>2, <2>1, <2>2, <2>3
  <2> QED
    BY <2>1, <2>3, <2>4, PipeStep
<1>4. CASE PipeGives
  <2> DEFINE K == {Min(pipe)}
  <2>1. SetM(Kfree(M, K)) /\ pipe' = pipe \ K /\ UNCHANGED <<pd, sz, kstack, st, new, page, job>> /\ pipe # {}
    BY <1>4 DEF PipeGives
  <2>2. K \in SUBSET pipe
    <3>1. pipe \subseteq Nat
      BY <1>1, MemConsts DEF Frames
    <3> QED
      BY <2>1, <3>1, MinIsIn
  <2> HIDE DEF K
  <2>3. free' = free \cup K /\ free' \subseteq Frames /\ mem' \in [Frames -> Contents] /\ Keeps /\ NoJunk'
    <3>1. K \in SUBSET Frames
      BY <1>1, <2>2
    <3> QED
      BY <1>1, <2>1, <3>1, Freeing, Zenon
  <2>4. pipe' \subseteq Frames /\ free' \cup pipe' = free \cup pipe /\ free' \cap pipe' = {}
    BY <1>1, <1>2, <2>1, <2>2, <2>3
  <2> QED
    BY <2>1, <2>3, <2>4, PipeStep
<1> QED
  BY <1>3, <1>4
-----------------------------------------------------------------------------
(* The whole *)

\* The table of the first process.
InitTable ==
  [dir |-> 2, ktab |-> 3 .. (2 + KTABS), tab |-> [x \in {0} |-> 3 + KTABS], pg |-> [x \in {0} |-> 3 + KTABS + 1],
   nouser |-> {}]

\* userinit() has a directory, the kernel's tables, one table and one page.
LEMMA InitTableIs ==
  /\ InitTable \in Table /\ NoAlias(InitTable) /\ FramesOf(InitTable) = 2 .. (4 + KTABS)
  /\ DOMAIN InitTable.pg = Below(PG) /\ PG <= KERNBASE /\ 4 + KTABS <= NFRAME
<1>1. KTABS \in Nat /\ NFRAME \in Nat /\ NFRAME >= 4 + KTABS /\ NPAGE \in Nat \ {0} /\ PERTAB \in Nat \ {0}
  BY MemAssumption
<1> DEFINE g == [x \in {0} |-> 3 + KTABS]
           h == [x \in {0} |-> 3 + KTABS + 1]
<1>2. 0 \in Pages /\ 0 \in Tabs
  BY <1>1 DEF Pages, Tabs, PDX
<1>3. 3 + KTABS \in Frames /\ 3 + KTABS + 1 \in Frames /\ 3 .. (2 + KTABS) \subseteq Frames /\ 2 \in 0 .. NFRAME
  BY <1>1 DEF Frames
<1>4. g \in Maps(Tabs) /\ h \in Maps(Pages)
  <2>1. g \in [{0} -> Frames] /\ h \in [{0} -> Frames] /\ {0} \in SUBSET Tabs /\ {0} \in SUBSET Pages
    BY <1>2, <1>3
  <2> HIDE DEF g, h
  <2> QED
    BY <2>1 DEF Maps
<1>5. Range(g) = {3 + KTABS} /\ Range(h) = {3 + KTABS + 1} /\ IsInjective(g) /\ IsInjective(h) /\ DOMAIN h = {0}
  BY DEF Range, IsInjective
<1> HIDE DEF g, h
<1>6. InitTable = [dir |-> 2, ktab |-> 3 .. (2 + KTABS), tab |-> g, pg |-> h, nouser |-> {}]
  BY DEF InitTable, g, h
<1>7. /\ InitTable.dir = 2 /\ InitTable.ktab = 3 .. (2 + KTABS) /\ InitTable.tab = g /\ InitTable.pg = h
      /\ InitTable \in Table
  BY <1>3, <1>4, <1>6 DEF Table
<1>8. FramesOf(InitTable) = 2 .. (4 + KTABS)
  BY <1>1, <1>5, <1>7 DEF FramesOf
<1>9. NoAlias(InitTable)
  BY <1>1, <1>5, <1>7 DEF NoAlias
<1>10. Below(PG) = {0} /\ PG <= KERNBASE
  BY <1>1 DEF Below, Pages, PG, KERNBASE
<1> QED
  BY <1>1, <1>5, <1>7, <1>8, <1>9, <1>10

\* userinit() establishes the invariant.
LEMMA MemInitInv == MemInit => MemInv
<1> SUFFICES ASSUME MemInit PROVE MemInv
  OBVIOUS
<1>1. KTABS \in Nat /\ NFRAME \in Nat /\ NPROC \in Nat \ {0} /\ NFRAME >= 4 + KTABS
  BY MemAssumption
<1>2. 1 \in Procs
  BY <1>1 DEF Procs
<1>3. /\ InitTable \in Table /\ NoAlias(InitTable) /\ FramesOf(InitTable) = 2 .. (4 + KTABS)
      /\ DOMAIN InitTable.pg = Below(PG) /\ PG <= KERNBASE
  BY InitTableIs
<1>4. /\ pd = [p \in Procs |-> IF p = 1 THEN InitTable ELSE NoTable]
      /\ free = Frames \ 1 .. (3 + KTABS + 1)
      /\ mem = [f \in Frames |-> IF f = 3 + KTABS + 1 THEN "text" ELSE IF f <= 3 + KTABS THEN "zero" ELSE "junk"]
      /\ pipe = {} /\ sz = [p \in Procs |-> IF p = 1 THEN PG ELSE 0]
      /\ kstack = [p \in Procs |-> IF p = 1 THEN 1 ELSE 0]
      /\ st = [p \in Procs |-> IF p = 1 THEN "run" ELSE "unused"]
      /\ new = [p \in Procs |-> NoTable] /\ page = [p \in Procs |-> 0] /\ job = [p \in Procs |-> NoJob]
  BY DEF MemInit, InitTable
<1>5. /\ pd[1] = InitTable /\ (\A p \in Procs \ {1} : pd[p] = NoTable) /\ \A p \in Procs : new[p] = NoTable /\ job[p] = NoJob
  BY <1>2, <1>4
<1>6. free = Frames \ 1 .. (4 + KTABS) /\ 1 .. (4 + KTABS) \subseteq Frames
  <2>1. 3 + KTABS + 1 = 4 + KTABS
    BY <1>1
  <2> QED
    BY <1>1, <1>4, <2>1 DEF Frames
<1>7. NoJob.pc = "idle"
  BY DEF NoJob
<1>8. MemTypes
  <2>1. pd \in [Procs -> Table] /\ new \in [Procs -> Table] /\ job \in [Procs -> Job]
    BY <1>3, <1>4, NoTableIs, NoJobIs
  <2>2. free \subseteq Frames /\ pipe \subseteq Frames /\ mem \in [Frames -> Contents]
    BY <1>4, <1>6 DEF Contents
  <2>4. page \in [Procs -> 0 .. NFRAME]
    BY <1>1, <1>4
  <2>3. sz \in [Procs -> Nat] /\ kstack \in [Procs -> 0 .. NFRAME] /\ st \in [Procs -> {"unused", "embryo", "run", "zombie"}]
    BY <1>1, <1>4 DEF PG
  <2> QED
    BY <2>1, <2>2, <2>3, <2>4 DEF MemTypes
<1>9. PagesOwnedOnce
  <2>1. /\ Held(<<"free", 0>>) = free /\ Held(<<"pipe", 0>>) = {}
        /\ Held(<<"table", 1>>) = 2 .. (4 + KTABS) /\ Held(<<"stack", 1>>) = {1}
    <3>1. kstack[1] = 1 /\ pipe = {}
      BY <1>2, <1>4
    <3>2. {1} \ {0} = {1}
      OBVIOUS
    <3> QED
      BY <1>2, <1>3, <1>5, <3>1, <3>2, HeldIs
  <2>2. \A p \in Procs \ {1} : Held(<<"table", p>>) = {} /\ Held(<<"stack", p>>) = {}
    BY <1>4, <1>5, HeldIs, NoTableIs
  <2>3. \A p \in Procs : Held(<<"new", p>>) = {} /\ Held(<<"page", p>>) = {}
    <3>1. \A p \in Procs : Held(<<"page", p>>) = {}
      BY <1>4, HeldIs DEF PageOf
    <3> QED
      BY <1>5, <3>1, HeldIs, NoTableIs
  <2> DEFINE a == <<"free", 0>>
             b == <<"table", 1>>
             c == <<"stack", 1>>
  <2>4. \A u \in Users \ {a, b, c} : Held(u) = {}
    BY <2>1, <2>2, <2>3, UserIs
  <2>5. a \in Users /\ b \in Users /\ c \in Users
    BY <1>2, UsersAre
  <2>6. /\ Held(a) \cup Held(b) \cup Held(c) = Frames
        /\ Held(a) \cap Held(b) = {} /\ Held(a) \cap Held(c) = {} /\ Held(b) \cap Held(c) = {}
    <3>1. 1 .. (4 + KTABS) = {1} \cup 2 .. (4 + KTABS) /\ 1 \notin 2 .. (4 + KTABS)
      BY <1>1
    <3> QED
      BY <1>6, <2>1, <3>1
  <2> HIDE DEF a, b, c
  <2>7. \A u, x \in Users : u # x => Held(u) \cap Held(x) = {}
    BY <2>4, <2>6
  <2>8. UNION {Held(u) : u \in Users} = Frames
    <3>1. \A f : (\E u \in Users : f \in Held(u)) <=> f \in Held(a) \cup Held(b) \cup Held(c)
      BY <2>4, <2>5
    <3>2. \A f : f \in UNION {Held(u) : u \in Users} <=> (\E u \in Users : f \in Held(u))
      OBVIOUS
    <3> QED
      BY <2>6, <3>1, <3>2
  <2>9. \A p \in Procs : NoAlias(pd[p]) /\ NoAlias(new[p])
    BY <1>3, <1>5, NoTableIs
  <2> QED
    BY <2>7, <2>8, <2>9 DEF PagesOwnedOnce
<1>10. SlotInv
  <2>1. \A p \in Procs : job[p].pc = "idle" /\ ~InFork(p)
    BY <1>5, <1>7 DEF InFork, Building
  <2>2. \A p \in Procs : kstack[p] = 0 <=> st[p] = "unused"
    BY <1>4
  <2>3. \A p \in Procs : st[p] \in {"unused", "embryo"} => pd[p] = NoTable
    BY <1>4
  <2>4. \A p \in Procs : page[p] = 0
    BY <1>4
  <2> QED
    BY <1>5, <2>1, <2>2, <2>3, <2>4 DEF SlotInv
<1>11. CallInv
  <2>1. st[1] = "run" /\ \A p \in Procs \ {1} : st[p] # "run"
    BY <1>2, <1>4
  <2>2. sz[1] = PG
    BY <1>2, <1>4
  <2>3. SizeOK(NoJob, InitTable.pg, new[1].pg, PG) /\ DataOK(NoJob, InitTable.pg, new[1].pg, PG, mem)
    BY <1>3, <1>7 DEF SizeOK, DataOK, Building
  <2>5. PageOK(1)
    BY <1>2, <1>4 DEF PageOK
  <2>4. Fine(1)
    BY <1>2, <1>5, <2>2, <2>3, <2>5 DEF Fine
  <2> QED
    BY <2>1, <2>4 DEF CallInv
<1>12. NoJunk
  BY <1>1, <1>4, <1>6 DEF NoJunk, Frames
<1> QED
  BY <1>8, <1>9, <1>10, <1>11, <1>12 DEF MemInv

\* Every step keeps the invariant.
LEMMA MemNextInv == MemInv /\ [MemNext]_memvars => MemInv'
<1> SUFFICES ASSUME MemInv, [MemNext]_memvars PROVE MemInv'
  OBVIOUS
<1>1. CASE UNCHANGED memvars
  <2>1. UNCHANGED <<pd, sz, kstack, st, new, page, job, free, pipe, mem>>
    BY <1>1 DEF memvars
  <2>2. free' \subseteq Frames /\ pipe' \subseteq Frames /\ mem' \in [Frames -> Contents] /\ Keeps /\ NoJunk'
    BY <2>1 DEF MemInv, MemTypes, Keeps, NoJunk
  <2>3. free \cap pipe = {}
    <3>1. 1 \in Procs
      BY MemConsts DEF Procs
    <3>2. /\ <<"free", 0>> \in Users /\ <<"pipe", 0>> \in Users /\ Held(<<"free", 0>>) = free
          /\ Held(<<"pipe", 0>>) = pipe /\ <<"free", 0>> # <<"pipe", 0>>
      BY <3>1, UsersAre, HeldIs
    <3>3. \A u, x \in Users : u # x => Held(u) \cap Held(x) = {}
      BY DEF MemInv, PagesOwnedOnce
    <3> QED
      BY <3>2, <3>3
  <2> QED
    BY <2>1, <2>2, <2>3, PipeStep
<1>2. CASE PipeTakes \/ PipeGives
  BY <1>2, PipesStep
<1>3. ASSUME NEW p \in Procs, MemStep(p) PROVE MemInv'
  <2>1. CASE Return(p) \/ Setupkvm(p) \/ KallocPage(p) \/ Mappages(p) \/ Copyuvm(p) \/ ForkEnd(p)
    BY <2>1, ReturnStep, SetupkvmStep, KallocPageStep, MappagesStep, CopyuvmStep, ForkEndStep, Zenon
  <2>6. CASE Grow(p) \/ Load(p) \/ ExecEnd(p) \/ Exit(p) \/ Fork(p)
    BY <2>6, GrowStep, LoadStep, ExecEndStep, ExitStep, ForkStep, Zenon
  <2>2. CASE \E n \in SbrkArgs : Sbrk(p, n)
    BY <2>2, SbrkStep
  <2>3. CASE \E q \in Procs : Wait(p, q)
    BY <2>3, WaitStep
  <2>4. CASE \E s \in ImageSizes, good \in BOOLEAN : Exec(p, s, good)
    BY <2>4, ExecStep, Zenon
  <2>5. CASE \E v \in Pages : Store(p, v)
    BY <2>5, StoreStep
  <2> QED
    BY <1>3, <2>1, <2>2, <2>3, <2>4, <2>5, <2>6, Zenon DEF MemStep
<1> QED
  BY <1>1, <1>2, <1>3 DEF MemNext

\* The invariant holds at every moment.
LEMMA MemInvHolds == MemSpec => []MemInv
  BY MemInitInv, MemNextInv, PTL DEF MemSpec

\* kalloc.c, vm.c, exec.c, proc.c: at every moment of any mix of fork(), exec(), sbrk(),
\* exit(), wait() and pipes, failing or not, each page of memory is on the free list
\* or in exactly one use: no leak, no page shared, none freed twice.
THEOREM PagesHaveOneOwner == MemSpec => []PagesOwnedOnce
<1>1. MemInv => PagesOwnedOnce
  BY DEF MemInv
<1> QED
  BY <1>1, MemInvHolds, PTL

\* growproc(), exec(), copyuvm(): a call that fails leaves the caller's memory as it
\* was, except a sbrk() of minus the whole size, after which no page is left and sz
\* still counts them all (proc.c:169); a child starts with a copy of its parent's
\* memory, no process has a page that was freed, and between calls a process has
\* exactly the pages below its size.
THEOREM MemoryIsOnesOwn == MemSpec => []MemoryIsKept
<1>1. MemInv => MemoryIsKept
  <2> SUFFICES ASSUME MemInv, NEW p \in Procs
               PROVE  /\ job[p].pc = "ret" /\ ~job[p].ok => View(p) = job[p].old
                      /\ job[p].pc = "lost" => job[p].a = sz[p] /\ DOMAIN pd[p].pg = {}
                      /\ job[p].pc = "start" => [v \in DOMAIN new[p].pg |-> mem[new[p].pg[v]]] = View(p).pg
                      /\ \A v \in DOMAIN pd[p].pg : mem[pd[p].pg[v]] # "junk"
                      /\ Idle(p) => DOMAIN pd[p].pg = {v \in Pages : v * PG < sz[p]}
    BY Zenon DEF MemoryIsKept
  <2>1. MemTypes /\ SlotInv /\ CallInv /\ NoJunk /\ Separate
    BY Apart DEF MemInv
  <2>2. ASSUME job[p].pc = "ret", ~job[p].ok PROVE View(p) = job[p].old
    <3>1. st[p] = "run"
      BY <2>1, <2>2 DEF SlotInv
    <3>2. View(p) = Seen(p)
      BY <2>1, <2>2, <3>1, ViewIs
    <3>3. DataOK(job[p], pd[p].pg, new[p].pg, sz[p], mem)
      BY <2>1, <3>1 DEF CallInv, Fine
    <3> QED
      BY <2>2, <3>2, <3>3 DEF DataOK, Seen
  <2>3. ASSUME job[p].pc = "start" PROVE [v \in DOMAIN new[p].pg |-> mem[new[p].pg[v]]] = View(p).pg
    <3>1. job[p].pc \in Building
      BY <2>3 DEF Building
    <3>2. /\ job[p].a \in Nat /\ sz[p] \in Nat /\ DOMAIN new[p].pg = Below(job[p].a) /\ Even(job[p].a)
          /\ DOMAIN pd[p].pg = Below(sz[p]) /\ SizeOK(job[p], pd[p].pg, new[p].pg, sz[p])
          /\ DataOK(job[p], pd[p].pg, new[p].pg, sz[p], mem)
      BY <3>1, BuildFacts
    <3>3. sz[p] <= job[p].a /\ job[p].a < sz[p] + PG
      BY <2>3, <3>2 DEF SizeOK
    <3>4. DOMAIN new[p].pg = DOMAIN pd[p].pg
      BY <3>2, <3>3, BelowEven
    <3>5. \A v \in DOMAIN new[p].pg : mem[new[p].pg[v]] = mem[pd[p].pg[v]]
      BY <2>3, <3>2 DEF DataOK
    <3>6. View(p).pg = [v \in DOMAIN pd[p].pg |-> mem[pd[p].pg[v]]]
      BY DEF View
    <3> QED
      BY <3>4, <3>5, <3>6
  <2>4. \A v \in DOMAIN pd[p].pg : mem[pd[p].pg[v]] # "junk"
    <3>1. pd[p] \in Table /\ FramesOf(pd[p]) \cap free = {}
      BY <2>1 DEF MemTypes, Separate
    <3>2. FramesOf(pd[p]) \subseteq Frames /\ \A v \in DOMAIN pd[p].pg : pd[p].pg[v] \in FramesOf(pd[p])
      BY <3>1, TableIs
    <3> QED
      BY <2>1, <3>1, <3>2 DEF NoJunk
  <2>5. ASSUME Idle(p) PROVE DOMAIN pd[p].pg = {v \in Pages : v * PG < sz[p]}
    BY <2>1, <2>5 DEF Idle, CallInv, Fine, SizeOK, Below
  <2>6. ASSUME job[p].pc = "lost" PROVE job[p].a = sz[p] /\ DOMAIN pd[p].pg = {}
    <3>1. st[p] = "run"
      BY <2>1, <2>6 DEF SlotInv
    <3> QED
      BY <2>1, <2>6, <3>1 DEF CallInv, Fine, SizeOK
  <2> QED
    BY <2>2, <2>3, <2>4, <2>5, <2>6, Zenon
<1> QED
  BY <1>1, MemInvHolds, PTL
=============================================================================
