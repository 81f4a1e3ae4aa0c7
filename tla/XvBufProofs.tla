---------------------------- MODULE XvBufProofs ----------------------------
(***************************************************************************)
(* Proofs about XvBuf for any finite set of processes, each with up to two *)
(* buffers, any number of buffers and any blocks: the buffer cache above   *)
(* the disk implements the block store its callers think they use, panics  *)
(* only when every buffer is in use or pinned, and loses no wakeup.        *)
(***************************************************************************)
EXTENDS XvBuf, FiniteSetTheorems, NatFacts

Buffer == [blk : Blocks \cup {Nobody}, ref : Nat, valid : BOOLEAN, dirty : BOOLEAN,
           data : Vals, lock : Uses \cup {Nobody}]
BufPc == {"idle", "lock", "rw", "io", "hold", "write", "writing", "done", "drop"}

\* Between acquiresleep() and releasesleep().
Holding(p) == pc[p] \notin {"idle", "lock", "drop"}

\* The processes that have a reference to a buffer.
Users(i) == {p \in Uses : at[p] = i}

BufTypes ==
  /\ buf \in [Bufs -> Buffer]
  /\ lru \in [Bufs -> Bufs]
  /\ queue \in Seq(Bufs)
  /\ ide \in [cmd : {"none", "read", "write", "irq"}, blk : Blocks \cup {Nobody}, data : Vals \cup {Nobody}]
  /\ disk \in [Blocks -> Vals]
  /\ pc \in [Uses -> BufPc]
  /\ at \in [Uses -> 0 .. NBUF]
  /\ gets \in [Uses -> Seq(Blocks)]

\* The list holds every buffer.
LruInv == \A i \in Bufs : \E k \in Bufs : lru[k] = i

\* A buffer in use has a block, no block has two buffers, references are counted and
\* the sleep lock is with the one process inside.
UseInv ==
  /\ \A p \in Uses : pc[p] = "idle" <=> at[p] = 0
  /\ \A p \in Uses : at[p] # 0 => buf[at[p]].blk \in Blocks
  /\ \A i, j \in Bufs : buf[i].blk = buf[j].blk /\ buf[i].blk \in Blocks => i = j
  /\ \A i \in Bufs : buf[i].ref = Cardinality(Users(i))
  /\ \A i \in Bufs, p \in Uses : buf[i].lock = p <=> at[p] = i /\ Holding(p)

\* What is in the buffers: a dirty one is valid, a clean valid one agrees with the disk.
DataInv ==
  /\ \A i \in Bufs : buf[i].dirty => buf[i].valid
  /\ \A i \in Bufs : buf[i].valid => buf[i].blk \in Blocks
  /\ \A i \in Bufs : buf[i].valid /\ ~buf[i].dirty => buf[i].data = disk[buf[i].blk]
  /\ \A p \in Uses : pc[p] \in {"hold", "write", "writing", "done"} => buf[at[p]].valid
  /\ \A p \in Uses : pc[p] = "rw" => ~buf[at[p]].valid
  /\ \A p \in Uses : pc[p] = "write" => buf[at[p]].dirty

\* A queued buffer is there once, for the process that waits for it.
QueueInv ==
  /\ \A m, n \in 1 .. Len(queue) : queue[m] = queue[n] => m = n
  /\ \A m \in 1 .. Len(queue) : \E p \in Uses :
       /\ at[p] = queue[m]
       /\ \/ pc[p] = "io" /\ ~buf[queue[m]].valid
          \/ pc[p] = "writing" /\ buf[queue[m]].dirty

\* The disk works for the head of the queue, and idles when there is none.
IdeInv ==
  /\ queue = <<>> => ide.cmd = "none"
  /\ queue # <<>> =>
       /\ ide.blk = buf[Head(queue)].blk
       /\ ide.cmd = "read" => ~buf[Head(queue)].dirty
       /\ ide.cmd = "write" => buf[Head(queue)].dirty /\ ide.data = buf[Head(queue)].data
       /\ ide.cmd = "irq" /\ buf[Head(queue)].dirty => disk[ide.blk] = buf[Head(queue)].data
       /\ ide.cmd = "irq" /\ ~buf[Head(queue)].dirty => ide.data = disk[ide.blk]

BufInv == BufTypes /\ LruInv /\ UseInv /\ DataInv /\ QueueInv /\ IdeInv
-----------------------------------------------------------------------------
\* What the constants give.
LEMMA BufConsts ==
  /\ NBUF \in Nat /\ Bufs = 1 .. NBUF /\ 0 \notin Bufs
  /\ IsFiniteSet(Uses)
  /\ Nobody \notin Uses /\ Nobody \notin Blocks /\ Vals # {}
  /\ Wants \subseteq [Uses -> Seq(Blocks)]
<1>1. IsFiniteSet({1, 2}) /\ IsFiniteSet(Procs)
  <2>1. IsFiniteSet({1})
    BY FS_Singleton
  <2>2. IsFiniteSet({1} \cup {2})
    BY <2>1, FS_AddElement
  <2> QED
    BY <2>2, BuffersAssumption
<1>2. IsFiniteSet(Uses)
  BY <1>1, FS_Product DEF Uses
<1> QED
  BY <1>2, BuffersAssumption DEF Bufs

\* All but who sleeps and who has panicked.
core == <<buf, lru, queue, ide, disk, pc, at, gets>>

\* A step of [BufNext]_bufvars is a step of one of the actions, or leaves core alone.
LEMMA BufCases ==
  ASSUME [BufNext]_bufvars
  PROVE  \/ DiskWorks \/ Ideintr \/ UNCHANGED core
         \/ \E p \in Uses : \/ \E b \in Blocks : Bget(p, b)
                            \/ Acquire(p) \/ Iderw(p) \/ IderwEnd(p) \/ Brelse(p) \/ BrelseDrop(p)
                            \/ \E v \in Vals : Bwrite(p, v) \/ LogWrite(p, v)
<1>1. CASE UNCHANGED bufvars
  BY <1>1 DEF bufvars, core
<1>2. ASSUME NEW p \in Uses, SleepAgain(p) \/ KillWakes(p) \/ BgetPanics(p)
      PROVE  UNCHANGED core
  BY <1>2 DEF SleepAgain, KillWakes, BgetPanics, core
<1>3. CASE BufNext
  BY <1>2, <1>3, Zenon DEF BufNext, ProcStep, Change
<1> QED
  BY <1>1, <1>3

\* Indices of the state are in their ranges.
LEMMA InRange ==
  ASSUME BufInv
  PROVE  /\ \A q \in Uses : pc[q] # "idle" <=> at[q] \in Bufs
         /\ \A q \in Uses : at[q] # 0 <=> at[q] \in Bufs
         /\ \A i \in Bufs : buf[i] \in Buffer
         /\ \A m \in 1 .. Len(queue) : queue[m] \in Bufs
         /\ queue # <<>> => Head(queue) \in Bufs /\ 1 \in 1 .. Len(queue) /\ Head(queue) = queue[1]
<1>0. BufTypes /\ UseInv
  BY DEF BufInv
<1>1. \A q \in Uses : at[q] # 0 <=> at[q] \in Bufs
  BY <1>0, BufConsts DEF BufTypes
<1>2. \A q \in Uses : pc[q] # "idle" <=> at[q] \in Bufs
  BY <1>0, <1>1 DEF UseInv
<1>3. /\ \A i \in Bufs : buf[i] \in Buffer
      /\ \A m \in 1 .. Len(queue) : queue[m] \in Bufs
  BY <1>0 DEF BufTypes
<1>4. queue # <<>> => 1 \in 1 .. Len(queue) /\ Head(queue) = queue[1]
  BY <1>0 DEF BufTypes
<1> QED
  BY <1>1, <1>2, <1>3, <1>4

\* A process that is not idle has a buffer; the one that holds its lock holds it alone,
\* and finds it in the queue only while it waits for the disk.
LEMMA HolderFacts ==
  ASSUME BufInv, NEW p \in Uses, pc[p] # "idle"
  PROVE  /\ at[p] \in Bufs /\ buf[at[p]] \in Buffer /\ buf[at[p]].blk \in Blocks
         /\ Holding(p) => /\ buf[at[p]].lock = p
                          /\ \A q \in Uses : at[q] = at[p] /\ Holding(q) => q = p
                          /\ pc[p] \notin {"io", "writing"} => \A m \in 1 .. Len(queue) : queue[m] # at[p]
<1>1. at[p] \in Bufs /\ buf[at[p]] \in Buffer /\ buf[at[p]].blk \in Blocks
  BY BufConsts DEF BufInv, BufTypes, UseInv
<1>2. ASSUME Holding(p)
      PROVE  buf[at[p]].lock = p /\ \A q \in Uses : at[q] = at[p] /\ Holding(q) => q = p
  BY <1>1, <1>2 DEF BufInv, UseInv
<1>3. ASSUME Holding(p), pc[p] \notin {"io", "writing"}, NEW m \in 1 .. Len(queue), queue[m] = at[p]
      PROVE  FALSE
  <2>1. PICK q \in Uses : at[q] = queue[m] /\ pc[q] \in {"io", "writing"}
    BY DEF BufInv, QueueInv
  <2>2. Holding(q)
    BY <2>1 DEF Holding
  <2> QED
    BY <1>2, <1>3, <2>1, <2>2
<1> QED
  BY <1>1, <1>2, <1>3

\* The buffer bget() recycles is one that may be: the list holds every buffer, so its
\* search from the old end finds one if there is one.
LEMMA VictimFound ==
  ASSUME BufInv, Victims # {}
  PROVE  Victim \in Victims
<1> DEFINE S == {k \in Bufs : lru[k] \in Victims}
<1>1. S # {} /\ S \subseteq 0 .. NBUF /\ NBUF \in Nat
  <2>1. PICK i \in Bufs : i \in Victims
    BY DEF Victims
  <2>2. PICK k \in Bufs : lru[k] = i
    BY DEF BufInv, LruInv
  <2>3. k \in S
    BY <2>1, <2>2
  <2> QED
    BY <2>3, BufConsts
<1>2. PICK k \in S : \A j \in S : j <= k
  BY <1>1, GreatestElement, Zenon
<1>3. k \in Bufs /\ lru[k] \in Victims /\ \A j \in (k + 1) .. NBUF : lru[j] \notin Victims
  BY <1>2, BufConsts
<1> QED
  BY <1>3 DEF Victim
-----------------------------------------------------------------------------
(* What each action does to the buffers, field by field, and to the rest. *)

\* Buffer j keeps all but its reference count and its lock.
SameData(j) ==
  /\ buf'[j].blk = buf[j].blk /\ buf'[j].data = buf[j].data
  /\ (buf'[j].valid <=> buf[j].valid) /\ (buf'[j].dirty <=> buf[j].dirty)

\* acquiresleep() and brelse() move the lock of one buffer and nothing else.
LEMMA LockEffect ==
  ASSUME BufInv, NEW p \in Uses, Acquire(p) \/ Brelse(p)
  PROVE  /\ pc[p] # "idle" /\ UNCHANGED <<lru, queue, ide, disk, at, gets>>
         /\ buf' \in [Bufs -> Buffer]
         /\ \A j \in Bufs : SameData(j) /\ buf'[j].ref = buf[j].ref
         /\ \A j \in Bufs : j # at[p] => buf'[j].lock = buf[j].lock
         /\ pc' \in [Uses -> BufPc] /\ \A q \in Uses : q # p => pc'[q] = pc[q]
<1>1. pc[p] # "idle" /\ UNCHANGED <<lru, queue, ide, disk, at, gets>>
  BY DEF Acquire, Brelse
<1>2. at[p] \in Bufs /\ BufTypes
  BY <1>1, HolderFacts DEF BufInv
<1>3. PICK l \in Uses \cup {Nobody} : buf' = [buf EXCEPT ![at[p]].lock = l]
  BY DEF Acquire, Brelse
<1>4. /\ buf' \in [Bufs -> Buffer]
      /\ \A j \in Bufs : SameData(j) /\ buf'[j].ref = buf[j].ref
      /\ \A j \in Bufs : j # at[p] => buf'[j].lock = buf[j].lock
  <2>1. buf \in [Bufs -> Buffer]
    BY <1>2 DEF BufTypes
  <2>2. \A j \in Bufs : buf'[j] = IF j = at[p] THEN [buf[j] EXCEPT !.lock = l] ELSE buf[j]
    BY <1>2, <1>3, <2>1
  <2>3. ASSUME NEW j \in Bufs
        PROVE  /\ buf'[j] \in Buffer /\ SameData(j) /\ buf'[j].ref = buf[j].ref
               /\ j # at[p] => buf'[j].lock = buf[j].lock
    <3>1. buf[j] \in Buffer
      BY <2>1
    <3> QED
      BY <2>2, <3>1 DEF Buffer, SameData
  <2>4. buf' = [j \in Bufs |-> buf'[j]]
    BY <1>3, <2>1
  <2> QED
    BY <2>3, <2>4
<1>5. pc' \in [Uses -> BufPc] /\ \A q \in Uses : q # p => pc'[q] = pc[q]
  BY <1>2 DEF Acquire, Brelse, BufTypes, BufPc
<1> QED
  BY <1>1, <1>4, <1>5

\* acquiresleep() with the rest of bread(), and the first half of brelse().
LEMMA LockStep ==
  ASSUME BufInv, NEW p \in Uses, Acquire(p) \/ Brelse(p)
  PROVE  BufInv'
<1>0. BufTypes /\ LruInv /\ UseInv /\ DataInv /\ QueueInv /\ IdeInv
  BY DEF BufInv
<1>1. /\ UNCHANGED <<lru, queue, ide, disk, at, gets>> /\ buf' \in [Bufs -> Buffer]
      /\ \A j \in Bufs : SameData(j) /\ buf'[j].ref = buf[j].ref
      /\ \A j \in Bufs : j # at[p] => buf'[j].lock = buf[j].lock
      /\ pc' \in [Uses -> BufPc] /\ \A q \in Uses : q # p => pc'[q] = pc[q]
  BY LockEffect
<1>2. /\ at[p] \in Bufs
      /\ pc[p] \in {"lock", "hold", "done"} /\ pc'[p] \in {"hold", "rw", "drop"}
      /\ pc'[p] = "hold" => buf[at[p]].valid
      /\ pc'[p] = "rw" => ~buf[at[p]].valid
  BY <1>0, HolderFacts DEF Acquire, Brelse, BufTypes
<1>3. \/ pc[p] = "lock" /\ pc'[p] # "drop" /\ buf[at[p]].lock = Nobody /\ buf'[at[p]].lock = p
      \/ pc[p] # "lock" /\ pc'[p] = "drop" /\ buf[at[p]].lock = p /\ buf'[at[p]].lock = Nobody
  BY <1>0, <1>2, HolderFacts DEF Acquire, Brelse, BufTypes, Buffer, Holding
<1>4. BufTypes' /\ LruInv'
  BY <1>0, <1>1 DEF BufTypes, LruInv
<1>5. UseInv'
  <2>1. /\ Holding(p)' <=> pc[p] = "lock"
        /\ Holding(p) <=> pc[p] # "lock"
        /\ \A q \in Uses : q # p => (Holding(q)' <=> Holding(q))
    BY <1>1, <1>2, <1>3 DEF Holding
  <2>2. \A j \in Bufs : Users(j)' = Users(j)
    BY <1>1 DEF Users
  <2>3. \A j \in Bufs, q \in Uses : buf'[j].lock = q <=> at[q] = j /\ Holding(q)'
    BY <1>0, <1>1, <1>2, <1>3, <2>1, BufConsts DEF UseInv
  <2>4. \A j \in Bufs : buf'[j].ref = Cardinality(Users(j)')
    BY <1>0, <1>1, <2>2 DEF UseInv
  <2> QED
    BY <1>0, <1>1, <1>2, <2>3, <2>4, InRange DEF UseInv, SameData
<1>6. DataInv'
  BY <1>0, <1>1, <1>2, InRange DEF DataInv, SameData
<1>7. QueueInv' /\ IdeInv'
  BY <1>0, <1>1, <1>2, InRange DEF QueueInv, IdeInv, SameData
<1> QED
  BY <1>4, <1>5, <1>6, <1>7 DEF BufInv

\* bwrite() and log_write() change the data of the buffer their caller holds.
LEMMA WriteEffect ==
  ASSUME BufInv, NEW p \in Uses, NEW v \in Vals, Bwrite(p, v) \/ LogWrite(p, v)
  PROVE  /\ UNCHANGED <<lru, queue, ide, disk, at, gets>> /\ buf' \in [Bufs -> Buffer]
         /\ pc[p] = "hold" /\ at[p] \in Bufs /\ buf[at[p]].lock = p /\ buf[at[p]].valid
         /\ \A j \in Bufs : /\ buf'[j].blk = buf[j].blk /\ (buf'[j].valid <=> buf[j].valid)
                            /\ buf'[j].ref = buf[j].ref /\ buf'[j].lock = buf[j].lock
         /\ \A j \in Bufs : j # at[p] => SameData(j)
         /\ buf'[at[p]].data = v /\ buf'[at[p]].dirty
         /\ pc' \in [Uses -> BufPc] /\ pc'[p] \in {"hold", "write"} /\ \A q \in Uses : q # p => pc'[q] = pc[q]
<1>1. pc[p] = "hold" /\ UNCHANGED <<lru, queue, ide, disk, at, gets>>
  BY DEF Bwrite, LogWrite
<1>2. at[p] \in Bufs /\ BufTypes /\ buf[at[p]].lock = p /\ buf[at[p]].valid
  BY <1>1, HolderFacts DEF BufInv, DataInv, Holding
<1>3. buf' = [buf EXCEPT ![at[p]].data = v, ![at[p]].dirty = TRUE]
  BY DEF Bwrite, LogWrite
<1>4. buf' \in [Bufs -> Buffer]
  <2>0. at[p] \in Bufs /\ buf \in [Bufs -> Buffer]
    BY <1>2 DEF BufTypes
  <2> DEFINE c == [buf[at[p]] EXCEPT !.data = v, !.dirty = TRUE]
  <2>1. c \in Buffer
    BY <2>0 DEF Buffer
  <2>2. buf' = [buf EXCEPT ![at[p]] = c]
    BY <1>3, <2>0
  <2> HIDE DEF c
  <2> QED
    BY <2>0, <2>1, <2>2
<1>5. /\ \A j \in Bufs : /\ buf'[j].blk = buf[j].blk /\ (buf'[j].valid <=> buf[j].valid)
                         /\ buf'[j].ref = buf[j].ref /\ buf'[j].lock = buf[j].lock
      /\ \A j \in Bufs : j # at[p] => SameData(j)
      /\ buf'[at[p]].data = v /\ buf'[at[p]].dirty
  BY <1>2, <1>3 DEF BufTypes, Buffer, SameData
<1>6. pc' \in [Uses -> BufPc] /\ pc'[p] \in {"hold", "write"} /\ \A q \in Uses : q # p => pc'[q] = pc[q]
  <2>1. CASE Bwrite(p, v)
    BY <1>1, <1>2, <2>1 DEF Bwrite, BufTypes, BufPc
  <2>2. CASE LogWrite(p, v)
    <3>1. pc' = pc
      BY <2>2 DEF LogWrite
    <3> QED
      BY <1>1, <1>2, <3>1 DEF BufTypes
  <2> QED
    BY <2>1, <2>2
<1> QED
  BY <1>1, <1>2, <1>4, <1>5, <1>6

\* They keep the invariant: log_write() pins only within the log's share.
LEMMA WriteStep ==
  ASSUME BufInv, NEW p \in Uses, NEW v \in Vals, Bwrite(p, v) \/ LogWrite(p, v)
  PROVE  BufInv'
<1>0. BufTypes /\ LruInv /\ UseInv /\ DataInv /\ QueueInv /\ IdeInv
  BY DEF BufInv
<1>1. /\ UNCHANGED <<lru, queue, ide, disk, at, gets>> /\ buf' \in [Bufs -> Buffer]
      /\ pc[p] = "hold" /\ at[p] \in Bufs /\ buf[at[p]].lock = p /\ buf[at[p]].valid
      /\ \A j \in Bufs : /\ buf'[j].blk = buf[j].blk /\ (buf'[j].valid <=> buf[j].valid)
                         /\ buf'[j].ref = buf[j].ref /\ buf'[j].lock = buf[j].lock
      /\ \A j \in Bufs : j # at[p] => SameData(j)
      /\ buf'[at[p]].data = v /\ buf'[at[p]].dirty
      /\ pc' \in [Uses -> BufPc] /\ pc'[p] \in {"hold", "write"} /\ \A q \in Uses : q # p => pc'[q] = pc[q]
  BY WriteEffect
<1>2. /\ \A q \in Uses : at[q] = at[p] /\ Holding(q) => q = p
      /\ \A m \in 1 .. Len(queue) : queue[m] # at[p]
  BY <1>1, HolderFacts DEF Holding
<1>3. BufTypes' /\ LruInv'
  BY <1>0, <1>1 DEF BufTypes, LruInv
<1>4. UseInv'
  <2>1. \A q \in Uses : Holding(q)' <=> Holding(q)
    BY <1>1 DEF Holding
  <2>2. \A j \in Bufs : Users(j)' = Users(j)
    BY <1>1 DEF Users
  <2>3. \A j \in Bufs, q \in Uses : buf'[j].lock = q <=> at[q] = j /\ Holding(q)'
    BY <1>0, <1>1, <2>1 DEF UseInv
  <2>4. \A j \in Bufs : buf'[j].ref = Cardinality(Users(j)')
    BY <1>0, <1>1, <2>2 DEF UseInv
  <2>5. \A q \in Uses : pc'[q] = "idle" <=> at[q] = 0
    BY <1>0, <1>1 DEF UseInv
  <2> QED
    BY <1>0, <1>1, <2>3, <2>4, <2>5, InRange DEF UseInv
<1>5. DataInv'
  <2>1. \A q \in Uses : q # p /\ pc[q] = "write" => at[q] # at[p]
    BY <1>2 DEF Holding
  <2> QED
    BY <1>0, <1>1, <2>1, InRange DEF DataInv, SameData
<1>6. QueueInv' /\ IdeInv'
  BY <1>0, <1>1, <1>2, InRange DEF QueueInv, IdeInv, SameData
<1> QED
  BY <1>3, <1>4, <1>5, <1>6 DEF BufInv

\* iderw() queues the buffer of its caller, behind all others, and starts an idle disk.
LEMMA IderwStep ==
  ASSUME BufInv, NEW p \in Uses, Iderw(p)
  PROVE  BufInv'
<1> DEFINE i == at[p]
           n == Len(queue)
<1>0. BufTypes /\ LruInv /\ UseInv /\ DataInv /\ QueueInv /\ IdeInv
  BY DEF BufInv
<1>1. pc[p] \in {"rw", "write"} /\ UNCHANGED <<buf, lru, disk, at, gets>>
  BY DEF Iderw
<1>2. /\ i \in Bufs /\ buf[i] \in Buffer /\ buf[i].blk \in Blocks
      /\ \A m \in 1 .. n : queue[m] # i
  BY <1>1, HolderFacts DEF Holding
<1>3. /\ pc' \in [Uses -> BufPc] /\ \A q \in Uses : q # p => pc'[q] = pc[q]
      /\ pc[p] = "rw" => pc'[p] = "io"
      /\ pc[p] = "write" => pc'[p] = "writing"
  BY <1>0, <1>1 DEF Iderw, BufTypes, BufPc
<1>4. /\ queue' \in Seq(Bufs) /\ n \in Nat /\ Len(queue') = n + 1 /\ queue'[n + 1] = i
      /\ \A m \in 1 .. n : queue'[m] = queue[m]
      /\ queue' # <<>>
      /\ queue # <<>> => Head(queue') = Head(queue)
      /\ queue = <<>> => Head(queue') = i
  BY <1>0, <1>2 DEF Iderw, BufTypes
<1>5. /\ queue # <<>> => ide' = ide
      /\ queue = <<>> => ide' = [cmd |-> IF buf[i].dirty THEN "write" ELSE "read", blk |-> buf[i].blk, data |-> buf[i].data]
  BY DEF Iderw, Idestart
<1>6. BufTypes' /\ LruInv'
  <2>1. ide' \in [cmd : {"none", "read", "write", "irq"}, blk : Blocks \cup {Nobody}, data : Vals \cup {Nobody}]
    <3>1. buf[i].blk \in Blocks /\ buf[i].data \in Vals
      BY <1>2 DEF Buffer
    <3> QED
      BY <1>0, <1>5, <3>1 DEF BufTypes
  <2> QED
    BY <1>0, <1>1, <1>3, <1>4, <2>1 DEF BufTypes, LruInv
<1>7. UseInv'
  <2>1. \A q \in Uses : (Holding(q)' <=> Holding(q)) /\ (pc'[q] = "idle" <=> pc[q] = "idle")
    BY <1>1, <1>3 DEF Holding
  <2>2. \A j \in Bufs : Users(j)' = Users(j)
    BY <1>1 DEF Users
  <2> QED
    BY <1>0, <1>1, <2>1, <2>2 DEF UseInv
<1>8. DataInv'
  BY <1>0, <1>1, <1>3 DEF DataInv
<1>9. QueueInv'
  <2>1. \A m \in 1 .. n + 1 : m \in 1 .. n \/ m = n + 1
    BY <1>4
  <2>2. \A m, l \in 1 .. Len(queue') : queue'[m] = queue'[l] => m = l
    BY <1>0, <1>2, <1>4, <2>1 DEF QueueInv
  <2>3. ASSUME NEW m \in 1 .. n
        PROVE  \E q \in Uses : /\ at[q] = queue'[m]
                               /\ \/ pc'[q] = "io" /\ ~buf[queue'[m]].valid
                                  \/ pc'[q] = "writing" /\ buf[queue'[m]].dirty
    <3>1. PICK q \in Uses : /\ at[q] = queue[m]
                            /\ \/ pc[q] = "io" /\ ~buf[queue[m]].valid
                               \/ pc[q] = "writing" /\ buf[queue[m]].dirty
      BY <1>0 DEF QueueInv
    <3>2. pc'[q] = pc[q]
      BY <1>1, <1>3, <3>1
    <3> QED
      BY <1>4, <3>1, <3>2
  <2>4. \/ pc'[p] = "io" /\ ~buf[i].valid
        \/ pc'[p] = "writing" /\ buf[i].dirty
    BY <1>0, <1>1, <1>3 DEF DataInv
  <2> QED
    BY <1>1, <1>4, <2>1, <2>2, <2>3, <2>4 DEF QueueInv
<1>10. IdeInv'
  <2>1. CASE queue # <<>>
    BY <1>0, <1>1, <1>4, <1>5, <2>1 DEF IdeInv
  <2>2. CASE queue = <<>>
    <3>1. /\ ide'.cmd = IF buf[i].dirty THEN "write" ELSE "read"
          /\ ide'.blk = buf[i].blk /\ ide'.data = buf[i].data
      BY <1>5, <2>2
    <3> QED
      BY <1>1, <1>4, <2>2, <3>1 DEF IdeInv
  <2> QED
    BY <2>1, <2>2
<1> QED
  BY <1>6, <1>7, <1>8, <1>9, <1>10 DEF BufInv

\* iderw() returns when its request is finished.
LEMMA IderwEndStep ==
  ASSUME BufInv, NEW p \in Uses, IderwEnd(p)
  PROVE  BufInv'
<1>0. BufTypes /\ LruInv /\ UseInv /\ DataInv /\ QueueInv /\ IdeInv
  BY DEF BufInv
<1>1. /\ UNCHANGED <<buf, lru, queue, ide, disk, at, gets>>
      /\ pc[p] \in {"io", "writing"} /\ buf[at[p]].valid /\ ~buf[at[p]].dirty
  BY DEF IderwEnd, Finished
<1>2. /\ pc' \in [Uses -> BufPc] /\ \A q \in Uses : q # p => pc'[q] = pc[q]
      /\ pc'[p] \in {"hold", "done"}
  BY <1>0, <1>1 DEF IderwEnd, BufTypes, BufPc
<1>3. BufTypes' /\ LruInv' /\ IdeInv'
  BY <1>0, <1>1, <1>2 DEF BufTypes, LruInv, IdeInv
<1>4. UseInv'
  <2>1. \A q \in Uses : (Holding(q)' <=> Holding(q)) /\ (pc'[q] = "idle" <=> pc[q] = "idle")
    BY <1>1, <1>2 DEF Holding
  <2>2. \A j \in Bufs : Users(j)' = Users(j)
    BY <1>1 DEF Users
  <2> QED
    BY <1>0, <1>1, <2>1, <2>2 DEF UseInv
<1>5. DataInv'
  BY <1>0, <1>1, <1>2 DEF DataInv
<1>6. QueueInv'
  BY <1>0, <1>1, <1>2 DEF QueueInv
<1> QED
  BY <1>3, <1>4, <1>5, <1>6 DEF BufInv

\* The disk writes the block of the head of the queue, which is dirty, or reads it.
LEMMA DiskStep ==
  ASSUME BufInv, DiskWorks
  PROVE  /\ BufInv'
         /\ \A b \in Blocks : disk'[b] # disk[b] => \E i \in Bufs : buf[i].blk = b /\ buf[i].valid
<1> DEFINE h == Head(queue)
<1>0. BufTypes /\ LruInv /\ UseInv /\ DataInv /\ QueueInv /\ IdeInv
  BY DEF BufInv
<1>1. UNCHANGED <<buf, lru, queue, pc, at, gets>> /\ ide.cmd \in {"read", "write"}
  BY DEF DiskWorks
<1>2. queue # <<>> /\ h \in Bufs /\ buf[h] \in Buffer /\ 1 \in 1 .. Len(queue) /\ h = queue[1]
  BY <1>0, <1>1, InRange DEF IdeInv
<1>3. buf[h].blk \in Blocks /\ ide.blk = buf[h].blk
  <2>1. PICK q \in Uses : at[q] = h
    BY <1>0, <1>2 DEF QueueInv
  <2> QED
    BY <1>0, <1>2, <2>1, BufConsts DEF UseInv, IdeInv
<1>4. /\ ide'.cmd = "irq" /\ ide'.blk = ide.blk /\ ide'.data = disk[ide.blk]
      /\ ide' \in [cmd : {"none", "read", "write", "irq"}, blk : Blocks \cup {Nobody}, data : Vals \cup {Nobody}]
  BY <1>0, <1>3 DEF DiskWorks, BufTypes
<1>5. /\ disk' \in [Blocks -> Vals]
      /\ \A b \in Blocks : b # ide.blk => disk'[b] = disk[b]
      /\ ide.cmd = "write" => disk'[ide.blk] = buf[h].data /\ buf[h].dirty
      /\ ide.cmd = "read" => disk' = disk /\ ~buf[h].dirty
  <2>1. CASE ide.cmd = "read"
    BY <1>0, <1>2, <2>1 DEF DiskWorks, BufTypes, IdeInv
  <2>2. CASE ide.cmd = "write"
    <3>1. disk' = [disk EXCEPT ![ide.blk] = ide.data] /\ ide.data = buf[h].data /\ buf[h].dirty
      BY <1>0, <1>2, <2>2 DEF DiskWorks, IdeInv
    <3>2. buf[h].data \in Vals
      BY <1>2 DEF Buffer
    <3> QED
      BY <1>0, <1>3, <2>2, <3>1, <3>2 DEF BufTypes
  <2> QED
    BY <1>1, <2>1, <2>2
<1>6. BufTypes' /\ LruInv' /\ QueueInv'
  BY <1>0, <1>1, <1>4, <1>5 DEF BufTypes, LruInv, QueueInv
<1>7. UseInv'
  BY <1>0, <1>1 DEF UseInv, Users, Holding
<1>8. DataInv'
  <2>1. ASSUME NEW i \in Bufs, buf[i].valid, ~buf[i].dirty
        PROVE  buf[i].data = disk'[buf[i].blk]
    <3>1. buf[i].blk \in Blocks /\ buf[i].data = disk[buf[i].blk]
      BY <1>0, <2>1 DEF DataInv
    <3>2. buf[i].blk = ide.blk => i = h
      BY <1>0, <1>2, <1>3 DEF UseInv
    <3> QED
      BY <1>1, <1>5, <2>1, <3>1, <3>2
  <2> QED
    BY <1>0, <1>1, <2>1 DEF DataInv
<1>9. IdeInv'
  BY <1>0, <1>1, <1>2, <1>4, <1>5 DEF IdeInv
<1>10. ASSUME NEW b \in Blocks, disk'[b] # disk[b]
       PROVE  \E i \in Bufs : buf[i].blk = b /\ buf[i].valid
  <2>1. b = buf[h].blk /\ buf[h].dirty
    BY <1>1, <1>3, <1>5, <1>10
  <2> QED
    BY <1>0, <1>2, <2>1 DEF DataInv
<1> QED
  BY <1>6, <1>7, <1>8, <1>9, <1>10 DEF BufInv

\* ideintr() finishes the head of the queue, which from now on agrees with the disk.
LEMMA IntrEffect ==
  ASSUME BufInv, Ideintr
  PROVE  LET h == Head(queue)
         IN  /\ UNCHANGED <<lru, disk, pc, at, gets>> /\ queue # <<>> /\ ide.cmd = "irq"
             /\ h \in Bufs /\ buf[h].blk \in Blocks /\ buf' \in [Bufs -> Buffer]
             /\ \A j \in Bufs : j # h => buf'[j] = buf[j]
             /\ buf'[h].blk = buf[h].blk /\ buf'[h].ref = buf[h].ref /\ buf'[h].lock = buf[h].lock
             /\ buf'[h].valid /\ ~buf'[h].dirty /\ buf'[h].data = disk[buf[h].blk]
             /\ buf[h].dirty => buf'[h].data = buf[h].data
<1> DEFINE h == Head(queue)
<1>0. BufTypes /\ UseInv /\ QueueInv /\ IdeInv
  BY DEF BufInv
<1>1. UNCHANGED <<lru, disk, pc, at, gets>> /\ queue # <<>> /\ ide.cmd = "irq"
  BY DEF Ideintr
<1>2. h \in Bufs /\ buf[h] \in Buffer /\ 1 \in 1 .. Len(queue) /\ h = queue[1]
  BY <1>1, InRange
<1>3. buf[h].blk \in Blocks /\ ide.blk = buf[h].blk
  <2>1. PICK q \in Uses : at[q] = h
    BY <1>0, <1>2 DEF QueueInv
  <2> QED
    BY <1>0, <1>1, <1>2, <2>1, BufConsts DEF UseInv, IdeInv
<1>4. disk[ide.blk] \in Vals
  BY <1>0, <1>3 DEF BufTypes
<1>5. /\ buf[h].dirty => disk[ide.blk] = buf[h].data
      /\ ~buf[h].dirty => ide.data = disk[ide.blk]
  BY <1>0, <1>1 DEF IdeInv
<1> DEFINE c == [buf[h] EXCEPT !.valid = TRUE, !.dirty = FALSE,
                               !.data = IF buf[h].dirty THEN buf[h].data ELSE ide.data]
<1>6. /\ c \in Buffer /\ c.blk = buf[h].blk /\ c.ref = buf[h].ref /\ c.lock = buf[h].lock
      /\ c.valid /\ ~c.dirty /\ c.data = disk[ide.blk]
  BY <1>2, <1>4, <1>5 DEF Buffer
<1>7. buf' = [buf EXCEPT ![h] = c] /\ buf \in [Bufs -> Buffer]
  <2>1. buf' = [buf EXCEPT ![h] = c]
    BY DEF Ideintr
  <2> QED
    BY <1>0, <2>1 DEF BufTypes
<1> HIDE DEF c
<1>8. buf' \in [Bufs -> Buffer] /\ buf'[h] = c /\ \A j \in Bufs : j # h => buf'[j] = buf[j]
  BY <1>2, <1>6, <1>7
<1> HIDE DEF h
<1>9. buf[h].dirty => buf'[h].data = buf[h].data
  BY <1>5, <1>6, <1>8
<1> QED
  BY <1>1, <1>2, <1>3, <1>6, <1>8, <1>9 DEF h

\* It keeps the invariant, with the next request the disk's.
LEMMA IntrStep ==
  ASSUME BufInv, Ideintr
  PROVE  BufInv'
<1> DEFINE h == Head(queue)
           n == Len(queue)
<1>0. BufTypes /\ LruInv /\ UseInv /\ DataInv /\ QueueInv /\ IdeInv
  BY DEF BufInv
<1>1. /\ UNCHANGED <<lru, disk, pc, at, gets>> /\ queue # <<>> /\ ide.cmd = "irq"
      /\ h \in Bufs /\ buf[h].blk \in Blocks /\ buf' \in [Bufs -> Buffer]
      /\ \A j \in Bufs : j # h => buf'[j] = buf[j]
      /\ buf'[h].blk = buf[h].blk /\ buf'[h].ref = buf[h].ref /\ buf'[h].lock = buf[h].lock
      /\ buf'[h].valid /\ ~buf'[h].dirty /\ buf'[h].data = disk[buf[h].blk]
  BY IntrEffect
<1>2. n \in Nat /\ n >= 1 /\ h = queue[1] /\ 1 \in 1 .. n
  BY <1>0, <1>1, InRange DEF BufTypes
<1>3. /\ queue' = Tail(queue) /\ queue' \in Seq(Bufs) /\ Len(queue') = n - 1
      /\ \A m \in 1 .. n - 1 : queue'[m] = queue[m + 1]
  BY <1>0, <1>1 DEF BufTypes, Ideintr
<1>4. \A m \in 1 .. n - 1 : m + 1 \in 1 .. n /\ queue'[m] # h /\ queue'[m] \in Bufs
  <2>1. \A m \in 1 .. n - 1 : m + 1 \in 1 .. n /\ m + 1 # 1
    BY <1>2
  <2>2. \A m \in 1 .. n - 1 : queue[m + 1] # queue[1]
    BY <1>0, <1>2, <2>1 DEF QueueInv
  <2> QED
    BY <1>2, <1>3, <2>1, <2>2, InRange
<1>5. /\ queue' = <<>> => ide' = Idle
      /\ queue' # <<>> => ide' = [cmd |-> IF buf[Head(queue')].dirty THEN "write" ELSE "read",
                                  blk |-> buf[Head(queue')].blk, data |-> buf[Head(queue')].data]
  BY <1>3 DEF Ideintr, StartNext, Idestart
<1>6. queue' # <<>> => /\ Head(queue') \in Bufs /\ Head(queue') # h /\ buf'[Head(queue')] = buf[Head(queue')]
                       /\ buf[Head(queue')].blk \in Blocks \cup {Nobody} /\ buf[Head(queue')].data \in Vals
  <2>1. queue' # <<>> => Head(queue') = queue'[1] /\ 1 \in 1 .. n - 1
    BY <1>2, <1>3
  <2>2. queue' # <<>> => /\ Head(queue') \in Bufs /\ Head(queue') # h /\ buf'[Head(queue')] = buf[Head(queue')]
    BY <1>1, <1>4, <2>1
  <2> QED
    BY <1>0, <2>2 DEF BufTypes, Buffer
<1> HIDE DEF h
<1>7. BufTypes' /\ LruInv'
  <2>1. ide' \in [cmd : {"none", "read", "write", "irq"}, blk : Blocks \cup {Nobody}, data : Vals \cup {Nobody}]
    BY <1>5, <1>6 DEF Idle
  <2> QED
    BY <1>0, <1>1, <1>3, <2>1 DEF BufTypes, LruInv
<1>8. \A j \in Bufs : buf'[j].blk = buf[j].blk /\ buf'[j].ref = buf[j].ref /\ buf'[j].lock = buf[j].lock
  BY <1>1
<1>9. UseInv'
  <2>1. \A q \in Uses : Holding(q)' <=> Holding(q)
    BY <1>1 DEF Holding
  <2>2. \A j \in Bufs : Users(j)' = Users(j)
    BY <1>1 DEF Users
  <2>3. \A j \in Bufs : buf'[j].ref = Cardinality(Users(j)')
    BY <1>0, <1>8, <2>2 DEF UseInv
  <2>4. \A j, l \in Bufs : buf'[j].blk = buf'[l].blk /\ buf'[j].blk \in Blocks => j = l
    BY <1>0, <1>8 DEF UseInv
  <2>5. \A j \in Bufs, q \in Uses : buf'[j].lock = q <=> at[q] = j /\ Holding(q)'
    BY <1>0, <1>8, <2>1 DEF UseInv
  <2>6. \A q \in Uses : at[q] # 0 => buf'[at[q]].blk \in Blocks
    BY <1>0, <1>8, InRange DEF UseInv
  <2> QED
    BY <1>0, <1>1, <2>3, <2>4, <2>5, <2>6 DEF UseInv
<1>10. PICK u \in Uses : at[u] = h /\ pc[u] \in {"io", "writing"}
  BY <1>0, <1>2 DEF QueueInv
<1>11. \A q \in Uses : at[q] = h /\ Holding(q) => q = u
  <2>1. Holding(u) /\ pc[u] # "idle"
    BY <1>10 DEF Holding
  <2> QED
    BY <1>10, <2>1, HolderFacts
<1>12. DataInv'
  <2>1. \A q \in Uses : pc[q] \in {"rw", "write"} => at[q] # h /\ at[q] \in Bufs
    BY <1>10, <1>11, InRange DEF Holding
  <2>2. \A j \in Bufs : /\ buf'[j].dirty => buf'[j].valid
                        /\ buf'[j].valid => buf'[j].blk \in Blocks
                        /\ buf'[j].valid /\ ~buf'[j].dirty => buf'[j].data = disk[buf'[j].blk]
    BY <1>0, <1>1 DEF DataInv
  <2>3. \A q \in Uses : pc[q] \in {"hold", "write", "writing", "done"} => buf'[at[q]].valid
    BY <1>0, <1>1, InRange DEF DataInv
  <2>4. \A q \in Uses : /\ pc[q] = "rw" => ~buf'[at[q]].valid
                        /\ pc[q] = "write" => buf'[at[q]].dirty
    BY <1>0, <1>1, <2>1 DEF DataInv
  <2> QED
    BY <1>1, <2>2, <2>3, <2>4 DEF DataInv
<1>13. QueueInv'
  <2>1. ASSUME NEW m \in 1 .. n - 1, NEW l \in 1 .. n - 1, queue'[m] = queue'[l]
        PROVE  m = l
    <3>1. m + 1 \in 1 .. n /\ l + 1 \in 1 .. n /\ queue[m + 1] = queue[l + 1]
      BY <1>3, <1>4, <2>1
    <3>2. m + 1 = l + 1
      BY <1>0, <3>1 DEF QueueInv
    <3> QED
      BY <3>2
  <2>2. ASSUME NEW m \in 1 .. n - 1
        PROVE  \E q \in Uses : /\ at[q] = queue'[m]
                               /\ \/ pc[q] = "io" /\ ~buf'[queue'[m]].valid
                                  \/ pc[q] = "writing" /\ buf'[queue'[m]].dirty
    <3>1. m + 1 \in 1 .. n /\ queue'[m] = queue[m + 1] /\ buf'[queue'[m]] = buf[queue[m + 1]]
      BY <1>1, <1>3, <1>4
    <3> QED
      BY <1>0, <3>1 DEF QueueInv
  <2> QED
    BY <1>1, <1>3, <2>1, <2>2 DEF QueueInv
<1>14. IdeInv'
  <2>1. CASE queue' = <<>>
    BY <1>5, <2>1 DEF IdeInv, Idle
  <2>2. CASE queue' # <<>>
    <3>1. /\ ide'.cmd = IF buf[Head(queue')].dirty THEN "write" ELSE "read"
          /\ ide'.blk = buf[Head(queue')].blk /\ ide'.data = buf[Head(queue')].data
      BY <1>5, <2>2
    <3> QED
      BY <1>6, <2>2, <3>1 DEF IdeInv
  <2> QED
    BY <2>1, <2>2
<1> QED
  BY <1>7, <1>9, <1>12, <1>13, <1>14 DEF BufInv

\* bget() takes one more reference to the block's buffer, or gives the block a victim.
LEMMA BgetEffect ==
  ASSUME BufInv, NEW p \in Uses, NEW b \in Blocks, Bget(p, b)
  PROVE  /\ UNCHANGED <<lru, queue, ide, disk>> /\ pc[p] = "idle"
         /\ gets' \in [Uses -> Seq(Blocks)]
         /\ pc' \in [Uses -> BufPc] /\ pc'[p] = "lock" /\ \A q \in Uses : q # p => pc'[q] = pc[q]
         /\ \E i \in Bufs :
              /\ at' = [at EXCEPT ![p] = i]
              /\ \A j \in Bufs : j # i => buf'[j] = buf[j]
              /\ buf'[i].blk = b /\ buf'[i].data = buf[i].data /\ buf'[i].lock = buf[i].lock
              /\ \/ /\ SameData(i) /\ buf'[i].ref = buf[i].ref + 1
                 \/ /\ i \in Victims /\ Cached(b) = {}
                    /\ buf'[i].ref = 1 /\ ~buf'[i].valid /\ ~buf'[i].dirty
              /\ buf' \in [Bufs -> Buffer]
<1>0. BufTypes /\ buf \in [Bufs -> Buffer]
  BY DEF BufInv, BufTypes
<1>1. UNCHANGED <<lru, queue, ide, disk>> /\ pc[p] = "idle"
  BY DEF Bget
<1>2. gets' \in [Uses -> Seq(Blocks)]
  BY <1>0 DEF Bget, BufTypes
<1>3. pc' \in [Uses -> BufPc] /\ pc'[p] = "lock" /\ \A q \in Uses : q # p => pc'[q] = pc[q]
  BY <1>0 DEF Bget, BufTypes, BufPc
<1>4. CASE Cached(b) # {}
  <2> DEFINE i == CHOOSE j \in Cached(b) : TRUE
  <2>1. i \in Bufs /\ buf[i].blk = b
    BY <1>4 DEF Cached
  <2>2. buf' = [buf EXCEPT ![i].ref = @ + 1] /\ at' = [at EXCEPT ![p] = i]
    BY <1>4 DEF Bget
  <2> HIDE DEF i
  <2> DEFINE c == [buf[i] EXCEPT !.ref = @ + 1]
  <2>3. /\ c \in Buffer /\ c.blk = b /\ c.data = buf[i].data /\ c.lock = buf[i].lock /\ c.ref = buf[i].ref + 1
        /\ (c.valid <=> buf[i].valid) /\ (c.dirty <=> buf[i].dirty)
    BY <1>0, <2>1 DEF Buffer
  <2>4. buf' = [buf EXCEPT ![i] = c]
    BY <2>2
  <2> HIDE DEF c
  <2>5. buf' \in [Bufs -> Buffer] /\ buf'[i] = c /\ \A j \in Bufs : j # i => buf'[j] = buf[j]
    BY <1>0, <2>1, <2>3, <2>4
  <2> QED
    BY <1>1, <1>2, <1>3, <2>1, <2>2, <2>3, <2>5 DEF SameData
<1>5. CASE Cached(b) = {}
  <2> DEFINE i == Victim
  <2>1. Victims # {} /\ at' = [at EXCEPT ![p] = i]
    BY <1>5 DEF Bget
  <2>2. i \in Bufs /\ i \in Victims
    BY <2>1, VictimFound DEF Victims
  <2> DEFINE c == [buf[i] EXCEPT !.blk = b, !.ref = 1, !.valid = FALSE, !.dirty = FALSE]
  <2>3. buf' = [buf EXCEPT ![i] = c]
    BY <1>5 DEF Bget
  <2> HIDE DEF i
  <2>4. /\ c \in Buffer /\ c.blk = b /\ c.data = buf[i].data /\ c.lock = buf[i].lock /\ c.ref = 1
        /\ ~c.valid /\ ~c.dirty
    BY <1>0, <2>2 DEF Buffer
  <2> HIDE DEF c
  <2>5. buf' \in [Bufs -> Buffer] /\ buf'[i] = c /\ \A j \in Bufs : j # i => buf'[j] = buf[j]
    BY <1>0, <2>2, <2>3, <2>4
  <2> QED
    BY <1>1, <1>2, <1>3, <1>5, <2>1, <2>2, <2>4, <2>5
<1> QED
  BY <1>4, <1>5

\* A buffer without references is used by nobody and locked by nobody.
LEMMA NoRefNoUser ==
  ASSUME BufInv, NEW i \in Bufs, buf[i].ref = 0
  PROVE  (\A q \in Uses : at[q] # i) /\ buf[i].lock = Nobody
<1>1. Users(i) = {}
  <2>1. Users(i) \subseteq Uses /\ IsFiniteSet(Users(i))
    BY BufConsts, FS_Subset DEF Users
  <2>2. Cardinality(Users(i)) = 0
    BY DEF BufInv, UseInv
  <2> QED
    BY <2>1, <2>2, FS_EmptySet
<1>2. \A q \in Uses : at[q] # i
  BY <1>1 DEF Users
<1>3. buf[i].lock \in Uses \cup {Nobody}
  BY InRange DEF Buffer
<1> QED
  BY <1>2, <1>3 DEF BufInv, UseInv

\* bget() keeps the invariant.
LEMMA BgetStep ==
  ASSUME BufInv, NEW p \in Uses, NEW b \in Blocks, Bget(p, b)
  PROVE  BufInv'
<1>0. BufTypes /\ LruInv /\ UseInv /\ DataInv /\ QueueInv /\ IdeInv
  BY DEF BufInv
<1>1. /\ UNCHANGED <<lru, queue, ide, disk>> /\ pc[p] = "idle" /\ gets' \in [Uses -> Seq(Blocks)]
      /\ pc' \in [Uses -> BufPc] /\ pc'[p] = "lock" /\ \A q \in Uses : q # p => pc'[q] = pc[q]
  BY BgetEffect
<1>2. PICK i \in Bufs :
        /\ at' = [at EXCEPT ![p] = i]
        /\ \A j \in Bufs : j # i => buf'[j] = buf[j]
        /\ buf'[i].blk = b /\ buf'[i].data = buf[i].data /\ buf'[i].lock = buf[i].lock
        /\ \/ /\ SameData(i) /\ buf'[i].ref = buf[i].ref + 1
           \/ /\ i \in Victims /\ Cached(b) = {}
              /\ buf'[i].ref = 1 /\ ~buf'[i].valid /\ ~buf'[i].dirty
        /\ buf' \in [Bufs -> Buffer]
  BY BgetEffect
<1>3. at[p] = 0 /\ at'[p] = i /\ \A q \in Uses : q # p => at'[q] = at[q]
  BY <1>0, <1>1, <1>2 DEF UseInv, BufTypes
<1>4. at' \in [Uses -> 0 .. NBUF]
  BY <1>0, <1>2, BufConsts DEF BufTypes
<1>5. BufTypes' /\ LruInv'
  BY <1>0, <1>1, <1>2, <1>4 DEF BufTypes, LruInv
<1>6. i \in Victims => buf[i].ref = 0 /\ ~buf[i].dirty /\ buf[i].lock = Nobody /\ \A q \in Uses : at[q] # i
  BY NoRefNoUser DEF Victims
<1>7. \A j \in Bufs : \/ SameData(j)
                      \/ j = i /\ i \in Victims /\ ~buf'[j].valid /\ ~buf'[j].dirty /\ buf'[j].blk = b
  BY <1>2 DEF SameData
<1>8. \A q \in Uses : at[q] # 0 => at[q] \in Bufs /\ SameData(at[q]) /\ q # p
  BY <1>3, <1>6, <1>7, InRange
<1>9. UseInv'
  <2>1. \A q \in Uses : pc'[q] = "idle" <=> at'[q] = 0
    BY <1>0, <1>1, <1>3, BufConsts DEF UseInv
  <2>2. \A q \in Uses : at'[q] # 0 => buf'[at'[q]].blk \in Blocks
    BY <1>0, <1>2, <1>3, <1>8 DEF UseInv, SameData
  <2>3. \A j, l \in Bufs : buf'[j].blk = buf'[l].blk /\ buf'[j].blk \in Blocks => j = l
    <3>1. \A j \in Bufs : j # i => buf[j].blk # b
      BY <1>0, <1>2 DEF UseInv, Cached, SameData
    <3> QED
      BY <1>0, <1>2, <3>1 DEF UseInv
  <2>4. ASSUME NEW j \in Bufs
        PROVE  buf'[j].ref = Cardinality(Users(j)')
    <3>0. Users(j) \subseteq Uses /\ IsFiniteSet(Users(j)) /\ buf[j].ref = Cardinality(Users(j))
      BY <1>0, BufConsts, FS_Subset DEF Users, UseInv
    <3>1. CASE j # i
      <4>1. Users(j)' = Users(j)
        BY <1>3, <3>1, BufConsts DEF Users
      <4> QED
        BY <1>2, <3>0, <3>1, <4>1
    <3>2. CASE j = i
      <4>1. Users(i)' = Users(i) \cup {p} /\ p \notin Users(i)
        BY <1>3, BufConsts DEF Users
      <4>2. Cardinality(Users(i)') = Cardinality(Users(i)) + 1
        BY <3>0, <3>2, <4>1, FS_AddElement
      <4>3. buf'[i].ref = buf[i].ref + 1
        BY <1>2, <1>6
      <4> QED
        BY <3>0, <3>2, <4>2, <4>3
    <3> QED
      BY <3>1, <3>2
  <2>5. \A j \in Bufs, q \in Uses : buf'[j].lock = q <=> at'[q] = j /\ Holding(q)'
    <3>1. ~Holding(p)' /\ ~Holding(p) /\ \A q \in Uses : q # p => (Holding(q)' <=> Holding(q))
      BY <1>1 DEF Holding
    <3>2. \A j \in Bufs : buf'[j].lock = buf[j].lock
      BY <1>2
    <3> QED
      BY <1>0, <1>3, <3>1, <3>2 DEF UseInv
  <2> QED
    BY <2>1, <2>2, <2>3, <2>4, <2>5 DEF UseInv
<1>10. DataInv'
  <2>1. \A j \in Bufs : /\ buf'[j].dirty => buf'[j].valid
                        /\ buf'[j].valid => buf'[j].blk \in Blocks
                        /\ buf'[j].valid /\ ~buf'[j].dirty => buf'[j].data = disk[buf'[j].blk]
    BY <1>0, <1>7 DEF DataInv, SameData
  <2>2. \A q \in Uses : pc'[q] # "lock" /\ pc'[q] # "idle" => pc'[q] = pc[q] /\ at'[q] = at[q] /\ at[q] # 0
    BY <1>0, <1>1, <1>3 DEF UseInv
  <2>3. \A q \in Uses : /\ pc'[q] \in {"hold", "write", "writing", "done"} => buf'[at'[q]].valid
                        /\ pc'[q] = "rw" => ~buf'[at'[q]].valid
                        /\ pc'[q] = "write" => buf'[at'[q]].dirty
    BY <1>0, <1>8, <2>2 DEF DataInv, SameData
  <2> QED
    BY <1>1, <2>1, <2>3 DEF DataInv
<1>11. \A m \in 1 .. Len(queue) : SameData(queue[m]) /\ \E q \in Uses : q # p /\ at[q] = queue[m]
                                 /\ \/ pc[q] = "io" /\ ~buf[queue[m]].valid
                                    \/ pc[q] = "writing" /\ buf[queue[m]].dirty
  <2> SUFFICES ASSUME NEW m \in 1 .. Len(queue)
               PROVE  SameData(queue[m]) /\ \E q \in Uses : q # p /\ at[q] = queue[m]
                                 /\ \/ pc[q] = "io" /\ ~buf[queue[m]].valid
                                    \/ pc[q] = "writing" /\ buf[queue[m]].dirty
    OBVIOUS
  <2>1. PICK q \in Uses : /\ at[q] = queue[m]
                          /\ \/ pc[q] = "io" /\ ~buf[queue[m]].valid
                             \/ pc[q] = "writing" /\ buf[queue[m]].dirty
    BY <1>0, Zenon DEF QueueInv
  <2>2. q # p
    BY <1>1, <2>1
  <2>3. SameData(at[q])
    <3>1. at[q] # 0
      BY <1>0, <2>1 DEF UseInv
    <3> QED
      BY <1>8, <3>1
  <2>4. SameData(queue[m])
    BY <2>1, <2>3
  <2> QED
    BY <2>1, <2>2, <2>4, Zenon
<1>12. QueueInv'
  <2>1. ASSUME NEW m \in 1 .. Len(queue)
        PROVE  \E q \in Uses : /\ at'[q] = queue[m]
                               /\ \/ pc'[q] = "io" /\ ~buf'[queue[m]].valid
                                  \/ pc'[q] = "writing" /\ buf'[queue[m]].dirty
    <3>1. PICK q \in Uses : /\ at[q] = queue[m]
                            /\ \/ pc[q] = "io" /\ ~buf[queue[m]].valid
                               \/ pc[q] = "writing" /\ buf[queue[m]].dirty
      BY <1>0 DEF QueueInv
    <3>2. pc'[q] = pc[q] /\ at'[q] = at[q]
      BY <1>1, <1>3, <3>1
    <3>3. SameData(queue[m])
      BY <1>11
    <3> QED
      BY <3>1, <3>2, <3>3 DEF SameData
  <2> QED
    BY <1>0, <1>1, <2>1 DEF QueueInv
<1>13. IdeInv'
  BY <1>0, <1>1, <1>11, InRange DEF IdeInv, SameData
<1> QED
  BY <1>5, <1>9, <1>10, <1>12, <1>13 DEF BufInv

\* Moving a buffer to the front loses none.
LEMMA FrontKeepsAll ==
  ASSUME BufInv, NEW i \in Bufs
  PROVE  /\ MoveToFront(i) \in [Bufs -> Bufs]
         /\ \A j \in Bufs : \E k \in Bufs : MoveToFront(i)[k] = j
<1> DEFINE k == CHOOSE j \in Bufs : lru[j] = i
           F == MoveToFront(i)
<1>0. lru \in [Bufs -> Bufs] /\ LruInv /\ Bufs = 1 .. NBUF /\ NBUF \in Nat
  BY BufConsts DEF BufInv, BufTypes
<1>1. k \in Bufs /\ lru[k] = i
  BY <1>0 DEF LruInv
<1>2. F = [j \in Bufs |-> IF j = 1 THEN i ELSE IF j <= k THEN lru[j - 1] ELSE lru[j]]
  BY DEF MoveToFront
<1> HIDE DEF k, F
<1>3. F \in [Bufs -> Bufs]
  <2>1. ASSUME NEW j \in Bufs
        PROVE  (IF j = 1 THEN i ELSE IF j <= k THEN lru[j - 1] ELSE lru[j]) \in Bufs
    <3>1. j # 1 => j - 1 \in Bufs
      BY <1>0
    <3> QED
      BY <1>0, <3>1
  <2> QED
    BY <1>2, <2>1
<1>4. ASSUME NEW j \in Bufs
      PROVE  \E l \in Bufs : F[l] = j
  <2>1. PICK m \in Bufs : lru[m] = j
    BY <1>0 DEF LruInv
  <2>2. CASE m < k
    <3>1. m + 1 \in Bufs /\ m + 1 # 1 /\ m + 1 <= k /\ (m + 1) - 1 = m
      BY <1>0, <1>1, <2>2
    <3>2. F[m + 1] = lru[m]
      BY <1>2, <3>1
    <3> QED
      BY <2>1, <3>1, <3>2
  <2>3. CASE m = k
    <3>1. 1 \in Bufs
      BY <1>0, <1>1
    <3>2. F[1] = i
      BY <1>2, <3>1
    <3> QED
      BY <1>1, <2>1, <2>3, <3>1, <3>2
  <2>4. CASE m > k
    <3>1. m # 1 /\ ~(m <= k)
      BY <1>0, <1>1, <2>4
    <3>2. F[m] = lru[m]
      BY <1>2, <3>1
    <3> QED
      BY <2>1, <3>2
  <2> QED
    BY <1>0, <1>1, <2>2, <2>3, <2>4
<1> QED
  BY <1>3, <1>4 DEF F

\* The second half of brelse() drops one reference.
LEMMA DropEffect ==
  ASSUME BufInv, NEW p \in Uses, BrelseDrop(p)
  PROVE  /\ UNCHANGED <<queue, ide, disk, gets>> /\ pc[p] = "drop" /\ at[p] \in Bufs
         /\ buf' \in [Bufs -> Buffer]
         /\ \A j \in Bufs : SameData(j) /\ buf'[j].lock = buf[j].lock
         /\ \A j \in Bufs : buf'[j].ref = IF j = at[p] THEN buf[j].ref - 1 ELSE buf[j].ref
         /\ pc' \in [Uses -> BufPc] /\ pc'[p] = "idle" /\ \A q \in Uses : q # p => pc'[q] = pc[q]
         /\ at' \in [Uses -> 0 .. NBUF] /\ at'[p] = 0 /\ \A q \in Uses : q # p => at'[q] = at[q]
         /\ lru' \in [Bufs -> Bufs] /\ \A i \in Bufs : \E k \in Bufs : lru'[k] = i
<1> DEFINE i == at[p]
<1>0. BufTypes /\ buf \in [Bufs -> Buffer] /\ LruInv
  BY DEF BufInv, BufTypes
<1>1. UNCHANGED <<queue, ide, disk, gets>> /\ pc[p] = "drop"
  BY DEF BrelseDrop
<1>2. i \in Bufs /\ buf[i] \in Buffer /\ buf[i].ref - 1 \in Nat
  <2>1. i \in Bufs /\ buf[i] \in Buffer
    BY <1>1, HolderFacts
  <2>2. buf[i].ref # 0
    BY <2>1, NoRefNoUser
  <2> QED
    BY <2>1, <2>2 DEF Buffer
<1> DEFINE c == [buf[i] EXCEPT !.ref = @ - 1]
<1>3. buf' = [buf EXCEPT ![i] = c]
  BY DEF BrelseDrop
<1> HIDE DEF i
<1>4. /\ c \in Buffer /\ c.blk = buf[i].blk /\ c.data = buf[i].data /\ c.lock = buf[i].lock /\ c.ref = buf[i].ref - 1
      /\ (c.valid <=> buf[i].valid) /\ (c.dirty <=> buf[i].dirty)
  BY <1>2 DEF Buffer
<1> HIDE DEF c
<1>5. buf' \in [Bufs -> Buffer] /\ buf'[i] = c /\ \A j \in Bufs : j # i => buf'[j] = buf[j]
  BY <1>0, <1>2, <1>3, <1>4
<1>6. /\ \A j \in Bufs : SameData(j) /\ buf'[j].lock = buf[j].lock
      /\ \A j \in Bufs : buf'[j].ref = IF j = i THEN buf[j].ref - 1 ELSE buf[j].ref
  BY <1>4, <1>5 DEF SameData
<1>7. /\ pc' \in [Uses -> BufPc] /\ pc'[p] = "idle" /\ \A q \in Uses : q # p => pc'[q] = pc[q]
      /\ at' \in [Uses -> 0 .. NBUF] /\ at'[p] = 0 /\ \A q \in Uses : q # p => at'[q] = at[q]
  BY <1>0, BufConsts DEF BrelseDrop, BufTypes, BufPc
<1>8. lru' \in [Bufs -> Bufs] /\ \A j \in Bufs : \E k \in Bufs : lru'[k] = j
  <2>1. lru' = MoveToFront(i) \/ lru' = lru
    BY DEF BrelseDrop, i
  <2>2. CASE lru' = lru
    BY <1>0, <2>2 DEF BufTypes, LruInv
  <2>3. CASE lru' = MoveToFront(i)
    BY <1>2, <2>3, FrontKeepsAll
  <2> QED
    BY <2>1, <2>2, <2>3
<1> QED
  BY <1>1, <1>2, <1>5, <1>6, <1>7, <1>8 DEF i

\* It keeps the invariant.
LEMMA DropStep ==
  ASSUME BufInv, NEW p \in Uses, BrelseDrop(p)
  PROVE  BufInv'
<1>0. BufTypes /\ LruInv /\ UseInv /\ DataInv /\ QueueInv /\ IdeInv
  BY DEF BufInv
<1>1. /\ UNCHANGED <<queue, ide, disk, gets>> /\ pc[p] = "drop" /\ at[p] \in Bufs
      /\ buf' \in [Bufs -> Buffer]
      /\ \A j \in Bufs : SameData(j) /\ buf'[j].lock = buf[j].lock
      /\ \A j \in Bufs : buf'[j].ref = IF j = at[p] THEN buf[j].ref - 1 ELSE buf[j].ref
      /\ pc' \in [Uses -> BufPc] /\ pc'[p] = "idle" /\ \A q \in Uses : q # p => pc'[q] = pc[q]
      /\ at' \in [Uses -> 0 .. NBUF] /\ at'[p] = 0 /\ \A q \in Uses : q # p => at'[q] = at[q]
      /\ lru' \in [Bufs -> Bufs] /\ \A i \in Bufs : \E k \in Bufs : lru'[k] = i
  BY DropEffect
<1>2. BufTypes' /\ LruInv'
  BY <1>0, <1>1 DEF BufTypes, LruInv
<1>3. UseInv'
  <2>1. \A q \in Uses : pc'[q] = "idle" <=> at'[q] = 0
    BY <1>0, <1>1 DEF UseInv
  <2>2. \A q \in Uses : at'[q] # 0 => buf'[at'[q]].blk \in Blocks
    BY <1>0, <1>1, InRange DEF UseInv, SameData
  <2>3. \A j, l \in Bufs : buf'[j].blk = buf'[l].blk /\ buf'[j].blk \in Blocks => j = l
    BY <1>0, <1>1 DEF UseInv, SameData
  <2>4. ASSUME NEW j \in Bufs
        PROVE  buf'[j].ref = Cardinality(Users(j)')
    <3>0. Users(j) \subseteq Uses /\ IsFiniteSet(Users(j)) /\ buf[j].ref = Cardinality(Users(j))
      BY <1>0, BufConsts, FS_Subset DEF Users, UseInv
    <3>1. CASE j # at[p]
      <4>1. Users(j)' = Users(j)
        BY <1>1, <3>1, BufConsts DEF Users
      <4> QED
        BY <1>1, <3>0, <3>1, <4>1
    <3>2. CASE j = at[p]
      <4>1. Users(j)' = Users(j) \ {p} /\ p \in Users(j)
        <5>1. j # 0
          BY BufConsts
        <5>2. \A q \in Uses : at'[q] = j <=> at[q] = j /\ q # p
          BY <1>1, <5>1
        <5> QED
          BY <3>2, <5>2 DEF Users
      <4>2. Cardinality(Users(j)') = Cardinality(Users(j)) - 1
        BY <3>0, <4>1, FS_RemoveElement
      <4> QED
        BY <1>1, <3>0, <3>2, <4>2
    <3> QED
      BY <3>1, <3>2
  <2>5. \A j \in Bufs, q \in Uses : buf'[j].lock = q <=> at'[q] = j /\ Holding(q)'
    <3>1. ~Holding(p)' /\ ~Holding(p) /\ \A q \in Uses : q # p => (Holding(q)' <=> Holding(q))
      BY <1>1 DEF Holding
    <3> QED
      BY <1>0, <1>1, <3>1 DEF UseInv
  <2> QED
    BY <2>1, <2>2, <2>3, <2>4, <2>5 DEF UseInv
<1>4. DataInv'
  <2>1. \A q \in Uses : pc'[q] # "idle" => pc'[q] = pc[q] /\ at'[q] = at[q] /\ at[q] \in Bufs
    BY <1>1, InRange
  <2>2. \A j \in Bufs : /\ buf'[j].dirty => buf'[j].valid
                        /\ buf'[j].valid => buf'[j].blk \in Blocks
                        /\ buf'[j].valid /\ ~buf'[j].dirty => buf'[j].data = disk[buf'[j].blk]
    BY <1>0, <1>1 DEF DataInv, SameData
  <2>3. \A q \in Uses : /\ pc'[q] \in {"hold", "write", "writing", "done"} => buf'[at'[q]].valid
                        /\ pc'[q] = "rw" => ~buf'[at'[q]].valid
                        /\ pc'[q] = "write" => buf'[at'[q]].dirty
    <3> SUFFICES ASSUME NEW q \in Uses, pc'[q] # "idle"
                 PROVE  /\ pc'[q] \in {"hold", "write", "writing", "done"} => buf'[at'[q]].valid
                        /\ pc'[q] = "rw" => ~buf'[at'[q]].valid
                        /\ pc'[q] = "write" => buf'[at'[q]].dirty
      OBVIOUS
    <3>1. pc'[q] = pc[q] /\ at'[q] = at[q] /\ SameData(at[q])
      BY <1>1, <2>1
    <3> QED
      BY <1>0, <3>1 DEF DataInv, SameData
  <2> QED
    BY <1>1, <2>2, <2>3 DEF DataInv
<1>5. QueueInv'
  <2>1. ASSUME NEW m \in 1 .. Len(queue)
        PROVE  \E q \in Uses : /\ at'[q] = queue[m]
                               /\ \/ pc'[q] = "io" /\ ~buf'[queue[m]].valid
                                  \/ pc'[q] = "writing" /\ buf'[queue[m]].dirty
    <3>1. PICK q \in Uses : /\ at[q] = queue[m]
                            /\ \/ pc[q] = "io" /\ ~buf[queue[m]].valid
                               \/ pc[q] = "writing" /\ buf[queue[m]].dirty
      BY <1>0 DEF QueueInv
    <3>2. pc'[q] = pc[q] /\ at'[q] = at[q]
      BY <1>1, <3>1
    <3>3. SameData(queue[m])
      BY <1>1, InRange
    <3> QED
      BY <3>1, <3>2, <3>3 DEF SameData
  <2> QED
    BY <1>0, <1>1, <2>1 DEF QueueInv
<1>6. IdeInv'
  BY <1>0, <1>1, InRange DEF IdeInv, SameData
<1> QED
  BY <1>2, <1>3, <1>4, <1>5, <1>6 DEF BufInv

\* The invariant holds initially,
LEMMA BufInitial == BufInit => BufInv
<1> SUFFICES ASSUME BufInit PROVE BufInv
  OBVIOUS
<1> DEFINE v == CHOOSE w \in Vals : TRUE
<1>1. v \in Vals
  BY BufConsts
<1>2. /\ disk = [b \in Blocks |-> v]
      /\ buf = [i \in Bufs |-> [blk |-> Nobody, ref |-> 0, valid |-> FALSE, dirty |-> FALSE, data |-> v, lock |-> Nobody]]
      /\ lru = [i \in Bufs |-> NBUF + 1 - i]
      /\ queue = <<>> /\ ide = Idle
      /\ pc = [p \in Uses |-> "idle"] /\ at = [p \in Uses |-> 0]
      /\ gets \in [Uses -> Seq(Blocks)]
  BY BufConsts DEF BufInit
<1> HIDE DEF v
<1>3. BufTypes
  BY <1>1, <1>2, BufConsts DEF BufTypes, Buffer, BufPc, Idle
<1>4. LruInv
  <2> SUFFICES ASSUME NEW i \in Bufs PROVE \E k \in Bufs : lru[k] = i
    BY DEF LruInv
  <2>1. NBUF + 1 - i \in Bufs /\ NBUF + 1 - (NBUF + 1 - i) = i
    BY BufConsts
  <2> QED
    BY <1>2, <2>1
<1>5. UseInv
  <2>1. \A i \in Bufs : Users(i) = {}
    BY <1>2, BufConsts DEF Users
  <2>2. \A i \in Bufs : Cardinality(Users(i)) = 0
    BY <2>1, FS_EmptySet
  <2> QED
    BY <1>2, <2>2, BufConsts DEF UseInv, Holding
<1>6. DataInv
  BY <1>2 DEF DataInv
<1>7. QueueInv /\ IdeInv
  BY <1>2 DEF QueueInv, IdeInv, Idle
<1> QED
  BY <1>3, <1>4, <1>5, <1>6, <1>7 DEF BufInv

\* and in every state of every behaviour.
LEMMA BufAlways == BufSpec => []BufInv
<1>1. BufInv /\ [BufNext]_bufvars => BufInv'
  <2> SUFFICES ASSUME BufInv, [BufNext]_bufvars PROVE BufInv'
    OBVIOUS
  <2>1. CASE UNCHANGED core
    BY <2>1 DEF core, BufInv, BufTypes, LruInv, UseInv, DataInv, QueueInv, IdeInv, Users, Holding
  <2> QED
    BY <2>1, BufCases, LockStep, WriteStep, IderwStep, IderwEndStep, DiskStep, IntrStep, BgetStep, DropStep
<1> QED
  BY <1>1, BufInitial, PTL DEF BufSpec

\* bget() panics only when every buffer is in the hands of a process or pinned by the
\* log, whatever the number of buffers, of processes and of pins: references are
\* counted exactly, and a queued or half-written buffer is always in somebody's hands.
THEOREM PanicIsHonest == BufSpec => PanicsOnlyWhenFull
<1> DEFINE Full == \A p \in halted' \ halted, i \in Bufs : i \in Pinned \/ \E u \in Uses : at[u] = i
<1>1. BufInv /\ [BufNext]_bufvars => [Full]_bufvars
  <2> SUFFICES ASSUME BufInv, BufNext, NEW p \in halted' \ halted, NEW i \in Bufs
               PROVE  i \in Pinned \/ \E u \in Uses : at[u] = i
    OBVIOUS
  <2>1. Victims = {}
    <3>1. ASSUME NEW u \in Uses, ProcStep(u), ~BgetPanics(u)
          PROVE  FALSE
      BY <3>1 DEF ProcStep, Acquire, SleepAgain, Iderw, IderwEnd, Brelse, BrelseDrop, Bget
    <3>2. ASSUME NEW u \in Uses, Change(u) \/ KillWakes(u)
          PROVE  FALSE
      BY <3>2 DEF Change, Bwrite, LogWrite, KillWakes
    <3>3. CASE DiskWorks \/ Ideintr
      BY <3>3 DEF DiskWorks, Ideintr
    <3>4. CASE \E u \in Uses : ProcStep(u) \/ Change(u) \/ KillWakes(u)
      <4>1. PICK u \in Uses : ProcStep(u) \/ Change(u) \/ KillWakes(u)
        BY <3>4
      <4>2. BgetPanics(u)
        BY <4>1, <3>1, <3>2
      <4> QED
        BY <4>2 DEF BgetPanics
    <3> QED
      BY <3>3, <3>4 DEF BufNext
  <2>2. CASE buf[i].ref # 0
    <3>1. Users(i) # {}
      <4>1. CASE Users(i) = {}
        BY <2>2, <4>1, FS_EmptySet DEF BufInv, UseInv
      <4> QED
        BY <4>1
    <3> QED
      BY <3>1 DEF Users
  <2>3. CASE buf[i].ref = 0
    <3>1. buf[i].dirty
      BY <2>1, <2>3 DEF Victims
    <3>2. \A q \in Uses : at[q] # i
      BY <2>3, NoRefNoUser
    <3>3. i \notin ToSet(queue)
      <4>1. DOMAIN queue = 1 .. Len(queue)
        BY DEF BufInv, BufTypes
      <4> QED
        BY <3>2, <4>1 DEF BufInv, QueueInv, ToSet
    <3> QED
      BY <3>1, <3>3 DEF Pinned
  <2> QED
    BY <2>2, <2>3
<1> QED
  BY <1>1, BufAlways, PTL DEF BufSpec, PanicsOnlyWhenFull

\* A sleeper and what it sleeps for.
Owed(u) == \/ pc[u] = "lock" /\ buf[at[u]].lock # Nobody
           \/ pc[u] \in {"io", "writing"} /\ at[u] \in ToSet(queue)
SleepInv == asleep \subseteq Uses /\ \A u \in asleep : Owed(u)

\* Who waits for the disk has its buffer in the queue until the request is finished.
WaitInv == \A u \in Uses : pc[u] \in {"io", "writing"} => at[u] \in ToSet(queue) \/ Finished(at[u])

\* iderw() puts the buffer at the end of the queue, ideintr() takes the first.
LEMMA QueueSets ==
  ASSUME BufInv
  PROVE  /\ \A p \in Uses : Iderw(p) => ToSet(queue') = ToSet(queue) \cup {at[p]}
         /\ Ideintr => ToSet(queue) \subseteq ToSet(queue') \cup {Head(queue)}
<1> DEFINE h == Head(queue)
           n == Len(queue)
<1>0. queue \in Seq(Bufs) /\ n \in Nat /\ DOMAIN queue = 1 .. n
  BY DEF BufInv, BufTypes
<1>1. ASSUME NEW p \in Uses, Iderw(p)
      PROVE  ToSet(queue') = ToSet(queue) \cup {at[p]}
  <2>1. at[p] \in Bufs /\ queue' = Append(queue, at[p])
    BY <1>1, HolderFacts DEF Iderw
  <2>2. /\ DOMAIN queue' = 1 .. n + 1
        /\ queue'[n + 1] = at[p] /\ \A m \in 1 .. n : queue'[m] = queue[m]
    BY <1>0, <2>1
  <2> QED
    BY <1>0, <2>2 DEF ToSet
<1>2. ASSUME Ideintr
      PROVE  ToSet(queue) \subseteq ToSet(queue') \cup {h}
  <2>1. queue # <<>> /\ queue' = Tail(queue)
    BY <1>2 DEF Ideintr
  <2>2. n >= 1 /\ h = queue[1]
    BY <1>0, <2>1
  <2>3. DOMAIN queue' = 1 .. n - 1 /\ \A m \in 1 .. n - 1 : queue'[m] = queue[m + 1]
    BY <1>0, <2>1
  <2>4. \A m \in 1 .. n : m = 1 \/ (m - 1 \in 1 .. n - 1 /\ (m - 1) + 1 = m)
    BY <1>0
  <2>5. \A m \in 1 .. n : m = 1 \/ (m - 1 \in 1 .. n - 1 /\ queue[m] = queue'[m - 1])
    BY <2>3, <2>4
  <2> HIDE DEF n, h
  <2> QED
    BY <1>0, <2>2, <2>3, <2>5 DEF ToSet
<1> QED
  BY <1>1, <1>2

\* No request is forgotten.
LEMMA WaitStep ==
  ASSUME BufInv, WaitInv, [BufNext]_bufvars
  PROVE  WaitInv'
<1>0. BufTypes
  BY DEF BufInv
\* Steps after which p waits for no disk and the others see their buffer as it was.
<1>1. ASSUME NEW p \in Uses, pc'[p] \notin {"io", "writing"},
             \A q \in Uses : q # p => pc'[q] = pc[q] /\ at'[q] = at[q],
             \A q \in Uses : q # p /\ pc[q] \in {"io", "writing"} => SameData(at[q]),
             queue' = queue
      PROVE  WaitInv'
  <2> SUFFICES ASSUME NEW u \in Uses, pc'[u] \in {"io", "writing"}
               PROVE  at'[u] \in ToSet(queue') \/ Finished(at[u])'
    BY <1>1 DEF WaitInv, Finished
  <2>1. u # p /\ pc[u] \in {"io", "writing"} /\ at'[u] = at[u] /\ SameData(at[u])
    BY <1>1
  <2>2. at[u] \in ToSet(queue) \/ Finished(at[u])
    BY <2>1 DEF WaitInv
  <2> QED
    BY <1>1, <2>1, <2>2 DEF Finished, SameData
<1>2. ASSUME NEW p \in Uses, Acquire(p) \/ Brelse(p)
      PROVE  WaitInv'
  <2>1. /\ UNCHANGED <<queue, at>> /\ \A j \in Bufs : SameData(j)
        /\ \A q \in Uses : q # p => pc'[q] = pc[q]
    BY <1>2, LockEffect
  <2>2. pc'[p] \notin {"io", "writing"}
    BY <1>0, <1>2 DEF Acquire, Brelse, BufTypes
  <2> QED
    BY <1>1, <2>1, <2>2, InRange
<1>3. ASSUME NEW p \in Uses, NEW v \in Vals, Bwrite(p, v) \/ LogWrite(p, v)
      PROVE  WaitInv'
  <2>1. /\ UNCHANGED <<queue, at>> /\ pc[p] = "hold" /\ pc'[p] \in {"hold", "write"}
        /\ \A j \in Bufs : j # at[p] => SameData(j)
        /\ \A q \in Uses : q # p => pc'[q] = pc[q]
    BY <1>3, WriteEffect
  <2>2. \A q \in Uses : at[q] = at[p] /\ Holding(q) => q = p
    BY <2>1, HolderFacts DEF Holding
  <2>3. \A q \in Uses : q # p /\ pc[q] \in {"io", "writing"} => SameData(at[q])
    BY <2>1, <2>2, InRange DEF Holding
  <2> QED
    BY <1>1, <2>1, <2>3
<1>4. ASSUME NEW p \in Uses, IderwEnd(p)
      PROVE  WaitInv'
  <2>1. /\ UNCHANGED <<queue, at, buf>> /\ pc'[p] \in {"hold", "done"}
        /\ \A q \in Uses : q # p => pc'[q] = pc[q]
    BY <1>0, <1>4 DEF IderwEnd, BufTypes
  <2> QED
    BY <1>1, <2>1 DEF SameData
<1>5. ASSUME NEW p \in Uses, NEW b \in Blocks, Bget(p, b)
      PROVE  WaitInv'
  <2>1. /\ UNCHANGED queue /\ pc'[p] = "lock" /\ \A q \in Uses : q # p => pc'[q] = pc[q]
        /\ \E i \in Bufs : /\ at' = [at EXCEPT ![p] = i]
                           /\ \A j \in Bufs : j # i => buf'[j] = buf[j]
                           /\ SameData(i) \/ i \in Victims
    BY <1>5, BgetEffect
  <2>2. PICK i \in Bufs : /\ at' = [at EXCEPT ![p] = i]
                          /\ \A j \in Bufs : j # i => buf'[j] = buf[j]
                          /\ SameData(i) \/ i \in Victims
    BY <2>1
  <2>3. \A q \in Uses : q # p => at'[q] = at[q]
    BY <1>0, <2>2 DEF BufTypes
  <2>4. i \in Victims => \A q \in Uses : at[q] # i
    BY NoRefNoUser DEF Victims
  <2>5. \A q \in Uses : at[q] \in Bufs => SameData(at[q])
    BY <2>2, <2>4 DEF SameData
  <2> QED
    BY <1>1, <2>1, <2>3, <2>5, InRange
<1>6. ASSUME NEW p \in Uses, BrelseDrop(p)
      PROVE  WaitInv'
  <2>1. /\ UNCHANGED queue /\ pc'[p] = "idle" /\ \A q \in Uses : q # p => pc'[q] = pc[q] /\ at'[q] = at[q]
        /\ \A j \in Bufs : SameData(j)
    BY <1>6, DropEffect
  <2> QED
    BY <1>1, <2>1, InRange
<1>7. ASSUME NEW p \in Uses, Iderw(p)
      PROVE  WaitInv'
  <2>1. UNCHANGED <<buf, at>> /\ \A q \in Uses : q # p => pc'[q] = pc[q]
    BY <1>0, <1>7 DEF Iderw, BufTypes
  <2>2. ToSet(queue') = ToSet(queue) \cup {at[p]}
    BY <1>7, QueueSets
  <2> SUFFICES ASSUME NEW u \in Uses, pc'[u] \in {"io", "writing"}
               PROVE  at'[u] \in ToSet(queue') \/ Finished(at[u])'
    BY <2>1 DEF WaitInv, Finished
  <2>3. CASE u = p
    BY <2>1, <2>2, <2>3
  <2>4. CASE u # p
    BY <2>1, <2>2, <2>4 DEF WaitInv, Finished
  <2> QED
    BY <2>3, <2>4
<1>8. CASE Ideintr
  <2> DEFINE h == Head(queue)
  <2>1. /\ UNCHANGED <<pc, at>> /\ h \in Bufs /\ buf'[h].valid /\ ~buf'[h].dirty
        /\ \A j \in Bufs : j # h => buf'[j] = buf[j]
    BY <1>8, IntrEffect
  <2>2. ToSet(queue) \subseteq ToSet(queue') \cup {h}
    BY <1>8, QueueSets
  <2> HIDE DEF h
  <2> SUFFICES ASSUME NEW u \in Uses, pc'[u] \in {"io", "writing"}
               PROVE  at'[u] \in ToSet(queue') \/ Finished(at[u])'
    BY <2>1 DEF WaitInv, Finished
  <2>3. pc[u] \in {"io", "writing"} /\ at'[u] = at[u] /\ at[u] \in Bufs
    BY <2>1, InRange
  <2>4. CASE at[u] = h
    BY <2>1, <2>3, <2>4 DEF Finished
  <2>5. CASE at[u] # h
    BY <2>1, <2>2, <2>3, <2>5 DEF Finished, WaitInv
  <2> QED
    BY <2>4, <2>5
<1>9. CASE DiskWorks \/ UNCHANGED core
  <2>1. UNCHANGED <<pc, at, buf, queue>>
    BY <1>9 DEF DiskWorks, core
  <2> QED
    BY <2>1 DEF WaitInv, Finished
<1> QED
  BY <1>2, <1>3, <1>4, <1>5, <1>6, <1>7, <1>8, <1>9, BufCases, Zenon

\* No step takes away what a process sleeps for without waking it.
LEMMA SleepStep ==
  ASSUME BufInv, WaitInv, SleepInv, [BufNext]_bufvars
  PROVE  SleepInv'
<1>0. BufTypes /\ asleep \subseteq Uses /\ \A u \in asleep : Owed(u)
  BY DEF BufInv, SleepInv
<1>1. \A u \in asleep : at[u] \in Bufs /\ pc[u] \in {"lock", "io", "writing"}
  BY <1>0, InRange DEF Owed
\* A use that is not asleep goes on; the others keep their place, lock and queue.
<1>2. ASSUME NEW p \in Uses, p \notin asleep, asleep' \subseteq asleep,
             \A q \in Uses : q # p => pc'[q] = pc[q] /\ at'[q] = at[q],
             \A j \in Bufs : buf[j].lock # Nobody => buf'[j].lock # Nobody,
             queue' = queue
      PROVE  SleepInv'
  <2> SUFFICES ASSUME NEW u \in asleep' PROVE u \in Uses /\ Owed(u)'
    BY DEF SleepInv
  <2>1. u \in asleep /\ u \in Uses /\ u # p /\ Owed(u) /\ at[u] \in Bufs
    BY <1>0, <1>1, <1>2
  <2>2. pc'[u] = pc[u] /\ at'[u] = at[u]
    BY <1>2, <2>1
  <2> QED
    BY <1>2, <2>1, <2>2 DEF Owed
<1>3. ASSUME NEW p \in Uses, Acquire(p)
      PROVE  SleepInv'
  <2>1. /\ UNCHANGED <<queue, at, asleep>> /\ p \notin asleep
        /\ \A j \in Bufs : j # at[p] => buf'[j].lock = buf[j].lock
        /\ \A q \in Uses : q # p => pc'[q] = pc[q]
    BY <1>3, LockEffect DEF Acquire
  <2>2. buf'[at[p]].lock # Nobody
    <3>1. at[p] \in Bufs /\ p # Nobody
      BY <1>3, HolderFacts, BufConsts DEF Acquire
    <3> QED
      BY <1>0, <1>3, <3>1 DEF Acquire, BufTypes, Buffer
  <2> QED
    BY <1>2, <2>1, <2>2
<1>4. ASSUME NEW p \in Uses, Brelse(p)
      PROVE  SleepInv'
  <2>1. /\ UNCHANGED <<queue, at>> /\ asleep' = asleep \ Sleepers(at[p], {"lock"})
        /\ \A j \in Bufs : j # at[p] => buf'[j].lock = buf[j].lock
        /\ \A q \in Uses : q # p => pc'[q] = pc[q]
    BY <1>4, LockEffect DEF Brelse
  <2>2. p \notin asleep
    BY <1>1, <1>4 DEF Brelse
  <2> SUFFICES ASSUME NEW u \in asleep' PROVE u \in Uses /\ Owed(u)'
    BY DEF SleepInv
  <2>3. u \in asleep /\ u \in Uses /\ u # p /\ Owed(u) /\ at[u] \in Bufs /\ pc'[u] = pc[u]
    BY <1>0, <1>1, <2>1, <2>2
  <2>4. pc[u] = "lock" => at[u] # at[p]
    BY <2>1, <2>3 DEF Sleepers
  <2> QED
    BY <2>1, <2>3, <2>4 DEF Owed
<1>5. ASSUME NEW p \in Uses, NEW v \in Vals, Bwrite(p, v) \/ LogWrite(p, v)
      PROVE  SleepInv'
  <2>1. /\ UNCHANGED <<queue, at>> /\ pc[p] = "hold"
        /\ \A j \in Bufs : buf'[j].lock = buf[j].lock
        /\ \A q \in Uses : q # p => pc'[q] = pc[q]
    BY <1>5, WriteEffect
  <2>2. p \notin asleep /\ asleep' = asleep
    BY <1>1, <1>5, <2>1 DEF Bwrite, LogWrite
  <2> QED
    BY <1>2, <2>1, <2>2
<1>6. ASSUME NEW p \in Uses, IderwEnd(p)
      PROVE  SleepInv'
  <2>1. /\ UNCHANGED <<queue, at, buf, asleep>> /\ p \notin asleep
        /\ \A q \in Uses : q # p => pc'[q] = pc[q]
    BY <1>0, <1>6 DEF IderwEnd, BufTypes
  <2> QED
    BY <1>2, <2>1
<1>7. ASSUME NEW p \in Uses, NEW b \in Blocks, Bget(p, b)
      PROVE  SleepInv'
  <2>1. /\ UNCHANGED queue /\ pc[p] = "idle" /\ \A q \in Uses : q # p => pc'[q] = pc[q]
        /\ \A j \in Bufs : buf'[j].lock = buf[j].lock
        /\ \A q \in Uses : q # p => at'[q] = at[q]
    <3>1. /\ UNCHANGED queue /\ pc[p] = "idle" /\ \A q \in Uses : q # p => pc'[q] = pc[q]
          /\ \E i \in Bufs : /\ at' = [at EXCEPT ![p] = i]
                             /\ \A j \in Bufs : j # i => buf'[j] = buf[j]
                             /\ buf'[i].lock = buf[i].lock
      BY <1>7, BgetEffect
    <3> QED
      BY <1>0, <3>1 DEF BufTypes
  <2>2. p \notin asleep /\ asleep' = asleep
    BY <1>1, <1>7, <2>1 DEF Bget
  <2> QED
    BY <1>2, <2>1, <2>2
<1>8. ASSUME NEW p \in Uses, BrelseDrop(p)
      PROVE  SleepInv'
  <2>1. /\ UNCHANGED queue /\ pc[p] = "drop" /\ \A q \in Uses : q # p => pc'[q] = pc[q] /\ at'[q] = at[q]
        /\ \A j \in Bufs : buf'[j].lock = buf[j].lock
    BY <1>8, DropEffect
  <2>2. p \notin asleep /\ asleep' = asleep
    BY <1>1, <1>8, <2>1 DEF BrelseDrop
  <2> QED
    BY <1>2, <2>1, <2>2
<1>9. ASSUME NEW p \in Uses, Iderw(p)
      PROVE  SleepInv'
  <2>1. /\ UNCHANGED <<buf, at>> /\ asleep' = asleep \cup {p} /\ at[p] \in Bufs
        /\ pc'[p] \in {"io", "writing"} /\ \A q \in Uses : q # p => pc'[q] = pc[q]
    <3>1. pc[p] # "idle" /\ UNCHANGED <<buf, at>> /\ asleep' = asleep \cup {p}
      BY <1>9 DEF Iderw
    <3>2. at[p] \in Bufs
      BY <3>1, HolderFacts
    <3> QED
      BY <1>0, <1>9, <3>1, <3>2 DEF Iderw, BufTypes
  <2>2. ToSet(queue') = ToSet(queue) \cup {at[p]}
    BY <1>9, QueueSets
  <2>3. \A u \in asleep : u # p /\ u \in Uses
    BY <1>0, <1>1, <1>9 DEF Iderw
  <2> SUFFICES ASSUME NEW u \in asleep' PROVE u \in Uses /\ Owed(u)'
    BY DEF SleepInv
  <2>4. CASE u = p
    BY <2>1, <2>2, <2>4 DEF Owed
  <2>5. CASE u \in asleep
    <3>1. pc'[u] = pc[u] /\ Owed(u)
      BY <1>0, <2>1, <2>3, <2>5
    <3> QED
      BY <2>1, <2>2, <2>3, <2>5, <3>1 DEF Owed
  <2> QED
    BY <2>1, <2>4, <2>5
<1>10. CASE Ideintr
  <2> DEFINE h == Head(queue)
  <2>1. /\ UNCHANGED <<pc, at>> /\ queue # <<>> /\ h \in Bufs
        /\ \A j \in Bufs : j # h => buf'[j] = buf[j]
        /\ buf'[h].lock = buf[h].lock
    BY <1>10, IntrEffect
  <2>2. asleep' = asleep \ Sleepers(h, {"io", "writing"}) /\ queue' = Tail(queue)
    BY <1>10 DEF Ideintr
  <2>3. ToSet(queue) \subseteq ToSet(queue') \cup {h}
    BY <1>10, QueueSets
  <2> HIDE DEF h
  <2> SUFFICES ASSUME NEW u \in asleep' PROVE u \in Uses /\ Owed(u)'
    BY DEF SleepInv
  <2>4. u \in asleep /\ u \in Uses /\ Owed(u) /\ at[u] \in Bufs /\ (pc[u] \in {"io", "writing"} => at[u] # h)
    BY <1>0, <1>1, <2>2 DEF Sleepers
  <2>5. buf'[at[u]].lock = buf[at[u]].lock
    BY <2>1, <2>4
  <2> QED
    BY <2>1, <2>3, <2>4, <2>5 DEF Owed
<1>11. ASSUME NEW p \in Uses, SleepAgain(p)
       PROVE  SleepInv'
  <2>1. UNCHANGED <<pc, at, buf, queue>> /\ asleep' = asleep \cup {p}
    BY <1>11 DEF SleepAgain
  <2>2. Owed(p)
    <3>1. CASE pc[p] = "lock"
      BY <1>11, <3>1 DEF SleepAgain, Owed
    <3>2. CASE pc[p] \in {"io", "writing"} /\ ~Finished(at[p])
      BY <3>2 DEF WaitInv, Owed
    <3> QED
      BY <1>11, <3>1, <3>2 DEF SleepAgain
  <2> QED
    BY <1>0, <2>1, <2>2 DEF SleepInv, Owed
<1>12. CASE DiskWorks \/ UNCHANGED bufvars \/ \E p \in Uses : KillWakes(p) \/ BgetPanics(p)
  <2>1. UNCHANGED <<pc, at, buf, queue>> /\ asleep' \subseteq asleep
    BY <1>12 DEF DiskWorks, bufvars, KillWakes, BgetPanics
  <2> QED
    BY <1>0, <2>1 DEF SleepInv, Owed
<1> QED
  BY <1>3, <1>4, <1>5, <1>6, <1>7, <1>8, <1>9, <1>10, <1>11, <1>12, Zenon DEF BufNext, ProcStep, Change

\* acquiresleep(), releasesleep(), iderw() and ideintr() lose no wakeup: who sleeps for a
\* sleep lock finds it taken, and who sleeps for the disk has its buffer in the queue,
\* for every number of processes and buffers and wherever kill() wakes somebody.
THEOREM NoLostBufWakeup == BufSpec => []SleepersAreOwed
<1>1. BufInit => WaitInv /\ SleepInv
  BY DEF BufInit, WaitInv, SleepInv
<1>2. BufInv /\ WaitInv /\ SleepInv /\ [BufNext]_bufvars => WaitInv' /\ SleepInv'
  BY WaitStep, SleepStep
<1>3. SleepInv => SleepersAreOwed
  BY DEF SleepInv, SleepersAreOwed, Owed
<1> QED
  BY <1>1, <1>2, <1>3, BufAlways, PTL DEF BufSpec
-----------------------------------------------------------------------------
\* How the blocks look to the callers: through the buffer that has the block, if one
\* has and it is valid, else on the disk.
ViewOK ==
  /\ \A i \in Bufs : buf[i].blk \in Blocks =>
       /\ Owner(buf[i].blk) = buf[i].lock
       /\ buf[i].valid => Contents(buf[i].blk) = buf[i].data
       /\ ~buf[i].valid => Contents(buf[i].blk) = disk[buf[i].blk]
  /\ \A b \in Blocks : Cached(b) = {} => Owner(b) = Nobody /\ Contents(b) = disk[b]

\* Since no block has two buffers, they do look so.
LEMMA View == BufInv => ViewOK
<1> SUFFICES ASSUME BufInv PROVE ViewOK
  OBVIOUS
<1>1. ASSUME NEW i \in Bufs, buf[i].blk \in Blocks
      PROVE  /\ Owner(buf[i].blk) = buf[i].lock
             /\ buf[i].valid => Contents(buf[i].blk) = buf[i].data
             /\ ~buf[i].valid => Contents(buf[i].blk) = disk[buf[i].blk]
  <2> DEFINE b == buf[i].blk
  <2>1. Cached(b) = {i}
    BY <1>1 DEF BufInv, UseInv, Cached
  <2>2. {j \in Cached(b) : buf[j].valid} = IF buf[i].valid THEN {i} ELSE {}
    BY <2>1
  <2>3. {j \in Cached(b) : buf[j].lock # Nobody} = IF buf[i].lock # Nobody THEN {i} ELSE {}
    BY <2>1
  <2>4. (CHOOSE j \in {i} : TRUE) = i
    OBVIOUS
  <2> HIDE DEF b
  <2>5. Owner(b) = buf[i].lock
    BY <2>3, <2>4 DEF Owner
  <2>6. /\ buf[i].valid => Contents(b) = buf[i].data
        /\ ~buf[i].valid => Contents(b) = disk[b]
    BY <2>2, <2>4 DEF Contents
  <2> QED
    BY <2>5, <2>6 DEF b
<1>2. ASSUME NEW b \in Blocks, Cached(b) = {}
      PROVE  Owner(b) = Nobody /\ Contents(b) = disk[b]
  BY <1>2 DEF Owner, Contents
<1> QED
  BY <1>1, <1>2 DEF ViewOK

\* Buffer j shows the same contents after a step, from its data or from the disk.
SameSeen(j) ==
  LET b == buf[j].blk
  IN  /\ buf[j].valid /\ buf'[j].valid => buf'[j].data = buf[j].data
      /\ buf[j].valid /\ ~buf'[j].valid => disk'[b] = buf[j].data
      /\ ~buf[j].valid /\ buf'[j].valid => buf'[j].data = disk[b]
      /\ ~buf[j].valid /\ ~buf'[j].valid => disk'[b] = disk[b]

\* A block looks the same after a step that leaves it with its buffer, if the buffer
\* shows the same; and it has the same holder if the lock is not moved.
LEMMA SeenAgain ==
  ASSUME BufInv, BufInv', NEW b \in Blocks,
         \A j \in Bufs : buf'[j].blk = b <=> buf[j].blk = b
  PROVE  /\ (\A j \in Bufs : buf[j].blk = b => SameSeen(j)) /\ (Cached(b) = {} => disk'[b] = disk[b])
              => Contents(b)' = Contents(b)
         /\ (\A j \in Bufs : buf[j].blk = b => buf'[j].lock = buf[j].lock) => Owner(b)' = Owner(b)
<1>1. ViewOK /\ ViewOK'
  BY View, PTL
<1>2. CASE Cached(b) = {}
  <2>1. Cached(b)' = {}
    BY <1>2 DEF Cached
  <2>2. Owner(b)' = Nobody /\ Contents(b)' = disk'[b]
    BY <1>1, <2>1 DEF ViewOK
  <2>3. Owner(b) = Nobody /\ Contents(b) = disk[b]
    BY <1>1, <1>2 DEF ViewOK
  <2> QED
    BY <1>2, <2>2, <2>3
<1>3. CASE Cached(b) # {}
  <2>1. PICK i \in Bufs : buf[i].blk = b /\ buf'[i].blk = b
    BY <1>3 DEF Cached
  <2>2. /\ Owner(b)' = buf'[i].lock
        /\ buf'[i].valid => Contents(b)' = buf'[i].data
        /\ ~buf'[i].valid => Contents(b)' = disk'[b]
    BY <1>1, <2>1 DEF ViewOK
  <2>3. /\ Owner(b) = buf[i].lock
        /\ buf[i].valid => Contents(b) = buf[i].data
        /\ ~buf[i].valid => Contents(b) = disk[b]
    BY <1>1, <2>1 DEF ViewOK
  <2> QED
    BY <2>1, <2>2, <2>3 DEF SameSeen
<1> QED
  BY <1>2, <1>3

\* The cache's own steps, recycling a buffer included, are not seen.
LEMMA InsideStep ==
  ASSUME BufInv, BufInv', NEW b \in Blocks,
         \/ DiskWorks \/ Ideintr \/ UNCHANGED core
         \/ \E p \in Uses : Iderw(p) \/ IderwEnd(p) \/ BrelseDrop(p) \/ \E c \in Blocks : Bget(p, c)
  PROVE  Contents(b)' = Contents(b) /\ Owner(b)' = Owner(b)
<1>1. CASE UNCHANGED core
  BY <1>1, SeenAgain DEF core, SameSeen
<1>2. ASSUME NEW p \in Uses, Iderw(p) \/ IderwEnd(p)
      PROVE  Contents(b)' = Contents(b) /\ Owner(b)' = Owner(b)
  <2>1. buf' = buf /\ disk' = disk
    BY <1>2 DEF Iderw, IderwEnd
  <2> QED
    BY <2>1, SeenAgain DEF SameSeen
<1>3. ASSUME NEW p \in Uses, BrelseDrop(p)
      PROVE  Contents(b)' = Contents(b) /\ Owner(b)' = Owner(b)
  <2>1. disk' = disk /\ \A j \in Bufs : SameData(j) /\ buf'[j].lock = buf[j].lock
    BY <1>3, DropEffect
  <2> QED
    BY <2>1, SeenAgain DEF SameSeen, SameData
<1>4. CASE DiskWorks
  <2>1. buf' = buf
    BY <1>4 DEF DiskWorks
  <2>2. disk'[b] # disk[b] => \E i \in Bufs : buf[i].blk = b /\ buf[i].valid
    BY <1>4, DiskStep
  <2>3. \A i, j \in Bufs : buf[i].blk = b /\ buf[j].blk = b => i = j
    BY DEF BufInv, UseInv
  <2>4. \A j \in Bufs : buf[j].blk = b => SameSeen(j)
    BY <2>1, <2>2, <2>3 DEF SameSeen
  <2>5. Cached(b) = {} => disk'[b] = disk[b]
    BY <2>2 DEF Cached
  <2> QED
    BY <2>1, <2>4, <2>5, SeenAgain
<1>5. CASE Ideintr
  <2> DEFINE h == Head(queue)
  <2>1. /\ disk' = disk /\ h \in Bufs /\ \A j \in Bufs : j # h => buf'[j] = buf[j]
        /\ buf'[h].blk = buf[h].blk /\ buf'[h].lock = buf[h].lock
        /\ buf'[h].valid /\ buf'[h].data = disk[buf[h].blk]
        /\ buf[h].dirty => buf'[h].data = buf[h].data
    BY <1>5, IntrEffect
  <2>2. buf[h].valid /\ ~buf[h].dirty => buf[h].data = disk[buf[h].blk]
    BY <2>1 DEF BufInv, DataInv
  <2> HIDE DEF h
  <2>3. \A j \in Bufs : SameSeen(j) /\ buf'[j].blk = buf[j].blk /\ buf'[j].lock = buf[j].lock
    BY <2>1, <2>2 DEF SameSeen
  <2> QED
    BY <2>1, <2>3, SeenAgain
<1>6. ASSUME NEW p \in Uses, NEW c \in Blocks, Bget(p, c)
      PROVE  Contents(b)' = Contents(b) /\ Owner(b)' = Owner(b)
  <2>0. disk' = disk
    BY <1>6, BgetEffect
  <2>1. PICK i \in Bufs :
          /\ \A j \in Bufs : j # i => buf'[j] = buf[j]
          /\ buf'[i].blk = c /\ buf'[i].data = buf[i].data /\ buf'[i].lock = buf[i].lock
          /\ \/ SameData(i)
             \/ i \in Victims /\ Cached(c) = {} /\ ~buf'[i].valid
    BY <1>6, BgetEffect
  <2>2. CASE SameData(i)
    <3>1. \A j \in Bufs : SameSeen(j) /\ buf'[j].blk = buf[j].blk /\ buf'[j].lock = buf[j].lock
      BY <2>0, <2>1, <2>2 DEF SameSeen, SameData
    <3> QED
      BY <2>0, <3>1, SeenAgain
  <2>3. CASE i \in Victims /\ Cached(c) = {} /\ ~buf'[i].valid
    <3>0. ViewOK /\ ViewOK'
      BY View, PTL
    <3>1. buf[i].lock = Nobody /\ (buf[i].valid => buf[i].data = disk[buf[i].blk])
      BY <2>3, NoRefNoUser DEF Victims, BufInv, DataInv
    <3>2. CASE b = c
      <4>1. Owner(b) = Nobody /\ Contents(b) = disk[b]
        BY <2>3, <3>0, <3>2 DEF ViewOK
      <4>2. Owner(b)' = buf'[i].lock /\ Contents(b)' = disk'[b]
        BY <2>1, <2>3, <3>0, <3>2 DEF ViewOK
      <4> QED
        BY <2>0, <2>1, <3>1, <4>1, <4>2
    <3>3. CASE b # c /\ b = buf[i].blk
      <4>1. Cached(b)' = {}
        <5>1. \A j \in Bufs : j # i => buf[j].blk # b
          BY <3>3 DEF BufInv, UseInv
        <5> QED
          BY <2>1, <3>3, <5>1 DEF Cached
      <4>2. Owner(b)' = Nobody /\ Contents(b)' = disk'[b]
        BY <3>0, <4>1 DEF ViewOK
      <4>3. Owner(b) = Nobody /\ Contents(b) = disk[b]
        BY <3>0, <3>1, <3>3 DEF ViewOK
      <4> QED
        BY <2>0, <4>2, <4>3
    <3>4. CASE b # c /\ b # buf[i].blk
      <4>1. \A j \in Bufs : buf'[j].blk = b <=> buf[j].blk = b
        BY <2>1, <3>4
      <4>2. \A j \in Bufs : buf[j].blk = b => SameSeen(j) /\ buf'[j].lock = buf[j].lock
        BY <2>0, <2>1, <3>4 DEF SameSeen
      <4> QED
        BY <2>0, <4>1, <4>2, SeenAgain
    <3> QED
      BY <3>2, <3>3, <3>4
  <2> QED
    BY <2>1, <2>2, <2>3
<1> QED
  BY <1>1, <1>2, <1>3, <1>4, <1>5, <1>6

\* acquiresleep() and releasesleep() are seen as taking and giving back the block.
LEMMA LockSeen ==
  ASSUME BufInv, BufInv', NEW p \in Uses, Acquire(p) \/ Brelse(p),
         NEW c \in Blocks, c = buf[at[p]].blk
  PROVE  /\ \A b \in Blocks : Contents(b)' = Contents(b) /\ (b # c => Owner(b)' = Owner(b))
         /\ \/ Owner(c) = Nobody /\ Owner(c)' = p
            \/ Owner(c) = p /\ Owner(c)' = Nobody
<1> DEFINE i == at[p]
<1>1. /\ pc[p] # "idle" /\ disk' = disk /\ at' = at
      /\ \A j \in Bufs : SameData(j)
      /\ \A j \in Bufs : j # i => buf'[j].lock = buf[j].lock
  BY LockEffect
<1>2. i \in Bufs /\ c \in Blocks /\ (Holding(p) => buf[i].lock = p)
  BY <1>1, HolderFacts
<1>3. \/ buf[i].lock = Nobody /\ buf'[i].lock = p
      \/ buf[i].lock = p /\ buf'[i].lock = Nobody
  <2>1. BufTypes
    BY DEF BufInv
  <2>2. CASE Acquire(p)
    BY <1>2, <2>1, <2>2 DEF Acquire, BufTypes, Buffer
  <2>3. CASE Brelse(p)
    <3>1. Holding(p)
      BY <2>3 DEF Brelse, Holding
    <3> QED
      BY <1>2, <2>1, <2>3, <3>1 DEF Brelse, BufTypes, Buffer
  <2> QED
    BY <2>2, <2>3
<1>4. ViewOK /\ ViewOK'
  BY View, PTL
<1>5. Owner(c) = buf[i].lock /\ Owner(c)' = buf'[i].lock
  <2>1. Owner(c) = buf[i].lock
    BY <1>2, <1>4 DEF ViewOK
  <2>2. buf'[i].blk = c
    BY <1>1, <1>2 DEF SameData
  <2>3. Owner(c)' = buf'[i].lock
    BY <1>2, <1>4, <2>2 DEF ViewOK
  <2> QED
    BY <2>1, <2>3
<1>6. ASSUME NEW b \in Blocks
      PROVE  Contents(b)' = Contents(b) /\ (b # c => Owner(b)' = Owner(b))
  <2>1. \A j \in Bufs : (buf'[j].blk = b <=> buf[j].blk = b) /\ SameSeen(j)
    BY <1>1 DEF SameData, SameSeen
  <2>2. b # c => \A j \in Bufs : buf[j].blk = b => buf'[j].lock = buf[j].lock
    BY <1>1
  <2> QED
    BY <1>1, <2>1, <2>2, SeenAgain
<1> QED
  BY <1>2, <1>3, <1>5, <1>6

\* bwrite() and log_write() are seen as writes of the block by its holder.
LEMMA WriteSeen ==
  ASSUME BufInv, BufInv', NEW p \in Uses, NEW v \in Vals, Bwrite(p, v) \/ LogWrite(p, v),
         NEW c \in Blocks, c = buf[at[p]].blk
  PROVE  /\ Owner(c) = p /\ Contents(c)' = v
         /\ \A b \in Blocks : Owner(b)' = Owner(b) /\ (b # c => Contents(b)' = Contents(b))
<1> DEFINE i == at[p]
<1>1. /\ disk' = disk /\ at' = at
      /\ pc[p] = "hold" /\ i \in Bufs /\ buf[i].lock = p /\ buf[i].valid
      /\ \A j \in Bufs : /\ buf'[j].blk = buf[j].blk /\ (buf'[j].valid <=> buf[j].valid)
                         /\ buf'[j].lock = buf[j].lock
      /\ \A j \in Bufs : j # i => SameData(j)
      /\ buf'[i].data = v
  BY WriteEffect
<1>2. c \in Blocks
  BY <1>1, HolderFacts
<1>3. ViewOK /\ ViewOK'
  BY View, PTL
<1>4. Owner(c) = p
  BY <1>1, <1>2, <1>3 DEF ViewOK
<1>5. Contents(c)' = v
  <2>1. buf'[i].blk = c /\ buf'[i].valid
    BY <1>1
  <2> QED
    BY <1>1, <1>2, <1>3, <2>1 DEF ViewOK
<1>6. ASSUME NEW b \in Blocks
      PROVE  Owner(b)' = Owner(b) /\ (b # c => Contents(b)' = Contents(b))
  <2>1. \A j \in Bufs : (buf'[j].blk = b <=> buf[j].blk = b) /\ buf'[j].lock = buf[j].lock
    BY <1>1
  <2>2. b # c => \A j \in Bufs : buf[j].blk = b => SameSeen(j)
    BY <1>1 DEF SameData, SameSeen
  <2> QED
    BY <1>1, <2>1, <2>2, SeenAgain
<1> QED
  BY <1>2, <1>4, <1>5, <1>6

\* The buffer cache, the IDE queue and the disk together are a store of blocks, in which
\* a block is with one process at a time and changes only by that process's writes,
\* whatever is recycled, read, queued, pinned or written back meanwhile (bio.c, ide.c).
THEOREM CacheRefines == BufSpec => BlocksAreKept
<1> DEFINE S == [b \in Blocks |-> Contents(b)]
           H == [b \in Blocks |-> ProcOf(Owner(b))]
<1>1. BufInit => Store!Init
  <2> SUFFICES ASSUME BufInit PROVE S \in [Blocks -> Vals] /\ H = [b \in Blocks |-> Nobody]
    BY DEF Store!Init
  <2>1. BufInv /\ ViewOK
    BY BufInitial, View
  <2>2. \A b \in Blocks : Cached(b) = {}
    BY BufConsts DEF BufInit, Cached
  <2>3. \A b \in Blocks : Owner(b) = Nobody /\ Contents(b) = disk[b] /\ disk[b] \in Vals
    BY <2>1, <2>2 DEF ViewOK, BufInv, BufTypes
  <2> QED
    BY <2>3 DEF ProcOf
<1>2. BufInv /\ BufInv' /\ [BufNext]_bufvars => [Store!Next]_<<S, H>>
  <2> SUFFICES ASSUME BufInv, BufInv', [BufNext]_bufvars
               PROVE  [Store!Next]_<<S, H>>
    OBVIOUS
  <2>1. CASE \/ DiskWorks \/ Ideintr \/ UNCHANGED core
             \/ \E p \in Uses : Iderw(p) \/ IderwEnd(p) \/ BrelseDrop(p) \/ \E c \in Blocks : Bget(p, c)
    <3>1. \A b \in Blocks : Contents(b)' = Contents(b) /\ Owner(b)' = Owner(b)
      BY <2>1, InsideStep
    <3> QED
      BY <3>1
  <2>0. \A p \in Uses : p[1] \in Procs /\ ProcOf(p) = p[1] /\ ProcOf(Nobody) = Nobody
    BY BufConsts DEF Uses, ProcOf
  <2>2. ASSUME NEW p \in Uses, Acquire(p) \/ Brelse(p)
        PROVE  Store!Next
    <3>0. PICK c \in Blocks : c = buf[at[p]].blk
      <4>1. pc[p] # "idle"
        BY <2>2 DEF Acquire, Brelse
      <4> QED
        BY <4>1, HolderFacts
    <3>1. /\ \A b \in Blocks : Contents(b)' = Contents(b) /\ (b # c => Owner(b)' = Owner(b))
          /\ \/ Owner(c) = Nobody /\ Owner(c)' = p
             \/ Owner(c) = p /\ Owner(c)' = Nobody
      BY <2>2, <3>0, LockSeen
    <3>2. S' = S
      BY <3>1
    <3>3. \A b \in Blocks : b # c => ProcOf(Owner(b))' = ProcOf(Owner(b))
      BY <3>1 DEF ProcOf
    <3>4. \/ ProcOf(Owner(c)) = Nobody /\ ProcOf(Owner(c))' = p[1]
          \/ ProcOf(Owner(c)) = p[1] /\ ProcOf(Owner(c))' = Nobody
      BY <2>0, <3>1 DEF ProcOf
    <3>5. \/ H[c] = Nobody /\ H' = [H EXCEPT ![c] = p[1]]
          \/ H[c] = p[1] /\ H' = [H EXCEPT ![c] = Nobody]
      BY <3>3, <3>4
    <3>6. Store!Get(p[1], c) \/ Store!Release(p[1], c)
      BY <3>2, <3>5 DEF Store!Get, Store!Release
    <3> QED
      BY <2>0, <3>6 DEF Store!Next
  <2>3. ASSUME NEW p \in Uses, NEW v \in Vals, Bwrite(p, v) \/ LogWrite(p, v)
        PROVE  Store!Next
    <3>0. PICK c \in Blocks : c = buf[at[p]].blk
      <4>1. pc[p] # "idle"
        BY <2>3 DEF Bwrite, LogWrite
      <4> QED
        BY <4>1, HolderFacts
    <3>1. /\ Owner(c) = p /\ Contents(c)' = v
          /\ \A b \in Blocks : Owner(b)' = Owner(b) /\ (b # c => Contents(b)' = Contents(b))
      BY <2>3, <3>0, WriteSeen
    <3>2. \A b \in Blocks : ProcOf(Owner(b))' = ProcOf(Owner(b))
      BY <3>1 DEF ProcOf
    <3>3. H' = H /\ H[c] = p[1] /\ S' = [S EXCEPT ![c] = v]
      BY <2>0, <3>1, <3>2
    <3>4. Store!Write(p[1], c, v)
      BY <3>3 DEF Store!Write
    <3> QED
      BY <2>0, <3>4 DEF Store!Next
  <2> QED
    BY <2>1, <2>2, <2>3, BufCases
<1> QED
  BY <1>1, <1>2, BufAlways, PTL DEF BufSpec, BlocksAreKept, Store!Spec
=============================================================================
