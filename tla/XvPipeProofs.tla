---------------------------- MODULE XvPipeProofs ----------------------------
(***************************************************************************)
(* Proofs about XvPipe for any readers, writers, bytes and any capacity    *)
(* that divides the range of the counters (512 and 2^32 in xv6): the pipe  *)
(* is freed once and not used after that, nobody sleeps without a cause,   *)
(* and the ring with its wrapping counters is a bounded FIFO queue.        *)
(***************************************************************************)
EXTENDS XvPipe, SequenceTheorems, NatFacts

\* The spinlock is held exactly by the process inside the copying loop or on its
\* way to sleep.
LockInv ==
  \A p \in Procs : lock = p <=> pc[p] \in {"copy", "tosleep"}

\* One end, with its open flag: a process has its reference until it closes, the
\* last of them closes the end alone, and then all have closed.
EndInv(Users, open) ==
  /\ \A p \in Users : p \in refs <=> pc[p] \notin {"closing", "closed"}
  /\ \A p \in Users : pc[p] = "closing" =>
       open = 1 /\ \A q \in Users \ {p} : pc[q] = "closed"
  /\ open = 0 => \A p \in Users : pc[p] = "closed"

FreeInv == freed = IF readopen = 0 /\ writeopen = 0 THEN 1 ELSE 0

EndsInv == EndInv(Readers, readopen) /\ EndInv(Writers, writeopen) /\ FreeInv

\* How many bytes are in the pipe, and that they fit.
InPipe == (nwrite - nread) % WORD
RingInv == InPipe <= PIPESIZE

\* Why processes sleep, or are about to.  A writer that finds itself killed leaves
\* a full pipe without a wakeup (pipe.c:86), so readers can rely on writers only
\* until one of them has left killed.
Stranded == LeftKilled # {}
SleepInv ==
  /\ \A r \in Readers : pc[r] = "tosleep" => Empty /\ writeopen = 1
  /\ \A w \in Writers : pc[w] = "tosleep" => Full /\ readopen = 1
  /\ \A w \in Writers : pc[w] = "asleep" =>
       readopen = 1 /\ (Full \/ \E r \in Readers : pc[r] = "copy")
  /\ \A r \in Readers : pc[r] = "asleep" =>
       writeopen = 1 /\ (Empty \/ (\E w \in Writers : pc[w] = "copy") \/ Stranded)

PipeInv ==
  /\ TypeOK /\ LockInv /\ EndsInv /\ RingInv /\ SleepInv
-----------------------------------------------------------------------------
\* What the constants give.
LEMMA ConstFacts ==
  /\ PIPESIZE \in Nat \ {0} /\ WORD \in Nat \ {0} /\ WORD % PIPESIZE = 0 /\ PIPESIZE < WORD
  /\ Lens \subseteq Nat /\ Readers \cap Writers = {} /\ Nobody \notin Procs
  /\ Killable \subseteq Procs /\ Nothing \notin Bytes
  BY PipeAssumption

\* The wrapping counters: the number of bytes in the pipe, what an empty and a full
\* pipe look like, and what moving a counter does to it.
LEMMA Counters ==
  ASSUME nread \in 0 .. (WORD - 1), nwrite \in 0 .. (WORD - 1)
  PROVE  /\ InPipe \in 0 .. (WORD - 1)
         /\ Empty <=> InPipe = 0
         /\ Full <=> InPipe = PIPESIZE
         /\ nwrite = (nread + InPipe) % WORD
         /\ InPipe < WORD - 1 => (((nwrite + 1) % WORD) - nread) % WORD = InPipe + 1
         /\ InPipe > 0 => (nwrite - ((nread + 1) % WORD)) % WORD = InPipe - 1
<1>0. WORD \in Nat \ {0} /\ PIPESIZE \in 1 .. (WORD - 1)
  BY ConstFacts
<1>1. InPipe = IF nread <= nwrite THEN nwrite - nread ELSE nwrite - nread + WORD
  BY <1>0 DEF InPipe
<1>2. (nread + PIPESIZE) % WORD = IF nread + PIPESIZE < WORD THEN nread + PIPESIZE ELSE nread + PIPESIZE - WORD
  BY <1>0
<1>3. (nwrite + 1) % WORD = IF nwrite + 1 = WORD THEN 0 ELSE nwrite + 1
  BY <1>0
<1>4. (nread + 1) % WORD = IF nread + 1 = WORD THEN 0 ELSE nread + 1
  BY <1>0
<1>5. InPipe \in 0 .. (WORD - 1) /\ (Empty <=> InPipe = 0) /\ (Full <=> InPipe = PIPESIZE)
  BY <1>0, <1>1, <1>2 DEF Empty, Full
<1>6. nwrite = (nread + InPipe) % WORD
  BY <1>0, <1>1
<1>7. ASSUME InPipe < WORD - 1
      PROVE  (((nwrite + 1) % WORD) - nread) % WORD = InPipe + 1
  <2>1. CASE nwrite + 1 = WORD
    <3>1. (0 - nread) % WORD = InPipe + 1
      BY <1>0, <1>1, <1>7, <2>1
    <3> QED
      BY <1>3, <2>1, <3>1
  <2>2. CASE nwrite + 1 # WORD
    <3>1. ((nwrite + 1) - nread) % WORD = InPipe + 1
      BY <1>0, <1>1, <1>7, <2>2
    <3> QED
      BY <1>3, <2>2, <3>1
  <2> QED
    BY <2>1, <2>2
<1>8. ASSUME InPipe > 0
      PROVE  (nwrite - ((nread + 1) % WORD)) % WORD = InPipe - 1
  <2>1. CASE nread + 1 = WORD
    <3>1. (nwrite - 0) % WORD = InPipe - 1
      BY <1>0, <1>1, <1>8, <2>1
    <3> QED
      BY <1>4, <2>1, <3>1
  <2>2. CASE nread + 1 # WORD
    <3>1. (nwrite - (nread + 1)) % WORD = InPipe - 1
      BY <1>0, <1>1, <1>8, <2>2
    <3> QED
      BY <1>4, <2>2, <3>1
  <2> QED
    BY <2>1, <2>2
<1> QED
  BY <1>5, <1>6, <1>7, <1>8

\* A step of [Next]_vars is a step of one of the actions, or a stutter.
LEMMA NextCases ==
  ASSUME [Next]_vars
  PROVE  \/ \E p \in Procs :
              \/ \E n \in Lens : Syscall(p, n)
              \/ Sleep(p) \/ ReadEnter(p) \/ ReadByte(p) \/ ReadDone(p)
              \/ WriteEnter(p) \/ (\E v \in Bytes : WriteByte(p, v)) \/ WriteFull(p) \/ WriteDone(p)
              \/ Close(p) \/ PipeClose(p) \/ Kill(p)
         \/ UNCHANGED vars
  BY DEF Next, KernelStep

\* The types of the state are kept.
LEMMA TypeStep ==
  ASSUME PipeInv, [Next]_vars
  PROVE  TypeOK'
<1> USE ConstFacts DEF Pc, ring, ends
<1>0. TypeOK
  BY DEF PipeInv
<1>1. ASSUME NEW p \in Procs, (\E n \in Lens : Syscall(p, n)) \/ Sleep(p) \/ ReadEnter(p) \/ WriteEnter(p)
      PROVE  TypeOK'
  BY <1>0, <1>1 DEF TypeOK, Syscall, Sleep, ReadEnter, WriteEnter, Goto
<1>2. ASSUME NEW p \in Procs, ReadByte(p)
      PROVE  TypeOK'
  <2>1. (nread + 1) % WORD \in 0 .. (WORD - 1) /\ nread % PIPESIZE \in 0 .. (PIPESIZE - 1)
    BY <1>0, ModType DEF TypeOK
  <2>2. data[nread % PIPESIZE] \in Bytes
    BY <1>0, <2>1 DEF TypeOK
  <2> QED
    BY <1>0, <1>2, <2>1, <2>2 DEF TypeOK, ReadByte
<1>3. ASSUME NEW p \in Procs, NEW v \in Bytes, WriteByte(p, v)
      PROVE  TypeOK'
  <2>1. (nwrite + 1) % WORD \in 0 .. (WORD - 1)
    BY <1>0, ModType DEF TypeOK
  <2> QED
    BY <1>0, <1>3, <2>1 DEF TypeOK, WriteByte
<1>4. ASSUME NEW p \in Procs, ReadDone(p) \/ WriteFull(p) \/ WriteDone(p)
      PROVE  TypeOK'
  BY <1>0, <1>4 DEF TypeOK, ReadDone, WriteFull, WriteDone, WakeupThen, Goto
<1>5. ASSUME NEW p \in Procs, Close(p) \/ PipeClose(p) \/ Kill(p)
      PROVE  TypeOK'
  BY <1>0, <1>5 DEF TypeOK, Close, PipeClose, Kill, WakeupThen, Goto
<1>6. CASE UNCHANGED vars
  BY <1>0, <1>6 DEF TypeOK, vars
<1> QED
  BY <1>1, <1>2, <1>3, <1>4, <1>5, <1>6, NextCases

\* The lock stays with the process in the copying loop.
LEMMA LockStep ==
  ASSUME PipeInv, [Next]_vars
  PROVE  LockInv'
<1> USE ConstFacts DEF ends, ring
<1>0. TypeOK /\ LockInv
  BY DEF PipeInv
<1>1. ASSUME NEW p \in Procs, (\E n \in Lens : Syscall(p, n)) \/ Sleep(p) \/ ReadEnter(p) \/ WriteEnter(p)
      PROVE  LockInv'
  BY <1>0, <1>1 DEF TypeOK, LockInv, Syscall, Sleep, ReadEnter, WriteEnter, Goto
<1>2. ASSUME NEW p \in Procs, ReadByte(p) \/ \E v \in Bytes : WriteByte(p, v)
      PROVE  LockInv'
  BY <1>0, <1>2 DEF LockInv, ReadByte, WriteByte
<1>3. ASSUME NEW p \in Procs, ReadDone(p) \/ WriteFull(p) \/ WriteDone(p)
      PROVE  LockInv'
  BY <1>0, <1>3 DEF TypeOK, LockInv, ReadDone, WriteFull, WriteDone, WakeupThen, Goto
<1>4. ASSUME NEW p \in Procs, Close(p) \/ PipeClose(p) \/ Kill(p)
      PROVE  LockInv'
  BY <1>0, <1>4 DEF TypeOK, LockInv, Close, PipeClose, Kill, WakeupThen, Goto
<1>5. CASE UNCHANGED vars
  BY <1>0, <1>5 DEF LockInv, vars
<1> QED
  BY <1>1, <1>2, <1>3, <1>4, <1>5, NextCases

\* Closing: each end is closed once, by its last user, and the second frees.
LEMMA EndStep ==
  ASSUME PipeInv, [Next]_vars
  PROVE  EndsInv'
<1> USE ConstFacts DEF Procs
<1>0. TypeOK /\ EndsInv
  BY DEF PipeInv
\* Steps that neither open nor close anything.
<1>1. ASSUME UNCHANGED ends,
             \A q \in Procs : \/ pc'[q] = pc[q]
                              \/ pc[q] \notin {"closing", "closed"} /\ pc'[q] \notin {"closing", "closed"}
      PROVE  EndsInv'
  BY <1>0, <1>1 DEF EndsInv, EndInv, FreeInv, ends
<1>2. ASSUME NEW p \in Procs, (\E n \in Lens : Syscall(p, n)) \/ Sleep(p) \/ ReadEnter(p) \/ WriteEnter(p)
      PROVE  EndsInv'
  BY <1>0, <1>1, <1>2 DEF TypeOK, Syscall, Sleep, ReadEnter, WriteEnter, Goto
<1>3. ASSUME NEW p \in Procs, ReadByte(p) \/ \E v \in Bytes : WriteByte(p, v)
      PROVE  EndsInv'
  BY <1>1, <1>3 DEF ReadByte, WriteByte
<1>4. ASSUME NEW p \in Procs, ReadDone(p) \/ WriteFull(p) \/ WriteDone(p)
      PROVE  EndsInv'
  <2>1. UNCHANGED ends
    BY <1>4 DEF ReadDone, WriteFull, WriteDone
  <2>2. ASSUME NEW q \in Procs
        PROVE  \/ pc'[q] = pc[q]
               \/ pc[q] \notin {"closing", "closed"} /\ pc'[q] \notin {"closing", "closed"}
    BY <1>0, <1>4 DEF TypeOK, ReadDone, WriteFull, WriteDone, WakeupThen, Goto
  <2> QED
    BY <1>1, <2>1, <2>2
<1>5. ASSUME NEW p \in Procs, Close(p)
      PROVE  EndsInv'
  <2>1. FreeInv'
    BY <1>0, <1>5 DEF Close, EndsInv, FreeInv
  <2>2. /\ refs' = refs \ {p} /\ pc[p] = "user" /\ UNCHANGED <<readopen, writeopen>>
        /\ \A q \in Procs \ {p} : pc'[q] = pc[q]
    BY <1>0, <1>5 DEF Close, Goto, TypeOK
  <2>3. CASE p \in Readers
    <3>1. pc'[p] = IF (refs \ {p}) \cap Readers = {} THEN "closing" ELSE "closed"
      BY <1>0, <1>5, <2>3 DEF Close, Goto, TypeOK
    <3> QED
      BY <1>0, <2>1, <2>2, <2>3, <3>1 DEF EndsInv, EndInv, TypeOK
  <2>4. CASE p \in Writers
    <3>1. pc'[p] = IF (refs \ {p}) \cap Writers = {} THEN "closing" ELSE "closed"
      BY <1>0, <1>5, <2>4 DEF Close, Goto, TypeOK
    <3> QED
      BY <1>0, <2>1, <2>2, <2>4, <3>1 DEF EndsInv, EndInv, TypeOK
  <2> QED
    BY <2>3, <2>4
<1>6. ASSUME NEW p \in Procs, PipeClose(p)
      PROVE  EndsInv'
  <2>1. /\ pc[p] = "closing" /\ pc'[p] = "closed" /\ UNCHANGED refs
        /\ freed' = IF readopen' = 0 /\ writeopen' = 0 THEN freed + 1 ELSE freed
    BY <1>0, <1>6 DEF PipeClose, WakeupThen, TypeOK
  <2>2. ASSUME NEW q \in Procs
        PROVE  \/ q = p
               \/ pc'[q] = pc[q]
               \/ pc[q] \notin {"closing", "closed"} /\ pc'[q] \notin {"closing", "closed"}
    BY <1>0, <1>6 DEF PipeClose, WakeupThen, TypeOK
  <2>3. CASE p \in Writers
    <3>1. writeopen' = 0 /\ readopen' = readopen
      BY <1>6, <2>3 DEF PipeClose
    <3>2. FreeInv' /\ EndInv(Readers, readopen)'
      BY <1>0, <2>1, <2>2, <2>3, <3>1 DEF EndsInv, EndInv, FreeInv, TypeOK
    <3>3. EndInv(Writers, writeopen)'
      BY <1>0, <2>1, <2>2, <2>3, <3>1 DEF EndsInv, EndInv, TypeOK
    <3> QED
      BY <3>2, <3>3 DEF EndsInv
  <2>4. CASE p \in Readers
    <3>1. readopen' = 0 /\ writeopen' = writeopen
      BY <1>6, <2>4 DEF PipeClose
    <3>2. FreeInv' /\ EndInv(Writers, writeopen)'
      BY <1>0, <2>1, <2>2, <2>4, <3>1 DEF EndsInv, EndInv, FreeInv, TypeOK
    <3>3. EndInv(Readers, readopen)'
      BY <1>0, <2>1, <2>2, <2>4, <3>1 DEF EndsInv, EndInv, TypeOK
    <3> QED
      BY <3>2, <3>3 DEF EndsInv
  <2> QED
    BY <2>3, <2>4
<1>7. ASSUME NEW p \in Procs, Kill(p)
      PROVE  EndsInv'
  BY <1>0, <1>1, <1>7 DEF TypeOK, Kill
<1>8. CASE UNCHANGED vars
  BY <1>1, <1>8 DEF vars
<1> QED
  BY <1>2, <1>3, <1>4, <1>5, <1>6, <1>7, <1>8, NextCases

\* What a step does to the ring: nothing, except when a byte is written or read.
LEMMA RingStep ==
  ASSUME PipeInv, [Next]_vars
  PROVE  /\ RingInv'
         /\ \/ UNCHANGED <<ring, got>>
            \/ \E p \in Writers, v \in Bytes : WriteByte(p, v) /\ InPipe < PIPESIZE /\ InPipe' = InPipe + 1
            \/ \E p \in Readers : ReadByte(p) /\ InPipe > 0 /\ InPipe' = InPipe - 1
<1> USE ConstFacts
<1>0. TypeOK /\ RingInv /\ InPipe \in 0 .. (WORD - 1)
  BY Counters DEF PipeInv, TypeOK
<1>1. CASE UNCHANGED <<ring, got>>
  BY <1>0, <1>1 DEF RingInv, InPipe, ring
<1>2. ASSUME NEW p \in Procs, NEW v \in Bytes, WriteByte(p, v)
      PROVE  p \in Writers /\ RingInv' /\ InPipe < PIPESIZE /\ InPipe' = InPipe + 1
  <2>1. InPipe < PIPESIZE
    BY <1>0, <1>2, Counters DEF WriteByte, RingInv, TypeOK
  <2>2. InPipe' = (((nwrite + 1) % WORD) - nread) % WORD
    BY <1>2 DEF InPipe, WriteByte
  <2>3. InPipe' = InPipe + 1
    BY <1>0, <2>1, <2>2, Counters DEF TypeOK
  <2> QED
    BY <1>0, <1>2, <2>1, <2>3 DEF RingInv, WriteByte
<1>3. ASSUME NEW p \in Procs, ReadByte(p)
      PROVE  p \in Readers /\ RingInv' /\ InPipe > 0 /\ InPipe' = InPipe - 1
  <2>1. InPipe > 0
    BY <1>0, <1>3, Counters DEF ReadByte, RingInv, TypeOK
  <2>2. InPipe' = (nwrite - ((nread + 1) % WORD)) % WORD
    BY <1>3 DEF InPipe, ReadByte
  <2>3. InPipe' = InPipe - 1
    BY <1>0, <2>1, <2>2, Counters DEF TypeOK
  <2> QED
    BY <1>0, <1>3, <2>1, <2>3 DEF RingInv, ReadByte
<1>4. ASSUME NEW p \in Procs, \/ \E n \in Lens : Syscall(p, n)
                              \/ Sleep(p) \/ ReadEnter(p) \/ ReadDone(p)
                              \/ WriteEnter(p) \/ WriteFull(p) \/ WriteDone(p)
                              \/ Close(p) \/ PipeClose(p) \/ Kill(p)
      PROVE  UNCHANGED <<ring, got>>
  BY <1>4 DEF Syscall, Sleep, ReadEnter, ReadDone, WriteEnter, WriteFull, WriteDone, Close, PipeClose, Kill
<1>5. CASE UNCHANGED vars
  BY <1>1, <1>5 DEF vars
<1> QED
  BY <1>1, <1>2, <1>3, <1>4, <1>5, NextCases

\* A killed writer that is out of pipewrite() stays out: trap() lets no killed process
\* make another system call.
LEMMA LeftStays ==
  ASSUME PipeInv, [Next]_vars
  PROVE  Stranded => Stranded'
<1>0. TypeOK
  BY DEF PipeInv
<1> SUFFICES ASSUME NEW w \in Writers, w \in killed, ~Inside(w)
             PROVE  w \in killed' /\ ~Inside(w)'
  BY DEF Stranded, LeftKilled
<1>1. w \in Procs /\ pc[w] \notin {"acquire", "copy", "tosleep", "asleep"}
  BY DEF Inside, Procs
<1>2. killed \subseteq killed'
  BY NextCases DEF vars, Syscall, Sleep, ReadEnter, ReadByte, ReadDone, WriteEnter, WriteByte, WriteFull, WriteDone,
     Close, PipeClose, Kill
<1>3. pc'[w] \notin {"acquire", "copy", "tosleep", "asleep"}
  <2>1. CASE UNCHANGED vars
    BY <1>1, <2>1 DEF vars
  <2>2. ASSUME NEW p \in Procs, NEW n \in Lens, Syscall(p, n)
        PROVE  pc'[w] \notin {"acquire", "copy", "tosleep", "asleep"}
    BY <1>0, <1>1, <2>2 DEF TypeOK, Syscall, Goto
  <2>3. ASSUME NEW p \in Procs, Sleep(p) \/ ReadEnter(p) \/ WriteEnter(p)
        PROVE  pc'[w] \notin {"acquire", "copy", "tosleep", "asleep"}
    BY <1>0, <1>1, <2>3 DEF TypeOK, Sleep, ReadEnter, WriteEnter, Goto
  <2>4. ASSUME NEW p \in Procs, ReadByte(p) \/ \E v \in Bytes : WriteByte(p, v)
        PROVE  pc'[w] \notin {"acquire", "copy", "tosleep", "asleep"}
    BY <1>1, <2>4 DEF ReadByte, WriteByte
  <2>5. ASSUME NEW p \in Procs, ReadDone(p) \/ WriteFull(p) \/ WriteDone(p)
        PROVE  pc'[w] \notin {"acquire", "copy", "tosleep", "asleep"}
    BY <1>0, <1>1, <2>5 DEF TypeOK, ReadDone, WriteFull, WriteDone, WakeupThen, Goto
  <2>6. ASSUME NEW p \in Procs, Close(p) \/ PipeClose(p) \/ Kill(p)
        PROVE  pc'[w] \notin {"acquire", "copy", "tosleep", "asleep"}
    BY <1>0, <1>1, <2>6 DEF TypeOK, Close, PipeClose, Kill, WakeupThen, Goto
  <2> QED
    BY <2>1, <2>2, <2>3, <2>4, <2>5, <2>6, NextCases
<1> QED
  BY <1>2, <1>3 DEF Inside

\* Who sleeps has a cause.  A process about to sleep holds the lock, so the ring and
\* the ends stay as it saw them; whoever makes a cause go away is inside its copying
\* loop until it wakes the sleepers, or wakes them in the same step.
LEMMA SleepStep ==
  ASSUME PipeInv, [Next]_vars
  PROVE  SleepInv'
<1> USE ConstFacts, LeftStays
<1>0. TypeOK /\ LockInv /\ SleepInv
  BY DEF PipeInv
<1>1. UNCHANGED ring => (Empty' <=> Empty) /\ (Full' <=> Full)
  BY DEF ring, Empty, Full
<1>2. ASSUME NEW p \in Procs, \E n \in Lens : Syscall(p, n)
      PROVE  SleepInv'
  BY <1>0, <1>1, <1>2 DEF SleepInv, TypeOK, Syscall, Goto, ends, Procs
<1>3. ASSUME NEW p \in Procs, Sleep(p)
      PROVE  SleepInv'
  BY <1>0, <1>1, <1>3 DEF SleepInv, TypeOK, Sleep, Goto, ends, Procs
<1>4. ASSUME NEW p \in Procs, ReadEnter(p) \/ WriteEnter(p)
      PROVE  SleepInv'
  BY <1>0, <1>1, <1>4 DEF SleepInv, TypeOK, ReadEnter, WriteEnter, Goto, ends, Procs
<1>5. ASSUME NEW p \in Procs, ReadByte(p) \/ \E v \in Bytes : WriteByte(p, v)
      PROVE  SleepInv'
  <2>1. UNCHANGED <<pc, ends, killed>> /\ pc[p] = "copy" /\ lock = p
    BY <1>0, <1>5 DEF ReadByte, WriteByte, LockInv
  <2>2. \A q \in Procs : pc[q] # "tosleep"
    BY <1>0, <2>1 DEF LockInv
  <2>3. \A q \in Procs : pc[q] = "copy" => q = p
    BY <1>0, <2>1 DEF LockInv
  <2>4. CASE ReadByte(p)
    <3>1. p \in Readers /\ p \notin Writers /\ ~Empty
      BY <2>4 DEF ReadByte
    <3> QED
      BY <1>0, <2>1, <2>2, <2>3, <3>1 DEF SleepInv, ends, Procs
  <2>5. CASE \E v \in Bytes : WriteByte(p, v)
    <3>1. p \in Writers /\ p \notin Readers /\ ~Full
      BY <2>5 DEF WriteByte
    <3> QED
      BY <1>0, <2>1, <2>2, <2>3, <3>1 DEF SleepInv, ends, Procs
  <2> QED
    BY <1>5, <2>4, <2>5
<1>6. ASSUME NEW p \in Procs, ReadDone(p) \/ WriteDone(p)
      PROVE  SleepInv'
  BY <1>0, <1>1, <1>6 DEF SleepInv, TypeOK, ReadDone, WriteDone, WakeupThen, ends, Procs
<1>7. ASSUME NEW p \in Procs, WriteFull(p)
      PROVE  SleepInv'
  <2>1. /\ p \in Writers /\ p \notin Readers /\ pc[p] = "copy" /\ Full
        /\ UNCHANGED <<ring, ends, killed>>
    BY <1>7 DEF WriteFull
  <2>2. \A q \in Procs : q # p => pc[q] \notin {"copy", "tosleep"}
    BY <1>0, <2>1 DEF LockInv
  <2>3. CASE readopen = 0 \/ p \in killed
    <3>1. \A r \in Readers : readopen = 0 => pc[r] = "closed"
      BY DEF PipeInv, EndsInv, EndInv
    <3>2. pc'[p] = "user" /\ \A q \in Procs : q # p => pc'[q] = pc[q]
      BY <1>0, <1>7, <2>3 DEF WriteFull, Goto, TypeOK
    <3>3. p \in killed => Stranded'
      BY <2>1, <3>2 DEF Stranded, LeftKilled, Inside
    <3> QED
      BY <1>0, <1>1, <2>1, <2>2, <2>3, <3>1, <3>2, <3>3 DEF SleepInv, ends, Procs
  <2>4. CASE ~(readopen = 0 \/ p \in killed)
    <3>1. /\ pc'[p] = "tosleep" /\ readopen = 1
          /\ \A q \in Readers : pc'[q] # "asleep" /\ (pc'[q] = pc[q] \/ pc'[q] = "acquire")
          /\ \A q \in Writers : q # p => pc'[q] = pc[q]
      BY <1>0, <1>7, <2>1, <2>4 DEF WriteFull, WakeupThen, TypeOK, Procs
    <3> QED
      BY <1>0, <1>1, <2>1, <2>2, <3>1 DEF SleepInv, ends, Procs
  <2> QED
    BY <2>3, <2>4
<1>8. ASSUME NEW p \in Procs, Close(p) \/ Kill(p)
      PROVE  SleepInv'
  BY <1>0, <1>1, <1>8 DEF SleepInv, TypeOK, Close, Kill, Goto, ends, Procs
<1>9. ASSUME NEW p \in Procs, PipeClose(p)
      PROVE  SleepInv'
  BY <1>0, <1>1, <1>9 DEF SleepInv, LockInv, TypeOK, PipeClose, WakeupThen, Procs
<1>10. CASE UNCHANGED vars
  BY <1>0, <1>1, <1>10 DEF SleepInv, vars, ends
<1> QED
  BY <1>2, <1>3, <1>4, <1>5, <1>6, <1>7, <1>8, <1>9, <1>10, NextCases

\* The inductive invariant holds initially,
LEMMA PipeInit == Init => PipeInv
<1> USE ConstFacts
<1> SUFFICES ASSUME Init PROVE PipeInv
  OBVIOUS
<1>1. TypeOK
  BY DEF Init, TypeOK, Pc
<1>2. LockInv /\ SleepInv
  BY DEF Init, LockInv, SleepInv, Procs
<1>3. EndsInv
  BY DEF Init, EndsInv, EndInv, FreeInv, Procs
<1>4. RingInv
  <2>1. InPipe = (0 - 0) % WORD
    BY DEF Init, InPipe
  <2> QED
    BY <2>1 DEF RingInv
<1> QED
  BY <1>1, <1>2, <1>3, <1>4 DEF PipeInv

\* and in every state of every behaviour.
LEMMA PipeAlways == Spec => []PipeInv
<1>1. PipeInv /\ [Next]_vars => PipeInv'
  BY TypeStep, LockStep, EndStep, RingStep, SleepStep DEF PipeInv
<1> QED
  BY <1>1, PipeInit, PTL DEF Spec

\* kfree() gets the pipe at most once, when both ends are closed, and from then on no
\* process copies from it, spins on its lock, sleeps in it or has it open
\* (pipeclose(), fileclose()).
THEOREM PipeFreedOnce == Spec => []NoUseAfterFree
<1>1. PipeInv => NoUseAfterFree
  <2> SUFFICES ASSUME PipeInv PROVE NoUseAfterFree
    OBVIOUS
  <2>1. freed \in {0, 1}
    BY DEF PipeInv, EndsInv, FreeInv
  <2>2. ASSUME freed = 1
        PROVE  \A p \in Procs : pc[p] = "closed" /\ p \notin refs
    BY <2>2 DEF PipeInv, EndsInv, EndInv, FreeInv, Procs
  <2>3. ASSUME freed = 1
        PROVE  lock = Nobody
    BY <2>2, <2>3 DEF PipeInv, TypeOK, LockInv
  <2> QED
    BY <2>1, <2>2, <2>3 DEF NoUseAfterFree
<1> QED
  BY <1>1, PipeAlways, PTL

\* Nobody sleeps in a pipe without a cause: no wakeup() of piperead(), pipewrite() or
\* pipeclose() is lost, but the one of a writer that was killed and leaves a full pipe,
\* which only readers can miss.
THEOREM NoLostPipeWakeup == Spec => []SleepsForCause
<1>1. PipeInv => SleepsForCause
  BY DEF PipeInv, SleepInv, SleepsForCause, Stranded
<1> QED
  BY <1>1, PipeAlways, PTL
-----------------------------------------------------------------------------
\* The bytes in flight are a sequence, no longer than the pipe.
InFlightOK ==
  /\ InPipe \in 0 .. PIPESIZE
  /\ InFlight \in Seq(Bytes) /\ Len(InFlight) = InPipe
  /\ \A i \in 1 .. InPipe : InFlight[i] = data[(nread + i - 1) % PIPESIZE]

\* They are, by the invariant.
LEMMA InFlightSeq == PipeInv => InFlightOK
<1> SUFFICES ASSUME PipeInv PROVE InFlightOK
  OBVIOUS
<1> USE ConstFacts
<1>1. TypeOK /\ InPipe \in 0 .. PIPESIZE
  BY Counters DEF PipeInv, TypeOK, RingInv
<1>2. ASSUME NEW i \in 1 .. InPipe
      PROVE  data[(nread + i - 1) % PIPESIZE] \in Bytes
  <2>1. nread + i - 1 \in Int
    BY <1>1 DEF TypeOK
  <2>2. (nread + i - 1) % PIPESIZE \in 0 .. (PIPESIZE - 1)
    BY <2>1, ModType, Zenon
  <2> QED
    BY <1>1, <2>2 DEF TypeOK
<1>3. InFlight = [i \in 1 .. InPipe |-> data[(nread + i - 1) % PIPESIZE]]
  BY DEF InFlight, InPipe
<1> QED
  BY <1>1, <1>2, <1>3 DEF InFlightOK

\* Writing a byte appends it to the bytes in flight: the slot at nwrite follows the
\* last of them and is none of theirs, whichever of the counters has wrapped.
LEMMA WriteAppends ==
  ASSUME PipeInv, PipeInv', NEW p \in Writers, NEW v \in Bytes, WriteByte(p, v),
         InPipe < PIPESIZE, InPipe' = InPipe + 1
  PROVE  InFlight' = Append(InFlight, v)
<1> USE ConstFacts
<1>0. TypeOK /\ InPipe \in 0 .. (PIPESIZE - 1) /\ nread \in Int /\ nwrite \in Int
  <2>1. TypeOK /\ InPipe \in 0 .. PIPESIZE
    BY InFlightSeq DEF InFlightOK, PipeInv
  <2> QED
    BY <2>1 DEF TypeOK
<1>1. /\ InFlight \in Seq(Bytes) /\ Len(InFlight) = InPipe
      /\ \A i \in 1 .. InPipe : InFlight[i] = data[(nread + i - 1) % PIPESIZE]
  BY InFlightSeq DEF InFlightOK
<1>2. /\ InFlight' \in Seq(Bytes) /\ Len(InFlight') = InPipe + 1
      /\ \A i \in 1 .. InPipe + 1 : InFlight'[i] = data'[(nread + i - 1) % PIPESIZE]
  <2>1. nread' = nread
    BY DEF WriteByte
  <2>2. InFlightOK'
    BY InFlightSeq, PTL
  <2> QED
    BY <2>1, <2>2 DEF InFlightOK
<1>3. nwrite % PIPESIZE = (nread + InPipe) % PIPESIZE
  <2>1. nwrite = (nread + InPipe) % WORD /\ nread + InPipe \in Int
    BY <1>0, Counters DEF TypeOK
  <2>2. ((nread + InPipe) % WORD) % PIPESIZE = (nread + InPipe) % PIPESIZE
    BY <2>1, ModMod, Zenon
  <2> QED
    BY <2>1, <2>2, Zenon
<1>4. ASSUME NEW i \in 1 .. InPipe
      PROVE  InFlight'[i] = InFlight[i]
  <2>1. nread + i - 1 \in Int /\ InPipe - i + 1 \in 1 .. (PIPESIZE - 1)
    BY <1>0
  <2>2. ((nread + i - 1) + (InPipe - i + 1)) % PIPESIZE # (nread + i - 1) % PIPESIZE
    BY <2>1, ModApart, Zenon
  <2>3. (nread + i - 1) + (InPipe - i + 1) = nread + InPipe
    BY <1>0
  <2>4. (nread + i - 1) % PIPESIZE # nwrite % PIPESIZE
    BY <1>3, <2>2, <2>3, Zenon
  <2>5. (nread + i - 1) % PIPESIZE \in 0 .. (PIPESIZE - 1)
    BY <2>1, ModType, Zenon
  <2>6. data'[(nread + i - 1) % PIPESIZE] = data[(nread + i - 1) % PIPESIZE]
    BY <1>0, <2>4, <2>5 DEF WriteByte, TypeOK
  <2>7. i \in 1 .. InPipe + 1
    BY <1>0
  <2> QED
    BY <1>1, <1>2, <2>6, <2>7, Zenon
<1>5. InFlight'[InPipe + 1] = v
  <2>1. InPipe + 1 \in 1 .. InPipe + 1 /\ nread + (InPipe + 1) - 1 = nread + InPipe
    BY <1>0
  <2>2. nwrite % PIPESIZE \in 0 .. (PIPESIZE - 1)
    BY <1>0, ModType, Zenon
  <2>3. data'[nwrite % PIPESIZE] = v
    BY <1>0, <2>2 DEF WriteByte, TypeOK
  <2>4. InFlight'[InPipe + 1] = data'[(nread + (InPipe + 1) - 1) % PIPESIZE]
    BY <1>2, <2>1
  <2> QED
    BY <1>3, <2>1, <2>3, <2>4, Zenon
<1> DEFINE A == Append(InFlight, v)
<1>6. /\ A \in Seq(Bytes) /\ Len(A) = InPipe + 1 /\ A[InPipe + 1] = v
      /\ \A i \in 1 .. InPipe : A[i] = InFlight[i]
  BY <1>0, <1>1
<1>7. \A i \in 1 .. InPipe + 1 : InFlight'[i] = A[i]
  BY <1>0, <1>4, <1>5, <1>6
<1> HIDE DEF A
<1>8. InFlight' = A
  BY <1>2, <1>6, <1>7, SeqEqual
<1> QED
  BY <1>8 DEF A

\* Reading a byte hands out the oldest one in flight and leaves the others.
LEMMA ReadTakes ==
  ASSUME PipeInv, PipeInv', NEW p \in Readers, ReadByte(p),
         InPipe > 0, InPipe' = InPipe - 1
  PROVE  InFlight # << >> /\ got' = Head(InFlight) /\ InFlight' = Tail(InFlight)
<1> USE ConstFacts
<1>0. TypeOK /\ InPipe \in 1 .. PIPESIZE /\ nread \in Int /\ nread + 1 \in Int /\ data' = data
  BY InFlightSeq DEF InFlightOK, PipeInv, TypeOK, ReadByte
<1>1. /\ InFlight \in Seq(Bytes) /\ Len(InFlight) = InPipe
      /\ \A i \in 1 .. InPipe : InFlight[i] = data[(nread + i - 1) % PIPESIZE]
  BY InFlightSeq DEF InFlightOK
<1>2. /\ InFlight' \in Seq(Bytes) /\ Len(InFlight') = InPipe - 1
      /\ \A i \in 1 .. InPipe - 1 : InFlight'[i] = data[(nread' + i - 1) % PIPESIZE]
  <2>1. InFlightOK'
    BY InFlightSeq, PTL
  <2> QED
    BY <1>0, <2>1 DEF InFlightOK
<1>3. got' = Head(InFlight)
  <2>1. nread + 1 - 1 = nread /\ 1 \in 1 .. InPipe
    BY <1>0
  <2>2. InFlight[1] = data[nread % PIPESIZE]
    BY <1>1, <2>1
  <2> QED
    BY <1>0, <1>1, <2>2 DEF ReadByte
<1>4. ASSUME NEW i \in 1 .. InPipe - 1
      PROVE  (nread' + i - 1) % PIPESIZE = (nread + (i + 1) - 1) % PIPESIZE
  <2>1. nread' = (nread + 1) % WORD /\ i \in Int /\ WORD \in Int
    BY <1>0 DEF ReadByte
  <2>2. nread' = nread + 1 \/ nread' = nread + 1 - WORD
    BY <1>0, <2>1 DEF TypeOK
  <2>3. nread + i \in Int /\ (nread + i) - WORD \in Int
    BY <1>0
  <2>4. ((nread + i) - WORD) % PIPESIZE = (nread + i) % PIPESIZE
    <3>1. (((nread + i) - WORD) % WORD) % PIPESIZE = ((nread + i) - WORD) % PIPESIZE
      BY <2>3, ModMod, Zenon
    <3>2. ((nread + i) % WORD) % PIPESIZE = (nread + i) % PIPESIZE
      BY <2>3, ModMod, Zenon
    <3>3. ((nread + i) - WORD) % WORD = (nread + i) % WORD
      BY <2>3, ModBack, Zenon
    <3> QED
      BY <3>1, <3>2, <3>3, Zenon
  <2>5. nread' + i - 1 = nread + i \/ nread' + i - 1 = (nread + i) - WORD
    <3>1. CASE nread' = nread + 1
      BY <1>0, <3>1
    <3>2. CASE nread' = nread + 1 - WORD
      BY <1>0, <3>2
    <3> QED
      BY <2>2, <3>1, <3>2
  <2>6. nread + (i + 1) - 1 = nread + i
    BY <1>0
  <2> QED
    BY <2>4, <2>5, <2>6, Zenon
<1> DEFINE T == Tail(InFlight)
<1>5. /\ T \in Seq(Bytes) /\ Len(T) = InPipe - 1
      /\ \A i \in 1 .. InPipe - 1 : T[i] = InFlight[i + 1]
  BY <1>0, <1>1
<1>6. ASSUME NEW i \in 1 .. InPipe - 1
      PROVE  InFlight'[i] = T[i]
  <2>1. i + 1 \in 1 .. InPipe
    BY <1>0
  <2>2. InFlight[i + 1] = data[(nread + (i + 1) - 1) % PIPESIZE]
    BY <1>1, <2>1
  <2>3. InFlight'[i] = data[(nread' + i - 1) % PIPESIZE]
    BY <1>2
  <2> QED
    BY <1>4, <1>5, <2>2, <2>3, Zenon
<1> HIDE DEF T
<1>7. InFlight' = T
  BY <1>0, <1>2, <1>5, <1>6, SeqEqual
<1> QED
  BY <1>0, <1>1, <1>3, <1>7 DEF T

\* The ring buffer with its two wrapping counters, shared by any number of readers
\* and writers, implements the bounded FIFO queue of bytes: each byte is handed out
\* once and in order, and no more than PIPESIZE are in flight (piperead(),
\* pipewrite()).
THEOREM PipeRefines == Spec => PipeIsFifo
<1>1. Init => Q!QInit
  <2> SUFFICES ASSUME Init PROVE Q!QInit
    OBVIOUS
  <2>1. Len(InFlight) = 0 /\ InFlight \in Seq(Bytes)
    <3>1. InPipe = (0 - 0) % WORD
      BY DEF Init, InPipe
    <3> QED
      BY <3>1, PipeInit, InFlightSeq, ConstFacts DEF InFlightOK
  <2> QED
    BY <2>1 DEF Init, Q!QInit
<1>2. PipeInv /\ PipeInv' /\ [Next]_vars => [Q!QNext]_<<InFlight, got>>
  <2> SUFFICES ASSUME PipeInv, PipeInv', [Next]_vars
               PROVE  [Q!QNext]_<<InFlight, got>>
    OBVIOUS
  <2>1. CASE UNCHANGED <<ring, got>>
    BY <2>1 DEF ring, InFlight
  <2>2. ASSUME NEW p \in Writers, NEW v \in Bytes, WriteByte(p, v), InPipe < PIPESIZE, InPipe' = InPipe + 1
        PROVE  Q!QNext
    <3>1. InFlight' = Append(InFlight, v) /\ Len(InFlight) < PIPESIZE /\ got' = got
      BY <2>2, WriteAppends, InFlightSeq DEF InFlightOK, WriteByte
    <3> QED
      BY <3>1 DEF Q!QNext, Q!Put
  <2>3. ASSUME NEW p \in Readers, ReadByte(p), InPipe > 0, InPipe' = InPipe - 1
        PROVE  Q!QNext
    <3>1. InFlight # << >> /\ got' = Head(InFlight) /\ InFlight' = Tail(InFlight)
      BY <2>3, ReadTakes
    <3> QED
      BY <3>1 DEF Q!QNext, Q!Take
  <2> QED
    BY <2>1, <2>2, <2>3, RingStep
<1> QED
  BY <1>1, <1>2, PipeAlways, PTL DEF Spec, PipeIsFifo, Q!QSpec
=============================================================================
