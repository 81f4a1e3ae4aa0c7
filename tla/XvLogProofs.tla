---------------------------- MODULE XvLogProofs ----------------------------
(***************************************************************************)
(* Proofs about XvLog for every number of processes, blocks, contents and  *)
(* every log geometry.  The argument is two inductive invariants.  IndInv: *)
(* the types, the control state (who may be where while somebody commits)  *)
(* and an accounting of log space in which every block an operation may    *)
(* still write is a token.  CrashInv, above it: what is in memory and on   *)
(* the disk at the moment of a crash.                                      *)
(***************************************************************************)
EXTENDS XvLog, FiniteSetTheorems, TLAPS

\* The most blocks a transaction can reach.  begin_op() reserves MAXOPBLOCKS
\* per operation of which OpBlocks are used, so the last admitted operation
\* leaves at least MAXOPBLOCKS - OpBlocks of LOGSIZE unused.
MaxTxn == LOGSIZE - (MAXOPBLOCKS - OpBlocks)

\* What the geometry must satisfy for log_write() never to panic: its test
\* refuses any write, an absorbed one too, once SIZE - 1 or LOGSIZE blocks are
\* logged.  (xv6: LOGSIZE = SIZE = 30, MAXOPBLOCKS = 10, OpBlocks = 7.)
ReservationOK == MaxTxn <= SIZE - 2 /\ MaxTxn <= LOGSIZE - 1

\* One token for each block a running operation may still add to the log.
Unused == {t \in Procs \X (1 .. OpBlocks) :
             t[1] \in InOp /\ t[2] > Cardinality(wrote[t[1]])}

ControlInv ==
  /\ \A p \in Procs : pc[p] \in CommitPc => committing = 1
  /\ \A p, q \in Procs : pc[p] \in CommitPc /\ pc[q] \in CommitPc => p = q
  /\ committing = 1 => InOp = {} /\ \E p \in Procs : pc[p] \in CommitPc
  /\ outstanding = Cardinality(InOp)
  /\ \A p \in Procs : IF pc[p] \in {"modified", "checked"}
                      THEN buf[p] \in Blocks ELSE buf[p] = NoBlock
  /\ boot # "up" => /\ committing = 0 /\ panic = "none"
                    /\ \A p \in Procs : pc[p] = "idle"
  /\ \A p \in Procs : pc[p] \in {"write_log", "install"} => tail < Len(lh)
  /\ \A p \in Procs : pc[p] = "write_head" => Len(lh) > 0
  /\ boot = "install" => tail < Len(lh)
  /\ \A p \in Procs : pc[p] = "end_commit" => lh = << >>
  /\ boot = "up" /\ InOp = {} /\ committing = 0 => lh = << >>
  /\ (\E p \in Procs : pc[p] = "asleep") => committing = 1 \/ InOp # {}

SpaceInv ==
  /\ panic = "none"
  /\ Len(lh) + Cardinality(Unused) <= MaxTxn
  /\ Len(dhead) <= MaxTxn
  /\ \A p \in Procs : IsFiniteSet(wrote[p])
  /\ \A p \in InOp : wrote[p] \subseteq Entries(lh)
  /\ \A p \in Procs : pc[p] \in {"modified", "checked"} =>
        buf[p] \in wrote[p] \/ Cardinality(wrote[p]) < OpBlocks

IndInv == TypeOK /\ ControlInv /\ SpaceInv

\* What a crash finds, in four parts.  No block is in the log twice, in memory or on
\* the disk: absorption.
Distinct(s) == \A i, j \in 1 .. Len(s) : s[i] = s[j] => i = j
DistinctInv == Distinct(lh) /\ Distinct(dhead)

\* The header is on the disk from write_head() until it is erased.
Installing == \E p \in Procs : pc[p] \in {"install", "clear"}
HeadInv ==
  /\ boot = "up" => dhead = IF Installing THEN lh ELSE << >>
  /\ boot \in {"install", "clear"} => lh = dhead

\* What is logged and not yet installed is pinned; the rest of the cache is as on the disk.
PinInv ==
  /\ boot = "up" =>
       /\ \A b \in Blocks : b \in dirty <=> \E i \in 1 .. Len(lh) : lh[i] = b /\ (Installing => tail < i)
       /\ \A b \in Blocks : b \notin dirty /\ b \notin Held => cache[b] = home[b]
  /\ boot # "up" => dirty = {} /\ cache = home

\* The first n log blocks are copies of the buffers, and are installed.
Copied(n) == \A i \in 1 .. n : slot[i] = cache[lh[i]]
Installed(n) == \A i \in 1 .. n : home[lh[i]] = slot[i]
SlotInv ==
  /\ \A p \in Procs : /\ pc[p] = "write_log" => Copied(tail)
                      /\ pc[p] \in {"write_head", "install", "clear"} => Copied(Len(lh))
                      /\ pc[p] = "install" => Installed(tail)
                      /\ pc[p] = "clear" => tail = Len(lh) /\ Installed(tail)
  /\ boot = "install" => Installed(tail)
  /\ boot = "clear" => Installed(Len(lh))

CrashInv == DistinctInv /\ HeadInv /\ PinInv /\ SlotInv
-----------------------------------------------------------------------------
\* The processes inside an operation are finitely many.
LEMMA InOpFinite == IsFiniteSet(InOp) /\ Cardinality(InOp) \in Nat
  BY LogAssumption, FS_Subset, FS_CardinalityType DEF InOp

\* A step of [Next]_vars is a step of one of the actions, or a stutter.
LEMMA NextCases ==
  ASSUME [Next]_vars
  PROVE  \/ \E p \in Procs : \/ BeginOpSleep(p) \/ BeginOpEnter(p)
                             \/ \E b \in Blocks, v \in Vals : ModifyBlock(p, b, v)
                             \/ LogWriteCheck(p) \/ LogWrite(p) \/ EndOp(p)
                             \/ WriteLog(p) \/ WriteHead(p) \/ InstallTrans(p)
                             \/ CommitClear(p) \/ EndCommit(p)
         \/ \E b \in Blocks : Recycle(b)
         \/ Crash \/ ReadHead \/ RecoverInstall \/ RecoverClear
         \/ UNCHANGED vars
  BY DEF Next, OpStep, CommitStep, Recover

\* The types of the state are kept: the reads of cache, lh and slot that the
\* commit and the recovery make are all inside their arrays.
LEMMA TypeStep ==
  ASSUME IndInv, ReservationOK, [Next]_vars
  PROVE  TypeOK'
<1> USE DEF Pc, OpPc, CommitPc, Boot, Panic, SlotIdx
<1>0. TypeOK /\ ControlInv /\ SpaceInv
  BY DEF IndInv
<1>a. /\ LOGSIZE \in Nat /\ MAXOPBLOCKS \in Nat /\ SIZE \in Nat /\ OpBlocks \in Nat
      /\ NoBlock \notin Blocks /\ IsFiniteSet(Procs)
  BY LogAssumption
<1>1. ASSUME NEW p \in Procs, BeginOpSleep(p) \/ BeginOpEnter(p)
      PROVE  TypeOK'
  BY <1>0, <1>a, <1>1 DEF TypeOK, BeginOpSleep, BeginOpEnter, Goto, disk, mem
<1>2. ASSUME NEW p \in Procs, NEW b \in Blocks, NEW v \in Vals, ModifyBlock(p, b, v)
      PROVE  TypeOK'
  BY <1>0, <1>a, <1>2 DEF TypeOK, ModifyBlock, Goto, disk
<1>3. ASSUME NEW p \in Procs, LogWriteCheck(p)
      PROVE  TypeOK'
  BY <1>0, <1>a, <1>3 DEF TypeOK, LogWriteCheck, Goto, disk
<1>4. ASSUME NEW p \in Procs, LogWrite(p)
      PROVE  TypeOK'
  <2>1. buf[p] \in Blocks
    BY <1>0, <1>a, <1>4 DEF TypeOK, LogWrite, ControlInv
  <2> QED
    BY <1>0, <1>a, <1>4, <2>1 DEF TypeOK, LogWrite, Goto, disk, Absorb
<1>5. ASSUME NEW p \in Procs, EndOp(p)
      PROVE  TypeOK'
  <2>1. pc' \in [Procs -> Pc]
    BY <1>0, <1>a, <1>5 DEF TypeOK, EndOp, Goto, WakeupThen
  <2>2. committing' \in {0, 1} /\ tail' \in Nat /\ panic' \in Panic
    BY <1>0, <1>5 DEF TypeOK, EndOp
  <2>3. outstanding' \in Int
    BY <1>0, <1>5 DEF TypeOK, EndOp
  <2> QED
    BY <1>0, <1>5, <2>1, <2>2, <2>3 DEF TypeOK, EndOp, disk
<1>6. ASSUME NEW p \in Procs, WriteLog(p)
      PROVE  TypeOK'
  <2>1. tail + 1 \in 1 .. Len(lh) /\ lh[tail + 1] \in Blocks
    BY <1>0, <1>a, <1>6 DEF TypeOK, WriteLog, ControlInv
  <2>2. slot' \in [SlotIdx -> Vals]
    BY <1>0, <1>a, <1>6, <2>1 DEF TypeOK, WriteLog
  <2> QED
    BY <1>0, <1>a, <1>6, <2>2, SMTT(30) DEF TypeOK, WriteLog, Goto
<1>7. ASSUME NEW p \in Procs, WriteHead(p)
      PROVE  TypeOK'
  BY <1>0, <1>a, <1>7 DEF TypeOK, WriteHead, Goto
<1>8. ASSUME InstallBlock, tail < Len(lh)
      PROVE  /\ home' \in [Blocks -> Vals] /\ cache' \in [Blocks -> Vals]
             /\ dirty' \subseteq Blocks /\ tail' \in Nat
             /\ UNCHANGED <<slot, dhead, lh, outstanding, committing, panic, buf, wrote>>
  <2>1. tail + 1 \in 1 .. Len(lh) /\ lh[tail + 1] \in Blocks
    BY <1>0, <1>a, <1>8 DEF TypeOK
  <2>2. Len(lh) <= SIZE - 1
    <3>1. Unused \subseteq Procs \X (1 .. OpBlocks)
      BY DEF Unused
    <3>2. IsFiniteSet(1 .. OpBlocks)
      BY <1>a, FS_Interval
    <3>3. Cardinality(Unused) \in Nat
      BY <1>a, <3>1, <3>2, FS_Product, FS_Subset, FS_CardinalityType
    <3> QED
      BY <1>0, <1>a, <3>3 DEF TypeOK, SpaceInv, ReservationOK, MaxTxn
  <2>3. slot[tail + 1] \in Vals
    BY <1>0, <1>a, <2>1, <2>2 DEF TypeOK
  <2> QED
    BY <1>0, <1>a, <1>8, <2>1, <2>3 DEF TypeOK, InstallBlock
<1>9. ASSUME NEW p \in Procs, InstallTrans(p)
      PROVE  TypeOK'
  <2>1. tail < Len(lh) /\ InstallBlock
    BY <1>0, <1>a, <1>9 DEF TypeOK, InstallTrans, ControlInv
  <2> QED
    BY <1>0, <1>a, <1>9, <2>1, <1>8 DEF TypeOK, InstallTrans, Goto
<1>10. ASSUME NEW p \in Procs, CommitClear(p)
       PROVE  TypeOK'
  BY <1>0, <1>a, <1>10 DEF TypeOK, CommitClear, EraseLog, Goto
<1>11. ASSUME NEW p \in Procs, EndCommit(p)
       PROVE  TypeOK'
  BY <1>0, <1>a, <1>11 DEF TypeOK, EndCommit, WakeupThen, disk
<1>12. ASSUME NEW b \in Blocks, Recycle(b)
       PROVE  TypeOK'
  BY <1>0, <1>a, <1>12 DEF TypeOK, Recycle, disk
<1>13. CASE Crash
  <2>1. /\ pc' \in [Procs -> Pc] /\ wrote' \in [Procs -> SUBSET Blocks]
        /\ buf' \in [Procs -> Blocks \cup {NoBlock}]
    BY <1>13 DEF Crash
  <2>2. lh' \in Seq(Blocks) /\ dirty' \subseteq Blocks
    BY <1>13 DEF Crash
  <2> QED
    BY <1>0, <1>13, <2>1, <2>2 DEF TypeOK, Crash, disk
<1>14. CASE ReadHead
  BY <1>0, <1>a, <1>14 DEF TypeOK, ReadHead, disk
<1>15. CASE RecoverInstall
  <2>1. tail < Len(lh) /\ InstallBlock
    BY <1>0, <1>a, <1>15 DEF TypeOK, RecoverInstall, ControlInv
  <2> QED
    BY <1>0, <1>a, <1>15, <2>1, <1>8 DEF TypeOK, RecoverInstall
<1>16. CASE RecoverClear
  <2>1. lh' \in Seq(Blocks) /\ dhead' \in Seq(Blocks)
    BY <1>0, <1>a, <1>16 DEF TypeOK, RecoverClear, EraseLog
  <2> QED
    BY <1>0, <1>a, <1>16, <2>1 DEF TypeOK, RecoverClear, EraseLog
<1>17. CASE UNCHANGED vars
  BY <1>0, <1>a, <1>17 DEF TypeOK, vars, disk, mem
<1> QED
  BY <1>1, <1>2, <1>3, <1>4, <1>5, <1>6, <1>7, <1>9, <1>10, <1>11, <1>12,
     <1>13, <1>14, <1>15, <1>16, <1>17, NextCases
-----------------------------------------------------------------------------
\* A step that moves only process p, from label k to label l, and leaves it
\* inside or outside an operation as it was, keeps InOp.
LEMMA InOpKept ==
  ASSUME TypeOK, NEW p \in Procs, NEW l, Goto(p, l), pc[p] \in OpPc <=> l \in OpPc
  PROVE  InOp' = InOp
  BY DEF InOp, Goto, TypeOK

\* wakeup(&log) moves sleepers only, and no sleeper is inside an operation.
LEMMA InOpWakeup ==
  ASSUME TypeOK, NEW p \in Procs, NEW l, WakeupThen(p, l), l \notin OpPc
  PROVE  InOp' = InOp \ {p}
  BY DEF InOp, WakeupThen, TypeOK, OpPc

\* The control state: one committer, alone, with nobody inside an operation.
LEMMA ControlStep ==
  ASSUME IndInv, ReservationOK, [Next]_vars
  PROVE  ControlInv'
<1> USE LogAssumption, InOpFinite DEF IndInv, TypeOK, OpPc, CommitPc, Pc, Boot
<1>1. ASSUME NEW p \in Procs, BeginOpSleep(p)
      PROVE  ControlInv'
  <2>1. InOp' = InOp
    BY <1>1, InOpKept DEF BeginOpSleep
  <2>2. committing = 1 \/ InOp # {}
    <3>1. CASE committing = 0 /\ InOp = {}
      <4>1. lh = << >> /\ outstanding = 0
        BY <1>1, <3>1, FS_EmptySet DEF ControlInv, BeginOpSleep, Running
      <4>2. ~LogFull
        BY <4>1 DEF LogFull
      <4> QED
        BY <1>1, <3>1, <4>2 DEF BeginOpSleep, MustWait
    <3> QED
      BY <3>1
  <2> QED
    BY <1>1, <2>1, <2>2 DEF ControlInv, BeginOpSleep, Goto, disk, mem, Running
<1>2. ASSUME NEW p \in Procs, BeginOpEnter(p)
      PROVE  ControlInv'
  <2>1. InOp' = InOp \cup {p} /\ p \notin InOp
    BY <1>2 DEF BeginOpEnter, Goto, InOp
  <2>2. outstanding' = Cardinality(InOp')
    BY <1>2, <2>1, FS_AddElement DEF BeginOpEnter, ControlInv
  <2>3. committing = 0 /\ \A q \in Procs : pc[q] \notin CommitPc
    BY <1>2 DEF BeginOpEnter, MustWait, ControlInv
  <2> QED
    BY <1>2, <2>1, <2>2, <2>3 DEF BeginOpEnter, ControlInv, Goto, disk, Running
<1>3. ASSUME NEW p \in Procs, NEW b \in Blocks, NEW v \in Vals, ModifyBlock(p, b, v)
      PROVE  ControlInv'
  <2>1. InOp' = InOp
    BY <1>3, InOpKept DEF ModifyBlock
  <2> QED
    BY <1>3, <2>1 DEF ModifyBlock, ControlInv, Goto, disk, Running
<1>4. ASSUME NEW p \in Procs, LogWriteCheck(p)
      PROVE  ControlInv'
  <2>1. InOp' = InOp
    BY <1>4, InOpKept DEF LogWriteCheck, InOp
  <2> QED
    BY <1>4, <2>1 DEF LogWriteCheck, ControlInv, Goto, disk, Running
<1>5. ASSUME NEW p \in Procs, LogWrite(p)
      PROVE  ControlInv'
  <2>1. InOp' = InOp /\ p \in InOp
    BY <1>5, InOpKept DEF LogWrite, InOp
  <2>2. committing = 0 /\ \A q \in Procs : pc[q] \notin CommitPc
    BY <2>1 DEF ControlInv
  <2> QED
    BY <1>5, <2>1, <2>2 DEF LogWrite, ControlInv, Goto, disk, Running
<1>6. ASSUME NEW p \in Procs, EndOp(p)
      PROVE  ControlInv'
  <2>1. p \in InOp /\ committing = 0 /\ \A q \in Procs : pc[q] \notin CommitPc
    BY <1>6 DEF EndOp, InOp, ControlInv
  <2>2. InOp' = InOp \ {p}
    <3>1. CASE WakeupThen(p, "idle")
      BY <3>1, InOpWakeup
    <3>2. CASE \E l \in CommitPc : Goto(p, l)
      BY <3>2 DEF InOp, Goto
    <3> QED
      BY <1>6, <2>1, <3>1, <3>2 DEF EndOp
  <2>3. outstanding' = Cardinality(InOp')
    BY <1>6, <2>1, <2>2, FS_RemoveElement DEF EndOp, ControlInv
  <2>4. IsFiniteSet(InOp')
    BY <2>2, FS_RemoveElement
  <2>5. CASE outstanding' = 0
    <3>1. InOp' = {}
      BY <2>3, <2>4, <2>5, FS_EmptySet
    <3> QED
      BY <1>6, <2>1, <2>3, <2>5, <3>1 DEF EndOp, ControlInv, Goto, disk, Running
  <2>6. CASE outstanding' # 0
    <3>1. InOp' # {}
      BY <2>3, <2>6, FS_EmptySet
    <3>2. QED
      <4>1. WakeupThen(p, "idle") /\ UNCHANGED <<committing, tail, panic, lh, boot, buf>>
        BY <1>6, <2>1, <2>6 DEF EndOp
      <4>2. \A q \in Procs : pc'[q] \notin CommitPc
        BY <4>1, <2>1 DEF WakeupThen
      <4>3. \A q \in Procs : pc'[q] \in {"modified", "checked"} <=> pc[q] \in {"modified", "checked"}
        BY <4>1, <1>6 DEF WakeupThen, EndOp
      <4> QED
        BY <2>1, <2>3, <3>1, <4>1, <4>2, <4>3, <1>6 DEF ControlInv, EndOp, Running
  <2> QED
    BY <2>5, <2>6
<1>7. ASSUME NEW p \in Procs, WriteLog(p)
      PROVE  ControlInv'
  <2>1. InOp' = InOp
    BY <1>7, InOpKept DEF WriteLog, InOp
  <2> QED
    <3>1. \A q \in Procs : pc[q] \in CommitPc => q = p
      BY <1>7 DEF WriteLog, ControlInv
    <3>2. /\ pc'[p] \in {"write_log", "write_head"}
          /\ pc'[p] = "write_log" => tail' < Len(lh)
          /\ \A q \in Procs \ {p} : pc'[q] = pc[q]
      BY <1>7 DEF WriteLog, Goto, ControlInv
    <3> QED
      <4>1. UNCHANGED <<lh, outstanding, committing, boot, panic, buf>> /\ boot = "up"
        BY <1>7 DEF WriteLog, Running
      <4>2. committing = 1 /\ pc[p] = "write_log" /\ Len(lh) > 0
        BY <1>7 DEF WriteLog, ControlInv
      <4> QED
        <5>1. /\ \A q \in Procs : pc'[q] \in CommitPc => q = p
              /\ pc'[p] \in CommitPc /\ pc'[p] \notin {"modified", "checked"}
              /\ (\E q \in Procs : pc'[q] = "asleep") => \E q \in Procs : pc[q] = "asleep"
          BY <3>1, <3>2
        <5>2. \A q \in Procs : /\ pc'[q] \in {"write_log", "install"} => tail' < Len(lh)
                              /\ pc'[q] # "end_commit"
          BY <3>2, <5>1
        <5>3. \A q \in Procs : IF pc'[q] \in {"modified", "checked"}
                               THEN buf[q] \in Blocks ELSE buf[q] = NoBlock
          BY <3>2, <4>2, <5>1 DEF ControlInv
        <5> QED
          BY <2>1, <4>1, <4>2, <5>1, <5>2, <5>3 DEF ControlInv
<1>8. ASSUME NEW p \in Procs, WriteHead(p)
      PROVE  ControlInv'
  <2>1. InOp' = InOp
    BY <1>8, InOpKept DEF WriteHead
  <2> QED
    BY <1>8, <2>1 DEF WriteHead, ControlInv, Goto, Running
<1>9. ASSUME NEW p \in Procs, InstallTrans(p)
      PROVE  ControlInv'
  <2>1. InOp' = InOp
    BY <1>9, InOpKept DEF InstallTrans, InOp
  <2> QED
    BY <1>9, <2>1, SMTT(30) DEF InstallTrans, InstallBlock, ControlInv, Goto, Running
<1>10. ASSUME NEW p \in Procs, CommitClear(p)
       PROVE  ControlInv'
  <2>1. InOp' = InOp
    BY <1>10, InOpKept DEF CommitClear
  <2> QED
    BY <1>10, <2>1 DEF CommitClear, EraseLog, ControlInv, Goto, Running
<1>11. ASSUME NEW p \in Procs, EndCommit(p)
       PROVE  ControlInv'
  <2>1. InOp' = InOp
    BY <1>11, InOpWakeup DEF EndCommit, InOp
  <2> QED
    <3>1. \A q \in Procs : pc'[q] \notin CommitPc \cup {"asleep"}
      BY <1>11 DEF EndCommit, WakeupThen, ControlInv
    <3>2. \A q \in Procs : pc'[q] \in {"modified", "checked"} <=> pc[q] \in {"modified", "checked"}
      BY <1>11 DEF EndCommit, WakeupThen
    <3>3. lh = << >>
      BY <1>11 DEF EndCommit, ControlInv
    <3> QED
      BY <1>11, <2>1, <3>1, <3>2, <3>3 DEF EndCommit, ControlInv, disk, Running
<1>12. ASSUME NEW b \in Blocks, Recycle(b)
       PROVE  ControlInv'
  BY <1>12 DEF Recycle, ControlInv, disk, InOp
<1>13. CASE Crash
  <2>1. InOp' = {}
    BY <1>13 DEF Crash, InOp
  <2> QED
    BY <1>13, <2>1, FS_EmptySet DEF Crash, ControlInv
<1>14. CASE ReadHead
  BY <1>14 DEF ReadHead, ControlInv, disk, InOp
<1>15. CASE RecoverInstall
  BY <1>15 DEF RecoverInstall, InstallBlock, ControlInv, InOp
<1>16. CASE RecoverClear
  BY <1>16 DEF RecoverClear, EraseLog, ControlInv, InOp
<1>17. CASE UNCHANGED vars
  BY <1>17 DEF vars, disk, mem, ControlInv, InOp
<1> QED
  BY <1>1, <1>2, <1>3, <1>4, <1>5, <1>6, <1>7, <1>8, <1>9, <1>10, <1>11, <1>12,
     <1>13, <1>14, <1>15, <1>16, <1>17, NextCases
-----------------------------------------------------------------------------
\* At most OpBlocks tokens for each member of a finite set of processes.
LEMMA TokenCount ==
  ASSUME NEW S, IsFiniteSet(S), NEW U, U \subseteq S \X (1 .. OpBlocks)
  PROVE  /\ IsFiniteSet(U) /\ Cardinality(U) \in Nat
         /\ Cardinality(U) <= Cardinality(S) * OpBlocks
<1>1. IsFiniteSet(1 .. OpBlocks) /\ Cardinality(1 .. OpBlocks) = OpBlocks
  BY LogAssumption, FS_Interval
<1>2. /\ IsFiniteSet(S \X (1 .. OpBlocks))
      /\ Cardinality(S \X (1 .. OpBlocks)) = Cardinality(S) * OpBlocks
  BY <1>1, FS_Product
<1> QED
  BY <1>2, FS_Subset, FS_CardinalityType

\* The unused tokens are finitely many.
LEMMA UnusedFinite == IsFiniteSet(Unused) /\ Cardinality(Unused) \in Nat
<1>1. Unused \subseteq InOp \X (1 .. OpBlocks)
  BY DEF Unused
<1> QED
  BY <1>1, InOpFinite, TokenCount

\* log_write() enters its block in log.lh and keeps every earlier entry.
LEMMA AbsorbEntries ==
  ASSUME TypeOK, NEW b \in Blocks
  PROVE  /\ Absorb(b) \in Seq(Blocks)
         /\ Entries(Absorb(b)) = Entries(lh) \cup {b}
         /\ Len(Absorb(b)) = IF b \in Entries(lh) THEN Len(lh) ELSE Len(lh) + 1
<1> lh \in Seq(Blocks)
  BY DEF TypeOK
<1>1. CASE b \in Entries(lh)
  BY <1>1 DEF Absorb
<1>2. CASE b \notin Entries(lh)
  <2>1. Absorb(b) = Append(lh, b) /\ Len(Append(lh, b)) = Len(lh) + 1
    BY <1>2 DEF Absorb
  <2>2. \A i \in 1 .. (Len(lh) + 1) : Append(lh, b)[i] = IF i = Len(lh) + 1 THEN b ELSE lh[i]
    OBVIOUS
  <2> QED
    BY <1>2, <2>1, <2>2 DEF Entries
<1> QED
  BY <1>1, <1>2

\* A step that does not enlarge the log, and starts no operation, keeps the
\* accounting.
LEMMA SpaceKept ==
  ASSUME IndInv, Len(lh') <= Len(lh), Len(lh') \in Nat, Unused' \subseteq Unused
  PROVE  Len(lh') + Cardinality(Unused') <= MaxTxn
<1>1. Cardinality(Unused') <= Cardinality(Unused) /\ Cardinality(Unused') \in Nat
  BY UnusedFinite, FS_Subset, FS_CardinalityType
<1>2. Len(lh) + Cardinality(Unused) <= MaxTxn /\ Len(lh) \in Nat /\ MaxTxn \in Int
  BY LogAssumption DEF IndInv, SpaceInv, TypeOK, MaxTxn
<1> QED
  BY <1>1, <1>2, UnusedFinite

\* The accounting of log space: the blocks in the log and the blocks that
\* running operations may still add never exceed MaxTxn.
LEMMA SpaceStep ==
  ASSUME IndInv, ReservationOK, [Next]_vars
  PROVE  SpaceInv'
<1>0. /\ TypeOK /\ ControlInv /\ SpaceInv
      /\ LOGSIZE \in Nat /\ MAXOPBLOCKS \in Nat /\ SIZE \in Nat /\ OpBlocks \in Nat
      /\ OpBlocks <= MAXOPBLOCKS /\ MaxTxn \in Int
  BY LogAssumption DEF IndInv, MaxTxn
<1>1. ASSUME NEW p \in Procs, BeginOpSleep(p)
      PROVE  SpaceInv'
  <2>1. InOp' = InOp
    BY <1>0, <1>1, InOpKept DEF BeginOpSleep, OpPc
  <2>2. Unused' = Unused
    BY <1>1, <2>1 DEF BeginOpSleep, Unused
  <2> QED
    BY <1>0, <1>1, <2>1, <2>2 DEF BeginOpSleep, SpaceInv, Goto, disk, mem, TypeOK
<1>2. ASSUME NEW p \in Procs, BeginOpEnter(p)
      PROVE  SpaceInv'
  <2>1. outstanding' = Cardinality(InOp')
    BY <1>2, ControlStep DEF ControlInv
  <2>2. Cardinality(Unused') <= (outstanding + 1) * OpBlocks /\ Cardinality(Unused') \in Nat
    <3>1. IsFiniteSet(InOp')
      BY LogAssumption, FS_Subset DEF InOp
    <3>2. Unused' \subseteq InOp' \X (1 .. OpBlocks)
      BY DEF Unused
    <3>3. Cardinality(Unused') <= Cardinality(InOp') * OpBlocks /\ Cardinality(Unused') \in Nat
      BY <3>1, <3>2, TokenCount
    <3> QED
      BY <1>2, <2>1, <3>3 DEF BeginOpEnter
  <2>3. Len(lh) + (outstanding + 1) * MAXOPBLOCKS <= LOGSIZE
    BY <1>0, <1>2 DEF BeginOpEnter, MustWait, LogFull, TypeOK
  <2>4. outstanding \in Nat
    BY <1>0, InOpFinite DEF ControlInv
  <2>5. (outstanding + 1) * OpBlocks + (MAXOPBLOCKS - OpBlocks) <= (outstanding + 1) * MAXOPBLOCKS
    <3>1. (outstanding + 1) * MAXOPBLOCKS - (outstanding + 1) * OpBlocks
            = outstanding * (MAXOPBLOCKS - OpBlocks) + (MAXOPBLOCKS - OpBlocks)
      BY <1>0, <2>4
    <3>2. outstanding * (MAXOPBLOCKS - OpBlocks) \in Nat
      BY <1>0, <2>4
    <3> QED
      BY <1>0, <2>4, <3>1, <3>2
  <2>6. Len(lh') + Cardinality(Unused') <= MaxTxn
    <3>1. (outstanding + 1) * OpBlocks \in Int /\ (outstanding + 1) * MAXOPBLOCKS \in Int
      BY <1>0, <2>4
    <3>2. lh' = lh /\ Len(lh) \in Nat
      BY <1>0, <1>2 DEF BeginOpEnter, TypeOK
    <3> QED
      BY <1>0, <2>2, <2>3, <2>5, <3>1, <3>2 DEF MaxTxn
  <2>7. \A q \in Procs : wrote'[q] = IF q = p THEN {} ELSE wrote[q]
    BY <1>0, <1>2 DEF BeginOpEnter, TypeOK
  <2>8. \A q \in Procs \ {p} : pc'[q] = pc[q] /\ buf'[q] = buf[q]
    BY <1>0, <1>2 DEF BeginOpEnter, TypeOK, Goto
  <2>9. pc'[p] = "op"
    BY <1>0, <1>2 DEF BeginOpEnter, TypeOK, Goto
  <2>10. \A q \in InOp' : q # p => q \in InOp
    BY <2>8 DEF InOp
  <2> QED
    BY <1>0, <1>2, <2>6, <2>7, <2>8, <2>9, <2>10, FS_EmptySet DEF SpaceInv, BeginOpEnter, disk, InOp
<1>3. ASSUME NEW p \in Procs, NEW b \in Blocks, NEW v \in Vals, ModifyBlock(p, b, v)
      PROVE  SpaceInv'
  <2>1. InOp' = InOp
    BY <1>0, <1>3, InOpKept DEF ModifyBlock, OpPc
  <2>2. Unused' = Unused
    BY <1>3, <2>1 DEF ModifyBlock, Unused
  <2>3. \A q \in Procs \ {p} : pc'[q] = pc[q] /\ buf'[q] = buf[q]
    BY <1>0, <1>3 DEF ModifyBlock, TypeOK, Goto
  <2>4. buf'[p] = b /\ (b \in wrote[p] \/ Cardinality(wrote[p]) < OpBlocks)
    BY <1>0, <1>3 DEF ModifyBlock, TypeOK
  <2> QED
    BY <1>0, <1>3, <2>1, <2>2, <2>3, <2>4 DEF ModifyBlock, SpaceInv, disk
<1>4. ASSUME NEW p \in Procs, LogWriteCheck(p)
      PROVE  SpaceInv'
  <2>1. Len(lh) <= MaxTxn /\ Len(lh) \in Nat
    BY <1>0, UnusedFinite DEF SpaceInv, TypeOK
  <2>2. ~TooBig
    BY <1>0, <2>1 DEF TooBig, ReservationOK
  <2>3. p \in InOp
    BY <1>4 DEF LogWriteCheck, InOp, OpPc
  <2>4. outstanding >= 1
    BY <1>0, <2>3, InOpFinite, FS_EmptySet DEF ControlInv
  <2>5. panic' = "none" /\ Goto(p, "checked")
    BY <1>0, <1>4, <2>2, <2>4 DEF LogWriteCheck, TypeOK
  <2>6. InOp' = InOp
    BY <1>0, <1>4, <2>5, InOpKept DEF LogWriteCheck, OpPc
  <2>7. Unused' = Unused
    BY <1>4, <2>6 DEF LogWriteCheck, Unused
  <2>8. \A q \in Procs : pc'[q] \in {"modified", "checked"} => pc[q] \in {"modified", "checked"}
    BY <1>0, <1>4, <2>5 DEF LogWriteCheck, TypeOK, Goto
  <2> QED
    BY <1>0, <1>4, <2>5, <2>6, <2>7, <2>8 DEF LogWriteCheck, SpaceInv, disk
<1>5. ASSUME NEW p \in Procs, LogWrite(p)
      PROVE  SpaceInv'
  <2> DEFINE b == buf[p]
             n == Cardinality(wrote[p])
  <2>1. b \in Blocks /\ p \in InOp /\ IsFiniteSet(wrote[p]) /\ n \in Nat
    BY <1>0, <1>5, FS_CardinalityType DEF LogWrite, ControlInv, SpaceInv, InOp, OpPc
  <2>2. InOp' = InOp
    BY <1>0, <1>5, InOpKept DEF LogWrite, OpPc
  <2>3. \A q \in Procs : wrote'[q] = IF q = p THEN wrote[p] \cup {b} ELSE wrote[q]
    BY <1>0, <1>5 DEF LogWrite, TypeOK
  <2>4. /\ Entries(lh') = Entries(lh) \cup {b}
        /\ Len(lh') = IF b \in Entries(lh) THEN Len(lh) ELSE Len(lh) + 1
    <3>1. lh' = Absorb(b)
      BY <1>5 DEF LogWrite
    <3>2. /\ Entries(Absorb(b)) = Entries(lh) \cup {b}
          /\ Len(Absorb(b)) = IF b \in Entries(lh) THEN Len(lh) ELSE Len(lh) + 1
      BY <1>0, <2>1, AbsorbEntries
    <3> QED
      BY <3>1, <3>2
  <2>5. Len(lh) + Cardinality(Unused) <= MaxTxn /\ Len(lh) \in Nat
    BY <1>0 DEF SpaceInv, TypeOK
  <2>6. Len(lh') + Cardinality(Unused') <= MaxTxn
    <3>1. CASE b \in wrote[p]
      <4>1. b \in Entries(lh)
        BY <1>0, <2>1, <3>1 DEF SpaceInv
      <4>2. \A q \in Procs : wrote'[q] = wrote[q]
        BY <2>3, <3>1
      <4>3. Unused' = Unused
        <5>1. \A t \in Procs \X (1 .. OpBlocks) :
                t[1] \in InOp' /\ t[2] > Cardinality(wrote'[t[1]]) <=> t[1] \in InOp /\ t[2] > Cardinality(wrote[t[1]])
          BY <2>2, <4>2
        <5> QED
          BY <5>1, Zenon DEF Unused
      <4> QED
        BY <2>4, <2>5, <4>1, <4>3
    <3>2. CASE b \notin wrote[p]
      <4>1. n < OpBlocks
        BY <1>0, <1>5, <3>2 DEF SpaceInv, LogWrite
      <4>2. Cardinality(wrote'[p]) = n + 1
        <5>1. wrote'[p] = wrote[p] \cup {b}
          BY <2>3
        <5> QED
          BY <2>1, <3>2, <5>1, FS_AddElement, Zenon
      <4>3. <<p, n + 1>> \in Unused
        BY <1>0, <2>1, <4>1 DEF Unused
      <4>4. Unused' \subseteq Unused \ {<<p, n + 1>>}
        <5> SUFFICES ASSUME NEW t \in Unused' PROVE t \in Unused \ {<<p, n + 1>>}
          OBVIOUS
        <5>1. PICK q \in Procs, i \in 1 .. OpBlocks : t = <<q, i>>
          BY DEF Unused
        <5>2. q \in InOp /\ i > Cardinality(wrote'[q])
          BY <2>2, <5>1 DEF Unused
        <5>3. CASE q = p
          BY <1>0, <2>1, <4>2, <5>1, <5>2, <5>3 DEF Unused
        <5>4. CASE q # p
          BY <2>3, <5>1, <5>2, <5>4 DEF Unused
        <5> QED
          BY <5>3, <5>4
      <4>5. Cardinality(Unused \ {<<p, n + 1>>}) = Cardinality(Unused) - 1
        BY <4>3, UnusedFinite, FS_RemoveElement
      <4>6. IsFiniteSet(Unused \ {<<p, n + 1>>})
        BY UnusedFinite, FS_RemoveElement
      <4>7. Cardinality(Unused') <= Cardinality(Unused) - 1 /\ Cardinality(Unused') \in Nat
        BY <4>4, <4>5, <4>6, FS_Subset, FS_CardinalityType
      <4> QED
        BY <1>0, <2>4, <2>5, <4>7, UnusedFinite
    <3> QED
      BY <3>1, <3>2
  <2>7. \A q \in Procs : IsFiniteSet(wrote'[q])
    BY <1>0, <2>1, <2>3, FS_AddElement DEF SpaceInv
  <2>8. \A q \in InOp' : wrote'[q] \subseteq Entries(lh')
    BY <1>0, <2>2, <2>3, <2>4 DEF SpaceInv, InOp
  <2>9. pc'[p] = "op" /\ \A q \in Procs \ {p} : pc'[q] = pc[q] /\ buf'[q] = buf[q]
    BY <1>0, <1>5 DEF LogWrite, TypeOK, Goto
  <2> QED
    BY <1>0, <1>5, <2>3, <2>6, <2>7, <2>8, <2>9 DEF SpaceInv, LogWrite, disk
<1>6. ASSUME NEW p \in Procs, EndOp(p)
      PROVE  SpaceInv'
  <2>1. p \in InOp /\ committing = 0
    BY <1>0, <1>6 DEF EndOp, InOp, OpPc, ControlInv, TypeOK
  <2>2. \A q \in Procs : pc'[q] \in OpPc => pc'[q] = pc[q]
    <3>1. CASE WakeupThen(p, "idle")
      BY <1>0, <3>1 DEF WakeupThen, TypeOK, OpPc
    <3>2. CASE \E l \in CommitPc : Goto(p, l)
      BY <1>0, <3>2 DEF Goto, TypeOK, OpPc, CommitPc
    <3>3. \/ WakeupThen(p, "idle")
          \/ Goto(p, IF Len(lh) > 0 THEN "write_log" ELSE "end_commit")
      BY <1>6, <2>1 DEF EndOp
    <3>4. (IF Len(lh) > 0 THEN "write_log" ELSE "end_commit") \in CommitPc
      BY DEF CommitPc
    <3> QED
      BY <3>1, <3>2, <3>3, <3>4
  <2>3. InOp' \subseteq InOp
    BY <2>2 DEF InOp
  <2>4. panic' = "none" /\ UNCHANGED <<lh, dhead, buf, wrote>>
    BY <1>0, <1>6, <2>1 DEF EndOp, disk, SpaceInv
  <2>5. Unused' \subseteq Unused
    BY <2>3, <2>4 DEF Unused
  <2>6. Len(lh') + Cardinality(Unused') <= MaxTxn
    BY <1>0, <2>4, <2>5, SpaceKept DEF TypeOK
  <2> QED
    BY <1>0, <2>2, <2>3, <2>4, <2>6 DEF SpaceInv, OpPc, Entries
\* The commit and the recovery start no operation, and log no new block.
<1>7. ASSUME InOp' = InOp, UNCHANGED <<lh, buf, wrote, panic>>,
             dhead' \in {dhead, lh},
             \A q \in Procs : pc'[q] \in {"modified", "checked"} => pc[q] = pc'[q]
      PROVE  SpaceInv'
  <2>1. Unused' = Unused
    BY <1>7 DEF Unused
  <2>2. Len(lh) <= MaxTxn
    BY <1>0, UnusedFinite DEF SpaceInv, TypeOK
  <2> QED
    BY <1>0, <1>7, <2>1, <2>2 DEF SpaceInv, Entries
<1>8. ASSUME NEW p \in Procs, WriteLog(p) \/ WriteHead(p) \/ InstallTrans(p) \/ EndCommit(p)
      PROVE  SpaceInv'
  <2>1. \A q \in Procs : pc'[q] \in OpPc \/ pc[q] \in OpPc => pc'[q] = pc[q]
    BY <1>0, <1>8 DEF WriteLog, WriteHead, InstallTrans, EndCommit, Goto, WakeupThen, TypeOK, OpPc
  <2>2. InOp' = InOp
    BY <2>1 DEF InOp
  <2>3. UNCHANGED <<lh, buf, wrote, panic>> /\ dhead' \in {dhead, lh}
    BY <1>8 DEF WriteLog, WriteHead, InstallTrans, InstallBlock, EndCommit, disk
  <2> QED
    BY <1>7, <2>1, <2>2, <2>3 DEF OpPc
<1>9. ASSUME InOp' = {}, UNCHANGED dhead \/ dhead' = << >>, lh' \in {<< >>, dhead}, panic' = "none",
             \A q \in Procs : IsFiniteSet(wrote'[q]) /\ pc'[q] \notin OpPc
      PROVE  SpaceInv'
  <2>1. Unused' = {}
    BY <1>9 DEF Unused
  <2>2. Cardinality(Unused') = 0 /\ Len(<< >>) = 0
    BY <2>1, FS_EmptySet
  <2>3. Len(dhead) <= MaxTxn /\ Len(dhead) \in Nat /\ 0 <= MaxTxn
    BY <1>0 DEF SpaceInv, TypeOK
  <2> QED
    BY <1>9, <2>2, <2>3 DEF SpaceInv, OpPc
<1>10. ASSUME NEW p \in Procs, CommitClear(p)
       PROVE  SpaceInv'
  <2>1. \A q \in Procs : pc'[q] \notin OpPc
    BY <1>0, <1>10 DEF CommitClear, Goto, TypeOK, ControlInv, InOp, OpPc, CommitPc
  <2> QED
    BY <1>0, <1>10, <2>1, <1>9 DEF CommitClear, EraseLog, InOp, SpaceInv
<1>11. ASSUME NEW b \in Blocks, Recycle(b)
       PROVE  SpaceInv'
  BY <1>7, <1>11 DEF Recycle, disk, InOp
<1>12. CASE Crash
  BY <1>9, <1>12, FS_EmptySet DEF Crash, disk, InOp, OpPc
<1>13. CASE ReadHead \/ RecoverClear
  <2>1. \A q \in Procs : pc'[q] \notin OpPc
    BY <1>0, <1>13 DEF ReadHead, RecoverClear, ControlInv, OpPc
  <2>2. InOp' = {}
    BY <2>1 DEF InOp
  <2> QED
    BY <1>0, <1>9, <1>13, <2>1, <2>2 DEF ReadHead, RecoverClear, EraseLog, disk, SpaceInv
<1>14. CASE RecoverInstall
  BY <1>7, <1>14 DEF RecoverInstall, InstallBlock, InOp
<1>15. CASE UNCHANGED vars
  BY <1>7, <1>15 DEF vars, disk, mem, InOp
<1> QED
  BY <1>1, <1>2, <1>3, <1>4, <1>5, <1>6, <1>8, <1>10, <1>11, <1>12, <1>13, <1>14, <1>15, NextCases
-----------------------------------------------------------------------------
\* The invariant holds of the disk mkfs makes.
LEMMA InitIndInv ==
  ASSUME Init, ReservationOK
  PROVE  IndInv
<1>1. InOp = {}
  BY DEF Init, InOp, OpPc
<1>2. Unused = {}
  BY <1>1 DEF Unused
<1>3. TypeOK
  BY LogAssumption DEF Init, TypeOK, Pc, OpPc, CommitPc, Boot, Panic, SlotIdx
<1>4. ControlInv
  BY <1>1, FS_EmptySet DEF Init, ControlInv, CommitPc
<1>5. SpaceInv
  <2>1. 0 <= MaxTxn
    BY LogAssumption DEF MaxTxn
  <2> QED
    BY <1>1, <1>2, <2>1, FS_EmptySet DEF Init, SpaceInv
<1> QED
  BY <1>3, <1>4, <1>5 DEF IndInv

\* The invariant is inductive.
LEMMA LogInvariant ==
  ASSUME ReservationOK
  PROVE  Spec => []IndInv
<1>1. Init => IndInv
  BY InitIndInv
<1>2. IndInv /\ [Next]_vars => IndInv'
  BY TypeStep, ControlStep, SpaceStep DEF IndInv
<1> QED
  BY <1>1, <1>2, PTL DEF Spec

\* No index log.c uses leaves its array, in log_write(), in a commit or in the recovery
\* after a crash at any point, for every number of processes and blocks and every log
\* geometry in which the reservation is enough.
THEOREM LogInBounds ==
  ASSUME ReservationOK
  PROVE  Spec => []IndicesInBounds
<1>1. IndInv => IndicesInBounds
  <2> SUFFICES ASSUME IndInv PROVE IndicesInBounds
    OBVIOUS
  <2>1. Len(lh) \in Nat /\ Len(dhead) \in Nat /\ MaxTxn \in Int /\ SIZE \in Nat /\ LOGSIZE \in Nat /\ tail \in Nat
    BY LogAssumption DEF IndInv, TypeOK, MaxTxn
  <2>2. Len(lh) + Cardinality(Unused) <= MaxTxn /\ Len(dhead) <= MaxTxn
    BY DEF IndInv, SpaceInv
  <2>3. Len(lh) <= SIZE - 2 /\ Len(lh) < LOGSIZE /\ Len(dhead) <= LOGSIZE
    BY <2>1, <2>2, UnusedFinite DEF ReservationOK
  <2>4. (boot = "install" \/ \E p \in Procs : pc[p] \in {"write_log", "install"}) => tail < Len(lh)
    BY DEF IndInv, ControlInv
  <2>5. tail < Len(lh) => tail \in 0 .. (Len(lh) - 1) /\ tail + 1 \in SlotIdx
    BY <2>1, <2>3 DEF SlotIdx
  <2> QED
    BY <2>1, <2>3, <2>4, <2>5 DEF IndicesInBounds
<1> QED
  BY <1>1, LogInvariant, PTL

\* begin_op()'s reservation is enough: however FS system calls interleave, and
\* although log_write() tests the size before it takes log.lock, no panic() of
\* log.c is reached and no transaction outgrows the on-disk log.
THEOREM LogNeverOverflows ==
  ASSUME ReservationOK
  PROVE  Spec => []LogHasRoom
<1>1. IndInv => LogHasRoom
  <2> SUFFICES ASSUME IndInv PROVE LogHasRoom
    OBVIOUS
  <2>1. Len(lh) + Cardinality(Unused) <= MaxTxn /\ panic = "none" /\ Len(lh) \in Nat
    BY DEF IndInv, SpaceInv, TypeOK
  <2>2. MaxTxn \in Int /\ SIZE \in Nat
    BY LogAssumption DEF MaxTxn
  <2> QED
    BY <2>1, <2>2, UnusedFinite DEF LogHasRoom, ReservationOK
<1> QED
  BY <1>1, LogInvariant, PTL

\* A commit never runs beside an unfinished FS system call.
THEOREM CommitRunsAlone ==
  ASSUME ReservationOK
  PROVE  Spec => []CommitIsAlone
<1>1. IndInv => CommitIsAlone
  BY FS_EmptySet DEF IndInv, ControlInv, CommitIsAlone
<1> QED
  BY <1>1, LogInvariant, PTL

\* No lost wakeup in begin_op(): whoever sleeps on &log, somebody is left who
\* will call wakeup(&log).
THEOREM NoLostLogWakeup ==
  ASSUME ReservationOK
  PROVE  Spec => []SomeoneWillWake
<1>1. IndInv => SomeoneWillWake
  BY InOpFinite, FS_EmptySet DEF IndInv, ControlInv, SomeoneWillWake
<1> QED
  BY <1>1, LogInvariant, PTL
-----------------------------------------------------------------------------
(* What a crash finds. *)

\* A transaction, in memory or on the disk, has a log block for each of its entries.
LEMMA LogFits ==
  ASSUME IndInv, ReservationOK
  PROVE  /\ lh \in Seq(Blocks) /\ Len(lh) \in Nat /\ \A i \in 1 .. Len(lh) : i \in SlotIdx /\ lh[i] \in Blocks
         /\ dhead \in Seq(Blocks) /\ Len(dhead) \in Nat
         /\ \A i \in 1 .. Len(dhead) : i \in SlotIdx /\ dhead[i] \in Blocks
<1>1. /\ Len(lh) \in Nat /\ Len(dhead) \in Nat /\ MaxTxn \in Int /\ SIZE \in Nat
      /\ lh \in Seq(Blocks) /\ dhead \in Seq(Blocks)
  BY LogAssumption DEF IndInv, TypeOK, MaxTxn
<1>2. Len(lh) <= SIZE - 1 /\ Len(dhead) <= SIZE - 1
  BY <1>1, UnusedFinite DEF IndInv, SpaceInv, ReservationOK
<1> QED
  BY <1>1, <1>2 DEF SlotIdx

\* While p commits nobody else does, nobody is inside an operation, and no buffer is held.
LEMMA CommitterFacts ==
  ASSUME IndInv, NEW p \in Procs, pc[p] \in CommitPc
  PROVE  /\ committing = 1 /\ InOp = {} /\ Held = {} /\ boot = "up"
         /\ \A q \in Procs : pc[q] \in CommitPc => q = p
         /\ Installing <=> pc[p] \in {"install", "clear"}
<1>1. committing = 1 /\ InOp = {} /\ \A q \in Procs : pc[q] \in CommitPc => q = p
  BY DEF IndInv, ControlInv
<1>2. boot = "up"
  BY DEF IndInv, ControlInv, CommitPc
<1>3. Held = {}
  <2> SUFFICES ASSUME NEW b \in Blocks, NEW q \in Procs, buf[q] = b PROVE FALSE
    BY DEF Held
  <2>1. pc[q] \in {"modified", "checked"}
    BY LogAssumption DEF IndInv, ControlInv
  <2> QED
    BY <1>1, <2>1 DEF InOp, OpPc
<1>4. Installing <=> pc[p] \in {"install", "clear"}
  BY <1>1 DEF Installing, CommitPc
<1> QED
  BY <1>1, <1>2, <1>3, <1>4

\* Outside a commit no header is on the disk, and all that is logged is pinned.
LEMMA NoCommitter ==
  ASSUME IndInv, NEW p \in Procs, pc[p] \in OpPc
  PROVE  boot = "up" /\ committing = 0 /\ (\A q \in Procs : pc[q] \notin CommitPc) /\ ~Installing
<1>1. p \in InOp
  BY DEF InOp
<1>2. committing = 0 /\ \A q \in Procs : pc[q] \notin CommitPc
  BY <1>1 DEF IndInv, TypeOK, ControlInv
<1>3. boot = "up"
  BY DEF IndInv, ControlInv, OpPc
<1> QED
  BY <1>2, <1>3 DEF Installing, CommitPc

\* A step that moves processes about outside the commit, and changes neither the disk
\* nor the cache nor log.lh, is not seen by a crash.
LEMMA QuietStep ==
  ASSUME IndInv, CrashInv, UNCHANGED <<disk, cache, dirty, lh, tail, boot, buf>>,
         \A q \in Procs : \/ pc'[q] = pc[q]
                          \/ /\ pc[q] \notin {"write_log", "write_head", "install", "clear"}
                             /\ pc'[q] \notin {"write_log", "write_head", "install", "clear"}
  PROVE  CrashInv'
<1>1. (Installing' <=> Installing) /\ Held' = Held
  BY DEF Installing, Held
<1>2. UNCHANGED <<home, slot, dhead, cache, dirty, lh, tail, boot>>
  BY DEF disk
<1>3. DistinctInv' /\ HeadInv'
  BY <1>1, <1>2 DEF CrashInv, DistinctInv, Distinct, HeadInv
<1>4. PinInv'
  BY <1>1, <1>2 DEF CrashInv, PinInv
<1>5. \A n : (Copied(n)' <=> Copied(n)) /\ (Installed(n)' <=> Installed(n))
  BY <1>2 DEF Copied, Installed
<1>6. SlotInv'
  BY <1>2, <1>5 DEF CrashInv, SlotInv
<1> QED
  BY <1>3, <1>4, <1>6 DEF CrashInv

\* bread() and a change of the buffer: the block is held, so it need not be as on the disk.
LEMMA ModifyCrash ==
  ASSUME IndInv, CrashInv, NEW p \in Procs, NEW b \in Blocks, NEW v \in Vals, ModifyBlock(p, b, v)
  PROVE  CrashInv'
<1>1. /\ boot = "up" /\ ~Installing /\ (\A q \in Procs : pc[q] \notin CommitPc)
      /\ UNCHANGED <<home, slot, dhead, dirty, lh, tail, boot>>
      /\ cache' = [cache EXCEPT ![b] = v]
  BY NoCommitter DEF ModifyBlock, OpPc, disk
<1>2. \A q \in Procs : pc'[q] \notin CommitPc
  BY <1>1 DEF ModifyBlock, Goto, IndInv, TypeOK, CommitPc
<1>3. ~Installing'
  BY <1>2 DEF Installing, CommitPc
<1>4. DistinctInv' /\ HeadInv' /\ SlotInv'
  BY <1>1, <1>2, <1>3 DEF CrashInv, DistinctInv, Distinct, HeadInv, SlotInv, CommitPc
<1>5. PinInv'
  <2>1. \A c \in Blocks : c \notin Held' => c \notin Held /\ c # b
    <3> SUFFICES ASSUME NEW c \in Blocks, c \in Held \/ c = b PROVE c \in Held'
      OBVIOUS
    <3>1. buf' = [buf EXCEPT ![p] = b] /\ buf[p] = NoBlock /\ buf \in [Procs -> Blocks \cup {NoBlock}]
      BY DEF ModifyBlock, IndInv, ControlInv, TypeOK
    <3>2. CASE c = b
      BY <3>1, <3>2 DEF Held
    <3>3. CASE c \in Held
      <4>1. PICK q \in Procs : buf[q] = c
        BY <3>3 DEF Held
      <4>2. q # p
        BY <3>1, <4>1, LogAssumption
      <4>3. buf'[q] = c
        BY <3>1, <4>1, <4>2
      <4> QED
        BY <4>3 DEF Held
    <3> QED
      BY <3>2, <3>3
  <2>2. \A c \in Blocks : c # b => cache'[c] = cache[c]
    BY <1>1 DEF IndInv, TypeOK
  <2> QED
    BY <1>1, <1>3, <2>1, <2>2 DEF CrashInv, PinInv
<1> QED
  BY <1>4, <1>5 DEF CrashInv

\* log_write(): the block is pinned in the step that lets go of it, and enters the log
\* unless it is there.
LEMMA LogWriteCrash ==
  ASSUME IndInv, CrashInv, NEW p \in Procs, LogWrite(p)
  PROVE  CrashInv'
<1> DEFINE b == buf[p]
<1>1. /\ boot = "up" /\ ~Installing /\ (\A q \in Procs : pc[q] \notin CommitPc)
      /\ UNCHANGED <<home, slot, dhead, cache, tail, boot>>
      /\ lh' = Absorb(b) /\ dirty' = dirty \cup {b}
  BY NoCommitter DEF LogWrite, OpPc, disk
<1>2. b \in Blocks /\ lh \in Seq(Blocks) /\ Len(lh) \in Nat
  BY DEF LogWrite, IndInv, ControlInv, TypeOK
<1>3. \A q \in Procs : pc'[q] \notin CommitPc
  BY <1>1 DEF LogWrite, Goto, IndInv, TypeOK, CommitPc
<1>4. ~Installing'
  BY <1>3 DEF Installing, CommitPc
<1>5. HeadInv' /\ SlotInv'
  BY <1>1, <1>3, <1>4 DEF CrashInv, HeadInv, SlotInv, CommitPc
<1>6. \A c \in Blocks : (\E i \in 1 .. Len(lh') : lh'[i] = c) <=> c = b \/ \E i \in 1 .. Len(lh) : lh[i] = c
  <2>1. Entries(lh') = Entries(lh) \cup {b}
    BY <1>1, <1>2, AbsorbEntries DEF IndInv
  <2> HIDE DEF b
  <2> QED
    BY <2>1 DEF Entries
<1>7. Distinct(lh')
  <2>1. Distinct(lh)
    BY DEF CrashInv, DistinctInv
  <2>2. CASE b \in Entries(lh)
    BY <1>1, <2>1, <2>2 DEF Absorb
  <2>3. CASE b \notin Entries(lh)
    <3>1. /\ lh' = Append(lh, b) /\ Len(lh') = Len(lh) + 1
          /\ \A i \in 1 .. (Len(lh) + 1) : lh'[i] = IF i = Len(lh) + 1 THEN b ELSE lh[i]
      BY <1>1, <1>2, <2>3 DEF Absorb
    <3>2. \A i \in 1 .. Len(lh) : lh[i] # b
      BY <2>3 DEF Entries
    <3> HIDE DEF b
    <3> QED
      BY <1>2, <2>1, <3>1, <3>2 DEF Distinct
  <2> QED
    BY <2>2, <2>3
<1>8. DistinctInv'
  BY <1>1, <1>7 DEF CrashInv, DistinctInv, Distinct
<1>9. PinInv'
  <2>1. \A c \in Blocks : c \notin Held' => c \notin Held \/ c = b
    <3> SUFFICES ASSUME NEW c \in Blocks, c \in Held, c # b PROVE c \in Held'
      OBVIOUS
    <3>1. PICK q \in Procs : buf[q] = c
      BY DEF Held
    <3>2. buf'[q] = c
      BY <3>1 DEF LogWrite, IndInv, TypeOK
    <3> QED
      BY <3>2 DEF Held
  <2> HIDE DEF b
  <2>2. \A c \in Blocks : c \in dirty' <=> \E i \in 1 .. Len(lh') : lh'[i] = c /\ (Installing' => tail' < i)
    BY <1>1, <1>4, <1>6 DEF CrashInv, PinInv
  <2>3. \A c \in Blocks : c \notin dirty' /\ c \notin Held' => cache'[c] = home'[c]
    BY <1>1, <2>1 DEF CrashInv, PinInv
  <2> QED
    BY <1>1, <2>2, <2>3 DEF PinInv
<1> QED
  BY <1>5, <1>8, <1>9 DEF CrashInv

\* A buffer that may be recycled is as on the disk, so that reading it again changes nothing.
LEMMA RecycleIsSafe ==
  ASSUME IndInv, CrashInv, NEW b \in Blocks, Recycle(b)
  PROVE  UNCHANGED vars
<1>1. cache[b] = home[b] /\ cache \in [Blocks -> Vals]
  BY DEF Recycle, CrashInv, PinInv, IndInv, TypeOK
<1>2. cache' = cache
  BY <1>1 DEF Recycle
<1> QED
  BY <1>2 DEF Recycle, vars, mem

\* end_op(): the last operation to end starts to copy the log, from its first block.
LEMMA EndOpCrash ==
  ASSUME IndInv, CrashInv, NEW p \in Procs, EndOp(p)
  PROVE  CrashInv'
<1>1. boot = "up" /\ committing = 0 /\ ~Installing /\ \A q \in Procs : pc[q] \notin CommitPc
  BY NoCommitter DEF EndOp, OpPc
<1>2. UNCHANGED <<home, slot, dhead, cache, dirty, lh, boot, buf>>
  BY DEF EndOp, disk
<1>3. CASE outstanding' # 0
  <2>1. UNCHANGED tail /\ WakeupThen(p, "idle")
    BY <1>1, <1>3 DEF EndOp
  <2>2. \A q \in Procs : pc'[q] \notin CommitPc
    BY <1>1, <2>1 DEF WakeupThen, CommitPc
  <2> QED
    BY <1>1, <1>2, <2>1, <2>2, QuietStep DEF disk, CommitPc
<1>4. CASE outstanding' = 0
  <2>1. tail' = 0 /\ Goto(p, IF Len(lh) > 0 THEN "write_log" ELSE "end_commit")
    <3>1. committing # 1
      BY <1>1
    <3> QED
      BY <1>4, <3>1, Zenon DEF EndOp
  <2>2. \A q \in Procs : pc'[q] \notin {"write_head", "install", "clear"}
    BY <1>1, <2>1 DEF Goto, IndInv, TypeOK, CommitPc
  <2>3. ~Installing' /\ Held' = Held
    BY <1>2, <2>2 DEF Installing, Held
  <2>4. DistinctInv' /\ HeadInv'
    BY <1>1, <1>2, <2>3 DEF CrashInv, DistinctInv, Distinct, HeadInv
  <2>5. PinInv'
    BY <1>1, <1>2, <2>3 DEF CrashInv, PinInv
  <2>6. SlotInv'
    BY <1>1, <1>2, <2>1, <2>2 DEF SlotInv, Copied
  <2> QED
    BY <2>4, <2>5, <2>6 DEF CrashInv
<1> QED
  BY <1>3, <1>4

\* One round of write_log().
LEMMA WriteLogCrash ==
  ASSUME IndInv, ReservationOK, CrashInv, NEW p \in Procs, WriteLog(p)
  PROVE  CrashInv'
<1>1. /\ boot = "up" /\ ~Installing
      /\ \A q \in Procs : pc[q] \in CommitPc => q = p
  BY CommitterFacts DEF WriteLog, CommitPc
<1>2. /\ UNCHANGED <<home, dhead, cache, dirty, lh, boot, buf>>
      /\ slot' = [slot EXCEPT ![tail + 1] = cache[lh[tail + 1]]] /\ tail' = tail + 1
      /\ tail \in Nat /\ tail < Len(lh) /\ slot \in [SlotIdx -> Vals]
      /\ pc[p] = "write_log" /\ (tail' = Len(lh) => pc'[p] = "write_head")
      /\ (tail' # Len(lh) => pc'[p] = "write_log") /\ \A q \in Procs : q # p => pc'[q] = pc[q]
  BY DEF WriteLog, IndInv, ControlInv, TypeOK, Goto
<1>3. ~Installing' /\ Held' = Held
  BY <1>1, <1>2 DEF Installing, Held, CommitPc
<1>4. DistinctInv' /\ HeadInv'
  BY <1>1, <1>2, <1>3 DEF CrashInv, DistinctInv, Distinct, HeadInv
<1>5. PinInv'
  BY <1>1, <1>2, <1>3 DEF CrashInv, PinInv
<1>6. Copied(tail)'
  <2>1. Copied(tail)
    BY <1>2 DEF CrashInv, SlotInv
  <2>2. tail + 1 \in SlotIdx
    BY <1>2, LogFits
  <2> QED
    BY <1>2, <2>1, <2>2, LogFits DEF Copied
<1>7. \A q \in Procs : q # p => pc'[q] \notin {"write_log", "write_head", "install", "clear"}
  BY <1>1, <1>2 DEF CommitPc
<1>8. SlotInv'
  BY <1>1, <1>2, <1>6, <1>7 DEF SlotInv, Copied
<1> QED
  BY <1>4, <1>5, <1>8 DEF CrashInv

\* write_head(): the header is on the disk, and nothing is installed yet.
LEMMA WriteHeadCrash ==
  ASSUME IndInv, CrashInv, NEW p \in Procs, WriteHead(p)
  PROVE  CrashInv'
<1>1. /\ boot = "up" /\ ~Installing /\ \A q \in Procs : pc[q] \in CommitPc => q = p
  BY CommitterFacts DEF WriteHead, CommitPc
<1>2. /\ UNCHANGED <<home, slot, cache, dirty, lh, boot, buf>> /\ dhead' = lh /\ tail' = 0
      /\ pc[p] = "write_head" /\ pc'[p] = "install" /\ \A q \in Procs : q # p => pc'[q] = pc[q]
  BY DEF WriteHead, IndInv, TypeOK, Goto
<1>3. Installing' /\ Held' = Held
  BY <1>2 DEF Installing, Held
<1>4. DistinctInv' /\ HeadInv'
  BY <1>1, <1>2, <1>3 DEF CrashInv, DistinctInv, Distinct, HeadInv
<1>5. PinInv'
  BY <1>1, <1>2, <1>3 DEF CrashInv, PinInv
<1>6. Copied(Len(lh))'
  BY <1>2 DEF CrashInv, SlotInv, Copied
<1>7. \A q \in Procs : q # p => pc'[q] \notin {"write_log", "write_head", "install", "clear"}
  BY <1>1, <1>2 DEF CommitPc
<1>8. SlotInv'
  BY <1>1, <1>2, <1>6, <1>7 DEF SlotInv, Installed
<1> QED
  BY <1>4, <1>5, <1>8 DEF CrashInv

\* One block of a log is installed: in the disk's block and in the cache.
LEMMA InstallEffect ==
  ASSUME IndInv, ReservationOK, CrashInv, InstallBlock, tail < Len(lh), Installed(tail)
  PROVE  /\ tail' = tail + 1 /\ Installed(tail)' /\ DistinctInv'
         /\ \A b \in Blocks : b # lh[tail + 1] =>
               home'[b] = home[b] /\ cache'[b] = cache[b] /\ (b \in dirty' <=> b \in dirty)
         /\ home'[lh[tail + 1]] = slot[tail + 1] /\ cache'[lh[tail + 1]] = slot[tail + 1]
         /\ lh[tail + 1] \in Blocks /\ lh[tail + 1] \notin dirty'
         /\ home' \in [Blocks -> Vals] /\ cache' \in [Blocks -> Vals]
<1>1. /\ tail \in Nat /\ home \in [Blocks -> Vals] /\ cache \in [Blocks -> Vals]
      /\ slot \in [SlotIdx -> Vals] /\ Distinct(lh) /\ Len(lh) \in Nat
  BY DEF IndInv, TypeOK, CrashInv, DistinctInv
<1>2. tail + 1 \in 1 .. Len(lh) /\ lh[tail + 1] \in Blocks /\ slot[tail + 1] \in Vals
  BY <1>1, LogFits
<1>3. /\ cache' = [cache EXCEPT ![lh[tail + 1]] = slot[tail + 1]]
      /\ home' = [home EXCEPT ![lh[tail + 1]] = slot[tail + 1]]
      /\ dirty' = dirty \ {lh[tail + 1]} /\ tail' = tail + 1
      /\ UNCHANGED <<slot, dhead, lh>>
  BY DEF InstallBlock
<1>4. Installed(tail)'
  <2> SUFFICES ASSUME NEW i \in 1 .. (tail + 1) PROVE home'[lh[i]] = slot[i]
    BY <1>3 DEF Installed
  <2>1. CASE i = tail + 1
    BY <1>1, <1>2, <1>3, <2>1
  <2>2. CASE i # tail + 1
    <3>1. i \in 1 .. tail /\ i \in 1 .. Len(lh)
      BY <1>1, <1>2, <2>2
    <3>2. lh[i] # lh[tail + 1] /\ lh[i] \in Blocks
      BY <1>1, <1>2, <2>2, <3>1, LogFits DEF Distinct
    <3>3. home[lh[i]] = slot[i]
      BY <3>1 DEF Installed
    <3> QED
      BY <1>1, <1>3, <3>2, <3>3
  <2> QED
    BY <2>1, <2>2
<1>5. DistinctInv'
  BY <1>3 DEF CrashInv, DistinctInv, Distinct
<1> QED
  BY <1>1, <1>2, <1>3, <1>4, <1>5 DEF Installed

\* install_trans() in a commit: each block is unpinned when it is on the disk.
LEMMA InstallCrash ==
  ASSUME IndInv, ReservationOK, CrashInv, NEW p \in Procs, InstallTrans(p)
  PROVE  CrashInv' /\ cache' = cache
<1>1. /\ boot = "up" /\ Installing /\ Held = {} /\ \A q \in Procs : pc[q] \in CommitPc => q = p
  BY CommitterFacts DEF InstallTrans, CommitPc
<1>2. /\ InstallBlock /\ UNCHANGED <<slot, dhead, lh, boot, buf>> /\ tail' = tail + 1
      /\ tail \in Nat /\ tail < Len(lh) /\ cache \in [Blocks -> Vals]
      /\ pc[p] = "install" /\ (tail' = Len(lh) => pc'[p] = "clear")
      /\ (tail' # Len(lh) => pc'[p] = "install") /\ \A q \in Procs : q # p => pc'[q] = pc[q]
  BY DEF InstallTrans, InstallBlock, IndInv, ControlInv, TypeOK, Goto
<1>3. Installed(tail) /\ Copied(Len(lh)) /\ Distinct(lh) /\ Len(lh) \in Nat
  BY <1>2, LogFits DEF CrashInv, SlotInv, DistinctInv
<1>4. Installing' /\ Held' = {}
  BY <1>1, <1>2 DEF Installing, Held
<1> DEFINE b == lh[tail + 1]
<1>5. /\ Installed(tail)' /\ DistinctInv' /\ b \in Blocks /\ b \notin dirty'
      /\ \A c \in Blocks : c # b => home'[c] = home[c] /\ cache'[c] = cache[c] /\ (c \in dirty' <=> c \in dirty)
      /\ home'[b] = slot[tail + 1] /\ cache'[b] = slot[tail + 1] /\ cache' \in [Blocks -> Vals]
  BY <1>2, <1>3, InstallEffect
<1>6. cache' = cache
  <2>1. slot[tail + 1] = cache[b]
    BY <1>2, <1>3 DEF Copied
  <2> HIDE DEF b
  <2> QED
    BY <1>2, <1>5, <2>1
<1>7. HeadInv'
  BY <1>1, <1>2, <1>4 DEF CrashInv, HeadInv
<1>8. PinInv'
  <2>1. ASSUME NEW c \in Blocks PROVE c \in dirty' <=> \E i \in 1 .. Len(lh) : lh[i] = c /\ tail + 1 < i
    <3>1. c \in dirty <=> \E i \in 1 .. Len(lh) : lh[i] = c /\ tail < i
      BY <1>1 DEF CrashInv, PinInv
    <3>2. CASE c = b
      <4>1. \A i \in 1 .. Len(lh) : lh[i] = b => i = tail + 1
        BY <1>2, <1>3 DEF Distinct
      <4> HIDE DEF b
      <4> QED
        BY <1>2, <1>5, <3>2, <4>1
    <3>3. CASE c # b
      <4>1. \A i \in 1 .. Len(lh) : lh[i] = c /\ tail < i => tail + 1 < i
        BY <1>2, <1>3, <3>3
      <4>2. \A i \in 1 .. Len(lh) : tail + 1 < i => tail < i
        BY <1>2, <1>3
      <4> QED
        BY <1>5, <3>1, <3>3, <4>1, <4>2
    <3> QED
      BY <3>2, <3>3
  <2>2. ASSUME NEW c \in Blocks, c \notin dirty' PROVE cache'[c] = home'[c]
    <3>1. CASE c = b
      BY <1>5, <3>1
    <3>2. CASE c # b
      <4> HIDE DEF b
      <4> QED
        BY <1>1, <1>5, <2>2, <3>2 DEF CrashInv, PinInv
    <3> QED
      BY <3>1, <3>2
  <2>3. \A c \in Blocks : c \in dirty' <=> \E i \in 1 .. Len(lh') : lh'[i] = c /\ (Installing' => tail' < i)
    BY <1>2, <1>4, <2>1
  <2> QED
    BY <1>1, <1>2, <2>2, <2>3 DEF PinInv
<1>9. \A q \in Procs : q # p => pc'[q] \notin {"write_log", "write_head", "install", "clear"}
  BY <1>1, <1>2 DEF CommitPc
<1>10. Copied(Len(lh))'
  BY <1>2, <1>3, <1>6 DEF Copied
<1>11. SlotInv'
  BY <1>1, <1>2, <1>5, <1>9, <1>10 DEF SlotInv
<1> QED
  BY <1>5, <1>6, <1>7, <1>8, <1>11 DEF CrashInv

\* The transaction is erased when every block of it is installed and unpinned.
LEMMA ClearCrash ==
  ASSUME IndInv, CrashInv, NEW p \in Procs, CommitClear(p)
  PROVE  CrashInv'
<1>1. /\ boot = "up" /\ Installing /\ Held = {} /\ \A q \in Procs : pc[q] \in CommitPc => q = p
  BY CommitterFacts DEF CommitClear, CommitPc
<1>2. /\ UNCHANGED <<home, slot, cache, dirty, boot, buf, tail>> /\ lh' = << >> /\ dhead' = << >>
      /\ pc[p] = "clear" /\ pc'[p] = "end_commit" /\ \A q \in Procs : q # p => pc'[q] = pc[q]
  BY DEF CommitClear, EraseLog, IndInv, TypeOK, Goto
<1>3. \A q \in Procs : pc'[q] \notin {"write_log", "write_head", "install", "clear"}
  BY <1>1, <1>2 DEF CommitPc
<1>4. ~Installing' /\ Held' = {}
  BY <1>1, <1>2, <1>3 DEF Installing, Held
<1>5. DistinctInv' /\ HeadInv'
  BY <1>1, <1>2, <1>4 DEF DistinctInv, Distinct, HeadInv
<1>6. \A b \in Blocks : b \notin dirty
  <2>1. tail = Len(lh) /\ Len(lh) \in Nat
    BY <1>2 DEF CrashInv, SlotInv, IndInv, TypeOK
  <2> QED
    BY <1>1, <2>1 DEF CrashInv, PinInv
<1>7. PinInv'
  BY <1>1, <1>2, <1>4, <1>6 DEF CrashInv, PinInv
<1>8. SlotInv'
  BY <1>1, <1>2, <1>3 DEF SlotInv
<1> QED
  BY <1>5, <1>7, <1>8 DEF CrashInv

\* A crash, at any point, and the steps of recover_from_log().
LEMMA RebootCrash ==
  ASSUME IndInv, ReservationOK, CrashInv, Crash \/ ReadHead \/ RecoverInstall \/ RecoverClear
  PROVE  CrashInv'
<1>1. ASSUME Crash PROVE CrashInv'
  <2>1. /\ UNCHANGED <<home, slot, dhead>> /\ boot' = "read_head" /\ cache' = home /\ dirty' = {} /\ lh' = << >>
        /\ \A q \in Procs : pc'[q] = "idle"
    BY <1>1 DEF Crash, disk
  <2>2. DistinctInv' /\ HeadInv'
    BY <2>1 DEF CrashInv, DistinctInv, Distinct, HeadInv
  <2>3. PinInv'
    BY <2>1 DEF PinInv
  <2>4. SlotInv'
    BY <2>1 DEF SlotInv
  <2> QED
    BY <2>2, <2>3, <2>4 DEF CrashInv
<1>2. ASSUME boot # "up" PROVE (\A q \in Procs : pc[q] = "idle") /\ dirty = {} /\ cache = home
  BY <1>2 DEF IndInv, ControlInv, CrashInv, PinInv
<1>3. ASSUME ReadHead PROVE CrashInv'
  <2>1. /\ UNCHANGED <<home, slot, dhead, cache, dirty, pc>> /\ lh' = dhead /\ tail' = 0 /\ boot = "read_head"
        /\ boot' = IF Len(dhead) > 0 THEN "install" ELSE "clear"
    BY <1>3 DEF ReadHead, disk
  <2>2. DistinctInv' /\ HeadInv'
    BY <2>1 DEF CrashInv, DistinctInv, Distinct, HeadInv
  <2>3. PinInv'
    BY <1>2, <2>1 DEF PinInv
  <2>4. Installed(0)' /\ (boot' = "clear" => Len(lh') = 0)
    BY <2>1, LogFits DEF Installed
  <2>5. SlotInv'
    BY <1>2, <2>1, <2>4 DEF SlotInv, Installed
  <2> QED
    BY <2>2, <2>3, <2>5 DEF CrashInv
<1>4. ASSUME RecoverInstall PROVE CrashInv'
  <2>1. /\ InstallBlock /\ UNCHANGED <<slot, dhead, lh, pc>> /\ tail' = tail + 1 /\ boot = "install"
        /\ boot' = IF tail' = Len(lh) THEN "clear" ELSE "install"
        /\ tail < Len(lh)
    BY <1>4 DEF RecoverInstall, InstallBlock, IndInv, ControlInv
  <2>2. Installed(tail)
    BY <2>1 DEF CrashInv, SlotInv
  <2> DEFINE b == lh[tail + 1]
  <2>3. /\ Installed(tail)' /\ DistinctInv' /\ b \in Blocks /\ b \notin dirty'
        /\ \A c \in Blocks : c # b => home'[c] = home[c] /\ cache'[c] = cache[c] /\ (c \in dirty' <=> c \in dirty)
        /\ home'[b] = slot[tail + 1] /\ cache'[b] = slot[tail + 1]
        /\ home' \in [Blocks -> Vals] /\ cache' \in [Blocks -> Vals]
    BY <2>1, <2>2, InstallEffect
  <2>4. HeadInv'
    BY <2>1 DEF CrashInv, HeadInv
  <2>5. PinInv'
    <3>1. dirty' = {}
      BY <1>2, <2>1 DEF InstallBlock
    <3>2. cache' = home'
      <4> HIDE DEF b
      <4> QED
        BY <1>2, <2>1, <2>3
    <3> QED
      BY <2>1, <3>1, <3>2 DEF PinInv
  <2>6. SlotInv'
    BY <1>2, <2>1, <2>3 DEF SlotInv
  <2> QED
    BY <2>3, <2>4, <2>5, <2>6 DEF CrashInv
<1>5. ASSUME RecoverClear PROVE CrashInv'
  <2>1. /\ UNCHANGED <<home, slot, cache, dirty, pc>> /\ lh' = << >> /\ dhead' = << >>
        /\ boot = "clear" /\ boot' = "up"
    BY <1>5 DEF RecoverClear, EraseLog
  <2>2. ~Installing'
    BY <1>2, <2>1 DEF Installing
  <2>3. DistinctInv' /\ HeadInv'
    BY <2>1, <2>2 DEF DistinctInv, Distinct, HeadInv
  <2>4. PinInv'
    BY <1>2, <2>1, <2>2 DEF PinInv
  <2>5. SlotInv'
    BY <1>2, <2>1 DEF SlotInv
  <2> QED
    BY <2>3, <2>4, <2>5 DEF CrashInv
<1> QED
  BY <1>1, <1>3, <1>4, <1>5

\* What a crash finds is invariant.
LEMMA CrashStep ==
  ASSUME IndInv, ReservationOK, CrashInv, [Next]_vars
  PROVE  CrashInv'
<1>1. ASSUME NEW p \in Procs, BeginOpSleep(p) \/ BeginOpEnter(p) \/ LogWriteCheck(p)
      PROVE  CrashInv'
  <2>1. UNCHANGED <<disk, cache, dirty, lh, tail, boot, buf>>
    BY <1>1 DEF BeginOpSleep, BeginOpEnter, LogWriteCheck, mem
  <2>2. pc[p] \in {"idle", "woken", "modified"} /\ (pc' = pc \/ \E l \in {"asleep", "op", "checked"} : Goto(p, l))
    BY <1>1 DEF BeginOpSleep, BeginOpEnter, LogWriteCheck
  <2>3. \A q \in Procs : pc'[q] = pc[q] \/ (q = p /\ pc'[q] \in {"asleep", "op", "checked"})
    BY <2>2 DEF Goto, IndInv, TypeOK
  <2> QED
    BY <2>1, <2>2, <2>3, QuietStep
<1>2. ASSUME NEW p \in Procs, EndCommit(p)
      PROVE  CrashInv'
  <2>1. UNCHANGED <<disk, cache, dirty, lh, tail, boot, buf>>
    BY <1>2 DEF EndCommit
  <2>2. \A q \in Procs : pc'[q] = pc[q] \/ (pc[q] \in {"asleep", "end_commit"} /\ pc'[q] \in {"idle", "woken"})
    BY <1>2 DEF EndCommit, WakeupThen
  <2> QED
    BY <2>1, <2>2, QuietStep
<1>3. CASE UNCHANGED vars
  BY <1>3, QuietStep DEF vars, mem
<1>4. ASSUME NEW b \in Blocks, Recycle(b) PROVE CrashInv'
  BY <1>3, <1>4, RecycleIsSafe
<1> QED
  BY <1>1, <1>2, <1>3, <1>4, NextCases, ModifyCrash, LogWriteCrash, EndOpCrash, WriteLogCrash,
     WriteHeadCrash, InstallCrash, ClearCrash, RebootCrash

\* What a crash finds, at every moment of every behaviour.
LEMMA CrashAlways ==
  ASSUME ReservationOK
  PROVE  Spec => []CrashInv
<1>1. Init => CrashInv
  BY DEF Init, CrashInv, DistinctInv, Distinct, HeadInv, PinInv, SlotInv
<1>2. IndInv /\ CrashInv /\ [Next]_vars => CrashInv'
  BY CrashStep
<1> QED
  BY <1>1, <1>2, LogInvariant, PTL DEF Spec

\* B_DIRTY pins exactly the blocks whose only up-to-date copy is in memory, and a buffer
\* that is neither pinned nor held may be recycled.
THEOREM PinsAreExact ==
  ASSUME ReservationOK
  PROVE  Spec => []PinnedUntilInstalled
<1>1. IndInv /\ CrashInv => PinnedUntilInstalled
  <2> SUFFICES ASSUME IndInv, CrashInv, boot = "up" PROVE PinnedUntilInstalled
    BY DEF PinnedUntilInstalled
  <2>1. /\ dirty \subseteq Blocks /\ tail \in Nat /\ Len(lh) \in Nat /\ \A i \in 1 .. Len(lh) : lh[i] \in Blocks
    BY DEF IndInv, TypeOK
  <2>2. \A b \in Blocks \ (dirty \cup Held) : cache[b] = home[b]
    BY DEF CrashInv, PinInv
  <2>3. CASE Installing
    <3>1. dirty = {lh[i] : i \in (tail + 1) .. Len(lh)}
      <4>1. \A i \in Int : i \in (tail + 1) .. Len(lh) <=> i \in 1 .. Len(lh) /\ tail < i
        BY <2>1
      <4> QED
        BY <2>1, <2>3, <4>1 DEF CrashInv, PinInv
    <3> QED
      BY <2>2, <2>3, <3>1 DEF PinnedUntilInstalled, Installing
  <2>4. CASE ~Installing
    <3>1. dirty = {lh[i] : i \in 1 .. Len(lh)}
      BY <2>1, <2>4 DEF CrashInv, PinInv
    <3> QED
      BY <2>2, <2>4, <3>1 DEF PinnedUntilInstalled, Installing
  <2> QED
    BY <2>3, <2>4
<1> QED
  BY <1>1, LogInvariant, CrashAlways, PTL

-----------------------------------------------------------------------------
(* The log implements the atomic disk. *)

\* What a recovery would leave: the log block of an entry of the header, else the home
\* block.  (An entry is there once, so the last of install_trans()'s writes is the only.)
RecoveredOK ==
  /\ Recovered \in [Blocks -> Vals]
  /\ \A i \in 1 .. Len(dhead) : Recovered[dhead[i]] = slot[i]
  /\ \A b \in Blocks : (\A i \in 1 .. Len(dhead) : dhead[i] # b) => Recovered[b] = home[b]

\* An entry of the header names one log block, the one recovery installs last.
LEMMA RecoveredView ==
  ASSUME ReservationOK
  PROVE  IndInv /\ CrashInv => RecoveredOK
<1> SUFFICES ASSUME IndInv, CrashInv PROVE RecoveredOK
  OBVIOUS
<1> DEFINE Last(i, b) == dhead[i] = b /\ \A j \in (i + 1) .. Len(dhead) : dhead[j] # b
<1>1. /\ home \in [Blocks -> Vals] /\ slot \in [SlotIdx -> Vals] /\ Distinct(dhead)
      /\ Len(dhead) \in Nat /\ \A i \in 1 .. Len(dhead) : i \in SlotIdx /\ dhead[i] \in Blocks
  BY LogFits DEF IndInv, TypeOK, CrashInv, DistinctInv
<1>2. \A i \in 1 .. Len(dhead) : Last(i, dhead[i]) /\ \A k \in 1 .. Len(dhead) : Last(k, dhead[i]) => k = i
  BY <1>1 DEF Distinct
<1>3. ASSUME NEW i \in 1 .. Len(dhead)
      PROVE  Recovered[dhead[i]] = slot[i]
  <2>1. dhead[i] \in Blocks /\ dhead[i] \in Entries(dhead)
    BY <1>1 DEF Entries
  <2>2. (CHOOSE k \in 1 .. Len(dhead) : Last(k, dhead[i])) = i
    BY <1>2
  <2> QED
    BY <2>1, <2>2 DEF Recovered
<1>4. ASSUME NEW b \in Blocks, \A i \in 1 .. Len(dhead) : dhead[i] # b
      PROVE  Recovered[b] = home[b]
  <2>1. b \notin Entries(dhead)
    BY <1>4 DEF Entries
  <2> QED
    BY <2>1 DEF Recovered
<1>5. ASSUME NEW b \in Blocks
      PROVE  Recovered[b] \in Vals
  <2>1. CASE \E i \in 1 .. Len(dhead) : dhead[i] = b
    BY <1>1, <1>3, <2>1
  <2>2. CASE \A i \in 1 .. Len(dhead) : dhead[i] # b
    BY <1>1, <1>4, <2>2
  <2> QED
    BY <2>1, <2>2
<1>6. Recovered \in [Blocks -> Vals]
  BY <1>5 DEF Recovered
<1> QED
  BY <1>3, <1>4, <1>6 DEF RecoveredOK

\* With no header on the disk a recovery leaves the home blocks; while there is one, the
\* blocks of the file system that are installed are those it would install.
LEMMA RecoveredHome ==
  ASSUME IndInv, RecoveredOK, dhead = << >>
  PROVE  Recovered = home
  BY DEF RecoveredOK, IndInv, TypeOK

\* Once all of a transaction is installed, the home blocks are what it committed.
LEMMA RecoveredInstalled ==
  ASSUME IndInv, RecoveredOK, lh = dhead, Installed(Len(lh))
  PROVE  Recovered = home
<1>1. home \in [Blocks -> Vals] /\ Recovered \in [Blocks -> Vals]
  BY DEF RecoveredOK, IndInv, TypeOK
<1>2. ASSUME NEW b \in Blocks
      PROVE  Recovered[b] = home[b]
  <2>1. CASE \E i \in 1 .. Len(dhead) : dhead[i] = b
    BY <2>1 DEF RecoveredOK, Installed
  <2>2. CASE \A i \in 1 .. Len(dhead) : dhead[i] # b
    BY <2>2 DEF RecoveredOK
  <2> QED
    BY <2>1, <2>2
<1> QED
  BY <1>1, <1>2

\* Installing a block of the transaction does not change what a recovery would leave,
\* however often it is begun again.
LEMMA InstallKeeps ==
  ASSUME IndInv, ReservationOK, CrashInv, RecoveredOK, RecoveredOK', lh = dhead,
         InstallBlock, tail < Len(lh), Installed(tail)
  PROVE  Recovered' = Recovered
<1>1. UNCHANGED <<slot, dhead>>
  BY DEF InstallBlock
<1>2. \A b \in Blocks : b # lh[tail + 1] => home'[b] = home[b]
  BY InstallEffect
<1>3. tail + 1 \in 1 .. Len(lh)
  BY DEF IndInv, TypeOK
<1>4. ASSUME NEW b \in Blocks
      PROVE  Recovered'[b] = Recovered[b]
  <2>1. CASE \E i \in 1 .. Len(dhead) : dhead[i] = b
    BY <1>1, <2>1 DEF RecoveredOK
  <2>2. CASE \A i \in 1 .. Len(dhead) : dhead[i] # b
    BY <1>1, <1>2, <1>3, <2>2 DEF RecoveredOK
  <2> QED
    BY <2>1, <2>2
<1> QED
  BY <1>4 DEF RecoveredOK

\* write_head() is the commit point: the disk it leaves recovers to the cache.
LEMMA CommitPoint ==
  ASSUME IndInv, CrashInv, RecoveredOK', NEW p \in Procs, WriteHead(p)
  PROVE  Recovered' = cache /\ InOp = {} /\ boot = "up"
<1>1. boot = "up" /\ ~Installing /\ Held = {} /\ InOp = {}
  BY CommitterFacts DEF WriteHead, CommitPc
<1>2. UNCHANGED <<home, slot>> /\ dhead' = lh /\ cache \in [Blocks -> Vals] /\ Copied(Len(lh))
  BY DEF WriteHead, IndInv, TypeOK, CrashInv, SlotInv
<1>3. ASSUME NEW b \in Blocks
      PROVE  Recovered'[b] = cache[b]
  <2>1. CASE \E i \in 1 .. Len(lh) : lh[i] = b
    BY <1>2, <2>1 DEF RecoveredOK, Copied
  <2>2. CASE \A i \in 1 .. Len(lh) : lh[i] # b
    <3>1. cache[b] = home[b]
      BY <1>1, <2>2 DEF CrashInv, PinInv
    <3> QED
      BY <1>2, <2>2, <3>1 DEF RecoveredOK
  <2> QED
    BY <2>1, <2>2
<1> QED
  BY <1>1, <1>2, <1>3 DEF RecoveredOK

\* The file system a running process sees.
Image == IF boot = "up" THEN cache ELSE Recovered

\* A step that changes neither the disk nor the cache, and is not the end of recovery, is
\* one that AtomicDisk sees only by who is inside an operation.
LEMMA SameView ==
  ASSUME UNCHANGED <<home, slot, dhead, cache, boot>>
  PROVE  Recovered' = Recovered /\ Image' = Image
  BY DEF Recovered, Image, Entries

\* The steps of operations.
LEMMA OpsRefine ==
  ASSUME IndInv, CrashInv, NEW p \in Procs,
         \/ BeginOpSleep(p) \/ BeginOpEnter(p) \/ LogWriteCheck(p) \/ LogWrite(p) \/ EndOp(p) \/ EndCommit(p)
  PROVE  [AD!ANext]_<<Recovered, Image, InOp>>
<1>1. UNCHANGED <<home, slot, dhead, cache, boot>>
  BY DEF BeginOpSleep, BeginOpEnter, LogWriteCheck, LogWrite, EndOp, EndCommit, disk, mem
<1>2. Recovered' = Recovered /\ Image' = Image
  BY <1>1, SameView
<1>3. TypeOK
  BY DEF IndInv
<1>4. CASE BeginOpSleep(p) \/ LogWriteCheck(p) \/ LogWrite(p)
  <2>1. InOp' = InOp
    BY <1>3, <1>4, InOpKept DEF BeginOpSleep, LogWriteCheck, LogWrite, OpPc, InOp
  <2> QED
    BY <1>2, <2>1
<1>5. CASE BeginOpEnter(p)
  <2>1. InOp' = InOp \cup {p} /\ p \notin InOp
    BY <1>3, <1>5 DEF BeginOpEnter, Goto, InOp, TypeOK, OpPc
  <2>2. AD!ABegin(p)
    BY <1>2, <2>1 DEF AD!ABegin, Image
  <2> QED
    BY <2>2 DEF AD!ANext
<1>6. CASE EndCommit(p)
  <2>1. WakeupThen(p, "idle") /\ p \notin InOp
    BY <1>6 DEF EndCommit, InOp, OpPc
  <2>2. InOp' = InOp
    BY <1>3, <2>1, InOpWakeup DEF OpPc
  <2> QED
    BY <1>2, <2>2
<1>7. CASE EndOp(p)
  <2>1. p \in InOp /\ committing = 0
    BY <1>7, NoCommitter DEF EndOp, InOp, OpPc
  <2>2. InOp' = InOp \ {p}
    <3>1. CASE WakeupThen(p, "idle")
      BY <1>3, <3>1, InOpWakeup DEF OpPc
    <3>2. CASE \E l \in CommitPc : Goto(p, l)
      BY <1>3, <3>2 DEF InOp, Goto, TypeOK, OpPc, CommitPc
    <3> QED
      BY <1>7, <2>1, <3>1, <3>2 DEF EndOp, CommitPc
  <2>3. AD!AEnd(p)
    BY <1>2, <2>1, <2>2 DEF AD!AEnd, Image
  <2> QED
    BY <2>3 DEF AD!ANext
<1> QED
  BY <1>4, <1>5, <1>6, <1>7

\* The steps of the commit, and a crash.
LEMMA CommitRefines ==
  ASSUME IndInv, ReservationOK, CrashInv, RecoveredOK, RecoveredOK', NEW p \in Procs,
         WriteLog(p) \/ WriteHead(p) \/ InstallTrans(p) \/ CommitClear(p)
  PROVE  [AD!ANext]_<<Recovered, Image, InOp>>
<1>1. boot = "up" /\ boot' = "up" /\ InOp = {}
  BY CommitterFacts DEF WriteLog, WriteHead, InstallTrans, CommitClear, CommitPc
<1>2. InOp' = {}
  <2>1. \A q \in Procs : pc[q] \notin OpPc
    BY <1>1 DEF InOp
  <2>2. pc' = pc \/ \E l \in CommitPc : Goto(p, l)
    BY DEF WriteLog, WriteHead, InstallTrans, CommitClear, CommitPc
  <2> QED
    BY <2>1, <2>2 DEF Goto, InOp, OpPc, CommitPc, IndInv, TypeOK
<1>3. CASE WriteLog(p)
  <2>1. dhead = << >> /\ dhead' = << >> /\ home' = home /\ cache' = cache
    <3>1. ~Installing
      BY <1>3, CommitterFacts DEF WriteLog, CommitPc
    <3> QED
      BY <1>1, <1>3, <3>1 DEF WriteLog, CrashInv, HeadInv
  <2>2. Recovered' = Recovered
    BY <2>1 DEF Recovered, Entries
  <2> QED
    BY <1>1, <1>2, <2>1, <2>2 DEF Image
<1>4. CASE WriteHead(p)
  <2>1. Recovered' = cache /\ cache' = cache
    BY <1>4, CommitPoint DEF WriteHead
  <2>2. AD!ACommit
    BY <1>1, <1>2, <2>1 DEF AD!ACommit
  <2> QED
    BY <2>2 DEF AD!ANext
<1>5. CASE InstallTrans(p)
  <2>1. cache' = cache
    BY <1>5, InstallCrash
  <2>2. /\ InstallBlock /\ tail < Len(lh) /\ Installed(tail) /\ lh = dhead
    <3>1. Installing
      BY <1>5, CommitterFacts DEF InstallTrans, CommitPc
    <3> QED
      BY <1>1, <1>5, <3>1 DEF InstallTrans, IndInv, ControlInv, CrashInv, SlotInv, HeadInv
  <2>3. Recovered' = Recovered
    BY <2>2, InstallKeeps
  <2> QED
    BY <1>1, <1>2, <2>1, <2>3 DEF Image
<1>6. CASE CommitClear(p)
  <2>1. UNCHANGED <<home, cache>> /\ dhead' = << >> /\ lh = dhead /\ Installed(Len(lh))
    <3>1. Installing
      BY <1>6, CommitterFacts DEF CommitClear, CommitPc
    <3> QED
      BY <1>1, <1>6, <3>1 DEF CommitClear, EraseLog, CrashInv, SlotInv, HeadInv
  <2>2. Recovered' = home'
    BY <2>1 DEF Recovered, Entries, IndInv, TypeOK
  <2>3. Recovered' = Recovered
    BY <2>1, <2>2, RecoveredInstalled
  <2> QED
    BY <1>1, <1>2, <2>1, <2>3 DEF Image
<1> QED
  BY <1>3, <1>4, <1>5, <1>6

\* A crash loses what is not durable; recover_from_log(), however far it got before the
\* next crash, changes nothing that is.
LEMMA RebootRefines ==
  ASSUME IndInv, ReservationOK, CrashInv, RecoveredOK, RecoveredOK',
         Crash \/ ReadHead \/ RecoverInstall \/ RecoverClear
  PROVE  [AD!ANext]_<<Recovered, Image, InOp>>
<1>1. CASE Crash
  <2>1. Recovered' = Recovered
    BY <1>1 DEF Crash, disk, Recovered, Entries
  <2>2. boot' # "up" /\ InOp' = {}
    BY <1>1 DEF Crash, InOp, OpPc
  <2>3. AD!ACrash
    BY <2>1, <2>2 DEF AD!ACrash
  <2> QED
    BY <2>3 DEF AD!ANext
<1>2. CASE ReadHead \/ RecoverInstall \/ RecoverClear
  <2>1. boot # "up" /\ InOp' = InOp
    BY <1>2 DEF ReadHead, RecoverInstall, RecoverClear, InOp
  <2>2. Recovered' = Recovered /\ Image' = Recovered'
    <3>1. CASE ReadHead
      <4>1. boot' # "up"
        BY <3>1 DEF ReadHead
      <4> QED
        BY <3>1, <4>1 DEF ReadHead, disk, Recovered, Entries, Image
    <3>2. CASE RecoverInstall
      <4>1. boot' # "up" /\ InstallBlock
        BY <3>2 DEF RecoverInstall
      <4>2. lh = dhead /\ tail < Len(lh) /\ Installed(tail)
        BY <3>2 DEF RecoverInstall, IndInv, ControlInv, CrashInv, SlotInv, HeadInv
      <4>3. Recovered' = Recovered
        BY <4>1, <4>2, InstallKeeps
      <4> QED
        BY <4>1, <4>3 DEF Image
    <3>3. CASE RecoverClear
      <4>1. /\ UNCHANGED <<home, cache>> /\ dhead' = << >> /\ boot' = "up" /\ cache = home
            /\ lh = dhead /\ Installed(Len(lh))
        BY <2>1, <3>3 DEF RecoverClear, EraseLog, CrashInv, SlotInv, HeadInv, PinInv
      <4>2. Recovered' = home'
        BY <4>1 DEF Recovered, Entries, IndInv, TypeOK
      <4>3. Recovered' = Recovered
        BY <4>1, <4>2, RecoveredInstalled
      <4> QED
        BY <4>1, <4>2, <4>3 DEF Image
    <3> QED
      BY <1>2, <3>1, <3>2, <3>3
  <2> QED
    BY <2>1, <2>2 DEF Image
<1> QED
  BY <1>1, <1>2

\* The write-ahead log implements the atomic disk: wherever the machine stops, in the
\* commit or in the recovery of an earlier crash, recovery leaves the file system as it
\* was at a moment when no FS system call was half done, and never undoes a commit; for
\* every number of processes and blocks and every geometry with enough log space.
THEOREM LogIsAtomic ==
  ASSUME ReservationOK
  PROVE  Spec => CrashAtomic
<1>1. Init => AD!AInit
  <2> SUFFICES ASSUME Init PROVE AD!AInit
    OBVIOUS
  <2>1. Recovered = home
    BY DEF Init, Recovered, Entries
  <2>2. InOp = {}
    BY DEF Init, InOp, OpPc
  <2> QED
    BY <2>1, <2>2 DEF Init, AD!AInit
<1>2. IndInv /\ CrashInv /\ RecoveredOK /\ RecoveredOK' /\ [Next]_vars => [AD!ANext]_<<Recovered, Image, InOp>>
  <2> SUFFICES ASSUME IndInv, CrashInv, RecoveredOK, RecoveredOK', [Next]_vars
               PROVE  [AD!ANext]_<<Recovered, Image, InOp>>
    OBVIOUS
  <2>1. CASE UNCHANGED vars
    BY <2>1, SameView DEF vars, disk, mem, InOp
  <2>2. ASSUME NEW b \in Blocks, Recycle(b)
        PROVE  [AD!ANext]_<<Recovered, Image, InOp>>
    BY <2>1, <2>2, RecycleIsSafe
  <2>3. ASSUME NEW p \in Procs, NEW b \in Blocks, NEW v \in Vals, ModifyBlock(p, b, v)
        PROVE  [AD!ANext]_<<Recovered, Image, InOp>>
    <3>1. UNCHANGED <<home, slot, dhead, boot>> /\ boot = "up" /\ cache' = [cache EXCEPT ![b] = v] /\ p \in InOp
      BY <2>3 DEF ModifyBlock, disk, Running, InOp, OpPc
    <3>2. Recovered' = Recovered
      BY <3>1 DEF Recovered, Entries
    <3>3. InOp' = InOp
      BY <2>3, InOpKept DEF ModifyBlock, OpPc, IndInv
    <3>4. AD!AWrite(p, b, v)
      BY <3>1, <3>2, <3>3 DEF AD!AWrite
    <3> QED
      BY <3>4 DEF AD!ANext
  <2> QED
    BY <2>1, <2>2, <2>3, NextCases, OpsRefine, CommitRefines, RebootRefines
<1>3. IndInv /\ CrashInv => RecoveredOK
  BY RecoveredView
<1>4. [AD!ANext]_<<Recovered, Image, InOp>> => [AD!ANext]_(AD!avars)
  BY DEF AD!avars, Image
<1> QED
  BY <1>1, <1>2, <1>3, <1>4, LogInvariant, CrashAlways, PTL DEF Spec, CrashAtomic, AD!ASpec

=============================================================================
