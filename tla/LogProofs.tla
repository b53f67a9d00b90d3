------------------------------ MODULE LogProofs ------------------------------
(***************************************************************************)
(* Proofs about the log, for any number of processes, blocks and values and  *)
(* any size of the log: a step preserves TypeOK and ControlInv, then SpaceInv *)
(* (what the open calls have reserved fits in the log), then DiskInv (the     *)
(* relation between buffers, header, log and home blocks at each point of a   *)
(* commit and of recovery); what follows; and that the log implements         *)
(* AtomicDisk.                                                                *)
(***************************************************************************)
EXTENDS LogInv, FiniteSetTheorems, TLAPS

\* Steps that need arithmetic or the theory of functions cite SMT.
USE ZenonT(30)

\* The number of open operations is a number, and there is one when an operation
\* is open.
LEMMA InOpFinite ==
    /\ IsFiniteSet(InOp)
    /\ Cardinality(InOp) \in Nat /\ Cardinality(Procs) \in Nat
    /\ Cardinality(InOp) <= Cardinality(Procs)
    /\ Cardinality(InOp) = 0 <=> InOp = {}
<1>1. InOp \subseteq Procs
  BY DEF InOp
<1>2. IsFiniteSet(Procs)
  BY LogAssumption
<1> QED
  BY <1>1, <1>2, FS_Subset, FS_EmptySet, FS_CardinalityType

\* A list and its range.
LEMMA RangeType ==
    ASSUME NEW S, NEW s \in Seq(S)
    PROVE  /\ Range(s) \subseteq S
           /\ \A i \in 1..Len(s) : s[i] \in S /\ s[i] \in Range(s)
           /\ \A b \in Range(s) : \E i \in 1..Len(s) : s[i] = b
BY SMTT(30) DEF Range

\* log_write() adds one block to the header and drops none.
LEMMA RangeAppend ==
    ASSUME NEW S, NEW s \in Seq(S), NEW e \in S
    PROVE  Range(Append(s, e)) = Range(s) \cup {e}
<1> DEFINE t == Append(s, e)
<1>1. /\ t \in Seq(S) /\ Len(t) = Len(s) + 1 /\ Len(s) \in Nat
      /\ t[Len(s) + 1] = e /\ \A i \in 1..Len(s) : t[i] = s[i]
  BY SMTT(30)
<1> HIDE DEF t
<1>2. Range(t) \subseteq Range(s) \cup {e}
  <2> SUFFICES ASSUME NEW b \in Range(t) PROVE b \in Range(s) \cup {e}
    OBVIOUS
  <2>1. PICK i \in 1..(Len(s) + 1) : t[i] = b
    BY <1>1, RangeType
  <2>2. i \in 1..Len(s) \/ i = Len(s) + 1
    BY SMTT(30), <1>1
  <2> QED
    BY <1>1, <2>1, <2>2, RangeType
<1>3. Range(s) \cup {e} \subseteq Range(t)
  <2>1. Len(s) + 1 \in 1..Len(t)
    BY SMTT(30), <1>1
  <2>2. e \in Range(t)
    BY <1>1, <2>1, RangeType
  <2>3. ASSUME NEW b \in Range(s) PROVE b \in Range(t)
    <3>1. PICK i \in 1..Len(s) : s[i] = b
      BY RangeType
    <3>2. i \in 1..Len(t) /\ t[i] = b
      BY SMTT(30), <1>1, <3>1
    <3> QED
      BY <1>1, <3>2, RangeType
  <2> QED
    BY <2>2, <2>3
<1> QED
  BY <1>2, <1>3 DEF t

\* While an operation is open nobody commits.
LEMMA OpenFacts ==
    ASSUME IInv, NEW p \in InOp
    PROVE  /\ p \in Procs /\ outstanding \in Nat /\ outstanding >= 1
           /\ outstanding = Cardinality(InOp)
           /\ ~committing /\ boot = "up" /\ eph = {}
           /\ \A q \in Procs : pc[q] \notin CommitPCs
<1>1. p \in Procs /\ pc[p] # "idle"
  BY DEF InOp
<1>2. outstanding = Cardinality(InOp) /\ ~committing /\ eph = {}
  BY DEF IInv, ControlInv
<1>3. boot = "up"
  BY <1>1 DEF IInv, ControlInv
<1>4. \A q \in Procs : pc[q] \notin CommitPCs
  BY <1>2 DEF IInv, ControlInv
<1> QED
  BY SMTT(30), <1>1, <1>2, <1>3, <1>4, InOpFinite

\* A process in commit() is alone in the log.
LEMMA CommitFacts ==
    ASSUME IInv, NEW p \in Procs, pc[p] \in CommitPCs
    PROVE  /\ committing /\ boot = "up" /\ InOp = {} /\ outstanding = 0
           /\ CommitInv(p) /\ UpInv
           /\ \A q \in Procs : pc[q] \in CommitPCs => q = p
           /\ \A b \in Blocks : ~Held(b)
<1>1. committing /\ InOp = {} /\ outstanding = Cardinality(InOp)
  BY DEF IInv, ControlInv
<1>2. boot = "up"
  BY DEF IInv, ControlInv, CommitPCs
<1>3. CommitInv(p) /\ UpInv
  BY <1>2 DEF IInv, DiskInv, UpInv
<1>4. \A q \in Procs : pc[q] \in CommitPCs => q = p
  BY DEF IInv, ControlInv
<1>5. \A q \in Procs : hold[q] = None
  <2>1. \A q \in Procs : pc[q] \notin HoldPCs
    BY <1>1 DEF InOp, HoldPCs
  <2> QED
    BY <2>1 DEF IInv, ControlInv
<1>6. \A b \in Blocks : ~Held(b)
  BY <1>5, LogAssumption DEF Held
<1> QED
  BY <1>1, <1>2, <1>3, <1>4, <1>6, FS_EmptySet

\* The lists fit in the log area.
LEMMA LogFits ==
    ASSUME Disciplined, IInv
    PROVE  /\ lh \in Seq(Blocks) /\ dhead \in Seq(Blocks)
           /\ Len(lh) \in Nat /\ Len(dhead) \in Nat
           /\ 1..Len(lh) \subseteq Slots /\ 1..Len(dhead) \subseteq Slots
<1>1. lh \in Seq(Blocks) /\ dhead \in Seq(Blocks)
  BY DEF IInv, TypeOK
<1>2. Len(lh) + 2 <= LOGSIZE /\ Len(dhead) + 2 <= LOGSIZE
  BY DEF IInv, SpaceInv
<1> QED
  BY SMTT(30), <1>1, <1>2, LogAssumption DEF Slots, Disciplined

\* One turn of install_trans() copies one log block.
LEMMA InstallType ==
    ASSUME Disciplined, IInv, tail < Len(lh), InstallBlock
    PROVE  /\ tail \in Nat /\ tail + 1 \in 1..Len(lh) /\ lh[tail + 1] \in Blocks
           /\ home' \in [Blocks -> Vals] /\ cache' \in [Blocks -> Vals]
           /\ dirty' \subseteq Blocks /\ tail' \in Nat /\ dlog' = dlog /\ dhead' = dhead
<1>1. /\ tail \in Nat /\ home \in [Blocks -> Vals] /\ cache \in [Blocks -> Vals]
      /\ dirty \subseteq Blocks /\ dlog \in [Slots -> Vals]
  BY DEF IInv, TypeOK
<1>2. tail + 1 \in 1..Len(lh)
  BY SMTT(30), <1>1, LogFits
<1>3. lh[tail + 1] \in Blocks /\ tail + 1 \in Slots
  BY <1>2, LogFits, RangeType
<1> QED
  BY SMTT(30), <1>1, <1>2, <1>3 DEF InstallBlock, Unpin

\* Types are preserved.
LEMMA TypeStep ==
    ASSUME Disciplined, IInv, [Next]_vars
    PROVE  TypeOK'
<1>0. TypeOK
  BY DEF IInv
<1>1. ASSUME NEW p \in Procs, StartOp(p) \/ BeginOpSleep(p) \/ Killed(p)
      PROVE  TypeOK'
  BY <1>0, <1>1 DEF TypeOK, PCs, StartOp, BeginOpSleep, Killed, logVars, bufVars, diskVars
<1>2. ASSUME NEW p \in Procs, BeginOpEnter(p)
      PROVE  TypeOK'
  <2>1. p \notin InOp
    BY <1>2 DEF BeginOpEnter, InOp
  <2>2. Cardinality(InOp \cup {p}) = Cardinality(InOp) + 1
    BY <2>1, InOpFinite, FS_AddElement
  <2>3. Cardinality(InOp \cup {p}) <= Cardinality(Procs)
    BY LogAssumption, FS_Subset DEF InOp
  <2>4. outstanding = Cardinality(InOp)
    BY DEF IInv, ControlInv
  <2>5. outstanding + 1 \in 0..Cardinality(Procs)
    BY SMTT(30), <2>2, <2>3, <2>4, InOpFinite
  <2> QED
    BY <1>0, <1>2, <2>5 DEF TypeOK, PCs, BeginOpEnter, Admit, bufVars, diskVars
<1>3. ASSUME NEW p \in Procs, NEW b \in Blocks, NEW v \in Vals, Modify(p, b, v)
      PROVE  TypeOK'
  BY <1>0, <1>3 DEF TypeOK, PCs, Modify, logVars, diskVars
<1>4. ASSUME NEW p \in Procs, LogWrite(p)
      PROVE  TypeOK'
  <2>1. p \in InOp
    BY <1>4 DEF LogWrite, InOp
  <2>2. ~(outstanding < 1)
    BY SMTT(30), <2>1, OpenFacts
  <2> QED
    BY <1>0, <1>4, <2>2 DEF TypeOK, PCs, LogWrite, logVars, bufVars, diskVars
<1>5. ASSUME NEW p \in Procs, LogWriteCheck(p)
      PROVE  TypeOK'
  BY <1>0, <1>5 DEF TypeOK, PCs, Panics, LogWriteCheck, logVars, bufVars, diskVars
<1>6. ASSUME NEW p \in Procs, LogAppend(p)
      PROVE  TypeOK'
  <2>1. hold[p] \in Blocks
    <3>1. hold[p] # None
      BY <1>6 DEF LogAppend, IInv, ControlInv, HoldPCs
    <3> QED
      BY <1>0, <3>1 DEF TypeOK
  <2>2. lh' \in Seq(Blocks)
    BY SMTT(30), <1>0, <1>6, <2>1 DEF TypeOK, LogAppend
  <2> QED
    BY <1>0, <1>6, <2>1, <2>2 DEF TypeOK, PCs, LogAppend, Pin, diskVars
<1>7. ASSUME NEW p \in Procs, Brelse(p)
      PROVE  TypeOK'
  BY <1>0, <1>7 DEF TypeOK, PCs, Brelse, logVars, bufVars, diskVars
<1>8. ASSUME NEW b \in Blocks, Evict(b)
      PROVE  TypeOK'
  BY <1>0, <1>8 DEF TypeOK, Evict, procVars, logVars, diskVars
<1>9. ASSUME NEW p \in Procs, EndOp(p)
      PROVE  TypeOK'
  <2>1. p \in InOp
    BY <1>9 DEF EndOp, InOp
  <2>2. outstanding - 1 \in 0..Cardinality(Procs)
    BY SMTT(30), <2>1, OpenFacts, InOpFinite
  <2>3. pc' \in [Procs -> PCs] /\ committing' \in BOOLEAN
    <3>1. CASE LastOp
      BY <1>0, <1>9, <3>1 DEF TypeOK, PCs, EndOp
    <3>2. CASE ~LastOp
      BY <1>0, <1>9, <3>2 DEF TypeOK, PCs, EndOp, Wakeup, Return
    <3> QED
      BY <3>1, <3>2
  <2>4. panic' \in Panics
    BY <1>0, <1>9 DEF TypeOK, Panics, EndOp
  <2> QED
    BY <1>0, <1>9, <2>2, <2>3, <2>4 DEF TypeOK, EndOp, bufVars, diskVars
<1>10. ASSUME NEW p \in Procs, WriteLog(p)
       PROVE  TypeOK'
  <2>1. pc[p] \in CommitPCs /\ pc[p] = "wlog"
    BY <1>10 DEF WriteLog, CommitPCs
  <2>2. tail < Len(lh)
    BY <2>1, CommitFacts DEF CommitInv
  <2>3. tail \in Nat /\ tail + 1 \in 1..Len(lh)
    BY SMTT(30), <1>0, <2>2, LogFits DEF TypeOK
  <2>4. lh[tail + 1] \in Blocks
    BY <2>3, LogFits, RangeType
  <2>5. dlog' \in [Slots -> Vals] /\ pc' \in [Procs -> PCs] /\ tail' \in Nat
    <3>1. dlog \in [Slots -> Vals] /\ cache[lh[tail + 1]] \in Vals
      BY <1>0, <2>4 DEF TypeOK
    <3>2. dlog' = [dlog EXCEPT ![tail + 1] = cache[lh[tail + 1]]] /\ tail' = tail + 1
      BY <1>10 DEF WriteLog
    <3>3. pc' \in [Procs -> PCs]
      BY <1>0, <1>10 DEF TypeOK, PCs, WriteLog
    <3>4. dlog' \in [Slots -> Vals]
      BY <3>1, <3>2
    <3>5. tail' \in Nat
      BY SMTT(30), <2>3, <3>2
    <3> QED
      BY <3>3, <3>4, <3>5
  <2> QED
    BY <1>0, <1>10, <2>5 DEF TypeOK, WriteLog, logVars, bufVars
<1>11. ASSUME NEW p \in Procs, WriteHead(p) \/ ClearHeader(p) \/ CommitDone(p)
       PROVE  TypeOK'
  <2>1. CASE WriteHead(p)
    BY <1>0, <2>1 DEF TypeOK, PCs, WriteHead, logVars, bufVars
  <2>2. CASE ClearHeader(p)
    BY SMTT(30), <1>0, <2>2 DEF TypeOK, PCs, ClearHeader, bufVars, diskVars
  <2>3. CASE CommitDone(p)
    <3>1. pc' \in [Procs -> PCs]
      BY <1>0, <2>3 DEF TypeOK, PCs, CommitDone, Wakeup, Return
    <3> QED
      BY <1>0, <2>3, <3>1 DEF TypeOK, CommitDone, bufVars, diskVars
  <2> QED
    BY <1>11, <2>1, <2>2, <2>3
<1>12. ASSUME NEW p \in Procs, InstallTrans(p)
       PROVE  TypeOK'
  <2>1. pc[p] \in CommitPCs /\ pc[p] = "install"
    BY <1>12 DEF InstallTrans, CommitPCs
  <2>2. tail < Len(lh) /\ InstallBlock
    BY <1>12, <2>1, CommitFacts DEF CommitInv, InstallTrans
  <2> QED
    BY <1>0, <1>12, <2>2, InstallType DEF TypeOK, PCs, InstallTrans, logVars
<1>13. ASSUME NEW p \in Procs, LogSync(p)
       PROVE  TypeOK'
  <2>1. CASE lh = <<>>
    BY <1>0, <1>13, <2>1 DEF TypeOK, PCs, LogSync, logVars, bufVars
  <2>2. CASE lh # <<>>
    <3>1. 1 \in 1..Len(lh)
      BY SMTT(30), <2>2, LogFits
    <3>2. cache[lh[1]] \in Vals
      BY <1>0, <3>1, LogFits, RangeType DEF TypeOK
    <3> QED
      BY <1>0, <1>13, <2>2, <3>2 DEF TypeOK, PCs, Panics, LogSync, logVars, bufVars
  <2> QED
    BY <2>1, <2>2
<1>14. ASSUME NEW p \in Procs, BSync(p)
       PROVE  TypeOK'
  BY <1>0, <1>14 DEF TypeOK, PCs, Panics, BSync, logVars, bufVars, diskVars
<1>15. CASE ReadHead
  BY <1>0, <1>15 DEF TypeOK, ReadHead, procVars, bufVars, diskVars
<1>16. CASE RecoverBlock
  <2>1. tail < Len(lh) /\ InstallBlock
    BY <1>16 DEF RecoverBlock, IInv, DiskInv, BootInv
  <2> QED
    BY <1>0, <1>16, <2>1, InstallType DEF TypeOK, RecoverBlock, procVars, logVars
<1>17. CASE RecoverClear
  BY SMTT(30), <1>0, <1>17 DEF TypeOK, RecoverClear, procVars, bufVars
<1>18. CASE Crash
  <2>1. /\ pc' \in [Procs -> PCs] /\ hold' \in [Procs -> Blocks \cup {None}]
        /\ wrote' \in [Procs -> SUBSET Blocks] /\ eph' \subseteq Outside
    BY <1>18 DEF PCs, Crash
  <2>2. /\ lh' \in Seq(Blocks) /\ dhead' \in Seq(Blocks) /\ dirty' \subseteq Blocks
        /\ cache' \in [Blocks -> Vals] /\ home' \in [Blocks -> Vals]
        /\ dlog' \in [Slots -> Vals]
    BY SMTT(30), <1>0, <1>18 DEF TypeOK, Crash, diskVars
  <2>3. outstanding' \in 0..Cardinality(Procs) /\ committing' \in BOOLEAN /\ tail' \in Nat
    <3>1. outstanding' = 0 /\ committing' = FALSE /\ tail' = 0
      BY <1>18 DEF Crash
    <3>2. Cardinality(Procs) \in Nat
      BY InOpFinite
    <3>3. outstanding' \in 0..Cardinality(Procs) /\ tail' \in Nat
      BY SMTT(30), <3>1, <3>2
    <3> QED
      BY <3>1, <3>3
  <2>4. boot' \in {"off", "install", "clear", "up"} /\ panic' \in Panics
    BY <1>18 DEF Crash, Panics
  <2> QED
    BY <2>1, <2>2, <2>3, <2>4 DEF TypeOK
<1>19. CASE UNCHANGED vars
  BY <1>0, <1>19 DEF TypeOK, vars, procVars, logVars, bufVars, diskVars
<1> QED
  BY <1>1, <1>2, <1>3, <1>4, <1>5, <1>6, <1>7, <1>8, <1>9, <1>10, <1>11, <1>12, <1>13,
     <1>14, <1>15, <1>16, <1>17, <1>18, <1>19
     DEF Next, Up, Recover, Step, BeginOp, LogWriteSteps, Commit, Sync

\* A step that moves one process between two points of the same kind, outside
\* commit(), keeps the control invariant.
LEMMA ControlMove ==
    ASSUME IInv, NEW p \in Procs, NEW l,
           pc' = [pc EXCEPT ![p] = l], l \notin CommitPCs,
           p \in InOp <=> p \in InOp',
           (hold'[p] # None) <=> (l \in HoldPCs),
           \A q \in Procs : q # p => hold'[q] = hold[q],
           \A q \in Procs : q # p => wrote'[q] = wrote[q],
           p \notin InOp => wrote'[p] = {},
           eph' = {}, outstanding' = outstanding, committing' = committing,
           boot = "up", boot' = "up",
           InOp = {} => lh' = lh
    PROVE  ControlInv'
<1>1. pc \in [Procs -> PCs] /\ ControlInv
  BY DEF IInv, TypeOK
<1>2. \A q \in Procs : q # p => pc'[q] = pc[q]
  BY <1>1
<1>3. pc'[p] = l
  BY <1>1
<1>4. InOp' = InOp
  BY <1>2 DEF InOp
<1>5. /\ outstanding' = Cardinality(InOp')
      /\ committing' => InOp' = {}
  BY <1>1, <1>4 DEF ControlInv
<1>6. /\ \A q \in Procs : pc'[q] \in CommitPCs => committing'
      /\ \A q, r \in Procs : pc'[q] \in CommitPCs /\ pc'[r] \in CommitPCs => q = r
  BY SMTT(30), <1>1, <1>2, <1>3 DEF ControlInv
<1>7. \A q \in Procs : (hold'[q] # None) <=> (pc'[q] \in HoldPCs)
  BY <1>1, <1>2, <1>3 DEF ControlInv
<1>8. \A q \in Procs : q \notin InOp' => wrote'[q] = {}
  BY <1>1, <1>4 DEF ControlInv
<1>9. boot' = "up" /\ ~committing' /\ InOp' = {} => lh' = <<>>
  BY <1>1, <1>4 DEF ControlInv
<1> QED
  BY <1>5, <1>6, <1>7, <1>8, <1>9 DEF ControlInv

\* Control is preserved.
LEMMA ControlStep ==
    ASSUME Disciplined, IInv, TypeOK', [Next]_vars
    PROVE  ControlInv'
<1>0. TypeOK /\ ControlInv /\ Outside = {} /\ eph = {}
  BY DEF IInv, Disciplined, ControlInv
<1>1. ASSUME NEW p \in Procs, boot = "up", StartOp(p) \/ BeginOpSleep(p) \/ Killed(p)
      PROVE  ControlInv'
  <2>1. PICK l \in {"begin", "asleep"} : pc' = [pc EXCEPT ![p] = l]
    BY <1>1 DEF StartOp, BeginOpSleep, Killed
  <2>2. p \notin InOp /\ p \notin InOp' /\ pc[p] \notin HoldPCs
    BY <1>0, <1>1, <2>1 DEF InOp, HoldPCs, TypeOK, StartOp, BeginOpSleep, Killed
  <2>3. hold[p] = None /\ wrote[p] = {}
    BY <1>0, <2>2 DEF ControlInv
  <2>4. UNCHANGED <<hold, wrote, eph, lh, outstanding, committing, boot>>
    BY <1>1 DEF StartOp, BeginOpSleep, Killed, logVars
  <2> QED
    BY <1>0, <1>1, <2>1, <2>2, <2>3, <2>4, ControlMove DEF CommitPCs, HoldPCs
<1>2. ASSUME NEW p \in Procs, boot = "up", BeginOpEnter(p)
      PROVE  ControlInv'
  <2>1. /\ pc[p] = "begin" /\ pc' = [pc EXCEPT ![p] = "op"]
        /\ outstanding' = outstanding + 1 /\ ~committing /\ boot' = "up"
        /\ UNCHANGED <<hold, wrote, eph, committing>>
    BY <1>0, <1>2 DEF BeginOpEnter, Admit, MustWait
  <2>2. p \notin InOp /\ InOp' = InOp \cup {p}
    BY SMTT(30), <1>0, <2>1 DEF InOp, TypeOK
  <2>3. Cardinality(InOp') = Cardinality(InOp) + 1
    BY <2>2, InOpFinite, FS_AddElement
  <2>4. \A q \in Procs : pc'[q] \notin CommitPCs
    BY <1>0, <2>1 DEF ControlInv, CommitPCs, TypeOK
  <2>5. \A q \in Procs : (hold'[q] # None) <=> (pc'[q] \in HoldPCs)
    BY <1>0, <2>1 DEF ControlInv, HoldPCs, TypeOK
  <2>6. \A q \in Procs : q \notin InOp' => wrote'[q] = {}
    BY <1>0, <2>1, <2>2 DEF ControlInv
  <2>7. outstanding' = Cardinality(InOp')
    BY <1>0, <2>1, <2>3 DEF ControlInv
  <2> QED
    BY <1>0, <2>1, <2>2, <2>4, <2>5, <2>6, <2>7 DEF ControlInv
<1>3. ASSUME NEW p \in Procs, NEW b \in Blocks, NEW v \in Vals, boot = "up",
             Modify(p, b, v)
      PROVE  ControlInv'
  <2>1. /\ pc[p] = "op" /\ pc' = [pc EXCEPT ![p] = "buf"]
        /\ hold' = [hold EXCEPT ![p] = b]
        /\ UNCHANGED <<wrote, eph, lh, outstanding, committing, boot>>
    BY <1>0, <1>3 DEF Modify, logVars
  <2>2. p \in InOp /\ p \in InOp'
    BY <1>0, <2>1 DEF InOp, TypeOK
  <2>3. hold'[p] = b /\ b # None /\ \A q \in Procs : q # p => hold'[q] = hold[q]
    BY <1>0, <2>1, LogAssumption DEF TypeOK
  <2> QED
    BY <1>0, <1>3, <2>1, <2>2, <2>3, ControlMove DEF CommitPCs, HoldPCs
<1>4. ASSUME NEW p \in Procs, boot = "up", LogWrite(p) \/ LogWriteCheck(p)
      PROVE  ControlInv'
  <2>1. pc[p] \in {"buf", "check"} /\ p \in InOp
    BY <1>4 DEF LogWrite, LogWriteCheck, InOp
  <2>2. ~(outstanding < 1)
    BY SMTT(30), <2>1, OpenFacts
  <2>3. PICK l \in {"check", "append"} : pc' = [pc EXCEPT ![p] = l]
    <3>1. CASE LogWrite(p)
      BY <2>2, <3>1 DEF LogWrite
    <3>2. CASE LogWriteCheck(p) /\ pc' = pc
      BY <1>0, <3>2 DEF LogWriteCheck, TypeOK
    <3>3. CASE LogWriteCheck(p) /\ pc' # pc
      BY <3>3 DEF LogWriteCheck
    <3> QED
      BY <1>4, <3>1, <3>2, <3>3
  <2>4. UNCHANGED <<hold, wrote, eph, lh, outstanding, committing, boot>>
    BY <1>4, <2>2 DEF LogWrite, LogWriteCheck, logVars
  <2>5. p \in InOp' /\ hold[p] # None
    BY <1>0, <2>1, <2>3 DEF InOp, TypeOK, ControlInv, HoldPCs
  <2> QED
    BY <1>0, <1>4, <2>1, <2>3, <2>4, <2>5, ControlMove DEF CommitPCs, HoldPCs
<1>5. ASSUME NEW p \in Procs, boot = "up", LogAppend(p)
      PROVE  ControlInv'
  <2>1. /\ pc[p] = "append" /\ pc' = [pc EXCEPT ![p] = "relse"]
        /\ wrote' = [wrote EXCEPT ![p] = @ \cup {hold[p]}]
        /\ UNCHANGED <<hold, eph, outstanding, committing, boot>>
    BY <1>0, <1>5 DEF LogAppend
  <2>2. p \in InOp /\ p \in InOp' /\ hold[p] # None
    BY <1>0, <2>1 DEF InOp, TypeOK, ControlInv, HoldPCs
  <2>3. \A q \in Procs : q # p => wrote'[q] = wrote[q]
    BY <1>0, <2>1 DEF TypeOK
  <2> QED
    BY <1>0, <1>5, <2>1, <2>2, <2>3, ControlMove DEF CommitPCs, HoldPCs
<1>6. ASSUME NEW p \in Procs, boot = "up", Brelse(p)
      PROVE  ControlInv'
  <2>1. /\ pc[p] = "relse" /\ pc' = [pc EXCEPT ![p] = "op"]
        /\ hold' = [hold EXCEPT ![p] = None] /\ eph' = {}
        /\ UNCHANGED <<wrote, lh, outstanding, committing, boot>>
    BY <1>0, <1>6 DEF Brelse, logVars
  <2>2. p \in InOp /\ p \in InOp'
    BY <1>0, <2>1 DEF InOp, TypeOK
  <2>3. hold'[p] = None /\ \A q \in Procs : q # p => hold'[q] = hold[q]
    BY <1>0, <2>1 DEF TypeOK
  <2> QED
    BY <1>0, <1>6, <2>1, <2>2, <2>3, ControlMove DEF CommitPCs, HoldPCs
<1>7. ASSUME NEW p \in Procs, boot = "up", LogSync(p) \/ BSync(p)
      PROVE  ControlInv'
  <2>1. pc[p] \in {"op", "bsync"}
    BY <1>7 DEF LogSync, BSync
  <2>2. PICK l \in {"op", "bsync", "end"} : pc' = [pc EXCEPT ![p] = l]
    <3>1. CASE pc' = pc
      BY <1>0, <2>1, <3>1 DEF TypeOK
    <3>2. CASE pc' # pc
      BY <1>7, <3>2 DEF LogSync, BSync
    <3> QED
      BY <3>1, <3>2
  <2>3. p \in InOp /\ p \in InOp' /\ hold[p] = None
    BY <1>0, <2>1, <2>2 DEF InOp, TypeOK, ControlInv, HoldPCs
  <2>4. UNCHANGED <<hold, wrote, eph, lh, outstanding, committing, boot>>
    BY <1>7 DEF LogSync, BSync, logVars
  <2> QED
    BY <1>0, <1>7, <2>2, <2>3, <2>4, ControlMove DEF CommitPCs, HoldPCs
<1>8. ASSUME NEW p \in Procs, EndOp(p)
      PROVE  ControlInv'
  <2>1. p \in InOp /\ pc[p] \in {"end", "op"}
    BY <1>8 DEF EndOp, InOp
  <2>2. /\ outstanding' = outstanding - 1 /\ wrote' = [wrote EXCEPT ![p] = {}]
        /\ UNCHANGED <<hold, eph, lh, boot>>
    BY <1>8 DEF EndOp
  <2>3. /\ outstanding \in Nat /\ outstanding = Cardinality(InOp) /\ ~committing
        /\ boot = "up" /\ \A q \in Procs : pc[q] \notin CommitPCs
    BY <2>1, OpenFacts
  <2>4. /\ pc'[p] \in {"idle", "wlog", "done"}
        /\ \A q \in Procs : q # p =>
              pc'[q] = pc[q] \/ (pc[q] = "asleep" /\ pc'[q] = "begin")
    <3>1. CASE LastOp
      BY <1>0, <1>8, <3>1 DEF EndOp, TypeOK
    <3>2. CASE ~LastOp
      BY <1>0, <1>8, <3>2 DEF EndOp, TypeOK, Wakeup, Return
    <3> QED
      BY <3>1, <3>2
  <2>5. InOp' = InOp \ {p}
    BY <2>1, <2>4 DEF InOp
  <2>6. Cardinality(InOp') = Cardinality(InOp) - 1
    BY <2>1, <2>5, InOpFinite, FS_RemoveElement
  <2>7. outstanding' = Cardinality(InOp')
    BY <2>2, <2>3, <2>6
  <2>8. \A q \in Procs : q # p => pc'[q] \notin CommitPCs
    BY <2>3, <2>4 DEF CommitPCs
  <2>9. committing' <=> LastOp
    BY SMTT(30), <1>8, <2>3 DEF EndOp
  <2>10. LastOp <=> InOp' = {}
    <3>1. IsFiniteSet(InOp')
      BY <2>5, InOpFinite, FS_Subset
    <3>2. Cardinality(InOp') = 0 <=> InOp' = {}
      BY <3>1, FS_EmptySet
    <3> QED
      BY SMTT(30), <2>2, <2>3, <2>7, <3>2 DEF LastOp
  <2>11. pc'[p] \in CommitPCs => committing'
    <3>1. CASE LastOp
      BY <2>9, <3>1
    <3>2. CASE ~LastOp
      BY <1>0, <1>8, <3>2 DEF EndOp, TypeOK, Wakeup, Return, CommitPCs
    <3> QED
      BY <3>1, <3>2
  <2>12. \A q \in Procs : (hold'[q] # None) <=> (pc'[q] \in HoldPCs)
    BY <1>0, <2>1, <2>2, <2>4 DEF ControlInv, HoldPCs
  <2>13. \A q \in Procs : q \notin InOp' => wrote'[q] = {}
    BY <1>0, <2>2, <2>5 DEF ControlInv, TypeOK
  <2> QED
    BY <1>0, <2>2, <2>3, <2>7, <2>8, <2>9, <2>10, <2>11, <2>12, <2>13 DEF ControlInv
<1>9. ASSUME NEW p \in Procs,
             WriteLog(p) \/ WriteHead(p) \/ InstallTrans(p) \/ ClearHeader(p)
      PROVE  ControlInv'
  <2>1. pc[p] \in CommitPCs
    BY <1>9 DEF WriteLog, WriteHead, InstallTrans, ClearHeader, CommitPCs
  <2>2. PICK l \in CommitPCs : pc' = [pc EXCEPT ![p] = l]
    BY <1>9 DEF WriteLog, WriteHead, InstallTrans, ClearHeader, CommitPCs
  <2>3. UNCHANGED <<hold, wrote, eph, outstanding, committing, boot>>
    BY <1>9 DEF WriteLog, WriteHead, InstallTrans, ClearHeader, logVars
  <2>4. committing /\ boot = "up" /\ \A q \in Procs : pc[q] \in CommitPCs => q = p
    BY <2>1, CommitFacts
  <2>5. pc'[p] = l /\ \A q \in Procs : q # p => pc'[q] = pc[q]
    BY <1>0, <2>2 DEF TypeOK
  <2>6. InOp' = InOp
    BY <2>1, <2>2, <2>5 DEF InOp, CommitPCs
  <2>7. \A q \in Procs : (hold'[q] # None) <=> (pc'[q] \in HoldPCs)
    BY <1>0, <2>1, <2>2, <2>3, <2>5 DEF ControlInv, HoldPCs, CommitPCs
  <2> QED
    BY SMTT(30), <1>0, <2>3, <2>4, <2>5, <2>6, <2>7 DEF ControlInv
<1>10. ASSUME NEW p \in Procs, CommitDone(p)
       PROVE  ControlInv'
  <2>1. pc[p] \in CommitPCs /\ pc[p] = "done"
    BY <1>10 DEF CommitDone, CommitPCs
  <2>2. /\ boot = "up" /\ InOp = {} /\ outstanding = 0 /\ lh = <<>>
        /\ \A q \in Procs : pc[q] \in CommitPCs => q = p
    BY <2>1, CommitFacts DEF CommitInv
  <2>3. committing' = FALSE /\ UNCHANGED <<hold, wrote, eph, lh, outstanding, boot>>
    BY <1>10 DEF CommitDone
  <2>4. /\ pc'[p] = "idle"
        /\ \A q \in Procs : q # p =>
              pc'[q] = pc[q] \/ (pc[q] = "asleep" /\ pc'[q] = "begin")
    BY <1>0, <1>10 DEF CommitDone, Wakeup, Return, TypeOK
  <2>5. InOp' = {}
    BY <2>2, <2>4 DEF InOp
  <2>6. \A q \in Procs : pc'[q] \notin CommitPCs
    BY <2>2, <2>4 DEF CommitPCs
  <2>7. \A q \in Procs : (hold'[q] # None) <=> (pc'[q] \in HoldPCs)
    BY <1>0, <2>1, <2>3, <2>4 DEF ControlInv, HoldPCs
  <2>8. outstanding' = Cardinality(InOp')
    BY <2>2, <2>3, <2>5, FS_EmptySet
  <2> QED
    BY <1>0, <2>2, <2>3, <2>5, <2>6, <2>7, <2>8 DEF ControlInv
<1>11. ASSUME UNCHANGED <<procVars, outstanding, committing>>,
              lh' = lh \/ lh' = <<>> \/ boot' # "up",
              boot' = "up" \/ boot # "up",
              boot' = "up" => boot = "up" \/ lh' = <<>>
       PROVE  ControlInv'
  <2>1. UNCHANGED <<pc, hold, wrote, eph, outstanding, committing>> /\ InOp' = InOp
    BY <1>11 DEF procVars, InOp
  <2> QED
    BY SMTT(30), <1>0, <1>11, <2>1 DEF ControlInv
<1>12. CASE Crash
  <2>1. \A p \in Procs : pc'[p] = "idle" /\ hold'[p] = None /\ wrote'[p] = {}
    BY <1>12 DEF Crash
  <2>2. InOp' = {}
    BY <2>1 DEF InOp
  <2>3. eph' = {} /\ outstanding' = 0 /\ committing' = FALSE /\ boot' = "off"
    BY <1>12 DEF Crash
  <2>4. \A p \in Procs : pc'[p] \notin CommitPCs /\ pc'[p] \notin HoldPCs
    BY <2>1 DEF CommitPCs, HoldPCs
  <2>5. outstanding' = Cardinality(InOp')
    BY <2>2, <2>3, FS_EmptySet
  <2> QED
    BY <2>1, <2>2, <2>3, <2>4, <2>5 DEF ControlInv
<1>13. CASE \E b \in Blocks : boot = "up" /\ Evict(b)
  BY <1>11, <1>13 DEF Evict, procVars, logVars
<1>14. CASE ReadHead
  <2>1. boot' # "up" /\ boot # "up"
    BY <1>14 DEF ReadHead
  <2> QED
    BY <1>11, <1>14, <2>1 DEF ReadHead
<1>15. CASE RecoverBlock
  <2>1. boot' # "up" /\ boot # "up"
    BY <1>15 DEF RecoverBlock
  <2> QED
    BY <1>11, <1>15, <2>1 DEF RecoverBlock, logVars
<1>16. CASE RecoverClear
  <2>1. boot' = "up" /\ boot # "up" /\ lh' = <<>>
    BY <1>16 DEF RecoverClear
  <2> QED
    BY <1>11, <1>16, <2>1 DEF RecoverClear
<1>17. CASE UNCHANGED vars
  <2>1. UNCHANGED <<procVars, outstanding, committing, lh, boot>>
    BY <1>17 DEF vars, logVars
  <2> QED
    BY <1>11, <2>1
<1> QED
  BY SMTT(30), <1>1, <1>2, <1>3, <1>4, <1>5, <1>6, <1>7, <1>8, <1>9, <1>10, <1>12, <1>13, <1>14,
     <1>15, <1>16, <1>17
     DEF Next, Up, Recover, Step, BeginOp, LogWriteSteps, Commit, Sync

-----------------------------------------------------------------------------
\* Each open operation has at most MAXOPBLOCKS free blocks.
LEMMA FreeFinite ==
    ASSUME IInv
    PROVE  /\ IsFiniteSet(Free) /\ Cardinality(Free) \in Nat
           /\ Cardinality(Free) <= outstanding * MAXOPBLOCKS
<1> DEFINE T == InOp \X (1..MAXOPBLOCKS)
<1>1. IsFiniteSet(1..MAXOPBLOCKS) /\ Cardinality(1..MAXOPBLOCKS) = MAXOPBLOCKS
  BY SMTT(30), FS_Interval, LogAssumption
<1>2. IsFiniteSet(T) /\ Cardinality(T) = Cardinality(InOp) * Cardinality(1..MAXOPBLOCKS)
  BY <1>1, InOpFinite, FS_Product
<1>3. Free \subseteq T
  BY DEF Free
<1>4. outstanding = Cardinality(InOp)
  BY DEF IInv, ControlInv
<1>5. IsFiniteSet(Free) /\ Cardinality(Free) <= Cardinality(T)
  BY <1>2, <1>3, FS_Subset
<1>6. Cardinality(T) = outstanding * MAXOPBLOCKS
  BY <1>1, <1>2, <1>4
<1> QED
  BY <1>5, <1>6, FS_CardinalityType

\* The number of blocks an operation has logged.
LEMMA WroteFinite ==
    ASSUME TypeOK, NEW p \in Procs
    PROVE  IsFiniteSet(wrote[p]) /\ Cardinality(wrote[p]) \in Nat
<1>1. wrote[p] \subseteq Blocks
  BY DEF TypeOK
<1> QED
  BY <1>1, LogAssumption, FS_Subset, FS_CardinalityType

\* A step that neither adds to the header nor opens an operation leaves enough room.
LEMMA SpaceKeep ==
    ASSUME IInv, TypeOK', lh' = lh, Len(dhead') + 2 <= LOGSIZE, InOp' \subseteq InOp,
           \A q \in InOp' : wrote'[q] = wrote[q],
           \A q \in Procs : pc'[q] \in {"buf", "check", "append"} =>
              \/ pc[q] \in {"buf", "check", "append"} /\ hold'[q] = hold[q]
              \/ hold'[q] \in wrote[q] \/ Cardinality(wrote[q]) < OpBlocks
    PROVE  SpaceInv'
<1>1. Free' \subseteq Free
  BY DEF Free
<1>2. IsFiniteSet(Free') /\ Cardinality(Free') \in Nat /\ Cardinality(Free') <= Cardinality(Free)
  BY <1>1, FreeFinite, FS_Subset, FS_CardinalityType
<1>3. SpaceInv /\ lh \in Seq(Blocks)
  BY DEF IInv, TypeOK
<1>4. Len(lh') + Cardinality(Free') <= LOGSIZE
  BY SMTT(30), <1>2, <1>3, FreeFinite, LogAssumption DEF SpaceInv
<1>5. \A p \in InOp' : wrote'[p] \subseteq Range(lh') /\ Cardinality(wrote'[p]) <= OpBlocks
  BY <1>3 DEF SpaceInv
<1>6. ASSUME NEW p \in Procs, pc'[p] \in {"buf", "check", "append"}
      PROVE  hold'[p] \in wrote'[p] \/ Cardinality(wrote'[p]) < OpBlocks
  <2>1. p \in InOp'
    BY <1>6 DEF InOp
  <2>2. wrote'[p] = wrote[p]
    BY <2>1
  <2>3. CASE pc[p] \in {"buf", "check", "append"} /\ hold'[p] = hold[p]
    BY <1>3, <2>2, <2>3 DEF SpaceInv
  <2>4. CASE hold'[p] \in wrote[p] \/ Cardinality(wrote[p]) < OpBlocks
    BY <2>2, <2>4
  <2> QED
    BY <1>6, <2>3, <2>4
<1>7. Len(lh') + 2 <= LOGSIZE
  BY <1>3 DEF SpaceInv
<1> QED
  BY <1>4, <1>5, <1>6, <1>7 DEF SpaceInv

\* With no operation open and a header that fits there is room.
LEMMA SpaceClosed ==
    ASSUME TypeOK', InOp' = {}, Len(lh') + 2 <= LOGSIZE, Len(dhead') + 2 <= LOGSIZE
    PROVE  SpaceInv'
<1>1. Free' = {}
  BY DEF Free
<1>2. Cardinality(Free') = 0
  BY <1>1, FS_EmptySet
<1>3. Len(lh') \in Nat
  BY SMTT(30) DEF TypeOK
<1>4. Len(lh') + Cardinality(Free') <= LOGSIZE
  BY SMTT(30), <1>2, <1>3, LogAssumption
<1>5. \A p \in Procs : pc'[p] \notin {"buf", "check", "append"}
  BY DEF InOp
<1> QED
  BY <1>4, <1>5 DEF SpaceInv

\* begin_op() reserves MAXOPBLOCKS blocks.
LEMMA SpaceBegin ==
    ASSUME IInv, TypeOK', NEW p \in Procs, boot = "up", BeginOpEnter(p)
    PROVE  SpaceInv'
<1>0. TypeOK /\ ControlInv /\ SpaceInv
  BY DEF IInv
<1>1. /\ pc[p] = "begin" /\ ~NoSpace /\ pc'[p] \in {"op", "check"}
      /\ \A q \in Procs : q # p => pc'[q] = pc[q]
      /\ UNCHANGED <<hold, wrote, eph, lh, dhead>>
  BY <1>0 DEF TypeOK, BeginOpEnter, MustWait, diskVars
<1>2. pc'[p] = "op"
  BY <1>0 DEF TypeOK, BeginOpEnter, ControlInv
<1>3. p \notin InOp /\ InOp' = InOp \cup {p} /\ wrote[p] = {}
  BY <1>0, <1>1, <1>2 DEF InOp, ControlInv
<1>4. outstanding \in Nat /\ Len(lh) \in Nat
  BY SMTT(30), <1>0, InOpFinite DEF ControlInv, TypeOK
<1> DEFINE R == {p} \X (1..MAXOPBLOCKS)
<1>5. IsFiniteSet(R) /\ Cardinality(R) = MAXOPBLOCKS
  <2>1. IsFiniteSet(1..MAXOPBLOCKS) /\ Cardinality(1..MAXOPBLOCKS) = MAXOPBLOCKS
    BY SMTT(30), FS_Interval, LogAssumption
  <2>2. IsFiniteSet({p}) /\ Cardinality({p}) = 1
    BY FS_Singleton
  <2>3. IsFiniteSet(R) /\ Cardinality(R) = Cardinality({p}) * Cardinality(1..MAXOPBLOCKS)
    BY <2>1, <2>2, FS_Product
  <2> QED
    BY SMTT(30), <2>1, <2>2, <2>3, LogAssumption
<1>6. Free' \subseteq Free \cup R
  BY <1>1, <1>3 DEF Free
<1>7. /\ IsFiniteSet(Free') /\ Cardinality(Free') \in Nat
      /\ Cardinality(Free') <= Cardinality(Free) + MAXOPBLOCKS
  <2>1. /\ IsFiniteSet(Free \cup R)
        /\ Cardinality(Free \cup R) =
              Cardinality(Free) + Cardinality(R) - Cardinality(Free \cap R)
    BY <1>5, FreeFinite, FS_Union
  <2>2. Cardinality(Free \cap R) \in Nat
    BY FreeFinite, FS_Intersection, FS_CardinalityType
  <2>3. IsFiniteSet(Free') /\ Cardinality(Free') <= Cardinality(Free \cup R)
    BY <1>6, <2>1, FS_Subset
  <2>4. Cardinality(Free') \in Nat /\ Cardinality(Free \cup R) \in Nat
    BY <2>1, <2>3, FS_CardinalityType
  <2> QED
    BY SMTT(30), <1>5, <2>1, <2>2, <2>3, <2>4, FreeFinite, LogAssumption
<1>8. Len(lh) + outstanding * MAXOPBLOCKS + MAXOPBLOCKS <= LOGSIZE
  BY SMTT(30), <1>1, <1>4, LogAssumption DEF NoSpace
<1>9. Len(lh') + Cardinality(Free') <= LOGSIZE
  <2>1. outstanding * MAXOPBLOCKS \in Nat
    BY SMTT(30), <1>4, LogAssumption
  <2> QED
    BY SMTT(30), <1>1, <1>4, <1>7, <1>8, <2>1, FreeFinite, LogAssumption
<1>10. \A q \in InOp' : wrote'[q] \subseteq Range(lh') /\ Cardinality(wrote'[q]) <= OpBlocks
  <2>1. Cardinality({}) <= OpBlocks
    BY SMTT(30), FS_EmptySet, LogAssumption
  <2>2. wrote'[p] \subseteq Range(lh') /\ Cardinality(wrote'[p]) <= OpBlocks
    BY <1>1, <1>3, <2>1
  <2>3. \A q \in InOp : wrote'[q] \subseteq Range(lh') /\ Cardinality(wrote'[q]) <= OpBlocks
    BY <1>0, <1>1 DEF SpaceInv
  <2> QED
    BY <1>3, <2>2, <2>3
<1>11. \A q \in Procs : pc'[q] \in {"buf", "check", "append"} =>
          hold'[q] \in wrote'[q] \/ Cardinality(wrote'[q]) < OpBlocks
  BY <1>0, <1>1, <1>2 DEF SpaceInv
<1> QED
  BY <1>0, <1>1, <1>9, <1>10, <1>11 DEF SpaceInv

\* log_write() uses a block that its operation has reserved, and leaves two.
LEMMA SpaceAppend ==
    ASSUME Disciplined, IInv, TypeOK', NEW p \in Procs, LogAppend(p)
    PROVE  SpaceInv'
<1>0. TypeOK /\ ControlInv /\ SpaceInv
  BY DEF IInv
<1> DEFINE b == hold[p]
           n == Cardinality(wrote[p])
<1>1. pc[p] = "append" /\ p \in InOp
  BY DEF LogAppend, InOp
<1>2. b \in Blocks
  BY <1>0, <1>1 DEF TypeOK, ControlInv, HoldPCs
<1>3. /\ lh \in Seq(Blocks) /\ Len(lh) \in Nat
      /\ lh' = IF b \in Range(lh) THEN lh ELSE Append(lh, b)
      /\ wrote' = [wrote EXCEPT ![p] = @ \cup {b}] /\ UNCHANGED <<hold, dhead>>
  BY SMTT(30), <1>0 DEF TypeOK, LogAppend, diskVars
<1>4. pc'[p] \in {"relse", "end"} /\ \A q \in Procs : q # p => pc'[q] = pc[q]
  BY <1>0 DEF TypeOK, LogAppend
<1>5. wrote'[p] = wrote[p] \cup {b} /\ \A q \in Procs : q # p => wrote'[q] = wrote[q]
  BY <1>0, <1>3 DEF TypeOK
<1>6. InOp' = InOp
  BY <1>1, <1>4 DEF InOp
<1>7. IsFiniteSet(wrote[p]) /\ n \in Nat
  BY <1>0, WroteFinite
<1>8. /\ b \in wrote[p] => wrote'[p] = wrote[p]
      /\ b \notin wrote[p] => Cardinality(wrote'[p]) = n + 1 /\ n < OpBlocks
  <2>1. b \in wrote[p] \/ n < OpBlocks
    BY <1>0, <1>1 DEF SpaceInv
  <2>2. b \in wrote[p] => wrote[p] \cup {b} = wrote[p]
    OBVIOUS
  <2>3. b \notin wrote[p] => Cardinality(wrote[p] \cup {b}) = n + 1
    BY <1>7, FS_AddElement
  <2> QED
    BY <1>5, <2>1, <2>2, <2>3
<1>9. wrote[p] \subseteq Range(lh) /\ n <= OpBlocks
  BY <1>0, <1>1 DEF SpaceInv
<1> HIDE DEF b, n
<1>10. n <= Cardinality(wrote'[p]) /\ Cardinality(wrote'[p]) <= OpBlocks /\ Cardinality(wrote'[p]) \in Nat
  BY SMTT(30), <1>7, <1>8, <1>9, LogAssumption DEF n
<1>11. Range(lh') = Range(lh) \cup {b}
  BY SMTT(30), <1>2, <1>3, RangeAppend
<1>12. Free' \subseteq Free
  <2> SUFFICES ASSUME NEW t \in Free' PROVE t \in Free
    OBVIOUS
  <2>1. /\ t \in Procs \X (1..MAXOPBLOCKS) /\ t[1] \in InOp
        /\ Cardinality(wrote'[t[1]]) < t[2]
    BY <1>6 DEF Free
  <2>2. CASE t[1] = p
    BY SMTT(30), <1>7, <1>10, <2>1, <2>2, LogAssumption DEF Free, n
  <2>3. CASE t[1] # p
    BY <1>5, <2>1, <2>3 DEF Free
  <2> QED
    BY <2>2, <2>3
<1>13. IsFiniteSet(Free') /\ Cardinality(Free') \in Nat /\ Cardinality(Free') <= Cardinality(Free)
  BY <1>12, FreeFinite, FS_Subset, FS_CardinalityType
<1>14. Len(lh') + Cardinality(Free') <= LOGSIZE
  <2>1. CASE b \in Range(lh)
    BY SMTT(30), <1>0, <1>3, <1>13, <2>1, FreeFinite, LogAssumption DEF SpaceInv
  <2>2. CASE b \notin Range(lh)
    <3>1. b \notin wrote[p]
      BY <1>9, <2>2
    <3>2. Cardinality(wrote'[p]) = n + 1 /\ n + 1 \in 1..MAXOPBLOCKS
      BY SMTT(30), <1>7, <1>8, <3>1, LogAssumption DEF Disciplined
    <3> DEFINE t == <<p, n + 1>>
    <3>3. t \in Free
      BY SMTT(30), <1>1, <1>7, <3>2 DEF Free, n
    <3>4. t \notin Free'
      BY SMTT(30), <1>7, <3>2 DEF Free
    <3>5. Free' \subseteq Free \ {t}
      BY <1>12, <3>4
    <3>6. IsFiniteSet(Free \ {t}) /\ Cardinality(Free \ {t}) = Cardinality(Free) - 1
      BY <3>3, FreeFinite, FS_RemoveElement
    <3>7. Cardinality(Free') <= Cardinality(Free \ {t})
      BY <3>5, <3>6, FS_Subset
    <3>8. Len(lh') = Len(lh) + 1
      BY SMTT(30), <1>2, <1>3, <2>2
    <3>9. Cardinality(Free') <= Cardinality(Free) - 1
      BY <3>6, <3>7
    <3>10. Len(lh) + Cardinality(Free) <= LOGSIZE
      BY <1>0 DEF SpaceInv
    <3> HIDE DEF t
    <3> QED
      BY SMTT(30), <1>3, <1>13, <3>8, <3>9, <3>10, FreeFinite, LogAssumption
  <2> QED
    BY <2>1, <2>2
<1>15. Cardinality(Free') >= 2
  <2> DEFINE s == <<p, MAXOPBLOCKS - 1>>
             t == <<p, MAXOPBLOCKS>>
  <2>1. s \in Free' /\ t \in Free'
    BY SMTT(30), <1>1, <1>6, <1>10, LogAssumption DEF Free, Disciplined
  <2>2. s # t
    BY SMTT(30), LogAssumption
  <2> HIDE DEF s, t
  <2>3. Cardinality({s} \cup {t}) = 2
    <3>1. IsFiniteSet({s}) /\ Cardinality({s}) = 1
      BY FS_Singleton
    <3>2. t \notin {s}
      BY <2>2
    <3>3. Cardinality({s} \cup {t}) = Cardinality({s}) + 1
      BY <3>1, <3>2, FS_AddElement
    <3> QED
      BY SMTT(30), <3>1, <3>3
  <2>4. Cardinality({s} \cup {t}) <= Cardinality(Free')
    BY <1>13, <2>1, FS_Subset
  <2> QED
    BY <2>3, <2>4
<1>16. Len(lh') + 2 <= LOGSIZE
  <2>1. Len(lh') \in Nat
    BY SMTT(30) DEF TypeOK
  <2> QED
    BY SMTT(30), <1>13, <1>14, <1>15, <2>1, LogAssumption
<1>17. \A q \in InOp' : wrote'[q] \subseteq Range(lh') /\ Cardinality(wrote'[q]) <= OpBlocks
  <2> SUFFICES ASSUME NEW q \in InOp
               PROVE  wrote'[q] \subseteq Range(lh') /\ Cardinality(wrote'[q]) <= OpBlocks
    BY <1>6
  <2>1. CASE q = p
    BY <1>5, <1>9, <1>10, <1>11, <2>1
  <2>2. CASE q # p
    <3>1. q \in Procs
      BY DEF InOp
    <3>2. wrote'[q] = wrote[q]
      BY <1>5, <2>2, <3>1
    <3> QED
      BY <1>0, <1>11, <3>2 DEF SpaceInv
  <2> QED
    BY <2>1, <2>2
<1>18. \A q \in Procs : pc'[q] \in {"buf", "check", "append"} =>
          hold'[q] \in wrote'[q] \/ Cardinality(wrote'[q]) < OpBlocks
  BY <1>0, <1>3, <1>4, <1>5 DEF SpaceInv
<1> QED
  BY <1>0, <1>3, <1>14, <1>16, <1>17, <1>18 DEF SpaceInv

\* The reservation is preserved.
LEMMA SpaceStep ==
    ASSUME Disciplined, IInv, TypeOK', ControlInv', [Next]_vars
    PROVE  SpaceInv'
<1>0. TypeOK /\ ControlInv /\ SpaceInv /\ Outside = {}
  BY DEF IInv, Disciplined
<1>1. Len(lh) + 2 <= LOGSIZE /\ Len(dhead) + 2 <= LOGSIZE /\ Len(<<>>) + 2 <= LOGSIZE
  <2>1. 2 <= LOGSIZE
    BY SMTT(30), LogAssumption DEF Disciplined
  <2> QED
    BY SMTT(30), <1>0, <2>1 DEF SpaceInv
<1>2. ASSUME NEW p \in Procs,
             \/ StartOp(p) \/ BeginOpSleep(p) \/ Killed(p) \/ LogWrite(p)
             \/ LogWriteCheck(p) \/ LogSync(p) \/ BSync(p)
      PROVE  SpaceInv'
  <2>1. UNCHANGED <<hold, wrote, lh, dhead>>
    BY <1>2 DEF StartOp, BeginOpSleep, Killed, LogWrite, LogWriteCheck, LogSync, BSync,
                logVars, diskVars
  <2>2. /\ \A q \in Procs : q # p => pc'[q] = pc[q]
        /\ \/ pc'[p] = pc[p]
           \/ pc[p] \in {"idle", "begin", "asleep"} /\ pc'[p] \in {"begin", "asleep"}
           \/ pc[p] = "buf" /\ pc'[p] \in {"begin", "check"}
           \/ pc[p] = "check" /\ pc'[p] = "append"
           \/ pc[p] \in {"op", "bsync"} /\ pc'[p] \in {"bsync", "end"}
    <3>1. CASE StartOp(p) \/ BeginOpSleep(p) \/ Killed(p)
      BY <1>0, <3>1 DEF TypeOK, StartOp, BeginOpSleep, Killed
    <3>2. CASE LogWrite(p) \/ LogWriteCheck(p)
      BY <1>0, <3>2 DEF TypeOK, LogWrite, LogWriteCheck
    <3>3. CASE LogSync(p) \/ BSync(p)
      BY <1>0, <3>3 DEF TypeOK, LogSync, BSync
    <3> QED
      BY <1>2, <3>1, <3>2, <3>3
  <2>3. InOp' \subseteq InOp
    BY <2>2 DEF InOp
  <2>4. \A q \in Procs : pc'[q] \in {"buf", "check", "append"} =>
           pc[q] \in {"buf", "check", "append"}
    BY <2>2
  <2> QED
    BY <1>1, <2>1, <2>3, <2>4, SpaceKeep
<1>3. ASSUME NEW p \in Procs, boot = "up", BeginOpEnter(p)
      PROVE  SpaceInv'
  BY <1>3, SpaceBegin
<1>4. ASSUME NEW p \in Procs, NEW b \in Blocks, NEW v \in Vals, Modify(p, b, v)
      PROVE  SpaceInv'
  <2>1. /\ pc[p] = "op" /\ pc'[p] = "buf" /\ \A q \in Procs : q # p => pc'[q] = pc[q]
        /\ hold'[p] = b /\ \A q \in Procs : q # p => hold'[q] = hold[q]
        /\ b \in wrote[p] \/ Cardinality(wrote[p]) < OpBlocks
        /\ UNCHANGED <<wrote, lh, dhead>>
    BY <1>0, <1>4 DEF TypeOK, Modify, logVars, diskVars
  <2>2. InOp' \subseteq InOp
    BY <2>1 DEF InOp
  <2>3. \A q \in Procs : pc'[q] \in {"buf", "check", "append"} =>
           \/ pc[q] \in {"buf", "check", "append"} /\ hold'[q] = hold[q]
           \/ hold'[q] \in wrote[q] \/ Cardinality(wrote[q]) < OpBlocks
    BY <2>1
  <2> QED
    BY SMTT(30), <1>1, <2>1, <2>2, <2>3, SpaceKeep
<1>5. ASSUME NEW p \in Procs, LogAppend(p)
      PROVE  SpaceInv'
  BY <1>5, SpaceAppend
<1>6. ASSUME NEW p \in Procs, Brelse(p)
      PROVE  SpaceInv'
  <2>1. /\ pc[p] = "relse" /\ pc'[p] = "op" /\ \A q \in Procs : q # p => pc'[q] = pc[q]
        /\ \A q \in Procs : q # p => hold'[q] = hold[q]
        /\ UNCHANGED <<wrote, lh, dhead>>
    BY <1>0, <1>6 DEF TypeOK, Brelse, logVars, diskVars
  <2>2. InOp' \subseteq InOp
    BY <2>1 DEF InOp
  <2>3. \A q \in Procs : pc'[q] \in {"buf", "check", "append"} =>
           pc[q] \in {"buf", "check", "append"} /\ hold'[q] = hold[q]
    BY <2>1
  <2> QED
    BY <1>1, <2>1, <2>2, <2>3, SpaceKeep
<1>7. ASSUME NEW p \in Procs, EndOp(p)
      PROVE  SpaceInv'
  <2>1. UNCHANGED <<hold, lh, dhead>> /\ wrote' = [wrote EXCEPT ![p] = {}]
    BY <1>7 DEF EndOp, diskVars
  <2>2. /\ pc'[p] \in {"idle", "wlog", "done"}
        /\ \A q \in Procs : q # p =>
              pc'[q] = pc[q] \/ (pc[q] = "asleep" /\ pc'[q] = "begin")
    <3>1. CASE LastOp
      BY <1>0, <1>7, <3>1 DEF EndOp, TypeOK
    <3>2. CASE ~LastOp
      BY <1>0, <1>7, <3>2 DEF EndOp, TypeOK, Wakeup, Return
    <3> QED
      BY <3>1, <3>2
  <2>3. InOp' \subseteq InOp /\ p \notin InOp'
    BY <2>2 DEF InOp
  <2>4. \A q \in InOp' : wrote'[q] = wrote[q]
    BY <1>0, <2>1, <2>3 DEF TypeOK, InOp
  <2>5. \A q \in Procs : pc'[q] \in {"buf", "check", "append"} =>
           pc[q] \in {"buf", "check", "append"}
    BY <2>2
  <2> QED
    BY <1>1, <2>1, <2>3, <2>4, <2>5, SpaceKeep
<1>8. ASSUME NEW p \in Procs,
             WriteLog(p) \/ WriteHead(p) \/ InstallTrans(p) \/ ClearHeader(p) \/ CommitDone(p)
      PROVE  SpaceInv'
  <2>1. pc[p] \in CommitPCs
    BY <1>8 DEF WriteLog, WriteHead, InstallTrans, ClearHeader, CommitDone, CommitPCs
  <2>2. InOp = {}
    BY <2>1, CommitFacts
  <2>3. \A q \in Procs : \/ pc'[q] = pc[q] \/ pc'[q] \in CommitPCs
                         \/ pc'[q] \in {"idle", "begin"}
    <3>1. CASE CommitDone(p)
      BY SMTT(30), <1>0, <3>1 DEF TypeOK, CommitDone, Wakeup, Return
    <3>2. CASE ~CommitDone(p)
      BY <1>0, <1>8, <3>2 DEF TypeOK, WriteLog, WriteHead, InstallTrans, ClearHeader, CommitPCs
    <3> QED
      BY <3>1, <3>2
  <2>4. InOp' = {}
    BY <2>2, <2>3 DEF InOp, CommitPCs
  <2>5. lh' \in {lh, <<>>} /\ dhead' \in {lh, dhead}
    BY <1>8 DEF WriteLog, WriteHead, InstallTrans, InstallBlock, ClearHeader, CommitDone,
                logVars, diskVars
  <2> QED
    BY <1>1, <2>4, <2>5, SpaceClosed
<1>9. CASE ReadHead \/ RecoverBlock \/ RecoverClear
  <2>1. boot # "up" /\ pc' = pc
    BY <1>9 DEF ReadHead, RecoverBlock, RecoverClear, procVars
  <2>2. InOp' = {}
    BY <1>0, <2>1 DEF ControlInv, InOp
  <2>3. lh' \in {lh, dhead, <<>>} /\ dhead' \in {dhead, <<>>}
    BY <1>9 DEF ReadHead, RecoverBlock, RecoverClear, InstallBlock, logVars, diskVars
  <2> QED
    BY <1>1, <2>2, <2>3, SpaceClosed
<1>10. CASE Crash
  <2>1. InOp' = {}
    BY <1>10 DEF Crash, InOp
  <2>2. lh' = <<>> /\ dhead' = dhead
    BY <1>10 DEF Crash, diskVars
  <2> QED
    BY <1>1, <2>1, <2>2, SpaceClosed
<1>11. ASSUME UNCHANGED <<pc, hold, wrote, lh, dhead>>
       PROVE  SpaceInv'
  <2>1. InOp' = InOp
    BY <1>11 DEF InOp
  <2> QED
    BY <1>1, <1>11, <2>1, SpaceKeep
<1>12. CASE (\E b \in Blocks : Evict(b)) \/ UNCHANGED vars
  BY <1>11, <1>12 DEF Evict, vars, procVars, logVars, diskVars
<1> QED
  BY <1>2, <1>3, <1>4, <1>5, <1>6, <1>7, <1>8, <1>9, <1>10, <1>12
     DEF Next, Up, Recover, Step, BeginOp, LogWriteSteps, Commit, Sync

-----------------------------------------------------------------------------
\* While an operation is open the header on disk is empty.
LEMMA OpenDisk ==
    ASSUME IInv, NEW p \in InOp
    PROVE  boot = "up" /\ dhead = <<>> /\ UpInv /\ \A q \in Procs : pc[q] \notin CommitPCs
<1>1. boot = "up" /\ \A q \in Procs : pc[q] \notin CommitPCs
  BY OpenFacts
<1>2. UpInv
  BY <1>1 DEF IInv, DiskInv
<1>3. dhead = <<>>
  BY <1>1, <1>2 DEF UpInv, CommitPCs
<1> QED
  BY <1>1, <1>2, <1>3

\* What is left to show when no commit is under way after a step.
LEMMA DiskOpen ==
    ASSUME boot' = "up", dhead' = <<>>, \A q \in Procs : pc'[q] \notin CommitPCs,
           \A b \in Blocks : cache'[b] = home'[b] \/ b \in dirty' \/ Held(b)',
           dirty' \subseteq Range(lh'),
           \A q \in Procs : pc'[q] = "relse" => hold'[q] \in dirty'
    PROVE  DiskInv'
<1>1. \A q \in Procs : CommitInv(q)'
  BY DEF CommitInv, CommitPCs
<1>2. DOMAIN dhead' = {}
  BY SMTT(30)
<1> QED
  BY <1>1, <1>2 DEF DiskInv, UpInv

\* A step that only moves processes outside commit().
LEMMA DiskKeep ==
    ASSUME IInv, boot = "up", boot' = "up",
           UNCHANGED <<hold, cache, dirty, home, dlog, dhead, lh, tail>>,
           \A q \in Procs : pc'[q] \in CommitPCs \cup {"relse"} => pc'[q] = pc[q],
           \A q \in Procs : pc[q] \in CommitPCs => pc'[q] = pc[q]
    PROVE  DiskInv'
<1>1. DiskInv /\ UpInv
  BY DEF IInv, DiskInv
<1>2. \A b \in Blocks : cache'[b] = home'[b] \/ b \in dirty' \/ Held(b)'
  BY <1>1 DEF UpInv, Held
<1>3. \A q \in Procs : pc'[q] = "relse" => hold'[q] \in dirty'
  BY <1>1 DEF UpInv
<1>4. (\A q \in Procs : pc'[q] \notin {"install", "clear", "erase"}) => dhead' = <<>>
  BY <1>1 DEF UpInv, CommitPCs
<1>5. ASSUME NEW q \in Procs PROVE CommitInv(q)'
  <2>1. CommitInv(q)
    BY <1>1 DEF UpInv
  <2>2. CASE pc'[q] \in CommitPCs
    <3>1. pc'[q] = pc[q]
      BY <2>2
    <3> QED
      BY <2>1, <3>1 DEF CommitInv, Copied
  <2>3. CASE pc'[q] \notin CommitPCs
    BY <2>3 DEF CommitInv, CommitPCs
  <2> QED
    BY <2>2, <2>3
<1>6. dirty' \subseteq Range(lh')
  BY <1>1 DEF UpInv
<1>7. \A i, j \in DOMAIN dhead' : dhead'[i] = dhead'[j] => dlog'[i] = dlog'[j]
  BY <1>1 DEF DiskInv
<1> QED
  BY <1>2, <1>3, <1>4, <1>5, <1>6, <1>7 DEF DiskInv, UpInv

\* A write of the log, of the header, of a home block.
LEMMA DiskCommit ==
    ASSUME Disciplined, IInv, TypeOK', ControlInv', NEW p \in Procs,
           WriteLog(p) \/ WriteHead(p) \/ InstallTrans(p) \/ ClearHeader(p) \/ CommitDone(p)
    PROVE  DiskInv'
<1>0. TypeOK /\ ControlInv
  BY DEF IInv
<1>1. pc[p] \in CommitPCs
  BY DEF WriteLog, WriteHead, InstallTrans, ClearHeader, CommitDone, CommitPCs
<1>2. /\ boot = "up" /\ CommitInv(p) /\ UpInv /\ InOp = {}
      /\ \A q \in Procs : pc[q] \in CommitPCs => q = p
      /\ \A b \in Blocks : ~Held(b)
  BY <1>1, CommitFacts
<1>3. boot' = "up" /\ hold' = hold
  BY <1>2 DEF WriteLog, WriteHead, InstallTrans, ClearHeader, CommitDone
<1>4. /\ \A b \in Blocks : cache[b] = home[b] \/ b \in dirty
      /\ dirty \subseteq Range(lh)
  BY <1>2 DEF UpInv
<1>5. /\ lh \in Seq(Blocks) /\ dhead \in Seq(Blocks) /\ Len(lh) \in Nat /\ tail \in Nat
      /\ 1..Len(lh) \subseteq Slots /\ \A k \in 1..Len(lh) : lh[k] \in Blocks
      /\ DOMAIN lh = 1..Len(lh) /\ DOMAIN dhead = 1..Len(dhead)
  BY SMTT(30), <1>0, LogFits, RangeType DEF TypeOK
<1>6. \A q \in Procs : q # p => pc'[q] \notin CommitPCs /\ pc'[q] # "relse"
  <2>1. \A q \in Procs : q # p => pc'[q] = pc[q] \/ pc'[q] = "begin"
    <3>1. CASE CommitDone(p)
      <4>1. pc' = [Wakeup(pc) EXCEPT ![p] = Return(p)]
        BY <3>1 DEF CommitDone
      <4> QED
        BY <1>0, <4>1 DEF TypeOK, Wakeup
    <3>2. CASE WriteLog(p) \/ WriteHead(p) \/ InstallTrans(p) \/ ClearHeader(p)
      <4>1. PICK l : pc' = [pc EXCEPT ![p] = l]
        BY <3>2 DEF WriteLog, WriteHead, InstallTrans, ClearHeader
      <4> QED
        BY <1>0, <4>1 DEF TypeOK
    <3> QED
      BY <3>1, <3>2
  <2> QED
    BY <1>2, <2>1 DEF CommitPCs, InOp
<1>7. ASSUME \A i, j \in DOMAIN dhead' : dhead'[i] = dhead'[j] => dlog'[i] = dlog'[j],
             \A b \in Blocks : cache'[b] = home'[b] \/ b \in dirty',
             dirty' \subseteq Range(lh'), pc'[p] # "relse",
             pc'[p] \notin {"install", "clear", "erase"} => dhead' = <<>>,
             CommitInv(p)'
      PROVE  DiskInv'
  <2>1. \A q \in Procs : CommitInv(q)'
    BY <1>6, <1>7 DEF CommitInv, CommitPCs
  <2>2. (\A q \in Procs : pc'[q] \notin {"install", "clear", "erase"}) => dhead' = <<>>
    BY <1>7
  <2>3. \A q \in Procs : pc'[q] = "relse" => hold'[q] \in dirty'
    BY <1>6, <1>7
  <2> QED
    BY <1>3, <1>7, <2>1, <2>2, <2>3 DEF DiskInv, UpInv
<1>8. CASE WriteLog(p)
  <2>1. /\ pc[p] = "wlog" /\ tail < Len(lh) /\ Copied(tail)
    BY <1>2, <1>8 DEF WriteLog, CommitInv
  <2>2. dhead = <<>>
    BY <1>2, <2>1 DEF UpInv, CommitPCs
  <2>3. /\ dlog' = [dlog EXCEPT ![tail + 1] = cache[lh[tail + 1]]] /\ tail' = tail + 1
        /\ pc'[p] = IF tail + 1 >= Len(lh) THEN "whead" ELSE "wlog"
        /\ UNCHANGED <<lh, cache, dirty, home, dhead>>
    BY <1>0, <1>8 DEF WriteLog, LastBlock, TypeOK, logVars, bufVars
  <2>4. \A k \in 1..(tail + 1) : dlog'[k] = cache'[lh'[k]]
    <3> SUFFICES ASSUME NEW k \in 1..(tail + 1) PROVE dlog'[k] = cache[lh[k]]
      BY <2>3
    <3>1. dlog \in [Slots -> Vals]
      BY <1>0 DEF TypeOK
    <3>0. k \in Slots
      <4>1. k \in 1..Len(lh)
        BY SMTT(30), <1>5, <2>1
      <4> QED
        BY <1>5, <4>1
    <3>2. CASE k = tail + 1
      BY <2>3, <3>0, <3>1, <3>2
    <3>3. CASE k # tail + 1
      <4>1. k \in 1..tail
        BY SMTT(30), <1>5, <3>3
      <4> QED
        BY <2>1, <2>3, <3>0, <3>1, <3>3, <4>1 DEF Copied
    <3> QED
      BY <3>2, <3>3
  <2>5. CommitInv(p)'
    <3>1. CASE tail + 1 >= Len(lh)
      <4>1. tail + 1 = Len(lh) /\ lh # <<>> /\ pc'[p] = "whead"
        BY SMTT(30), <1>5, <2>1, <2>3, <3>1
      <4> QED
        BY <2>3, <2>4, <4>1 DEF CommitInv, Copied
    <3>2. CASE ~(tail + 1 >= Len(lh))
      <4>1. tail' < Len(lh') /\ pc'[p] = "wlog"
        BY SMTT(30), <1>5, <2>3, <3>2
      <4> QED
        BY <2>3, <2>4, <4>1 DEF CommitInv, Copied
    <3> QED
      BY <3>1, <3>2
  <2> QED
    BY SMTT(30), <1>4, <1>7, <2>2, <2>3, <2>5
<1>9. CASE WriteHead(p) /\ pc[p] = "whead"
  <2>1. lh # <<>> /\ Copied(Len(lh))
    BY <1>2, <1>9 DEF CommitInv
  <2>2. /\ dhead' = lh /\ tail' = 0 /\ pc'[p] = "install"
        /\ UNCHANGED <<lh, cache, dirty, home, dlog>>
    BY <1>0, <1>9 DEF WriteHead, TypeOK, logVars, bufVars
  <2>3. 0 < Len(lh)
    BY SMTT(30), <1>5, <2>1
  <2>4. CommitInv(p)'
    BY SMTT(30), <2>1, <2>2, <2>3 DEF CommitInv, Copied
  <2>5. \A i, j \in DOMAIN dhead' : dhead'[i] = dhead'[j] => dlog'[i] = dlog'[j]
    BY SMTT(30), <1>5, <2>1, <2>2 DEF Copied
  <2> QED
    BY <1>4, <1>7, <2>2, <2>4, <2>5
<1>10. CASE WriteHead(p) /\ pc[p] = "erase"
  <2>1. lh = <<>> /\ dirty = {}
    BY <1>2, <1>10 DEF CommitInv
  <2>2. dhead' = lh /\ pc'[p] = "done" /\ UNCHANGED <<lh, cache, dirty, home, dlog>>
    BY <1>0, <1>10 DEF WriteHead, TypeOK, logVars, bufVars
  <2>3. CommitInv(p)'
    BY <2>1, <2>2 DEF CommitInv
  <2> QED
    BY SMTT(30), <1>4, <1>7, <2>1, <2>2, <2>3
<1>11. CASE InstallTrans(p)
  <2>1. /\ dhead = lh /\ Copied(Len(lh)) /\ tail < Len(lh)
        /\ \A k \in 1..tail : lh[k] \notin dirty
    BY <1>2, <1>11 DEF InstallTrans, CommitInv
  <2> DEFINE b == lh[tail + 1]
  <2>2. tail + 1 \in 1..Len(lh) /\ b \in Blocks /\ dlog[tail + 1] = cache[b]
    BY SMTT(30), <1>5, <2>1 DEF Copied
  <2>3. /\ home' = [home EXCEPT ![b] = cache[b]] /\ cache' = [cache EXCEPT ![b] = cache[b]]
        /\ dirty' = dirty \ {b} /\ tail' = tail + 1
        /\ pc'[p] = IF tail + 1 >= Len(lh) THEN "clear" ELSE "install"
        /\ UNCHANGED <<lh, dlog, dhead>>
    BY <1>0, <1>11, <2>2 DEF InstallTrans, InstallBlock, Unpin, LastBlock, TypeOK, logVars
  <2>4. /\ cache' = cache /\ home'[b] = cache[b]
        /\ \A c \in Blocks : c # b => home'[c] = home[c]
    BY <1>0, <2>2, <2>3 DEF TypeOK
  <2> HIDE DEF b
  <2>5. \A c \in Blocks : cache'[c] = home'[c] \/ c \in dirty'
    BY <1>4, <2>3, <2>4
  <2>6. \A k \in 1..(tail + 1) : lh[k] \notin dirty'
    BY SMTT(30), <1>5, <2>1, <2>3 DEF b
  <2>7. CommitInv(p)'
    <3>1. CASE tail + 1 >= Len(lh)
      <4>1. tail + 1 = Len(lh) /\ pc'[p] = "clear"
        BY SMTT(30), <1>5, <2>1, <2>3, <3>1
      <4>2. dirty' = {}
        <5> SUFFICES ASSUME NEW c \in dirty' PROVE FALSE
          OBVIOUS
        <5>1. PICK k \in 1..Len(lh) : lh[k] = c
          BY <1>4, <1>5, <2>3, RangeType
        <5> QED
          BY <2>6, <4>1, <5>1
      <4> QED
        BY <2>1, <2>3, <2>4, <4>1, <4>2 DEF CommitInv, Copied
    <3>2. CASE ~(tail + 1 >= Len(lh))
      <4>1. tail' < Len(lh') /\ pc'[p] = "install"
        BY SMTT(30), <1>5, <2>3, <3>2
      <4> QED
        BY <2>1, <2>3, <2>4, <2>6, <4>1 DEF CommitInv, Copied
    <3> QED
      BY <3>1, <3>2
  <2>8. \A i, j \in DOMAIN dhead' : dhead'[i] = dhead'[j] => dlog'[i] = dlog'[j]
    BY SMTT(30), <1>5, <2>1, <2>3 DEF Copied
  <2> QED
    BY <1>4, <1>7, <2>3, <2>5, <2>7, <2>8
<1>12. CASE ClearHeader(p)
  <2>1. dhead = lh /\ Copied(Len(lh)) /\ dirty = {}
    BY <1>2, <1>12 DEF ClearHeader, CommitInv
  <2>2. lh' = <<>> /\ pc'[p] = "erase" /\ UNCHANGED <<cache, dirty, home, dlog, dhead>>
    BY <1>0, <1>12 DEF ClearHeader, TypeOK, bufVars, diskVars
  <2>3. \A k \in DOMAIN dhead' : dlog'[k] = cache'[dhead'[k]]
    BY <1>5, <2>1, <2>2 DEF Copied
  <2>4. CommitInv(p)'
    BY <2>1, <2>2, <2>3 DEF CommitInv
  <2>5. \A i, j \in DOMAIN dhead' : dhead'[i] = dhead'[j] => dlog'[i] = dlog'[j]
    BY <2>3
  <2> QED
    BY <1>4, <1>7, <2>1, <2>2, <2>4, <2>5
<1>13. CASE CommitDone(p)
  <2>1. lh = <<>> /\ dirty = {} /\ dhead = <<>>
    BY <1>2, <1>13 DEF CommitDone, CommitInv
  <2>2. pc'[p] = "idle" /\ UNCHANGED <<lh, cache, dirty, home, dlog, dhead>>
    BY <1>0, <1>13 DEF CommitDone, TypeOK, Wakeup, Return, bufVars, diskVars, Disciplined
  <2>3. CommitInv(p)'
    BY <2>2 DEF CommitInv
  <2>4. dhead' = <<>> /\ dirty' \subseteq Range(lh') /\ DOMAIN dhead' = {}
    BY SMTT(30), <2>1, <2>2
  <2>5. \A b \in Blocks : cache'[b] = home'[b] \/ b \in dirty'
    BY <1>4, <2>2
  <2>6. pc'[p] # "relse"
    BY <2>2
  <2> QED
    BY <1>7, <2>3, <2>4, <2>5, <2>6
<1> QED
  BY <1>8, <1>9, <1>10, <1>11, <1>12, <1>13 DEF WriteHead

\* The log, the cache and the disk agree after every step.
LEMMA DiskStep ==
    ASSUME Disciplined, IInv, TypeOK', ControlInv', [Next]_vars
    PROVE  DiskInv'
<1>0. TypeOK /\ ControlInv /\ DiskInv /\ Outside = {} /\ eph = {}
  BY DEF IInv, ControlInv, Disciplined
<1>1. ASSUME NEW p \in Procs, boot = "up",
             \/ StartOp(p) \/ BeginOpSleep(p) \/ Killed(p) \/ BeginOpEnter(p)
             \/ LogWrite(p) \/ LogWriteCheck(p) \/ BSync(p)
      PROVE  DiskInv'
  <2>1. UNCHANGED <<hold, cache, dirty, home, dlog, dhead, lh, tail, boot>>
    BY <1>1 DEF StartOp, BeginOpSleep, Killed, BeginOpEnter, LogWrite, LogWriteCheck, BSync,
                logVars, bufVars, diskVars
  <2>2. pc[p] \in {"idle", "begin", "asleep", "buf", "check", "bsync"}
    BY <1>1 DEF StartOp, BeginOpSleep, Killed, BeginOpEnter, LogWrite, LogWriteCheck, BSync
  <2>3. PICK l \in {"begin", "asleep", "op", "check", "append", "end", pc[p]} :
           pc' = [pc EXCEPT ![p] = l]
    <3>1. CASE pc' = pc
      BY <1>0, <3>1 DEF TypeOK
    <3>2. CASE pc' # pc
      BY <1>1, <3>2 DEF StartOp, BeginOpSleep, Killed, BeginOpEnter, LogWrite, LogWriteCheck,
                        BSync
    <3> QED
      BY SMTT(30), <3>1, <3>2
  <2>4. pc'[p] = l /\ \A q \in Procs : q # p => pc'[q] = pc[q]
    BY <1>0, <2>3 DEF TypeOK
  <2>5. l \notin CommitPCs \cup {"relse"} /\ pc[p] \notin CommitPCs
    BY <2>2, <2>3 DEF CommitPCs
  <2> QED
    BY SMTT(30), <1>1, <2>1, <2>4, <2>5, DiskKeep
<1>2. ASSUME NEW p \in Procs, NEW b \in Blocks, NEW v \in Vals, Modify(p, b, v)
      PROVE  DiskInv'
  <2>1. /\ pc[p] = "op" /\ p \in InOp /\ pc' = [pc EXCEPT ![p] = "buf"]
        /\ hold' = [hold EXCEPT ![p] = b] /\ cache' = [cache EXCEPT ![b] = v]
        /\ UNCHANGED <<lh, dirty, home, dhead, boot>>
    BY <1>0, <1>2 DEF Modify, InOp, logVars, diskVars
  <2>2. boot = "up" /\ dhead = <<>> /\ UpInv /\ \A q \in Procs : pc[q] \notin CommitPCs
    BY <2>1, OpenDisk
  <2>3. hold[p] = None
    BY <1>0, <2>1 DEF ControlInv, HoldPCs
  <2>4. /\ pc'[p] = "buf" /\ \A q \in Procs : q # p => pc'[q] = pc[q]
        /\ hold'[p] = b /\ \A q \in Procs : q # p => hold'[q] = hold[q]
        /\ \A c \in Blocks : c # b => cache'[c] = cache[c]
    BY <1>0, <2>1 DEF TypeOK
  <2>5. \A c \in Blocks : cache'[c] = home'[c] \/ c \in dirty' \/ Held(c)'
    <3> SUFFICES ASSUME NEW c \in Blocks, c # b
                 PROVE  cache'[c] = home'[c] \/ c \in dirty' \/ Held(c)'
      BY <2>4 DEF Held
    <3>1. Held(c) => Held(c)'
      BY <2>3, <2>4, LogAssumption DEF Held
    <3> QED
      BY <2>1, <2>2, <2>4, <3>1 DEF UpInv
  <2>6. \A q \in Procs : pc'[q] = "relse" => hold'[q] \in dirty'
    BY SMTT(30), <2>1, <2>2, <2>4 DEF UpInv
  <2>7. \A q \in Procs : pc'[q] \notin CommitPCs
    BY <2>2, <2>4 DEF CommitPCs
  <2>8. dirty' \subseteq Range(lh')
    BY <2>1, <2>2 DEF UpInv
  <2> QED
    BY <2>1, <2>2, <2>5, <2>6, <2>7, <2>8, DiskOpen
<1>3. ASSUME NEW p \in Procs, LogAppend(p)
      PROVE  DiskInv'
  <2>1. /\ pc[p] = "append" /\ p \in InOp /\ pc' = [pc EXCEPT ![p] = "relse"]
        /\ lh' = IF hold[p] \in Range(lh) THEN lh ELSE Append(lh, hold[p])
        /\ dirty' = dirty \cup {hold[p]}
        /\ UNCHANGED <<hold, cache, home, dhead, boot>>
    BY <1>0, <1>3 DEF LogAppend, Pin, InOp, diskVars
  <2>2. boot = "up" /\ dhead = <<>> /\ UpInv /\ \A q \in Procs : pc[q] \notin CommitPCs
    BY <2>1, OpenDisk
  <2>3. hold[p] \in Blocks /\ lh \in Seq(Blocks)
    BY <1>0, <2>1 DEF ControlInv, HoldPCs, TypeOK
  <2>4. Range(lh') = Range(lh) \cup {hold[p]}
    BY SMTT(30), <2>1, <2>3, RangeAppend
  <2>5. pc'[p] = "relse" /\ \A q \in Procs : q # p => pc'[q] = pc[q]
    BY <1>0, <2>1 DEF TypeOK
  <2>6. \A c \in Blocks : cache'[c] = home'[c] \/ c \in dirty' \/ Held(c)'
    BY <2>1, <2>2 DEF UpInv, Held
  <2>7. \A q \in Procs : pc'[q] = "relse" => hold'[q] \in dirty'
    BY <2>1, <2>2, <2>5 DEF UpInv
  <2>8. \A q \in Procs : pc'[q] \notin CommitPCs
    BY <2>2, <2>5 DEF CommitPCs
  <2>9. dirty' \subseteq Range(lh')
    BY <2>1, <2>2, <2>4 DEF UpInv
  <2> QED
    BY <2>1, <2>2, <2>6, <2>7, <2>8, <2>9, DiskOpen
<1>4. ASSUME NEW p \in Procs, Brelse(p)
      PROVE  DiskInv'
  <2>1. /\ pc[p] = "relse" /\ p \in InOp /\ pc' = [pc EXCEPT ![p] = "op"]
        /\ hold' = [hold EXCEPT ![p] = None]
        /\ UNCHANGED <<lh, cache, dirty, home, dhead, boot>>
    BY <1>0, <1>4 DEF Brelse, InOp, logVars, bufVars, diskVars
  <2>2. boot = "up" /\ dhead = <<>> /\ UpInv /\ \A q \in Procs : pc[q] \notin CommitPCs
    BY <2>1, OpenDisk
  <2>3. /\ pc'[p] = "op" /\ \A q \in Procs : q # p => pc'[q] = pc[q]
        /\ \A q \in Procs : q # p => hold'[q] = hold[q]
    BY SMTT(30), <1>0, <2>1 DEF TypeOK
  <2>4. hold[p] \in dirty
    BY SMTT(30), <2>1, <2>2 DEF UpInv
  <2>5. \A c \in Blocks : cache'[c] = home'[c] \/ c \in dirty' \/ Held(c)'
    <3> SUFFICES ASSUME NEW c \in Blocks, c \notin dirty
                 PROVE  cache[c] = home[c] \/ Held(c)'
      BY <2>1
    <3>1. Held(c) => Held(c)'
      BY <2>3, <2>4 DEF Held
    <3> QED
      BY <2>2, <3>1 DEF UpInv
  <2>6. \A q \in Procs : pc'[q] = "relse" => hold'[q] \in dirty'
    BY SMTT(30), <2>1, <2>2, <2>3 DEF UpInv
  <2>7. \A q \in Procs : pc'[q] \notin CommitPCs
    BY <2>2, <2>3 DEF CommitPCs
  <2>8. dirty' \subseteq Range(lh')
    BY <2>1, <2>2 DEF UpInv
  <2> QED
    BY <2>1, <2>2, <2>5, <2>6, <2>7, <2>8, DiskOpen
<1>5. ASSUME NEW p \in Procs, LogSync(p)
      PROVE  DiskInv'
  <2>1. /\ pc[p] = "op" /\ p \in InOp
        /\ UNCHANGED <<hold, lh, cache, dirty, home, dhead, boot>>
    BY <1>5 DEF LogSync, InOp, logVars, bufVars
  <2>2. boot = "up" /\ dhead = <<>> /\ UpInv /\ \A q \in Procs : pc[q] \notin CommitPCs
    BY <2>1, OpenDisk
  <2>3. pc'[p] \in {"op", "bsync"} /\ \A q \in Procs : q # p => pc'[q] = pc[q]
    BY <1>0, <1>5 DEF LogSync, TypeOK
  <2>4. \A c \in Blocks : cache'[c] = home'[c] \/ c \in dirty' \/ Held(c)'
    BY <2>1, <2>2 DEF UpInv, Held
  <2>5. \A q \in Procs : pc'[q] = "relse" => hold'[q] \in dirty'
    BY <2>1, <2>2, <2>3 DEF UpInv
  <2>6. \A q \in Procs : pc'[q] \notin CommitPCs
    BY <2>2, <2>3 DEF CommitPCs
  <2>7. dirty' \subseteq Range(lh')
    BY SMTT(30), <2>1, <2>2 DEF UpInv
  <2> QED
    BY <2>1, <2>2, <2>4, <2>5, <2>6, <2>7, DiskOpen
<1>6. ASSUME NEW p \in Procs, EndOp(p)
      PROVE  DiskInv'
  <2>1. /\ pc[p] \in {"end", "op"} /\ p \in InOp /\ tail' = 0
        /\ UNCHANGED <<hold, lh, cache, dirty, home, dlog, dhead, boot>>
    BY <1>6 DEF EndOp, InOp, bufVars, diskVars
  <2>2. boot = "up" /\ dhead = <<>> /\ UpInv /\ \A q \in Procs : pc[q] \notin CommitPCs
    BY <2>1, OpenDisk
  <2>3. /\ pc'[p] \in {"idle", "wlog", "done"}
        /\ pc'[p] = "wlog" => lh # <<>>
        /\ pc'[p] = "done" => lh = <<>>
        /\ \A q \in Procs : q # p => pc'[q] = pc[q] \/ pc'[q] = "begin"
    <3>1. CASE LastOp
      BY <1>0, <1>6, <3>1 DEF EndOp, TypeOK
    <3>2. CASE ~LastOp
      BY <1>0, <1>6, <3>2 DEF EndOp, TypeOK, Wakeup, Return
    <3> QED
      BY <3>1, <3>2
  <2>4. \A c \in Blocks : cache'[c] = home'[c] \/ c \in dirty' \/ Held(c)'
    BY <2>1, <2>2 DEF UpInv, Held
  <2>5. \A q \in Procs : pc'[q] = "relse" => hold'[q] \in dirty'
    BY <2>1, <2>2, <2>3 DEF UpInv
  <2>6. dirty' \subseteq Range(lh')
    BY <2>1, <2>2 DEF UpInv
  <2>7. \A q \in Procs : q # p => CommitInv(q)'
    BY <2>2, <2>3 DEF CommitInv, CommitPCs
  <2>8. CommitInv(p)'
    <3>1. lh # <<>> => 0 < Len(lh)
      BY SMTT(30), <1>0 DEF TypeOK
    <3>2. lh = <<>> => dirty' = {}
      BY SMTT(30), <2>1, <2>6 DEF Range
    <3>3. (tail' < Len(lh') /\ Copied(tail)') \/ lh = <<>>
      BY SMTT(30), <2>1, <3>1 DEF Copied
    <3> QED
      BY <2>1, <2>2, <2>3, <3>2, <3>3 DEF CommitInv
  <2>9. \A q \in Procs : CommitInv(q)'
    BY <2>7, <2>8
  <2>10. DOMAIN dhead' = {}
    BY SMTT(30), <2>1, <2>2
  <2> QED
    BY <2>1, <2>2, <2>4, <2>5, <2>6, <2>9, <2>10 DEF DiskInv, UpInv
<1>7. ASSUME NEW p \in Procs, Commit(p)
      PROVE  DiskInv'
  BY <1>7, DiskCommit DEF Commit
<1>8. ASSUME NEW b \in Blocks, boot = "up", Evict(b)
      PROVE  DiskInv'
  <2>1. UpInv /\ cache[b] = home[b]
    BY <1>0, <1>8 DEF DiskInv, UpInv, Evict
  <2>2. cache' = cache
    BY <1>0, <1>8, <2>1 DEF Evict, TypeOK
  <2>3. UNCHANGED <<pc, hold, dirty, home, dlog, dhead, lh, tail, boot>>
    BY <1>8 DEF Evict, procVars, logVars, diskVars
  <2> QED
    BY SMTT(30), <1>8, <2>2, <2>3, DiskKeep
<1>9. CASE ReadHead
  <2>1. /\ boot = "off" /\ lh' = dhead /\ tail' = 0
        /\ boot' = IF dhead = <<>> THEN "clear" ELSE "install"
        /\ UNCHANGED <<cache, dirty, home, dlog, dhead>>
    BY <1>9 DEF ReadHead, bufVars, diskVars
  <2>2. BootInv
    BY <1>0, <2>1 DEF DiskInv
  <2>3. dhead # <<>> => 0 < Len(dhead)
    BY SMTT(30), <1>0 DEF TypeOK
  <2>4. BootInv'
    <3>1. CASE dhead = <<>>
      BY SMTT(30), <2>1, <2>2, <3>1 DEF BootInv
    <3>2. CASE dhead # <<>>
      BY SMTT(30), <2>1, <2>2, <2>3, <3>2 DEF BootInv
    <3> QED
      BY <3>1, <3>2
  <2> QED
    BY <1>0, <2>1, <2>4 DEF DiskInv
<1>10. CASE RecoverBlock
  <2>1. boot = "install" /\ boot' = IF tail + 1 >= Len(lh) THEN "clear" ELSE "install"
    BY <1>10 DEF RecoverBlock, LastBlock
  <2>2. /\ cache = home /\ dirty = {} /\ lh = dhead /\ tail < Len(lh)
        /\ \A k \in 1..tail : home[dhead[k]] = dlog[k]
    BY <1>0, <2>1 DEF DiskInv, BootInv
  <2> DEFINE b == lh[tail + 1]
  <2>3. /\ home' = [home EXCEPT ![b] = dlog[tail + 1]]
        /\ cache' = [cache EXCEPT ![b] = dlog[tail + 1]]
        /\ dirty' = dirty \ {b} /\ tail' = tail + 1 /\ UNCHANGED <<lh, dlog, dhead>>
    BY <1>10 DEF RecoverBlock, InstallBlock, Unpin, logVars
  <2>4. /\ tail \in Nat /\ Len(lh) \in Nat /\ tail + 1 \in 1..Len(lh) /\ b \in Blocks
        /\ \A k \in 1..Len(lh) : lh[k] \in Blocks
        /\ DOMAIN dhead = 1..Len(lh)
    <3>1. tail \in Nat /\ lh \in Seq(Blocks)
      BY <1>0 DEF TypeOK
    <3>2. tail + 1 \in 1..Len(lh)
      BY SMTT(30), <2>2, <3>1
    <3> QED
      BY SMTT(30), <2>2, <3>1, <3>2, RangeType
  <2>5. cache' = home' /\ dirty' = {}
    BY <2>2, <2>3
  <2>6. \A k \in 1..(tail + 1) : home'[dhead[k]] = dlog[k]
    <3> SUFFICES ASSUME NEW k \in 1..(tail + 1) PROVE home'[dhead[k]] = dlog[k]
      OBVIOUS
    <3>1. home \in [Blocks -> Vals] /\ k \in 1..Len(lh) /\ dhead[k] \in Blocks
      BY SMTT(30), <1>0, <2>2, <2>4 DEF TypeOK
    <3>2. CASE dhead[k] = b
      <4>1. dlog[k] = dlog[tail + 1]
        BY <1>0, <2>2, <2>4, <3>1, <3>2 DEF DiskInv
      <4> QED
        BY <2>3, <2>4, <3>1, <3>2, <4>1
    <3>3. CASE dhead[k] # b
      <4>1. k \in 1..tail
        BY SMTT(30), <2>2, <2>4, <3>3
      <4> QED
        BY <2>2, <2>3, <3>1, <3>3, <4>1
    <3> QED
      BY <3>2, <3>3
  <2> HIDE DEF b
  <2>7. BootInv'
    <3>1. CASE tail + 1 >= Len(lh)
      <4>1. boot' = "clear"
        BY <2>1, <3>1
      <4>2. tail + 1 = Len(lh)
        <5>1. tail \in Nat /\ Len(lh) \in Nat
          BY <2>4
        <5>2. tail + 1 <= Len(lh)
          BY SMTT(30), <2>4
        <5> QED
          BY SMTT(30), <3>1, <5>1, <5>2
      <4> QED
        BY <2>2, <2>3, <2>4, <2>5, <2>6, <4>1, <4>2 DEF BootInv
    <3>2. CASE ~(tail + 1 >= Len(lh))
      <4>1. tail' < Len(lh') /\ boot' = "install"
        BY SMTT(30), <2>1, <2>3, <2>4, <3>2
      <4> QED
        BY <2>2, <2>3, <2>5, <2>6, <4>1 DEF BootInv
    <3> QED
      BY <3>1, <3>2
  <2>8. boot' # "up"
    BY <2>1
  <2> QED
    BY <1>0, <2>3, <2>7, <2>8 DEF DiskInv
<1>11. CASE RecoverClear
  <2>1. boot = "clear" /\ boot' = "up" /\ lh' = <<>> /\ dhead' = <<>>
        /\ UNCHANGED <<pc, hold, cache, dirty, home>>
    BY <1>11 DEF RecoverClear, procVars, bufVars
  <2>2. cache = home /\ dirty = {}
    BY <1>0, <2>1 DEF DiskInv, BootInv
  <2>3. \A q \in Procs : pc'[q] = "idle"
    BY <1>0, <2>1 DEF ControlInv
  <2>4. \A q \in Procs : pc'[q] \notin CommitPCs /\ pc'[q] # "relse"
    BY <2>3 DEF CommitPCs
  <2> QED
    BY <2>1, <2>2, <2>4, DiskOpen
<1>12. CASE Crash
  <2>1. /\ boot' = "off" /\ lh' = <<>> /\ cache' = home /\ dirty' = {}
        /\ UNCHANGED <<home, dlog, dhead>>
    BY <1>12 DEF Crash, diskVars
  <2> QED
    BY <1>0, <2>1 DEF DiskInv, BootInv
<1>13. CASE UNCHANGED vars
  <2>1. UNCHANGED <<pc, hold, cache, dirty, home, dlog, dhead, lh, tail, boot>>
    BY <1>13 DEF vars, procVars, logVars, bufVars, diskVars
  <2>2. CASE boot = "up"
    BY <2>1, <2>2, DiskKeep
  <2>3. CASE boot # "up"
    BY <1>0, <2>1, <2>3 DEF DiskInv, BootInv
  <2> QED
    BY <2>2, <2>3
<1> QED
  BY SMTT(30), <1>1, <1>2, <1>3, <1>4, <1>5, <1>6, <1>7, <1>8, <1>9, <1>10, <1>11, <1>12, <1>13
     DEF Next, Up, Recover, Step, BeginOp, LogWriteSteps, Sync

-----------------------------------------------------------------------------
\* The invariant holds when the machine starts.
LEMMA InitInv == ASSUME Disciplined, Init PROVE IInv
<1>1. /\ \A p \in Procs : pc[p] = "idle" /\ hold[p] = None /\ wrote[p] = {}
      /\ eph = {} /\ lh = <<>> /\ outstanding = 0 /\ committing = FALSE /\ tail = 0
      /\ cache = home /\ dirty = {} /\ dhead = <<>> /\ boot = "off"
  BY DEF Init
<1>2. TypeOK
  <2>1. /\ pc \in [Procs -> PCs] /\ hold \in [Procs -> Blocks \cup {None}]
        /\ wrote \in [Procs -> SUBSET Blocks] /\ eph \subseteq Outside
    BY DEF Init, PCs
  <2>2. lh \in Seq(Blocks) /\ dhead \in Seq(Blocks) /\ tail \in Nat
    BY SMTT(30), <1>1
  <2>3. outstanding \in 0..Cardinality(Procs)
    <3>1. outstanding = 0 /\ Cardinality(Procs) \in Nat
      BY <1>1, InOpFinite
    <3> QED
      BY SMTT(30), <3>1
  <2>4. /\ cache \in [Blocks -> Vals] /\ home \in [Blocks -> Vals] /\ dirty \subseteq Blocks
    BY DEF Init
  <2>5. dlog \in [Slots -> Vals]
    BY DEF Init
  <2>6. boot \in {"off", "install", "clear", "up"} /\ panic \in Panics
    BY DEF Init, Panics
  <2>7. committing \in BOOLEAN
    BY <1>1
  <2> QED
    BY <2>1, <2>2, <2>3, <2>4, <2>5, <2>6, <2>7 DEF TypeOK
<1>3. InOp = {}
  BY <1>1 DEF InOp
<1>4. ControlInv
  <2>1. outstanding = Cardinality(InOp)
    BY <1>1, <1>3, FS_EmptySet
  <2>2. \A p \in Procs : pc[p] \notin CommitPCs /\ pc[p] \notin HoldPCs
    BY <1>1 DEF CommitPCs, HoldPCs
  <2> QED
    BY <1>1, <1>3, <2>1, <2>2 DEF ControlInv
<1>5. SpaceInv
  <2>1. Free = {}
    BY <1>3 DEF Free
  <2>2. Cardinality(Free) = 0
    BY <2>1, FS_EmptySet
  <2>3. Len(lh) = 0 /\ Len(dhead) = 0 /\ 2 <= LOGSIZE
    BY SMTT(30), <1>1, LogAssumption DEF Disciplined
  <2>4. \A p \in Procs : pc[p] \notin {"buf", "check", "append"}
    BY <1>1
  <2> QED
    BY SMTT(30), <1>3, <2>2, <2>3, <2>4, LogAssumption DEF SpaceInv
<1>6. DiskInv
  <2>1. DOMAIN dhead = {}
    BY SMTT(30), <1>1
  <2> QED
    BY <1>1, <2>1 DEF DiskInv, BootInv
<1> QED
  BY <1>2, <1>4, <1>5, <1>6 DEF IInv

\* The invariant is inductive.
LEMMA StepInv == ASSUME Disciplined, IInv, [Next]_vars PROVE IInv'
<1>1. TypeOK'
  BY TypeStep
<1>2. ControlInv'
  BY <1>1, ControlStep
<1> QED
  BY <1>1, <1>2, SpaceStep, DiskStep DEF IInv

\* The inductive invariant always holds.
THEOREM Invariance == ASSUME Disciplined PROVE Spec => []IInv
<1>1. Init => IInv
  BY InitInv
<1>2. IInv /\ [Next]_vars => IInv'
  BY StepInv
<1> QED
  BY <1>1, <1>2, PTL DEF Spec

\* Every variable keeps its type; in particular log.outstanding never exceeds the
\* number of processes and never goes below zero.
THEOREM Typed == ASSUME Disciplined PROVE Spec => []TypeOK
<1>1. IInv => TypeOK
  BY DEF IInv
<1> QED
  BY <1>1, Invariance, PTL

\* bget() never recycles a buffer whose contents are not on disk.
THEOREM RecycleSafe == ASSUME Disciplined PROVE Spec => []RecycledIsOnDisk
<1>1. IInv => RecycledIsOnDisk
  BY DEF IInv, DiskInv, UpInv, BootInv, RecycledIsOnDisk
<1> QED
  BY <1>1, Invariance, PTL

\* Every buffer that log_write() pinned is in the header commit() writes.
THEOREM PinSafe == ASSUME Disciplined PROVE Spec => []PinnedIsLogged
<1>1. IInv => PinnedIsLogged
  BY DEF IInv, DiskInv, UpInv, PinnedIsLogged
<1> QED
  BY <1>1, Invariance, PTL

\* What recovery reads out of a disk, by cases.
LEMMA ReplayEmpty ==
    ASSUME NEW log, NEW blocks \in [Blocks -> Vals]
    PROVE  Replay(<<>>, log, blocks) = blocks
<1>1. Range(<<>>) = {}
  BY SMTT(30) DEF Range
<1> QED
  BY <1>1 DEF Replay

\* If every logged block and every other block hold val, so does what recovery gives.
LEMMA ReplayValue ==
    ASSUME NEW head \in Seq(Blocks), NEW log, NEW blocks, NEW val \in [Blocks -> Vals],
           \A k \in DOMAIN head : log[k] = val[head[k]],
           \A b \in Blocks : b \notin Range(head) => blocks[b] = val[b]
    PROVE  Replay(head, log, blocks) = val
<1>1. ASSUME NEW b \in Blocks PROVE Replay(head, log, blocks)[b] = val[b]
  <2>1. CASE b \in Range(head)
    <3> DEFINE i == CHOOSE j \in DOMAIN head : head[j] = b
    <3>1. \E j \in DOMAIN head : head[j] = b
      BY <2>1 DEF Range
    <3>2. i \in DOMAIN head /\ head[i] = b
      BY <3>1
    <3> HIDE DEF i
    <3>3. Replay(head, log, blocks)[b] = log[i]
      BY <2>1 DEF Replay, i
    <3> QED
      BY <3>2, <3>3
  <2>2. CASE b \notin Range(head)
    BY <2>2 DEF Replay
  <2> QED
    BY <2>1, <2>2
<1>2. Replay(head, log, blocks) = [b \in Blocks |-> Replay(head, log, blocks)[b]]
  BY SMTT(30) DEF Replay
<1>3. val = [b \in Blocks |-> val[b]]
  OBVIOUS
<1> QED
  BY <1>1, <1>2, <1>3

\* Only home blocks that the header does not name show through.
LEMMA ReplaySame ==
    ASSUME NEW head, NEW log, NEW blocks, NEW other,
           \A b \in Blocks : b \notin Range(head) => blocks[b] = other[b]
    PROVE  Replay(head, log, blocks) = Replay(head, log, other)
BY SMTT(30) DEF Replay

\* When no operation is open and none commits, recovery would give what is cached.
THEOREM IdleDurable == ASSUME Disciplined PROVE Spec => []IdleIsDurable
<1>1. IInv => IdleIsDurable
  <2> SUFFICES ASSUME IInv, boot = "up", ~committing, outstanding = 0
               PROVE  Recovered = cache
    BY DEF IdleIsDurable
  <2>0. TypeOK /\ ControlInv /\ UpInv
    BY DEF IInv, DiskInv
  <2>1. InOp = {} /\ lh = <<>>
    BY <2>0, InOpFinite DEF ControlInv
  <2>2. \A p \in Procs : pc[p] \notin CommitPCs /\ hold[p] = None
    BY <2>0, <2>1 DEF ControlInv, InOp, HoldPCs
  <2>3. dhead = <<>> /\ dirty = {} /\ \A b \in Blocks : ~Held(b)
    BY SMTT(30), <2>0, <2>1, <2>2, LogAssumption DEF UpInv, CommitPCs, Held, Range
  <2>4. \A b \in Blocks : cache[b] = home[b]
    BY <2>0, <2>3 DEF UpInv
  <2>5. cache = home
    BY SMTT(30), <2>0, <2>4 DEF TypeOK
  <2> QED
    BY <2>0, <2>3, <2>5, ReplayEmpty DEF Recovered, TypeOK
<1> QED
  BY <1>1, Invariance, PTL

\* A process asleep in begin_op() always has an open call or a commit to wake it.
THEOREM SleepersWakeable == ASSUME Disciplined PROVE Spec => []SleeperHasWaker
<1>1. Init => SleeperHasWaker
  BY DEF Init, SleeperHasWaker
<1>2. IInv /\ SleeperHasWaker /\ [Next]_vars => SleeperHasWaker'
  <2> SUFFICES ASSUME IInv, SleeperHasWaker, [Next]_vars,
                      NEW q \in Procs, pc'[q] = "asleep"
               PROVE  committing' \/ outstanding' > 0
    BY DEF SleeperHasWaker
  <2>0. TypeOK /\ ControlInv /\ outstanding \in Nat /\ outstanding = Cardinality(InOp)
    BY InOpFinite DEF IInv, ControlInv
  <2>1. ASSUME UNCHANGED <<outstanding, committing>>, pc[q] = "asleep"
        PROVE  committing' \/ outstanding' > 0
    BY <2>1 DEF SleeperHasWaker
  <2>2. ASSUME NEW p \in Procs, StartOp(p) \/ Killed(p) \/ LogWriteSteps(p) \/ Sync(p)
        PROVE  committing' \/ outstanding' > 0
    <3>1. UNCHANGED <<outstanding, committing>>
      BY <2>2 DEF StartOp, Killed, LogWriteSteps, LogWrite, LogWriteCheck, LogAppend, Brelse,
                  Sync, LogSync, BSync, logVars
    <3>2. pc' = pc \/ \E l : l # "asleep" /\ pc' = [pc EXCEPT ![p] = l]
      BY <2>2 DEF StartOp, Killed, LogWriteSteps, LogWrite, LogWriteCheck, LogAppend, Brelse,
                  Sync, LogSync, BSync
    <3>3. pc[q] = "asleep"
      BY <2>0, <3>2 DEF TypeOK
    <3> QED
      BY <2>1, <3>1, <3>3
  <2>3. ASSUME NEW p \in Procs, BeginOpSleep(p), boot = "up"
        PROVE  committing' \/ outstanding' > 0
    <3>1. UNCHANGED <<outstanding, committing>> /\ MustWait
      BY <2>3 DEF BeginOpSleep, logVars
    <3>2. CASE ~committing /\ outstanding = 0
      <4>1. lh = <<>>
        BY <2>0, <2>3, <3>2, InOpFinite DEF ControlInv
      <4>2. Len(lh) = 0 /\ (outstanding + 1) * MAXOPBLOCKS = MAXOPBLOCKS
        BY SMTT(30), <3>2, <4>1, LogAssumption
      <4>3. ~NoSpace
        BY SMTT(30), <4>2, LogAssumption DEF NoSpace
      <4> QED
        BY <3>1, <3>2, <4>3 DEF MustWait
    <3> QED
      BY SMTT(30), <2>0, <3>1, <3>2
  <2>4. ASSUME NEW p \in Procs, BeginOpEnter(p)
        PROVE  committing' \/ outstanding' > 0
    BY SMTT(30), <2>0, <2>4 DEF BeginOpEnter, Admit
  <2>5. ASSUME NEW p \in Procs, NEW b \in Blocks, NEW v \in Vals, Modify(p, b, v)
        PROVE  committing' \/ outstanding' > 0
    <3>1. pc[q] = "asleep"
      BY <2>0, <2>5 DEF Modify, TypeOK
    <3> QED
      BY <2>1, <2>5, <3>1 DEF Modify, logVars
  <2>6. ASSUME NEW p \in Procs, EndOp(p)
        PROVE  committing' \/ outstanding' > 0
    <3>1. CASE LastOp
      BY <2>6, <3>1 DEF EndOp
    <3>2. CASE ~LastOp
      <4>1. pc' = [Wakeup(pc) EXCEPT ![p] = Return(p)] /\ Return(p) # "asleep"
        BY <2>6, <3>2 DEF EndOp, Return
      <4> QED
        BY <2>0, <4>1 DEF TypeOK, Wakeup
    <3> QED
      BY <3>1, <3>2
  <2>7. ASSUME NEW p \in Procs, CommitDone(p)
        PROVE  committing' \/ outstanding' > 0
    <3>1. pc' = [Wakeup(pc) EXCEPT ![p] = Return(p)] /\ Return(p) # "asleep"
      BY <2>7 DEF CommitDone, Return
    <3> QED
      BY <2>0, <3>1 DEF TypeOK, Wakeup
  <2>8. ASSUME NEW p \in Procs,
               WriteLog(p) \/ WriteHead(p) \/ InstallTrans(p) \/ ClearHeader(p)
        PROVE  committing' \/ outstanding' > 0
    <3>1. pc[p] \in CommitPCs /\ committing' = committing
      BY <2>8 DEF WriteLog, WriteHead, InstallTrans, ClearHeader, CommitPCs, logVars
    <3> QED
      BY <3>1, CommitFacts
  <2>9. CASE (\E b \in Blocks : Evict(b)) \/ Recover \/ UNCHANGED vars
    <3>1. UNCHANGED <<pc, outstanding, committing>>
      BY <2>9 DEF Evict, Recover, ReadHead, RecoverBlock, RecoverClear, vars, procVars, logVars
    <3> QED
      BY <2>1, <3>1
  <2>10. CASE Crash
    BY <2>10 DEF Crash
  <2> QED
    BY <2>2, <2>3, <2>4, <2>5, <2>6, <2>7, <2>8, <2>9, <2>10
       DEF Next, Up, Step, BeginOp, Commit
<1> QED
  BY <1>1, <1>2, Invariance, PTL DEF Spec

\* Without sys_sync() none of the panics on the log's paths is reached: the log has
\* room for every block, and no operation ends during a commit.
THEOREM PanicFree == ASSUME Disciplined, Syncers = {} PROVE Spec => []NoPanic
<1> DEFINE J == NoPanic /\ \A p \in Procs : pc[p] # "bsync"
<1>1. Init => J
  BY DEF Init, NoPanic
<1>2. IInv /\ J /\ [Next]_vars => J'
  <2> SUFFICES ASSUME IInv, J, [Next]_vars PROVE J'
    OBVIOUS
  <2>0. TypeOK /\ panic = "none" /\ \A p \in Procs : pc[p] # "bsync"
    BY DEF IInv, NoPanic
  <2>1. ASSUME panic' = panic, \A p \in Procs : pc'[p] # "bsync"
        PROVE  J'
    BY <2>0, <2>1 DEF NoPanic
  <2> HIDE DEF J
  <2>2. ASSUME NEW p \in Procs, LogWriteCheck(p)
        PROVE  J'
    <3>1. ~(Len(lh) >= LOGSIZE \/ Len(lh) >= SIZE - 1)
      <4>1. Len(lh) + 2 <= LOGSIZE /\ Len(lh) \in Nat
        BY LogFits DEF IInv, SpaceInv
      <4> QED
        BY SMTT(30), <4>1, LogAssumption DEF Disciplined
    <3>2. pc' = [pc EXCEPT ![p] = "append"] /\ panic' = panic
      BY <2>2, <3>1 DEF LogWriteCheck
    <3> QED
      BY <2>0, <2>1, <3>2 DEF TypeOK
  <2>3. ASSUME NEW p \in Procs, EndOp(p)
        PROVE  J'
    <3>1. ~committing
      <4>1. p \in InOp
        BY <2>3 DEF EndOp, InOp
      <4> QED
        BY <4>1, OpenFacts
    <3>2. panic' = panic
      BY <2>3, <3>1 DEF EndOp
    <3>3. \A q \in Procs : pc'[q] # "bsync"
      <4>1. CASE LastOp
        BY <2>0, <2>3, <4>1 DEF EndOp, TypeOK
      <4>2. CASE ~LastOp
        BY <2>0, <2>3, <4>2 DEF EndOp, TypeOK, Wakeup, Return
      <4> QED
        BY <4>1, <4>2
    <3> QED
      BY <2>1, <3>2, <3>3
  <2>4. ASSUME NEW p \in Procs, CommitDone(p)
        PROVE  J'
    <3>1. panic' = panic /\ \A q \in Procs : pc'[q] # "bsync"
      BY <2>0, <2>4 DEF CommitDone, TypeOK, Wakeup, Return
    <3> QED
      BY <2>1, <3>1
  <2>5. ASSUME NEW p \in Procs,
               \/ StartOp(p) \/ Killed(p) \/ BeginOp(p) \/ LogWrite(p) \/ LogAppend(p)
               \/ Brelse(p) \/ \E b \in Blocks, v \in Vals : Modify(p, b, v)
        PROVE  J'
    <3>1. panic' = panic
      BY <2>5 DEF StartOp, Killed, BeginOp, BeginOpSleep, BeginOpEnter, LogWrite, LogAppend,
                  Brelse, Modify
    <3>2. \E l : l # "bsync" /\ pc' = [pc EXCEPT ![p] = l]
      BY <2>5 DEF StartOp, Killed, BeginOp, BeginOpSleep, BeginOpEnter, LogWrite, LogAppend,
                  Brelse, Modify
    <3> QED
      BY <2>0, <2>1, <3>1, <3>2 DEF TypeOK
  <2>6. ASSUME NEW p \in Procs,
               WriteLog(p) \/ WriteHead(p) \/ InstallTrans(p) \/ ClearHeader(p)
        PROVE  J'
    <3>1. panic' = panic
      BY <2>6 DEF WriteLog, WriteHead, InstallTrans, ClearHeader
    <3>2. \E l : l # "bsync" /\ pc' = [pc EXCEPT ![p] = l]
      BY <2>6 DEF WriteLog, WriteHead, InstallTrans, ClearHeader
    <3> QED
      BY <2>0, <2>1, <3>1, <3>2 DEF TypeOK
  <2>7. ASSUME NEW p \in Procs, Sync(p)
        PROVE  J'
    BY <2>0, <2>7 DEF Sync, LogSync, BSync
  <2>8. CASE (\E b \in Blocks : Evict(b)) \/ Recover \/ UNCHANGED vars
    <3>1. UNCHANGED <<pc, panic>>
      BY <2>8 DEF Evict, Recover, ReadHead, RecoverBlock, RecoverClear, vars, procVars
    <3> QED
      BY <2>0, <2>1, <3>1
  <2>9. CASE Crash
    <3>1. panic' = panic /\ \A p \in Procs : pc'[p] # "bsync"
      BY <2>0, <2>9 DEF Crash
    <3> QED
      BY <2>1, <3>1
  <2> QED
    BY <2>2, <2>3, <2>4, <2>5, <2>6, <2>7, <2>8, <2>9
       DEF Next, Up, Step, LogWriteSteps, Commit
<1>3. J => NoPanic
  OBVIOUS
<1> QED
  BY <1>1, <1>2, <1>3, Invariance, PTL DEF Spec

\* The blocks as a reader sees them: through the cache, or through recovery.
Current == IF boot = "up" THEN cache ELSE Recovered

\* After the commit point, and until the header is erased, recovery gives the cache.
LEMMA CommittedValue ==
    ASSUME IInv, NEW p \in Procs, pc[p] \in {"install", "clear", "erase", "done"}
    PROVE  Recovered = cache
<1>0. pc[p] \in CommitPCs /\ TypeOK
  BY DEF CommitPCs, IInv
<1>1. CommitInv(p) /\ UpInv /\ \A b \in Blocks : ~Held(b)
  BY <1>0, CommitFacts
<1>2. \A b \in Blocks : cache[b] = home[b] \/ b \in dirty
  BY <1>1 DEF UpInv
<1>3. dhead \in Seq(Blocks) /\ lh \in Seq(Blocks) /\ cache \in [Blocks -> Vals]
  BY <1>0 DEF TypeOK
<1>4. \A k \in DOMAIN dhead : dlog[k] = cache[dhead[k]]
  BY SMTT(30), <1>1, <1>3 DEF CommitInv, Copied
<1>5. \A b \in Blocks : b \notin Range(dhead) => home[b] = cache[b]
  BY <1>1, <1>2 DEF CommitInv, UpInv
<1> QED
  BY SMTT(30), <1>3, <1>4, <1>5, ReplayValue DEF Recovered

\* Every step of the log is a step of the atomic disk or changes nothing there.
LEMMA RefinesStep ==
    ASSUME Disciplined, IInv, IInv', [Next]_vars
    PROVE  [Atomic!Next]_(Atomic!vars)
<1>0. TypeOK /\ TypeOK' /\ ControlInv /\ Outside = {} /\ eph = {}
  BY DEF IInv, ControlInv, Disciplined
<1>a. /\ Recovered = Replay(dhead, dlog, home) /\ Recovered' = Replay(dhead', dlog', home')
      /\ Current = (IF boot = "up" THEN cache ELSE Recovered)
      /\ Current' = (IF boot' = "up" THEN cache' ELSE Recovered')
  BY DEF Recovered, Current
<1>b. Atomic!vars = <<Recovered, Current, InOp>>
  BY DEF Atomic!vars, Current
<1>c. ASSUME Recovered' = Recovered, Current' = Current, InOp' = InOp
      PROVE  UNCHANGED Atomic!vars
  BY <1>c DEF Atomic!vars, Current
<1>1. ASSUME NEW p \in Procs, boot = "up",
             \/ StartOp(p) \/ BeginOpSleep(p) \/ Killed(p) \/ LogWrite(p) \/ LogWriteCheck(p)
             \/ LogAppend(p) \/ Brelse(p) \/ BSync(p)
      PROVE  UNCHANGED Atomic!vars
  <2>1. UNCHANGED <<cache, home, dlog, dhead, boot>>
    BY <1>1 DEF StartOp, BeginOpSleep, Killed, LogWrite, LogWriteCheck, LogAppend, Brelse,
                BSync, bufVars, diskVars
  <2>2. InOp' = InOp
    <3>1. CASE StartOp(p) \/ BeginOpSleep(p) \/ Killed(p)
      BY <1>0, <3>1 DEF StartOp, BeginOpSleep, Killed, InOp, TypeOK
    <3>2. CASE LogWrite(p)
      <4>1. p \in InOp
        BY <3>2 DEF LogWrite, InOp
      <4>2. ~(outstanding < 1)
        BY SMTT(30), <4>1, OpenFacts
      <4> QED
        BY <1>0, <3>2, <4>2 DEF LogWrite, InOp, TypeOK
    <3>3. CASE LogWriteCheck(p)
      BY <1>0, <3>3 DEF LogWriteCheck, InOp, TypeOK
    <3>4. CASE LogAppend(p) \/ Brelse(p)
      BY <1>0, <3>4 DEF LogAppend, Brelse, InOp, TypeOK
    <3>5. CASE BSync(p)
      BY <1>0, <3>5 DEF BSync, InOp, TypeOK
    <3> QED
      BY <1>1, <3>1, <3>2, <3>3, <3>4, <3>5
  <2> QED
    BY SMTT(30), <1>a, <1>c, <2>1, <2>2
<1>2. ASSUME NEW p \in Procs, boot = "up", LogSync(p)
      PROVE  UNCHANGED Atomic!vars
  <2>1. p \in InOp /\ UNCHANGED <<cache, home, dhead, boot>>
    BY <1>2 DEF LogSync, InOp, bufVars
  <2>2. dhead = <<>>
    BY <2>1, OpenDisk
  <2>3. Recovered' = Recovered
    BY <1>0, <1>a, <2>1, <2>2, ReplayEmpty DEF TypeOK
  <2>4. InOp' = InOp
    BY <1>0, <1>2 DEF LogSync, InOp, TypeOK
  <2> QED
    BY <1>a, <1>c, <2>1, <2>3, <2>4
<1>3. ASSUME NEW p \in Procs, boot = "up", BeginOpEnter(p)
      PROVE  Atomic!Begin(p)
  <2>1. pc[p] = "begin" /\ pc' = [pc EXCEPT ![p] = "op"]
        /\ UNCHANGED <<cache, home, dlog, dhead, boot>>
    BY <1>0, <1>3 DEF BeginOpEnter, bufVars, diskVars
  <2>2. p \notin InOp /\ InOp' = InOp \cup {p}
    BY SMTT(30), <1>0, <2>1 DEF InOp, TypeOK
  <2>3. Recovered' = Recovered /\ Current' = Current
    BY <1>a, <2>1
  <2> QED
    BY <2>2, <2>3 DEF Atomic!Begin, Current
<1>4. ASSUME NEW p \in Procs, NEW b \in Blocks, NEW v \in Vals, boot = "up", Modify(p, b, v)
      PROVE  Atomic!Write(p, b, v)
  <2>1. /\ pc[p] = "op" /\ pc' = [pc EXCEPT ![p] = "buf"]
        /\ cache' = [cache EXCEPT ![b] = v] /\ UNCHANGED <<home, dlog, dhead, boot>>
    BY <1>0, <1>4 DEF Modify, diskVars
  <2>2. p \in InOp /\ InOp' = InOp
    BY <1>0, <2>1 DEF InOp, TypeOK
  <2>3. Recovered' = Recovered /\ Current' = [Current EXCEPT ![b] = v]
    BY <1>4, <1>a, <2>1
  <2> QED
    BY SMTT(30), <2>2, <2>3 DEF Atomic!Write, Current
<1>5. ASSUME NEW p \in Procs, boot = "up", EndOp(p)
      PROVE  Atomic!End(p)
  <2>1. p \in InOp /\ pc[p] \in {"end", "op"} /\ UNCHANGED <<cache, home, dlog, dhead, boot>>
    BY <1>5 DEF EndOp, InOp, bufVars, diskVars
  <2>2. /\ pc'[p] \in {"idle", "wlog", "done"}
        /\ \A q \in Procs : q # p =>
              pc'[q] = pc[q] \/ (pc[q] = "asleep" /\ pc'[q] = "begin")
    <3>1. CASE LastOp
      BY <1>0, <1>5, <3>1 DEF EndOp, TypeOK
    <3>2. CASE ~LastOp
      BY <1>0, <1>5, <3>2 DEF EndOp, TypeOK, Wakeup, Return
    <3> QED
      BY <3>1, <3>2
  <2>3. InOp' = InOp \ {p}
    BY <2>1, <2>2 DEF InOp
  <2>4. Recovered' = Recovered /\ Current' = Current
    BY <1>a, <2>1
  <2> QED
    BY <2>1, <2>3, <2>4 DEF Atomic!End, Current
<1>6. ASSUME NEW p \in Procs, Commit(p)
      PROVE  Atomic!Commit \/ UNCHANGED Atomic!vars
  <2>1. pc[p] \in CommitPCs
    BY <1>6 DEF Commit, WriteLog, WriteHead, InstallTrans, ClearHeader, CommitDone, CommitPCs
  <2>2. boot = "up" /\ InOp = {} /\ CommitInv(p) /\ UpInv
    BY <2>1, CommitFacts
  <2>3. boot' = "up"
    BY <1>6, <2>2 DEF Commit, WriteLog, WriteHead, InstallTrans, ClearHeader, CommitDone
  <2>4. InOp' = InOp
    <3>1. \A q \in Procs : \/ pc'[q] = pc[q] \/ pc'[q] \in CommitPCs
                           \/ pc'[q] \in {"idle", "begin"}
      <4>1. CASE CommitDone(p)
        BY <1>0, <4>1 DEF TypeOK, CommitDone, Wakeup, Return
      <4>2. CASE ~CommitDone(p)
        BY <1>0, <1>6, <4>2 DEF TypeOK, Commit, WriteLog, WriteHead, InstallTrans, ClearHeader,
                                CommitPCs
      <4> QED
        BY <4>1, <4>2
    <3> QED
      BY <2>2, <3>1 DEF InOp, CommitPCs
  <2>5. CASE WriteLog(p)
    <3>1. pc[p] = "wlog" /\ UNCHANGED <<cache, home, dhead>>
      BY <2>5 DEF WriteLog, bufVars
    <3>2. dhead = <<>>
      BY <2>1, <2>2, <3>1, CommitFacts DEF UpInv, CommitPCs
    <3>3. Recovered' = Recovered
      BY <1>0, <1>a, <3>1, <3>2, ReplayEmpty DEF TypeOK
    <3> QED
      BY <1>a, <1>c, <2>2, <2>3, <2>4, <3>1, <3>3
  <2>6. CASE WriteHead(p) /\ pc[p] = "whead"
    <3>1. pc'[p] = "install" /\ cache' = cache
      BY SMTT(30), <1>0, <2>6 DEF WriteHead, TypeOK, bufVars
    <3>2. dhead' = lh /\ dlog' = dlog /\ home' = home /\ Copied(Len(lh))
      BY <2>2, <2>6 DEF WriteHead, CommitInv
    <3>3. lh \in Seq(Blocks) /\ cache \in [Blocks -> Vals] /\ DOMAIN lh = 1..Len(lh)
      BY SMTT(30), <1>0 DEF TypeOK
    <3>7. \A k \in DOMAIN lh : dlog[k] = cache[lh[k]]
      BY SMTT(30), <3>2, <3>3 DEF Copied
    <3>4. \A b \in Blocks : b \notin Range(lh) => home[b] = cache[b]
      BY <2>1, <2>2, CommitFacts DEF UpInv
    <3>5. Recovered' = cache
      BY SMTT(30), <1>a, <3>2, <3>3, <3>4, <3>7, ReplayValue
    <3>6. Atomic!Commit
      BY <1>a, <2>2, <2>3, <2>4, <3>1, <3>5 DEF Atomic!Commit, Current
    <3> QED
      BY SMTT(30), <3>6
  <2>7. CASE WriteHead(p) /\ pc[p] = "erase"
    <3>1. /\ lh = <<>> /\ dirty = {} /\ dhead' = lh
          /\ UNCHANGED <<cache, home>>
      BY <2>2, <2>7 DEF WriteHead, CommitInv, bufVars
    <3>2. \A b \in Blocks : cache[b] = home[b]
      BY <2>1, <2>2, <3>1, CommitFacts DEF UpInv
    <3>3. cache = home
      BY SMTT(30), <1>0, <3>2 DEF TypeOK
    <3>4. Recovered = cache
      BY <2>7, CommittedValue
    <3>5. Recovered' = home
      BY <1>0, <1>a, <3>1, ReplayEmpty DEF TypeOK
    <3> QED
      BY <1>a, <1>c, <2>2, <2>3, <2>4, <3>1, <3>3, <3>4, <3>5
  <2>8. CASE InstallTrans(p)
    <3> DEFINE b == lh[tail + 1]
    <3>1. dhead = lh /\ Copied(Len(lh)) /\ tail < Len(lh) /\ InstallBlock
      BY <2>2, <2>8 DEF InstallTrans, CommitInv
    <3>2. /\ tail + 1 \in 1..Len(lh) /\ b \in Blocks /\ b \in Range(dhead)
          /\ dlog[tail + 1] = cache[b]
      BY <3>1, LogFits, InstallType, RangeType DEF Copied
    <3>3. /\ home' = [home EXCEPT ![b] = cache[b]] /\ cache' = [cache EXCEPT ![b] = cache[b]]
          /\ UNCHANGED <<dlog, dhead>>
      BY <3>1, <3>2 DEF InstallBlock
    <3>4. cache' = cache /\ \A c \in Blocks : c \notin Range(dhead) => home'[c] = home[c]
      BY <1>0, <3>2, <3>3 DEF TypeOK
    <3>5. Recovered' = Recovered
      <4>1. Replay(dhead, dlog, home') = Replay(dhead, dlog, home)
        BY <3>4, ReplaySame
      <4> QED
        BY <1>a, <3>3, <4>1
    <3> QED
      BY <1>a, <1>c, <2>2, <2>3, <2>4, <3>4, <3>5
  <2>9. CASE ClearHeader(p) \/ CommitDone(p)
    <3>1. UNCHANGED <<cache, home, dlog, dhead>>
      BY <2>9 DEF ClearHeader, CommitDone, bufVars, diskVars
    <3> QED
      BY <1>a, <1>c, <2>2, <2>3, <2>4, <3>1
  <2> QED
    BY <1>6, <2>5, <2>6, <2>7, <2>8, <2>9 DEF Commit, WriteHead
<1>7. ASSUME NEW b \in Blocks, boot = "up", Evict(b)
      PROVE  UNCHANGED Atomic!vars
  <2>1. cache[b] = home[b]
    BY <1>7 DEF IInv, DiskInv, UpInv, Evict
  <2>2. cache' = cache
    BY <1>0, <1>7, <2>1 DEF Evict, TypeOK
  <2>3. UNCHANGED <<pc, home, dlog, dhead, boot>>
    BY <1>7 DEF Evict, procVars, diskVars
  <2>4. InOp' = InOp
    BY <2>3 DEF InOp
  <2> QED
    BY SMTT(30), <1>a, <1>c, <2>2, <2>3, <2>4
<1>8. CASE Recover
  <2>1. boot # "up" /\ pc' = pc
    BY <1>8 DEF Recover, ReadHead, RecoverBlock, RecoverClear, procVars
  <2>2. InOp' = InOp
    BY <2>1 DEF InOp
  <2>3. BootInv
    BY <2>1 DEF IInv, DiskInv
  <2>4. CASE ReadHead
    <3>1. boot' # "up" /\ UNCHANGED <<home, dlog, dhead>>
      BY <2>4 DEF ReadHead, diskVars
    <3> QED
      BY <1>a, <1>c, <2>1, <2>2, <3>1
  <2>5. CASE RecoverBlock
    <3> DEFINE b == lh[tail + 1]
    <3>1. boot' # "up" /\ InstallBlock /\ lh = dhead /\ tail < Len(lh)
      BY <2>3, <2>5 DEF RecoverBlock, BootInv
    <3>2. b \in Range(dhead) /\ UNCHANGED <<dlog, dhead>>
      BY <3>1, LogFits, InstallType, RangeType
    <3>3. home' = [home EXCEPT ![b] = dlog[tail + 1]]
      BY <3>1 DEF InstallBlock
    <3>4. \A c \in Blocks : c \notin Range(dhead) => home'[c] = home[c]
      BY <1>0, <3>2, <3>3 DEF TypeOK
    <3>5. Recovered' = Recovered
      BY <1>a, <3>2, <3>4, ReplaySame
    <3> QED
      BY <1>a, <1>c, <2>1, <2>2, <3>1, <3>5
  <2>6. CASE RecoverClear
    <3>1. boot' = "up" /\ dhead' = <<>> /\ UNCHANGED <<cache, home>>
      BY <2>6 DEF RecoverClear, bufVars
    <3>2. cache = home /\ \A k \in DOMAIN dhead : home[dhead[k]] = dlog[k]
      BY SMTT(30), <2>3, <2>6 DEF RecoverClear, BootInv
    <3>3. Recovered = home
      <4>1. dhead \in Seq(Blocks) /\ home \in [Blocks -> Vals]
        BY <1>0 DEF TypeOK
      <4>2. \A k \in DOMAIN dhead : dlog[k] = home[dhead[k]]
        BY <3>2
      <4>3. Replay(dhead, dlog, home) = home
        BY SMTT(30), <4>1, <4>2, ReplayValue
      <4> QED
        BY <1>a, <4>3
    <3>4. Recovered' = home
      BY <1>0, <1>a, <3>1, ReplayEmpty DEF TypeOK
    <3> QED
      BY <1>a, <1>c, <2>1, <2>2, <3>1, <3>2, <3>3, <3>4
  <2> QED
    BY <1>8, <2>4, <2>5, <2>6 DEF Recover
<1>9. CASE Crash
  <2>1. InOp' = {}
    BY <1>9 DEF Crash, InOp
  <2>2. boot' = "off" /\ UNCHANGED <<home, dlog, dhead>>
    BY <1>9 DEF Crash, diskVars
  <2>3. Recovered' = Recovered /\ Current' = Recovered
    BY <1>a, <2>2
  <2> QED
    BY <2>1, <2>3 DEF Atomic!Crash, Atomic!Next, Current
<1>10. CASE UNCHANGED vars
  <2>1. UNCHANGED <<pc, cache, home, dlog, dhead, boot>>
    BY <1>10 DEF vars, procVars, bufVars, diskVars
  <2>2. InOp' = InOp
    BY <2>1 DEF InOp
  <2> QED
    BY <1>a, <1>c, <2>1, <2>2
<1>11. ASSUME NEW p \in Procs, boot = "up", Step(p)
       PROVE  [Atomic!Next]_(Atomic!vars)
  <2>1. CASE \E b \in Blocks, v \in Vals : Modify(p, b, v)
    BY <1>4, <1>11, <2>1 DEF Atomic!Next
  <2>2. CASE EndOp(p) \/ Commit(p) \/ BeginOpEnter(p)
    BY <1>3, <1>5, <1>6, <1>11, <2>2 DEF Atomic!Next
  <2>3. CASE UNCHANGED Atomic!vars
    BY <2>3
  <2> QED
    BY <1>1, <1>2, <1>11, <2>1, <2>2, <2>3 DEF Step, BeginOp, LogWriteSteps, Sync
<1> QED
  BY SMTT(30), <1>7, <1>8, <1>9, <1>10, <1>11 DEF Next, Up

\* Crash atomicity: the log over a disk that fails between any two writes implements
\* a disk on which the effects of whole groups of operations appear at once.
THEOREM Refinement == ASSUME Disciplined PROVE Spec => CrashAtomic
<1>1. Init => Atomic!Init
  <2> SUFFICES ASSUME Init PROVE Atomic!Init
    OBVIOUS
  <2>1. home \in [Blocks -> Vals] /\ dhead = <<>> /\ boot = "off" /\ pc = [p \in Procs |-> "idle"]
    BY DEF Init
  <2>2. Recovered = home
    BY <2>1, ReplayEmpty DEF Recovered
  <2>3. InOp = {}
    BY <2>1 DEF InOp
  <2> QED
    BY <2>1, <2>2, <2>3 DEF Atomic!Init
<1>2. IInv /\ IInv' /\ [Next]_vars => [Atomic!Next]_(Atomic!vars)
  BY RefinesStep
<1> QED
  BY <1>1, <1>2, Invariance, PTL DEF Spec, CrashAtomic, Atomic!Spec

==============================================================================
