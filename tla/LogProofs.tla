------------------------------- MODULE LogProofs -------------------------------
(***************************************************************************)
(* Theorems about the redo log, for any number of processes, blocks and    *)
(* operations, and any log geometry.                                       *)
(***************************************************************************)
EXTENDS Log, TLAPS, FiniteSetTheorems

--------------------------------------------------------------------------------
(* Who may be where: the control part of the inductive invariant. *)

\* A process holds a buffer exactly between its bread() and its brelse().
HoldInv ==
  \A p \in Procs : IF pc[p] \in {"check", "append"} THEN cur[p] \in Home ELSE cur[p] = NoBuf

\* The loops of write_log() and install_trans() stay inside the header.
LoopInv ==
  /\ \A p \in Procs : pc[p] \in {"write_log", "install"} => tail < Len(lh)
  /\ \A p \in Procs : pc[p] = "write_head" => lh # <<>>
  /\ boot = "install" => tail < Len(lh)
  /\ boot = "read_head" => tail = 0

\* log.outstanding counts the open calls; log.committing excludes them.
CountInv ==
  /\ outstanding = Cardinality(Ops)
  /\ committing => Ops = {}
  /\ \A p \in Procs : InCommit(p) => committing
  /\ \A p, q \in Procs : InCommit(p) /\ InCommit(q) => p = q
  /\ panicked \in {"none", "too_big_a_transaction"}
  /\ boot # "up" => ~committing /\ panicked = "none" /\ \A p \in Procs : pc[p] = "idle"

ControlInv == TypeOK /\ HoldInv /\ LoopInv /\ CountInv

\* The sets the cardinality facts are about are finite.
LEMMA OpsFinite == IsFiniteSet(Ops) /\ Cardinality(Ops) \in Nat
<1>1. Ops \in SUBSET Procs
  BY DEF Ops
<1>2. IsFiniteSet(Ops)
  BY <1>1, LogAssumption, FS_Subset
<1> QED
  BY <1>2, FS_CardinalityType

\* Appending a block number to the header gives a header one longer.
LEMMA AppendType ==
  ASSUME NEW S, NEW s \in Seq(S), NEW e \in S
  PROVE  Append(s, e) \in Seq(S) /\ Len(Append(s, e)) = Len(s) + 1
OBVIOUS

\* refcnt stays an unsigned number, whatever is added or taken away.
LEMMA RefUpType ==
  ASSUME refcnt \in [Home -> 0 .. (RefMod - 1)], NEW b \in Home, NEW k \in Int, RefUp(b, k)
  PROVE  refcnt' \in [Home -> 0 .. (RefMod - 1)]
<1>1. \A x \in Int : x % RefMod \in 0 .. (RefMod - 1)
  BY LogAssumption
<1> QED
  BY <1>1 DEF RefUp

\* The control invariant holds when the system comes up on a clean disk.
LEMMA InitControl == Init => ControlInv
<1> SUFFICES ASSUME Init PROVE ControlInv
  OBVIOUS
<1> USE LogAssumption DEF Init
<1>1. DiskTypeOK
  BY DEF DiskTypeOK, Home, OpIds, NoBuf
<1>2. LogTypeOK
  <2>1. <<>> \in Seq(Home)
    OBVIOUS
  <2> QED
    BY <2>1, Zenon DEF LogTypeOK
<1>3. ProcTypeOK
  BY DEF ProcTypeOK, OpIds, NoBuf, CommitPoints
<1>4. HoldInv /\ LoopInv
  BY DEF HoldInv, LoopInv, NoBuf
<1>5. Ops = {}
  BY DEF Ops, InOp
<1>6. CountInv
  BY <1>5, FS_EmptySet DEF CountInv, InCommit, CommitPoints
<1> QED
  BY <1>1, <1>2, <1>3, <1>4, <1>6 DEF ControlInv, TypeOK

\* The control invariant is kept by every step of a call outside commit().
LEMMA CallControl ==
  ASSUME ControlInv, NEW p \in Procs, StartOp(p) \/ BeginOp(p) \/ LogWrite(p)
  PROVE  ControlInv'
<1> USE LogAssumption DEF ControlInv, TypeOK, CommitPoints
<1>1. CASE StartOp(p)
  <2> USE <1>1 DEF StartOp, Goto, logvars, Running
  <2>1. DiskTypeOK' /\ LogTypeOK'
    BY DEF DiskTypeOK, LogTypeOK
  <2>2. ProcTypeOK'
    BY DEF ProcTypeOK, OpIds
  <2>3. HoldInv' /\ LoopInv'
    BY DEF HoldInv, LoopInv, ProcTypeOK
  <2>4. Ops' = Ops
    BY DEF Ops, InOp, ProcTypeOK
  <2>5. CountInv'
    BY <2>4 DEF CountInv, InCommit, ProcTypeOK
  <2> QED
    BY <2>1, <2>2, <2>3, <2>5
<1>2. CASE BeginOp(p)
  <2> USE <1>2 DEF BeginOp, Goto, Running
  <2>1. DiskTypeOK' /\ LogTypeOK'
    BY DEF DiskTypeOK, LogTypeOK
  <2>2. ProcTypeOK'
    BY DEF ProcTypeOK
  <2>3. HoldInv' /\ LoopInv'
    BY DEF HoldInv, LoopInv, ProcTypeOK
  <2>4. CASE MustWait
    <3>1. Ops' = Ops
      BY <2>4 DEF Ops, InOp, ProcTypeOK
    <3>2. CountInv'
      BY <2>4, <3>1 DEF CountInv, InCommit, ProcTypeOK
    <3> QED
      BY <2>1, <2>2, <2>3, <3>2
  <2>5. CASE ~MustWait
    <3>1. Ops' = Ops \cup {p} /\ p \notin Ops
      BY <2>5 DEF Ops, InOp, ProcTypeOK
    <3>2. Cardinality(Ops') = Cardinality(Ops) + 1
      BY <3>1, OpsFinite, FS_AddElement, Zenon
    <3>3. ~committing
      BY <2>5 DEF MustWait
    <3>4. CountInv'
      BY <2>5, <3>2, <3>3 DEF CountInv, InCommit, ProcTypeOK
    <3> QED
      BY <2>1, <2>2, <2>3, <3>4
  <2> QED
    BY <2>4, <2>5
<1>3. CASE LogWriteCheck(p)
  <2> USE <1>3 DEF LogWriteCheck, Goto, logvars, Running
  <2>1. DiskTypeOK' /\ LogTypeOK'
    BY DEF DiskTypeOK, LogTypeOK
  <2>2. ProcTypeOK'
    BY DEF ProcTypeOK
  <2>3. HoldInv' /\ LoopInv'
    BY DEF HoldInv, LoopInv, ProcTypeOK
  <2>4. Ops' = Ops /\ p \in Ops
    BY DEF Ops, InOp, ProcTypeOK
  <2>5. outstanding >= 1
    BY <2>4, OpsFinite, FS_EmptySet DEF CountInv
  <2>6. panicked' \in {"none", "too_big_a_transaction"}
    BY <2>5 DEF LogTypeOK
  <2>7. \A q \in Procs : InCommit(q)' <=> InCommit(q)
    BY DEF InCommit, ProcTypeOK
  <2>8. CountInv'
    BY <2>4, <2>6, <2>7 DEF CountInv
  <2> QED
    BY <2>1, <2>2, <2>3, <2>8
<1>4. CASE LogWriteAppend(p)
  <2> USE <1>4 DEF LogWriteAppend, Goto, Running
  <2>1. cur[p] \in Home
    BY DEF HoldInv
  <2>2. DiskTypeOK'
    BY <2>1, RefUpType DEF DiskTypeOK
  <2>3. LogTypeOK'
    <3>1. lh \in Seq(Home)
      BY DEF LogTypeOK
    <3>2. lh' = lh \/ lh' = Append(lh, cur[p])
      OBVIOUS
    <3>3. lh' \in Seq(Home)
      BY <2>1, <3>1, <3>2, AppendType
    <3> QED
      BY <3>3 DEF LogTypeOK
  <2>4. ProcTypeOK'
    BY <2>1 DEF ProcTypeOK
  <2>5. HoldInv'
    BY DEF HoldInv, ProcTypeOK
  <2>6. Ops' = Ops /\ p \in Ops
    BY DEF Ops, InOp, ProcTypeOK
  <2>7. CountInv'
    BY <2>6 DEF CountInv, InCommit, ProcTypeOK
  <2>8. \A q \in Procs : ~InCommit(q)
    BY <2>6 DEF CountInv
  <2>9. LoopInv'
    BY <2>8 DEF LoopInv, InCommit, ProcTypeOK, CountInv
  <2> QED
    BY <2>2, <2>3, <2>4, <2>5, <2>7, <2>9
<1> QED
  BY <1>1, <1>2, <1>3, <1>4 DEF LogWrite

\* bread() and the change to a buffer inside a call keep it.
LEMMA ModifyControl ==
  ASSUME ControlInv, NEW p \in Procs, NEW b \in Home, Modify(p, b)
  PROVE  ControlInv'
<1> USE LogAssumption DEF ControlInv, TypeOK, CommitPoints, Modify, Goto, logvars, Running
<1>1. DiskTypeOK'
  <2>1. opid[p] \in OpIds
    BY DEF ProcTypeOK
  <2>2. refcnt' \in [Home -> 0 .. (RefMod - 1)]
    BY RefUpType DEF DiskTypeOK
  <2> QED
    BY <2>1, <2>2, Zenon DEF DiskTypeOK
<1>2. LogTypeOK'
  BY DEF LogTypeOK
<1>3. ProcTypeOK'
  BY DEF ProcTypeOK
<1>4. HoldInv' /\ LoopInv'
  BY DEF HoldInv, LoopInv, ProcTypeOK
<1>5. Ops' = Ops
  BY DEF Ops, InOp, ProcTypeOK
<1>6. CountInv'
  BY <1>5 DEF CountInv, InCommit, ProcTypeOK
<1> QED
  BY <1>1, <1>2, <1>3, <1>4, <1>6

\* Recycling an unused buffer in bget() keeps it.
LEMMA RecycleControl ==
  ASSUME ControlInv, NEW b \in Home, Recycle(b)
  PROVE  ControlInv'
<1> USE LogAssumption DEF ControlInv, TypeOK, Recycle, logvars, procvars
<1>1. DiskTypeOK'
  BY DEF DiskTypeOK
<1>2. LogTypeOK' /\ ProcTypeOK'
  BY DEF LogTypeOK, ProcTypeOK
<1>3. HoldInv' /\ LoopInv'
  BY DEF HoldInv, LoopInv
<1>4. CountInv'
  BY DEF CountInv, Ops, InOp, InCommit
<1> QED
  BY <1>1, <1>2, <1>3, <1>4

\* end_op() keeps it: the last call out becomes the only committer.
LEMMA EndOpControl ==
  ASSUME ControlInv, NEW p \in Procs, EndOp(p)
  PROVE  ControlInv'
<1> USE LogAssumption DEF ControlInv, TypeOK, CommitPoints, EndOp, Goto, Running
<1>1. p \in Ops /\ ~committing
  BY DEF Ops, InOp, CountInv
<1>2. Cardinality(Ops \ {p}) = Cardinality(Ops) - 1 /\ outstanding >= 1
  BY <1>1, OpsFinite, FS_RemoveElement, FS_EmptySet DEF CountInv
<1>3. DiskTypeOK'
  BY DEF DiskTypeOK
<1>4. LogTypeOK'
  <2>1. outstanding' \in Nat
    BY <1>2 DEF LogTypeOK
  <2>2. committing' \in BOOLEAN /\ panicked' = "none"
    BY <1>1, Zenon DEF LogTypeOK
  <2> QED
    BY <2>1, <2>2 DEF LogTypeOK
<1>5. CASE outstanding = 1
  <2>1. ProcTypeOK'
    BY <1>5 DEF ProcTypeOK
  <2>2. HoldInv' /\ LoopInv'
    BY <1>5 DEF HoldInv, LoopInv, ProcTypeOK
  <2>3. Ops' = Ops \ {p}
    BY <1>5 DEF Ops, InOp, ProcTypeOK
  <2>4. Ops' = {} /\ outstanding' = Cardinality(Ops')
    <3>1. IsFiniteSet(Ops \ {p}) /\ Cardinality(Ops \ {p}) = 0
      BY <1>2, <1>5, OpsFinite, FS_RemoveElement DEF CountInv
    <3>2. Ops \ {p} = {}
      BY <3>1, FS_EmptySet
    <3>3. outstanding' = 0
      BY <1>5
    <3> QED
      BY <2>3, <3>1, <3>2, <3>3, Zenon
  <2>5. \A q \in Procs : InCommit(q)' => q = p
    BY <1>1, <1>5 DEF CountInv, InCommit, ProcTypeOK
  <2>6. panicked' = "none"
    BY <1>1
  <2>7. CountInv'
    BY <1>5, <2>4, <2>5, <2>6 DEF CountInv
  <2> QED
    BY <1>3, <1>4, <2>1, <2>2, <2>7
<1>6. CASE outstanding # 1
  <2>1. \A q \in Procs : pc'[q] = IF q = p THEN "idle"
                                 ELSE IF pc[q] = "sleep" THEN "begin" ELSE pc[q]
    BY <1>6 DEF ProcTypeOK, WakeLog
  <2>2. pc' = [q \in Procs |-> pc'[q]]
    BY <1>6 DEF WakeLog
  <2>3. ProcTypeOK'
    BY <2>1, <2>2 DEF ProcTypeOK
  <2>4. HoldInv' /\ LoopInv'
    BY <2>1 DEF HoldInv, LoopInv
  <2>5. Ops' = Ops \ {p}
    BY <2>1 DEF Ops, InOp
  <2>6. \A q \in Procs : ~InCommit(q)'
    BY <1>1, <2>1 DEF CountInv, InCommit
  <2>7. panicked' = "none" /\ committing' = committing
    BY <1>1, <1>6
  <2>8. CountInv'
    BY <1>1, <1>2, <2>5, <2>6, <2>7 DEF CountInv
  <2> QED
    BY <1>3, <1>4, <2>3, <2>4, <2>8
<1> QED
  BY <1>5, <1>6

\* The block and the contents that an iteration of write_log() or
\* install_trans() moves are well-typed.
LEMMA LoopTypes ==
  ASSUME TypeOK, tail < Len(lh), Len(lh) <= LOGSIZE
  PROVE  /\ lh[tail + 1] \in Home
         /\ Contents(lh[tail + 1]) \in OpIds
         /\ Contents(tail + 1) \in OpIds
<1> USE LogAssumption DEF TypeOK, DiskTypeOK, LogTypeOK
<1>1. lh[tail + 1] \in Home
  OBVIOUS
<1>2. ASSUME NEW a \in 1 .. (nlog + NHome - 1) PROVE Contents(a) \in OpIds
  BY <1>2 DEF Contents, OpIds, NoBuf
<1>3. lh[tail + 1] \in 1 .. (nlog + NHome - 1) /\ tail + 1 \in 1 .. (nlog + NHome - 1)
  <2>1. \A h \in Home : h \in 1 .. (nlog + NHome - 1)
    BY DEF Home
  <2>2. tail + 1 >= 1 /\ tail + 1 <= LOGSIZE
    OBVIOUS
  <2> QED
    BY <1>1, <2>1, <2>2
<1> QED
  BY <1>1, <1>2, <1>3

\* One iteration of install_trans() keeps the disk, the cache and the counts typed.
LEMMA InstallTypes ==
  ASSUME TypeOK, tail < Len(lh), Len(lh) <= LOGSIZE, InstallOne(lh)
  PROVE  DiskTypeOK'
<1> DEFINE b == lh[tail + 1]
<1>1. b \in Home /\ Contents(tail + 1) \in OpIds
  BY LoopTypes
<1>2. refcnt' \in [Home -> 0 .. (RefMod - 1)]
  BY <1>1, RefUpType DEF InstallOne, TypeOK, DiskTypeOK
<1>3. /\ disk' = [disk EXCEPT ![b] = Contents(tail + 1)]
      /\ cache' = [cache EXCEPT ![b] = Contents(tail + 1)]
  BY DEF InstallOne
<1> QED
  BY <1>1, <1>2, <1>3, Zenon DEF TypeOK, DiskTypeOK

\* The committing process moves from one point of commit() to the next.
LEMMA CommitMoves ==
  ASSUME ControlInv, NEW p \in Procs, InCommit(p), NEW l \in CommitPoints, Goto(p, l),
         boot = "up",
         UNCHANGED <<outstanding, committing, panicked, boot, cur, wset, opid, nops, crashes>>
  PROVE  /\ ProcTypeOK' /\ HoldInv' /\ CountInv'
         /\ pc'[p] = l
         /\ \A q \in Procs : q # p => pc'[q] = pc[q] /\ pc[q] \notin CommitPoints
<1> USE DEF ControlInv, TypeOK, Goto
<1>1. ProcTypeOK'
  BY DEF ProcTypeOK, CommitPoints
<1>2. HoldInv'
  BY DEF HoldInv, InCommit, CommitPoints, ProcTypeOK
<1>3. /\ pc'[p] = l
      /\ \A q \in Procs : q # p => pc'[q] = pc[q] /\ pc[q] \notin CommitPoints
  BY DEF CountInv, InCommit, ProcTypeOK
<1>4. Ops' = Ops
  BY <1>3 DEF Ops, InOp, InCommit, CommitPoints
<1>5. \A q \in Procs : InCommit(q)' <=> q = p
  BY <1>3 DEF InCommit
<1>6. CountInv'
  BY <1>4, <1>5 DEF CountInv
<1> QED
  BY <1>1, <1>2, <1>3, <1>6

\* Every phase of commit() keeps it, as long as the header fits the disk.
LEMMA CommitControl ==
  ASSUME ControlInv, Len(lh) <= LOGSIZE, NEW p \in Procs, Commit(p)
  PROVE  ControlInv'
<1> USE LogAssumption DEF ControlInv, TypeOK
<1>1. /\ InCommit(p) /\ committing /\ boot = "up"
      /\ \A q \in Procs : InCommit(q) => q = p
  BY DEF Commit, CommitStart, WriteLog, WriteHead, InstallTrans, ClearHead, CommitDone,
         InCommit, CountInv, Running, CommitPoints
<1>a. /\ "write_log" \in CommitPoints /\ "write_head" \in CommitPoints
      /\ "install" \in CommitPoints /\ "clear" \in CommitPoints /\ "done" \in CommitPoints
  BY DEF CommitPoints
<1>2. CASE CommitStart(p)
  <2> USE <1>2 DEF CommitStart, logvars
  <2>1. DiskTypeOK' /\ LogTypeOK'
    BY DEF DiskTypeOK, LogTypeOK
  <2>2. /\ ProcTypeOK' /\ HoldInv' /\ CountInv'
        /\ pc'[p] = (IF lh = <<>> THEN "done" ELSE "write_log")
        /\ \A q \in Procs : q # p => pc'[q] = pc[q] /\ pc[q] \notin CommitPoints
    BY <1>1, <1>a, CommitMoves
  <2>3. LoopInv'
    <3>1. lh # <<>> => 0 < Len(lh)
      BY DEF LogTypeOK
    <3> QED
      BY <1>1, <1>a, <2>2, <3>1 DEF LoopInv
  <2> QED
    BY <2>1, <2>2, <2>3, Zenon
<1>3. CASE WriteLog(p)
  <2> USE <1>3 DEF WriteLog, logvars
  <2>1. tail < Len(lh)
    BY DEF LoopInv
  <2>2. DiskTypeOK'
    <3>1. Contents(lh[tail + 1]) \in OpIds
      BY <2>1, LoopTypes
    <3>2. disk' \in [1 .. (nlog + NHome - 1) -> OpIds]
      BY <3>1, Zenon DEF DiskTypeOK
    <3>3. cache' \in [Home -> OpIds \cup {NoBuf}]
      BY <3>1 DEF DiskTypeOK
    <3> QED
      BY <3>2, <3>3 DEF DiskTypeOK
  <2>3. LogTypeOK'
    BY DEF LogTypeOK
  <2>4. /\ ProcTypeOK' /\ HoldInv' /\ CountInv'
        /\ pc'[p] = (IF tail + 1 = Len(lh) THEN "write_head" ELSE "write_log")
        /\ \A q \in Procs : q # p => pc'[q] = pc[q] /\ pc[q] \notin CommitPoints
    BY <1>1, <1>a, CommitMoves
  <2>5. LoopInv'
    <3>1. lh # <<>> /\ (tail + 1 # Len(lh) => tail + 1 < Len(lh))
      BY <2>1 DEF LogTypeOK
    <3> QED
      BY <1>1, <1>a, <2>4, <3>1 DEF LoopInv
  <2> QED
    BY <2>2, <2>3, <2>4, <2>5
<1>4. CASE WriteHead(p)
  <2> USE <1>4 DEF WriteHead, logvars
  <2>1. DiskTypeOK' /\ LogTypeOK'
    BY DEF DiskTypeOK, LogTypeOK
  <2>2. /\ ProcTypeOK' /\ HoldInv' /\ CountInv'
        /\ pc'[p] = "install"
        /\ \A q \in Procs : q # p => pc'[q] = pc[q] /\ pc[q] \notin CommitPoints
    BY <1>1, <1>a, CommitMoves
  <2>3. LoopInv'
    <3>1. 0 < Len(lh)
      BY DEF LoopInv, LogTypeOK
    <3> QED
      BY <1>1, <1>a, <2>2, <3>1 DEF LoopInv
  <2> QED
    BY <2>1, <2>2, <2>3
<1>5. CASE InstallTrans(p)
  <2> USE <1>5 DEF InstallTrans, logvars
  <2>1. tail < Len(lh)
    BY DEF LoopInv
  <2>2. DiskTypeOK'
    BY <2>1, InstallTypes
  <2>3. LogTypeOK'
    BY DEF LogTypeOK, InstallOne
  <2>4. /\ ProcTypeOK' /\ HoldInv' /\ CountInv'
        /\ pc'[p] = (IF tail + 1 = Len(lh) THEN "clear" ELSE "install")
        /\ \A q \in Procs : q # p => pc'[q] = pc[q] /\ pc[q] \notin CommitPoints
    BY <1>1, <1>a, CommitMoves
  <2>5. LoopInv'
    <3>1. tail' = tail + 1 /\ (tail + 1 # Len(lh) => tail + 1 < Len(lh))
      BY <2>1 DEF LogTypeOK, InstallOne
    <3> QED
      BY <1>1, <1>a, <2>4, <3>1 DEF LoopInv
  <2> QED
    BY <2>2, <2>3, <2>4, <2>5
<1>6. CASE ClearHead(p)
  <2> USE <1>6 DEF ClearHead
  <2>1. DiskTypeOK' /\ LogTypeOK'
    <3>1. <<>> \in Seq(Home)
      OBVIOUS
    <3> QED
      BY <3>1 DEF DiskTypeOK, LogTypeOK
  <2>2. /\ ProcTypeOK' /\ HoldInv' /\ CountInv'
        /\ pc'[p] = "done"
        /\ \A q \in Procs : q # p => pc'[q] = pc[q] /\ pc[q] \notin CommitPoints
    BY <1>1, <1>a, CommitMoves
  <2>3. LoopInv'
    BY <1>1, <1>a, <2>2 DEF LoopInv
  <2> QED
    BY <2>1, <2>2, <2>3
<1>7. CASE CommitDone(p)
  <2> USE <1>7 DEF CommitDone
  <2>1. \A q \in Procs : pc'[q] = IF q = p THEN "idle"
                                 ELSE IF pc[q] = "sleep" THEN "begin" ELSE pc[q]
    BY DEF ProcTypeOK, WakeLog
  <2>2. pc' = [q \in Procs |-> pc'[q]]
    BY DEF WakeLog
  <2>3. DiskTypeOK' /\ LogTypeOK'
    BY Zenon DEF DiskTypeOK, LogTypeOK
  <2>4. ProcTypeOK'
    BY <2>1, <2>2, Zenon DEF ProcTypeOK
  <2>5. HoldInv'
    BY <1>1, <2>1, Zenon DEF HoldInv, InCommit, CommitPoints
  <2>6. \A q \in Procs : ~InCommit(q)'
    BY <1>1, <2>1, Zenon DEF InCommit, CommitPoints
  <2>7. LoopInv'
    BY <1>1, <2>6, Zenon DEF LoopInv, InCommit, CommitPoints
  <2>8. Ops' = Ops
    BY <1>1, <2>1, Zenon DEF Ops, InOp, InCommit, CommitPoints
  <2>9. CountInv'
    BY <1>1, <2>6, <2>8 DEF CountInv
  <2> QED
    BY <2>3, <2>4, <2>5, <2>7, <2>9
<1> QED
  BY <1>2, <1>3, <1>4, <1>5, <1>6, <1>7 DEF Commit

\* A power failure and every step of recover_from_log() keep it.
LEMMA BootControl ==
  ASSUME ControlInv, Len(lh) <= LOGSIZE, Crash \/ Recover
  PROVE  ControlInv'
<1> USE LogAssumption DEF ControlInv, TypeOK
<1>0. <<>> \in Seq(Home)
  OBVIOUS
<1>1. CASE Crash
  <2> USE <1>1 DEF Crash
  <2>1. DiskTypeOK'
    BY DEF DiskTypeOK
  <2>2. LogTypeOK'
    BY <1>0, Zenon DEF LogTypeOK
  <2>3. ProcTypeOK'
    BY DEF ProcTypeOK, OpIds
  <2>4. HoldInv' /\ LoopInv'
    BY DEF HoldInv, LoopInv
  <2>5. Ops' = {} /\ \A p \in Procs : ~InCommit(p)'
    BY DEF Ops, InOp, InCommit, CommitPoints
  <2>6. CountInv'
    BY <2>5, FS_EmptySet DEF CountInv
  <2> QED
    BY <2>1, <2>2, <2>3, <2>4, <2>6
<1>2. CASE ReadHead
  <2> USE <1>2 DEF ReadHead, procvars
  <2>1. DiskTypeOK' /\ LogTypeOK' /\ ProcTypeOK'
    BY DEF DiskTypeOK, LogTypeOK, ProcTypeOK
  <2>2. tail = 0
    BY DEF LoopInv
  <2>3. HoldInv' /\ LoopInv'
    <3>1. head # <<>> => 0 < Len(head)
      BY DEF LogTypeOK
    <3> QED
      BY <2>2, <3>1 DEF HoldInv, LoopInv, CountInv
  <2>4. CountInv'
    BY DEF CountInv, Ops, InOp, InCommit
  <2> QED
    BY <2>1, <2>3, <2>4
<1>3. CASE RecoverInstall
  <2> USE <1>3 DEF RecoverInstall, procvars, logvars
  <2>1. tail < Len(lh)
    BY DEF LoopInv
  <2>2. DiskTypeOK'
    BY <2>1, InstallTypes
  <2>3. LogTypeOK' /\ ProcTypeOK'
    BY DEF LogTypeOK, ProcTypeOK, InstallOne
  <2>4. HoldInv' /\ LoopInv'
    <3>1. tail' = tail + 1 /\ (tail + 1 # Len(lh) => tail + 1 < Len(lh))
      BY <2>1 DEF LogTypeOK, InstallOne
    <3> QED
      BY <3>1 DEF HoldInv, LoopInv, CountInv
  <2>5. CountInv'
    BY DEF CountInv, Ops, InOp, InCommit
  <2> QED
    BY <2>2, <2>3, <2>4, <2>5
<1>4. CASE RecoverClear
  <2> USE <1>4 DEF RecoverClear, procvars
  <2>1. DiskTypeOK' /\ LogTypeOK' /\ ProcTypeOK'
    BY <1>0 DEF DiskTypeOK, LogTypeOK, ProcTypeOK
  <2>2. HoldInv' /\ LoopInv'
    BY DEF HoldInv, LoopInv, CountInv
  <2>3. CountInv'
    BY DEF CountInv, Ops, InOp, InCommit
  <2> QED
    BY <2>1, <2>2, <2>3
<1> QED
  BY <1>1, <1>2, <1>3, <1>4 DEF Recover

\* So does a step that changes nothing.
LEMMA StutterControl ==
  ASSUME ControlInv, UNCHANGED vars
  PROVE  ControlInv'
BY DEF vars, logvars, procvars, ControlInv, TypeOK, DiskTypeOK, LogTypeOK, ProcTypeOK,
       HoldInv, LoopInv, CountInv, Ops, InOp, InCommit
================================================================================
