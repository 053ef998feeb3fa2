----------------------------- MODULE LogReservation -----------------------------
(***************************************************************************)
(* The space reservation of begin_op(), and the theorems about the log     *)
(* that rest on it and on the control invariant of LogProofs.              *)
(***************************************************************************)
EXTENDS LogProofs

ReserveInv ==
  /\ ReservationHolds
  /\ Len(lh) <= LOGSIZE /\ Len(head) <= LOGSIZE
  /\ \A p \in Ops : wset[p] \subseteq Entries
  /\ \A p \in Procs : pc[p] \in {"begin", "sleep"} => wset[p] = {}
  /\ \A p \in Procs : pc[p] \in {"check", "append"}
                        => Cardinality(wset[p] \cup {cur[p]}) <= MAXOPBLOCKS

\* A set of reserved blocks is no larger than MAXOPBLOCKS per open call.
LEMMA SlotBound ==
  ASSUME NEW O \in SUBSET Procs, NEW R \in SUBSET (O \X (1 .. MAXOPBLOCKS))
  PROVE  /\ IsFiniteSet(R) /\ Cardinality(R) \in Nat
         /\ Cardinality(R) <= Cardinality(O) * MAXOPBLOCKS
<1>1. IsFiniteSet(O)
  BY LogAssumption, FS_Subset
<1>2. IsFiniteSet(1 .. MAXOPBLOCKS) /\ Cardinality(1 .. MAXOPBLOCKS) = MAXOPBLOCKS
  BY LogAssumption, FS_Interval
<1>3. /\ IsFiniteSet(O \X (1 .. MAXOPBLOCKS))
      /\ Cardinality(O \X (1 .. MAXOPBLOCKS)) = Cardinality(O) * MAXOPBLOCKS
  BY <1>1, <1>2, FS_Product, Zenon
<1> QED
  BY <1>3, FS_Subset, FS_CardinalityType

\* What is reserved is at most MAXOPBLOCKS slots of each open call.
LEMMA ReservedSlots ==
  /\ Reserved \in SUBSET (Ops \X (1 .. MAXOPBLOCKS)) /\ Ops \in SUBSET Procs
  /\ Reserved' \in SUBSET (Ops' \X (1 .. MAXOPBLOCKS)) /\ Ops' \in SUBSET Procs
BY DEF Reserved, Ops

\* With no call open nothing is reserved.
LEMMA NothingReserved ==
  /\ Ops = {} => Reserved = {} /\ Cardinality(Reserved) = 0
  /\ Ops' = {} => Reserved' = {} /\ Cardinality(Reserved') = 0
BY ReservedSlots, FS_EmptySet, Zenon

\* The reservation survives a step that reserves no more and logs no more.
LEMMA ReservationShrinks ==
  ASSUME ReservationHolds, boot = "up", lh \in Seq(Home),
         Reserved' \subseteq Reserved, lh' = lh
  PROVE  ReservationHolds'
<1>1. IsFiniteSet(Reserved) /\ Cardinality(Reserved) \in Nat /\ Cardinality(Reserved') \in Nat
  BY ReservedSlots, SlotBound, Zenon
<1>2. Cardinality(Reserved') <= Cardinality(Reserved)
  BY <1>1, FS_Subset
<1> QED
  BY <1>1, <1>2, LogAssumption DEF ReservationHolds

\* Facts about finite sets in the form the steps below use them.
LEMMA AddOne ==
  ASSUME NEW S, IsFiniteSet(S), NEW e
  PROVE  /\ IsFiniteSet(S \cup {e}) /\ Cardinality(S \cup {e}) \in Nat
         /\ Cardinality(S) \in Nat /\ Cardinality(S) <= Cardinality(S \cup {e})
<1>1. Cardinality(S) \in Nat
  BY FS_CardinalityType
<1>2. IsFiniteSet(S \cup {e}) /\ Cardinality(S \cup {e}) \in Nat
  BY FS_AddElement, FS_CardinalityType
<1>3. CASE e \in S
  <2>1. S \cup {e} = S
    BY <1>3
  <2> QED
    BY <2>1, <1>1, <1>2
<1>4. CASE e \notin S
  BY <1>1, <1>2, <1>4, FS_AddElement
<1> QED
  BY <1>3, <1>4

\* Taking one element away.
LEMMA RemoveOne ==
  ASSUME NEW S, IsFiniteSet(S), NEW e \in S
  PROVE  Cardinality(S \ {e}) = Cardinality(S) - 1
BY FS_RemoveElement

\* Two sets of pairs with the same members are equal.
LEMMA SamePairs ==
  ASSUME NEW A, NEW B, NEW S \in SUBSET (A \X B), NEW T \in SUBSET (A \X B),
         \A x \in A, y \in B : <<x, y>> \in S <=> <<x, y>> \in T
  PROVE  S = T
OBVIOUS

\* The blocks a call has logged are finitely many.
LEMMA WsetFinite ==
  ASSUME TypeOK, NEW p \in Procs
  PROVE  IsFiniteSet(wset[p]) /\ Cardinality(wset[p]) \in Nat
<1>1. IsFiniteSet(Home)
  BY LogAssumption, FS_Interval DEF Home
<1>2. wset[p] \in SUBSET Home
  BY DEF TypeOK, ProcTypeOK
<1> QED
  BY <1>1, <1>2, FS_Subset, FS_CardinalityType

\* Initially nothing is logged and nothing is reserved.
LEMMA InitReserve == Init => ReserveInv
<1> SUFFICES ASSUME Init PROVE ReserveInv
  OBVIOUS
<1>1. Ops = {}
  BY DEF Init, Ops, InOp
<1>2. Len(lh) = 0 /\ Len(head) = 0
  BY DEF Init
<1> QED
  BY <1>1, <1>2, NothingReserved, LogAssumption DEF Init, ReserveInv, ReservationHolds

\* The part of the type invariant the reservation argument uses.
LEMMA TypeFacts ==
  ASSUME ControlInv
  PROVE  /\ lh \in Seq(Home) /\ Len(lh) \in Nat /\ outstanding \in Nat
         /\ pc \in [Procs -> {"idle", "begin", "sleep", "op", "check", "append"} \cup CommitPoints]
         /\ cur \in [Procs -> Home \cup {NoBuf}] /\ wset \in [Procs -> SUBSET Home]
BY DEF ControlInv, TypeOK, LogTypeOK, ProcTypeOK

\* begin_op() admits a call only if every block it may write still fits.
LEMMA BeginReserve ==
  ASSUME ControlInv, ReserveInv, NEW p \in Procs, StartOp(p) \/ BeginOp(p)
  PROVE  ReserveInv'
<1>0. /\ lh' = lh /\ head' = head /\ cur' = cur /\ boot' = boot /\ boot = "up"
      /\ \A q \in Procs : q # p => wset'[q] = wset[q] /\ pc'[q] = pc[q]
      /\ wset'[p] \in {wset[p], {}}
  BY TypeFacts DEF StartOp, BeginOp, Goto, logvars, Running
<1>1. pc[p] \in {"idle", "begin"} /\ pc'[p] \in {"begin", "sleep", "op"} /\ wset'[p] = {}
  BY TypeFacts DEF StartOp, BeginOp, Goto, ReserveInv
<1>2. /\ \A q \in Procs : pc'[q] \in {"check", "append"}
                        => Cardinality(wset'[q] \cup {cur'[q]}) <= MAXOPBLOCKS
      /\ \A q \in Procs : pc'[q] \in {"begin", "sleep"} => wset'[q] = {}
  BY <1>0, <1>1 DEF ReserveInv
<1>3. \A q \in Ops' : wset'[q] \subseteq Entries'
  <2>1. Entries' = Entries
    BY <1>0 DEF Entries
  <2>2. \A q \in Ops' : q # p => q \in Ops
    BY <1>0 DEF Ops, InOp
  <2> QED
    BY <1>0, <1>1, <2>1, <2>2 DEF ReserveInv, Ops
<1>4. CASE ~InOp(p)'
  <2>1. \A q \in Procs : InOp(q)' => InOp(q) /\ wset'[q] = wset[q]
    BY <1>0, <1>4 DEF InOp
  <2>2. Reserved' \subseteq Reserved
    BY <2>1 DEF Reserved
  <2>3. ReservationHolds'
    BY <1>0, <2>2, TypeFacts, ReservationShrinks DEF ReserveInv
  <2> QED
    BY <1>0, <1>2, <1>3, <2>3 DEF ReserveInv
<1>5. CASE InOp(p)'
  <2>1. BeginOp(p) /\ ~MustWait
    BY <1>5, TypeFacts DEF StartOp, BeginOp, Goto, InOp
  <2>2. Ops' = Ops \cup {p} /\ p \notin Ops
    BY <1>0, <1>1, <1>5 DEF Ops, InOp
  <2>3. Cardinality(Ops') = outstanding + 1
    <3>1. Cardinality(Ops) = outstanding
      BY DEF ControlInv, CountInv
    <3> QED
      BY <2>2, <3>1, OpsFinite, FS_AddElement
  <2>4. Cardinality(Reserved') \in Nat /\ Cardinality(Reserved') <= (outstanding + 1) * MAXOPBLOCKS
    BY <2>3, ReservedSlots, SlotBound
  <2>5. ~(Len(lh) + (outstanding + 1) * MAXOPBLOCKS > LOGSIZE)
    BY <2>1 DEF MustWait
  <2>6. Len(lh) + Cardinality(Reserved') <= LOGSIZE
    <3>1. (outstanding + 1) * MAXOPBLOCKS \in Nat
      BY LogAssumption, TypeFacts
    <3> QED
      BY <2>4, <2>5, <3>1, TypeFacts, LogAssumption
  <2> QED
    BY <1>0, <1>2, <1>3, <2>6 DEF ReserveInv, ReservationHolds
<1> QED
  BY <1>4, <1>5

\* log_write(): a block that enters the header uses up one reserved block of the
\* call that writes it; an absorbed block uses none.
LEMMA LogWriteReserve ==
  ASSUME ControlInv, ReserveInv, NEW p \in Procs, LogWrite(p)
  PROVE  ReserveInv'
<1>1. CASE LogWriteCheck(p)
  <2>1. /\ lh' = lh /\ head' = head /\ cur' = cur /\ wset' = wset /\ boot' = boot /\ boot = "up"
        /\ pc[p] = "check" /\ pc'[p] = "append" /\ \A q \in Procs : q # p => pc'[q] = pc[q]
    BY <1>1, TypeFacts DEF LogWriteCheck, Goto, logvars, Running
  <2>2. Ops' = Ops /\ Entries' = Entries
    BY <2>1 DEF Ops, InOp, Entries
  <2>3. Reserved' = Reserved
    BY <2>1 DEF Reserved, InOp
  <2>4. ReservationHolds'
    BY <2>1, <2>3, TypeFacts, ReservationShrinks DEF ReserveInv
  <2>5. \A q \in Ops' : wset'[q] \subseteq Entries'
    BY <2>1, <2>2 DEF ReserveInv
  <2>6. /\ \A q \in Procs : pc'[q] \in {"check", "append"}
                        => Cardinality(wset'[q] \cup {cur'[q]}) <= MAXOPBLOCKS
        /\ \A q \in Procs : pc'[q] \in {"begin", "sleep"} => wset'[q] = {}
    BY <2>1 DEF ReserveInv
  <2> QED
    BY <2>1, <2>4, <2>5, <2>6 DEF ReserveInv
<1>2. CASE LogWriteAppend(p)
  <2> DEFINE b == cur[p]
             n == Cardinality(wset[p])
  <2>0. /\ b \in Home /\ head' = head /\ boot = "up" /\ boot' = "up"
        /\ pc[p] = "append" /\ pc'[p] = "op"
        /\ \A q \in Procs : q # p => pc'[q] = pc[q] /\ cur'[q] = cur[q]
    BY <1>2, TypeFacts DEF LogWriteAppend, Goto, Running, ControlInv, HoldInv
  <2>1. wset'[p] = wset[p] \cup {b} /\ \A q \in Procs : q # p => wset'[q] = wset[q]
    BY <1>2, TypeFacts DEF LogWriteAppend
  <2>2. IF b \in Entries THEN lh' = lh ELSE lh' = Append(lh, b)
    BY <1>2 DEF LogWriteAppend
  <2>3. p \in Ops /\ Ops' = Ops /\ \A q \in Procs : InOp(q)' <=> InOp(q)
    BY <2>0 DEF Ops, InOp
  <2>4. /\ \A q \in Procs : pc'[q] \in {"check", "append"}
                        => Cardinality(wset'[q] \cup {cur'[q]}) <= MAXOPBLOCKS
        /\ \A q \in Procs : pc'[q] \in {"begin", "sleep"} => wset'[q] = {}
    BY <2>0, <2>1 DEF ReserveInv
  <2>5. IsFiniteSet(wset[p]) /\ n \in Nat
    BY WsetFinite DEF ControlInv
  <2>a. \A q \in Ops : wset[q] \subseteq Entries
    BY DEF ReserveInv
  <2> HIDE DEF b, n
  <2>6. CASE b \in Entries
    <3>1. lh' = lh /\ Entries' = Entries
      BY <2>2, <2>6 DEF Entries
    <3>2. IsFiniteSet(wset'[p]) /\ Cardinality(wset'[p]) \in Nat /\ n <= Cardinality(wset'[p])
      BY <2>1, <2>5, AddOne DEF n
    <3>3. Reserved' \subseteq Reserved
      BY <2>1, <2>3, <2>5, <3>2 DEF Reserved, n
    <3>4. ReservationHolds'
      BY <2>0, <3>1, <3>3, TypeFacts, ReservationShrinks DEF ReserveInv
    <3>5. \A q \in Ops' : wset'[q] \subseteq Entries'
      BY <2>1, <2>3, <2>6, <2>a, <3>1 DEF Ops
    <3> QED
      BY <2>0, <2>4, <3>1, <3>4, <3>5 DEF ReserveInv
  <2>7. CASE b \notin Entries
    <3>1. lh' = Append(lh, b) /\ Len(lh') = Len(lh) + 1
      BY <2>0, <2>2, <2>7, TypeFacts, AppendType
    <3>2. Entries' = Entries \cup {b}
      <4>1. \A i \in 1 .. Len(lh) : lh'[i] = lh[i]
        BY <2>0, <3>1, TypeFacts
      <4>2. lh'[Len(lh) + 1] = b
        BY <2>0, <3>1, TypeFacts
      <4>3. 1 .. Len(lh') = (1 .. Len(lh)) \cup {Len(lh) + 1}
        BY <3>1, TypeFacts
      <4> QED
        BY <4>1, <4>2, <4>3 DEF Entries
    <3>3. b \notin wset[p]
      BY <2>3, <2>7, <2>a
    <3>4. Cardinality(wset'[p]) = n + 1
      BY <2>1, <2>5, <3>3, FS_AddElement, ZenonT(30) DEF n
    <3>5. n + 1 <= MAXOPBLOCKS
      <4>1. Cardinality(wset[p] \cup {cur[p]}) <= MAXOPBLOCKS
        BY <2>0 DEF ReserveInv
      <4> QED
        BY <2>1, <3>4, <4>1 DEF b
    <3>6. n + 1 \in 1 .. MAXOPBLOCKS
      BY <2>5, <3>5, LogAssumption
    <3>7. <<p, n + 1>> \in Reserved
      <4>1. n + 1 > n
        BY <2>5
      <4> QED
        BY <2>3, <3>6, <4>1 DEF Reserved, Ops, n
    <3>8. Reserved' = Reserved \ {<<p, n + 1>>}
      <4>1. ASSUME NEW q \in Procs, NEW k \in 1 .. MAXOPBLOCKS
            PROVE  <<q, k>> \in Reserved' <=> <<q, k>> \in Reserved \ {<<p, n + 1>>}
        <5>1. CASE q = p
          <6>1. k > n + 1 <=> k > n /\ k # n + 1
            BY <2>5
          <6> QED
            BY <2>3, <3>4, <5>1, <6>1 DEF Reserved, n
        <5>2. CASE q # p
          BY <2>1, <2>3, <5>2 DEF Reserved
        <5> QED
          BY <5>1, <5>2
      <4>2. Reserved' \in SUBSET (Procs \X (1 .. MAXOPBLOCKS))
        BY DEF Reserved
      <4>3. Reserved \ {<<p, n + 1>>} \in SUBSET (Procs \X (1 .. MAXOPBLOCKS))
        BY DEF Reserved
      <4> QED
        BY <4>1, <4>2, <4>3, SamePairs
    <3>9. IsFiniteSet(Reserved) /\ Cardinality(Reserved) \in Nat /\ Cardinality(Reserved') \in Nat
      BY ReservedSlots, SlotBound
    <3>10. Cardinality(Reserved') = Cardinality(Reserved) - 1
      BY <3>7, <3>8, <3>9, RemoveOne
    <3>11. Len(lh') + Cardinality(Reserved') <= LOGSIZE /\ Len(lh') <= LOGSIZE
      <4>1. Len(lh) + Cardinality(Reserved) <= LOGSIZE
        BY <2>0 DEF ReserveInv, ReservationHolds
      <4> QED
        BY <3>1, <3>9, <3>10, <4>1, TypeFacts, LogAssumption
    <3>12. \A q \in Ops' : wset'[q] \subseteq Entries'
      BY <2>1, <2>3, <2>a, <3>2 DEF Ops
    <3> QED
      BY <2>0, <2>4, <3>11, <3>12 DEF ReserveInv, ReservationHolds
  <2> QED
    BY <2>6, <2>7
<1> QED
  BY <1>1, <1>2 DEF LogWrite

\* The remaining steps of a call reserve nothing and log nothing.
LEMMA OtherReserve ==
  ASSUME ControlInv, ReserveInv,
         \/ \E p \in Procs : EndOp(p)
         \/ \E p \in Procs, b \in Home : Modify(p, b)
         \/ \E b \in Home : Recycle(b)
  PROVE  ReserveInv'
<1>0. lh' = lh /\ head' = head /\ wset' = wset /\ boot' = "up" /\ boot = "up"
  BY Zenon DEF EndOp, Modify, Recycle, logvars, procvars, Running
<1>1. \A q \in Procs : /\ InOp(q)' => InOp(q)
                       /\ pc'[q] \in {"begin", "sleep"} => pc[q] \in {"begin", "sleep"}
  <2>1. ASSUME NEW p \in Procs, EndOp(p)
        PROVE  \A q \in Procs : /\ InOp(q)' => InOp(q)
                                /\ pc'[q] \in {"begin", "sleep"} => pc[q] \in {"begin", "sleep"}
    BY <2>1, TypeFacts DEF EndOp, Goto, WakeLog, InOp
  <2>2. ASSUME NEW p \in Procs, NEW b \in Home, Modify(p, b)
        PROVE  \A q \in Procs : /\ InOp(q)' => InOp(q)
                                /\ pc'[q] \in {"begin", "sleep"} => pc[q] \in {"begin", "sleep"}
    BY <2>2, TypeFacts DEF Modify, Goto, InOp
  <2>3. ASSUME NEW b \in Home, Recycle(b)
        PROVE  \A q \in Procs : /\ InOp(q)' => InOp(q)
                                /\ pc'[q] \in {"begin", "sleep"} => pc[q] \in {"begin", "sleep"}
    BY <2>3 DEF Recycle, procvars, InOp
  <2> QED
    BY <2>1, <2>2, <2>3
<1>2. Ops' \subseteq Ops /\ Reserved' \subseteq Reserved /\ Entries' = Entries
  BY <1>0, <1>1 DEF Ops, Reserved, Entries
<1>3. ReservationHolds'
  BY <1>0, <1>2, TypeFacts, ReservationShrinks DEF ReserveInv
<1>4. \A q \in Ops' : wset'[q] \subseteq Entries'
  BY <1>0, <1>2 DEF ReserveInv
<1>5. \A q \in Procs : pc'[q] \in {"begin", "sleep"} => wset'[q] = {}
  BY <1>0, <1>1 DEF ReserveInv
<1>6. ASSUME NEW q \in Procs, pc'[q] \in {"check", "append"}
      PROVE  Cardinality(wset'[q] \cup {cur'[q]}) <= MAXOPBLOCKS
  <2>0. pc[q] \in {"check", "append"} => Cardinality(wset[q] \cup {cur[q]}) <= MAXOPBLOCKS
    BY DEF ReserveInv
  <2>1. ASSUME NEW p \in Procs, NEW b \in Home, Modify(p, b)
        PROVE  Cardinality(wset'[q] \cup {cur'[q]}) <= MAXOPBLOCKS
    <3>1. Cardinality(wset[p] \cup {b}) <= MAXOPBLOCKS
      <4>1. wset[p] \cup {b} \subseteq Home
        BY TypeFacts
      <4>2. IsFiniteSet(Home)
        BY LogAssumption, FS_Interval DEF Home
      <4>3. Cardinality(wset[p] \cup {b}) \in Nat
        BY <4>1, <4>2, FS_Subset, FS_CardinalityType
      <4>4. Cardinality(wset[p] \cup {b}) <= OpBlocks
        BY <2>1 DEF Modify
      <4> QED
        BY <4>3, <4>4, LogAssumption
    <3>2. CASE q = p
      <4>1. wset'[q] = wset[p] /\ cur'[q] = b
        BY <2>1, <3>2, <1>0, TypeFacts DEF Modify
      <4> QED
        BY <4>1, <3>1
    <3>3. CASE q # p
      <4>1. wset'[q] = wset[q] /\ cur'[q] = cur[q] /\ pc'[q] = pc[q]
        BY <2>1, <3>3, <1>0, TypeFacts DEF Modify, Goto
      <4> QED
        BY <4>1, <2>0, <1>6
    <3> QED
      BY <3>2, <3>3
  <2>2. ASSUME NEW p \in Procs, EndOp(p)
        PROVE  Cardinality(wset'[q] \cup {cur'[q]}) <= MAXOPBLOCKS
    <3>1. pc[q] = pc'[q] /\ cur' = cur
      BY <2>2, <1>6, TypeFacts DEF EndOp, Goto, WakeLog
    <3> QED
      BY <3>1, <2>0, <1>0, <1>6
  <2>3. ASSUME NEW b \in Home, Recycle(b)
        PROVE  Cardinality(wset'[q] \cup {cur'[q]}) <= MAXOPBLOCKS
    BY <2>3, <1>0, <2>0, <1>6 DEF Recycle, procvars
  <2> QED
    BY <2>1, <2>2, <2>3
<1> QED
  BY <1>0, <1>3, <1>4, <1>5, <1>6 DEF ReserveInv

\* Commit, crash and recovery run with no call open, so nothing is reserved.
LEMMA QuietReserve ==
  ASSUME ControlInv, ReserveInv, (\E p \in Procs : Commit(p)) \/ Crash \/ Recover
  PROVE  ReserveInv'
<1>0. Len(<<>>) = 0 /\ LOGSIZE \in Nat
  BY LogAssumption
<1>1. \A q \in Procs : /\ ~InOp(q)'
                       /\ pc'[q] \in {"begin", "sleep"} => wset'[q] = {}
  <2>0. \A q \in Procs : pc[q] \in {"begin", "sleep"} => wset[q] = {}
    BY DEF ReserveInv
  <2>1. ASSUME NEW p \in Procs, Commit(p)
        PROVE  \A q \in Procs : /\ ~InOp(q)'
                                /\ pc'[q] \in {"begin", "sleep"} => wset'[q] = {}
    <3>1. pc[p] \in CommitPoints /\ wset' = wset
      BY <2>1 DEF Commit, CommitStart, WriteLog, WriteHead, InstallTrans, ClearHead, CommitDone,
                  CommitPoints
    <3>2. \A q \in Procs : ~InOp(q)
      BY <3>1 DEF ControlInv, CountInv, InCommit, Ops
    <3>3. ASSUME NEW q \in Procs
          PROVE  \/ pc'[q] = pc[q]
                 \/ pc[q] = "sleep" /\ pc'[q] = "begin"
                 \/ q = p /\ pc'[q] \in CommitPoints \cup {"idle"}
      <4>1. CASE CommitDone(p)
        BY <4>1, TypeFacts DEF CommitDone, WakeLog
      <4>2. CASE ~CommitDone(p)
        <5>1. \E l \in CommitPoints : Goto(p, l)
          BY <2>1, <4>2 DEF Commit, CommitStart, WriteLog, WriteHead, InstallTrans, ClearHead,
                            CommitPoints
        <5> QED
          BY <5>1, TypeFacts DEF Goto
      <4> QED
        BY <4>1, <4>2
    <3> QED
      BY SMTT(20), <2>0, <3>1, <3>2, <3>3 DEF InOp, CommitPoints
  <2>2. CASE Crash
    BY SMTT(20), <2>2 DEF Crash, InOp
  <2>3. CASE Recover
    <3>1. pc' = pc /\ wset' = wset /\ boot # "up"
      BY <2>3 DEF Recover, ReadHead, RecoverInstall, RecoverClear, procvars
    <3> QED
      BY <3>1 DEF ControlInv, CountInv, InOp
  <2> QED
    BY <2>1, <2>2, <2>3
<1>2. lh' \in {lh, head, <<>>} /\ head' \in {lh, head, <<>>}
  BY Zenon DEF Commit, CommitStart, WriteLog, WriteHead, InstallTrans, ClearHead,
     CommitDone, Crash, Recover, ReadHead, RecoverInstall, RecoverClear, logvars
<1>3. Len(lh') <= LOGSIZE /\ Len(head') <= LOGSIZE
  BY <1>0, <1>2 DEF ReserveInv
<1>4. Ops' = {}
  BY <1>1 DEF Ops
<1>5. Len(lh') \in Nat
  BY <1>0, <1>2 DEF ControlInv, TypeOK, LogTypeOK
<1>6. Len(lh') + Cardinality(Reserved') <= LOGSIZE
  BY <1>3, <1>4, <1>5, NothingReserved
<1>7. \A q \in Procs : pc'[q] \notin {"check", "append"}
  BY <1>1 DEF InOp
<1> QED
  BY <1>1, <1>3, <1>4, <1>6, <1>7 DEF ReserveInv, ReservationHolds

\* So does a step that changes nothing.
LEMMA StutterReserve ==
  ASSUME ReserveInv, UNCHANGED vars
  PROVE  ReserveInv'
BY DEF ReserveInv, ReservationHolds, Reserved, Ops, InOp, Entries, vars, logvars, procvars

--------------------------------------------------------------------------------
(* The theorems *)

IInv == ControlInv /\ ReserveInv

\* Every step of log.c keeps the inductive invariant.
LEMMA Inductive == IInv /\ [Next]_vars => IInv'
<1> SUFFICES ASSUME IInv, [Next]_vars PROVE IInv'
  OBVIOUS
<1> USE DEF IInv
<1>0. Len(lh) <= LOGSIZE
  BY DEF ReserveInv
<1>1. ASSUME NEW p \in Procs, StartOp(p) \/ BeginOp(p) PROVE IInv'
  BY <1>1, CallControl, BeginReserve
<1>2. ASSUME NEW p \in Procs, LogWrite(p) PROVE IInv'
  BY <1>2, CallControl, LogWriteReserve
<1>3. ASSUME NEW p \in Procs, EndOp(p) PROVE IInv'
  BY <1>3, EndOpControl, OtherReserve
<1>4. ASSUME NEW p \in Procs, Commit(p) PROVE IInv'
  BY <1>4, <1>0, CommitControl, QuietReserve
<1>5. ASSUME NEW p \in Procs, NEW b \in Home, Modify(p, b) PROVE IInv'
  BY <1>5, ModifyControl, OtherReserve
<1>6. ASSUME NEW b \in Home, Recycle(b) PROVE IInv'
  BY <1>6, RecycleControl, OtherReserve
<1>7. CASE Crash \/ Recover
  BY <1>7, <1>0, BootControl, QuietReserve
<1>8. CASE UNCHANGED vars
  BY <1>8, StutterControl, StutterReserve
<1> QED
  BY <1>1, <1>2, <1>3, <1>4, <1>5, <1>6, <1>7, <1>8 DEF Next

\* The inductive invariant holds in every reachable state.
LEMMA Invariance == Spec => []IInv
<1>1. Init => IInv
  BY InitControl, InitReserve DEF IInv
<1> QED
  BY <1>1, Inductive, PTL DEF Spec

\* Types: in particular every index write_log() and install_trans() use is a
\* block of the disk, for every log geometry mkfs may choose.
THEOREM TypeCorrect == Spec => []TypeOK
<1>1. IInv => TypeOK
  BY DEF IInv, ControlInv
<1> QED
  BY <1>1, Invariance, PTL

\* commit() runs alone: no call is open and no second commit runs while one
\* process is in commit(), for any number of processes.
THEOREM CommitAlone == Spec => []CommitExclusive
<1>1. IInv => CommitExclusive
  <2> SUFFICES ASSUME IInv PROVE CommitExclusive
    OBVIOUS
  <2> USE DEF IInv, ControlInv, CountInv
  <2>1. ASSUME NEW p \in Procs, InCommit(p)
        PROVE  committing /\ outstanding = 0 /\ \A q \in Procs : ~InOp(q) /\ (InCommit(q) => q = p)
    BY <2>1, FS_EmptySet DEF Ops
  <2> QED
    BY <2>1 DEF CommitExclusive
<1> QED
  BY <1>1, Invariance, PTL

\* begin_op()'s admission test keeps block[LOGSIZE] from overflowing, although
\* log_write() looks at lh.n without log.lock, for any number of processes and
\* any MAXOPBLOCKS and LOGSIZE.
THEOREM ReservationKept == Spec => []ReservationHolds
<1>1. IInv => ReservationHolds
  BY DEF IInv, ReserveInv
<1> QED
  BY <1>1, Invariance, PTL

--------------------------------------------------------------------------------
(* What a call leaves of its reservation, when it writes fewer blocks. *)

\* Each open call has logged, and is about to log, at most OpBlocks blocks.
BudgetInv ==
  /\ \A p \in Ops : Cardinality(wset[p]) <= OpBlocks
  /\ \A p \in Procs : pc[p] \in {"check", "append"}
                        => Cardinality(wset[p] \cup {cur[p]}) <= OpBlocks

\* The blocks that the call adding an entry reserved and will not write.
Slack == MAXOPBLOCKS - OpBlocks

\* They stay free, in memory and on disk.
RoomInv ==
  /\ lh # <<>> => Len(lh) + Slack <= LOGSIZE
  /\ head # <<>> => Len(head) + Slack <= LOGSIZE
  /\ OpBlocks < MAXOPBLOCKS /\ LOGSIZE + OpBlocks + 1 < nlog + MAXOPBLOCKS => panicked = "none"

\* The entries have blocks of the log to go to.
FitsLog == Len(lh) < nlog

\* No step lets a call exceed what it really writes.
LEMMA BudgetStep ==
  ASSUME IInv, BudgetInv, [Next]_vars
  PROVE  BudgetInv'
<1> USE LogAssumption DEF BudgetInv, Ops, InOp
<1>0. /\ pc \in [Procs -> {"idle", "begin", "sleep", "op", "check", "append"} \cup CommitPoints]
      /\ cur \in [Procs -> Home \cup {NoBuf}] /\ wset \in [Procs -> SUBSET Home]
  BY TypeFacts DEF IInv
<1>1. ASSUME NEW p \in Procs, StartOp(p) PROVE BudgetInv'
  BY <1>0, <1>1 DEF StartOp, Goto
<1>2. ASSUME NEW p \in Procs, BeginOp(p) PROVE BudgetInv'
  <2>1. wset[p] = {} /\ Cardinality(wset[p]) = 0
    BY <1>2, FS_EmptySet DEF BeginOp, IInv, ReserveInv
  <2> QED
    BY <1>0, <1>2, <2>1 DEF BeginOp, Goto
<1>3. ASSUME NEW p \in Procs, LogWriteCheck(p) PROVE BudgetInv'
  BY <1>0, <1>3 DEF LogWriteCheck, Goto
<1>4. ASSUME NEW p \in Procs, LogWriteAppend(p) PROVE BudgetInv'
  BY <1>0, <1>4 DEF LogWriteAppend, Goto
<1>5. ASSUME NEW p \in Procs, EndOp(p) PROVE BudgetInv'
  BY <1>0, <1>5 DEF EndOp, Goto, WakeLog
<1>6. ASSUME NEW p \in Procs, Commit(p) PROVE BudgetInv'
  <2>1. /\ wset' = wset /\ cur' = cur
        /\ \A q \in Procs : pc'[q] \in {"op", "check", "append"} => pc'[q] = pc[q]
    BY <1>0, <1>6 DEF Commit, CommitStart, WriteLog, WriteHead, InstallTrans, ClearHead,
         CommitDone, Goto, WakeLog
  <2> QED
    BY <2>1
<1>7. ASSUME NEW p \in Procs, NEW b \in Home, Modify(p, b) PROVE BudgetInv'
  BY <1>0, <1>7 DEF Modify, Goto
<1>8. CASE Crash
  BY <1>8 DEF Crash
<1>9. CASE Recover \/ (\E b \in Home : Recycle(b)) \/ UNCHANGED vars
  <2>1. UNCHANGED <<pc, cur, wset>>
    BY <1>9 DEF Recover, ReadHead, RecoverInstall, RecoverClear, Recycle, vars, procvars
  <2> QED
    BY <2>1
<1> QED
  BY <1>1, <1>2, <1>3, <1>4, <1>5, <1>6, <1>7, <1>8, <1>9 DEF Next, LogWrite

\* An open call still holds its slack.
SlackInv == \A p \in Ops : Len(lh) + Slack <= LOGSIZE

LEMMA SlackFree == IInv /\ BudgetInv => SlackInv
<1> SUFFICES ASSUME IInv, BudgetInv, NEW p \in Ops PROVE Len(lh) + Slack <= LOGSIZE
  BY DEF SlackInv
<1> DEFINE S == (OpBlocks + 1) .. MAXOPBLOCKS
<1>1. /\ Len(lh) \in Nat /\ p \in Procs /\ boot = "up"
  BY TypeFacts DEF IInv, ControlInv, CountInv, Ops, InOp
<1>2. OpBlocks \in Nat /\ MAXOPBLOCKS \in Nat /\ OpBlocks <= MAXOPBLOCKS /\ LOGSIZE \in Nat
  BY LogAssumption
<1>3. IsFiniteSet(S) /\ Cardinality(S) = Slack /\ Slack \in Nat
  <2>1. OpBlocks + 1 \in Int /\ MAXOPBLOCKS \in Int
    BY <1>2
  <2>2. /\ IsFiniteSet(S)
        /\ Cardinality(S) = IF OpBlocks + 1 > MAXOPBLOCKS THEN 0
                            ELSE MAXOPBLOCKS - (OpBlocks + 1) + 1
    BY <2>1, FS_Interval
  <2> QED
    BY <1>2, <2>2 DEF Slack
<1>4. /\ IsFiniteSet({p} \X S)
      /\ Cardinality({p} \X S) = Slack
  <2>1. IsFiniteSet({p}) /\ Cardinality({p}) = 1
    BY FS_Singleton
  <2>2. /\ IsFiniteSet({p} \X S)
        /\ Cardinality({p} \X S) = Cardinality({p}) * Cardinality(S)
    BY <1>3, <2>1, FS_Product, Zenon
  <2> QED
    BY <1>3, <2>1, <2>2
<1>5. ({p} \X S) \subseteq Reserved
  <2>1. Cardinality(wset[p]) \in Nat /\ Cardinality(wset[p]) <= OpBlocks /\ InOp(p)
    BY <1>1, WsetFinite DEF IInv, ControlInv, BudgetInv, Ops
  <2> QED
    BY <1>1, <1>2, <2>1 DEF Reserved
<1>6. IsFiniteSet(Reserved) /\ Cardinality(Reserved) \in Nat
  BY ReservedSlots, SlotBound, Zenon
<1>7. Slack <= Cardinality(Reserved)
  BY <1>4, <1>5, <1>6, FS_Subset
<1> QED
  BY <1>1, <1>2, <1>3, <1>6, <1>7 DEF IInv, ReserveInv, ReservationHolds

\* The header grows only in log_write(), whose call keeps its slack.
LEMMA RoomStep ==
  ASSUME IInv, BudgetInv, RoomInv, [Next]_vars
  PROVE  RoomInv'
<1>0. IInv' /\ BudgetInv'
  BY Inductive, BudgetStep
<1>1. ASSUME NEW p \in Procs, LogWriteAppend(p) PROVE RoomInv'
  <2>1. (p \in Ops)'
    BY <1>1, TypeFacts DEF LogWriteAppend, Goto, Ops, InOp, IInv
  <2>2. SlackInv'
    BY <1>0, SlackFree, PTL
  <2> QED
    BY <1>1, <2>1, <2>2 DEF LogWriteAppend, RoomInv, SlackInv, Slack
<1>2. ASSUME NEW p \in Procs, LogWriteCheck(p) PROVE RoomInv'
  <2>1. p \in Ops
    BY <1>2 DEF LogWriteCheck, Ops, InOp
  <2>2. Len(lh) + Slack <= LOGSIZE /\ Len(lh) \in Nat
    BY <2>1, SlackFree, TypeFacts DEF IInv, SlackInv
  <2>3. panicked' \in {"none", "too_big_a_transaction"}
    BY <1>0 DEF IInv, ControlInv, CountInv
  <2>4. OpBlocks < MAXOPBLOCKS /\ LOGSIZE + OpBlocks + 1 < nlog + MAXOPBLOCKS
          => ~(Len(lh) >= LOGSIZE \/ Len(lh) >= nlog - 1)
    BY <2>2, LogAssumption DEF Slack
  <2> QED
    BY <1>2, <2>3, <2>4 DEF LogWriteCheck, RoomInv, logvars
<1>3. ASSUME NEW p \in Procs, EndOp(p) PROVE RoomInv'
  <2>1. panicked' = "none" \/ panicked' = "log_committing"
    BY <1>3 DEF EndOp
  <2>2. panicked' = "none"
    BY <1>0, <2>1 DEF IInv, ControlInv, CountInv
  <2> QED
    BY <1>3, <2>2 DEF EndOp, RoomInv
<1>4. CASE UNCHANGED <<lh, head, panicked>>
  BY <1>4 DEF RoomInv
<1>5. ASSUME NEW p \in Procs, WriteHead(p) \/ ClearHead(p) PROVE RoomInv'
  BY <1>5 DEF WriteHead, ClearHead, RoomInv, logvars
<1>6. CASE Crash \/ ReadHead \/ RecoverClear
  BY <1>6 DEF Crash, ReadHead, RecoverClear, RoomInv
<1>7. ASSUME NEW p \in Procs, NEW b \in Home,
             \/ StartOp(p) \/ BeginOp(p) \/ Modify(p, b) \/ Recycle(b) \/ CommitStart(p)
             \/ WriteLog(p) \/ InstallTrans(p) \/ CommitDone(p)
      PROVE  UNCHANGED <<lh, head, panicked>>
  BY <1>7 DEF StartOp, BeginOp, Modify, Recycle, CommitStart, WriteLog, InstallTrans,
       CommitDone, logvars
<1>8. CASE RecoverInstall \/ UNCHANGED vars
  BY <1>4, <1>8 DEF RecoverInstall, vars, logvars
<1>9. nlog \in Home
  BY LogAssumption DEF Home
<1>10. ASSUME NEW b \in Home, Recycle(b) PROVE RoomInv'
  BY <1>4, <1>10 DEF Recycle, logvars
<1> QED
  BY <1>1, <1>2, <1>3, <1>4, <1>5, <1>6, <1>7, <1>8, <1>9, <1>10 DEF Next, LogWrite, Commit, Recover

\* The slack of the last call to log a block is never used up.
LEMMA RoomKept == Spec => [](IInv /\ BudgetInv /\ RoomInv)
<1>1. Init => IInv /\ BudgetInv /\ RoomInv
  BY InitControl, InitReserve DEF IInv, Init, BudgetInv, RoomInv, Ops, InOp
<1>2. IInv /\ BudgetInv /\ RoomInv /\ [Next]_vars => (IInv /\ BudgetInv /\ RoomInv)'
  BY Inductive, BudgetStep, RoomStep
<1> QED
  BY <1>1, <1>2, PTL DEF Spec

\* write_log() stays inside the on-disk log of nlog blocks, header included, if
\* log.lh is shorter than that or, as mkfs lays the disk out, just as long and
\* every call writes fewer blocks than begin_op() reserved for it.
THEOREM LogFits ==
  ASSUME LOGSIZE + OpBlocks < nlog + MAXOPBLOCKS
  PROVE  Spec => []FitsLog
<1>1. IInv /\ RoomInv => FitsLog
  <2> SUFFICES ASSUME IInv, RoomInv PROVE FitsLog
    OBVIOUS
  <2>1. Len(lh) \in Nat /\ (lh = <<>> => Len(lh) = 0)
    BY TypeFacts DEF IInv
  <2> QED
    BY <2>1, LogAssumption DEF RoomInv, FitsLog, Slack
<1> QED
  BY <1>1, RoomKept, PTL

\* log_write() never panics with "too big a transaction" if every call leaves two
\* blocks of its reservation unused and the log is laid out as mkfs does it; one
\* is enough if the on-disk log has a block more than that.
THEOREM BudgetSuffices ==
  ASSUME OpBlocks < MAXOPBLOCKS, LOGSIZE + OpBlocks + 1 < nlog + MAXOPBLOCKS
  PROVE  Spec => []NoTooBigTransaction
<1>1. RoomInv => NoTooBigTransaction
  BY DEF RoomInv, NoTooBigTransaction
<1> QED
  BY <1>1, RoomKept, PTL
================================================================================
