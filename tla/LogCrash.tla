-------------------------------- MODULE LogCrash --------------------------------
(***************************************************************************)
(* Crash atomicity of the redo log for any number of processes, blocks,    *)
(* calls and power failures and any log geometry, on behaviours in which   *)
(* every transaction fits the on-disk log.                                 *)
(***************************************************************************)
EXTENDS LogReservation

\* A reference count can hold a pin and a holder.
RefAssumption == RefMod > 2

At(l) == \E p \in Procs : pc[p] = l

\* install_trans() has copied entry i to its home block.
Done(i) ==
  \/ At("clear") \/ boot = "clear"
  \/ (At("install") \/ boot = "install") /\ i <= tail

Held(b) == \E p \in Procs : cur[p] = b
Pinned(b) == \E i \in 1 .. Len(lh) : lh[i] = b /\ ~Done(i)

\* The header on disk is empty but for the time between write_head() and the
\* end of the installation.
HeadInv ==
  /\ boot = "up" /\ ~At("install") /\ ~At("clear") => head = <<>>
  /\ At("install") \/ At("clear") \/ boot \in {"install", "clear"} => head = lh
  /\ boot = "read_head" => lh = <<>>

\* A changed buffer is cached while it is held or logged and not installed; all
\* the others agree with the disk.
CleanInv ==
  \A b \in Home :
    IF Held(b) \/ Pinned(b) THEN boot = "up" => cache[b] # NoBuf
    ELSE cache[b] \in {NoBuf, disk[b]}

\* Before the first power failure a reference count is the holder plus the pin.
RefInv ==
  /\ crashes = 0 =>
       /\ boot = "up"
       /\ \A b \in Home :
            refcnt[b] = (IF Held(b) THEN 1 ELSE 0) + (IF Pinned(b) THEN 1 ELSE 0)
  /\ \A p, q \in Procs : cur[p] = cur[q] /\ cur[p] # NoBuf => p = q

\* write_log() copies the logged blocks, install_trans() brings them home.
CopyInv ==
  /\ At("write_log") => \A i \in 1 .. tail : disk[i] = Contents(lh[i])
  /\ At("write_head") \/ At("install") \/ At("clear")
       => \A i \in 1 .. Len(lh) : disk[i] = Contents(lh[i])
  /\ \A i \in 1 .. Len(lh) : Done(i) => disk[lh[i]] = disk[i]

CrashInv == NoDuplicateEntries /\ HeadInv /\ CleanInv /\ RefInv /\ CopyInv
--------------------------------------------------------------------------------
(* Facts the steps share. *)

\* Home blocks lie behind the log; the entries that fit it have log blocks.
LEMMA Geometry ==
  /\ \A b \in Home : b \in Int /\ b >= nlog /\ b \in 1 .. (nlog + NHome - 1)
  /\ \A i \in Int : i >= 1 /\ i < nlog => i \notin Home /\ i \in 1 .. (nlog + NHome - 1)
  /\ NoBuf \notin Home /\ NoBuf \notin OpIds
BY LogAssumption DEF Home, NoBuf, OpIds

\* Types of what the steps look up.
LEMMA EntryFacts ==
  ASSUME ControlInv, FitsLog
  PROVE  /\ Len(lh) \in Nat /\ tail \in Nat
         /\ \A i \in 1 .. Len(lh) :
              /\ i \in Int /\ i \notin Home /\ i \in 1 .. (nlog + NHome - 1)
              /\ lh[i] \in Home /\ Contents(i) = disk[i]
<1>1. lh \in Seq(Home) /\ tail \in Nat /\ nlog \in Nat
  BY LogAssumption DEF ControlInv, TypeOK, LogTypeOK
<1>2. Len(lh) \in Nat /\ \A i \in 1 .. Len(lh) : lh[i] \in Home
  BY <1>1
<1>3. ASSUME NEW i \in 1 .. Len(lh)
      PROVE  i \in Int /\ i \notin Home /\ i \in 1 .. (nlog + NHome - 1)
  BY <1>1, <1>2, <1>3, Geometry DEF FitsLog
<1> QED
  BY <1>1, <1>2, <1>3 DEF Contents

\* What the stable view is, block by block.
StableShape ==
  /\ StableView = [b \in Home |-> StableView[b]]
  /\ \A i \in 1 .. Len(head) : StableView[head[i]] = disk[i]
  /\ \A b \in Home : (\A i \in 1 .. Len(head) : head[i] # b) => StableView[b] = disk[b]

\* With no block twice in the header the stable view reads each from its log block.
LEMMA StableOf == NoDuplicateEntries /\ head \in Seq(Home) => StableShape
<1> SUFFICES ASSUME NoDuplicateEntries, head \in Seq(Home) PROVE StableShape
  OBVIOUS
<1>1. ASSUME NEW i \in 1 .. Len(head) PROVE StableView[head[i]] = disk[i]
  <2>1. head[i] \in Home
    BY <1>1
  <2>2. (CHOOSE j \in 1 .. Len(head) : head[j] = head[i]) = i
    BY <1>1 DEF NoDuplicateEntries
  <2> QED
    BY <1>1, <2>1, <2>2 DEF StableView
<1> QED
  BY <1>1, Zenon DEF StableView, StableShape

\* A commit is at one place only, and nobody else is near it.
LEMMA CommitAt ==
  ASSUME ControlInv, NEW p \in Procs, pc[p] \in CommitPoints,
         NEW m, pc' = [pc EXCEPT ![p] = m]
  PROVE  /\ \A l \in CommitPoints : (At(l) <=> l = pc[p]) /\ (At(l)' <=> l = m)
         /\ boot = "up" /\ Ops = {} /\ \A q \in Procs : cur[q] = NoBuf
<1>1. /\ pc \in [Procs -> {"idle", "begin", "sleep", "op", "check", "append"} \cup CommitPoints]
      /\ \A q \in Procs : pc[q] \in CommitPoints => q = p
  BY DEF ControlInv, TypeOK, ProcTypeOK, CountInv, InCommit
<1>2. \A l \in CommitPoints : (At(l) <=> l = pc[p]) /\ (At(l)' <=> l = m)
  BY <1>1 DEF At
<1>3. boot = "up" /\ Ops = {}
  BY DEF ControlInv, CountInv, InCommit, CommitPoints
<1>4. \A q \in Procs : cur[q] = NoBuf
  BY <1>3 DEF Ops, InOp, ControlInv, HoldInv
<1> QED
  BY <1>2, <1>3, <1>4

\* The control points of commit() that a step outside it does not touch.
Phases == {"write_log", "write_head", "install", "clear"}

LEMMA OtherAt ==
  ASSUME ControlInv, NEW p \in Procs, pc[p] \notin Phases, NEW m, m \notin Phases,
         \/ pc' = [pc EXCEPT ![p] = m]
         \/ pc' = WakeLog([pc EXCEPT ![p] = m])
  PROVE  \A l \in Phases : At(l)' <=> At(l)
<1>1. DOMAIN pc = Procs
  BY DEF ControlInv, TypeOK, ProcTypeOK
<1>2. CASE pc' = [pc EXCEPT ![p] = m]
  BY <1>1, <1>2 DEF At
<1>3. CASE pc' = WakeLog([pc EXCEPT ![p] = m])
  BY <1>1, <1>3 DEF At, WakeLog, Phases
<1> QED
  BY <1>2, <1>3

\* While a call is open no commit is under way.
LEMMA OpAt ==
  ASSUME ControlInv, NEW p \in Procs, InOp(p)
  PROVE  boot = "up" /\ \A l \in CommitPoints : ~At(l)
<1>1. p \in Ops /\ ~committing
  BY DEF Ops, ControlInv, CountInv
<1> QED
  BY <1>1 DEF At, InOp, InCommit, ControlInv, CountInv, CommitPoints

--------------------------------------------------------------------------------
(* Steps that leave the disk, the cache and the header alone. *)

SameViews == StableView' = StableView /\ StoreView' = StoreView

\* The views and the invariant only look at these variables and at the phase.
LEMMA QuietCrash ==
  ASSUME ControlInv, CrashInv,
         UNCHANGED <<disk, head, cache, refcnt, lh, boot, cur>>,
         crashes' = crashes,
         \A l \in Phases \ {"write_log"} : At(l)' <=> At(l),
         At("write_log")' => tail' = 0 \/ (At("write_log") /\ tail' = tail),
         At("install") \/ boot = "install" => tail' = tail
  PROVE  CrashInv' /\ SameViews
<1>1. /\ At("write_head")' <=> At("write_head")
      /\ At("install")' <=> At("install")
      /\ At("clear")' <=> At("clear")
  BY DEF Phases
<1>2. \A i \in 1 .. Len(lh) : Done(i)' <=> Done(i)
  BY <1>1 DEF Done
<1>3. \A b \in Home : (Held(b)' <=> Held(b)) /\ (Pinned(b)' <=> Pinned(b))
  BY <1>2 DEF Held, Pinned
<1>4. NoDuplicateEntries' /\ HeadInv'
  BY <1>1 DEF CrashInv, NoDuplicateEntries, HeadInv
<1>5. CleanInv' /\ RefInv'
  BY <1>3 DEF CrashInv, CleanInv, RefInv
<1>6. CopyInv'
  BY <1>1, <1>2 DEF CrashInv, CopyInv, Contents
<1>7. SameViews
  BY DEF SameViews, StableView, StoreView, Contents
<1> QED
  BY <1>4, <1>5, <1>6, <1>7 DEF CrashInv

\* begin_op(), the tests of log_write(), end_op() and the ends of commit().
LEMMA CallCrash ==
  ASSUME ControlInv, CrashInv, NEW p \in Procs,
         \/ StartOp(p) \/ BeginOp(p) \/ LogWriteCheck(p) \/ EndOp(p)
         \/ CommitStart(p) \/ CommitDone(p)
  PROVE  CrashInv' /\ SameViews
<1>1. UNCHANGED <<disk, head, cache, refcnt, lh, boot, cur>> /\ crashes' = crashes
  BY DEF StartOp, BeginOp, LogWriteCheck, EndOp, CommitStart, CommitDone, logvars
<1>2. CASE CommitStart(p)
  <2> DEFINE m == IF lh = <<>> THEN "done" ELSE "write_log"
  <2>1. pc[p] = "commit" /\ pc' = [pc EXCEPT ![p] = m] /\ tail' = 0
    BY <1>2 DEF CommitStart, Goto
  <2>2. m \in {"done", "write_log"}
    OBVIOUS
  <2> HIDE DEF m
  <2>3. /\ \A l \in CommitPoints : (At(l) <=> l = pc[p]) /\ (At(l)' <=> l = m)
        /\ boot = "up"
    BY <2>1, CommitAt DEF CommitPoints
  <2>4. /\ \A l \in Phases \ {"write_log"} : At(l)' <=> At(l)
        /\ ~At("install") /\ boot # "install"
    BY <2>1, <2>2, <2>3 DEF CommitPoints, Phases
  <2> QED
    BY <1>1, <2>1, <2>4, QuietCrash
<1>3. CASE StartOp(p) \/ BeginOp(p) \/ LogWriteCheck(p) \/ EndOp(p) \/ CommitDone(p)
  <2>1. /\ pc[p] \notin Phases /\ tail' = tail
        /\ \E m \in {"idle", "begin", "sleep", "op", "append", "commit"} :
             \/ pc' = [pc EXCEPT ![p] = m]
             \/ pc' = WakeLog([pc EXCEPT ![p] = m])
    BY <1>3 DEF StartOp, BeginOp, LogWriteCheck, EndOp, CommitDone, Goto, Phases
  <2>2. \A l \in Phases : At(l)' <=> At(l)
    BY <2>1, OtherAt DEF Phases
  <2>3. At("write_log")' <=> At("write_log")
    BY <2>2 DEF Phases
  <2> QED
    BY <1>1, <2>1, <2>2, <2>3, QuietCrash
<1> QED
  BY <1>2, <1>3

--------------------------------------------------------------------------------
(* bread(), log_write() and brelse(); recycling. *)

\* Small counts do not wrap.
LEMMA NoWrap ==
  ASSUME RefAssumption, NEW n \in {0, 1, 2}
  PROVE  n % RefMod = n
BY LogAssumption DEF RefAssumption

\* With no commit under way nothing is installed and the header is empty.
LEMMA NoCommit ==
  ASSUME HeadInv, boot = "up", \A l \in Phases : ~At(l)
  PROVE  /\ head = <<>>
         /\ \A i : ~Done(i)
         /\ \A b : Pinned(b) <=> \E i \in 1 .. Len(lh) : lh[i] = b
<1>1. ~At("install") /\ ~At("clear")
  BY DEF Phases
<1>2. head = <<>> /\ \A i : ~Done(i)
  BY <1>1 DEF HeadInv, Done
<1> QED
  BY <1>2, Zenon DEF Pinned

\* A change in place is a write of the running system's view.
LEMMA ModifyCrash ==
  ASSUME RefAssumption, ControlInv, CrashInv, NEW p \in Procs, NEW b \in Home, Modify(p, b)
  PROVE  /\ CrashInv'
         /\ StableView' = StableView
         /\ StoreView' = [StoreView EXCEPT ![b] = opid[p]]
<1>1. /\ UNCHANGED <<disk, head, lh, tail, boot, crashes>>
      /\ cache' = [cache EXCEPT ![b] = opid[p]]
      /\ cur' = [cur EXCEPT ![p] = b]
      /\ refcnt' = [refcnt EXCEPT ![b] = (@ + 1) % RefMod]
      /\ pc[p] = "op" /\ pc' = [pc EXCEPT ![p] = "check"]
      /\ \A q \in Procs : cur[q] # b
  BY DEF Modify, Goto, RefUp, logvars
<1>2. /\ cache \in [Home -> OpIds \cup {NoBuf}] /\ refcnt \in [Home -> 0 .. (RefMod - 1)]
      /\ cur \in [Procs -> Home \cup {NoBuf}] /\ opid[p] \in OpIds
      /\ cur[p] = NoBuf
  BY <1>1 DEF ControlInv, TypeOK, DiskTypeOK, ProcTypeOK, HoldInv
<1>3. boot = "up" /\ \A l \in Phases : ~At(l) /\ ~At(l)'
  <2>1. boot = "up" /\ \A l \in CommitPoints : ~At(l)
    BY <1>1, OpAt DEF InOp
  <2>2. \A l \in Phases : At(l)' <=> At(l)
    <3>1. pc[p] \notin Phases /\ "check" \notin Phases /\ pc' = [pc EXCEPT ![p] = "check"]
      BY <1>1 DEF Phases
    <3> QED
      BY <3>1, OtherAt
  <2> QED
    BY <2>1, <2>2 DEF Phases, CommitPoints
<1>4. HeadInv' /\ NoDuplicateEntries'
  BY <1>1, <1>3 DEF CrashInv, HeadInv, NoDuplicateEntries, Phases
<1>5. /\ head = <<>>
      /\ \A x : Pinned(x)' <=> Pinned(x)
      /\ \A i : ~Done(i)'
  <2>1. /\ head = <<>> /\ \A x : Pinned(x) <=> \E i \in 1 .. Len(lh) : lh[i] = x
    BY <1>3, NoCommit DEF CrashInv
  <2>2. \A i : ~Done(i)'
    BY <1>1, <1>3 DEF Done, Phases
  <2> QED
    BY <1>1, <2>1, <2>2, Zenon DEF Pinned
<1>6. ~Held(b) /\ \A x \in Home : Held(x)' <=> Held(x) \/ x = b
  BY <1>1, <1>2, Geometry DEF Held
<1>7. CleanInv'
  BY <1>1, <1>2, <1>5, <1>6, Geometry DEF CrashInv, CleanInv
<1>8. RefInv'
  <2>1. \A q, r \in Procs : cur'[q] = cur'[r] /\ cur'[q] # NoBuf => q = r
    BY <1>1, <1>2 DEF CrashInv, RefInv
  <2>2. ASSUME crashes = 0, NEW x \in Home
        PROVE  refcnt'[x] = (IF Held(x)' THEN 1 ELSE 0) + (IF Pinned(x)' THEN 1 ELSE 0)
    <3>1. refcnt[x] = (IF Held(x) THEN 1 ELSE 0) + (IF Pinned(x) THEN 1 ELSE 0)
      BY <2>2 DEF CrashInv, RefInv
    <3>2. CASE x # b
      BY <1>1, <1>2, <1>5, <1>6, <3>1, <3>2
    <3>3. CASE x = b
      <4>1. refcnt[b] + 1 \in {0, 1, 2}
        BY <1>6, <3>1, <3>3
      <4>2. refcnt'[b] = refcnt[b] + 1
        BY <1>1, <1>2, <4>1, NoWrap
      <4> QED
        BY <1>5, <1>6, <3>1, <3>3, <4>2
    <3> QED
      BY <3>2, <3>3
  <2> QED
    BY <1>1, <2>1, <2>2 DEF CrashInv, RefInv
<1>9. CopyInv'
  BY <1>3, <1>5 DEF CopyInv, Phases
<1>10. StableView' = StableView
  BY <1>1 DEF StableView
<1>11. StoreView' = [StoreView EXCEPT ![b] = opid[p]]
  BY <1>1, <1>2, <1>3, Geometry DEF StoreView, Contents
<1> QED
  BY <1>4, <1>7, <1>8, <1>9, <1>10, <1>11 DEF CrashInv

\* Appending adds one entry, at the end.
LEMMA AppendEntries ==
  ASSUME NEW S, NEW s \in Seq(S), NEW e \in S
  PROVE  /\ Len(s) \in Nat /\ Len(Append(s, e)) = Len(s) + 1
         /\ Append(s, e)[Len(Append(s, e))] = e
         /\ \A i \in 1 .. Len(s) : Append(s, e)[i] = s[i]
OBVIOUS

\* log_write() appends only a block that is not in the header yet.
LEMMA AppendDistinct ==
  ASSUME ControlInv, NoDuplicateEntries, NEW p \in Procs, LogWriteAppend(p)
  PROVE  NoDuplicateEntries'
<1> DEFINE b == cur[p]
<1>1. /\ UNCHANGED head
      /\ \/ b \in Entries /\ lh' = lh
         \/ b \notin Entries /\ lh' = Append(lh, b)
      /\ lh \in Seq(Home) /\ b \in Home
  BY DEF LogWriteAppend, ControlInv, TypeOK, LogTypeOK, HoldInv
<1>2. CASE b \in Entries
  BY <1>1, <1>2 DEF NoDuplicateEntries
<1>3. CASE b \notin Entries
  <2>1. lh' = Append(lh, b) /\ \A i \in 1 .. Len(lh) : lh[i] # b
    BY <1>1, <1>3 DEF Entries
  <2>2. /\ Len(lh) \in Nat /\ Len(lh') = Len(lh) + 1 /\ lh'[Len(lh')] = b
        /\ \A i \in 1 .. Len(lh) : lh'[i] = lh[i]
    BY <1>1, <2>1, AppendEntries
  <2>3. \A i, j \in 1 .. Len(lh) : lh[i] = lh[j] => i = j
    BY DEF NoDuplicateEntries
  <2>4. \A i, j \in 1 .. Len(lh') : lh'[i] = lh'[j] => i = j
    BY <2>1, <2>2, <2>3
  <2> QED
    BY <1>1, <2>4 DEF NoDuplicateEntries
<1> QED
  BY <1>2, <1>3

\* log_write() trades the holder's reference for a pin.
LEMMA AppendCrash ==
  ASSUME RefAssumption, ControlInv, CrashInv, NEW p \in Procs, LogWriteAppend(p)
  PROVE  CrashInv' /\ SameViews
<1> DEFINE b == cur[p]
<1>1. /\ UNCHANGED <<disk, head, cache, tail, boot, crashes>>
      /\ cur' = [cur EXCEPT ![p] = NoBuf]
      /\ pc[p] = "append" /\ pc' = [pc EXCEPT ![p] = "op"]
      /\ \/ b \in Entries /\ lh' = lh /\ refcnt' = [refcnt EXCEPT ![b] = (@ + (-1)) % RefMod]
         \/ b \notin Entries /\ lh' = Append(lh, b) /\ refcnt' = refcnt
  BY DEF LogWriteAppend, Goto, RefUp
<1>2. /\ refcnt \in [Home -> 0 .. (RefMod - 1)] /\ lh \in Seq(Home)
      /\ cur \in [Procs -> Home \cup {NoBuf}] /\ b \in Home
  BY <1>1 DEF ControlInv, TypeOK, DiskTypeOK, LogTypeOK, ProcTypeOK, HoldInv
<1>3. boot = "up" /\ \A l \in Phases : ~At(l) /\ ~At(l)'
  <2>1. boot = "up" /\ \A l \in CommitPoints : ~At(l)
    BY <1>1, OpAt DEF InOp
  <2>2. \A l \in Phases : At(l)' <=> At(l)
    <3>1. pc[p] \notin Phases /\ "op" \notin Phases /\ pc' = [pc EXCEPT ![p] = "op"]
      BY <1>1 DEF Phases
    <3> QED
      BY <3>1, OtherAt
  <2> QED
    BY <2>1, <2>2 DEF Phases, CommitPoints
<1>4. /\ head = <<>> /\ \A x : Pinned(x) <=> \E i \in 1 .. Len(lh) : lh[i] = x
      /\ \A i : ~Done(i)'
  <2>1. \A i : ~Done(i)'
    BY <1>1, <1>3 DEF Done, Phases
  <2> QED
    BY <1>3, <2>1, NoCommit DEF CrashInv
<1>5. \A x \in Home : Pinned(x)' <=> Pinned(x) \/ x = b
  <2>1. \A x : Pinned(x)' <=> \E i \in 1 .. Len(lh') : lh'[i] = x
    BY <1>4, Zenon DEF Pinned
  <2>2. CASE b \in Entries
    BY <1>1, <1>4, <2>1, <2>2 DEF Entries
  <2>3. CASE b \notin Entries
    <3>1. /\ Len(lh) \in Nat /\ Len(lh') = Len(lh) + 1 /\ lh'[Len(lh')] = b
          /\ \A i \in 1 .. Len(lh) : lh'[i] = lh[i]
      <4>1. lh' = Append(lh, b)
        BY <1>1, <2>3
      <4> QED
        BY <1>2, <4>1, AppendEntries
    <3> QED
      BY <1>4, <2>1, <3>1
  <2> QED
    BY <2>2, <2>3
<1>6. Held(b) /\ \A x \in Home : Held(x)' <=> Held(x) /\ x # b
  BY <1>1, <1>2, Geometry DEF Held, CrashInv, RefInv
<1>7. NoDuplicateEntries'
  BY AppendDistinct DEF CrashInv
<1>8. HeadInv'
  BY <1>1, <1>3 DEF CrashInv, HeadInv, Phases
<1>9. CleanInv'
  BY <1>1, <1>2, <1>5, <1>6 DEF CrashInv, CleanInv
<1>10. RefInv'
  <2>1. \A q, r \in Procs : cur'[q] = cur'[r] /\ cur'[q] # NoBuf => q = r
    BY <1>1, <1>2 DEF CrashInv, RefInv
  <2>2. ASSUME crashes = 0, NEW x \in Home
        PROVE  refcnt'[x] = (IF Held(x)' THEN 1 ELSE 0) + (IF Pinned(x)' THEN 1 ELSE 0)
    <3>1. refcnt[x] = (IF Held(x) THEN 1 ELSE 0) + (IF Pinned(x) THEN 1 ELSE 0)
      BY <2>2 DEF CrashInv, RefInv
    <3>2. CASE x # b
      BY <1>1, <1>2, <1>5, <1>6, <3>1, <3>2
    <3>3. CASE x = b /\ b \in Entries
      <4>1. Pinned(b)
        BY <1>4, <3>3 DEF Entries
      <4>2. refcnt[b] + (-1) = 1
        BY <1>6, <3>1, <3>3, <4>1
      <4>3. refcnt'[b] = 1
        BY <1>1, <1>2, <3>3, <4>2, NoWrap
      <4> QED
        BY <1>5, <1>6, <3>3, <4>3
    <3>4. CASE x = b /\ b \notin Entries
      <4>1. ~Pinned(b)
        BY <1>4, <3>4 DEF Entries
      <4> QED
        BY <1>1, <1>5, <1>6, <3>1, <3>4, <4>1
    <3> QED
      BY <3>2, <3>3, <3>4
  <2> QED
    BY <1>1, <2>1, <2>2 DEF CrashInv, RefInv
<1>11. CopyInv'
  BY <1>3, <1>4 DEF CopyInv, Phases
<1>12. SameViews
  BY <1>1 DEF SameViews, StableView, StoreView, Contents
<1> QED
  BY <1>7, <1>8, <1>9, <1>10, <1>11, <1>12 DEF CrashInv

\* A buffer that is recycled agrees with the disk.
LEMMA RecycleCrash ==
  ASSUME ControlInv, CrashInv, NEW b \in Home, Recycle(b), crashes < Pressure => crashes = 0
  PROVE  CrashInv' /\ SameViews
<1>1. /\ UNCHANGED <<disk, head, refcnt, lh, tail, boot, pc, cur, crashes>>
      /\ cache' = [cache EXCEPT ![b] = NoBuf]
      /\ boot = "up" /\ crashes < Pressure /\ refcnt[b] = 0 /\ cache[b] # NoBuf
  BY DEF Recycle, Running, logvars, procvars
<1>2. cache \in [Home -> OpIds \cup {NoBuf}] /\ crashes \in Nat
  BY DEF ControlInv, TypeOK, DiskTypeOK, ProcTypeOK
<1>3. crashes = 0
  BY <1>1
<1>4. ~Held(b) /\ ~Pinned(b)
  <2>1. 0 = (IF Held(b) THEN 1 ELSE 0) + (IF Pinned(b) THEN 1 ELSE 0)
    BY <1>1, <1>3 DEF CrashInv, RefInv
  <2> QED
    BY <2>1
<1>5. cache[b] = disk[b]
  BY <1>1, <1>4 DEF CrashInv, CleanInv
<1>6. \A l : At(l)' <=> At(l)
  BY <1>1 DEF At
<1>7. \A i : Done(i)' <=> Done(i)
  BY <1>1, <1>6 DEF Done
<1>8. \A x : (Held(x)' <=> Held(x)) /\ (Pinned(x)' <=> Pinned(x))
  BY <1>1, <1>7 DEF Held, Pinned
<1>9. \A x : Contents(x)' = Contents(x)
  BY <1>1, <1>2, <1>5 DEF Contents
<1>10. NoDuplicateEntries' /\ HeadInv' /\ RefInv'
  BY <1>1, <1>6, <1>8 DEF CrashInv, NoDuplicateEntries, HeadInv, RefInv
<1>11. CleanInv'
  BY <1>1, <1>2, <1>4, <1>8 DEF CrashInv, CleanInv
<1>12. CopyInv'
  BY <1>1, <1>6, <1>7, <1>9 DEF CrashInv, CopyInv
<1>13. SameViews
  BY <1>1, <1>9 DEF SameViews, StableView, StoreView
<1> QED
  BY <1>10, <1>11, <1>12, <1>13 DEF CrashInv

--------------------------------------------------------------------------------
(* commit() *)

\* write_log() reads pinned buffers and writes log blocks only.
LEMMA WriteLogCrash ==
  ASSUME ControlInv, FitsLog, CrashInv, NEW p \in Procs, WriteLog(p)
  PROVE  CrashInv' /\ SameViews
<1> DEFINE k == tail + 1
           m == IF tail + 1 = Len(lh) THEN "write_head" ELSE "write_log"
<1>1. /\ UNCHANGED <<head, refcnt, lh, boot, cur, crashes>>
      /\ disk' = [disk EXCEPT ![k] = Contents(lh[k])]
      /\ cache' = [x \in Home |-> IF x \in {lh[k], k} THEN Contents(lh[k]) ELSE cache[x]]
      /\ tail' = k
      /\ pc[p] = "write_log" /\ pc' = [pc EXCEPT ![p] = m]
  BY DEF WriteLog, Goto, logvars
<1>2. /\ disk \in [1 .. (nlog + NHome - 1) -> OpIds]
      /\ cache \in [Home -> OpIds \cup {NoBuf}]
  BY DEF ControlInv, TypeOK, DiskTypeOK
<1>3. k \in 1 .. Len(lh) /\ tail \in Nat /\ Len(lh) \in Nat
  BY <1>1, EntryFacts DEF ControlInv, LoopInv
<1>4. /\ k \notin Home /\ k \in 1 .. (nlog + NHome - 1)
      /\ \A i \in 1 .. Len(lh) : lh[i] \in Home
  BY <1>3, EntryFacts
<1>5. /\ boot = "up" /\ \A q \in Procs : cur[q] = NoBuf
      /\ \A l \in CommitPoints : (At(l) <=> l = "write_log") /\ (At(l)' <=> l = m)
  BY <1>1, CommitAt DEF CommitPoints
<1>6. /\ At("write_log") /\ ~At("write_head") /\ ~At("install") /\ ~At("clear")
      /\ ~At("install")' /\ ~At("clear")'
      /\ At("write_log")' => k # Len(lh)
      /\ At("write_head")' => k = Len(lh)
  BY <1>5 DEF CommitPoints
<1>7. \A i : ~Done(i) /\ ~Done(i)'
  BY <1>1, <1>5, <1>6 DEF Done
<1>8. \A x : (Held(x)' <=> Held(x)) /\ (Pinned(x)' <=> Pinned(x))
  BY <1>1, <1>7 DEF Held, Pinned
<1>9. cache[lh[k]] # NoBuf /\ Contents(lh[k]) = cache[lh[k]]
  <2>1. Pinned(lh[k])
    BY <1>3, <1>7 DEF Pinned
  <2> QED
    BY <1>3, <1>4, <1>5, <2>1 DEF CrashInv, CleanInv, Contents
<1>10. cache' = cache
  BY <1>1, <1>2, <1>4, <1>9
<1>11. \A x \in Home : disk'[x] = disk[x] /\ Contents(x)' = Contents(x)
  BY <1>1, <1>2, <1>4, <1>10, Geometry DEF Contents
<1>12. NoDuplicateEntries' /\ HeadInv' /\ RefInv'
  BY <1>1, <1>5, <1>6, <1>8 DEF CrashInv, NoDuplicateEntries, HeadInv, RefInv
<1>13. CleanInv'
  BY <1>1, <1>8, <1>10, <1>11 DEF CrashInv, CleanInv
<1>14. CopyInv'
  <2>1. \A i \in 1 .. k : disk'[i] = Contents(lh[i])
    BY <1>1, <1>2, <1>3, <1>4, <1>6 DEF CrashInv, CopyInv
  <2>2. \A i \in 1 .. k : disk'[i] = Contents(lh[i])'
    <3>1. \A i \in 1 .. k : i \in 1 .. Len(lh)
      BY <1>3
    <3> QED
      BY <1>1, <1>4, <1>11, <2>1, <3>1
  <2> QED
    BY <1>1, <1>6, <1>7, <2>2 DEF CopyInv
<1>15. SameViews
  <2>1. head = <<>> /\ head' = <<>>
    BY <1>1, <1>5, <1>6 DEF CrashInv, HeadInv
  <2>2. StableView' = StableView
    BY <2>1, <1>11 DEF StableView
  <2> QED
    BY <1>1, <1>5, <1>11, <2>2 DEF SameViews, StoreView
<1> QED
  BY <1>12, <1>13, <1>14, <1>15 DEF CrashInv

\* The header write makes what the running system sees stable.
LEMMA WriteHeadCrash ==
  ASSUME ControlInv, FitsLog, CrashInv, NEW p \in Procs, WriteHead(p)
  PROVE  CrashInv' /\ StoreView' = StoreView /\ StableView' = StoreView /\ Ops = {}
<1>1. /\ UNCHANGED <<disk, cache, refcnt, lh, boot, cur, crashes>>
      /\ head' = lh /\ tail' = 0
      /\ pc[p] = "write_head" /\ pc' = [pc EXCEPT ![p] = "install"]
  BY DEF WriteHead, Goto, logvars
<1>2. /\ boot = "up" /\ Ops = {} /\ \A q \in Procs : cur[q] = NoBuf
      /\ \A l \in CommitPoints : (At(l) <=> l = "write_head") /\ (At(l)' <=> l = "install")
  BY <1>1, CommitAt DEF CommitPoints
<1>3. /\ ~At("write_log") /\ At("write_head") /\ ~At("install") /\ ~At("clear")
      /\ ~At("write_log")' /\ ~At("write_head")' /\ At("install")' /\ ~At("clear")'
  BY <1>2 DEF CommitPoints
<1>4. \A i \in 1 .. Len(lh) : ~Done(i) /\ ~Done(i)'
  BY <1>1, <1>2, <1>3, EntryFacts DEF Done
<1>5. \A x : (Held(x)' <=> Held(x)) /\ (Pinned(x)' <=> Pinned(x))
  BY <1>1, <1>4 DEF Held, Pinned
<1>6. NoDuplicateEntries' /\ HeadInv'
  BY <1>1, <1>2, <1>3 DEF CrashInv, NoDuplicateEntries, HeadInv
<1>7. CleanInv' /\ RefInv'
  BY <1>1, <1>5 DEF CrashInv, CleanInv, RefInv
<1>8. CopyInv'
  BY <1>1, <1>3, <1>4 DEF CrashInv, CopyInv, Contents
<1>9. StoreView = [x \in Home |-> Contents(x)] /\ StoreView' = StoreView
  BY <1>1, <1>2 DEF StoreView, Contents
<1>10. StableView' = StoreView
  <2>1. lh \in Seq(Home) /\ \A x \in Home : ~Held(x)
    BY <1>2, Geometry DEF ControlInv, TypeOK, LogTypeOK, Held
  <2>2. (NoDuplicateEntries /\ head \in Seq(Home))'
    BY <1>1, <1>6, <2>1
  <2>3. StableShape'
    BY <2>2, StableOf, PTL
  <2>4. ASSUME NEW x \in Home PROVE StableView'[x] = Contents(x)
    <3>1. CASE \E i \in 1 .. Len(lh) : lh[i] = x
      BY <1>1, <1>3, <2>3, <3>1 DEF CrashInv, CopyInv, StableShape
    <3>2. CASE \A i \in 1 .. Len(lh) : lh[i] # x
      <4>1. ~Pinned(x)
        BY <3>2 DEF Pinned
      <4>2. cache[x] \in {NoBuf, disk[x]}
        BY <2>1, <4>1 DEF CrashInv, CleanInv
      <4> QED
        BY <1>1, <2>3, <3>2, <4>2 DEF Contents, StableShape
    <3> QED
      BY <3>1, <3>2
  <2> QED
    BY <1>9, <2>3, <2>4, Zenon DEF StableShape
<1> QED
  BY <1>2, <1>6, <1>7, <1>8, <1>9, <1>10 DEF CrashInv

\* One iteration of install_trans(), in commit() or at boot: the block read
\* from the log is what the stable view already shows.
LEMMA InstallStep ==
  ASSUME ControlInv, FitsLog, CrashInv, InstallOne(lh), tail < Len(lh), head = lh,
         UNCHANGED <<head, lh, cur>>, boot' = "up" => boot = "up",
         \A i \in 1 .. Len(lh) : (Done(i) <=> i <= tail) /\ (Done(i)' <=> i <= tail + 1)
  PROVE  /\ lh[tail + 1] \in Home /\ Pinned(lh[tail + 1])
         /\ disk' = [disk EXCEPT ![lh[tail + 1]] = disk[tail + 1]]
         /\ cache' = [cache EXCEPT ![lh[tail + 1]] = disk[tail + 1]]
         /\ disk[tail + 1] \in OpIds
         /\ \A i \in 1 .. Len(lh) : disk'[i] = disk[i]
         /\ \A x \in Home : Held(x)' <=> Held(x)
         /\ \A x \in Home : Pinned(x)' <=> Pinned(x) /\ x # lh[tail + 1]
         /\ (\A q \in Procs : cur[q] = NoBuf) => CleanInv'
         /\ \A i \in 1 .. Len(lh) : Done(i)' => disk'[lh'[i]] = disk'[i]
         /\ StableView' = StableView
<1> DEFINE k == tail + 1
           b == lh[k]
<1>1. tail \in Nat /\ Len(lh) \in Nat /\ k \in 1 .. Len(lh)
  BY EntryFacts
<1>2. /\ \A i \in 1 .. Len(lh) :
           i \in Int /\ i \notin Home /\ i \in 1 .. (nlog + NHome - 1) /\ lh[i] \in Home
      /\ Contents(k) = disk[k]
  BY <1>1, EntryFacts
<1>3. /\ disk \in [1 .. (nlog + NHome - 1) -> OpIds]
      /\ cache \in [Home -> OpIds \cup {NoBuf}] /\ lh \in Seq(Home)
  BY DEF ControlInv, TypeOK, DiskTypeOK, LogTypeOK
<1>4. /\ disk' = [disk EXCEPT ![b] = disk[k]]
      /\ cache' = [cache EXCEPT ![b] = disk[k]]
      /\ b \in Home /\ disk[k] \in OpIds
  BY <1>1, <1>2, <1>3 DEF InstallOne
<1>5. \A i \in 1 .. Len(lh) : disk'[i] = disk[i]
  BY <1>2, <1>3, <1>4
<1>6. \A i \in 1 .. Len(lh) : lh[i] = b => i = k
  BY <1>1 DEF CrashInv, NoDuplicateEntries
<1>7. Pinned(b) /\ \A x \in Home : Pinned(x)' <=> Pinned(x) /\ x # b
  <2>1. \A i \in 1 .. Len(lh) : (~Done(i)' <=> ~Done(i) /\ i # k) /\ (~Done(k))
    BY <1>1
  <2> QED
    BY <1>1, <1>6, <2>1, Zenon DEF Pinned
<1>8. \A x \in Home : Held(x)' <=> Held(x)
  BY DEF Held
<1>9. (\A q \in Procs : cur[q] = NoBuf) => CleanInv'
  <2>1. \A x \in Home : x # b => disk'[x] = disk[x] /\ cache'[x] = cache[x]
    BY <1>3, <1>4, Geometry
  <2>2. disk'[b] = disk[k] /\ cache'[b] = disk[k]
    BY <1>3, <1>4, Geometry
  <2>3. \A x \in Home : x = b => cache'[x] = disk'[x] /\ cache'[x] # NoBuf
    BY <1>4, <2>2, Geometry
  <2> QED
    BY <1>7, <1>8, <2>1, <2>3 DEF CrashInv, CleanInv
<1>10. \A i \in 1 .. Len(lh) : Done(i)' => disk'[lh'[i]] = disk'[i]
  <2>1. ASSUME NEW i \in 1 .. Len(lh), Done(i)' PROVE disk'[lh[i]] = disk'[i]
    <3>1. CASE i = k
      BY <1>3, <1>4, <1>5, <2>1, <3>1, Geometry
    <3>2. CASE i # k
      <4>1. Done(i) /\ lh[i] # b
        BY <1>1, <1>6, <2>1, <3>2
      <4>2. disk[lh[i]] = disk[i]
        BY <2>1, <4>1 DEF CrashInv, CopyInv
      <4> QED
        BY <1>2, <1>3, <1>4, <1>5, <2>1, <4>1, <4>2
    <3> QED
      BY <3>1, <3>2
  <2> QED
    BY <2>1
<1>11. StableView' = StableView
  <2>1. NoDuplicateEntries' /\ (head \in Seq(Home))' /\ head \in Seq(Home)
    BY <1>3 DEF CrashInv, NoDuplicateEntries
  <2>2. StableShape'
    BY <2>1, StableOf, PTL
  <2>3. StableShape
    BY <2>1, StableOf DEF CrashInv
  <2>4. ASSUME NEW x \in Home PROVE StableView'[x] = StableView[x]
    <3>1. CASE \E i \in 1 .. Len(lh) : lh[i] = x
      BY <1>5, <2>2, <2>3, <3>1 DEF StableShape
    <3>2. CASE \A i \in 1 .. Len(lh) : lh[i] # x
      <4>1. x # b /\ disk'[x] = disk[x]
        BY <1>1, <1>3, <1>4, <3>2, Geometry
      <4> QED
        BY <2>2, <2>3, <3>2, <4>1 DEF StableShape
    <3> QED
      BY <3>1, <3>2
  <2> QED
    BY <2>2, <2>3, <2>4, Zenon DEF StableShape
<1> QED
  BY <1>4, <1>5, <1>7, <1>8, <1>9, <1>10, <1>11

\* install_trans() in commit() also leaves the running system's view alone,
\* and gives back the pin.
LEMMA InstallCrash ==
  ASSUME RefAssumption, ControlInv, FitsLog, CrashInv, NEW p \in Procs, InstallTrans(p)
  PROVE  CrashInv' /\ SameViews
<1> DEFINE k == tail + 1
           b == lh[k]
           m == IF tail + 1 = Len(lh) THEN "clear" ELSE "install"
<1>1. /\ UNCHANGED <<head, lh, boot, cur, crashes>>
      /\ InstallOne(lh) /\ tail' = k
      /\ refcnt' = [refcnt EXCEPT ![b] = (@ + (-1)) % RefMod]
      /\ pc[p] = "install" /\ pc' = [pc EXCEPT ![p] = m]
  BY DEF InstallTrans, InstallOne, RefUp, Goto, logvars
<1>2. /\ boot = "up" /\ \A q \in Procs : cur[q] = NoBuf
      /\ \A l \in CommitPoints : (At(l) <=> l = "install") /\ (At(l)' <=> l = m)
  BY <1>1, CommitAt DEF CommitPoints
<1>3. /\ ~At("write_log") /\ ~At("write_head") /\ At("install") /\ ~At("clear")
      /\ ~At("write_log")' /\ ~At("write_head")'
      /\ At("install")' <=> k # Len(lh)
      /\ At("clear")' <=> k = Len(lh)
  BY <1>2 DEF CommitPoints
<1>4. tail < Len(lh) /\ tail \in Nat /\ Len(lh) \in Nat /\ k \in 1 .. Len(lh)
  BY <1>1, EntryFacts DEF ControlInv, LoopInv
<1>5. \A i \in 1 .. Len(lh) : (Done(i) <=> i <= tail) /\ (Done(i)' <=> i <= k)
  BY <1>1, <1>2, <1>3, <1>4 DEF Done
<1>6. head = lh
  BY <1>3 DEF CrashInv, HeadInv
<1>7. /\ b \in Home /\ Pinned(b)
      /\ disk' = [disk EXCEPT ![b] = disk[k]]
      /\ cache' = [cache EXCEPT ![b] = disk[k]]
      /\ disk[k] \in OpIds
      /\ \A i \in 1 .. Len(lh) : disk'[i] = disk[i]
      /\ \A x \in Home : Held(x)' <=> Held(x)
      /\ \A x \in Home : Pinned(x)' <=> Pinned(x) /\ x # b
      /\ CleanInv'
      /\ \A i \in 1 .. Len(lh) : Done(i)' => disk'[lh'[i]] = disk'[i]
      /\ StableView' = StableView
  BY <1>1, <1>2, <1>4, <1>5, <1>6, InstallStep
<1>8. /\ disk \in [1 .. (nlog + NHome - 1) -> OpIds] /\ cache \in [Home -> OpIds \cup {NoBuf}]
      /\ refcnt \in [Home -> 0 .. (RefMod - 1)]
      /\ \A i \in 1 .. Len(lh) : lh[i] \in Home
  BY EntryFacts DEF ControlInv, TypeOK, DiskTypeOK
<1>9. \A i \in 1 .. Len(lh) : disk[i] = Contents(lh[i])
  BY <1>3 DEF CrashInv, CopyInv
<1>10. \A x \in Home : Contents(x)' = Contents(x)
  BY <1>4, <1>7, <1>8, <1>9, Geometry DEF Contents
<1>11. NoDuplicateEntries' /\ HeadInv'
  BY <1>1, <1>2, <1>3, <1>6 DEF CrashInv, NoDuplicateEntries, HeadInv
<1>12. RefInv'
  <2>1. ASSUME crashes = 0, NEW x \in Home
        PROVE  refcnt'[x] = (IF Held(x)' THEN 1 ELSE 0) + (IF Pinned(x)' THEN 1 ELSE 0)
    <3>1. refcnt[x] = (IF Held(x) THEN 1 ELSE 0) + (IF Pinned(x) THEN 1 ELSE 0)
      BY <2>1 DEF CrashInv, RefInv
    <3>2. CASE x # b
      BY <1>1, <1>7, <1>8, <3>1, <3>2
    <3>3. CASE x = b
      <4>1. ~Held(b)
        BY <1>2, <1>7, Geometry DEF Held
      <4>2. refcnt[b] + (-1) = 0
        BY <1>7, <3>1, <3>3, <4>1
      <4>3. refcnt'[b] = 0
        BY <1>1, <1>7, <1>8, <4>2, NoWrap
      <4> QED
        BY <1>7, <3>3, <4>1, <4>3
    <3> QED
      BY <3>2, <3>3
  <2> QED
    BY <1>1, <2>1 DEF CrashInv, RefInv
<1>13. CopyInv'
  <2>1. \A i \in 1 .. Len(lh) : disk'[i] = Contents(lh[i])'
    BY <1>1, <1>7, <1>8, <1>9, <1>10
  <2> QED
    BY <1>1, <1>3, <1>7, <2>1 DEF CopyInv
<1>14. SameViews
  BY <1>1, <1>2, <1>7, <1>10 DEF SameViews, StoreView
<1> QED
  BY <1>7, <1>11, <1>12, <1>13, <1>14 DEF CrashInv

\* Once every entry is installed the header can go: the home blocks hold the
\* stable view, and no buffer differs from them.
LEMMA ClearStep ==
  ASSUME ControlInv, CrashInv, head = lh, \A i \in 1 .. Len(lh) : Done(i),
         UNCHANGED <<disk, cache, cur>>, lh' = <<>>, head' = <<>>
  PROVE  /\ StableView' = StableView
         /\ NoDuplicateEntries'
         /\ \A i \in 1 .. Len(lh') : FALSE
         /\ \A x \in Home : ~Pinned(x) /\ ~Pinned(x)' /\ (Held(x)' <=> Held(x))
         /\ \A x \in Home : StableView[x] = disk[x]
<1>1. head \in Seq(Home)
  BY DEF ControlInv, TypeOK, LogTypeOK
<1>2. Len(lh') = 0 /\ \A i \in 1 .. Len(lh') : FALSE
  OBVIOUS
<1>3. NoDuplicateEntries'
  BY <1>2 DEF NoDuplicateEntries
<1>4. \A x \in Home : ~Pinned(x) /\ ~Pinned(x)' /\ (Held(x)' <=> Held(x))
  BY <1>2 DEF Pinned, Held
<1>5. StableShape
  BY <1>1, StableOf DEF CrashInv
<1>6. ASSUME NEW x \in Home PROVE StableView[x] = disk[x]
  <2>1. CASE \E i \in 1 .. Len(lh) : lh[i] = x
    BY <1>5, <2>1 DEF StableShape, CrashInv, CopyInv
  <2>2. CASE \A i \in 1 .. Len(lh) : lh[i] # x
    BY <1>5, <2>2 DEF StableShape
  <2> QED
    BY <2>1, <2>2
<1>7. StableView' = [x \in Home |-> disk[x]]
  BY DEF StableView
<1> QED
  BY <1>2, <1>3, <1>4, <1>5, <1>6, <1>7 DEF StableShape

\* Erasing the transaction after a commit.
LEMMA ClearCrash ==
  ASSUME ControlInv, CrashInv, NEW p \in Procs, ClearHead(p)
  PROVE  CrashInv' /\ SameViews
<1>1. /\ UNCHANGED <<disk, cache, refcnt, boot, cur, crashes>>
      /\ lh' = <<>> /\ head' = <<>>
      /\ pc[p] = "clear" /\ pc' = [pc EXCEPT ![p] = "done"]
  BY DEF ClearHead, Goto
<1>2. /\ boot = "up"
      /\ \A l \in CommitPoints : (At(l) <=> l = "clear") /\ (At(l)' <=> l = "done")
  BY <1>1, CommitAt DEF CommitPoints
<1>3. At("clear") /\ \A l \in Phases : ~At(l)'
  BY <1>2 DEF CommitPoints, Phases
<1>4. head = lh /\ \A i \in 1 .. Len(lh) : Done(i)
  BY <1>3 DEF CrashInv, HeadInv, Done
<1>5. /\ StableView' = StableView
      /\ NoDuplicateEntries'
      /\ \A i \in 1 .. Len(lh') : FALSE
      /\ \A x \in Home : ~Pinned(x) /\ ~Pinned(x)' /\ (Held(x)' <=> Held(x))
  BY <1>1, <1>4, ClearStep
<1>6. HeadInv'
  BY <1>1, <1>2, <1>3 DEF HeadInv, Phases
<1>7. CleanInv' /\ RefInv'
  BY <1>1, <1>5 DEF CrashInv, CleanInv, RefInv
<1>8. CopyInv'
  BY <1>3, <1>5 DEF CopyInv, Phases
<1>9. SameViews
  BY <1>1, <1>2, <1>5 DEF SameViews, StoreView, Contents
<1> QED
  BY <1>5, <1>6, <1>7, <1>8, <1>9 DEF CrashInv

--------------------------------------------------------------------------------
(* Power failures and recovery. *)

\* While the system boots no process runs.
LEMMA BootQuiet ==
  ASSUME ControlInv, boot # "up"
  PROVE  (\A l \in CommitPoints : ~At(l)) /\ (\A q \in Procs : cur[q] = NoBuf) /\ Ops = {}
BY DEF ControlInv, CountInv, HoldInv, At, CommitPoints, Ops, InOp

\* A power failure falls back to the stable view.
LEMMA PowerCrash ==
  ASSUME ControlInv, CrashInv, Crash
  PROVE  CrashInv' /\ StableView' = StableView /\ StoreView' = StableView /\ Ops' = {}
<1>1. /\ UNCHANGED <<disk, head>> /\ lh' = <<>> /\ boot' = "read_head"
      /\ cache' = [x \in Home |-> NoBuf] /\ crashes' = crashes + 1 /\ crashes \in Nat
      /\ pc' = [q \in Procs |-> "idle"] /\ cur' = [q \in Procs |-> NoBuf]
  BY DEF Crash, ControlInv, TypeOK, ProcTypeOK
<1>2. \A l \in Phases : ~At(l)'
  BY <1>1 DEF At, Phases
<1>3. \A i \in 1 .. Len(lh') : FALSE
  BY <1>1
<1>4. NoDuplicateEntries'
  BY <1>1, <1>3 DEF CrashInv, NoDuplicateEntries
<1>5. HeadInv'
  BY <1>1, <1>2 DEF HeadInv, Phases
<1>6. CleanInv'
  BY <1>1 DEF CleanInv
<1>7. RefInv'
  BY <1>1 DEF RefInv
<1>8. CopyInv'
  BY <1>2, <1>3 DEF CopyInv, Phases
<1>9. StableView' = StableView /\ StoreView' = StableView
  BY <1>1 DEF StableView, StoreView
<1>10. Ops' = {}
  BY <1>1 DEF Ops, InOp
<1> QED
  BY <1>4, <1>5, <1>6, <1>7, <1>8, <1>9, <1>10 DEF CrashInv

\* Recovery shows the stable view before, during and after.
LEMMA RecoverCrash ==
  ASSUME ControlInv, FitsLog, CrashInv, Recover
  PROVE  CrashInv' /\ SameViews
<1>1. UNCHANGED <<cur, pc, crashes>>
  BY DEF Recover, ReadHead, RecoverInstall, RecoverClear, procvars
<1>2. /\ boot # "up" /\ StoreView = StableView /\ crashes # 0
      /\ \A l \in Phases : ~At(l) /\ ~At(l)'
      /\ \A q \in Procs : cur[q] = NoBuf
  <2>1. boot # "up"
    BY DEF Recover, ReadHead, RecoverInstall, RecoverClear
  <2>2. (\A l \in CommitPoints : ~At(l)) /\ \A q \in Procs : cur[q] = NoBuf
    BY <2>1, BootQuiet
  <2>3. \A l \in Phases : ~At(l) /\ ~At(l)'
    BY <1>1, <2>2 DEF Phases, CommitPoints, At
  <2> QED
    BY <2>1, <2>2, <2>3 DEF StoreView, CrashInv, RefInv
<1>3. \A x \in Home : ~Held(x) /\ ~Held(x)'
  BY <1>1, <1>2, Geometry DEF Held
<1>4. RefInv'
  BY <1>1, <1>2 DEF CrashInv, RefInv
<1>5. CASE ReadHead
  <2>1. /\ lh' = head /\ boot' \in {"clear", "install"} /\ boot = "read_head"
        /\ boot' = "clear" <=> head = <<>>
        /\ UNCHANGED <<disk, head, cache, tail>>
    BY <1>5 DEF ReadHead
  <2>2. lh = <<>> /\ \A x \in Home : ~Pinned(x)
    BY <2>1 DEF CrashInv, HeadInv, Pinned
  <2>3. \A i \in 1 .. Len(lh') : ~Done(i)'
    <3>1. tail' = 0
      BY <2>1 DEF ControlInv, LoopInv
    <3>2. boot' = "clear" => \A i \in 1 .. Len(lh') : FALSE
      BY <2>1
    <3> QED
      BY <1>2, <2>1, <3>1, <3>2 DEF Done, Phases
  <2>4. NoDuplicateEntries' /\ HeadInv'
    BY <1>2, <2>1 DEF CrashInv, NoDuplicateEntries, HeadInv, Phases
  <2>5. CleanInv'
    BY <1>3, <2>1, <2>2 DEF CrashInv, CleanInv
  <2>6. CopyInv'
    BY <1>2, <2>3 DEF CopyInv, Phases
  <2>7. StableView' = StableView /\ StoreView' = StableView'
    BY <2>1 DEF StableView, StoreView
  <2> QED
    BY <1>2, <1>4, <2>4, <2>5, <2>6, <2>7 DEF CrashInv, SameViews
<1>6. CASE RecoverInstall
  <2>1. /\ InstallOne(lh) /\ tail' = tail + 1 /\ UNCHANGED <<head, lh>> /\ boot = "install"
        /\ boot' = IF tail + 1 = Len(lh) THEN "clear" ELSE "install"
    BY <1>6 DEF RecoverInstall, InstallOne, logvars
  <2>2. tail < Len(lh) /\ tail \in Nat /\ Len(lh) \in Nat /\ head = lh
    BY <2>1, EntryFacts DEF ControlInv, LoopInv, CrashInv, HeadInv
  <2>3. \A i \in 1 .. Len(lh) : (Done(i) <=> i <= tail) /\ (Done(i)' <=> i <= tail + 1)
    BY <1>2, <2>1, <2>2 DEF Done, Phases
  <2>4. /\ CleanInv'
        /\ \A i \in 1 .. Len(lh) : Done(i)' => disk'[lh'[i]] = disk'[i]
        /\ StableView' = StableView
    BY <1>1, <1>2, <2>1, <2>2, <2>3, InstallStep
  <2>5. NoDuplicateEntries' /\ HeadInv'
    BY <1>2, <2>1, <2>2 DEF CrashInv, NoDuplicateEntries, HeadInv, Phases
  <2>6. CopyInv'
    BY <1>2, <2>1, <2>4 DEF CopyInv, Phases
  <2>7. StoreView' = StableView'
    BY <2>1 DEF StoreView
  <2> QED
    BY <1>2, <1>4, <2>4, <2>5, <2>6, <2>7 DEF CrashInv, SameViews
<1>7. CASE RecoverClear
  <2>1. /\ UNCHANGED <<disk, cache, cur>> /\ lh' = <<>> /\ head' = <<>>
        /\ boot = "clear" /\ boot' = "up"
    BY <1>7 DEF RecoverClear, procvars
  <2>2. head = lh /\ \A i \in 1 .. Len(lh) : Done(i)
    BY <2>1 DEF CrashInv, HeadInv, Done
  <2>3. /\ StableView' = StableView
        /\ NoDuplicateEntries'
        /\ \A i \in 1 .. Len(lh') : FALSE
        /\ \A x \in Home : ~Pinned(x) /\ ~Pinned(x)' /\ (Held(x)' <=> Held(x))
        /\ \A x \in Home : StableView[x] = disk[x]
    BY <2>1, <2>2, ClearStep
  <2>4. HeadInv'
    BY <1>2, <2>1 DEF HeadInv, Phases
  <2>5. \A x \in Home : cache[x] \in {NoBuf, disk[x]}
    BY <1>3, <2>3 DEF CrashInv, CleanInv
  <2>6. CleanInv'
    BY <1>3, <2>1, <2>3, <2>5 DEF CleanInv
  <2>7. CopyInv'
    BY <1>2, <2>3 DEF CopyInv, Phases
  <2>8. StoreView' = [x \in Home |-> disk[x]]
    BY <2>1, <2>5 DEF StoreView, Contents
  <2>9. StableView' = [x \in Home |-> disk[x]]
    BY <2>1 DEF StableView
  <2> QED
    BY <1>2, <1>4, <2>3, <2>4, <2>6, <2>7, <2>8, <2>9 DEF CrashInv, SameViews
<1> QED
  BY <1>5, <1>6, <1>7 DEF Recover

--------------------------------------------------------------------------------
(* The theorems *)

\* The log starts empty and the cache cold.
LEMMA InitCrash == Init => CrashInv /\ StoreView = StableView /\ Ops = {}
<1> SUFFICES ASSUME Init PROVE CrashInv /\ StoreView = StableView /\ Ops = {}
  OBVIOUS
<1>1. \A l \in Phases : ~At(l)
  BY DEF Init, At, Phases
<1>2. lh = <<>> /\ head = <<>> /\ boot = "up" /\ \A i \in 1 .. Len(lh) : FALSE
  BY DEF Init
<1>3. \A x \in Home : ~Held(x) /\ ~Pinned(x)
  BY <1>2, Geometry DEF Init, Held, Pinned
<1>4. NoDuplicateEntries /\ HeadInv
  BY <1>1, <1>2 DEF NoDuplicateEntries, HeadInv, Phases
<1>5. CleanInv /\ RefInv
  BY <1>3 DEF Init, CleanInv, RefInv
<1>6. CopyInv
  BY <1>1, <1>2 DEF CopyInv, Phases
<1>7. StoreView = StableView /\ Ops = {}
  BY <1>2 DEF Init, StoreView, StableView, Contents, Ops, InOp
<1> QED
  BY <1>4, <1>5, <1>6, <1>7 DEF CrashInv

\* The abstract step a step of the log takes; Abstract is the atomic store.
AbstractStep == [Abstract!Next]_<<StoreView, StableView, Ops>>

\* Every step keeps the invariant and is a step of the atomic store.
LEMMA CrashStep ==
  ASSUME RefAssumption, IInv, FitsLog, CrashInv, [Next]_vars, crashes < Pressure => crashes = 0
  PROVE  CrashInv' /\ AbstractStep
<1> USE DEF IInv
<1>0. pc \in [Procs -> {"idle", "begin", "sleep", "op", "check", "append"} \cup CommitPoints]
  BY TypeFacts
<1>1. ASSUME NEW p \in Procs, StartOp(p) PROVE CrashInv' /\ AbstractStep
  <2>1. CrashInv' /\ SameViews
    BY <1>1, CallCrash
  <2>2. Ops' = Ops
    BY <1>0, <1>1 DEF StartOp, Goto, Ops, InOp
  <2> QED
    BY <2>1, <2>2 DEF SameViews, AbstractStep
<1>2. ASSUME NEW p \in Procs, BeginOp(p) PROVE CrashInv' /\ AbstractStep
  <2>1. CrashInv' /\ SameViews
    BY <1>2, CallCrash
  <2>2. Ops' = Ops \/ (p \notin Ops /\ Ops' = Ops \cup {p})
    BY <1>0, <1>2 DEF BeginOp, Goto, Ops, InOp
  <2> QED
    BY <2>1, <2>2 DEF SameViews, AbstractStep, Abstract!Next, Abstract!Begin
<1>3. ASSUME NEW p \in Procs, LogWrite(p) PROVE CrashInv' /\ AbstractStep
  <2>1. CrashInv' /\ SameViews
    BY <1>3, CallCrash, AppendCrash DEF LogWrite
  <2>2. Ops' = Ops
    BY <1>0, <1>3 DEF LogWrite, LogWriteCheck, LogWriteAppend, Goto, Ops, InOp
  <2> QED
    BY <2>1, <2>2 DEF SameViews, AbstractStep
<1>4. ASSUME NEW p \in Procs, EndOp(p) PROVE CrashInv' /\ AbstractStep
  <2>1. CrashInv' /\ SameViews
    BY <1>4, CallCrash
  <2>2. p \in Ops /\ Ops' = Ops \ {p}
    BY <1>0, <1>4 DEF EndOp, Goto, WakeLog, Ops, InOp
  <2> QED
    BY <2>1, <2>2 DEF SameViews, AbstractStep, Abstract!Next, Abstract!End
<1>5. ASSUME NEW p \in Procs, Commit(p) PROVE CrashInv' /\ AbstractStep
  <2>1. Ops' = Ops
    BY <1>0, <1>5 DEF Commit, CommitStart, WriteLog, WriteHead, InstallTrans, ClearHead,
         CommitDone, Goto, WakeLog, Ops, InOp, CommitPoints
  <2>2. CASE WriteHead(p)
    <3>1. CrashInv' /\ StoreView' = StoreView /\ StableView' = StoreView /\ Ops = {}
      BY <2>2, WriteHeadCrash
    <3> QED
      BY <2>1, <3>1 DEF AbstractStep, Abstract!Next, Abstract!Commit
  <2>3. CASE ~WriteHead(p)
    <3>1. CrashInv' /\ SameViews
      BY <1>5, <2>3, CallCrash, WriteLogCrash, InstallCrash, ClearCrash DEF Commit
    <3> QED
      BY <2>1, <3>1 DEF SameViews, AbstractStep
  <2> QED
    BY <2>2, <2>3
<1>6. ASSUME NEW p \in Procs, NEW b \in Home, Modify(p, b) PROVE CrashInv' /\ AbstractStep
  <2>1. /\ CrashInv' /\ StableView' = StableView
        /\ StoreView' = [StoreView EXCEPT ![b] = opid[p]]
    BY <1>6, ModifyCrash
  <2>2. p \in Ops /\ Ops' = Ops
    BY <1>0, <1>6 DEF Modify, Goto, Ops, InOp
  <2>3. opid[p] \in OpIds
    BY DEF ControlInv, TypeOK, ProcTypeOK
  <2> QED
    BY <1>6, <2>1, <2>2, <2>3 DEF AbstractStep, Abstract!Next, Abstract!Write
<1>7. ASSUME NEW b \in Home, Recycle(b) PROVE CrashInv' /\ AbstractStep
  <2>1. CrashInv' /\ SameViews
    BY <1>7, RecycleCrash
  <2>2. Ops' = Ops
    BY <1>7 DEF Recycle, procvars, Ops, InOp
  <2> QED
    BY <2>1, <2>2 DEF SameViews, AbstractStep
<1>8. CASE Crash
  <2>1. CrashInv' /\ StableView' = StableView /\ StoreView' = StableView /\ Ops' = {}
    BY <1>8, PowerCrash
  <2> QED
    BY <2>1 DEF AbstractStep, Abstract!Next, Abstract!Crash
<1>9. CASE Recover
  <2>1. CrashInv' /\ SameViews
    BY <1>9, RecoverCrash
  <2>2. Ops' = Ops
    BY <1>9 DEF Recover, ReadHead, RecoverInstall, RecoverClear, procvars, Ops, InOp
  <2> QED
    BY <2>1, <2>2 DEF SameViews, AbstractStep
<1>10. CASE UNCHANGED vars
  <2>1. /\ UNCHANGED <<disk, head, cache, refcnt, lh, boot, cur, tail, pc>>
        /\ crashes' = crashes
    BY <1>10 DEF vars, logvars, procvars
  <2>2. \A l : At(l)' <=> At(l)
    BY <2>1 DEF At
  <2>3. CrashInv' /\ SameViews
    BY <2>1, <2>2, QuietCrash
  <2>4. Ops' = Ops
    BY <2>1 DEF Ops, InOp
  <2> QED
    BY <2>3, <2>4 DEF SameViews, AbstractStep
<1> QED
  BY <1>1, <1>2, <1>3, <1>4, <1>5, <1>6, <1>7, <1>8, <1>9, <1>10 DEF Next

\* Absorption: no block is twice in the header, in memory or on disk, for any
\* geometry, whatever is recycled and whenever the power fails.
THEOREM NoBlockTwice == Spec => []NoDuplicateEntries
<1>1. Init => NoDuplicateEntries
  BY InitCrash DEF CrashInv
<1>2. IInv /\ NoDuplicateEntries /\ [Next]_vars => NoDuplicateEntries'
  <2> SUFFICES ASSUME IInv, NoDuplicateEntries, [Next]_vars PROVE NoDuplicateEntries'
    OBVIOUS
  <2>1. ASSUME NEW p \in Procs, LogWriteAppend(p) PROVE NoDuplicateEntries'
    BY <2>1, AppendDistinct DEF IInv
  <2>2. CASE UNCHANGED <<lh, head>>
    BY <2>2 DEF NoDuplicateEntries
  <2>3. ASSUME NEW p \in Procs, StartOp(p) \/ BeginOp(p) \/ LogWriteCheck(p) \/ EndOp(p)
        PROVE  UNCHANGED <<lh, head>>
    BY <2>3 DEF StartOp, BeginOp, LogWriteCheck, EndOp, logvars
  <2>4. ASSUME NEW p \in Procs, Commit(p) PROVE NoDuplicateEntries'
    <3>1. \/ UNCHANGED <<lh, head>>
          \/ head' = lh /\ lh' = lh
          \/ head' = <<>> /\ lh' = <<>>
      BY <2>4 DEF Commit, CommitStart, WriteLog, WriteHead, InstallTrans, ClearHead,
           CommitDone, logvars
    <3> QED
      BY <2>2, <3>1 DEF NoDuplicateEntries
  <2>5. CASE Crash \/ Recover
    <3>1. \/ UNCHANGED <<lh, head>>
          \/ head' = head /\ lh' \in {<<>>, head}
          \/ head' = <<>> /\ lh' = <<>>
      BY <2>5 DEF Crash, Recover, ReadHead, RecoverInstall, RecoverClear, logvars
    <3> QED
      BY <2>2, <3>1 DEF NoDuplicateEntries
  <2>6. ASSUME NEW p \in Procs, NEW b \in Home, Modify(p, b) PROVE UNCHANGED <<lh, head>>
    BY <2>6 DEF Modify, logvars
  <2>7. ASSUME NEW b \in Home, Recycle(b) PROVE UNCHANGED <<lh, head>>
    BY <2>7 DEF Recycle, logvars
  <2>8. CASE UNCHANGED vars
    BY <2>2, <2>8 DEF vars, logvars
  <2> QED
    BY <2>1, <2>2, <2>3, <2>4, <2>5, <2>6, <2>7, <2>8 DEF Next, LogWrite
<1> QED
  BY <1>1, <1>2, Invariance, PTL DEF Spec

\* Until the first power failure the invariant holds however hard the buffer
\* cache is pressed.
FirstInv == crashes = 0 => CrashInv

\* The pins of log_write() keep a logged block in the cache until it is in the
\* log, for any traffic, up to the first recovery.
THEOREM PinsHold ==
  ASSUME RefAssumption, LOGSIZE + OpBlocks < nlog + MAXOPBLOCKS
  PROVE  Spec => []LoggedStaysCachedAtFirst
<1>1. Init => FirstInv
  BY InitCrash DEF FirstInv
<1>2. IInv /\ FitsLog /\ FirstInv /\ [Next]_vars => FirstInv'
  <2> SUFFICES ASSUME IInv, FitsLog, FirstInv, [Next]_vars, crashes' = 0 PROVE CrashInv'
    BY DEF FirstInv
  <2>1. crashes \in Nat
    BY DEF IInv, ControlInv, TypeOK, ProcTypeOK
  <2>2. crashes' = crashes \/ crashes' = crashes + 1
    BY DEF Next, StartOp, BeginOp, LogWrite, LogWriteCheck, LogWriteAppend, EndOp, Commit,
         CommitStart, WriteLog, WriteHead, InstallTrans, ClearHead, CommitDone, Modify,
         Recycle, Crash, Recover, ReadHead, RecoverInstall, RecoverClear, vars
  <2>3. crashes = 0
    BY <2>1, <2>2
  <2> QED
    BY <2>3, CrashStep DEF FirstInv
<1>3. IInv /\ FirstInv => LoggedStaysCachedAtFirst
  <2> SUFFICES ASSUME IInv, FirstInv, crashes = 0, boot = "up",
                      \A p \in Procs : pc[p] \notin {"install", "clear"}, NEW b \in Entries
               PROVE  cache[b] # NoBuf
    BY DEF LoggedStaysCachedAtFirst, LoggedStaysCached
  <2>1. CrashInv /\ ~At("install") /\ ~At("clear")
    BY DEF FirstInv, At
  <2>2. PICK i \in 1 .. Len(lh) : lh[i] = b
    BY DEF Entries
  <2>3. b \in Home
    BY <2>2, TypeFacts DEF IInv
  <2>4. Pinned(b)
    BY <2>1, <2>2 DEF Pinned, Done
  <2> QED
    BY <2>1, <2>3, <2>4 DEF CrashInv, CleanInv
<1>4. Spec => []FitsLog
  BY LogFits
<1> QED
  BY <1>1, <1>2, <1>3, <1>4, Invariance, PTL DEF Spec

\* Crash atomicity: the log implements the atomic store for any number of
\* processes, calls, blocks and power failures and any log the calls fit, if no
\* buffer is recycled after the first recovery, which unpins what nobody pinned.
THEOREM CrashSafe ==
  ASSUME RefAssumption, LOGSIZE + OpBlocks < nlog + MAXOPBLOCKS, Pressure \in {0, 1}
  PROVE  Spec => CrashAtomic
<1>1. Init => CrashInv /\ Abstract!Init
  <2> SUFFICES ASSUME Init PROVE CrashInv /\ Abstract!Init
    OBVIOUS
  <2>1. CrashInv /\ StoreView = StableView /\ Ops = {}
    BY InitCrash
  <2>2. StableView = [b \in Home |-> 0]
    BY Geometry DEF Init, StableView
  <2>3. 0 \in OpIds
    BY LogAssumption DEF OpIds
  <2> QED
    BY <2>1, <2>2, <2>3 DEF Abstract!Init
<1>2. IInv /\ FitsLog /\ CrashInv /\ [Next]_vars => CrashInv' /\ [Abstract!Next]_(Abstract!vars)
  <2> SUFFICES ASSUME IInv, FitsLog, CrashInv, [Next]_vars
               PROVE  CrashInv' /\ [Abstract!Next]_(Abstract!vars)
    OBVIOUS
  <2>1. crashes < Pressure => crashes = 0
    BY DEF IInv, ControlInv, TypeOK, ProcTypeOK
  <2> QED
    BY <2>1, CrashStep DEF AbstractStep, Abstract!vars
<1>3. Spec => []FitsLog
  BY LogFits
<1> QED
  BY <1>1, <1>2, <1>3, Invariance, PTL DEF Spec, CrashAtomic, Abstract!Spec
================================================================================
