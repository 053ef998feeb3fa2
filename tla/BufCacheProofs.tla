------------------------------ MODULE BufCacheProofs ------------------------------
(***************************************************************************)
(* Proofs about the buffer cache, for any number of processes, blocks and  *)
(* buffers.                                                                *)
(***************************************************************************)
EXTENDS BufCache, FiniteSetTheorems, WellFoundedInduction, TLAPS

\* Processes and blocks have names of their own, and 0 is the contents of a
\* block at the start.
CacheAssumption ==
  /\ NBUF \in Nat /\ IsFiniteSet(Procs)
  /\ NoProc \notin Procs /\ NoBlock \notin Blocks /\ 0 \in Vals

\* The list of the cache holds every buffer.
ListInv == lru \in [Bufs -> Bufs] /\ \A b \in Bufs : \E i \in Bufs : lru[i] = b

CacheType ==
  /\ blockno \in [Bufs -> Blocks \cup {NoBlock}]
  /\ valid \in [Bufs -> BOOLEAN]
  /\ refcnt \in [Bufs -> Nat]
  /\ data \in [Bufs -> Vals]
  /\ locked \in [Bufs -> Procs \cup {NoProc}]
  /\ media \in [Blocks -> Vals] /\ latest \in [Blocks -> Vals]
  /\ pinned \subseteq Blocks /\ IsFiniteSet(pinned)
  /\ pc \in [Procs -> {"idle", "lock", "sleep", "locked", "use", "dirty", "drop"}]
  /\ want \in [Procs -> Blocks \cup {NoBlock}]
  /\ cur \in [Procs -> Bufs \cup {NoBuf}]
  /\ panicked \in BOOLEAN

\* From bget() to brelse() a process has a buffer, and it stays the buffer of
\* the block it asked for; the holder of a buffer's lock is its only user.
Held(p) ==
  /\ cur[p] = NoBuf => pc[p] = "idle" \/ (panicked /\ pc[p] = "lock")
  /\ cur[p] # NoBuf => pc[p] # "idle" /\ want[p] \in Blocks /\ blockno[cur[p]] = want[p]
  /\ Using(p) => locked[cur[p]] = p
LockInv == \A b \in Bufs : locked[b] # NoProc => cur[locked[b]] = b /\ Using(locked[b])
HeldInv == LockInv /\ \A p \in Procs : Held(p)

\* The processes that have buffer b.
Users(b) == {p \in Procs : cur[p] = b}
CountInv ==
  \A b \in Bufs : refcnt[b] = Cardinality(Users(b)) + (IF blockno[b] \in pinned THEN 1 ELSE 0)

\* A valid buffer has the newest contents of its block, and so has the disk unless
\* the block is pinned or about to be written.
ContentsInv ==
  /\ \A b \in Bufs : valid[b] /\ blockno[b] # NoBlock => data[b] = latest[blockno[b]]
  /\ \A p \in Procs : pc[p] \in {"use", "dirty"} => valid[cur[p]]
  /\ \A k \in pinned : \E b \in Bufs : blockno[b] = k /\ valid[b]
  /\ \A k \in Blocks : \/ media[k] = latest[k] \/ k \in pinned
                       \/ \E p \in Procs : pc[p] = "dirty" /\ want[p] = k

CacheInv ==
  /\ ListInv /\ CacheType /\ HeldInv /\ OneBufferPerBlock /\ CountInv /\ ContentsInv
  /\ EnoughBuffers

--------------------------------------------------------------------------------
(* The list *)

\* A nonempty set of numbers up to n has a greatest.
LEMMA Greatest ==
  ASSUME NEW n \in Nat, NEW S \in SUBSET (1 .. n), S # {}
  PROVE  \E m \in S : \A k \in S : k <= m
<1> DEFINE T == {U \in SUBSET S : \E m \in S : U = {k \in S : k >= m}}
<1>0. IsFiniteSet(1 .. n)
  BY FS_Interval
<1>1. IsFiniteSet(S)
  BY <1>0, FS_Subset, Zenon
<1>2. T \subseteq FiniteSubsetsOf(S)
  BY <1>1, FS_FiniteSubsetsOfFinite
<1>3. T # {}
  <2>1. PICK m \in S : TRUE
    BY Zenon
  <2>2. {k \in S : k >= m} \in T
    OBVIOUS
  <2> QED
    BY <2>2, Zenon
<1> HIDE DEF T
<1>4. PICK x \in T : \A y \in T : ~(<<y, x>> \in StrictSubsetOrdering(S))
  BY <1>2, <1>3, FS_StrictSubsetOrderingWellFounded, WFMin
<1>5. PICK m \in S : x = {k \in S : k >= m}
  BY DEF T
<1>6. ASSUME NEW k \in S, k > m PROVE FALSE
  <2> DEFINE y == {j \in S : j >= k}
  <2>1. y \in T
    BY DEF T
  <2>0. \A j \in S : j \in Int
    OBVIOUS
  <2>2. y \subseteq x /\ m \in x /\ m \notin y
    <3>1. m \in x
      BY <1>5, <2>0
    <3>2. m \notin y
      BY <1>6, <2>0
    <3>3. \A j \in S : j >= k => j >= m
      BY <1>6, <2>0
    <3>4. y \subseteq x
      BY <1>5, <3>3, Zenon
    <3> QED
      BY <3>1, <3>2, <3>4
  <2>3. y \in SUBSET S /\ x \in SUBSET S /\ x # y
    BY <2>2 DEF T
  <2> HIDE DEF y
  <2>4. <<y, x>> \in StrictSubsetOrdering(S)
    BY <2>2, <2>3, Zenon DEF StrictSubsetOrdering
  <2> QED
    BY <1>4, <2>1, <2>4
<1> QED
  BY <1>6

\* bget()'s scan from the end of the list finds an unused buffer if there is one.
LEMMA VictimUnused ==
  ASSUME CacheAssumption, ListInv, Unused # {}
  PROVE  Victim \in Bufs /\ refcnt[Victim] = 0
<1> DEFINE S == {i \in Bufs : lru[i] \in Unused}
<1>1. S \in SUBSET (1 .. NBUF) /\ S # {} /\ DOMAIN lru = Bufs
  BY DEF ListInv, Unused, Bufs
<1>2. PICK m \in S : \A k \in S : k <= m
  BY <1>1, Greatest, Zenon DEF CacheAssumption
<1>3. \E i \in DOMAIN lru : lru[i] \in Unused /\ \A j \in DOMAIN lru : j > i => lru[j] \notin Unused
  BY <1>1, <1>2 DEF Bufs
<1>4. Victim \in Unused
  BY <1>3 DEF Victim
<1> QED
  BY <1>4 DEF Unused

\* brelse() keeps the list complete when it moves a buffer to the front.
LEMMA FrontKeepsList ==
  ASSUME CacheAssumption, ListInv, NEW b \in Bufs, lru' = MoveToFront(b)
  PROVE  ListInv'
<1> DEFINE i == CHOOSE j \in DOMAIN lru : lru[j] = b
<1>1. DOMAIN lru = Bufs /\ NBUF \in Nat /\ lru \in [Bufs -> Bufs]
  BY DEF ListInv, CacheAssumption
<1>2. i \in Bufs /\ lru[i] = b
  BY <1>1 DEF ListInv
<1> HIDE DEF i
<1>3. lru' = [j \in Bufs |-> IF j = 1 THEN b ELSE IF j <= i THEN lru[j - 1] ELSE lru[j]]
  BY <1>1 DEF MoveToFront, i
<1>4. lru' \in [Bufs -> Bufs]
  <2>1. \A j \in Bufs : j # 1 => j - 1 \in Bufs
    BY <1>1 DEF Bufs
  <2> QED
    BY <1>1, <1>2, <1>3, <2>1
<1>5. ASSUME NEW c \in Bufs PROVE \E j \in Bufs : lru'[j] = c
  <2>1. CASE c = b
    BY <1>1, <1>2, <1>3, <2>1 DEF Bufs
  <2>2. CASE c # b
    <3>1. PICK k \in Bufs : lru[k] = c
      BY DEF ListInv
    <3>2. CASE k < i
      <4>1. k + 1 \in Bufs /\ lru'[k + 1] = lru[k]
        BY <1>1, <1>2, <1>3, <3>2 DEF Bufs
      <4> QED
        BY <3>1, <4>1
    <3>3. CASE k > i
      <4>1. lru'[k] = lru[k]
        BY <1>1, <1>2, <1>3, <3>3 DEF Bufs
      <4> QED
        BY <3>1, <4>1
    <3> QED
      BY <1>1, <1>2, <2>2, <3>1, <3>2, <3>3 DEF Bufs
  <2> QED
    BY <2>1, <2>2
<1> QED
  BY <1>4, <1>5, Zenon DEF ListInv, Bufs

--------------------------------------------------------------------------------
(* Reference counts *)

\* A count is a number; a buffer counted 0 has no users and is not pinned, and
\* a buffer with a user is counted.
LEMMA Counts ==
  ASSUME CacheAssumption, CountInv
  PROVE  /\ \A b \in Bufs : IsFiniteSet(Users(b)) /\ Cardinality(Users(b)) \in Nat
         /\ \A b \in Bufs : refcnt[b] = 0 => Users(b) = {} /\ blockno[b] \notin pinned
         /\ \A p \in Procs : cur[p] \in Bufs => refcnt[cur[p]] >= 1
         /\ \A b \in Bufs : refcnt[b] >= 1 => Users(b) # {} \/ blockno[b] \in pinned
<1>1. \A b \in Bufs : IsFiniteSet(Users(b)) /\ Cardinality(Users(b)) \in Nat
  BY FS_Subset, FS_CardinalityType DEF CacheAssumption, Users
<1>2. \A b \in Bufs : Cardinality(Users(b)) = 0 <=> Users(b) = {}
  BY <1>1, FS_EmptySet
<1>3. \A b \in Bufs : refcnt[b] = 0 => Users(b) = {} /\ blockno[b] \notin pinned
  BY <1>1, <1>2 DEF CountInv
<1>4. \A p \in Procs : cur[p] \in Bufs => Users(cur[p]) # {}
  BY DEF Users
<1>5. \A p \in Procs : cur[p] \in Bufs => refcnt[cur[p]] >= 1
  BY <1>1, <1>2, <1>4 DEF CountInv
<1>6. \A b \in Bufs : refcnt[b] >= 1 => Users(b) # {} \/ blockno[b] \in pinned
  BY <1>1, <1>2 DEF CountInv
<1> QED
  BY <1>1, <1>3, <1>5, <1>6

\* The three outcomes of bget(), with the buffer it takes.
GetHit(p, k, b) ==
  /\ blockno[b] = k
  /\ refcnt' = [refcnt EXCEPT ![b] = @ + 1] /\ cur' = [cur EXCEPT ![p] = b]
  /\ UNCHANGED <<blockno, valid, panicked>>
GetRecycled(p, k, b) ==
  /\ Users(b) = {} /\ blockno[b] \notin pinned /\ refcnt[b] = 0
  /\ \A c \in Bufs : blockno[c] # k
  /\ blockno' = [blockno EXCEPT ![b] = k] /\ valid' = [valid EXCEPT ![b] = FALSE]
  /\ refcnt' = [refcnt EXCEPT ![b] = 1] /\ cur' = [cur EXCEPT ![p] = b]
  /\ UNCHANGED panicked
GetPanic ==
  /\ \A b \in Bufs : refcnt[b] # 0
  /\ panicked' = TRUE /\ UNCHANGED <<blockno, valid, refcnt, cur>>
GetRest(p, k) ==
  /\ ~panicked /\ pc[p] = "idle" /\ want' = [want EXCEPT ![p] = k]
  /\ pc' = [pc EXCEPT ![p] = "lock"]
  /\ UNCHANGED <<data, lru, locked, media, latest, pinned>>

\* bget() finds the block, recycles a buffer nobody uses, or finds none.
LEMMA BgetOutcomes ==
  ASSUME CacheAssumption, ListInv, CountInv, NEW p \in Procs, NEW k \in Blocks, Bget(p, k)
  PROVE  /\ GetRest(p, k)
         /\ (\E b \in Bufs : GetHit(p, k, b) \/ GetRecycled(p, k, b)) \/ GetPanic
<1>1. GetRest(p, k)
  BY DEF Bget, GetRest, Goto
<1>2. CASE Hit(p, k)
  <2>1. \E b \in Bufs : GetHit(p, k, b)
    BY <1>2, Zenon DEF Hit, GetHit, Cached
  <2> QED
    BY <1>1, <2>1
<1>3. CASE Recycle(p, k)
  <2>1. Victim \in Bufs /\ refcnt[Victim] = 0
    BY <1>3, VictimUnused DEF Recycle
  <2>2. Users(Victim) = {} /\ blockno[Victim] \notin pinned
    BY <2>1, Counts
  <2>3. GetRecycled(p, k, Victim)
    BY <1>3, <2>1, <2>2 DEF Recycle, GetRecycled, Cached
  <2> QED
    BY <1>1, <2>1, <2>3
<1>4. CASE NoBuffers(k)
  BY <1>1, <1>4 DEF NoBuffers, GetPanic, Unused
<1> QED
  BY <1>2, <1>3, <1>4 DEF Bget

--------------------------------------------------------------------------------
(* The steps keep the invariant *)

\* What a process inside the cache knows of its buffer.
HasBuffer(p) ==
  /\ cur[p] \in Bufs /\ want[p] \in Blocks /\ blockno[cur[p]] = want[p]
  /\ refcnt[cur[p]] \in Nat \ {0}

\* Past bget(), a process has a buffer.
LEMMA BufferHeld ==
  ASSUME CacheAssumption, CacheInv, ~panicked, NEW p \in Procs, pc[p] # "idle"
  PROVE  HasBuffer(p)
<1>1. cur[p] \in Bufs /\ refcnt[cur[p]] \in Nat
  BY DEF CacheInv, CacheType, HeldInv, Held
<1>2. refcnt[cur[p]] >= 1
  BY <1>1, Counts DEF CacheInv
<1> QED
  BY <1>1, <1>2 DEF HasBuffer, CacheInv, HeldInv, Held, NoBuf, Bufs

\* Every variable keeps its type: a count is dropped only by a user or a pin that
\* was counted.
LEMMA TypeStep ==
  ASSUME CacheAssumption, CacheInv, Next
  PROVE  CacheType'
<1>i. CacheType
  BY DEF CacheInv
<1>h. \A p \in Procs : ~panicked /\ pc[p] # "idle" => HasBuffer(p)
  BY BufferHeld
<1>c. \A b \in Bufs : Users(b) = {} => \A q \in Procs : cur[q] # b
  BY DEF Users
<1>1. ASSUME NEW p \in Procs, NEW k \in Blocks, NEW b \in Bufs, GetRest(p, k), GetHit(p, k, b)
      PROVE  CacheType'
  BY <1>1, <1>i DEF GetRest, GetHit, CacheAssumption, CacheType
<1>2. ASSUME NEW p \in Procs, NEW k \in Blocks, NEW b \in Bufs, GetRest(p, k), GetRecycled(p, k, b)
      PROVE  CacheType'
  BY <1>2, <1>i, <1>c DEF GetRest, GetRecycled, CacheAssumption, CacheType
<1>3. ASSUME NEW p \in Procs, NEW k \in Blocks, GetRest(p, k), GetPanic
      PROVE  CacheType'
  BY <1>3, <1>i DEF GetRest, GetPanic, CacheAssumption, CacheType
<1>4. ASSUME NEW p \in Procs, NEW k \in Blocks, Bget(p, k)
      PROVE  CacheType'
  BY <1>1, <1>2, <1>3, <1>4, BgetOutcomes DEF CacheInv
<1>5. ASSUME NEW p \in Procs, NEW v \in Vals, Store(p, v)
      PROVE  CacheType'
  BY <1>5, <1>i, <1>h DEF Store, Goto, HasBuffer, CacheAssumption, CacheType
<1>6. ASSUME NEW p \in Procs, AcquireSleep(p)
      PROVE  CacheType'
  BY <1>6, <1>i, <1>h DEF AcquireSleep, Goto, bufvars, HasBuffer, CacheAssumption, CacheType
<1>7. ASSUME NEW p \in Procs, Bread(p)
      PROVE  CacheType'
  BY <1>7, <1>i, <1>h DEF Bread, Goto, bufvars, HasBuffer, CacheAssumption, CacheType
<1>8. ASSUME NEW p \in Procs, Bwrite(p)
      PROVE  CacheType'
  <2>1. HasBuffer(p)
    BY <1>8, <1>h DEF Bwrite
  <2>2. IsFiniteSet(pinned')
    BY <1>8, <1>i, FS_RemoveElement DEF Bwrite, CacheType
  <2> QED
    BY <1>8, <1>i, <2>1, <2>2 DEF Bwrite, Goto, HasBuffer, CacheType
<1>9. ASSUME NEW p \in Procs, Bpin(p)
      PROVE  CacheType'
  <2>1. HasBuffer(p)
    BY <1>9, <1>h DEF Bpin
  <2>2. IsFiniteSet(pinned')
    BY <1>9, <1>i, FS_AddElement DEF Bpin, CacheType
  <2> QED
    BY <1>9, <1>i, <2>1, <2>2 DEF Bpin, Goto, HasBuffer, CacheType
<1>10. ASSUME NEW p \in Procs, ReleaseSleep(p)
      PROVE  CacheType'
  BY <1>10, <1>i, <1>h DEF ReleaseSleep, Goto, bufvars, HasBuffer, CacheAssumption, CacheType
<1>11. ASSUME NEW p \in Procs, Drop(p)
      PROVE  CacheType'
  <2>1. HasBuffer(p)
    BY <1>11, <1>h DEF Drop
  <2> QED
    BY <1>11, <1>i, <2>1 DEF Drop, Goto, HasBuffer, CacheType
<1> QED
  BY <1>4, <1>5, <1>6, <1>7, <1>8, <1>9, <1>10, <1>11 DEF Next, Step

\* A buffer with users is not recycled, so it stays the buffer of their block.
LEMMA HeldStep ==
  ASSUME CacheAssumption, CacheInv, Next
  PROVE  HeldInv'
<1>i. CacheType /\ HeldInv
  BY DEF CacheInv
<1>h. \A p \in Procs : ~panicked /\ pc[p] # "idle" => HasBuffer(p)
  BY BufferHeld
<1>c. \A b \in Bufs : Users(b) = {} => \A q \in Procs : cur[q] # b
  BY DEF Users
<1>1. ASSUME NEW p \in Procs, NEW k \in Blocks, NEW b \in Bufs, GetRest(p, k), GetHit(p, k, b)
      PROVE  HeldInv'
  BY <1>1, <1>i DEF GetRest, GetHit, CacheAssumption, CacheType, HeldInv, LockInv, Held, Using,
    NoBuf, Bufs, NoProc, NoBlock
<1>2. ASSUME NEW p \in Procs, NEW k \in Blocks, NEW b \in Bufs, GetRest(p, k), GetRecycled(p, k, b)
      PROVE  HeldInv'
  BY <1>2, <1>i, <1>c DEF GetRest, GetRecycled, CacheAssumption, CacheType, HeldInv, LockInv, Held,
    Using, NoBuf, Bufs, NoProc, NoBlock
<1>3. ASSUME NEW p \in Procs, NEW k \in Blocks, GetRest(p, k), GetPanic
      PROVE  HeldInv'
  BY <1>3, <1>i DEF GetRest, GetPanic, CacheAssumption, CacheType, HeldInv, LockInv, Held, Using,
    NoBuf, Bufs, NoProc, NoBlock
<1>4. ASSUME NEW p \in Procs, NEW k \in Blocks, Bget(p, k)
      PROVE  HeldInv'
  BY <1>1, <1>2, <1>3, <1>4, BgetOutcomes DEF CacheInv
<1>5. ASSUME NEW p \in Procs, NEW v \in Vals, Store(p, v)
      PROVE  HeldInv'
  BY <1>5, <1>i, <1>h DEF Store, Goto, HasBuffer, CacheAssumption, CacheType, HeldInv, LockInv,
    Held, Using, NoBuf, Bufs, NoProc, NoBlock
<1>6. ASSUME NEW p \in Procs, AcquireSleep(p)
      PROVE  HeldInv'
  <2>1. HasBuffer(p)
    BY <1>6, <1>h DEF AcquireSleep
  <2>2. CASE locked[cur[p]] = NoProc
    <3>1. locked' = [locked EXCEPT ![cur[p]] = p] /\ pc' = [pc EXCEPT ![p] = "locked"]
      BY <1>6, <2>2 DEF AcquireSleep, Goto
    <3>2. \A b \in Bufs : locked[b] # p
      BY <1>6, <1>i DEF AcquireSleep, HeldInv, LockInv, Using, CacheAssumption
    <3>3. LockInv'
      BY <1>6, <1>i, <2>1, <2>2, <3>1, <3>2 DEF AcquireSleep, HasBuffer, CacheType, HeldInv,
        LockInv, Using
    <3>4. \A q \in Procs : Held(q)'
      BY <1>6, <1>i, <2>1, <2>2, <3>1 DEF AcquireSleep, HasBuffer, CacheType, HeldInv, Held, Using,
        bufvars,
        CacheAssumption, NoBuf, Bufs
    <3> QED
      BY <3>3, <3>4 DEF HeldInv
  <2>3. CASE locked[cur[p]] # NoProc
    BY <1>6, <1>i, <2>1, <2>3 DEF AcquireSleep, HasBuffer, CacheType, HeldInv, LockInv, Held, Using,
      Goto, bufvars,
      NoBuf, Bufs
  <2> QED
    BY <2>2, <2>3
<1>7. ASSUME NEW p \in Procs, Bread(p)
      PROVE  HeldInv'
  BY <1>7, <1>i, <1>h DEF Bread, Goto, bufvars, HasBuffer, CacheAssumption, CacheType, HeldInv,
    LockInv, Held, Using, NoBuf, Bufs, NoProc, NoBlock
<1>8. ASSUME NEW p \in Procs, Bwrite(p)
      PROVE  HeldInv'
  BY <1>8, <1>i, <1>h DEF Bwrite, Goto, bufvars, HasBuffer, CacheAssumption, CacheType, HeldInv,
    LockInv, Held, Using, NoBuf, Bufs, NoProc, NoBlock
<1>9. ASSUME NEW p \in Procs, Bpin(p)
      PROVE  HeldInv'
  BY <1>9, <1>i, <1>h DEF Bpin, Goto, bufvars, HasBuffer, CacheAssumption, CacheType, HeldInv,
    LockInv, Held, Using, NoBuf, Bufs, NoProc, NoBlock
<1>10. ASSUME NEW p \in Procs, ReleaseSleep(p)
      PROVE  HeldInv'
  BY <1>10, <1>i, <1>h DEF ReleaseSleep, Goto, bufvars, HasBuffer, CacheAssumption, CacheType,
    HeldInv, LockInv, Held, Using, NoBuf, Bufs, NoProc, NoBlock
<1>11. ASSUME NEW p \in Procs, Drop(p)
      PROVE  HeldInv'
  BY <1>11, <1>i, <1>h DEF Drop, Goto, bufvars, HasBuffer, CacheAssumption, CacheType, HeldInv,
    LockInv, Held, Using, NoBuf, Bufs, NoProc, NoBlock
<1> QED
  BY <1>4, <1>5, <1>6, <1>7, <1>8, <1>9, <1>10, <1>11 DEF Next, Step

\* bget() looks for the block and recycles in one critical section.
LEMMA OneBufferStep ==
  ASSUME CacheAssumption, CacheInv, Next
  PROVE  OneBufferPerBlock'
<1>i. CacheType /\ OneBufferPerBlock
  BY DEF CacheInv
<1>h. \A p \in Procs : ~panicked /\ pc[p] # "idle" => HasBuffer(p)
  BY BufferHeld
<1>c. \A b \in Bufs : Users(b) = {} => \A q \in Procs : cur[q] # b
  BY DEF Users
<1>1. ASSUME NEW p \in Procs, NEW k \in Blocks, NEW b \in Bufs, GetRest(p, k), GetHit(p, k, b)
      PROVE  OneBufferPerBlock'
  BY <1>1, <1>i DEF GetRest, GetHit, CacheType, OneBufferPerBlock
<1>2. ASSUME NEW p \in Procs, NEW k \in Blocks, NEW b \in Bufs, GetRest(p, k), GetRecycled(p, k, b)
      PROVE  OneBufferPerBlock'
  BY <1>2, <1>i, <1>c DEF GetRest, GetRecycled, CacheType, OneBufferPerBlock
<1>3. ASSUME NEW p \in Procs, NEW k \in Blocks, GetRest(p, k), GetPanic
      PROVE  OneBufferPerBlock'
  BY <1>3, <1>i DEF GetRest, GetPanic, CacheType, OneBufferPerBlock
<1>4. ASSUME NEW p \in Procs, NEW k \in Blocks, Bget(p, k)
      PROVE  OneBufferPerBlock'
  BY <1>1, <1>2, <1>3, <1>4, BgetOutcomes DEF CacheInv
<1>5. ASSUME NEW p \in Procs, NEW v \in Vals, Store(p, v)
      PROVE  OneBufferPerBlock'
  BY <1>5, <1>i, <1>h DEF Store, Goto, HasBuffer, CacheType, OneBufferPerBlock
<1>6. ASSUME NEW p \in Procs, AcquireSleep(p)
      PROVE  OneBufferPerBlock'
  BY <1>6, <1>i, <1>h DEF AcquireSleep, Goto, bufvars, HasBuffer, CacheType, OneBufferPerBlock
<1>7. ASSUME NEW p \in Procs, Bread(p)
      PROVE  OneBufferPerBlock'
  BY <1>7, <1>i, <1>h DEF Bread, Goto, bufvars, HasBuffer, CacheType, OneBufferPerBlock
<1>8. ASSUME NEW p \in Procs, Bwrite(p)
      PROVE  OneBufferPerBlock'
  BY <1>8, <1>i, <1>h DEF Bwrite, Goto, bufvars, HasBuffer, CacheType, OneBufferPerBlock
<1>9. ASSUME NEW p \in Procs, Bpin(p)
      PROVE  OneBufferPerBlock'
  BY <1>9, <1>i, <1>h DEF Bpin, Goto, bufvars, HasBuffer, CacheType, OneBufferPerBlock
<1>10. ASSUME NEW p \in Procs, ReleaseSleep(p)
      PROVE  OneBufferPerBlock'
  BY <1>10, <1>i, <1>h DEF ReleaseSleep, Goto, bufvars, HasBuffer, CacheType, OneBufferPerBlock
<1>11. ASSUME NEW p \in Procs, Drop(p)
      PROVE  OneBufferPerBlock'
  BY <1>11, <1>i, <1>h DEF Drop, Goto, bufvars, HasBuffer, CacheType, OneBufferPerBlock
<1> QED
  BY <1>4, <1>5, <1>6, <1>7, <1>8, <1>9, <1>10, <1>11 DEF Next, Step

\* The counts stay exact.
LEMMA CountStep ==
  ASSUME CacheAssumption, CacheInv, Next
  PROVE  CountInv'
<1>i. CacheType /\ HeldInv /\ OneBufferPerBlock /\ CountInv /\ ContentsInv
  BY DEF CacheInv
<1>h. \A p \in Procs : ~panicked /\ pc[p] # "idle" => HasBuffer(p)
  BY BufferHeld
<1>n. \A b \in Bufs : IsFiniteSet(Users(b)) /\ Cardinality(Users(b)) \in Nat /\ refcnt[b] \in Nat
  BY <1>i, Counts DEF CacheType
<1>1. ASSUME NEW p \in Procs, NEW k \in Blocks, NEW b \in Bufs, GetRest(p, k), GetHit(p, k, b)
      PROVE  CountInv'
  <2>1. cur[p] = NoBuf /\ NoBuf \notin Bufs
    BY <1>1, <1>i DEF GetRest, HeldInv, Held, NoBuf, Bufs
  <2>2. Users(b)' = Users(b) \cup {p} /\ p \notin Users(b)
    BY <1>1, <1>i, <2>1 DEF GetHit, Users, CacheType
  <2>3. \A c \in Bufs : c # b => Users(c)' = Users(c)
    BY <1>1, <1>i, <2>1 DEF GetHit, Users, CacheType
  <2>4. Cardinality(Users(b)') = Cardinality(Users(b)) + 1
    BY <1>n, <2>2, FS_AddElement, Zenon
  <2>5. refcnt'[b] = refcnt[b] + 1 /\ \A c \in Bufs : c # b => refcnt'[c] = refcnt[c]
    BY <1>1, <1>i DEF GetHit, CacheType
  <2>6. blockno' = blockno /\ pinned' = pinned
    BY <1>1 DEF GetHit, GetRest
  <2> QED
    BY <1>i, <1>n, <2>3, <2>4, <2>5, <2>6 DEF CountInv
<1>2. ASSUME NEW p \in Procs, NEW k \in Blocks, NEW b \in Bufs, GetRest(p, k), GetRecycled(p, k, b)
      PROVE  CountInv'
  <2>1. cur[p] = NoBuf /\ NoBuf \notin Bufs
    BY <1>2, <1>i DEF GetRest, HeldInv, Held, NoBuf, Bufs
  <2>2. Users(b)' = {p}
    BY <1>2, <1>i, <2>1 DEF GetRecycled, Users, CacheType
  <2>3. \A c \in Bufs : c # b => Users(c)' = Users(c)
    BY <1>2, <1>i, <2>1 DEF GetRecycled, Users, CacheType
  <2>4. Cardinality(Users(b)') = 1
    BY <2>2, FS_Singleton
  <2>5. /\ refcnt'[b] = 1 /\ blockno'[b] = k
        /\ \A c \in Bufs : c # b => refcnt'[c] = refcnt[c] /\ blockno'[c] = blockno[c]
    BY <1>2, <1>i DEF GetRecycled, CacheType
  <2>6. k \notin pinned /\ pinned' = pinned
    BY <1>2, <1>i DEF GetRecycled, GetRest, ContentsInv
  <2> QED
    BY <1>i, <2>3, <2>4, <2>5, <2>6 DEF CountInv
<1>3. ASSUME NEW p \in Procs, NEW k \in Blocks, GetRest(p, k), GetPanic
      PROVE  CountInv'
  BY <1>3, <1>i DEF GetRest, GetPanic, CountInv, Users
<1>4. ASSUME NEW p \in Procs, NEW k \in Blocks, Bget(p, k)
      PROVE  CountInv'
  BY <1>1, <1>2, <1>3, <1>4, BgetOutcomes DEF CacheInv
<1>5. ASSUME NEW p \in Procs, NEW v \in Vals, Store(p, v)
      PROVE  CountInv'
  BY <1>5, <1>i DEF Store, Goto, bufvars, CountInv, Users
<1>6. ASSUME NEW p \in Procs, AcquireSleep(p)
      PROVE  CountInv'
  BY <1>6, <1>i DEF AcquireSleep, Goto, bufvars, CountInv, Users
<1>7. ASSUME NEW p \in Procs, Bread(p)
      PROVE  CountInv'
  BY <1>7, <1>i DEF Bread, Goto, bufvars, CountInv, Users
<1>8. ASSUME NEW p \in Procs, Bwrite(p)
      PROVE  CountInv'
  <2>1. HasBuffer(p)
    BY <1>8, <1>h DEF Bwrite
  <2>2. \A b \in Bufs : Users(b)' = Users(b)
    BY <1>8 DEF Bwrite, Users
  <2>3. \A b \in Bufs : b # cur[p] => (blockno[b] \in pinned' <=> blockno[b] \in pinned) /\ refcnt'[b] = refcnt[b]
    BY <1>8, <1>i, <2>1 DEF Bwrite, HasBuffer, OneBufferPerBlock, CacheType, CacheAssumption
  <2>4. /\ blockno[cur[p]] \notin pinned' /\ blockno' = blockno
        /\ refcnt'[cur[p]] = refcnt[cur[p]] - (IF blockno[cur[p]] \in pinned THEN 1 ELSE 0)
    BY <1>8, <1>i, <2>1 DEF Bwrite, HasBuffer, CacheType
  <2> QED
    BY <1>i, <1>n, <2>1, <2>2, <2>3, <2>4 DEF CountInv, HasBuffer
<1>9. ASSUME NEW p \in Procs, Bpin(p)
      PROVE  CountInv'
  <2>1. HasBuffer(p)
    BY <1>9, <1>h DEF Bpin
  <2>2. \A b \in Bufs : Users(b)' = Users(b)
    BY <1>9 DEF Bpin, Users
  <2>3. \A b \in Bufs : b # cur[p] => (blockno[b] \in pinned' <=> blockno[b] \in pinned) /\ refcnt'[b] = refcnt[b]
    BY <1>9, <1>i, <2>1 DEF Bpin, HasBuffer, OneBufferPerBlock, CacheType, CacheAssumption
  <2>4. /\ blockno[cur[p]] \in pinned' /\ blockno' = blockno
        /\ refcnt'[cur[p]] = refcnt[cur[p]] + (IF blockno[cur[p]] \in pinned THEN 0 ELSE 1)
    BY <1>9, <1>i, <2>1 DEF Bpin, HasBuffer, CacheType
  <2> QED
    BY <1>i, <1>n, <2>1, <2>2, <2>3, <2>4 DEF CountInv, HasBuffer
<1>10. ASSUME NEW p \in Procs, ReleaseSleep(p)
      PROVE  CountInv'
  BY <1>10, <1>i DEF ReleaseSleep, Goto, bufvars, CountInv, Users
<1>11. ASSUME NEW p \in Procs, Drop(p)
      PROVE  CountInv'
  <2>1. HasBuffer(p) /\ NoBuf \notin Bufs
    BY <1>11, <1>h DEF Drop, NoBuf, Bufs
  <2>b. PICK b \in Bufs : b = cur[p]
    BY <2>1 DEF HasBuffer
  <2>3. Users(b)' = Users(b) \ {p} /\ p \in Users(b)
    BY <1>11, <1>i, <2>1, <2>b DEF Drop, Users, CacheType
  <2>4. \A c \in Bufs : c # b => Users(c)' = Users(c)
    BY <1>11, <1>i, <2>1, <2>b DEF Drop, Users, CacheType
  <2>5. Cardinality(Users(b)') = Cardinality(Users(b)) - 1
    BY <1>n, <2>3, FS_RemoveElement, Zenon
  <2>6. refcnt'[b] = refcnt[b] - 1 /\ \A c \in Bufs : c # b => refcnt'[c] = refcnt[c]
    BY <1>11, <1>i, <2>b DEF Drop, CacheType
  <2>7. blockno' = blockno /\ pinned' = pinned
    BY <1>11 DEF Drop
  <2> QED
    BY <1>i, <1>n, <2>4, <2>5, <2>6, <2>7 DEF CountInv
<1> QED
  BY <1>4, <1>5, <1>6, <1>7, <1>8, <1>9, <1>10, <1>11 DEF Next, Step

\* Contents reach the disk before their buffer can be recycled.
LEMMA ContentsStep ==
  ASSUME CacheAssumption, CacheInv, Next
  PROVE  ContentsInv'
<1>i. CacheType /\ HeldInv /\ OneBufferPerBlock /\ ContentsInv
  BY DEF CacheInv
<1>h. \A p \in Procs : ~panicked /\ pc[p] # "idle" => HasBuffer(p)
  BY BufferHeld
<1>c. \A b \in Bufs : Users(b) = {} => \A q \in Procs : cur[q] # b
  BY DEF Users
<1>1. ASSUME NEW p \in Procs, NEW k \in Blocks, NEW b \in Bufs, GetRest(p, k), GetHit(p, k, b)
      PROVE  ContentsInv'
  BY <1>1, <1>i DEF GetRest, GetHit, CacheAssumption, CacheType, HeldInv, LockInv, Held, Using,
    ContentsInv, OneBufferPerBlock, NoBuf, Bufs, NoProc, NoBlock
<1>2. ASSUME NEW p \in Procs, NEW k \in Blocks, NEW b \in Bufs, GetRest(p, k), GetRecycled(p, k, b)
      PROVE  ContentsInv'
  <2>1. \A c \in Bufs : c # b => blockno'[c] = blockno[c] /\ valid'[c] = valid[c]
    BY <1>2, <1>i DEF GetRecycled, CacheType
  <2>2. ~valid'[b] /\ UNCHANGED <<data, media, latest, pinned>>
    BY <1>2, <1>i DEF GetRecycled, GetRest, CacheType
  <2>3. \A q \in Procs : q # p => pc'[q] = pc[q] /\ cur'[q] = cur[q] /\ want'[q] = want[q] /\ cur[q] # b
    BY <1>2, <1>i, <1>c DEF GetRecycled, GetRest, CacheType
  <2>4. pc[p] = "idle" /\ pc'[p] = "lock"
    BY <1>2, <1>i DEF GetRest, CacheType
  <2>5. \A c \in Bufs : valid'[c] /\ blockno'[c] # NoBlock => data'[c] = latest'[blockno'[c]]
    BY <1>i, <2>1, <2>2 DEF ContentsInv
  <2>6. \A q \in Procs : pc'[q] \in {"use", "dirty"} => valid'[cur'[q]]
    BY <1>i, <2>1, <2>3, <2>4 DEF ContentsInv, CacheType, HeldInv, Held
  <2>7. \A l \in pinned' : \E c \in Bufs : blockno'[c] = l /\ valid'[c]
    BY <1>2, <1>i, <2>1, <2>2, SMTT(20) DEF ContentsInv, GetRecycled
  <2>8. \A l \in Blocks : \/ media'[l] = latest'[l] \/ l \in pinned'
                          \/ \E q \in Procs : pc'[q] = "dirty" /\ want'[q] = l
    <3>1. \A q \in Procs : pc[q] = "dirty" => pc'[q] = "dirty" /\ want'[q] = want[q]
      BY <2>3, <2>4
    <3> QED
      BY <1>i, <2>2, <3>1 DEF ContentsInv
  <2> QED
    BY <2>5, <2>6, <2>7, <2>8 DEF ContentsInv
<1>3. ASSUME NEW p \in Procs, NEW k \in Blocks, GetRest(p, k), GetPanic
      PROVE  ContentsInv'
  BY <1>3, <1>i DEF GetRest, GetPanic, CacheAssumption, CacheType, HeldInv, LockInv, Held, Using,
    ContentsInv, OneBufferPerBlock, NoBuf, Bufs, NoProc, NoBlock
<1>4. ASSUME NEW p \in Procs, NEW k \in Blocks, Bget(p, k)
      PROVE  ContentsInv'
  BY <1>1, <1>2, <1>3, <1>4, BgetOutcomes DEF CacheInv
<1>5. ASSUME NEW p \in Procs, NEW v \in Vals, Store(p, v)
      PROVE  ContentsInv'
  BY <1>5, <1>i, <1>h DEF Store, Goto, HasBuffer, CacheAssumption, CacheType, HeldInv, LockInv,
    Held, Using, ContentsInv, OneBufferPerBlock, NoBuf, Bufs, NoProc, NoBlock
<1>6. ASSUME NEW p \in Procs, AcquireSleep(p)
      PROVE  ContentsInv'
  BY <1>6, <1>i, <1>h, SMTT(20) DEF AcquireSleep, Goto, bufvars, HasBuffer, CacheAssumption, CacheType,
    HeldInv, LockInv, Held, Using, ContentsInv, OneBufferPerBlock, NoBuf, Bufs, NoProc, NoBlock
<1>7. ASSUME NEW p \in Procs, Bread(p)
      PROVE  ContentsInv'
  <2>1. HasBuffer(p)
    BY <1>7, <1>h DEF Bread
  <2>2. /\ UNCHANGED <<blockno, media, latest, pinned, want, cur>>
        /\ pc' = [pc EXCEPT ![p] = "use"] /\ pc[p] = "locked"
        /\ valid' = [valid EXCEPT ![cur[p]] = TRUE]
        /\ \A b \in Bufs : b # cur[p] => data'[b] = data[b]
        /\ data'[cur[p]] = IF valid[cur[p]] THEN data[cur[p]] ELSE media[want[p]]
    BY <1>7, <1>i, <2>1, SMTT(20) DEF Bread, Goto, HasBuffer, CacheType
  <2>3. ~valid[cur[p]] => media[want[p]] = latest[want[p]]
    <3> SUFFICES ASSUME ~valid[cur[p]] PROVE media[want[p]] = latest[want[p]]
      OBVIOUS
    <3>1. want[p] \notin pinned
      BY <1>i, <2>1 DEF ContentsInv, OneBufferPerBlock, HasBuffer, CacheType, CacheAssumption
    <3>2. ASSUME NEW q \in Procs, pc[q] = "dirty", want[q] = want[p] PROVE FALSE
      <4>1. cur[q] \in Bufs /\ blockno[cur[q]] = want[q]
        BY <1>7, <3>2, <1>h DEF Bread, HasBuffer
      <4>2. cur[q] = cur[p]
        BY <1>i, <2>1, <3>2, <4>1 DEF OneBufferPerBlock, HasBuffer, CacheAssumption
      <4> QED
        BY <1>i, <3>2, <4>2 DEF ContentsInv
    <3> QED
      BY <1>i, <2>1, <3>1, <3>2 DEF ContentsInv, HasBuffer
  <2>4. \A b \in Bufs : valid'[b] /\ blockno'[b] # NoBlock => data'[b] = latest'[blockno'[b]]
    BY <1>i, <2>1, <2>2, <2>3 DEF ContentsInv, HasBuffer, CacheType
  <2>5. \A q \in Procs : pc'[q] \in {"use", "dirty"} => valid'[cur'[q]]
    BY <1>i, <2>1, <2>2 DEF ContentsInv, HasBuffer, CacheType
  <2>6. \A l \in pinned' : \E b \in Bufs : blockno'[b] = l /\ valid'[b]
    BY <1>i, <2>1, <2>2 DEF ContentsInv, HasBuffer, CacheType
  <2>7. \A l \in Blocks : \/ media'[l] = latest'[l] \/ l \in pinned'
                          \/ \E q \in Procs : pc'[q] = "dirty" /\ want'[q] = l
    BY <1>i, <2>2 DEF ContentsInv, CacheType
  <2> QED
    BY <2>4, <2>5, <2>6, <2>7 DEF ContentsInv
<1>8. ASSUME NEW p \in Procs, Bwrite(p)
      PROVE  ContentsInv'
  BY <1>8, <1>i, <1>h DEF Bwrite, Goto, bufvars, HasBuffer, CacheAssumption, CacheType, HeldInv,
    LockInv, Held, Using, ContentsInv, OneBufferPerBlock, NoBuf, Bufs, NoProc, NoBlock
<1>9. ASSUME NEW p \in Procs, Bpin(p)
      PROVE  ContentsInv'
  BY <1>9, <1>i, <1>h DEF Bpin, Goto, bufvars, HasBuffer, CacheAssumption, CacheType, HeldInv,
    LockInv, Held, Using, ContentsInv, OneBufferPerBlock, NoBuf, Bufs, NoProc, NoBlock
<1>10. ASSUME NEW p \in Procs, ReleaseSleep(p)
      PROVE  ContentsInv'
  <2>1. \A q \in Procs : pc'[q] \in {"use", "dirty"} => pc'[q] = pc[q]
    BY <1>10, <1>i DEF ReleaseSleep, CacheType
  <2>2. \A q \in Procs : pc[q] = "dirty" => pc'[q] = "dirty"
    BY <1>10, <1>i DEF ReleaseSleep, CacheType
  <2>3. UNCHANGED <<blockno, valid, data, media, latest, pinned, want, cur>>
    BY <1>10 DEF ReleaseSleep, bufvars
  <2> QED
    BY <1>i, <2>1, <2>2, <2>3 DEF ContentsInv
<1>11. ASSUME NEW p \in Procs, Drop(p)
      PROVE  ContentsInv'
  BY <1>11, <1>i, <1>h, SMTT(20) DEF Drop, Goto, bufvars, HasBuffer, CacheAssumption, CacheType, HeldInv,
    LockInv, Held, Using, ContentsInv, OneBufferPerBlock, NoBuf, Bufs, NoProc, NoBlock
<1> QED
  BY <1>4, <1>5, <1>6, <1>7, <1>8, <1>9, <1>10, <1>11 DEF Next, Step

\* Only brelse() changes the list.
LEMMA ListStep ==
  ASSUME CacheAssumption, CacheInv, Next
  PROVE  ListInv'
<1>1. ListInv
  BY DEF CacheInv
<1>2. ASSUME NEW p \in Procs, Drop(p)
      PROVE  ListInv'
  <2>1. cur[p] \in Bufs
    BY <1>2, BufferHeld DEF Drop, HasBuffer
  <2> QED
    BY <1>1, <1>2, <2>1, FrontKeepsList DEF Drop, ListInv
<1>3. CASE UNCHANGED lru
  BY <1>1, <1>3 DEF ListInv
<1> QED
  BY <1>2, <1>3 DEF Next, Step, Bget, Store, AcquireSleep, Bread, Bwrite, Bpin, ReleaseSleep, bufvars

\* bget() panics when every buffer has a user or is pinned; nothing runs after that.
LEMMA EnoughStep ==
  ASSUME CacheAssumption, CacheInv, Next
  PROVE  EnoughBuffers'
<1> DEFINE A == {p \in Procs : cur[p] # NoBuf}
           I == {cur[p] : p \in A}
           P == {b \in Bufs : blockno[b] \in pinned}
<1>i. CacheType /\ OneBufferPerBlock /\ CountInv /\ ~panicked
  BY DEF CacheInv, Next, Step, Bget, Store, AcquireSleep, Bread, Bwrite, Bpin, ReleaseSleep, Drop
<1>1. ASSUME NEW p \in Procs, NEW k \in Blocks, GetRest(p, k), GetPanic
      PROVE  EnoughBuffers'
  <2>1. \A b \in Bufs : b \in I \cup P
    <3>1. \A b \in Bufs : refcnt[b] >= 1
      BY <1>1, <1>i DEF GetPanic, CacheType
    <3>2. \A b \in Bufs : Users(b) # {} \/ blockno[b] \in pinned
      BY <1>i, <3>1, Counts
    <3> QED
      BY <3>2 DEF Users, NoBuf, Bufs
  <2>2. IsFiniteSet(A) /\ Cardinality(A) \in Nat
    BY FS_Subset, FS_CardinalityType, SMTT(20) DEF CacheAssumption
  <2>3. IsFiniteSet(I) /\ Cardinality(I) <= Cardinality(A) /\ Cardinality(I) \in Nat
    <3>1. [q \in A |-> cur[q]] \in Surjection(A, I)
      BY DEF Surjection
    <3> QED
      BY <2>2, <3>1, FS_Surjection, FS_CardinalityType
  <2>4. IsFiniteSet(P) /\ Cardinality(P) <= Cardinality(pinned) /\ Cardinality(P) \in Nat
    <3>1. [b \in P |-> blockno[b]] \in Injection(P, pinned)
      <4>1. pinned \subseteq Blocks /\ NoBlock \notin Blocks
        BY <1>i DEF CacheType, CacheAssumption
      <4>2. \A b, c \in P : blockno[b] = blockno[c] => b = c
        BY <1>i, <4>1 DEF OneBufferPerBlock
      <4> QED
        BY <4>2 DEF Injection, IsInjective
    <3> QED
      BY <1>i, <3>1, FS_Injection, FS_CardinalityType DEF CacheType
  <2>5. Cardinality(pinned) \in Nat
    BY <1>i, FS_CardinalityType DEF CacheType
  <2> HIDE DEF I, P
  <2>6. IsFiniteSet(I \cup P) /\ Cardinality(I \cup P) <= Cardinality(I) + Cardinality(P)
    <3>1. IsFiniteSet(I \cap P) /\ Cardinality(I \cap P) \in Nat
      BY <2>3, FS_Intersection, FS_CardinalityType, Zenon
    <3> QED
      <4>1. IsFiniteSet(I \cup P)
        BY <2>3, <2>4, FS_Union, Zenon
      <4>2. Cardinality(I \cup P) = Cardinality(I) + Cardinality(P) - Cardinality(I \cap P)
        BY <2>3, <2>4, FS_Union
      <4> QED
        BY <2>3, <2>4, <3>1, <4>1, <4>2
  <2>7. Cardinality(Bufs) = NBUF
    BY FS_Interval DEF Bufs, CacheAssumption
  <2>8. Cardinality(Bufs) <= Cardinality(I \cup P) /\ Cardinality(I \cup P) \in Nat
    BY <2>1, <2>6, FS_Subset, FS_CardinalityType
  <2>9. NBUF <= Cardinality(A) + Cardinality(pinned)
    BY <2>2, <2>3, <2>4, <2>5, <2>6, <2>7, <2>8 DEF CacheAssumption
  <2> QED
    BY <1>1, <2>9 DEF GetPanic, GetRest, EnoughBuffers
<1>2. ASSUME NEW p \in Procs, NEW k \in Blocks, Bget(p, k)
      PROVE  EnoughBuffers'
  BY <1>1, <1>2, <1>i, BgetOutcomes, Zenon DEF CacheInv, GetHit, GetRecycled, EnoughBuffers
<1>3. CASE UNCHANGED panicked
  BY <1>3, <1>i DEF EnoughBuffers
<1> QED
  BY <1>2, <1>3, SMTT(20) DEF Next, Step, Store, AcquireSleep, Bread, Bwrite, Bpin, ReleaseSleep, Drop

\* The cache starts empty.
LEMMA CacheInit == ASSUME CacheAssumption, Init PROVE CacheInv
<1>1. ListInv
  <2>1. \A b \in Bufs : NBUF + 1 - b \in Bufs /\ lru[NBUF + 1 - b] = b
    BY DEF Init, Bufs, CacheAssumption
  <2> QED
    BY <2>1 DEF Init, ListInv, Bufs, CacheAssumption
<1>2. CacheType
  BY FS_EmptySet, Zenon DEF Init, CacheType, CacheAssumption
<1>3. HeldInv /\ OneBufferPerBlock /\ EnoughBuffers
  BY DEF Init, HeldInv, LockInv, Held, Using, OneBufferPerBlock, EnoughBuffers
<1>4. CountInv
  <2>1. \A b \in Bufs : Users(b) = {}
    BY DEF Init, Users, Bufs, NoBuf
  <2> QED
    BY <2>1, FS_EmptySet, SMTT(20) DEF Init, CountInv
<1>5. ContentsInv
  BY DEF Init, ContentsInv
<1> QED
  BY <1>1, <1>2, <1>3, <1>4, <1>5 DEF CacheInv

\* The invariant of the buffer cache.
THEOREM CacheCorrect == ASSUME CacheAssumption PROVE Spec => []CacheInv
<1>1. Init => CacheInv
  BY CacheInit
<1>2. CacheInv /\ Next => CacheInv'
  BY TypeStep, HeldStep, OneBufferStep, CountStep, ContentsStep, ListStep, EnoughStep DEF CacheInv
<1>3. CacheInv /\ UNCHANGED vars => CacheInv'
  BY DEF CacheInv, ListInv, CacheType, HeldInv, LockInv, Held, Using, OneBufferPerBlock, CountInv,
    Users, ContentsInv, EnoughBuffers, vars, bufvars
<1> QED
  BY <1>1, <1>2, <1>3, PTL DEF Spec

\* Every variable has its type, and the list of buffers never loses one.
THEOREM CacheTypes == ASSUME CacheAssumption PROVE Spec => []TypeOK
<1>1. CacheInv => TypeOK
  <2> SUFFICES ASSUME CacheInv PROVE TypeOK
    OBVIOUS
  <2>1. lru \in [1 .. NBUF -> Bufs] /\ NBUF \in Nat
    BY DEF CacheInv, ListInv, Bufs, CacheAssumption
  <2>2. Len(lru) = NBUF
    BY <2>1
  <2>3. {lru[i] : i \in DOMAIN lru} = Bufs
    BY <2>1 DEF CacheInv, ListInv, Bufs
  <2> QED
    BY <2>2, <2>3 DEF CacheInv, CacheType, TypeOK
<1> QED
  BY <1>1, CacheCorrect, PTL

\* bio.c:5-6: a block is never in two buffers.
THEOREM BlocksNotDoubled == ASSUME CacheAssumption PROVE Spec => []OneBufferPerBlock
<1>1. CacheInv => OneBufferPerBlock
  BY DEF CacheInv
<1> QED
  BY <1>1, CacheCorrect, PTL

\* bio.c:13: a buffer has one user at a time, and it is the block the user asked for,
\* although bget() drops bcache.lock before it waits for the buffer.
THEOREM OneUserAtATime == ASSUME CacheAssumption PROVE Spec => []UsesItsOwnBlock
<1>1. CacheInv => UsesItsOwnBlock
  <2> SUFFICES ASSUME CacheInv, ~panicked PROVE UsesItsOwnBlock
    BY DEF UsesItsOwnBlock
  <2>1. \A p \in Procs : pc[p] # "idle" => HasBuffer(p)
    BY BufferHeld
  <2> QED
    BY <2>1 DEF CacheInv, HeldInv, Held, HasBuffer, UsesItsOwnBlock, Using, Waiting
<1> QED
  BY <1>1, CacheCorrect, PTL

\* refcnt counts the users and the pin, so that bget() recycles exactly the
\* buffers nobody needs.
THEOREM CountsExact == ASSUME CacheAssumption PROVE Spec => []RefcntExact
<1>1. CacheInv => RefcntExact
  BY DEF CacheInv, CountInv, Users, RefcntExact
<1> QED
  BY <1>1, CacheCorrect, PTL

\* bread() returns what the last user left, also when the buffer was recycled.
THEOREM NewestRead == ASSUME CacheAssumption PROVE Spec => []ReadsLatest
<1>1. CacheInv => ReadsLatest
  BY DEF CacheInv, CacheType, HeldInv, Held, ContentsInv, ReadsLatest, CacheAssumption
<1> QED
  BY <1>1, CacheCorrect, PTL

\* "bget: no buffers" only when all of them are in use or pinned.
THEOREM PanicsOnlyWhenFull == ASSUME CacheAssumption PROVE Spec => []EnoughBuffers
<1>1. CacheInv => EnoughBuffers
  BY DEF CacheInv
<1> QED
  BY <1>1, CacheCorrect, PTL
================================================================================
