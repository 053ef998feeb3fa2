-------------------------------- MODULE BufCache --------------------------------
(***************************************************************************)
(* The buffer cache of kernel/fs/bio.c with the sleep-locks of             *)
(* kernel/lock/sleeplock.c: lookup and recycling under bcache.lock, the    *)
(* wait for the buffer's own lock after bcache.lock is dropped, reading    *)
(* from the disk, and the two halves of brelse().  Users follow            *)
(* the protocol of log.c: a changed buffer is written with bwrite() or     *)
(* pinned before it is released, and whoever writes a pinned one unpins it.*)
(***************************************************************************)
EXTENDS Integers, Sequences, FiniteSets

CONSTANTS
  Procs,
  Blocks,
  NBUF,
  Vals,
  MaxPins,    \* bound: blocks pinned at a time (LOGSIZE in the code)
  MaxGets     \* bound: calls of bget()

Bufs == 1 .. NBUF
NoBlock == "no_block"
NoProc == "nobody"
NoBuf == 0

VARIABLES
  blockno, valid, refcnt, data,   \* struct buf
  lru,            \* the list from head.next (most recently used) to head.prev
  locked,         \* holder of each buffer's sleep-lock
  media,          \* the disk
  latest,         \* history: the newest contents any user gave the block
  pinned,         \* blocks the log keeps pinned
  pc, want, cur,  \* per process: control point, block asked for, buffer got
  gets,
  panicked

bufvars == <<blockno, valid, refcnt, data, lru>>
vars == <<bufvars, locked, media, latest, pinned, pc, want, cur, gets, panicked>>

Init ==
  /\ blockno = [b \in Bufs |-> NoBlock]
  /\ valid = [b \in Bufs |-> FALSE]
  /\ refcnt = [b \in Bufs |-> 0]
  /\ data = [b \in Bufs |-> 0]
  /\ lru = [i \in Bufs |-> NBUF + 1 - i]
  /\ locked = [b \in Bufs |-> NoProc]
  /\ media = [k \in Blocks |-> 0] /\ latest = media
  /\ pinned = {}
  /\ pc = [p \in Procs |-> "idle"]
  /\ want = [p \in Procs |-> NoBlock]
  /\ cur = [p \in Procs |-> NoBuf]
  /\ gets = 0 /\ panicked = FALSE

Goto(p, l) == pc' = [pc EXCEPT ![p] = l]

--------------------------------------------------------------------------------
(* bget() *)

Cached(k) == {b \in Bufs : blockno[b] = k}

\* Faulty variant: any buffer that nobody has locked counts as unused.
UnusedIfUnlocked == {b \in Bufs : locked[b] = NoProc}

Unused == {b \in Bufs : refcnt[b] = 0}

\* The scan from head.prev: the least recently used of the unused buffers.
Victim == lru[CHOOSE i \in DOMAIN lru : lru[i] \in Unused /\
                \A j \in DOMAIN lru : j > i => lru[j] \notin Unused]

\* Faulty variants: a recycled buffer keeps its valid flag; the search for the
\* block and the recycling are not one critical section.
RecycleKeepsValid(p, k) ==
  /\ Cached(k) = {} /\ Unused # {}
  /\ blockno' = [blockno EXCEPT ![Victim] = k]
  /\ refcnt' = [refcnt EXCEPT ![Victim] = 1]
  /\ cur' = [cur EXCEPT ![p] = Victim]
  /\ UNCHANGED <<valid, panicked>>

RecycleWithoutLookup(p, k) ==
  /\ Unused # {}
  /\ blockno' = [blockno EXCEPT ![Victim] = k]
  /\ valid' = [valid EXCEPT ![Victim] = FALSE]
  /\ refcnt' = [refcnt EXCEPT ![Victim] = 1]
  /\ cur' = [cur EXCEPT ![p] = Victim]
  /\ UNCHANGED panicked

Recycle(p, k) ==
  /\ Cached(k) = {} /\ Unused # {}
  /\ blockno' = [blockno EXCEPT ![Victim] = k]
  /\ valid' = [valid EXCEPT ![Victim] = FALSE]
  /\ refcnt' = [refcnt EXCEPT ![Victim] = 1]
  /\ cur' = [cur EXCEPT ![p] = Victim]
  /\ UNCHANGED panicked

Hit(p, k) ==
  \E b \in Cached(k) :
    /\ refcnt' = [refcnt EXCEPT ![b] = @ + 1]
    /\ cur' = [cur EXCEPT ![p] = b]
    /\ UNCHANGED <<blockno, valid, panicked>>

\* "bget: no buffers"
NoBuffers(k) ==
  /\ Cached(k) = {} /\ Unused = {}
  /\ panicked' = TRUE
  /\ UNCHANGED <<blockno, valid, refcnt, cur>>

Bget(p, k) ==
  /\ ~panicked /\ pc[p] = "idle" /\ gets < MaxGets
  /\ gets' = gets + 1
  /\ want' = [want EXCEPT ![p] = k]
  /\ Hit(p, k) \/ Recycle(p, k) \/ NoBuffers(k)
  /\ Goto(p, "lock")
  /\ UNCHANGED <<data, lru, locked, media, latest, pinned>>

\* acquiresleep(&b->lock), entered after bcache.lock was released.
AcquireSleep(p) ==
  /\ ~panicked /\ pc[p] = "lock"
  /\ IF locked[cur[p]] = NoProc
     THEN locked' = [locked EXCEPT ![cur[p]] = p] /\ Goto(p, "locked")
     ELSE UNCHANGED locked /\ Goto(p, "sleep")
  /\ UNCHANGED <<bufvars, media, latest, pinned, want, cur, gets, panicked>>

--------------------------------------------------------------------------------
(* bread(), the user's changes, bwrite(), bpin(), bunpin() *)

\* virtio_disk_rw(b, 0) unless the buffer is valid.
Bread(p) ==
  /\ ~panicked /\ pc[p] = "locked"
  /\ data' = [data EXCEPT ![cur[p]] = IF valid[cur[p]] THEN @ ELSE media[blockno[cur[p]]]]
  /\ valid' = [valid EXCEPT ![cur[p]] = TRUE]
  /\ Goto(p, "use")
  /\ UNCHANGED <<blockno, refcnt, lru, locked, media, latest, pinned, want, cur, gets, panicked>>

Store(p, v) ==
  /\ ~panicked /\ pc[p] = "use" /\ v # data[cur[p]]
  /\ data' = [data EXCEPT ![cur[p]] = v]
  /\ latest' = [latest EXCEPT ![want[p]] = v]
  /\ Goto(p, "dirty")
  /\ UNCHANGED <<blockno, valid, refcnt, lru, locked, media, pinned, want, cur, gets, panicked>>

\* bwrite(), then bunpin() when it is the log that writes a pinned block home.
Bwrite(p) ==
  /\ ~panicked /\ pc[p] \in {"dirty", "use"}
  /\ pc[p] = "use" => want[p] \in pinned
  /\ media' = [media EXCEPT ![blockno[cur[p]]] = data[cur[p]]]
  /\ refcnt' = [refcnt EXCEPT ![cur[p]] = IF want[p] \in pinned THEN @ - 1 ELSE @]
  /\ pinned' = pinned \ {want[p]}
  /\ Goto(p, "use")
  /\ UNCHANGED <<blockno, valid, data, lru, locked, latest, want, cur, gets, panicked>>

\* log_write(): bpin() unless the transaction already holds the block.
Bpin(p) ==
  /\ ~panicked /\ pc[p] = "dirty"
  /\ want[p] \in pinned \/ Cardinality(pinned) < MaxPins
  /\ refcnt' = [refcnt EXCEPT ![cur[p]] = IF want[p] \in pinned THEN @ ELSE @ + 1]
  /\ pinned' = pinned \cup {want[p]}
  /\ Goto(p, "use")
  /\ UNCHANGED <<blockno, valid, data, lru, locked, media, latest, want, cur, gets, panicked>>

--------------------------------------------------------------------------------
(* brelse() *)

\* releasesleep(): every process sleeping on the lock will test it again.
ReleaseSleep(p) ==
  /\ ~panicked /\ pc[p] = "use"
  /\ locked' = [locked EXCEPT ![cur[p]] = NoProc]
  /\ pc' = [q \in Procs |-> IF q = p THEN "drop"
                            ELSE IF pc[q] = "sleep" /\ cur[q] = cur[p] THEN "lock"
                            ELSE pc[q]]
  /\ UNCHANGED <<bufvars, media, latest, pinned, want, cur, gets, panicked>>

\* b is unlinked and put back at the head of the list.
MoveToFront(b) ==
  LET i == CHOOSE j \in DOMAIN lru : lru[j] = b
  IN [j \in DOMAIN lru |-> IF j = 1 THEN b ELSE IF j <= i THEN lru[j - 1] ELSE lru[j]]

\* Faulty variant: the count is only dropped when no one else has locked the
\* buffer meanwhile.
DropKeepsRef(p) ==
  /\ ~panicked /\ pc[p] = "drop"
  /\ refcnt' = [refcnt EXCEPT ![cur[p]] = IF locked[cur[p]] = NoProc THEN @ - 1 ELSE @]
  /\ lru' = IF refcnt[cur[p]] = 1 THEN MoveToFront(cur[p]) ELSE lru
  /\ cur' = [cur EXCEPT ![p] = NoBuf]
  /\ want' = [want EXCEPT ![p] = NoBlock]
  /\ Goto(p, "idle")
  /\ UNCHANGED <<blockno, valid, data, locked, media, latest, pinned, gets, panicked>>

\* The second half, under bcache.lock: the last user moves it to the MRU end.
Drop(p) ==
  /\ ~panicked /\ pc[p] = "drop"
  /\ refcnt' = [refcnt EXCEPT ![cur[p]] = @ - 1]
  /\ lru' = IF refcnt[cur[p]] = 1 THEN MoveToFront(cur[p]) ELSE lru
  /\ cur' = [cur EXCEPT ![p] = NoBuf]
  /\ want' = [want EXCEPT ![p] = NoBlock]
  /\ Goto(p, "idle")
  /\ UNCHANGED <<blockno, valid, data, locked, media, latest, pinned, gets, panicked>>

Step(p) == AcquireSleep(p) \/ Bread(p) \/ Bwrite(p) \/ Bpin(p) \/ ReleaseSleep(p) \/ Drop(p)

Next == \E p \in Procs : \/ \E k \in Blocks : Bget(p, k)
                         \/ \E v \in Vals : Store(p, v)
                         \/ Step(p)

Spec == Init /\ [][Next]_vars

\* A process in the middle of using a buffer is scheduled again, and no user
\* keeps a buffer for ever.
Fairness == \A p \in Procs :
  /\ WF_vars(AcquireSleep(p)) /\ WF_vars(Bread(p)) /\ WF_vars(Bwrite(p) \/ Bpin(p))
  /\ SF_vars(ReleaseSleep(p)) /\ WF_vars(Drop(p))
FairSpec == Spec /\ Fairness

--------------------------------------------------------------------------------
(* Properties *)

Using(p) == pc[p] \in {"locked", "use", "dirty"}
Waiting(p) == pc[p] \in {"lock", "sleep"}

TypeOK ==
  /\ blockno \in [Bufs -> Blocks \cup {NoBlock}]
  /\ valid \in [Bufs -> BOOLEAN]
  /\ refcnt \in [Bufs -> Nat]
  /\ data \in [Bufs -> Vals]
  /\ Len(lru) = NBUF /\ {lru[i] : i \in DOMAIN lru} = Bufs
  /\ locked \in [Bufs -> Procs \cup {NoProc}]
  /\ media \in [Blocks -> Vals] /\ latest \in [Blocks -> Vals]
  /\ pinned \subseteq Blocks
  /\ pc \in [Procs -> {"idle", "lock", "sleep", "locked", "use", "dirty", "drop"}]
  /\ want \in [Procs -> Blocks \cup {NoBlock}]
  /\ cur \in [Procs -> Bufs \cup {NoBuf}]

\* bio.c:5-6, the cache is "a synchronization point for disk blocks used by
\* multiple processes": a block is never in two buffers.
OneBufferPerBlock ==
  \A b, c \in Bufs : blockno[b] = blockno[c] /\ blockno[b] # NoBlock => b = c

\* bio.c:13, "Only one process at a time can use a buffer": and the buffer a
\* process uses, or waits for after bget() dropped bcache.lock, is still the
\* block it asked for.
UsesItsOwnBlock ==
  ~panicked => \A p \in Procs :
    /\ Waiting(p) \/ Using(p) => blockno[cur[p]] = want[p]
    /\ Using(p) => locked[cur[p]] = p
    /\ \A q \in Procs : Using(p) /\ Using(q) /\ cur[p] = cur[q] => p = q

\* refcnt is exactly the number of processes between bget() and the end of
\* brelse(), plus one for a block pinned by the log.
RefcntExact ==
  ~panicked => \A b \in Bufs :
    refcnt[b] = Cardinality({p \in Procs : cur[p] = b})
                + (IF blockno[b] \in pinned THEN 1 ELSE 0)

\* A user reads what the last user of the block left there, whether or not
\* the buffer was recycled in between.
ReadsLatest == \A p \in Procs : pc[p] = "use" => data[cur[p]] = latest[want[p]]

\* bget() panics only when every buffer is in use by another process or pinned:
\* a buffer for every process and every pinned block is enough.
EnoughBuffers ==
  panicked => NBUF <= Cardinality({p \in Procs : cur[p] # NoBuf}) + Cardinality(pinned)

\* A process waiting for a buffer gets it and finishes.
InBget(p) == pc[p] = "lock"
Released(p) == pc[p] = "idle" \/ panicked
WaiterServed == \A p \in Procs : InBget(p) ~> Released(p)
================================================================================
