---------------------------------- MODULE Log ----------------------------------
(***************************************************************************)
(* The redo log of kernel/fs/log.c over the buffer cache of                *)
(* kernel/fs/bio.c: group commit by the last end_op(), absorption, pinning *)
(* of logged buffers, the four phases of commit(), power failures between  *)
(* any two disk writes, and recovery at boot.                              *)
(*                                                                         *)
(* Block numbers are relative to log.start: 0 is the header block, 1 ..    *)
(* nlog-1 are log blocks and nlog is the first block after the log (the    *)
(* first inode block in the layout mkfs makes).  A block's contents are    *)
(* the number of the operation that wrote it last.                         *)
(***************************************************************************)
EXTENDS Integers, Sequences, FiniteSets

CONSTANTS
  Procs,        \* processes making file-system calls
  NHome,        \* number of home blocks modelled
  MAXOPBLOCKS,  \* blocks begin_op() reserves for one call
  LOGSIZE,      \* capacity of the in-memory log header
  nlog,         \* sb.nlog: blocks of the on-disk log, header included
  OpBlocks,     \* distinct blocks one call really writes
  RefMod,       \* refcnt is unsigned and wraps (2^32 in the code)
  Pressure,     \* other traffic makes bget() recycle unused buffers before this many power failures
  MaxOps,       \* bound: file-system calls started
  MaxCrashes    \* bound: power failures

ASSUME LogAssumption ==
  /\ IsFiniteSet(Procs)
  /\ NHome \in Nat \ {0}
  /\ MAXOPBLOCKS \in Nat \ {0}
  /\ LOGSIZE \in Nat \ {0}
  /\ nlog \in Nat \ {0, 1}
  /\ LOGSIZE < nlog + NHome     \* the disk is larger than a full header
  /\ OpBlocks \in 0..MAXOPBLOCKS
  /\ RefMod \in Nat \ {0, 1}
  /\ Pressure \in Nat
  /\ MaxOps \in Nat
  /\ MaxCrashes \in Nat

Home == nlog .. (nlog + NHome - 1)
OpIds == 0 .. MaxOps     \* a block's contents: the call that wrote it last
NoBuf == -1     \* the block is not in the buffer cache

VARIABLES
  disk,         \* log and home blocks on disk
  head,         \* on-disk header: the block numbers of a committed transaction
  cache,        \* buffer of each home block, or NoBuf
  refcnt,       \* its reference count: holders plus pins
  lh,           \* in-memory header: block numbers logged since the last commit
  outstanding, committing,
  tail,         \* loop variable of write_log() and install_trans()
  boot,         \* phase of initlog(), "up" once the system runs
  pc, cur, wset, opid,  \* per process: control point, buffer held, blocks logged, call number
  nops, crashes,
  panicked      \* "none" or the message of the panic that stopped the kernel

logvars  == <<lh, outstanding, committing>>
procvars == <<pc, cur, wset, opid>>
vars == <<disk, head, cache, refcnt, logvars, tail, boot, procvars, nops, crashes, panicked>>

Entries == {lh[i] : i \in 1..Len(lh)}
Running == boot = "up" /\ panicked = "none"
Goto(p, l) == pc' = [pc EXCEPT ![p] = l]

\* Contents a bread() of block a returns: cached, or fetched from disk.  Log
\* blocks are only ever written through, so their buffers agree with the disk.
Contents(a) == IF a \in Home /\ cache[a] # NoBuf THEN cache[a] ELSE disk[a]

RefUp(b, k) == refcnt' = [refcnt EXCEPT ![b] = (@ + k) % RefMod]

\* wakeup(&log): every process sleeping in begin_op() re-tests its condition.
WakeLog(f) == [p \in Procs |-> IF f[p] = "sleep" THEN "begin" ELSE f[p]]

Init ==
  /\ disk = [a \in 1 .. (nlog + NHome - 1) |-> 0]
  /\ head = <<>>
  /\ cache = [b \in Home |-> NoBuf]
  /\ refcnt = [b \in Home |-> 0]
  /\ lh = <<>> /\ outstanding = 0 /\ committing = FALSE
  /\ tail = 0 /\ boot = "up"
  /\ pc = [p \in Procs |-> "idle"]
  /\ cur = [p \in Procs |-> NoBuf]
  /\ wset = [p \in Procs |-> {}]
  /\ opid = [p \in Procs |-> 0]
  /\ nops = 0 /\ crashes = 0 /\ panicked = "none"

--------------------------------------------------------------------------------
(* begin_op() *)

StartOp(p) ==
  /\ Running /\ pc[p] = "idle" /\ nops < MaxOps
  /\ nops' = nops + 1
  /\ opid' = [opid EXCEPT ![p] = nops + 1]
  /\ wset' = [wset EXCEPT ![p] = {}]
  /\ Goto(p, "begin")
  /\ UNCHANGED <<disk, head, cache, refcnt, logvars, tail, boot, cur, crashes, panicked>>

\* Faulty variant: begin_op() forgets to reserve room for the call it admits.
MustWaitOthersOnly == committing \/ Len(lh) + outstanding * MAXOPBLOCKS > LOGSIZE

MustWait ==
  committing \/ Len(lh) + (outstanding + 1) * MAXOPBLOCKS > LOGSIZE

BeginOp(p) ==
  /\ Running /\ pc[p] = "begin"
  /\ IF MustWait
     THEN Goto(p, "sleep") /\ UNCHANGED outstanding
     ELSE Goto(p, "op") /\ outstanding' = outstanding + 1
  /\ UNCHANGED <<disk, head, cache, refcnt, lh, committing, tail, boot, cur, wset, opid,
                 nops, crashes, panicked>>

--------------------------------------------------------------------------------
(* bread(); modify; log_write(); brelse() inside a call *)

\* bread() and the change to b->data, under the buffer's sleep-lock.
Modify(p, b) ==
  /\ Running /\ pc[p] = "op"
  /\ \A q \in Procs : cur[q] # b
  /\ Cardinality(wset[p] \cup {b}) <= OpBlocks
  /\ cache' = [cache EXCEPT ![b] = opid[p]]
  /\ RefUp(b, 1)
  /\ cur' = [cur EXCEPT ![p] = b]
  /\ Goto(p, "check")
  /\ UNCHANGED <<disk, head, logvars, tail, boot, wset, opid, nops, crashes, panicked>>

\* The two tests log_write() makes before it takes log.lock.
LogWriteCheck(p) ==
  /\ Running /\ pc[p] = "check"
  /\ panicked' = IF Len(lh) >= LOGSIZE \/ Len(lh) >= nlog - 1
                 THEN "too_big_a_transaction"
                 ELSE IF outstanding < 1 THEN "log_write_outside_of_trans" ELSE "none"
  /\ Goto(p, "append")
  /\ UNCHANGED <<disk, head, cache, refcnt, logvars, tail, boot, cur, wset, opid,
                 nops, crashes>>

\* Faulty variants: log_write() without absorption, and without the pin.
LogWriteNoAbsorb(p) ==
  /\ Running /\ pc[p] = "append"
  /\ lh' = Append(lh, cur[p])
  /\ wset' = [wset EXCEPT ![p] = @ \cup {cur[p]}]
  /\ cur' = [cur EXCEPT ![p] = NoBuf]
  /\ Goto(p, "op")
  /\ UNCHANGED <<disk, head, cache, refcnt, outstanding, committing, tail, boot, opid,
                 nops, crashes, panicked>>

LogWriteNoPin(p) ==
  /\ Running /\ pc[p] = "append"
  /\ lh' = IF cur[p] \in Entries THEN lh ELSE Append(lh, cur[p])
  /\ RefUp(cur[p], -1)
  /\ wset' = [wset EXCEPT ![p] = @ \cup {cur[p]}]
  /\ cur' = [cur EXCEPT ![p] = NoBuf]
  /\ Goto(p, "op")
  /\ UNCHANGED <<disk, head, cache, outstanding, committing, tail, boot, opid,
                 nops, crashes, panicked>>

\* The locked part of log_write(), then the caller's brelse().
LogWriteAppend(p) ==
  /\ Running /\ pc[p] = "append"
  /\ LET b == cur[p] IN
     /\ IF b \in Entries
        THEN UNCHANGED lh /\ RefUp(b, -1)
        ELSE lh' = Append(lh, b) /\ UNCHANGED refcnt    \* bpin() then brelse()
     /\ wset' = [wset EXCEPT ![p] = @ \cup {b}]
  /\ cur' = [cur EXCEPT ![p] = NoBuf]
  /\ Goto(p, "op")
  /\ UNCHANGED <<disk, head, cache, outstanding, committing, tail, boot, opid,
                 nops, crashes, panicked>>

\* bget() on behalf of other traffic recycles a buffer nobody references.
Recycle(b) ==
  /\ Running /\ crashes < Pressure
  /\ cache[b] # NoBuf /\ refcnt[b] = 0
  /\ \A p \in Procs : cur[p] # b
  /\ cache' = [cache EXCEPT ![b] = NoBuf]
  /\ UNCHANGED <<disk, head, refcnt, logvars, tail, boot, procvars, nops, crashes, panicked>>

--------------------------------------------------------------------------------
(* end_op() and commit() *)

EndOp(p) ==
  /\ Running /\ pc[p] = "op"
  /\ outstanding' = outstanding - 1
  /\ panicked' = IF committing THEN "log_committing" ELSE "none"
  /\ IF outstanding = 1
     THEN committing' = TRUE /\ Goto(p, "commit")
     ELSE /\ UNCHANGED committing
          /\ pc' = WakeLog([pc EXCEPT ![p] = "idle"])
  /\ UNCHANGED <<disk, head, cache, refcnt, lh, tail, boot, cur, wset, opid, nops, crashes>>

\* commit() does nothing for an empty transaction.
CommitStart(p) ==
  /\ Running /\ pc[p] = "commit"
  /\ tail' = 0
  /\ Goto(p, IF lh = <<>> THEN "done" ELSE "write_log")
  /\ UNCHANGED <<disk, head, cache, refcnt, logvars, boot, cur, wset, opid,
                 nops, crashes, panicked>>

\* One iteration of write_log(): the cached block goes to log block tail+1.
WriteLog(p) ==
  /\ Running /\ pc[p] = "write_log"
  /\ LET from == lh[tail + 1]
         to   == tail + 1
         v    == Contents(from)
     IN /\ disk' = [disk EXCEPT ![to] = v]
        /\ cache' = [b \in Home |-> IF b \in {from, to} THEN v ELSE cache[b]]
  /\ tail' = tail + 1
  /\ Goto(p, IF tail + 1 = Len(lh) THEN "write_head" ELSE "write_log")
  /\ UNCHANGED <<head, refcnt, logvars, boot, cur, wset, opid, nops, crashes, panicked>>

\* Faulty variant: the log is erased before the blocks are installed.
WriteHeadEraseFirst(p) ==
  /\ Running /\ pc[p] = "write_head"
  /\ head' = lh
  /\ tail' = 0
  /\ Goto(p, "clear")
  /\ UNCHANGED <<disk, cache, refcnt, logvars, boot, cur, wset, opid, nops, crashes, panicked>>

\* write_head() with n > 0, "the true point at which the transaction commits".
WriteHead(p) ==
  /\ Running /\ pc[p] = "write_head"
  /\ head' = lh
  /\ tail' = 0
  /\ Goto(p, "install")
  /\ UNCHANGED <<disk, cache, refcnt, logvars, boot, cur, wset, opid, nops, crashes, panicked>>

\* One iteration of install_trans(): log block to home block, through the
\* cache; bunpin() undoes the pin of log_write().
InstallOne(blocks) ==
  LET b == blocks[tail + 1]
      v == Contents(tail + 1)
  IN /\ disk' = [disk EXCEPT ![b] = v]
     /\ cache' = [cache EXCEPT ![b] = v]
     /\ RefUp(b, -1)
     /\ tail' = tail + 1

InstallTrans(p) ==
  /\ Running /\ pc[p] = "install"
  /\ InstallOne(lh)
  /\ Goto(p, IF tail + 1 = Len(lh) THEN "clear" ELSE "install")
  /\ UNCHANGED <<head, logvars, boot, cur, wset, opid, nops, crashes, panicked>>

\* log.lh.n = 0; write_head(): erase the transaction from the log.
ClearHead(p) ==
  /\ Running /\ pc[p] = "clear"
  /\ lh' = <<>>
  /\ head' = <<>>
  /\ Goto(p, "done")
  /\ UNCHANGED <<disk, cache, refcnt, outstanding, committing, tail, boot, cur, wset, opid,
                 nops, crashes, panicked>>

\* Faulty variant: the end of a commit wakes nobody.
CommitDoneNoWakeup(p) ==
  /\ Running /\ pc[p] = "done"
  /\ committing' = FALSE
  /\ Goto(p, "idle")
  /\ UNCHANGED <<disk, head, cache, refcnt, lh, outstanding, tail, boot, cur, wset, opid,
                 nops, crashes, panicked>>

CommitDone(p) ==
  /\ Running /\ pc[p] = "done"
  /\ committing' = FALSE
  /\ pc' = WakeLog([pc EXCEPT ![p] = "idle"])
  /\ UNCHANGED <<disk, head, cache, refcnt, lh, outstanding, tail, boot, cur, wset, opid,
                 nops, crashes, panicked>>

--------------------------------------------------------------------------------
(* Power failure (or a reset after a panic), and initlog() on the next boot *)

Crash ==
  /\ crashes < MaxCrashes
  /\ crashes' = crashes + 1
  /\ cache' = [b \in Home |-> NoBuf]
  /\ refcnt' = [b \in Home |-> 0]
  /\ lh' = <<>> /\ outstanding' = 0 /\ committing' = FALSE
  /\ tail' = 0 /\ boot' = "read_head"
  /\ pc' = [p \in Procs |-> "idle"]
  /\ cur' = [p \in Procs |-> NoBuf]
  /\ wset' = [p \in Procs |-> {}]
  /\ opid' = [p \in Procs |-> 0]
  /\ panicked' = "none"
  /\ UNCHANGED <<disk, head, nops>>

ReadHead ==
  /\ boot = "read_head"
  /\ lh' = head
  /\ boot' = IF head = <<>> THEN "clear" ELSE "install"
  /\ UNCHANGED <<disk, head, cache, refcnt, outstanding, committing, tail, procvars,
                 nops, crashes, panicked>>

RecoverInstall ==
  /\ boot = "install"
  /\ InstallOne(lh)
  /\ boot' = IF tail + 1 = Len(lh) THEN "clear" ELSE "install"
  /\ UNCHANGED <<head, logvars, procvars, nops, crashes, panicked>>

RecoverClear ==
  /\ boot = "clear"
  /\ lh' = <<>>
  /\ head' = <<>>
  /\ boot' = "up"
  /\ UNCHANGED <<disk, cache, refcnt, outstanding, committing, tail, procvars,
                 nops, crashes, panicked>>

Recover == ReadHead \/ RecoverInstall \/ RecoverClear

Commit(p) == CommitStart(p) \/ WriteLog(p) \/ WriteHead(p) \/ InstallTrans(p)
             \/ ClearHead(p) \/ CommitDone(p)

LogWrite(p) == LogWriteCheck(p) \/ LogWriteAppend(p)

Next ==
  \/ \E p \in Procs : StartOp(p) \/ BeginOp(p) \/ LogWrite(p) \/ EndOp(p) \/ Commit(p)
  \/ \E p \in Procs, b \in Home : Modify(p, b)
  \/ \E b \in Home : Recycle(b)
  \/ Crash
  \/ Recover

Spec == Init /\ [][Next]_vars

\* A started call keeps executing: the scheduler's round-robin scan reaches every
\* runnable kernel thread, and every call makes finitely many log_write()s, so
\* one that keeps coming back to where it may end does end.
Fairness ==
  \A p \in Procs : /\ WF_vars(BeginOp(p)) /\ WF_vars(LogWrite(p))
                   /\ SF_vars(EndOp(p)) /\ WF_vars(Commit(p))
FairSpec == Spec /\ Fairness

--------------------------------------------------------------------------------
(* Properties *)

InOp(p) == pc[p] \in {"op", "check", "append"}
Ops == {p \in Procs : InOp(p)}
CommitPoints == {"commit", "write_log", "write_head", "install", "clear", "done"}
InCommit(p) == pc[p] \in CommitPoints

DiskTypeOK ==
  /\ disk \in [1 .. (nlog + NHome - 1) -> OpIds]
  /\ cache \in [Home -> OpIds \cup {NoBuf}]
  /\ refcnt \in [Home -> 0 .. (RefMod - 1)]

LogTypeOK ==
  /\ head \in Seq(Home) /\ lh \in Seq(Home)
  /\ outstanding \in Nat /\ committing \in BOOLEAN
  /\ tail \in Nat
  /\ boot \in {"up", "read_head", "install", "clear"}
  /\ panicked \in {"none", "too_big_a_transaction", "log_write_outside_of_trans",
                   "log_committing"}

ProcTypeOK ==
  /\ pc \in [Procs -> {"idle", "begin", "sleep", "op", "check", "append"} \cup CommitPoints]
  /\ cur \in [Procs -> Home \cup {NoBuf}]
  /\ wset \in [Procs -> SUBSET Home]
  /\ opid \in [Procs -> OpIds]
  /\ nops \in Nat /\ crashes \in Nat

TypeOK == DiskTypeOK /\ LogTypeOK /\ ProcTypeOK

\* log.c:12-16, "The logging system only commits when there are no FS system
\* calls active": while one process is in commit(), which runs without
\* log.lock, no other is between begin_op() and end_op() or in commit() too, and
\* the panic in end_op() that guards this never fires.
CommitExclusive ==
  /\ \A p \in Procs : InCommit(p) =>
        /\ committing /\ outstanding = 0
        /\ \A q \in Procs : ~InOp(q) /\ (InCommit(q) => q = p)
  /\ panicked \notin {"log_committing", "log_write_outside_of_trans"}

\* The blocks that calls in progress may still log.
Reserved ==
  {r \in Procs \X (1 .. MAXOPBLOCKS) : InOp(r[1]) /\ r[2] > Cardinality(wset[r[1]])}

\* begin_op()'s reservation: the entries of the header plus what the running
\* calls may still add never exceed LOGSIZE, so block[LOGSIZE] is never
\* overrun although log_write() tests lh.n before it takes log.lock.
ReservationHolds ==
  boot = "up" => Len(lh) + Cardinality(Reserved) <= LOGSIZE

\* Absorption: a block is at most once in the header, in memory and on disk,
\* so installing in header order leaves the newest contents at home.
NoDuplicateEntries ==
  \A s \in {lh, head} : \A i, j \in 1 .. Len(s) : s[i] = s[j] => i = j

\* log.c:205-207: log_write() pins the buffer "in the cache", and
\* "commit()/write_log() will do the disk write": until the transaction is in the
\* log, a logged block is never dropped from the cache.
LoggedStaysCached ==
  (boot = "up" /\ \A p \in Procs : pc[p] \notin {"install", "clear"})
    => \A b \in Entries : cache[b] # NoBuf

\* ... at least until the first recovery, whose install_trans() unpins blocks that nobody pinned.
LoggedStaysCachedAtFirst == crashes = 0 => LoggedStaysCached

\* param.h:10-11: a call that writes at most MAXOPBLOCKS blocks ("max # of blocks
\* any FS op writes") is admitted by begin_op() only when it fits, so
\* log_write() never panics with "too_big_a_transaction".
NoTooBigTransaction == panicked # "too_big_a_transaction"

\* A call waiting in begin_op() for a commit or for log space gets its turn, if the power stays on.
InBeginOp(p) == pc[p] = "begin"
Admitted(p) == pc[p] = "op" \/ panicked # "none" \/ boot # "up"
BeginOpProgress == \A p \in Procs : InBeginOp(p) ~> Admitted(p)

\* What a crash would leave after recovery: the committed transaction of the
\* on-disk header laid over the home blocks.
StableView ==
  [b \in Home |-> IF \E i \in 1 .. Len(head) : head[i] = b
                  THEN disk[CHOOSE i \in 1 .. Len(head) : head[i] = b]
                  ELSE disk[b]]

\* What the running system reads; nothing is read before recovery is over.
StoreView == IF boot = "up" THEN [b \in Home |-> Contents(b)] ELSE StableView

Abstract == INSTANCE AtomicStore WITH
              Blocks <- Home, Vals <- OpIds, store <- StoreView, stable <- StableView,
              active <- Ops

\* Crash atomicity: the log implements a store whose stable copy changes only
\* by whole groups of finished calls, whatever disk writes a crash cuts off.
CrashAtomic == Abstract!Spec
================================================================================
