-------------------------------- MODULE MCProgress --------------------------------
(***************************************************************************)
(* The buffer cache and the disk driver, and what must happen some time in *)
(* them and in the log.  A state belongs to the layer chosen at the start, *)
(* the variables of the others stay as they are.                           *)
(***************************************************************************)
EXTENDS BufCache
CONSTANTS p3
VARIABLES part,
  disk, lhead, cache, lrefcnt, lh, outstanding, committing, tail, boot, lpc, lcur, wset, opid, nops, crashes, lpanicked,
  free, desc, info, avail, availidx, used, usedid, used_idx, seen, inflight, irq, intr, dmedia, ddata, owned,
  dpc, rq, dhead, reqs, dpanicked

L == INSTANCE Log WITH NHome <- 2, MAXOPBLOCKS <- 2, LOGSIZE <- 4, nlog <- 4, OpBlocks <- 1, RefMod <- 8, Pressure <- 0,
  MaxOps <- 3, MaxCrashes <- 0, head <- lhead, refcnt <- lrefcnt, pc <- lpc, cur <- lcur, panicked <- lpanicked
\* Descriptors for two requests, three callers; the rings are about to wrap.
Callers == Procs \cup {p3}
D == INSTANCE VirtioDisk WITH Procs <- Callers, Blocks <- {1}, Vals <- {0, 1}, NUM <- 7, IdxMod <- 7,
  Past <- {5}, MaxReqs <- 3, media <- dmedia, data <- ddata, pc <- dpc, head <- dhead, panicked <- dpanicked

lvars == <<disk, lhead, cache, lrefcnt, lh, outstanding, committing, tail, boot, lpc, lcur, wset, opid, nops, crashes, lpanicked>>
dvars == <<free, desc, info, avail, availidx, used, usedid, used_idx, seen, inflight, irq, intr, dmedia, ddata, owned,
           dpc, rq, dhead, reqs, dpanicked>>
allvars == <<part, vars, lvars, dvars>>
\* The block on disk differs from what is in the callers' buffers.
MCInit == part \in {"log", "cache", "disk"} /\ L!Init /\ Init /\ D!Init /\ dmedia[1] = 1
InLog(A) == part = "log" /\ A /\ UNCHANGED <<part, vars, dvars>>
InCache(A) == part = "cache" /\ A /\ UNCHANGED <<part, lvars, dvars>>
InDisk(A) == part = "disk" /\ A /\ UNCHANGED <<part, vars, lvars>>
LogNext == part = "log" /\ L!Next /\ UNCHANGED <<part, vars, dvars>>
CacheNext == part = "cache" /\ Next /\ UNCHANGED <<part, lvars, dvars>>
DiskNext == part = "disk" /\ D!Next /\ UNCHANGED <<part, vars, lvars>>
MCNext == LogNext \/ CacheNext \/ DiskNext

\* The fairness of the three modules.  A behaviour is one of one part, so
\* conditions on steps of different parts are stated together.
MCFairness ==
  /\ \A p \in Procs :
       /\ WF_allvars(InLog(L!BeginOp(p)) \/ InCache(AcquireSleep(p)) \/ InDisk(D!Rw(p)))
       /\ WF_allvars(InLog(L!LogWrite(p)) \/ InCache(Bread(p)))
       /\ SF_allvars(InLog(L!EndOp(p)) \/ InCache(ReleaseSleep(p)))
       /\ WF_allvars(InLog(L!Commit(p)) \/ InCache(Bwrite(p) \/ Bpin(p)))
       /\ WF_allvars(InCache(Drop(p)))
  /\ WF_allvars(InDisk(D!Rw(p3))) /\ WF_allvars(InDisk(D!Intr)) /\ WF_allvars(InDisk(D!DevFetch))
  /\ \A h \in D!Desc : WF_allvars(InDisk(D!DevServe(h)))
MCFairSpec == MCInit /\ [][MCNext]_allvars /\ MCFairness

RingsConsistent == part = "disk" => D!RingsConsistent
DriverImplements == D!DriverImplements

\* Whoever waits in begin_op(), for a buffer in bget() or in virtio_disk_rw() is served: the
\* properties BeginOpProgress, WaiterServed and RequestReturns of the three layers in one.
Waits(p) ==
  \/ part = "log" /\ p \in Procs /\ L!InBeginOp(p)
  \/ part = "cache" /\ p \in Procs /\ InBget(p)
  \/ part = "disk" /\ D!InRw(p)
Served(p) ==
  \/ part = "log" /\ p \in Procs /\ L!Admitted(p)
  \/ part = "cache" /\ p \in Procs /\ Released(p)
  \/ part = "disk" /\ D!Returned(p)
EveryWaitEnds == \A p \in Callers : Waits(p) ~> Served(p)
================================================================================
