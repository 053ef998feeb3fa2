------------------------------- MODULE VirtioDisk -------------------------------
(***************************************************************************)
(* The virtio block driver of kernel/dev/virtio_disk.c: descriptors are    *)
(* handed out in chains of three, requests go to the device through the    *)
(* avail ring, completions come back through the used ring and an          *)
(* interrupt, and callers sleep for descriptors and for their buffer.      *)
(*                                                                         *)
(* vdisk_lock makes everything a caller does between two sleeps one step.  *)
(* The handler holds the lock over its whole loop, while the device goes   *)
(* on filling the used ring.                                               *)
(***************************************************************************)
EXTENDS Integers, Sequences, FiniteSets, FiniteSetsExt

CONSTANTS
  Procs,      \* callers; each one owns (has locked) one buffer
  Blocks, Vals,
  NUM,        \* descriptors, and length of both rings
  IdxMod,     \* avail[1] and used->id are uint16_t and wrap (2^16 in the code)
  Past,       \* requests made one after the other before the start
  MaxReqs     \* bound: requests made after it

Desc == 0 .. (NUM - 1)
End == NUM            \* a descriptor without VRING_DESC_F_NEXT
Nil == [kind |-> "nil"]
NoProc == "no_buf"
NoReq == [write |-> FALSE, blk |-> 0]

VARIABLES
  free,           \* disk.free[]
  desc,           \* disk.desc[]: what addr points to, and next
  info,           \* disk.info[].b
  avail, availidx,    \* disk.avail[2..] and disk.avail[1]
  used, usedid,       \* disk.used->elems and disk.used->id
  used_idx,       \* how far the handler has looked
  seen, inflight, \* device: avail entries fetched, chains being served
  irq, intr,      \* interrupt pending; handler running (and holding the lock)
  media, data,
  owned,          \* b->disk of each caller's buffer
  pc, rq,         \* control point and request of each caller
  head,           \* idx[0] of its request
  reqs,           \* requests made so far
  panicked

drv  == <<free, desc, info, avail, availidx, used_idx, owned>>
dev  == <<used, usedid, seen, inflight>>
vars == <<drv, dev, irq, intr, media, data, pc, rq, head, reqs, panicked>>

\* After virtio_disk_init(), or later with the driver idle: each of the past requests had chain 0, 1, 2.
Init == \E k \in Past :
  /\ free = Desc
  /\ desc = [i \in Desc |-> [addr |-> Nil, next |-> IF k > 0 /\ i < 2 THEN i + 1 ELSE End]]
  /\ info = [i \in Desc |-> NoProc]
  /\ avail = [i \in Desc |-> 0] /\ availidx = k % IdxMod
  /\ used = [i \in Desc |-> 0] /\ usedid = k % IdxMod /\ used_idx = k % NUM
  /\ seen = k % IdxMod /\ inflight = {}
  /\ irq = FALSE /\ intr = FALSE
  /\ media \in [Blocks -> Vals] /\ data = [p \in Procs |-> 0]
  /\ owned = [p \in Procs |-> FALSE]
  /\ pc = [p \in Procs |-> "idle"]
  /\ rq = [p \in Procs |-> NoReq]
  /\ head = [p \in Procs |-> End]
  /\ reqs = 0 /\ panicked = FALSE

Locked == intr
Goto(p, l) == pc' = [pc EXCEPT ![p] = l]

\* wakeup(&disk.free[0])
WakeDesc(f) == [p \in Procs |-> IF f[p] = "desc_sleep" THEN "alloc" ELSE f[p]]

--------------------------------------------------------------------------------
(* virtio_disk_rw() *)

\* bread() or bwrite() calls with a locked buffer; a writer has changed it.
Call(p, w, k, v) ==
  /\ pc[p] = "idle" /\ reqs < MaxReqs
  /\ data' = IF w THEN [data EXCEPT ![p] = v] ELSE data
  /\ rq' = [rq EXCEPT ![p] = [write |-> w, blk |-> k]]
  /\ reqs' = reqs + 1
  /\ Goto(p, "alloc")
  /\ UNCHANGED <<drv, dev, irq, intr, media, head, panicked>>

\* alloc_desc() takes the lowest free index.
Lowest(n, S) == CHOOSE T \in SUBSET S :
  Cardinality(T) = n /\ \A i \in T, j \in S \ T : i < j

\* alloc3_desc() fails: it gives back what it took, waking other waiters, and
\* the caller sleeps.
AllocFails(p) ==
  /\ ~Locked /\ ~panicked /\ pc[p] = "alloc" /\ Cardinality(free) < 3
  /\ desc' = [i \in Desc |-> IF i \in free THEN [desc[i] EXCEPT !.addr = Nil] ELSE desc[i]]
  /\ pc' = [(IF free = {} THEN pc ELSE WakeDesc(pc)) EXCEPT ![p] = "desc_sleep"]
  /\ UNCHANGED <<free, info, avail, availidx, used_idx, owned, dev, irq, intr, media, data,
                 rq, head, reqs, panicked>>

\* Faulty variant: reads and writes confused.
SubmitSwapped(p) ==
  /\ ~Locked /\ ~panicked /\ pc[p] = "alloc" /\ Cardinality(free) >= 3
  /\ LET T == Lowest(3, free)
         a == Min(T)
         c == Max(T)
         b == CHOOSE i \in T : i # a /\ i # c
     IN /\ free' = free \ T
        /\ desc' = [desc EXCEPT
             ![a] = [addr |-> [kind |-> "hdr", rq |-> [rq[p] EXCEPT !.write = ~@]], next |-> b],
             ![b] = [addr |-> [kind |-> "data", buf |-> p], next |-> c],
             ![c] = [addr |-> [kind |-> "status"], next |-> End]]
        /\ info' = [info EXCEPT ![a] = p]
        /\ avail' = [avail EXCEPT ![availidx % NUM] = a]
        /\ head' = [head EXCEPT ![p] = a]
  /\ availidx' = (availidx + 1) % IdxMod
  /\ owned' = [owned EXCEPT ![p] = TRUE]
  /\ Goto(p, "io_sleep")
  /\ UNCHANGED <<used_idx, dev, irq, intr, media, data, rq, reqs, panicked>>

\* Three descriptors, formatted; the head goes to the avail ring.
Submit(p) ==
  /\ ~Locked /\ ~panicked /\ pc[p] = "alloc" /\ Cardinality(free) >= 3
  /\ LET T == Lowest(3, free)
         a == Min(T)
         c == Max(T)
         b == CHOOSE i \in T : i # a /\ i # c
     IN /\ free' = free \ T
        /\ desc' = [desc EXCEPT
             ![a] = [addr |-> [kind |-> "hdr", rq |-> rq[p]], next |-> b],
             ![b] = [addr |-> [kind |-> "data", buf |-> p], next |-> c],
             ![c] = [addr |-> [kind |-> "status"], next |-> End]]
        /\ info' = [info EXCEPT ![a] = p]
        /\ avail' = [avail EXCEPT ![availidx % NUM] = a]
        /\ head' = [head EXCEPT ![p] = a]
  /\ availidx' = (availidx + 1) % IdxMod
  /\ owned' = [owned EXCEPT ![p] = TRUE]
  /\ Goto(p, "io_sleep")
  /\ UNCHANGED <<used_idx, dev, irq, intr, media, data, rq, reqs, panicked>>

Chain(h) == {h, desc[h].next, desc[desc[h].next].next} \ {End}

\* Woken with b->disk clear: free_chain(), wake those waiting for descriptors.
Finish(p) ==
  /\ ~Locked /\ ~panicked /\ pc[p] = "io_check"
  /\ IF owned[p]
     THEN Goto(p, "io_sleep") /\ UNCHANGED <<info, free, desc, rq, head, panicked>>
     ELSE LET h == head[p] IN
          /\ info' = [info EXCEPT ![h] = NoProc]
          /\ panicked' = (Chain(h) \cap free # {})     \* "virtio_disk_intr 2"
          /\ free' = free \cup Chain(h)
          /\ desc' = [i \in Desc |-> IF i \in Chain(h) THEN [desc[i] EXCEPT !.addr = Nil]
                                                       ELSE desc[i]]
          /\ head' = [head EXCEPT ![p] = End]
          /\ rq' = [rq EXCEPT ![p] = NoReq]
          /\ pc' = WakeDesc([pc EXCEPT ![p] = "idle"])
  /\ UNCHANGED <<avail, availidx, used_idx, owned, dev, irq, intr, media, data, reqs>>

--------------------------------------------------------------------------------
(* The device (external): fetches chains in ring order, serves them in any
   order, and interrupts after each one. *)

DevFetch ==
  /\ seen # availidx
  /\ inflight' = inflight \cup {avail[seen % NUM]}
  /\ seen' = (seen + 1) % IdxMod
  /\ UNCHANGED <<drv, used, usedid, irq, intr, media, data, pc, rq, head, reqs, panicked>>

DevServe(h) ==
  /\ h \in inflight
  /\ desc[h].addr.kind = "hdr" /\ desc[desc[h].next].addr.kind = "data"
  /\ LET r == desc[h].addr.rq
         b == desc[desc[h].next].addr.buf
     IN IF r.write THEN media' = [media EXCEPT ![r.blk] = data[b]] /\ UNCHANGED data
                   ELSE data' = [data EXCEPT ![b] = media[r.blk]] /\ UNCHANGED media
  /\ inflight' = inflight \ {h}
  /\ used' = [used EXCEPT ![usedid % NUM] = h]
  /\ usedid' = (usedid + 1) % IdxMod
  /\ irq' = TRUE
  /\ UNCHANGED <<drv, seen, intr, pc, rq, head, reqs, panicked>>

--------------------------------------------------------------------------------
(* virtio_disk_intr() *)

IntrStart ==
  /\ irq /\ ~intr
  /\ irq' = FALSE /\ intr' = TRUE
  /\ UNCHANGED <<drv, dev, media, data, pc, rq, head, reqs, panicked>>

\* Faulty variant: a handler that takes all entries up to the device's index for
\* handled after the first.
IntrOneSkips ==
  /\ intr /\ ~panicked /\ used_idx % NUM # usedid % NUM
  /\ LET p == info[used[used_idx]] IN
     IF p = NoProc THEN panicked' = TRUE /\ UNCHANGED <<owned, pc>>
     ELSE /\ owned' = [owned EXCEPT ![p] = FALSE]
          /\ pc' = [pc EXCEPT ![p] = IF @ = "io_sleep" THEN "io_check" ELSE @]
          /\ UNCHANGED panicked
  /\ used_idx' = usedid % NUM
  /\ UNCHANGED <<free, desc, info, avail, availidx, dev, irq, intr, media, data, rq, head, reqs>>

\* One completion: the buffer is the caller's again, and its sleeper is woken.
\* With no buffer recorded the handler would follow a null pointer.
IntrOne ==
  /\ intr /\ ~panicked /\ used_idx % NUM # usedid % NUM
  /\ LET p == info[used[used_idx]] IN
     IF p = NoProc THEN panicked' = TRUE /\ UNCHANGED <<owned, pc>>
     ELSE /\ owned' = [owned EXCEPT ![p] = FALSE]
          /\ pc' = [pc EXCEPT ![p] = IF @ = "io_sleep" THEN "io_check" ELSE @]
          /\ UNCHANGED panicked
  /\ used_idx' = (used_idx + 1) % NUM
  /\ UNCHANGED <<free, desc, info, avail, availidx, dev, irq, intr, media, data, rq, head, reqs>>

IntrEnd ==
  /\ intr /\ used_idx % NUM = usedid % NUM
  /\ intr' = FALSE
  /\ UNCHANGED <<drv, dev, irq, media, data, pc, rq, head, reqs, panicked>>

Intr == IntrStart \/ IntrOne \/ IntrEnd
Rw(p) == AllocFails(p) \/ Submit(p) \/ Finish(p)
Device == DevFetch \/ \E h \in Desc : DevServe(h)

Next ==
  \/ \E p \in Procs, w \in BOOLEAN, k \in Blocks, v \in Vals : Call(p, w, k, v)
  \/ \E p \in Procs : Rw(p)
  \/ Device
  \/ Intr

Spec == Init /\ [][Next]_vars

\* A caller that has entered the driver is scheduled; the device serves every
\* chain it fetched; a pending interrupt is delivered and its handler runs on.
Fairness ==
  /\ \A p \in Procs : WF_vars(Rw(p))
  /\ WF_vars(DevFetch) /\ \A h \in Desc : WF_vars(DevServe(h))
  /\ WF_vars(Intr)
FairSpec == Spec /\ Fairness

--------------------------------------------------------------------------------
(* Properties *)

Active == {p \in Procs : pc[p] \in {"io_sleep", "io_check"}}

TypeOK ==
  /\ free \subseteq Desc
  /\ \A i \in Desc : desc[i].next \in Desc \cup {End}
  /\ info \in [Desc -> Procs \cup {NoProc}]
  /\ avail \in [Desc -> Desc] /\ used \in [Desc -> Desc]
  /\ availidx \in 0 .. (IdxMod - 1) /\ usedid \in 0 .. (IdxMod - 1)
  /\ seen \in 0 .. (IdxMod - 1) /\ used_idx \in Desc
  /\ inflight \subseteq Desc
  /\ media \in [Blocks -> Vals] /\ data \in [Procs -> Vals]
  /\ owned \in [Procs -> BOOLEAN]
  /\ pc \in [Procs -> {"idle", "alloc", "desc_sleep", "io_sleep", "io_check"}]

\* The panics of free_desc(), and a completion whose info[].b is null, never
\* happen.
NoDriverPanic == ~panicked

\* Descriptors are neither leaked nor shared: the free ones and the chains of
\* the requests in progress, three each, are all there are.
DescriptorsConserved ==
  /\ \A p \in Active : Cardinality(Chain(head[p])) = 3 /\ Chain(head[p]) \cap free = {}
  /\ \A p, q \in Active : p # q => Chain(head[p]) \cap Chain(head[q]) = {}
  /\ Desc = free \cup UNION {Chain(head[p]) : p \in Active}

\* The handler compares ring positions modulo NUM: no completion is missed
\* because every entry between its own position and the device's belongs to a
\* request still waiting, and no request is waiting without being in exactly
\* one place (avail ring, device, used ring).
Pending == {used[(used_idx + i) % NUM] : i \in 0 .. ((usedid - used_idx + NUM) % NUM) - 1}
Queued == {avail[(seen + i) % NUM] : i \in 0 .. ((availidx - seen + NUM) % NUM) - 1}
CompletionsNotLost ==
  /\ {head[p] : p \in {q \in Active : owned[q]}} = Queued \cup inflight \cup Pending
  /\ Queued \cap inflight = {} /\ inflight \cap Pending = {} /\ Queued \cap Pending = {}

\* Every call of virtio_disk_rw() returns: neither the wakeup for descriptors
\* nor the one for the buffer is lost.
InRw(p) == pc[p] = "alloc"
Returned(p) == pc[p] = "idle"
RequestReturns == \A p \in Procs : InRw(p) ~> Returned(p)

\* Outside the driver a buffer's request is over; inside it is done when the
\* device has served it.
ReqView == [p \in Procs |->
  IF p \in Active
  THEN [write |-> rq[p].write, blk |-> rq[p].blk,
        done  |-> ~owned[p] \/ head[p] \in Pending]
  ELSE [write |-> FALSE, blk |-> 0, done |-> TRUE]]

Abstract == INSTANCE BlockDevice WITH Bufs <- Procs, req <- ReqView

\* The driver implements BlockDevice: each request moves its own block exactly
\* once between submission and return, whatever order the device serves in.
DriverImplements == Abstract!Spec

\* The driver's tables agree with what the device has: descriptors, completions and requests.
RingsConsistent == TypeOK /\ NoDriverPanic /\ DescriptorsConserved /\ CompletionsNotLost
================================================================================
