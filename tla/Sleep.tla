--------------------------------- MODULE Sleep ---------------------------------
(***************************************************************************)
(* sleep(), wakeup() and the scheduler of kernel/proc/proc.c, one lock     *)
(* operation at a time: how a process hands its condition lock over to     *)
(* p->lock, and p->lock over to the scheduler, without missing a wakeup.   *)
(* The processes wait for units that wakers produce, as begin_op(),        *)
(* piperead(), acquiresleep() and virtio_disk_rw() wait for theirs.        *)
(***************************************************************************)
EXTENDS Integers, FiniteSets

CONSTANTS
  Waiters,    \* processes that wait for one unit each
  Wakers,     \* processes that produce one unit each
  NCPU,       \* processors
  MaxKills    \* bound: kill()s of a sleeping process

Procs == Waiters \cup Wakers
Free == "free"
Scheduler == "scheduler"

ASSUME SleepAssumption ==
  /\ IsFiniteSet(Waiters) /\ IsFiniteSet(Wakers) /\ Waiters \cap Wakers = {}
  /\ Free \notin Procs /\ Scheduler \notin Procs

VARIABLES
  avail,      \* the condition, protected by lk
  lk,         \* holder of the condition lock
  plock,      \* holder of each p->lock: a process or the scheduler
  state,      \* p->state
  chan,       \* p->chan: TRUE when it is the channel of the condition
  pc,
  scan,       \* wakeup(): processes of the table still to visit
  kills

vars == <<avail, lk, plock, state, chan, pc, scan, kills>>

Init ==
  /\ avail = 0 /\ lk = Free
  /\ plock = [p \in Procs |-> Free]
  /\ state = [p \in Procs |-> "runnable"]
  /\ chan = [p \in Procs |-> FALSE]
  /\ pc = [p \in Procs |-> "start"]
  /\ scan = [p \in Procs |-> {}]
  /\ kills = 0

Goto(p, l) == pc' = [pc EXCEPT ![p] = l]
Running(p) == state[p] = "running" /\ plock[p] # Scheduler

--------------------------------------------------------------------------------
(* scheduler(), sched() and yield() *)

\* scheduler() takes p->lock, finds p RUNNABLE and switches to it; p's thread
\* then owns the lock and, unless it sleeps on p->lock itself, releases it.
Dispatch(p) ==
  /\ state[p] = "runnable" /\ plock[p] = Free
  /\ Cardinality({q \in Procs : state[q] = "running"}) < NCPU
  /\ state' = [state EXCEPT ![p] = "running"]
  /\ plock' = [plock EXCEPT ![p] = p]
  /\ UNCHANGED <<avail, lk, chan, pc, scan, kills>>

\* After the switch back: the scheduler releases the lock of the process that
\* called sched().
SchedRelease(p) ==
  /\ plock[p] = Scheduler
  /\ plock' = [plock EXCEPT ![p] = Free]
  /\ UNCHANGED <<avail, lk, state, chan, pc, scan, kills>>

\* The process dispatched releases p->lock: the end of yield() or forkret().
Resume(p) ==
  /\ Running(p) /\ plock[p] = p /\ pc[p] \in {"start", "relock", "done"}
  /\ plock' = [plock EXCEPT ![p] = Free]
  /\ UNCHANGED <<avail, lk, state, chan, pc, scan, kills>>

\* A timer interrupt, only while no spinlock is held.
Yield(p) ==
  /\ Running(p) /\ plock[p] = Free /\ pc[p] \in {"start", "relock", "done"}
  /\ state' = [state EXCEPT ![p] = "runnable"]
  /\ plock' = [plock EXCEPT ![p] = Scheduler]
  /\ UNCHANGED <<avail, lk, chan, pc, scan, kills>>

--------------------------------------------------------------------------------
(* A waiter: acquire(lk); while(!avail) sleep(chan, lk); avail--; release(lk) *)

Lock(p) ==
  /\ Running(p) /\ p \in Waiters /\ plock[p] = Free /\ lk = Free
  /\ pc[p] \in {"start", "relock"}
  /\ lk' = p
  /\ Goto(p, "test")
  /\ UNCHANGED <<avail, plock, state, chan, scan, kills>>

Test(p) ==
  /\ Running(p) /\ pc[p] = "test"
  /\ IF avail > 0
     THEN avail' = avail - 1 /\ lk' = Free /\ Goto(p, "done")
     ELSE UNCHANGED <<avail, lk>> /\ Goto(p, "sleep_plock")
  /\ UNCHANGED <<plock, state, chan, scan, kills>>

\* Faulty variant: sleep() releases lk before it holds p->lock.
SleepPlockLate(p) ==
  /\ Running(p) /\ pc[p] = "sleep_plock" /\ lk = p
  /\ lk' = Free
  /\ Goto(p, "sleep_unlock")
  /\ UNCHANGED <<avail, plock, state, chan, scan, kills>>

\* sleep(): acquire(&p->lock) ...
SleepPlock(p) ==
  /\ Running(p) /\ pc[p] = "sleep_plock" /\ plock[p] = Free
  /\ plock' = [plock EXCEPT ![p] = p]
  /\ Goto(p, "sleep_unlock")
  /\ UNCHANGED <<avail, lk, state, chan, scan, kills>>

\* Faulty variant: sleep() keeps the condition lock.
SleepKeepsLock(p) ==
  /\ Running(p) /\ pc[p] = "sleep_unlock"
  /\ Goto(p, "sleep_state")
  /\ UNCHANGED <<avail, lk, plock, state, chan, scan, kills>>

\* ... release(lk) ...
SleepUnlock(p) ==
  /\ Running(p) /\ pc[p] = "sleep_unlock"
  /\ lk' = IF lk = p THEN Free ELSE lk
  /\ Goto(p, "sleep_state")
  /\ UNCHANGED <<avail, plock, state, chan, scan, kills>>

\* ... chan, SLEEPING, sched(): the scheduler now holds p->lock.
SleepState(p) ==
  /\ Running(p) /\ pc[p] = "sleep_state" /\ plock[p] \in {p, Free}
  /\ chan' = [chan EXCEPT ![p] = TRUE]
  /\ state' = [state EXCEPT ![p] = "sleeping"]
  /\ plock' = [plock EXCEPT ![p] = Scheduler]
  /\ Goto(p, "asleep")
  /\ UNCHANGED <<avail, lk, scan, kills>>

\* Dispatched again: chan = 0, release(&p->lock), then acquire(lk) (Lock).
SleepTidy(p) ==
  /\ Running(p) /\ pc[p] = "asleep" /\ plock[p] = p
  /\ chan' = [chan EXCEPT ![p] = FALSE]
  /\ plock' = [plock EXCEPT ![p] = Free]
  /\ Goto(p, "relock")
  /\ UNCHANGED <<avail, lk, state, scan, kills>>

--------------------------------------------------------------------------------
(* A waker: acquire(lk); avail++; wakeup(chan); release(lk) *)

Produce(p) ==
  /\ Running(p) /\ p \in Wakers /\ pc[p] = "start" /\ plock[p] = Free /\ lk = Free
  /\ lk' = p
  /\ avail' = avail + 1
  /\ scan' = [scan EXCEPT ![p] = Procs]
  /\ Goto(p, "wakeup")
  /\ UNCHANGED <<plock, state, chan, kills>>

\* One round of wakeup(): under q's lock, make q RUNNABLE if it sleeps here.
WakeupOne(p, q) ==
  /\ Running(p) /\ pc[p] = "wakeup" /\ q \in scan[p]
  /\ plock[q] = Free
  /\ state' = [state EXCEPT ![q] = IF @ = "sleeping" /\ chan[q] THEN "runnable" ELSE @]
  /\ scan' = [scan EXCEPT ![p] = @ \ {q}]
  /\ UNCHANGED <<avail, lk, plock, chan, pc, kills>>

WakeupEnd(p) ==
  /\ Running(p) /\ pc[p] = "wakeup" /\ scan[p] = {}
  /\ lk' = Free
  /\ Goto(p, "done")
  /\ UNCHANGED <<avail, plock, state, chan, scan, kills>>

\* kill() makes a sleeping process RUNNABLE whatever it waits for.
Kill(q) ==
  /\ kills < MaxKills
  /\ plock[q] = Free /\ state[q] = "sleeping"
  /\ state' = [state EXCEPT ![q] = "runnable"]
  /\ kills' = kills + 1
  /\ UNCHANGED <<avail, lk, plock, chan, pc, scan>>

Step(p) ==
  \/ SchedRelease(p) \/ Resume(p) \/ Test(p) \/ SleepUnlock(p)
  \/ SleepState(p) \/ SleepTidy(p) \/ WakeupEnd(p)

\* The steps that acquire a spinlock.
Spin(p) == Lock(p) \/ Produce(p) \/ SleepPlock(p) \/ \E q \in Procs : WakeupOne(p, q)

Next == \E p \in Procs : Step(p) \/ Spin(p) \/ Dispatch(p) \/ Yield(p) \/ Kill(p)

Spec == Init /\ [][Next]_vars

\* Processors keep executing the threads they run; a thread that keeps coming to
\* a spinlock gets it some time, and the scheduler's scan of the table, which
\* passes every RUNNABLE process again and again, dispatches it some time.  The
\* timer interrupts a thread that holds no lock.
Fairness == \A p \in Procs :
  /\ WF_vars(Step(p)) /\ SF_vars(Spin(p)) /\ SF_vars(Dispatch(p))
  /\ WF_vars(Yield(p) /\ pc[p] = "done")
FairSpec == Spec /\ Fairness

--------------------------------------------------------------------------------
(* Properties *)

TypeOK ==
  /\ avail \in 0 .. Cardinality(Wakers)
  /\ lk \in Procs \cup {Free}
  /\ plock \in [Procs -> Procs \cup {Free, Scheduler}]
  /\ state \in [Procs -> {"runnable", "running", "sleeping"}]
  /\ chan \in [Procs -> BOOLEAN]
  /\ pc \in [Procs -> {"start", "test", "sleep_plock", "sleep_unlock", "sleep_state",
                       "asleep", "relock", "wakeup", "done"}]
  /\ scan \in [Procs -> SUBSET Procs]

\* "Must hold only p->lock" (the comment of sched()): when a process gives up its
\* processor it holds neither the condition lock nor another p->lock, and no
\* process is SLEEPING while it still runs.
SchedHoldsOnlyPlock ==
  \A p \in Procs :
    /\ ~Running(p) => lk # p
    /\ \A q \in Procs : plock[q] = p => q = p /\ state[p] = "running"
    /\ state[p] = "sleeping" => pc[p] = "asleep"

\* "we can be guaranteed that we won't miss any wakeup (wakeup locks p->lock)":
\* the waiting processes of the monitor are those past release(lk).
WaitingView == {p \in Waiters : \/ pc[p] = "sleep_state"
                                \/ pc[p] = "asleep" /\ state[p] = "sleeping"}
AvailView == avail - Cardinality({p \in Wakers : pc[p] = "wakeup"})
DoneView == {p \in Waiters : pc[p] = "done"}

Abstract == INSTANCE Monitor WITH
              avail <- AvailView, waiting <- WaitingView, done <- DoneView

\* sleep() and wakeup() implement the monitor: a wakeup misses nobody whose
\* sleep() began before the waker got the condition lock.
SleepImplements == Abstract!Spec

\* With a unit for every waiter, everyone is served.
AllServed == Cardinality(Wakers) >= Cardinality(Waiters)
               => <>(\A p \in Waiters : pc[p] = "done")
================================================================================
