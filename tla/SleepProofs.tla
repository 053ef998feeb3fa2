------------------------------- MODULE SleepProofs -------------------------------
(***************************************************************************)
(* Proofs about sleep(), wakeup() and the scheduler, for any number of     *)
(* waiters, wakers and processors: the locks are where they should be,     *)
(* and the lock-by-lock code implements the atomic wait of module Monitor. *)
(***************************************************************************)
EXTENDS Sleep, FiniteSetTheorems, TLAPS

\* Where p's locks and its state are at each control point of p.
Placed(p) ==
  /\ pc[p] \in {"test", "sleep_plock", "wakeup"} => state[p] = "running" /\ plock[p] = Free
  /\ pc[p] \in {"sleep_unlock", "sleep_state"} => state[p] = "running" /\ plock[p] = p
  /\ pc[p] = "asleep" => \/ state[p] = "sleeping" /\ plock[p] \in {Free, Scheduler}
                         \/ state[p] = "runnable" /\ plock[p] = Free
                         \/ state[p] = "running" /\ plock[p] = p
  /\ pc[p] \in {"start", "relock", "done"} =>
       \/ state[p] = "running" /\ plock[p] \in {p, Free}
       \/ state[p] = "runnable" /\ plock[p] \in {Free, Scheduler}
  /\ chan[p] <=> pc[p] = "asleep"

\* Who holds the condition lock, and which functions a process can be in.
HasLock(p) == lk = p <=> pc[p] \in {"test", "sleep_plock", "sleep_unlock", "wakeup"}
InRole(p) == IF p \in Waiters THEN pc[p] # "wakeup" ELSE pc[p] \in {"start", "wakeup", "done"}

SleepType ==
  /\ avail \in Nat
  /\ lk \in Procs \cup {Free}
  /\ plock \in [Procs -> Procs \cup {Free, Scheduler}]
  /\ state \in [Procs -> {"runnable", "running", "sleeping"}]
  /\ chan \in [Procs -> BOOLEAN]
  /\ pc \in [Procs -> {"start", "test", "sleep_plock", "sleep_unlock", "sleep_state",
                       "asleep", "relock", "wakeup", "done"}]
  /\ scan \in [Procs -> SUBSET Procs]

ControlInv == SleepType /\ \A p \in Procs : Placed(p) /\ HasLock(p) /\ InRole(p)

\* A process on its way to sleep has seen that there is nothing, and it is
\* still so; wakeup() has yet to visit everyone who waits.
NoneMissed ==
  \A p \in Procs :
    /\ pc[p] \in {"sleep_plock", "sleep_unlock"} => avail = 0
    /\ pc[p] = "wakeup" => WaitingView \subseteq scan[p]

\* Units come from wakers.
UnitBound == avail <= Cardinality({p \in Wakers : pc[p] # "start"})

SleepInv == ControlInv /\ NoneMissed /\ UnitBound

--------------------------------------------------------------------------------

\* No process has run at the start.
LEMMA SleepInit == Init => SleepInv
<1> SUFFICES ASSUME Init PROVE SleepInv
  OBVIOUS
<1>1. ControlInv
  BY SleepAssumption DEF Init, ControlInv, SleepType, Placed, HasLock, InRole, Procs, Free, Scheduler
<1>2. NoneMissed
  BY DEF Init, NoneMissed, WaitingView
<1>3. {p \in Wakers : pc[p] # "start"} = {}
  BY DEF Init, Procs
<1> QED
  BY <1>1, <1>2, <1>3, FS_EmptySet DEF SleepInv, UnitBound, Init

\* The locks and states stay in place: each step moves one process, or, in
\* wakeup() and kill(), makes another one runnable under its lock.
LEMMA ControlStep == ControlInv /\ Next => ControlInv'
<1> SUFFICES ASSUME ControlInv, NEW p \in Procs,
                    Step(p) \/ Spin(p) \/ Dispatch(p) \/ Yield(p) \/ Kill(p)
             PROVE  ControlInv'
  BY DEF Next
<1> USE SleepAssumption DEF ControlInv, SleepType, Placed, HasLock, InRole, Procs, Free, Scheduler,
        Running, Goto
<1>1. CASE SchedRelease(p)
  BY <1>1 DEF SchedRelease
<1>2. CASE Resume(p)
  BY <1>2 DEF Resume
<1>3. CASE Test(p)
  BY <1>3 DEF Test
<1>4. CASE SleepUnlock(p)
  BY <1>4 DEF SleepUnlock
<1>5. CASE SleepState(p)
  BY <1>5 DEF SleepState
<1>6. CASE SleepTidy(p)
  BY <1>6 DEF SleepTidy
<1>7. CASE WakeupEnd(p)
  BY <1>7 DEF WakeupEnd
<1>8. CASE Lock(p)
  BY <1>8 DEF Lock
<1>9. CASE Produce(p)
  BY <1>9 DEF Produce
<1>10. CASE SleepPlock(p)
  BY <1>10 DEF SleepPlock
<1>11. ASSUME NEW q \in Procs, WakeupOne(p, q) PROVE ControlInv'
  BY <1>11 DEF WakeupOne
<1>12. CASE Dispatch(p)
  BY <1>12 DEF Dispatch
<1>13. CASE Yield(p)
  BY <1>13 DEF Yield
<1>14. CASE Kill(p)
  BY <1>14 DEF Kill
<1> QED
  BY <1>1, <1>2, <1>3, <1>4, <1>5, <1>6, <1>7, <1>8, <1>9, <1>10, <1>11, <1>12, <1>13, <1>14
     DEF Step, Spin

\* The condition lock is what keeps avail and the set of waiting processes
\* still between the test and release(lk), and during wakeup().
LEMMA NoneMissedStep == ControlInv /\ NoneMissed /\ Next => NoneMissed'
<1> SUFFICES ASSUME ControlInv, NoneMissed, NEW p \in Procs,
                    Step(p) \/ Spin(p) \/ Dispatch(p) \/ Yield(p) \/ Kill(p)
             PROVE  NoneMissed'
  BY DEF Next
<1> USE SleepAssumption DEF ControlInv, SleepType, Placed, HasLock, InRole, Procs, Free, Scheduler,
        Running, Goto, NoneMissed, WaitingView
<1>1. CASE SchedRelease(p)
  BY <1>1 DEF SchedRelease
<1>2. CASE Resume(p)
  BY <1>2 DEF Resume
<1>3. CASE Test(p)
  BY <1>3 DEF Test
<1>4. CASE SleepUnlock(p)
  BY <1>4 DEF SleepUnlock
<1>5. CASE SleepState(p)
  BY <1>5 DEF SleepState
<1>6. CASE SleepTidy(p)
  BY <1>6 DEF SleepTidy
<1>7. CASE WakeupEnd(p)
  BY <1>7 DEF WakeupEnd
<1>8. CASE Lock(p)
  BY <1>8 DEF Lock
<1>9. CASE Produce(p)
  BY <1>9 DEF Produce
<1>10. CASE SleepPlock(p)
  BY <1>10 DEF SleepPlock
<1>11. ASSUME NEW q \in Procs, WakeupOne(p, q) PROVE NoneMissed'
  BY <1>11 DEF WakeupOne
<1>12. CASE Dispatch(p)
  BY <1>12 DEF Dispatch
<1>13. CASE Yield(p)
  BY <1>13 DEF Yield
<1>14. CASE Kill(p)
  BY <1>14 DEF Kill
<1> QED
  BY <1>1, <1>2, <1>3, <1>4, <1>5, <1>6, <1>7, <1>8, <1>9, <1>10, <1>11, <1>12, <1>13, <1>14
     DEF Step, Spin

\* Only a waker that starts adds a unit, and it never starts again.
LEMMA UnitBoundStep == ControlInv /\ UnitBound /\ Next => UnitBound'
<1> SUFFICES ASSUME ControlInv, UnitBound, NEW p \in Procs,
                    Step(p) \/ Spin(p) \/ Dispatch(p) \/ Yield(p) \/ Kill(p)
             PROVE  UnitBound'
  BY DEF Next
<1> DEFINE Started == {q \in Wakers : pc[q] # "start"}
<1>f. IsFiniteSet(Started) /\ IsFiniteSet(Started')
  BY SleepAssumption, FS_Subset
<1>c. Cardinality(Started) \in Nat /\ Cardinality(Started') \in Nat /\ avail \in Nat
  BY <1>f, FS_CardinalityType DEF ControlInv, SleepType
<1>1. CASE Produce(p)
  <2>1. p \notin Started /\ Started' = Started \cup {p} /\ avail' = avail + 1
    BY <1>1 DEF Produce, Goto, ControlInv, SleepType, Procs
  <2>2. Cardinality(Started') = Cardinality(Started) + 1
    BY <1>f, <2>1, FS_AddElement
  <2> QED
    BY <1>c, <2>1, <2>2 DEF UnitBound
<1>2. CASE ~Produce(p)
  <2>1. Started \subseteq Started' /\ avail' <= avail /\ avail' \in Nat
    BY <1>2, <1>c DEF Step, Spin, SchedRelease, Resume, Test, SleepUnlock, SleepState, SleepTidy, WakeupEnd,
      Lock, SleepPlock, WakeupOne, Dispatch, Yield, Kill, Goto, ControlInv, SleepType, Procs
  <2>2. Cardinality(Started) <= Cardinality(Started')
    BY <1>f, <2>1, FS_Subset
  <2> QED
    BY <1>c, <2>1, <2>2 DEF UnitBound
<1> QED
  BY <1>1, <1>2

\* The invariant of the sleep and wakeup code holds in every state.
THEOREM SleepCorrect == Spec => []SleepInv
<1>1. SleepInv /\ UNCHANGED vars => SleepInv'
  BY DEF SleepInv, ControlInv, SleepType, Placed, HasLock, InRole, NoneMissed, WaitingView, UnitBound, vars
<1>2. SleepInv /\ [Next]_vars => SleepInv'
  BY <1>1, ControlStep, NoneMissedStep, UnitBoundStep DEF SleepInv
<1> QED
  BY <1>2, SleepInit, PTL DEF Spec

\* Locks and states have their types, and there are never more units than wakers.
THEOREM SleepTypes == Spec => []TypeOK
<1>1. SleepInv => TypeOK
  <2> SUFFICES ASSUME SleepInv PROVE TypeOK
    OBVIOUS
  <2> DEFINE Started == {q \in Wakers : pc[q] # "start"}
  <2>1. /\ IsFiniteSet(Wakers) /\ Cardinality(Wakers) \in Nat
        /\ Cardinality(Started) \in Nat /\ Cardinality(Started) <= Cardinality(Wakers)
    BY SleepAssumption, FS_Subset, FS_CardinalityType
  <2>2. SleepType /\ avail <= Cardinality(Started)
    BY DEF SleepInv, ControlInv, UnitBound
  <2>3. avail \in 0 .. Cardinality(Wakers)
    BY <2>1, <2>2 DEF SleepType
  <2> QED
    BY <2>2, <2>3 DEF SleepType, TypeOK
<1> QED
  BY <1>1, SleepCorrect, PTL

\* "Must hold only p->lock": a process that gives up its processor in sched()
\* holds no other spinlock, and a SLEEPING process has left its processor.
THEOREM OnlyPlockInSched == Spec => []SchedHoldsOnlyPlock
<1>1. SleepInv => SchedHoldsOnlyPlock
  BY SleepAssumption DEF SleepInv, ControlInv, SleepType, Placed, HasLock, SchedHoldsOnlyPlock, Running,
    Procs, Free, Scheduler
<1> QED
  BY <1>1, SleepCorrect, PTL

--------------------------------------------------------------------------------
(* sleep() and wakeup() implement module Monitor *)

\* At most one waker is in wakeup(): the one that holds the condition lock.
LEMMA AvailViewValue ==
  ControlInv => AvailView = IF lk \in Wakers THEN avail - 1 ELSE avail
<1> SUFFICES ASSUME ControlInv
             PROVE  AvailView = IF lk \in Wakers THEN avail - 1 ELSE avail
  OBVIOUS
<1> DEFINE S == {p \in Wakers : pc[p] = "wakeup"}
<1>1. CASE lk \in Wakers
  <2>1. S = {lk}
    BY <1>1, SleepAssumption DEF ControlInv, HasLock, InRole, Procs
  <2>2. Cardinality(S) = 1
    BY <2>1, FS_Singleton
  <2> QED
    BY <1>1, <2>2 DEF AvailView
<1>2. CASE lk \notin Wakers
  <2>1. S = {}
    BY <1>2 DEF ControlInv, HasLock, Procs
  <2>2. Cardinality(S) = 0
    BY <2>1, FS_EmptySet
  <2> QED
    BY <1>2, <2>2 DEF AvailView, ControlInv, SleepType
<1> QED
  BY <1>1, <1>2

\* Each step is a step of the monitor or leaves it alone: the wait begins with
\* release(lk) in sleep(), the signal ends with release(lk) after wakeup().
LEMMA MonitorStep ==
  ASSUME SleepInv, ControlInv', Next
  PROVE  Abstract!Next \/ UNCHANGED <<AvailView, WaitingView, DoneView>>
<1>p. PICK p \in Procs : Step(p) \/ Spin(p) \/ Dispatch(p) \/ Yield(p) \/ Kill(p)
  BY DEF Next
<1>n. (ControlInv => AvailView = IF lk \in Wakers THEN avail - 1 ELSE avail)'
  BY AvailViewValue, PTL
<1>a. /\ AvailView = IF lk \in Wakers THEN avail - 1 ELSE avail
      /\ AvailView' = IF lk' \in Wakers THEN avail' - 1 ELSE avail'
  BY AvailViewValue, <1>n DEF SleepInv
<1> HIDE DEF AvailView
<1> USE SleepAssumption DEF SleepInv, ControlInv, SleepType, Placed, HasLock, InRole, Procs, Free, Scheduler,
        Running, Goto, WaitingView, DoneView
<1>1. CASE Test(p) /\ avail > 0
  <2>1. Abstract!Take(p) /\ p \in Waiters
    BY <1>1, <1>a DEF Test, Abstract!Take
  <2> QED
    BY <2>1 DEF Abstract!Next
<1>2. CASE Test(p) /\ ~(avail > 0)
  BY <1>2, <1>a DEF Test
<1>3. CASE SleepUnlock(p)
  <2>1. Abstract!Wait(p) /\ p \in Waiters
    BY <1>3, <1>a DEF SleepUnlock, NoneMissed, Abstract!Wait
  <2> QED
    BY <2>1 DEF Abstract!Next
<1>4. CASE WakeupEnd(p)
  <2>1. lk = p /\ p \in Wakers /\ AvailView' = AvailView + 1
    BY <1>4, <1>a DEF WakeupEnd
  <2>2. WaitingView = {} /\ WaitingView' = WaitingView
    BY <1>4 DEF WakeupEnd, NoneMissed
  <2>3. DoneView' = DoneView
    BY <1>4, <2>1 DEF WakeupEnd
  <2>4. Abstract!Signal
    BY <2>1, <2>2, <2>3 DEF Abstract!Signal
  <2> QED
    BY <2>4 DEF Abstract!Next
<1>5. ASSUME NEW q \in Procs, WakeupOne(p, q) \/ Kill(q)
      PROVE  (Abstract!Wake(q) /\ q \in Waiters) \/ UNCHANGED <<AvailView, WaitingView, DoneView>>
  <2>0. avail' = avail /\ (lk' \in Wakers <=> lk \in Wakers)
    BY <1>5 DEF WakeupOne, Kill
  <2>d. DoneView' = DoneView
    BY <1>5 DEF WakeupOne, Kill
  <2>1. AvailView' = AvailView /\ DoneView' = DoneView
    BY <2>0, <2>d, <1>a
  <2>2. CASE state[q] = "sleeping"
    <3>1. q \in Waiters /\ q \in WaitingView /\ WaitingView' = WaitingView \ {q}
      BY <1>5, <2>2 DEF WakeupOne, Kill
    <3> QED
      BY <2>1, <3>1 DEF Abstract!Wake
  <2>3. CASE state[q] # "sleeping"
    <3>1. WaitingView' = WaitingView
      BY <1>5, <2>3 DEF WakeupOne, Kill
    <3> QED
      BY <2>1, <3>1
  <2> QED
    BY <2>2, <2>3
<1>6. CASE SchedRelease(p) \/ Resume(p) \/ SleepState(p) \/ SleepTidy(p)
  <2>0. avail' = avail /\ (lk' \in Wakers <=> lk \in Wakers)
    BY <1>6 DEF SchedRelease, Resume, SleepState, SleepTidy
  <2>d. DoneView' = DoneView
    BY <1>6 DEF SchedRelease, Resume, SleepState, SleepTidy
  <2>1. AvailView' = AvailView /\ DoneView' = DoneView
    BY <2>0, <2>d, <1>a
  <2>2. WaitingView' = WaitingView
    BY <1>6 DEF SchedRelease, Resume, SleepState, SleepTidy
  <2> QED
    BY <2>1, <2>2
<1>7. CASE Lock(p) \/ SleepPlock(p) \/ Dispatch(p) \/ Yield(p)
  <2>0. avail' = avail /\ (lk' \in Wakers <=> lk \in Wakers)
    BY <1>7 DEF Lock, SleepPlock, Dispatch, Yield
  <2>d. DoneView' = DoneView
    BY <1>7 DEF Lock, SleepPlock, Dispatch, Yield
  <2>1. AvailView' = AvailView /\ DoneView' = DoneView
    BY <2>0, <2>d, <1>a
  <2>2. WaitingView' = WaitingView
    BY <1>7 DEF Lock, SleepPlock, Dispatch, Yield
  <2> QED
    BY <2>1, <2>2
<1>8. CASE Produce(p)
  BY <1>8, <1>a DEF Produce
<1> QED
  BY <1>p, <1>1, <1>2, <1>3, <1>4, <1>5, <1>6, <1>7, <1>8 DEF Step, Spin, Abstract!Next

\* sleep() and wakeup() implement the monitor: to start waiting and to release
\* the lock are one step, and a wakeup reaches everyone who waits.
THEOREM NoLostWakeup == Spec => SleepImplements
<1>1. Init => Abstract!Init
  <2> SUFFICES ASSUME Init PROVE Abstract!Init
    OBVIOUS
  <2>1. {p \in Wakers : pc[p] = "wakeup"} = {}
    BY DEF Init, Procs
  <2>2. AvailView = 0
    BY <2>1, FS_EmptySet DEF AvailView, Init
  <2> QED
    BY <2>2 DEF Init, Abstract!Init, WaitingView, DoneView, Procs
<1>2. SleepInv /\ SleepInv' /\ [Next]_vars => [Abstract!Next]_(Abstract!vars)
  <2>1. CASE UNCHANGED vars
    BY <2>1 DEF vars, Abstract!vars, AvailView, WaitingView, DoneView
  <2>2. SleepInv /\ SleepInv' /\ Next => [Abstract!Next]_(Abstract!vars)
    BY MonitorStep DEF SleepInv, Abstract!vars
  <2> QED
    BY <2>1, <2>2
<1> QED
  BY <1>1, <1>2, SleepCorrect, PTL DEF Spec, SleepImplements, Abstract!Spec
================================================================================
