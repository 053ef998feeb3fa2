------------------------------- MODULE ProcProofs -------------------------------
(***************************************************************************)
(* Proofs about the process table of kernel/proc/proc.c for every number   *)
(* of slots, every bound on the pids and every set of kill() arguments:    *)
(* who may hold which p->lock, that nobody is orphaned, that a parent      *)
(* asleep in wait() is woken, and that a slot is freed only when its       *)
(* process has left the processor.                                         *)
(***************************************************************************)
EXTENDS Proc, FiniteSetTheorems, WellFoundedInduction, TLAPS

ProcAssumption == NPROC \in Nat \ {0} /\ MaxPid \in Nat \ {0}

TableType == TypeOK /\ nextpid \in Nat /\ nextpid > 1

\* Control points of exit() and wait() at which the process is on a processor.
Inside == {"exit_init", "exit_parent", "exit_lock_parent", "exit_lock_self", "reparent", "wait_scan"}

\* p->state and p->chan follow the control point.
ControlInv ==
  \A s \in Slots :
    /\ state[s] = "unused" <=> pc[s] = "none"
    /\ state[s] = "zombie" <=> pc[s] \in {"exit_sched", "dead"}
    /\ state[s] = "sleeping" => pc[s] = "wait_sleep"
    /\ pc[s] = "wait_sleep" => state[s] \in {"sleeping", "runnable"}
    /\ pc[s] = "wait_sleep" <=> chan[s]
    /\ pc[s] \in Inside => state[s] = "running"
    /\ s = Init1 => pc[s] \in {"user", "wait_scan", "wait_sleep"}

\* Who holds p->lock: p in wait(), in reparent() and until the scheduler has
\* left its stack; or the process in exit() that copied p as its parent.
LockInv ==
  \A s \in Slots :
    /\ plock[s] # None =>
         \/ plock[s] = s /\ pc[s] \in {"wait_scan", "reparent", "exit_sched"}
         \/ /\ plock[s] # s /\ orig[plock[s]] = s
            /\ pc[plock[s]] \in {"exit_lock_self", "reparent"}
    /\ pc[s] \in {"wait_scan", "reparent", "exit_sched"} => plock[s] = s
    /\ pc[s] \in {"exit_lock_self", "reparent"} => plock[orig[s]] = s

\* The copy of p->parent is p's parent, or p was given to init meanwhile.
OrigInv ==
  \A s \in Slots :
    pc[s] \in {"exit_lock_parent", "exit_lock_self", "reparent"} =>
      /\ orig[s] \in Slots /\ orig[s] # s
      /\ parent[s] \in {orig[s], Init1}

\* Every process but init has a parent, which is neither free nor a zombie.
FamilyInv ==
  \A s \in Slots :
    /\ parent[s] = None <=> (s = Init1 \/ state[s] = "unused")
    /\ parent[s] # s
    /\ parent[s] # None => state[parent[s]] \notin {"unused", "zombie"}

\* The slots behind reparent()'s index hold no child of the exiting process.
ReparentInv ==
  \A q, s \in Slots : pc[q] = "reparent" /\ s < at[q] => parent[s] # q

\* The slots behind wait()'s index hold no zombie child of the caller.
ScanInv ==
  \A p, s \in Slots :
    p # Init1 /\ pc[p] = "wait_scan" /\ s < at[p] /\ parent[s] = p => state[s] # "zombie"

\* A child is younger than its parent, and pids are handed out in order.
AgeInv ==
  \A s \in Slots :
    /\ pid[s] < nextpid
    /\ s = Init1 => pid[s] = 1
    /\ s # Init1 /\ state[s] # "unused" => pid[s] > 1
    /\ parent[s] # None => pid[parent[s]] < pid[s]

ProcInv ==
  /\ TableType /\ ControlInv /\ LockInv /\ OrigInv
  /\ FamilyInv /\ ReparentInv /\ ScanInv /\ NoMissedChild /\ AgeInv

--------------------------------------------------------------------------------
\* The initial table: init alone, in user space.
LEMMA ProcInit == ASSUME ProcAssumption, Init PROVE ProcInv
<1>1. TableType BY DEF ProcAssumption, Init, TableType, TypeOK, Slots, None, Init1
<1>2. ControlInv BY DEF Init, ControlInv, Slots, Init1, Inside
<1>3. LockInv /\ OrigInv BY DEF Init, LockInv, OrigInv, Slots, Init1, None
<1>4. FamilyInv BY DEF Init, FamilyInv, Slots, Init1, None
<1>5. ReparentInv /\ ScanInv /\ NoMissedChild
  BY DEF Init, ReparentInv, ScanInv, NoMissedChild, Slots, Init1, None
<1>6. AgeInv BY DEF ProcAssumption, Init, AgeInv, Slots, Init1, None
<1>7. QED BY <1>1, <1>2, <1>3, <1>4, <1>5, <1>6 DEF ProcInv

\* The process table's indices.
SlotFacts ==
  /\ Init1 \in Slots /\ None \notin Slots
  /\ \A s \in Slots : s \in Int /\ 1 <= s /\ s <= NPROC
  /\ \A i \in Int : 1 <= i /\ i <= NPROC => i \in Slots
  /\ NPROC \in Nat \ {0} /\ MaxPid \in Nat \ {0}

\* What the proofs use of 1 .. NPROC.
LEMMA SlotsAre == ASSUME ProcAssumption PROVE SlotFacts
BY DEF ProcAssumption, SlotFacts, Slots, Init1, None

\* The actions of p, one by one.
Step(p) ==
  \/ Dispatch(p) \/ Exit(p) \/ ExitWakeInit(p) \/ ExitParent(p) \/ ExitLockParent(p)
  \/ ExitLockSelf(p) \/ Reparent(p) \/ ExitZombie(p) \/ ExitSched(p) \/ WaitStart(p)
  \/ WaitSkip(p) \/ WaitReap(p) \/ WaitBadAddr(p) \/ WaitEnd(p)
  \/ \E n \in Slots : Fork(p, n) \/ ForkNoPage(p, n) \/ ForkNoCopy(p, n)
  \/ \E k \in KillPids : Kill(p, k)

\* Every step is one of them.
LEMMA Steps == ASSUME Next PROVE \E p \in Slots : Step(p)
BY Zenon DEF Next, Step, Exiting, WaitScan

\* Every step keeps the types.
LEMMA TypeStep ==
  ASSUME ProcAssumption, TableType, [Next]_vars
  PROVE TableType'
<1> USE SlotsAre DEF SlotFacts, TableType, TypeOK, Runs
<1>1. CASE UNCHANGED vars BY <1>1 DEF vars, pvars
<1>2. CASE Next
  <2>0. PICK p \in Slots : Step(p) BY <1>2, Steps, Zenon
  <2>1. CASE Dispatch(p)
    <3>1. CASE pc[p] = "wait_sleep"
      <4>1. state' \in [Slots -> {"unused", "runnable", "running", "sleeping", "zombie"}]
        BY <2>1 DEF Dispatch
      <4>2. plock' \in [Slots -> Slots \cup {None}] BY <2>1, <3>1 DEF Dispatch
      <4>3. chan' \in [Slots -> BOOLEAN] /\ kids' \in [Slots -> BOOLEAN]
        BY <2>1, <3>1, Zenon DEF Dispatch
      <4>4. at' \in [Slots -> 1 .. (NPROC + 1)] BY <2>1, <3>1 DEF Dispatch
      <4>5. QED BY <2>1, <3>1, <4>1, <4>2, <4>3, <4>4 DEF Dispatch, Goto
    <3>2. CASE pc[p] # "wait_sleep" BY <2>1, <3>2 DEF Dispatch
    <3>3. QED BY <3>1, <3>2, Zenon
  <2>2. CASE Exit(p) BY <2>2 DEF Exit, Goto, pvars
  <2>3. CASE ExitWakeInit(p) BY <2>3 DEF ExitWakeInit, Goto, Wakeup1, pvars
  <2>4. CASE ExitParent(p) BY <2>4 DEF ExitParent, Goto, pvars
  <2>5. CASE ExitLockParent(p) BY <2>5, Zenon DEF ExitLockParent, Goto, pvars
  <2>6. CASE ExitLockSelf(p) BY <2>6 DEF ExitLockSelf, Goto, pvars
  <2>7. CASE Reparent(p) BY <2>7 DEF Reparent, pvars
  <2>8. CASE ExitZombie(p) BY <2>8, Zenon DEF ExitZombie, Goto, Wakeup1, pvars
  <2>9. CASE ExitSched(p) BY <2>9 DEF ExitSched, Goto, pvars
  <2>10. CASE WaitStart(p) BY <2>10 DEF WaitStart, Goto, pvars
  <2>11. CASE WaitSkip(p) BY <2>11 DEF WaitSkip, pvars
  <2>12. CASE WaitReap(p) BY <2>12 DEF WaitReap, FreeProc, pvars
  <2>13. CASE WaitBadAddr(p) BY <2>13 DEF WaitBadAddr, Goto, pvars
  <2>14. CASE WaitEnd(p)
    <3>1. CASE ~kids[p] \/ killed[p] BY <2>14, <3>1 DEF WaitEnd, Goto
    <3>2. CASE kids[p] /\ ~killed[p]
      <4>1. state' \in [Slots -> {"unused", "runnable", "running", "sleeping", "zombie"}]
        BY <2>14, <3>2 DEF WaitEnd
      <4>2. chan' \in [Slots -> BOOLEAN] BY <2>14, <3>2, Zenon DEF WaitEnd
      <4>3. plock' \in [Slots -> Slots \cup {None}] BY <2>14 DEF WaitEnd
      <4>4. QED BY <2>14, <3>2, <4>1, <4>2, <4>3 DEF WaitEnd, Goto
    <3>3. QED BY <3>1, <3>2
  <2>15. ASSUME NEW n \in Slots, Fork(p, n) \/ ForkNoPage(p, n) \/ ForkNoCopy(p, n) PROVE TableType'
    <3>1. CASE Fork(p, n) BY <3>1 DEF Fork, Goto, Free
    <3>2. CASE ForkNoPage(p, n) BY <3>2 DEF ForkNoPage, Free
    <3>3. CASE ForkNoCopy(p, n) BY <3>3 DEF ForkNoCopy, Free, FreeProc
    <3>4. QED BY <2>15, <3>1, <3>2, <3>3, Zenon
  <2>16. ASSUME NEW k \in KillPids, Kill(p, k) PROVE TableType' BY <2>16 DEF Kill
  <2>17. QED
    BY <2>0, <2>1, <2>2, <2>3, <2>4, <2>5, <2>6, <2>7, <2>8, <2>9, <2>10, <2>11, <2>12, <2>13,
      <2>14, <2>15, <2>16, Zenon DEF Step
<1>3. QED BY <1>1, <1>2, Zenon

\* State, channel and control point change together.
LEMMA ControlStep ==
  ASSUME ProcAssumption, TableType, ControlInv, LockInv, FamilyInv, [Next]_vars
  PROVE ControlInv'
<1> USE SlotsAre DEF SlotFacts, TableType, TypeOK, Runs, ControlInv, Inside
<1>1. CASE UNCHANGED vars BY <1>1 DEF vars, pvars
<1>2. CASE Next
  <2>0. PICK p \in Slots : Step(p) BY <1>2, Steps, Zenon
  <2>1. CASE Dispatch(p) BY <2>1 DEF Dispatch, Goto, pvars
  <2>2. CASE Exit(p) BY <2>2 DEF Exit, Goto, pvars
  <2>3. CASE ExitWakeInit(p) BY <2>3 DEF ExitWakeInit, Goto, Wakeup1, pvars
  <2>4. CASE ExitParent(p) BY <2>4 DEF ExitParent, Goto, pvars
  <2>5. CASE ExitLockParent(p) BY <2>5 DEF ExitLockParent, Goto, pvars
  <2>6. CASE ExitLockSelf(p) BY <2>6 DEF ExitLockSelf, Goto, pvars
  <2>7. CASE Reparent(p) BY <2>7 DEF Reparent, pvars
  <2>8. CASE ExitZombie(p) BY <2>8 DEF ExitZombie, Goto, Wakeup1, pvars
  <2>9. CASE ExitSched(p) BY <2>9 DEF ExitSched, Goto, pvars
  <2>10. CASE WaitStart(p) BY <2>10 DEF WaitStart, Goto, pvars
  <2>11. CASE WaitSkip(p) BY <2>11 DEF WaitSkip, pvars
  <2>12. CASE WaitReap(p) BY <2>12 DEF WaitReap, FreeProc, pvars
  <2>13. CASE WaitBadAddr(p) BY <2>13 DEF WaitBadAddr, Goto, pvars
  <2>14. CASE WaitEnd(p) BY <2>14 DEF WaitEnd, Goto, pvars
  <2>15. ASSUME NEW n \in Slots, Fork(p, n) \/ ForkNoPage(p, n) \/ ForkNoCopy(p, n) PROVE ControlInv'
    <3>1. CASE Fork(p, n) BY <3>1 DEF Fork, Goto, Free
    <3>2. CASE ForkNoPage(p, n) BY <3>2 DEF ForkNoPage, Free
    <3>3. CASE ForkNoCopy(p, n) BY <3>3 DEF ForkNoCopy, Free, FreeProc
    <3>4. QED BY <2>15, <3>1, <3>2, <3>3, Zenon
  <2>16. ASSUME NEW k \in KillPids, Kill(p, k) PROVE ControlInv' BY <2>16 DEF Kill
  <2>17. QED
    BY <2>0, <2>1, <2>2, <2>3, <2>4, <2>5, <2>6, <2>7, <2>8, <2>9, <2>10, <2>11, <2>12, <2>13,
      <2>14, <2>15, <2>16, Zenon DEF Step
<1>3. QED BY <1>1, <1>2, Zenon

\* A lock is taken only when free, and released by its holder: a reused slot
\* keeps the rule although the copied parent may be out of date.
LEMMA LockStep ==
  ASSUME ProcAssumption, TableType, ControlInv, LockInv, OrigInv, [Next]_vars
  PROVE LockInv'
<1> USE SlotsAre DEF SlotFacts, TableType, TypeOK, Runs, LockInv, ControlInv, OrigInv, Inside
<1>1. CASE UNCHANGED vars BY <1>1 DEF vars, pvars
<1>2. CASE Next
  <2>0. PICK p \in Slots : Step(p) BY <1>2, Steps, Zenon
  <2>1. CASE Dispatch(p) BY <2>1 DEF Dispatch, Goto, pvars
  <2>2. CASE Exit(p) BY <2>2 DEF Exit, Goto, pvars
  <2>3. CASE ExitWakeInit(p) BY <2>3 DEF ExitWakeInit, Goto, Wakeup1, pvars
  <2>4. CASE ExitParent(p) BY <2>4 DEF ExitParent, Goto, pvars
  <2>5. CASE ExitLockParent(p) BY <2>5 DEF ExitLockParent, Goto, pvars
  <2>6. CASE ExitLockSelf(p) BY <2>6 DEF ExitLockSelf, Goto, pvars
  <2>7. CASE Reparent(p) BY <2>7 DEF Reparent, pvars
  <2>8. CASE ExitZombie(p) BY <2>8 DEF ExitZombie, Goto, Wakeup1, pvars
  <2>9. CASE ExitSched(p) BY <2>9 DEF ExitSched, Goto, pvars
  <2>10. CASE WaitStart(p) BY <2>10 DEF WaitStart, Goto, pvars
  <2>11. CASE WaitSkip(p) BY <2>11 DEF WaitSkip, pvars
  <2>12. CASE WaitReap(p) BY <2>12 DEF WaitReap, FreeProc, pvars
  <2>13. CASE WaitBadAddr(p) BY <2>13 DEF WaitBadAddr, Goto, pvars
  <2>14. CASE WaitEnd(p) BY <2>14 DEF WaitEnd, Goto, pvars
  <2>15. ASSUME NEW n \in Slots, Fork(p, n) \/ ForkNoPage(p, n) \/ ForkNoCopy(p, n) PROVE LockInv'
    <3>1. CASE Fork(p, n) BY <3>1 DEF Fork, Goto, Free
    <3>2. CASE ForkNoPage(p, n) BY <3>2 DEF ForkNoPage, Free
    <3>3. CASE ForkNoCopy(p, n) BY <3>3 DEF ForkNoCopy, Free, FreeProc
    <3>4. QED BY <2>15, <3>1, <3>2, <3>3, Zenon
  <2>16. ASSUME NEW k \in KillPids, Kill(p, k) PROVE LockInv' BY <2>16 DEF Kill
  <2>17. QED
    BY <2>0, <2>1, <2>2, <2>3, <2>4, <2>5, <2>6, <2>7, <2>8, <2>9, <2>10, <2>11, <2>12, <2>13,
      <2>14, <2>15, <2>16, Zenon DEF Step
<1>3. QED BY <1>1, <1>2, Zenon

\* While p is in exit() its parent changes only to init.
LEMMA OrigStep ==
  ASSUME ProcAssumption, TableType, ControlInv, OrigInv, FamilyInv, [Next]_vars
  PROVE OrigInv'
<1> USE SlotsAre DEF SlotFacts, TableType, TypeOK, Runs, OrigInv, FamilyInv, ControlInv
<1>1. CASE UNCHANGED vars BY <1>1 DEF vars, pvars
<1>2. CASE Next
  <2>0. PICK p \in Slots : Step(p) BY <1>2, Steps, Zenon
  <2>1. CASE Dispatch(p) BY <2>1 DEF Dispatch, Goto, pvars
  <2>2. CASE Exit(p) BY <2>2 DEF Exit, Goto, pvars
  <2>3. CASE ExitWakeInit(p) BY <2>3 DEF ExitWakeInit, Goto, Wakeup1, pvars
  <2>4. CASE ExitParent(p) BY <2>4 DEF ExitParent, Goto, pvars
  <2>5. CASE ExitLockParent(p) BY <2>5 DEF ExitLockParent, Goto, pvars
  <2>6. CASE ExitLockSelf(p) BY <2>6 DEF ExitLockSelf, Goto, pvars
  <2>7. CASE Reparent(p) BY <2>7 DEF Reparent, pvars
  <2>8. CASE ExitZombie(p) BY <2>8 DEF ExitZombie, Goto, Wakeup1, pvars
  <2>9. CASE ExitSched(p) BY <2>9 DEF ExitSched, Goto, pvars
  <2>10. CASE WaitStart(p) BY <2>10 DEF WaitStart, Goto, pvars
  <2>11. CASE WaitSkip(p) BY <2>11 DEF WaitSkip, pvars
  <2>12. CASE WaitReap(p) BY <2>12 DEF WaitReap, FreeProc, pvars
  <2>13. CASE WaitBadAddr(p) BY <2>13 DEF WaitBadAddr, Goto, pvars
  <2>14. CASE WaitEnd(p) BY <2>14 DEF WaitEnd, Goto, pvars
  <2>15. ASSUME NEW n \in Slots, Fork(p, n) \/ ForkNoPage(p, n) \/ ForkNoCopy(p, n) PROVE OrigInv'
    <3>1. CASE Fork(p, n) BY <3>1 DEF Fork, Goto, Free
    <3>2. CASE ForkNoPage(p, n) BY <3>2 DEF ForkNoPage, Free
    <3>3. CASE ForkNoCopy(p, n) BY <3>3 DEF ForkNoCopy, Free, FreeProc
    <3>4. QED BY <2>15, <3>1, <3>2, <3>3, Zenon
  <2>16. ASSUME NEW k \in KillPids, Kill(p, k) PROVE OrigInv' BY <2>16 DEF Kill
  <2>17. QED
    BY <2>0, <2>1, <2>2, <2>3, <2>4, <2>5, <2>6, <2>7, <2>8, <2>9, <2>10, <2>11, <2>12, <2>13,
      <2>14, <2>15, <2>16, Zenon DEF Step
<1>3. QED BY <1>1, <1>2, Zenon

\* A process becomes a zombie only without children, and only a zombie is freed.
LEMMA FamilyStep ==
  ASSUME ProcAssumption, TableType, ControlInv, OrigInv, FamilyInv, ReparentInv, [Next]_vars
  PROVE FamilyInv'
<1> USE SlotsAre DEF SlotFacts, TableType, TypeOK, Runs, FamilyInv, ReparentInv, ControlInv,
      Inside, OrigInv
<1>1. CASE UNCHANGED vars BY <1>1 DEF vars, pvars
<1>2. CASE Next
  <2>0. PICK p \in Slots : Step(p) BY <1>2, Steps, Zenon
  <2>1. CASE Dispatch(p) BY <2>1 DEF Dispatch, Goto, pvars
  <2>2. CASE Exit(p) BY <2>2 DEF Exit, Goto, pvars
  <2>3. CASE ExitWakeInit(p) BY <2>3 DEF ExitWakeInit, Goto, Wakeup1, pvars
  <2>4. CASE ExitParent(p) BY <2>4 DEF ExitParent, Goto, pvars
  <2>5. CASE ExitLockParent(p) BY <2>5 DEF ExitLockParent, Goto, pvars
  <2>6. CASE ExitLockSelf(p) BY <2>6 DEF ExitLockSelf, Goto, pvars
  <2>7. CASE Reparent(p) BY <2>7 DEF Reparent, pvars
  <2>8. CASE ExitZombie(p) BY <2>8 DEF ExitZombie, Goto, Wakeup1, pvars
  <2>9. CASE ExitSched(p) BY <2>9 DEF ExitSched, Goto, pvars
  <2>10. CASE WaitStart(p) BY <2>10 DEF WaitStart, Goto, pvars
  <2>11. CASE WaitSkip(p) BY <2>11 DEF WaitSkip, pvars
  <2>12. CASE WaitReap(p) BY <2>12 DEF WaitReap, FreeProc, pvars
  <2>13. CASE WaitBadAddr(p) BY <2>13 DEF WaitBadAddr, Goto, pvars
  <2>14. CASE WaitEnd(p) BY <2>14 DEF WaitEnd, Goto, pvars
  <2>15. ASSUME NEW n \in Slots, Fork(p, n) \/ ForkNoPage(p, n) \/ ForkNoCopy(p, n) PROVE FamilyInv'
    <3>1. CASE Fork(p, n) BY <3>1 DEF Fork, Goto, Free
    <3>2. CASE ForkNoPage(p, n) BY <3>2 DEF ForkNoPage, Free
    <3>3. CASE ForkNoCopy(p, n) BY <3>3 DEF ForkNoCopy, Free, FreeProc
    <3>4. QED BY <2>15, <3>1, <3>2, <3>3, Zenon
  <2>16. ASSUME NEW k \in KillPids, Kill(p, k) PROVE FamilyInv' BY <2>16 DEF Kill
  <2>17. QED
    BY <2>0, <2>1, <2>2, <2>3, <2>4, <2>5, <2>6, <2>7, <2>8, <2>9, <2>10, <2>11, <2>12, <2>13,
      <2>14, <2>15, <2>16, Zenon DEF Step
<1>3. QED BY <1>1, <1>2, Zenon

\* Nobody becomes a child of a process in reparent().
LEMMA ReparentStep ==
  ASSUME ProcAssumption, TableType, ControlInv, FamilyInv, ReparentInv, [Next]_vars
  PROVE ReparentInv'
<1> USE SlotsAre DEF SlotFacts, TableType, TypeOK, Runs, ReparentInv, ControlInv, FamilyInv
<1>1. CASE UNCHANGED vars BY <1>1 DEF vars, pvars
<1>2. CASE Next
  <2>0. PICK p \in Slots : Step(p) BY <1>2, Steps, Zenon
  <2>1. CASE Dispatch(p) BY <2>1 DEF Dispatch, Goto, pvars
  <2>2. CASE Exit(p) BY <2>2 DEF Exit, Goto, pvars
  <2>3. CASE ExitWakeInit(p) BY <2>3 DEF ExitWakeInit, Goto, Wakeup1, pvars
  <2>4. CASE ExitParent(p) BY <2>4 DEF ExitParent, Goto, pvars
  <2>5. CASE ExitLockParent(p) BY <2>5 DEF ExitLockParent, Goto, pvars
  <2>6. CASE ExitLockSelf(p) BY <2>6 DEF ExitLockSelf, Goto, pvars
  <2>7. CASE Reparent(p)
    <3> SUFFICES ASSUME NEW q \in Slots, NEW s \in Slots, pc'[q] = "reparent", s < at'[q]
                 PROVE parent'[s] # q
      OBVIOUS
    <3>1. at[p] \in Slots BY <2>7 DEF Reparent
    <3>2. q # Init1 BY <2>7 DEF Reparent
    <3>3. CASE q = p BY <2>7, <3>1, <3>2, <3>3 DEF Reparent
    <3>4. CASE q # p BY <2>7, <3>1, <3>2, <3>4 DEF Reparent
    <3>5. QED BY <3>3, <3>4
  <2>8. CASE ExitZombie(p) BY <2>8 DEF ExitZombie, Goto, Wakeup1, pvars
  <2>9. CASE ExitSched(p) BY <2>9 DEF ExitSched, Goto, pvars
  <2>10. CASE WaitStart(p) BY <2>10 DEF WaitStart, Goto, pvars
  <2>11. CASE WaitSkip(p) BY <2>11 DEF WaitSkip, pvars
  <2>12. CASE WaitReap(p) BY <2>12 DEF WaitReap, FreeProc, pvars
  <2>13. CASE WaitBadAddr(p) BY <2>13 DEF WaitBadAddr, Goto, pvars
  <2>14. CASE WaitEnd(p) BY <2>14 DEF WaitEnd, Goto, pvars
  <2>15. ASSUME NEW n \in Slots, Fork(p, n) \/ ForkNoPage(p, n) \/ ForkNoCopy(p, n) PROVE ReparentInv'
    <3>1. CASE Fork(p, n) BY <3>1 DEF Fork, Goto, Free
    <3>2. CASE ForkNoPage(p, n) BY <3>2 DEF ForkNoPage, Free
    <3>3. CASE ForkNoCopy(p, n) BY <3>3 DEF ForkNoCopy, Free, FreeProc
    <3>4. QED BY <2>15, <3>1, <3>2, <3>3, Zenon
  <2>16. ASSUME NEW k \in KillPids, Kill(p, k) PROVE ReparentInv' BY <2>16 DEF Kill
  <2>17. QED
    BY <2>0, <2>1, <2>2, <2>3, <2>4, <2>5, <2>6, <2>7, <2>8, <2>9, <2>10, <2>11, <2>12, <2>13,
      <2>14, <2>15, <2>16, Zenon DEF Step
<1>3. QED BY <1>1, <1>2, Zenon

\* A child cannot become a zombie while its parent scans: exit() needs the
\* parent's lock.
LEMMA ScanStep ==
  ASSUME ProcAssumption, TableType, ControlInv, LockInv, OrigInv, FamilyInv, ScanInv, [Next]_vars
  PROVE ScanInv'
<1> USE SlotsAre DEF SlotFacts, TableType, TypeOK, Runs, ScanInv, ControlInv, LockInv, OrigInv,
      FamilyInv
<1>1. CASE UNCHANGED vars BY <1>1 DEF vars, pvars
<1>2. CASE Next
  <2>0. PICK p \in Slots : Step(p) BY <1>2, Steps, Zenon
  <2>1. CASE Dispatch(p) BY <2>1 DEF Dispatch, Goto, pvars
  <2>2. CASE Exit(p) BY <2>2 DEF Exit, Goto, pvars
  <2>3. CASE ExitWakeInit(p) BY <2>3 DEF ExitWakeInit, Goto, Wakeup1, pvars
  <2>4. CASE ExitParent(p) BY <2>4 DEF ExitParent, Goto, pvars
  <2>5. CASE ExitLockParent(p) BY <2>5 DEF ExitLockParent, Goto, pvars
  <2>6. CASE ExitLockSelf(p) BY <2>6 DEF ExitLockSelf, Goto, pvars
  <2>7. CASE Reparent(p) BY <2>7 DEF Reparent, pvars
  <2>8. CASE ExitZombie(p) BY <2>8 DEF ExitZombie, Goto, Wakeup1, pvars
  <2>9. CASE ExitSched(p) BY <2>9 DEF ExitSched, Goto, pvars
  <2>10. CASE WaitStart(p) BY <2>10 DEF WaitStart, Goto, pvars
  <2>11. CASE WaitSkip(p)
    <3> SUFFICES ASSUME NEW q \in Slots, NEW s \in Slots,
                        q # Init1, pc'[q] = "wait_scan", s < at'[q], parent'[s] = q
                 PROVE state'[s] # "zombie"
      OBVIOUS
    <3>1. at[p] \in Slots BY <2>11 DEF WaitSkip
    <3>2. CASE q = p
      <4>1. parent[s] = p /\ state' = state /\ pc[p] = "wait_scan"
        BY <2>11, <3>2 DEF WaitSkip, pvars
      <4>2. s < at[p] \/ s = at[p] BY <2>11, <3>1, <3>2 DEF WaitSkip
      <4>3. CASE s < at[p] BY <3>2, <4>1, <4>3
      <4>4. CASE s = at[p] BY <2>11, <4>1, <4>4 DEF WaitSkip
      <4>5. QED BY <4>2, <4>3, <4>4
    <3>3. CASE q # p BY <2>11, <3>1, <3>3 DEF WaitSkip, pvars
    <3>4. QED BY <3>2, <3>3
  <2>12. CASE WaitReap(p) BY <2>12 DEF WaitReap, FreeProc, pvars
  <2>13. CASE WaitBadAddr(p) BY <2>13 DEF WaitBadAddr, Goto, pvars
  <2>14. CASE WaitEnd(p) BY <2>14 DEF WaitEnd, Goto, pvars
  <2>15. ASSUME NEW n \in Slots, Fork(p, n) \/ ForkNoPage(p, n) \/ ForkNoCopy(p, n) PROVE ScanInv'
    <3>1. CASE Fork(p, n) BY <3>1 DEF Fork, Goto, Free
    <3>2. CASE ForkNoPage(p, n) BY <3>2 DEF ForkNoPage, Free
    <3>3. CASE ForkNoCopy(p, n) BY <3>3 DEF ForkNoCopy, Free, FreeProc
    <3>4. QED BY <2>15, <3>1, <3>2, <3>3, Zenon
  <2>16. ASSUME NEW k \in KillPids, Kill(p, k) PROVE ScanInv' BY <2>16 DEF Kill
  <2>17. QED
    BY <2>0, <2>1, <2>2, <2>3, <2>4, <2>5, <2>6, <2>7, <2>8, <2>9, <2>10, <2>11, <2>12, <2>13,
      <2>14, <2>15, <2>16, Zenon DEF Step
<1>3. QED BY <1>1, <1>2, Zenon

\* A parent falls asleep only without zombie children, and each child that
\* becomes one wakes it.
LEMMA MissedStep ==
  ASSUME ProcAssumption, TableType, ControlInv, LockInv, OrigInv, FamilyInv, ScanInv, NoMissedChild, [Next]_vars
  PROVE NoMissedChild'
<1> USE SlotsAre DEF SlotFacts, TableType, TypeOK, Runs, NoMissedChild, ScanInv, ControlInv,
      OrigInv, FamilyInv
<1>1. CASE UNCHANGED vars BY <1>1 DEF vars, pvars
<1>2. CASE Next
  <2>0. PICK p \in Slots : Step(p) BY <1>2, Steps, Zenon
  <2>1. CASE Dispatch(p) BY <2>1 DEF Dispatch, Goto, pvars
  <2>2. CASE Exit(p) BY <2>2 DEF Exit, Goto, pvars
  <2>3. CASE ExitWakeInit(p) BY <2>3 DEF ExitWakeInit, Goto, Wakeup1, pvars
  <2>4. CASE ExitParent(p) BY <2>4 DEF ExitParent, Goto, pvars
  <2>5. CASE ExitLockParent(p) BY <2>5 DEF ExitLockParent, Goto, pvars
  <2>6. CASE ExitLockSelf(p) BY <2>6 DEF ExitLockSelf, Goto, pvars
  <2>7. CASE Reparent(p) BY <2>7 DEF Reparent, pvars
  <2>8. CASE ExitZombie(p) BY <2>8 DEF ExitZombie, Goto, Wakeup1, pvars
  <2>9. CASE ExitSched(p) BY <2>9 DEF ExitSched, Goto, pvars
  <2>10. CASE WaitStart(p) BY <2>10 DEF WaitStart, Goto, pvars
  <2>11. CASE WaitSkip(p) BY <2>11 DEF WaitSkip, pvars
  <2>12. CASE WaitReap(p) BY <2>12 DEF WaitReap, FreeProc, pvars
  <2>13. CASE WaitBadAddr(p) BY <2>13 DEF WaitBadAddr, Goto, pvars
  <2>14. CASE WaitEnd(p) BY <2>14 DEF WaitEnd, Goto, pvars
  <2>15. ASSUME NEW n \in Slots, Fork(p, n) \/ ForkNoPage(p, n) \/ ForkNoCopy(p, n) PROVE NoMissedChild'
    <3>1. CASE Fork(p, n) BY <3>1 DEF Fork, Goto, Free
    <3>2. CASE ForkNoPage(p, n) BY <3>2 DEF ForkNoPage, Free
    <3>3. CASE ForkNoCopy(p, n) BY <3>3 DEF ForkNoCopy, Free, FreeProc
    <3>4. QED BY <2>15, <3>1, <3>2, <3>3, Zenon
  <2>16. ASSUME NEW k \in KillPids, Kill(p, k) PROVE NoMissedChild' BY <2>16 DEF Kill
  <2>17. QED
    BY <2>0, <2>1, <2>2, <2>3, <2>4, <2>5, <2>6, <2>7, <2>8, <2>9, <2>10, <2>11, <2>12, <2>13,
      <2>14, <2>15, <2>16, Zenon DEF Step
<1>3. QED BY <1>1, <1>2, Zenon

\* fork() gives the highest pid so far to the child, and init has the lowest.
LEMMA AgeStep ==
  ASSUME ProcAssumption, TableType, ControlInv, FamilyInv, AgeInv, [Next]_vars
  PROVE AgeInv'
<1> USE SlotsAre DEF SlotFacts, TableType, TypeOK, Runs, AgeInv, ControlInv, FamilyInv
<1>1. CASE UNCHANGED vars BY <1>1 DEF vars, pvars
<1>2. CASE Next
  <2>0. PICK p \in Slots : Step(p) BY <1>2, Steps, Zenon
  <2>1. CASE Dispatch(p) BY <2>1 DEF Dispatch, Goto, pvars
  <2>2. CASE Exit(p) BY <2>2 DEF Exit, Goto, pvars
  <2>3. CASE ExitWakeInit(p) BY <2>3 DEF ExitWakeInit, Goto, Wakeup1, pvars
  <2>4. CASE ExitParent(p) BY <2>4 DEF ExitParent, Goto, pvars
  <2>5. CASE ExitLockParent(p) BY <2>5 DEF ExitLockParent, Goto, pvars
  <2>6. CASE ExitLockSelf(p) BY <2>6 DEF ExitLockSelf, Goto, pvars
  <2>7. CASE Reparent(p) BY <2>7 DEF Reparent, pvars
  <2>8. CASE ExitZombie(p) BY <2>8 DEF ExitZombie, Goto, Wakeup1, pvars
  <2>9. CASE ExitSched(p) BY <2>9 DEF ExitSched, Goto, pvars
  <2>10. CASE WaitStart(p) BY <2>10 DEF WaitStart, Goto, pvars
  <2>11. CASE WaitSkip(p) BY <2>11 DEF WaitSkip, pvars
  <2>12. CASE WaitReap(p) BY <2>12 DEF WaitReap, FreeProc, pvars
  <2>13. CASE WaitBadAddr(p) BY <2>13 DEF WaitBadAddr, Goto, pvars
  <2>14. CASE WaitEnd(p) BY <2>14 DEF WaitEnd, Goto, pvars
  <2>15. ASSUME NEW n \in Slots, Fork(p, n) \/ ForkNoPage(p, n) \/ ForkNoCopy(p, n) PROVE AgeInv'
    <3>1. CASE Fork(p, n) BY <3>1 DEF Fork, Goto, Free
    <3>2. CASE ForkNoPage(p, n) BY <3>2 DEF ForkNoPage, Free
    <3>3. CASE ForkNoCopy(p, n) BY <3>3 DEF ForkNoCopy, Free, FreeProc
    <3>4. QED BY <2>15, <3>1, <3>2, <3>3, Zenon
  <2>16. ASSUME NEW k \in KillPids, Kill(p, k) PROVE AgeInv' BY <2>16 DEF Kill
  <2>17. QED
    BY <2>0, <2>1, <2>2, <2>3, <2>4, <2>5, <2>6, <2>7, <2>8, <2>9, <2>10, <2>11, <2>12, <2>13,
      <2>14, <2>15, <2>16, Zenon DEF Step
<1>3. QED BY <1>1, <1>2, Zenon

--------------------------------------------------------------------------------
\* ProcInv is inductive.
LEMMA ProcStep == ASSUME ProcAssumption, ProcInv, [Next]_vars PROVE ProcInv'
<1> USE DEF ProcInv
<1>1. TableType' BY TypeStep, Zenon
<1>2. ControlInv' BY ControlStep, Zenon
<1>3. LockInv' BY LockStep, Zenon
<1>4. OrigInv' BY OrigStep, Zenon
<1>5. FamilyInv' BY FamilyStep, Zenon
<1>6. ReparentInv' BY ReparentStep, Zenon
<1>7. ScanInv' BY ScanStep, Zenon
<1>8. NoMissedChild' BY MissedStep, Zenon
<1>9. AgeInv' BY AgeStep, Zenon
<1>10. QED BY <1>1, <1>2, <1>3, <1>4, <1>5, <1>6, <1>7, <1>8, <1>9, Zenon

\* The inductive invariant of fork(), exit(), wait() and kill().
THEOREM ProcCorrect == ASSUME ProcAssumption PROVE Spec => []ProcInv
<1>1. Init => ProcInv BY ProcInit
<1>2. ProcInv /\ [Next]_vars => ProcInv' BY ProcStep
<1>3. QED BY <1>1, <1>2, PTL DEF Spec

\* The process table keeps its types: indices stay within it, pids within MaxPid.
THEOREM ProcTypes == ASSUME ProcAssumption PROVE Spec => []TypeOK
<1>1. ProcInv => TypeOK BY DEF ProcInv, TableType
<1>2. QED BY <1>1, ProcCorrect, PTL

\* Every process has a parent that can still call wait().
THEOREM NobodyOrphaned == ASSUME ProcAssumption PROVE Spec => []HasLiveParent
<1>1. ProcInv => HasLiveParent
  BY DEF ProcInv, TableType, TypeOK, FamilyInv, HasLiveParent, Used, None
<1>2. QED BY <1>1, ProcCorrect, PTL

\* No process but init sleeps in wait() beside a zombie child.
THEOREM ParentWoken == ASSUME ProcAssumption PROVE Spec => []NoMissedChild
<1>1. ProcInv => NoMissedChild BY DEF ProcInv
<1>2. QED BY <1>1, ProcCorrect, PTL

\* Of finitely many slots, one has the greatest pid.
LEMMA Youngest ==
  ASSUME ProcAssumption, NEW f \in [Slots -> Int], NEW S \in SUBSET Slots, S # {}
  PROVE  \E m \in S : \A k \in S : f[k] <= f[m]
<1> DEFINE T == {U \in SUBSET S : \E m \in S : U = {k \in S : f[k] >= f[m]}}
<1>0. IsFiniteSet(Slots) BY FS_Interval DEF ProcAssumption, Slots
<1>1. IsFiniteSet(S) BY <1>0, FS_Subset, Zenon
<1>2. T \subseteq FiniteSubsetsOf(S) BY <1>1, FS_FiniteSubsetsOfFinite
<1>3. \A k \in S : f[k] \in Int OBVIOUS
<1>4. T # {}
  <2>1. PICK m \in S : TRUE BY Zenon
  <2>2. {k \in S : f[k] >= f[m]} \in T OBVIOUS
  <2>3. QED BY <2>2, Zenon
<1> HIDE DEF T
<1>5. PICK x \in T : \A y \in T : ~(<<y, x>> \in StrictSubsetOrdering(S))
  BY <1>2, <1>4, FS_StrictSubsetOrderingWellFounded, WFMin
<1>6. PICK m \in S : x = {k \in S : f[k] >= f[m]} BY DEF T
<1>7. ASSUME NEW k \in S, f[k] > f[m] PROVE FALSE
  <2> DEFINE y == {j \in S : f[j] >= f[k]}
  <2>1. y \in T BY DEF T
  <2>2. m \in x BY <1>3, <1>6
  <2>3. m \notin y BY <1>3, <1>7
  <2>4. \A j \in S : f[j] >= f[k] => f[j] >= f[m] BY <1>3, <1>7
  <2>5. y \subseteq x BY <1>6, <2>4, Zenon
  <2>6. y \in SUBSET S /\ x \in SUBSET S BY <2>1 DEF T
  <2> HIDE DEF y
  <2>7. <<y, x>> \in StrictSubsetOrdering(S) BY <2>2, <2>3, <2>5, <2>6 DEF StrictSubsetOrdering
  <2>8. QED BY <1>5, <2>1, <2>7, Zenon
<1>8. QED BY <1>3, <1>7

\* A process that holds a lock waits only for younger ones, unless exit() holds
\* the lock of a slot that a younger process has taken.
LEMMA WaitsForYounger ==
  ASSUME ProcAssumption, ProcInv,
         \A p \in Slots : pc[p] \in {"exit_lock_self", "reparent"} => pid[orig[p]] < pid[p],
         NEW p \in Slots, NEW q \in Slots, NEW r \in Slots, WaitsFor(p, q), WaitsFor(q, r)
  PROVE  pid[q] < pid[r]
<1> USE SlotsAre DEF SlotFacts, ProcInv, TableType, TypeOK
<1> DEFINE s == Wanted(q)
<1>1. ASSUME NEW a \in Slots, NEW b \in Slots, plock[a] = b
      PROVE  \/ a = b /\ pc[b] \in {"wait_scan", "reparent", "exit_sched"}
             \/ pc[b] \in {"exit_lock_self", "reparent"} /\ pid[a] < pid[b]
  BY <1>1 DEF LockInv
<1>2. pc[q] \in {"wait_scan", "reparent", "exit_sched", "exit_lock_self"}
  <2>1. Wanted(p) \in Slots
    BY DEF WaitsFor, Wanted, Runs
  <2>2. QED BY <1>1, <2>1 DEF WaitsFor
<1>3. pc[q] # "exit_sched" BY DEF WaitsFor, Wanted, Runs, ControlInv
<1>4. CASE pc[q] = "exit_lock_self"
  <2>1. plock[q] = r BY <1>4 DEF WaitsFor, Wanted
  <2>2. QED BY <1>1, <1>4, <2>1
<1>5. CASE pc[q] \in {"wait_scan", "reparent"}
  <2>1. s = at[q] /\ s \in Slots /\ parent[s] = q /\ plock[s] = r
    BY <1>5 DEF WaitsFor, Wanted, Runs
  <2>2. pid[q] < pid[s] BY <2>1 DEF AgeInv
  <2>3. QED BY <1>1, <2>1, <2>2
<1>6. QED BY <1>2, <1>3, <1>4, <1>5

\* The only way into a circle of waiting processes is a copied parent whose slot
\* a younger process has taken.
THEOREM OlderLocksFirst == ASSUME ProcAssumption PROVE Spec => []LocksOrderedByAge
<1>1. ProcInv => LocksOrderedByAge
  <2> SUFFICES ASSUME ProcInv,
                      \A p \in Slots :
                        pc[p] \in {"exit_lock_self", "reparent"} => pid[orig[p]] < pid[p],
                      NEW S \in (SUBSET Slots) \ {{}},
                      \A p \in S : \E q \in S : WaitsFor(p, q)
               PROVE  FALSE
    BY DEF LocksOrderedByAge, NoLockCycle
  <2> DEFINE H == {q \in S : \E p \in S : WaitsFor(p, q)}
  <2>1. H \in SUBSET Slots /\ H # {}
    <3>1. PICK p \in S : TRUE OBVIOUS
    <3>2. PICK q \in S : WaitsFor(p, q) BY <3>1, Zenon
    <3>3. q \in H BY <3>1, <3>2
    <3>4. QED BY <3>3, Zenon
  <2>2. pid \in [Slots -> Int] BY SlotsAre DEF SlotFacts, ProcInv, TableType, TypeOK
  <2>3. PICK m \in H : \A k \in H : pid[k] <= pid[m]
    <3> HIDE DEF H
    <3>1. QED BY <2>1, <2>2, Youngest, Zenon
  <2>4. PICK r \in S : WaitsFor(m, r) OBVIOUS
  <2>5. r \in H BY <2>4
  <2>6. pid[m] < pid[r]
    <3>1. PICK p \in S : WaitsFor(p, m) OBVIOUS
    <3>2. QED BY <2>4, <3>1, WaitsForYounger
  <2>7. QED BY <2>1, <2>2, <2>3, <2>5, <2>6
<1>2. QED BY <1>1, ProcCorrect, PTL

\* A child's parent changes only by that parent's own reparent() or wait().
THEOREM ParentKeepsChild == ASSUME ProcAssumption PROVE Spec => OnlyParentChangesParent
<1> DEFINE Kept == \A s, p \in Slots :
             parent[s] = p /\ parent'[s] # p =>
               /\ state[p] = "running" /\ pc[p] \in {"reparent", "wait_scan"} /\ at[p] = s
<1>1. ProcInv /\ [Next]_vars => [Kept]_vars
  <2> SUFFICES ASSUME ProcInv, [Next]_vars PROVE [Kept]_vars OBVIOUS
  <2> USE SlotsAre DEF SlotFacts, ProcInv, TableType, TypeOK, FamilyInv, Runs
  <2>1. CASE UNCHANGED vars BY <2>1
  <2>2. CASE Next
    <3>0. PICK p \in Slots : Step(p) BY <2>2, Steps, Zenon
    <3>1. CASE Reparent(p) BY <3>1 DEF Reparent
    <3>2. CASE WaitReap(p) BY <3>2 DEF WaitReap, FreeProc
    <3>3. ASSUME NEW n \in Slots, Fork(p, n) \/ ForkNoCopy(p, n) PROVE Kept
      BY <3>3 DEF Fork, ForkNoCopy, Free, FreeProc
    <3>4. CASE parent' = parent BY <3>4
    <3>5. QED
      BY <3>0, <3>1, <3>2, <3>3, <3>4, Zenon
      DEF Step, Dispatch, Exit, ExitWakeInit, ExitParent, ExitLockParent, ExitLockSelf, ExitZombie,
          ExitSched, WaitStart, WaitSkip, WaitBadAddr, WaitEnd, ForkNoPage, Kill, pvars
  <2>3. QED BY <2>1, <2>2, Zenon
<1>2. QED BY <1>1, ProcCorrect, PTL DEF Spec, OnlyParentChangesParent

\* A slot is freed only after the scheduler has left its process's stack.
THEOREM FreedOffStack == ASSUME ProcAssumption PROVE Spec => ReapsOnlyDead
<1> DEFINE Gone == \A s \in Slots : state[s] = "zombie" /\ state'[s] = "unused" => pc[s] = "dead"
<1>1. ProcInv /\ [Next]_vars => [Gone]_vars
  <2> SUFFICES ASSUME ProcInv, [Next]_vars PROVE [Gone]_vars OBVIOUS
  <2> USE SlotsAre DEF SlotFacts, ProcInv, TableType, TypeOK, ControlInv, LockInv, Runs
  <2>1. CASE UNCHANGED vars BY <2>1
  <2>2. CASE Next
    <3>0. PICK p \in Slots : Step(p) BY <2>2, Steps, Zenon
    <3>1. CASE WaitReap(p) BY <3>1 DEF WaitReap, FreeProc
    <3>2. ASSUME NEW n \in Slots, Fork(p, n) \/ ForkNoCopy(p, n) PROVE Gone
      BY <3>2 DEF Fork, ForkNoCopy, Free, FreeProc
    <3>3. CASE Dispatch(p) \/ ExitWakeInit(p) \/ ExitZombie(p) \/ WaitEnd(p)
      BY <3>3 DEF Dispatch, ExitWakeInit, ExitZombie, WaitEnd, Wakeup1
    <3>4. ASSUME NEW k \in KillPids, Kill(p, k) PROVE Gone BY <3>4 DEF Kill
    <3>5. CASE state' = state BY <3>5
    <3>6. QED
      BY <3>0, <3>1, <3>2, <3>3, <3>4, <3>5, Zenon
      DEF Step, Exit, ExitParent, ExitLockParent, ExitLockSelf, Reparent, ExitSched,
          WaitStart, WaitSkip, WaitBadAddr, ForkNoPage, pvars
  <2>3. QED BY <2>1, <2>2, Zenon
<1>2. QED BY <1>1, ProcCorrect, PTL DEF Spec, ReapsOnlyDead
================================================================================
