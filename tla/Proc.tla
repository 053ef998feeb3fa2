---------------------------------- MODULE Proc ----------------------------------
(***************************************************************************)
(* The life of a process in kernel/proc/proc.c: fork(), exit() with        *)
(* reparent(), wait(), kill() and the reuse of process-table slots, one    *)
(* p->lock operation at a time.  Critical sections that take one lock and  *)
(* release it again are one step; locks held across other acquisitions     *)
(* (a parent's in exit(), the caller's in wait()) are modelled as held.    *)
(***************************************************************************)
EXTENDS Integers, FiniteSets

CONSTANTS
  NPROC,      \* slots of the process table; slot 1 is initproc
  KillPids,   \* arguments of kill()
  MayFail,    \* TRUE: ufkalloc(), uvmcopy() and copyout() may fail
  MaxPid      \* bound: pids handed out

Slots == 1 .. NPROC
Init1 == 1          \* initproc
None == 0           \* no process, no holder

VARIABLES
  state, parent, pid, killed, \* struct proc
  chan,       \* p->chan == p: sleeping in wait()
  plock,      \* holder of p->lock
  pc, at, kids, orig,   \* control point, loop index, havekids, original_parent
  nextpid,
  killcalls   \* history: arguments kill() was called with

pvars == <<state, parent, pid, killed, chan>>
vars == <<pvars, plock, pc, at, kids, orig, nextpid, killcalls>>

Init ==
  /\ state = [s \in Slots |-> IF s = Init1 THEN "runnable" ELSE "unused"]
  /\ parent = [s \in Slots |-> None]
  /\ pid = [s \in Slots |-> IF s = Init1 THEN 1 ELSE 0]
  /\ killed = [s \in Slots |-> FALSE]
  /\ chan = [s \in Slots |-> FALSE]
  /\ plock = [s \in Slots |-> None]
  /\ pc = [s \in Slots |-> IF s = Init1 THEN "user" ELSE "none"]
  /\ at = [s \in Slots |-> 1]
  /\ kids = [s \in Slots |-> FALSE]
  /\ orig = [s \in Slots |-> None]
  /\ nextpid = 2 /\ killcalls = {}

Goto(p, l) == pc' = [pc EXCEPT ![p] = l]
Runs(p) == state[p] = "running"

\* The scheduler takes p->lock; a process that slept in wait() keeps it.
Dispatch(p) ==
  /\ state[p] = "runnable" /\ plock[p] = None
  /\ state' = [state EXCEPT ![p] = "running"]
  /\ IF pc[p] = "wait_sleep"
     THEN /\ plock' = [plock EXCEPT ![p] = p]
          /\ chan' = [chan EXCEPT ![p] = FALSE]
          /\ at' = [at EXCEPT ![p] = 1]
          /\ kids' = [kids EXCEPT ![p] = FALSE]
          /\ Goto(p, "wait_scan")
     ELSE UNCHANGED <<plock, chan, at, kids, pc>>
  /\ UNCHANGED <<parent, pid, killed, orig, nextpid, killcalls>>

--------------------------------------------------------------------------------
(* fork() *)

\* The slot allocproc() finds.
Free(n) == state[n] = "unused" /\ plock[n] = None /\ \A m \in Slots : m < n => state[m] # "unused"

Fork(p, n) ==
  /\ Runs(p) /\ pc[p] = "user" /\ ~killed[p] /\ Free(n) /\ nextpid <= MaxPid
  /\ pid' = [pid EXCEPT ![n] = nextpid]
  /\ nextpid' = nextpid + 1
  /\ parent' = [parent EXCEPT ![n] = p]
  /\ state' = [state EXCEPT ![n] = "runnable"]
  /\ Goto(n, "user")
  /\ UNCHANGED <<killed, chan, plock, at, kids, orig, killcalls>>

\* No trapframe page: allocproc() returns 0 and leaves the new pid in the slot.
ForkNoPage(p, n) ==
  /\ MayFail
  /\ Runs(p) /\ pc[p] = "user" /\ ~killed[p] /\ Free(n) /\ nextpid <= MaxPid
  /\ pid' = [pid EXCEPT ![n] = nextpid]
  /\ nextpid' = nextpid + 1
  /\ UNCHANGED <<parent, state, killed, chan, plock, pc, at, kids, orig, killcalls>>

\* freeproc()
FreeProc(n) ==
  /\ state' = [state EXCEPT ![n] = "unused"]
  /\ parent' = [parent EXCEPT ![n] = None]
  /\ pid' = [pid EXCEPT ![n] = 0]
  /\ killed' = [killed EXCEPT ![n] = FALSE]
  /\ chan' = [chan EXCEPT ![n] = FALSE]

\* uvmcopy() fails: the slot is freed again.
ForkNoCopy(p, n) ==
  /\ MayFail
  /\ Runs(p) /\ pc[p] = "user" /\ ~killed[p] /\ Free(n) /\ nextpid <= MaxPid
  /\ FreeProc(n)
  /\ nextpid' = nextpid + 1
  /\ UNCHANGED <<plock, pc, at, kids, orig, killcalls>>

--------------------------------------------------------------------------------
(* exit() *)

\* wakeup1(q), with q->lock held by the caller.
Wakeup1(f, q) == [f EXCEPT ![q] = IF @ = "sleeping" /\ chan[q] THEN "runnable" ELSE @]

\* exit() called, or forced on return to user space when killed; files closed.
Exit(p) ==
  /\ Runs(p) /\ pc[p] = "user" /\ p # Init1
  /\ Goto(p, "exit_init")
  /\ UNCHANGED <<pvars, plock, at, kids, orig, nextpid, killcalls>>

ExitWakeInit(p) ==
  /\ Runs(p) /\ pc[p] = "exit_init" /\ plock[Init1] = None
  /\ state' = Wakeup1(state, Init1)
  /\ Goto(p, "exit_parent")
  /\ UNCHANGED <<parent, pid, killed, chan, plock, at, kids, orig, nextpid, killcalls>>

ExitParent(p) ==
  /\ Runs(p) /\ pc[p] = "exit_parent" /\ plock[p] = None
  /\ orig' = [orig EXCEPT ![p] = parent[p]]
  /\ Goto(p, "exit_lock_parent")
  /\ UNCHANGED <<pvars, plock, at, kids, nextpid, killcalls>>

\* Faulty variant: exit() locks itself before its parent.
ExitLockSelfFirst(p) ==
  /\ Runs(p) /\ pc[p] = "exit_lock_parent"
  /\ \/ plock[p] = None /\ plock' = [plock EXCEPT ![p] = p] /\ UNCHANGED <<pc, at>>
     \/ /\ plock[p] = p /\ plock[orig[p]] = None
        /\ plock' = [plock EXCEPT ![orig[p]] = p]
        /\ at' = [at EXCEPT ![p] = 1]
        /\ Goto(p, "reparent")
  /\ UNCHANGED <<pvars, kids, orig, nextpid, killcalls>>

\* orig[p] is p's parent of a moment ago: it may be a zombie by now, a free slot,
\* or a process that was born since.
ExitLockParent(p) ==
  /\ Runs(p) /\ pc[p] = "exit_lock_parent" /\ plock[orig[p]] = None
  /\ plock' = [plock EXCEPT ![orig[p]] = p]
  /\ Goto(p, "exit_lock_self")
  /\ UNCHANGED <<pvars, at, kids, orig, nextpid, killcalls>>

ExitLockSelf(p) ==
  /\ Runs(p) /\ pc[p] = "exit_lock_self" /\ plock[p] = None
  /\ plock' = [plock EXCEPT ![p] = p]
  /\ at' = [at EXCEPT ![p] = 1]
  /\ Goto(p, "reparent")
  /\ UNCHANGED <<pvars, kids, orig, nextpid, killcalls>>

\* Faulty variant: zombie children are left.
ReparentLiving(p) ==
  /\ Runs(p) /\ pc[p] = "reparent" /\ at[p] <= NPROC
  /\ parent[at[p]] = p => plock[at[p]] = None
  /\ parent' = [parent EXCEPT ![at[p]] = IF @ = p /\ state[at[p]] # "zombie" THEN Init1 ELSE @]
  /\ at' = [at EXCEPT ![p] = @ + 1]
  /\ UNCHANGED <<state, pid, killed, chan, plock, pc, kids, orig, nextpid, killcalls>>

\* One round of reparent(): a child's lock is taken only to give it to init.
Reparent(p) ==
  /\ Runs(p) /\ pc[p] = "reparent" /\ at[p] <= NPROC
  /\ parent[at[p]] = p => plock[at[p]] = None
  /\ parent' = [parent EXCEPT ![at[p]] = IF @ = p THEN Init1 ELSE @]
  /\ at' = [at EXCEPT ![p] = @ + 1]
  /\ UNCHANGED <<state, pid, killed, chan, plock, pc, kids, orig, nextpid, killcalls>>

\* Faulty variants: no wakeup for the parent; p->lock released with the parent's.
ExitZombieNoWakeup(p) ==
  /\ Runs(p) /\ pc[p] = "reparent" /\ at[p] > NPROC
  /\ state' = [state EXCEPT ![p] = "zombie"]
  /\ plock' = [plock EXCEPT ![orig[p]] = None]
  /\ Goto(p, "exit_sched")
  /\ UNCHANGED <<parent, pid, killed, chan, at, kids, orig, nextpid, killcalls>>

ExitZombieUnlocked(p) ==
  /\ Runs(p) /\ pc[p] = "reparent" /\ at[p] > NPROC
  /\ state' = [Wakeup1(state, orig[p]) EXCEPT ![p] = "zombie"]
  /\ plock' = [plock EXCEPT ![orig[p]] = None, ![p] = None]
  /\ Goto(p, "exit_sched")
  /\ UNCHANGED <<parent, pid, killed, chan, at, kids, orig, nextpid, killcalls>>

\* Wake the parent, become a zombie, unlock the parent; p->lock stays held ...
ExitZombie(p) ==
  /\ Runs(p) /\ pc[p] = "reparent" /\ at[p] > NPROC
  /\ state' = [Wakeup1(state, orig[p]) EXCEPT ![p] = "zombie"]
  /\ plock' = [plock EXCEPT ![orig[p]] = None]
  /\ Goto(p, "exit_sched")
  /\ UNCHANGED <<parent, pid, killed, chan, at, kids, orig, nextpid, killcalls>>

\* ... until the scheduler, off p's kernel stack, releases it.
ExitSched(p) ==
  /\ pc[p] = "exit_sched"
  /\ plock' = [plock EXCEPT ![p] = None]
  /\ orig' = [orig EXCEPT ![p] = None]
  /\ Goto(p, "dead")
  /\ UNCHANGED <<pvars, at, kids, nextpid, killcalls>>

--------------------------------------------------------------------------------
(* wait() *)

WaitStart(p) ==
  /\ Runs(p) /\ pc[p] = "user" /\ ~killed[p] /\ plock[p] = None
  /\ plock' = [plock EXCEPT ![p] = p]
  /\ at' = [at EXCEPT ![p] = 1]
  /\ kids' = [kids EXCEPT ![p] = FALSE]
  /\ Goto(p, "wait_scan")
  /\ UNCHANGED <<pvars, orig, nextpid, killcalls>>

WaitSkip(p) ==
  /\ Runs(p) /\ pc[p] = "wait_scan" /\ at[p] <= NPROC
  /\ parent[at[p]] = p => plock[at[p]] = None /\ state[at[p]] # "zombie"
  /\ kids' = [kids EXCEPT ![p] = @ \/ parent[at[p]] = p]
  /\ at' = [at EXCEPT ![p] = @ + 1]
  /\ UNCHANGED <<pvars, plock, pc, orig, nextpid, killcalls>>

WaitReap(p) ==
  /\ Runs(p) /\ pc[p] = "wait_scan" /\ at[p] <= NPROC
  /\ LET n == at[p] IN
     /\ parent[n] = p /\ plock[n] = None /\ state[n] = "zombie"
     /\ FreeProc(n)
     /\ pc' = [pc EXCEPT ![n] = "none", ![p] = "user"]
  /\ plock' = [plock EXCEPT ![p] = None]
  /\ UNCHANGED <<at, kids, orig, nextpid, killcalls>>

\* copyout() of the exit status fails: the zombie stays.
WaitBadAddr(p) ==
  /\ MayFail /\ p # Init1
  /\ Runs(p) /\ pc[p] = "wait_scan" /\ at[p] <= NPROC
  /\ parent[at[p]] = p /\ plock[at[p]] = None /\ state[at[p]] = "zombie"
  /\ plock' = [plock EXCEPT ![p] = None]
  /\ Goto(p, "user")
  /\ UNCHANGED <<pvars, at, kids, orig, nextpid, killcalls>>

\* The table is scanned: give up, or sleep (the scheduler releases p->lock).
WaitEnd(p) ==
  /\ Runs(p) /\ pc[p] = "wait_scan" /\ at[p] > NPROC
  /\ plock' = [plock EXCEPT ![p] = None]
  /\ IF ~kids[p] \/ killed[p]
     THEN Goto(p, "user") /\ UNCHANGED <<state, chan>>
     ELSE /\ Goto(p, "wait_sleep")
          /\ state' = [state EXCEPT ![p] = "sleeping"]
          /\ chan' = [chan EXCEPT ![p] = TRUE]
  /\ UNCHANGED <<parent, pid, killed, at, kids, orig, nextpid, killcalls>>

--------------------------------------------------------------------------------
(* kill() *)

\* The first slot with that pid, whatever its state.
Kill(p, k) ==
  /\ Runs(p) /\ pc[p] = "user" /\ ~killed[p]
  /\ \E n \in Slots :
       /\ pid[n] = k /\ plock[n] = None /\ \A m \in Slots : m < n => pid[m] # k
       /\ killed' = [killed EXCEPT ![n] = TRUE]
       /\ state' = [state EXCEPT ![n] = IF @ = "sleeping" THEN "runnable" ELSE @]
  /\ killcalls' = killcalls \cup {k}
  /\ UNCHANGED <<parent, pid, chan, plock, pc, at, kids, orig, nextpid>>

Exiting(p) == ExitWakeInit(p) \/ ExitParent(p) \/ ExitLockParent(p) \/ ExitLockSelf(p)
              \/ Reparent(p) \/ ExitZombie(p) \/ ExitSched(p)
WaitScan(p) == WaitSkip(p) \/ WaitReap(p) \/ WaitBadAddr(p) \/ WaitEnd(p)

Next == \E p \in Slots :
  \/ Dispatch(p) \/ Exit(p) \/ Exiting(p) \/ WaitStart(p) \/ WaitScan(p)
  \/ \E n \in Slots : Fork(p, n) \/ ForkNoPage(p, n) \/ ForkNoCopy(p, n)
  \/ \E k \in KillPids : Kill(p, k)

Spec == Init /\ [][Next]_vars

--------------------------------------------------------------------------------
(* Properties *)

Used == {s \in Slots : state[s] # "unused"}

TypeOK ==
  /\ state \in [Slots -> {"unused", "runnable", "running", "sleeping", "zombie"}]
  /\ parent \in [Slots -> Slots \cup {None}]
  /\ pid \in [Slots -> 0 .. MaxPid]
  /\ killed \in [Slots -> BOOLEAN] /\ chan \in [Slots -> BOOLEAN]
  /\ plock \in [Slots -> Slots \cup {None}]
  /\ pc \in [Slots -> {"none", "user", "exit_init", "exit_parent", "exit_lock_parent",
                       "exit_lock_self", "reparent", "exit_sched", "dead",
                       "wait_scan", "wait_sleep"}]
  /\ at \in [Slots -> 1 .. (NPROC + 1)]
  /\ orig \in [Slots -> Slots \cup {None}]
  /\ kids \in [Slots -> BOOLEAN]

\* Every process has a parent that can still call wait(): an exiting process
\* gives all its children to init before it becomes a zombie, and no fork()
\* slips a child in behind reparent()'s scan.
HasLiveParent ==
  \A s \in Used \ {Init1} :
    /\ parent[s] # None
    /\ state[parent[s]] \notin {"unused", "zombie"}

\* proc.c:302-303 and 402-403, "np->parent can't change between the check and the
\* acquire()": while p scans for its children, an entry it sees as its child
\* stays its child (its own reparent() and freeproc() excepted).
OnlyParentChangesParent ==
  [][\A s, p \in Slots :
       parent[s] = p /\ parent'[s] # p =>
         /\ state[p] = "running" /\ pc[p] \in {"reparent", "wait_scan"} /\ at[p] = s]_vars

\* freeproc() never frees the page table and trapframe of a process that is
\* still on its way out of exit(): p->lock covers the switch to the scheduler.
ReapsOnlyDead ==
  [][\A s \in Slots : state[s] = "zombie" /\ state'[s] = "unused" => pc[s] = "dead"]_vars

\* "hold p->lock for the whole time to avoid lost wakeups from a child's exit()":
\* a process is never asleep in wait() with a zombie child of its own.  (Not so
\* init: a child it inherits while that child is in exit() wakes the old parent.)
NoMissedChild ==
  \A p \in Slots \ {Init1}, s \in Slots :
    parent[s] = p /\ state[s] = "zombie" => ~(state[p] = "sleeping" /\ chan[p])

\* The lock a process is about to acquire while it may hold others.
Wanted(p) ==
  IF ~Runs(p) THEN None
  ELSE CASE pc[p] = "exit_init" -> Init1
         [] pc[p] = "exit_parent" -> p
         [] pc[p] = "exit_lock_parent" -> orig[p]
         [] pc[p] = "exit_lock_self" -> p
         [] pc[p] \in {"reparent", "wait_scan"} /\ at[p] <= NPROC /\ parent[at[p]] = p -> at[p]
         [] OTHER -> None

WaitsFor(p, q) == Wanted(p) # None /\ plock[Wanted(p)] = q

\* proc.c:349-360: exit() locks the parent it has copied, which "may then race
\* with an exiting parent, but the result will be a harmless spurious wakeup", and
\* the "parent-then-child rule" orders the locks: processes spinning for p->locks
\* never wait for each other in a circle.
NoLockCycle ==
  \A S \in (SUBSET Slots) \ {{}} : \E p \in S : \A q \in S : ~WaitsFor(p, q)

\* What the parent-then-child rule of exit() and wait() does ensure: the locks are
\* ordered by age, and a circle of spinning processes needs an exit() that holds
\* the lock of its copied parent's slot after a younger process was born there.
LocksOrderedByAge ==
  (\A p \in Slots : pc[p] \in {"exit_lock_self", "reparent"} => pid[orig[p]] < pid[p])
    => NoLockCycle



\* proc.c:593, kill() kills "the process with the given pid": nobody else.
KillsOnlyItsTarget ==
  \A s \in Used : killed[s] => pid[s] \in killcalls
================================================================================
