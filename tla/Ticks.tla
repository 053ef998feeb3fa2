---------------------------------- MODULE Ticks ----------------------------------
(***************************************************************************)
(* The clock (clockintr() in trap.c) and sys_sleep(): tickslock is held    *)
(* from the test to sleep(), so each is one step.                          *)
(***************************************************************************)
EXTENDS Integers

CONSTANTS
  Sleepers,
  Width,     \* ticks wraps at Width (2^32 in the code)
  Times,     \* arguments of sleep(); negative ones as well
  MaxLate    \* bound: ticks for which a process that is awake may not get a CPU.  The properties need
             \* n + MaxLate < Width: a process that is later sees ticks - ticks0 wrap, and sleeps on.

VARIABLES
  ticks,
  st, ticks0, n,   \* each process in sys_sleep()
  killed,
  elapsed          \* ticks since it called, uncut
vars == <<ticks, st, ticks0, n, killed, elapsed>>

Init ==
  /\ ticks \in 0 .. Width - 1
  /\ st = [p \in Sleepers |-> "idle"] /\ ticks0 = [p \in Sleepers |-> 0] /\ n = [p \in Sleepers |-> 0]
  /\ killed = [p \in Sleepers |-> FALSE] /\ elapsed = [p \in Sleepers |-> 0]

\* n is compared as an unsigned number.
Asked(p) == n[p] % Width

\* Faulty variant: the sum wraps.
NotYetSum(p) == ticks < (ticks0[p] + Asked(p)) % Width
\* ticks - ticks0 < n
NotYet(p) == (ticks - ticks0[p]) % Width < Asked(p)

Call(p, k) ==
  /\ st[p] = "idle" /\ ~killed[p]
  /\ st' = [st EXCEPT ![p] = "test"] /\ n' = [n EXCEPT ![p] = k]
  /\ ticks0' = [ticks0 EXCEPT ![p] = ticks] /\ elapsed' = [elapsed EXCEPT ![p] = 0]
  /\ UNCHANGED <<ticks, killed>>

Test(p) ==
  /\ st[p] = "test"
  /\ st' = [st EXCEPT ![p] = IF ~NotYet(p) THEN "slept" ELSE IF killed[p] THEN "failed" ELSE "sleep"]
  /\ UNCHANGED <<ticks, ticks0, n, killed, elapsed>>

Return(p) ==
  /\ st[p] \in {"slept", "failed"}
  /\ st' = [st EXCEPT ![p] = "idle"] /\ n' = [n EXCEPT ![p] = 0]
  /\ ticks0' = [ticks0 EXCEPT ![p] = 0] /\ elapsed' = [elapsed EXCEPT ![p] = 0]
  /\ UNCHANGED <<ticks, killed>>

\* wakeup(&ticks)
Woken == [p \in Sleepers |-> IF st[p] = "sleep" THEN "test" ELSE st[p]]

ClockIntr ==
  /\ \A p \in Sleepers : st[p] = "test" => elapsed[p] < Asked(p) + MaxLate
  /\ ticks' = (ticks + 1) % Width
  /\ elapsed' = [p \in Sleepers |-> IF st[p] \in {"test", "sleep"} THEN elapsed[p] + 1 ELSE elapsed[p]]
  /\ st' = Woken
  /\ UNCHANGED <<ticks0, n, killed>>

Kill(p) ==
  /\ ~killed[p] /\ killed' = [killed EXCEPT ![p] = TRUE]
  /\ st' = [st EXCEPT ![p] = IF @ = "sleep" THEN "test" ELSE @]
  /\ UNCHANGED <<ticks, ticks0, n, elapsed>>

Next ==
  \/ ClockIntr
  \/ \E p \in Sleepers : (\E k \in Times : Call(p, k)) \/ Test(p) \/ Return(p) \/ Kill(p)

Spec == Init /\ [][Next]_vars

--------------------------------------------------------------------------------
(* Properties *)

\* sys_sleep(n) that returns 0 has waited for n ticks, whatever ticks was at the start.
NotTooEarly == \A p \in Sleepers : st[p] = "slept" => elapsed[p] >= Asked(p)

\* ... and no process is left asleep when its time is over: the tick that ends it wakes it.
NotTooLate == \A p \in Sleepers : st[p] = "sleep" => elapsed[p] < Asked(p)

\* A process in sys_sleep(n) waits for n ticks, no fewer, and is woken by the tick that ends them.
SleepsAsAsked == NotTooEarly /\ NotTooLate
================================================================================
