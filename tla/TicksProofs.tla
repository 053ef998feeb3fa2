------------------------------- MODULE TicksProofs -------------------------------
(***************************************************************************)
(* Proofs about sys_sleep(), for any number of processes and any width of  *)
(* the tick counter.  The comparison ticks - ticks0 < n is done modulo     *)
(* Width; the invariant ties it to the ticks that really went by.          *)
(***************************************************************************)
EXTENDS Ticks, TLAPS

\* An unsigned number has its bit pattern below Width, and a process that is
\* awake runs before the difference of the tick counters wraps.
TicksAssumption ==
  /\ Width \in Nat \ {0} /\ MaxLate \in Nat /\ Times \subseteq Int
  /\ \A k \in Times : (k % Width) + MaxLate < Width

TicksType ==
  /\ ticks \in 0 .. Width - 1
  /\ st \in [Sleepers -> {"idle", "test", "sleep", "slept", "failed"}]
  /\ ticks0 \in [Sleepers -> 0 .. Width - 1]
  /\ n \in [Sleepers -> Times \cup {0}]
  /\ killed \in [Sleepers -> BOOLEAN]
  /\ elapsed \in [Sleepers -> Nat]

\* While a process is in the loop of sys_sleep(), ticks - ticks0 is the time
\* that went by, and that time is too short for the difference to wrap.
InTime ==
  \A p \in Sleepers :
    /\ st[p] \in {"test", "sleep"} =>
         /\ n[p] \in Times
         /\ elapsed[p] < Width /\ (ticks - ticks0[p]) % Width = elapsed[p]
    /\ st[p] = "sleep" => elapsed[p] < Asked(p)
    /\ st[p] = "slept" => elapsed[p] >= Asked(p)

TicksInv == TicksType /\ InTime

--------------------------------------------------------------------------------

\* The difference of two tick counters, as the code computes it.
LEMMA Difference ==
  ASSUME NEW W \in Nat \ {0}, NEW t \in 0 .. W - 1, NEW t0 \in 0 .. W - 1
  PROVE  (t - t0) % W = IF t >= t0 THEN t - t0 ELSE t - t0 + W
  OBVIOUS

\* clockintr() adds one to every difference, until it wraps.
LEMMA NextTick ==
  ASSUME NEW W \in Nat \ {0}, NEW t \in 0 .. W - 1, NEW t0 \in 0 .. W - 1,
         NEW d \in Nat, (t - t0) % W = d, d + 1 < W
  PROVE  (((t + 1) % W) - t0) % W = d + 1
<1>1. CASE t + 1 = W
  <2>1. (t + 1) % W = 0
    BY <1>1
  <2>2. (t - t0) % W = t - t0 /\ (0 - t0) % W = t + 1 - t0
    BY <1>1
  <2> QED
    BY <2>1, <2>2
<1>2. CASE t + 1 < W
  <2>1. (t + 1) % W = t + 1
    BY <1>2
  <2>2. (t - t0) % W = IF t >= t0 THEN t - t0 ELSE t - t0 + W
    BY Difference
  <2>3. (t + 1 - t0) % W = IF t + 1 >= t0 THEN t + 1 - t0 ELSE t + 1 - t0 + W
    BY <1>2, Difference
  <2> QED
    BY <1>2, <2>1, <2>2, <2>3
<1> QED
  BY <1>1, <1>2

\* Init is a state of TicksInv: no process is in sys_sleep() yet.
LEMMA TicksInit == ASSUME TicksAssumption PROVE Init => TicksInv
  BY DEF TicksAssumption, Init, TicksInv, TicksType, InTime

\* Every step keeps TicksInv: one case for each action.
LEMMA TicksStep == ASSUME TicksAssumption PROVE TicksInv /\ [Next]_vars => TicksInv'
<1> SUFFICES ASSUME TicksInv, [Next]_vars PROVE TicksInv'
  OBVIOUS
<1>w. /\ Width \in Nat \ {0} /\ MaxLate \in Nat /\ Times \subseteq Int
      /\ \A k \in Times : (k % Width) + MaxLate < Width
  BY DEF TicksAssumption
<1>t. TicksType /\ InTime
  BY DEF TicksInv
<1>a. \A p \in Sleepers : n[p] \in Times => Asked(p) \in Nat /\ Asked(p) + MaxLate < Width
  <2>1. \A k \in Times : k \in Int /\ k % Width \in Nat
    BY <1>w
  <2> QED
    BY <1>w, <2>1 DEF Asked
<1>1. CASE ClockIntr
  <2>0. ticks' = (ticks + 1) % Width /\ ticks + 1 \in Int
    BY <1>1, <1>w, <1>t DEF ClockIntr, TicksType
  <2>1. ticks' = (ticks + 1) % Width /\ ticks' \in 0 .. Width - 1
    BY <2>0, <1>w
  <2>2. TicksType'
    BY <1>1, <1>t, <2>1 DEF ClockIntr, Woken, TicksType
  <2>3. \A p \in Sleepers : Asked(p)' = Asked(p)
    BY <1>1 DEF ClockIntr, Asked
  <2>4. ASSUME NEW p \in Sleepers, st'[p] \in {"test", "sleep"}
        PROVE  /\ st'[p] = "test" /\ n[p] \in Times
               /\ elapsed'[p] < Width /\ (ticks' - ticks0[p]) % Width = elapsed'[p]
    <3>1. st[p] \in {"test", "sleep"} /\ st'[p] = "test" /\ elapsed'[p] = elapsed[p] + 1
      BY <1>1, <1>t, <2>4 DEF ClockIntr, Woken, TicksType
    <3>2. n[p] \in Times /\ (ticks - ticks0[p]) % Width = elapsed[p]
      BY <1>t, <3>1 DEF InTime
    <3>3. IF st[p] = "test" THEN elapsed[p] < Asked(p) + MaxLate ELSE elapsed[p] < Asked(p)
      BY <1>1, <1>t, <3>1 DEF ClockIntr, InTime
    <3>4. elapsed[p] \in Nat /\ elapsed[p] + 1 < Width
      BY <1>w, <1>t, <1>a, <3>2, <3>3 DEF TicksType
    <3>5. ticks \in 0 .. Width - 1 /\ ticks0[p] \in 0 .. Width - 1
      BY <1>t DEF TicksType
    <3>6. (((ticks + 1) % Width) - ticks0[p]) % Width = elapsed[p] + 1
      BY <1>w, <3>2, <3>4, <3>5, NextTick
    <3> QED
      BY <2>1, <3>1, <3>2, <3>4, <3>6
  <2>5. ASSUME NEW p \in Sleepers, st'[p] = "slept"
        PROVE  elapsed'[p] >= Asked(p)
    BY <1>1, <1>t, <2>5 DEF ClockIntr, Woken, InTime, TicksType
  <2>6. ticks0' = ticks0 /\ n' = n
    BY <1>1 DEF ClockIntr
  <2>7. InTime'
    BY <2>3, <2>4, <2>5, <2>6 DEF InTime
  <2> QED
    BY <2>2, <2>7 DEF TicksInv
<1>2. ASSUME NEW p \in Sleepers, NEW k \in Times, Call(p, k)
      PROVE  TicksInv'
  <2>1. TicksType'
    BY <1>2, <1>t DEF Call, TicksType
  <2>2. \A q \in Sleepers \ {p} : /\ Asked(q)' = Asked(q) /\ st'[q] = st[q] /\ n'[q] = n[q]
                                  /\ ticks0'[q] = ticks0[q] /\ elapsed'[q] = elapsed[q]
    BY <1>2, <1>t DEF Call, TicksType, Asked
  <2>3. /\ st'[p] = "test" /\ n'[p] = k /\ elapsed'[p] = 0 /\ ticks' = ticks /\ ticks0'[p] = ticks
        /\ (ticks - ticks) % Width = 0
    BY <1>2, <1>w, <1>t DEF Call, TicksType
  <2>4. InTime'
    BY <1>t, <1>w, <2>2, <2>3 DEF InTime
  <2> QED
    BY <2>1, <2>4 DEF TicksInv
<1>3. ASSUME NEW p \in Sleepers, Test(p)
      PROVE  TicksInv'
  <2>1. TicksType'
    BY <1>3, <1>t DEF Test, TicksType
  <2>2. /\ st[p] = "test" /\ n[p] \in Times /\ elapsed[p] \in Nat
        /\ (ticks - ticks0[p]) % Width = elapsed[p]
    BY <1>3, <1>t DEF Test, InTime, TicksType
  <2>3. /\ st'[p] = "sleep" => elapsed[p] < Asked(p)
        /\ st'[p] = "slept" => elapsed[p] >= Asked(p)
    BY <1>3, <1>t, <1>a, <2>2 DEF Test, NotYet, TicksType
  <2>4. /\ \A q \in Sleepers : Asked(q)' = Asked(q)
        /\ \A q \in Sleepers \ {p} : st'[q] = st[q]
        /\ UNCHANGED <<ticks, ticks0, n, elapsed>>
    BY <1>3, <1>t DEF Test, TicksType, Asked
  <2>5. InTime'
    BY <1>t, <2>2, <2>3, <2>4 DEF InTime
  <2> QED
    BY <2>1, <2>5 DEF TicksInv
<1>4. ASSUME NEW p \in Sleepers, Return(p)
      PROVE  TicksInv'
  <2>1. TicksType'
    BY <1>4, <1>w, <1>t DEF Return, TicksType
  <2>2. \A q \in Sleepers \ {p} : /\ Asked(q)' = Asked(q) /\ st'[q] = st[q] /\ n'[q] = n[q]
                                  /\ ticks0'[q] = ticks0[q] /\ elapsed'[q] = elapsed[q]
    BY <1>4, <1>t DEF Return, TicksType, Asked
  <2>3. st'[p] = "idle" /\ ticks' = ticks
    BY <1>4, <1>t DEF Return, TicksType
  <2>4. InTime'
    BY <1>t, <2>2, <2>3 DEF InTime
  <2> QED
    BY <2>1, <2>4 DEF TicksInv
<1>5. ASSUME NEW p \in Sleepers, Kill(p)
      PROVE  TicksInv'
  <2>1. TicksType'
    BY <1>5, <1>t DEF Kill, TicksType
  <2>2. /\ \A q \in Sleepers : Asked(q)' = Asked(q)
        /\ \A q \in Sleepers : st'[q] = st[q] \/ (st[q] = "sleep" /\ st'[q] = "test")
        /\ UNCHANGED <<ticks, ticks0, n, elapsed>>
    BY <1>5, <1>t DEF Kill, TicksType, Asked
  <2>3. InTime'
    BY <1>t, <2>2 DEF InTime
  <2> QED
    BY <2>1, <2>3 DEF TicksInv
<1>6. CASE UNCHANGED vars
  BY <1>6, <1>t DEF vars, TicksInv, TicksType, InTime, Asked
<1> QED
  BY <1>1, <1>2, <1>3, <1>4, <1>5, <1>6 DEF Next

\* sys_sleep(n) that returns 0 has waited for n ticks, also when the counter
\* wrapped while it slept.
THEOREM SleepsLongEnough == ASSUME TicksAssumption PROVE Spec => []NotTooEarly
<1>1. TicksInv => NotTooEarly
  BY DEF TicksInv, InTime, NotTooEarly
<1> QED
  BY <1>1, TicksInit, TicksStep, PTL DEF Spec

\* No process is left asleep once its time is over.
THEOREM WokenInTime == ASSUME TicksAssumption PROVE Spec => []NotTooLate
<1>1. TicksInv => NotTooLate
  BY DEF TicksInv, InTime, NotTooLate
<1> QED
  BY <1>1, TicksInit, TicksStep, PTL DEF Spec
================================================================================
