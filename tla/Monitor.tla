-------------------------------- MODULE Monitor --------------------------------
(***************************************************************************)
(* What sleep(chan, lk) and wakeup(chan) promise code that uses them with  *)
(* the lock lk held: to release the lock and to start waiting are one      *)
(* step, and a wakeup reaches everyone who is waiting.  A process may also *)
(* wake up for no reason (kill()), so it must test its condition again.    *)
(***************************************************************************)
EXTENDS Integers

CONSTANT Waiters

VARIABLES
  avail,      \* the condition: units to take
  waiting,    \* processes asleep
  done        \* processes that got their unit

vars == <<avail, waiting, done>>

Init == avail = 0 /\ waiting = {} /\ done = {}

Wait(p) == /\ p \notin waiting \cup done /\ avail = 0
           /\ waiting' = waiting \cup {p}
           /\ UNCHANGED <<avail, done>>

Take(p) == /\ p \notin waiting \cup done /\ avail > 0
           /\ avail' = avail - 1
           /\ done' = done \cup {p}
           /\ UNCHANGED waiting

Wake(p) == /\ p \in waiting
           /\ waiting' = waiting \ {p}
           /\ UNCHANGED <<avail, done>>

Signal == /\ avail' = avail + 1
          /\ waiting' = {}
          /\ UNCHANGED done

Next == Signal \/ \E p \in Waiters : Wait(p) \/ Take(p) \/ Wake(p)

Spec == Init /\ [][Next]_vars
================================================================================
