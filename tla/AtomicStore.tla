------------------------------ MODULE AtomicStore ------------------------------
(***************************************************************************)
(* What the file-system log promises its callers, with no log in sight: a  *)
(* store of disk blocks that system calls change in place, and a stable    *)
(* copy of it that a power failure falls back to.  System calls run inside *)
(* begin_op()/end_op() brackets; the stable copy only ever moves to a store *)
(* that no open bracket has touched half-way.                               *)
(***************************************************************************)
CONSTANTS Procs,    \* processes that run file-system calls
          Blocks,   \* home blocks (inodes, bitmap, data)
          Vals      \* abstract block contents

VARIABLES store,    \* contents the running system sees
          stable,   \* contents a crash would leave behind, after recovery
          active    \* processes between begin_op() and end_op()

vars == <<store, stable, active>>

Init ==
  /\ stable \in [Blocks -> Vals]
  /\ store = stable
  /\ active = {}

Begin(p) ==
  /\ p \notin active
  /\ active' = active \cup {p}
  /\ UNCHANGED <<store, stable>>

Write(p, b, v) ==
  /\ p \in active
  /\ store' = [store EXCEPT ![b] = v]
  /\ UNCHANGED <<stable, active>>

End(p) ==
  /\ p \in active
  /\ active' = active \ {p}
  /\ UNCHANGED <<store, stable>>

\* Group commit: every finished call since the last commit, all at once.
Commit ==
  /\ active = {}
  /\ stable' = store
  /\ UNCHANGED <<store, active>>

Crash ==
  /\ store' = stable
  /\ active' = {}
  /\ UNCHANGED stable

Next ==
  \/ \E p \in Procs : Begin(p) \/ End(p)
  \/ \E p \in Procs, b \in Blocks, v \in Vals : Write(p, b, v)
  \/ Commit
  \/ Crash

Spec == Init /\ [][Next]_vars
================================================================================
