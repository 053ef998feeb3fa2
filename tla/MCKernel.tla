-------------------------------- MODULE MCKernel --------------------------------
(***************************************************************************)
(* The log with power failures, and the memory allocators.  A state        *)
(* belongs to the part chosen at the start, the variables of the other     *)
(* stay as they are.                                                       *)
(***************************************************************************)
EXTENDS Log, TLC
CONSTANTS a1, a2
VARIABLES part, bd, ufk, pages, small, held, apc, loc, apanicked, hist

A == INSTANCE Alloc WITH Procs <- {a1, a2}, BdSizes <- 3, UfkSizes <- 3, NBIGPGS <- 1, MAX_PAGES <- 6,
  Small <- {1, 3}, Large <- {4, 9}, MaxHeld <- 3, pc <- apc, panicked <- apanicked

allocvars == <<bd, ufk, pages, small, held, apc, loc, apanicked, hist>>
allvars == <<part, vars, allocvars>>
MCInit == part \in {"log", "alloc"} /\ Init /\ A!Init
LogNext == part = "log" /\ Next /\ UNCHANGED <<part, allocvars>>
AllocNext == part = "alloc" /\ A!Next /\ UNCHANGED <<part, vars>>
MCNext == LogNext \/ AllocNext
MCSpec == MCInit /\ [][MCNext]_allvars

\* Processes and processors are interchangeable.
Sym == Permutations(Procs) \cup Permutations({a1, a2})
\* Nothing is claimed of the steps after a mark was lost.
Kept == "raced" \notin hist

AllocExact == part = "alloc" => A!AllocExact
================================================================================
