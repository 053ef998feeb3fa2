--------------------------------- MODULE MCProcess ---------------------------------
(***************************************************************************)
(* The process table and user memory: a state belongs to the part chosen   *)
(* at the start, the variables of the other stay as they are.              *)
(***************************************************************************)
EXTENDS Proc, Sequences, TLC
CONSTANTS p1, p2

VARIABLES part, m, proc, calls

\* Programs: a good one, one of two segments, and ones that exec() gives up on at each check.
Seg(va, mem, file, val) == [ok |-> TRUE, load |-> TRUE, va |-> va, mem |-> mem, file |-> file, val |-> val, read |-> file]
Programs == {
  [elf |-> TRUE, seg |-> <<Seg(0, 3, 2, 6)>>],
  [elf |-> TRUE, seg |-> <<Seg(0, 4, 4, 6), [Seg(0, 0, 0, 0) EXCEPT !.load = FALSE], Seg(4, 5, 2, 8)>>],
  [elf |-> TRUE, seg |-> <<Seg(0, 4, 4, 6), Seg(5, 2, 2, 8)>>],
  [elf |-> TRUE, seg |-> <<Seg(0, 5, 5, 6), [Seg(4, 4, 4, 8) EXCEPT !.read = 1]>>],
  [elf |-> TRUE, seg |-> <<[Seg(0, 4, 4, 6) EXCEPT !.ok = FALSE]>>],
  [elf |-> TRUE, seg |-> <<Seg(0, 0, 0, 6)>>],
  [elf |-> TRUE, seg |-> <<Seg(0, 2, 4, 6)>>],
  [elf |-> FALSE, seg |-> <<>>]}
\* A pointer to a string, a null pointer, the string.
Initcode == 0 :> 2 @@ 1 :> 0 @@ 2 :> 7 @@ 3 :> 0

V == INSTANCE Vm WITH Procs <- {p1, p2}, NFrames <- 22, PGSIZE <- 4, NPX <- 5, MAXARG <- 2, ALIGN <- 2,
  Grow <- {-21, -3, 4, 7}, Addrs <- {0, 3}, Values <- {5}, Lens <- {3}, MaxCalls <- 4

vmvars == <<m, proc, calls>>
allvars == <<part, vars, vmvars>>
MCInit == part \in {"table", "vm"} /\ Init /\ V!Init
TableNext == part = "table" /\ Next /\ UNCHANGED <<part, vmvars>>
VmNext == part = "vm" /\ V!Next /\ UNCHANGED <<part, vars>>
MCNext == TableNext \/ VmNext
MCSpec == MCInit /\ [][MCNext]_allvars

FramesRight == part = "vm" => V!FramesRight
OwnMemory == V!OwnMemory
================================================================================
