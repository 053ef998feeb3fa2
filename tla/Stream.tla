--------------------------------- MODULE Stream ---------------------------------
(***************************************************************************)
(* What a pipe promises: a bounded first-in-first-out stream of bytes.     *)
(* Byte i (counted down) of a call to write() by p is the pair <<p, i>>.   *)
(***************************************************************************)
EXTENDS Integers, Sequences

CONSTANTS Procs, Cap, MaxN   \* MaxN: longest call
VARIABLES
  q,      \* bytes in the stream
  left,   \* bytes the current call of p still has to write, or may read
  ubuf    \* bytes the current read() of p has delivered

Bytes(p, j) == [i \in 1 .. j |-> <<p, left[p] - i + 1>>]

Init == q = <<>> /\ left = [p \in Procs |-> 0] /\ ubuf = [p \in Procs |-> <<>>]

\* A call begins, or returns.
Call(p) == \E n \in 0 .. MaxN : left' = [left EXCEPT ![p] = n] /\ UNCHANGED <<q, ubuf>>
Return(p) == left' = [left EXCEPT ![p] = 0] /\ ubuf' = [ubuf EXCEPT ![p] = <<>>] /\ UNCHANGED q

\* The next bytes of p's call are appended; the call may end early.
Put(p) == \E j \in 0 .. Cap :
  /\ j <= left[p] /\ Len(q) + j <= Cap
  /\ q' = q \o Bytes(p, j)
  /\ left' \in {[left EXCEPT ![p] = @ - j], [left EXCEPT ![p] = 0]}
  /\ UNCHANGED ubuf

\* The oldest bytes are delivered; on a bad address the last one is lost.
Get(p) == \E j \in 0 .. Len(q) :
  /\ j <= left[p]
  /\ q' = SubSeq(q, j + 1, Len(q))
  /\ ubuf' \in {[ubuf EXCEPT ![p] = SubSeq(q, 1, k)] : k \in {j, j - 1}}
  /\ UNCHANGED left

Next == \E p \in Procs : Call(p) \/ Return(p) \/ Put(p) \/ Get(p)
Spec == Init /\ [][Next]_<<q, left, ubuf>>
================================================================================
