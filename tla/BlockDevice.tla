------------------------------ MODULE BlockDevice ------------------------------
(***************************************************************************)
(* What the block layer promises its callers: a request transfers one      *)
(* whole block between a buffer and the medium at some instant between     *)
(* the call of virtio_disk_rw() and its return, and exactly once.          *)
(***************************************************************************)
CONSTANTS Bufs, Blocks, Vals

VARIABLES
  media,    \* contents of the blocks on the medium
  data,     \* contents of the buffers
  req       \* request in progress on a buffer: [write, blk, done], or Idle

vars == <<media, data, req>>

Idle == [write |-> FALSE, blk |-> 0, done |-> TRUE]
Request == [write : BOOLEAN, blk : Blocks, done : BOOLEAN]

Init == /\ media \in [Blocks -> Vals]
        /\ data \in [Bufs -> Vals]
        /\ req = [b \in Bufs |-> Idle]

\* The owner of a buffer changes it while no request is using it.
Touch(b, v) == /\ req[b] = Idle
               /\ data' = [data EXCEPT ![b] = v]
               /\ UNCHANGED <<media, req>>

Submit(b, w, k) == /\ req[b] = Idle
                   /\ req' = [req EXCEPT ![b] = [write |-> w, blk |-> k, done |-> FALSE]]
                   /\ UNCHANGED <<media, data>>

Transfer(b) ==
  /\ req[b] # Idle /\ ~req[b].done
  /\ IF req[b].write
     THEN media' = [media EXCEPT ![req[b].blk] = data[b]] /\ UNCHANGED data
     ELSE data' = [data EXCEPT ![b] = media[req[b].blk]] /\ UNCHANGED media
  /\ req' = [req EXCEPT ![b].done = TRUE]

Return(b) == /\ req[b] # Idle /\ req[b].done
             /\ req' = [req EXCEPT ![b] = Idle]
             /\ UNCHANGED <<media, data>>

Next == \E b \in Bufs : \/ \E v \in Vals : Touch(b, v)
                        \/ \E w \in BOOLEAN, k \in Blocks : Submit(b, w, k)
                        \/ Transfer(b)
                        \/ Return(b)

Spec == Init /\ [][Next]_vars
================================================================================
