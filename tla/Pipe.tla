---------------------------------- MODULE Pipe ----------------------------------
(***************************************************************************)
(* kernel/proc/pipe.c: one pipe, shared by the processes that hold its     *)
(* ends.  pi->lock is released only by sleep() and on return, so a step is *)
(* everything a call does from acquire() (or from waking up) to the next   *)
(* sleep() or return.  sleep() is the atomic wait of module Monitor.       *)
(***************************************************************************)
EXTENDS Integers, Sequences, FiniteSets

CONSTANTS
  Procs,
  PIPESIZE,
  Width,     \* nread and nwrite wrap at Width (2^32 in the code)
  Sizes,     \* bytes asked for by one call
  MaxN,      \* the most of them
  MayKill,   \* TRUE: processes may be killed
  MayFault   \* TRUE: copyin() and copyout() may fail

ASSUME PipeAssumption ==
  /\ PIPESIZE \in Nat \ {0} /\ Width \in Nat /\ Width > PIPESIZE
  /\ Width % PIPESIZE = 0
  /\ MaxN \in Nat /\ Sizes \subseteq 0 .. MaxN /\ MayKill \in BOOLEAN /\ MayFault \in BOOLEAN

VARIABLES
  data, nread, nwrite, readopen, writeopen,  \* struct pipe
  freed,
  rend, wend,     \* processes holding the read end, the write end
  st, left, ubuf, \* each process: control point, bytes of its call, bytes read
  killed

pipe == <<data, nread, nwrite, readopen, writeopen>>
vars == <<pipe, freed, rend, wend, st, left, ubuf, killed>>

Empty == <<0, 0>>
Avail == (nwrite - nread) % Width
Space == IF nwrite = (nread + PIPESIZE) % Width THEN 0 ELSE PIPESIZE - Avail
Least(a, b) == IF a < b THEN a ELSE b

Init ==
  /\ data = [i \in 0 .. PIPESIZE - 1 |-> Empty]
  /\ nread = 0 /\ nwrite = 0 /\ readopen = TRUE /\ writeopen = TRUE /\ freed = FALSE
  /\ rend \in (SUBSET Procs) \ {{}} /\ wend \in (SUBSET Procs) \ {{}}
  /\ st = [p \in Procs |-> "idle"]
  /\ left = [p \in Procs |-> 0]
  /\ ubuf = [p \in Procs |-> <<>>]
  /\ killed = [p \in Procs |-> FALSE]

\* wakeup(&pi->nread) and wakeup(&pi->nwrite)
WakeReaders(f) == [p \in Procs |-> IF f[p] = "read_sleep" THEN "read" ELSE f[p]]
WakeWriters(f) == [p \in Procs |-> IF f[p] = "write_sleep" THEN "write" ELSE f[p]]

--------------------------------------------------------------------------------
(* pipewrite() *)

Write(p, n) ==
  /\ st[p] = "idle" /\ p \in wend /\ ~killed[p]
  /\ st' = [st EXCEPT ![p] = "write"]
  /\ left' = [left EXCEPT ![p] = n]
  /\ UNCHANGED <<pipe, freed, rend, wend, ubuf, killed>>

\* Faulty variant: the index is not reduced when the counter is.
StoreUnwrapped(p, j) ==
  /\ data' = [i \in DOMAIN data |-> IF i < j THEN <<p, left[p] - i>> ELSE data[i]]
  /\ nwrite' = (nwrite + j) % Width

\* The next j bytes of p's call, at nwrite % PIPESIZE and following.
Store(p, j) ==
  /\ data' = [i \in DOMAIN data |->
                LET k == (i - nwrite) % PIPESIZE
                IN IF k < j THEN <<p, left[p] - k>> ELSE data[i]]
  /\ nwrite' = (nwrite + j) % Width

\* All that is left fits, or copyin() fails at a byte: wake the readers, return.
WriteEnds(p) ==
  /\ st[p] = "write"
  /\ \E j \in 0 .. Least(left[p], Space) :
       /\ j = left[p] \/ (MayFault /\ j < left[p] /\ j < Space)
       /\ Store(p, j)
  /\ left' = [left EXCEPT ![p] = 0]
  /\ st' = [WakeReaders(st) EXCEPT ![p] = "idle"]
  /\ UNCHANGED <<nread, readopen, writeopen, freed, rend, wend, ubuf, killed>>

\* The pipe fills up: fail, or wake the readers and sleep.
WriteFull(p) ==
  /\ st[p] = "write" /\ left[p] > Space
  /\ Store(p, Space)
  /\ IF ~readopen \/ killed[p]
     THEN /\ st' = [st EXCEPT ![p] = "idle"]
          /\ left' = [left EXCEPT ![p] = 0]
     ELSE /\ st' = [WakeReaders(st) EXCEPT ![p] = "write_sleep"]
          /\ left' = [left EXCEPT ![p] = @ - Space]
  /\ UNCHANGED <<nread, readopen, writeopen, freed, rend, wend, ubuf, killed>>

--------------------------------------------------------------------------------
(* piperead() *)

Read(p, n) ==
  /\ st[p] = "idle" /\ p \in rend /\ ~killed[p]
  /\ st' = [st EXCEPT ![p] = "read"]
  /\ left' = [left EXCEPT ![p] = n]
  /\ UNCHANGED <<pipe, freed, rend, wend, ubuf, killed>>

\* Nothing to read and writers left: a nonblocking call returns 0, a killed
\* process -1, the others sleep.
ReadEmpty(p) ==
  /\ st[p] = "read" /\ nread = nwrite /\ writeopen
  /\ \/ st' = [st EXCEPT ![p] = "returns"]
     \/ ~killed[p] /\ st' = [st EXCEPT ![p] = "read_sleep"]
  /\ UNCHANGED <<pipe, freed, rend, wend, left, ubuf, killed>>

\* The j oldest bytes.
Fetch(j) == [i \in 1 .. j |-> data[(nread + i - 1) % PIPESIZE]]

\* Faulty variant: no wakeup for the writers.
ReadSomeQuiet(p) ==
  /\ st[p] = "read" /\ ~(nread = nwrite /\ writeopen)
  /\ LET j == Least(left[p], Avail) IN
     /\ nread' = (nread + j) % Width
     /\ ubuf' = [ubuf EXCEPT ![p] = Fetch(j)]
  /\ st' = [st EXCEPT ![p] = "returns"]
  /\ UNCHANGED <<data, nwrite, readopen, writeopen, freed, rend, wend, left, killed>>

\* Copy what is there (nothing, at end of file) and wake the writers.  A byte
\* whose copyout() fails has left the pipe.
ReadSome(p) ==
  /\ st[p] = "read" /\ ~(nread = nwrite /\ writeopen)
  /\ \E j \in 0 .. Least(left[p], Avail) :
       /\ nread' = (nread + j) % Width
       /\ \/ j = Least(left[p], Avail) /\ ubuf' = [ubuf EXCEPT ![p] = Fetch(j)]
          \/ MayFault /\ j > 0 /\ ubuf' = [ubuf EXCEPT ![p] = Fetch(j - 1)]
  /\ st' = [WakeWriters(st) EXCEPT ![p] = "returns"]
  /\ UNCHANGED <<data, nwrite, readopen, writeopen, freed, rend, wend, left, killed>>

Return(p) ==
  /\ st[p] = "returns"
  /\ st' = [st EXCEPT ![p] = "idle"]
  /\ left' = [left EXCEPT ![p] = 0]
  /\ ubuf' = [ubuf EXCEPT ![p] = <<>>]
  /\ UNCHANGED <<pipe, freed, rend, wend, killed>>

--------------------------------------------------------------------------------
(* fileclose() of an end and pipeclose() *)

\* p gives up an end; the last holder of it closes it, the last end frees the pipe.
CloseRead(p) ==
  /\ st[p] = "idle" /\ p \in rend
  /\ rend' = rend \ {p}
  /\ IF rend' # {} THEN UNCHANGED <<readopen, st, freed>>
     ELSE /\ readopen' = FALSE
          /\ st' = WakeWriters(st)
          /\ freed' = ~writeopen
  /\ UNCHANGED <<data, nread, nwrite, writeopen, wend, left, ubuf, killed>>

CloseWrite(p) ==
  /\ st[p] = "idle" /\ p \in wend
  /\ wend' = wend \ {p}
  /\ IF wend' # {} THEN UNCHANGED <<writeopen, st, freed>>
     ELSE /\ writeopen' = FALSE
          /\ st' = WakeReaders(st)
          /\ freed' = ~readopen
  /\ UNCHANGED <<data, nread, nwrite, readopen, rend, left, ubuf, killed>>

\* kill(): a sleeping victim runs again.
Kill(p) ==
  /\ MayKill /\ ~killed[p]
  /\ killed' = [killed EXCEPT ![p] = TRUE]
  /\ st' = [st EXCEPT ![p] = IF @ = "read_sleep" THEN "read"
                             ELSE IF @ = "write_sleep" THEN "write" ELSE @]
  /\ UNCHANGED <<pipe, freed, rend, wend, left, ubuf>>

Next == \E p \in Procs :
  \/ \E n \in Sizes : Write(p, n) \/ Read(p, n)
  \/ WriteEnds(p) \/ WriteFull(p) \/ ReadEmpty(p) \/ ReadSome(p) \/ Return(p)
  \/ CloseRead(p) \/ CloseWrite(p) \/ Kill(p)

Spec == Init /\ [][Next]_vars

--------------------------------------------------------------------------------
(* Properties *)

TypeOK ==
  /\ data \in [0 .. PIPESIZE - 1 -> (Procs \X (1 .. MaxN)) \cup {Empty}]
  /\ nread \in 0 .. Width - 1 /\ nwrite \in 0 .. Width - 1
  /\ Avail <= PIPESIZE
  /\ readopen = (rend # {}) /\ writeopen = (wend # {})
  /\ rend \subseteq Procs /\ wend \subseteq Procs
  /\ st \in [Procs -> {"idle", "read", "read_sleep", "write", "write_sleep", "returns"}]
  /\ left \in [Procs -> 0 .. MaxN] /\ killed \in [Procs -> BOOLEAN] /\ freed \in BOOLEAN

\* The pipe is a bounded byte stream: what readers get is what writers put, in
\* order, each byte once, through every wrap of the indexes and the counters.
Abstract == INSTANCE Stream WITH Cap <- PIPESIZE, q <- Fetch(Avail)
PipeImplements == Abstract!Spec

\* Nobody is inside piperead() or pipewrite() of a freed pipe, and it is freed
\* when both ends are closed: ufkfree() in pipeclose() runs exactly then.
FreedWhenUnused ==
  /\ freed => \A p \in Procs : st[p] \in {"idle", "returns"}
  /\ freed = (rend = {} /\ wend = {})

\* A reader sleeps only on an empty pipe that has writers, a writer only on a
\* full pipe that has readers: every change of these conditions wakes it.
\* (A killed writer returns from a full pipe without waking the readers.)
SleepersHaveReason ==
  (\A p \in Procs : ~killed[p]) => \A p \in Procs :
    /\ st[p] = "read_sleep" => nread = nwrite /\ wend # {}
    /\ st[p] = "write_sleep" => Space = 0 /\ rend # {}
================================================================================
