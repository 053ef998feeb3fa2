----------------------------------- MODULE Vm -----------------------------------
(***************************************************************************)
(* User memory: page tables (vm.c), the address space of a process         *)
(* (proc.c), sbrk, fork, exec (exec.c, sys_exec) and exit, and the copies  *)
(* between kernel and user.  Physical memory is a function of frames to    *)
(* contents; page tables are frames, of two levels instead of three.  A    *)
(* page table belongs to one process, so each call is one step.            *)
(* ufkalloc() panics when there is no frame left; the error paths for a    *)
(* null result are never taken.                                            *)
(***************************************************************************)
EXTENDS Integers, Sequences, FiniteSets, FiniteSetsExt, SequencesExt, Functions, TLC

CONSTANTS
  Procs,
  NFrames, PGSIZE,
  NPX,              \* entries of a page table
  MAXARG, ALIGN,    \* limits of exec: argument slots, alignment of the stack
  Initcode,         \* contents of the first page of the first process
  Programs,         \* files to exec: [elf, seg: sequence of [ok, load, va, mem, file, val, read]]
  Grow, Addrs, Values, Lens,   \* arguments of the calls
  MaxCalls

VARIABLES
  m,      \* memory: [ft: frame in use |-> contents, panic, lost]
  proc,   \* process |-> [root, tf, sz, a1]; root 0: none
  calls
vars == <<m, proc, calls>>

Frames == 1 .. NFrames
Trampoline == 0      \* the frame of trampoline.S, part of the kernel
TRAMPOLINE == NPX * NPX - 1
TRAPFRAME == TRAMPOLINE - 1
None == "none"
Fail == <<-1>>

\* A page table has an entry [f, u] for each page that is mapped; an entry of the root has u = FALSE.
NoPte == [f |-> -1, u |-> FALSE]
Zeroes == [i \in 0 .. PGSIZE - 1 |-> 0]
Frame(k, dat) == [k |-> k, pte |-> <<>>, dat |-> dat]
Table == Frame("table", <<>>)
Page(dat) == Frame("page", dat)
Entry(t, i) == IF i \in DOMAIN t THEN t[i] ELSE NoPte
Without(f, x) == Restrict(f, DOMAIN f \ {x})

PGROUNDUP(x) == ((x + PGSIZE - 1) \div PGSIZE) * PGSIZE
Pg(a) == a \div PGSIZE
Panic(s, msg) == IF s.panic = None THEN [s EXCEPT !.panic = msg] ELSE s
\* Do op on each page of first .. last in turn.
PagesIn(first, last) == [i \in 1 .. last - first + 1 |-> first + i - 1]

--------------------------------------------------------------------------------
(* Frames and page tables *)

\* The frame ufkalloc(PGSIZE) returns: any one that is free.
New(s) == IF DOMAIN s.ft = Frames THEN 0 ELSE Min(Frames \ DOMAIN s.ft)
Kalloc(s, c) == IF New(s) = 0 THEN Panic(s, "[ufkalloc] could not allocate") ELSE [s EXCEPT !.ft = New(s) :> c @@ @]
Kfree(s, f) == IF f \notin DOMAIN s.ft THEN Panic(s, "freed twice") ELSE [s EXCEPT !.ft = Without(@, f)]

\* walk(): the entry for page v, and with alloc the table it is in.
Upper(s, root, v) == Entry(s.ft[root].pte, v \div NPX)
Walk(s, root, v) == IF Upper(s, root, v) = NoPte THEN NoPte ELSE Entry(s.ft[Upper(s, root, v).f].pte, v % NPX)
WalkAlloc(s, root, v) ==
  IF Upper(s, root, v) # NoPte \/ New(s) = 0 THEN s
  ELSE [Kalloc(s, Table) EXCEPT !.ft[root].pte = (v \div NPX) :> [f |-> New(s), u |-> FALSE] @@ @]
SetPte(s, root, v, pte) ==
  [s EXCEPT !.ft[Upper(s, root, v).f].pte = IF pte = NoPte THEN Without(@, v % NPX) ELSE (v % NPX) :> pte @@ @]

\* walkaddr(): the frame of a user page, or 0.
WalkAddr(s, root, v) == LET t == Walk(s, root, v) IN IF v < NPX * NPX /\ t.u THEN t.f ELSE 0

\* mappages() of one page
MapPages(s, root, v, f, u) ==
  LET w == WalkAlloc(s, root, v) IN
  IF Upper(w, root, v) = NoPte THEN Panic(w, "[ufkalloc] could not allocate")
  ELSE IF Walk(w, root, v) # NoPte THEN Panic(w, "remap")
  ELSE SetPte(w, root, v, [f |-> f, u |-> u])

\* uvmunmap(): pages first .. last
UvmUnmap(s, root, first, last, doFree) ==
  FoldLeft(LAMBDA w, v : LET t == Walk(w, root, v) IN
             IF t = NoPte THEN Panic(w, "uvmunmap: not mapped")
             ELSE SetPte(IF doFree THEN Kfree(w, t.f) ELSE w, root, v, NoPte),
           s, PagesIn(first, last))

\* A new page of contents c at v.
MapNew(s, root, v, c, u) == IF New(s) = 0 THEN Kalloc(s, c) ELSE MapPages(Kalloc(s, c), root, v, New(s), u)

\* The first page uvmalloc() adds.
UvmFirst(old) == Pg(PGROUNDUP(old))

\* uvmalloc() and its result
UvmAlloc(s, root, old, new) ==
  IF new < old THEN s
  ELSE FoldLeft(LAMBDA w, v : MapNew(w, root, v, Page(Zeroes), TRUE), s,
                PagesIn(UvmFirst(old), Pg(PGROUNDUP(new)) - 1))
UvmAllocSz(old, new) == IF new < old THEN old ELSE new

\* uvmdealloc() and its result
UvmDealloc(s, root, old, new) ==
  IF new >= old \/ PGROUNDUP(new) >= PGROUNDUP(old) THEN s
  ELSE UvmUnmap(s, root, Pg(PGROUNDUP(new)), Pg(old - 1), TRUE)
UvmDeallocSz(old, new) == IF new >= old THEN old ELSE new

\* freewalk(): the tables below the root, then the root.
Tables(s, root) == {root} \cup {s.ft[root].pte[i].f : i \in DOMAIN s.ft[root].pte}
FreeWalk(s, root) ==
  IF \E f \in Tables(s, root) \ {root} : DOMAIN s.ft[f].pte # {} THEN Panic(s, "freewalk: leaf")
  ELSE FoldSet(LAMBDA f, w : Kfree(w, f), s, Tables(s, root))

UvmFree(s, root, sz) == FreeWalk(UvmUnmap(s, root, 0, Pg(sz - 1), TRUE), root)

\* Faulty variant: the copy is open to the user.
CopyPageOpen(s, old, new, v) == MapNew(s, new, v, Page(s.ft[Walk(s, old, v).f].dat), TRUE)
\* One page of uvmcopy(), with the flags it has in the parent.
CopyPage(s, old, new, v) == MapNew(s, new, v, Page(s.ft[Walk(s, old, v).f].dat), Walk(s, old, v).u)
UvmCopy(s, old, new, sz) ==
  FoldLeft(LAMBDA w, v : IF Walk(w, old, v) = NoPte THEN Panic(w, "uvmcopy: page not present")
                         ELSE CopyPage(w, old, new, v),
           s, PagesIn(0, Pg(PGROUNDUP(sz)) - 1))

\* uvmclear()
UvmClear(s, root, v) == SetPte(s, root, v, [Walk(s, root, v) EXCEPT !.u = FALSE])

--------------------------------------------------------------------------------
(* Copies *)

\* copyin(): n values from a, or Fail.
CopyIn(s, root, a, n) ==
  IF \E i \in 0 .. n - 1 : WalkAddr(s, root, Pg(a + i)) = 0 THEN Fail
  ELSE [i \in 1 .. n |-> s.ft[WalkAddr(s, root, Pg(a + i - 1))].dat[(a + i - 1) % PGSIZE]]

\* copyout(): what is before the first page that is not mapped is written.
CopyOutFits(s, root, a, n) == \A i \in 0 .. n - 1 : WalkAddr(s, root, Pg(a + i)) # 0
CopyOut(s, root, a, vals) ==
  FoldLeft(LAMBDA w, i :
             IF \E j \in 0 .. i : WalkAddr(w, root, Pg(a + j)) = 0 THEN w
             ELSE [w EXCEPT !.ft[WalkAddr(w, root, Pg(a + i))].dat[(a + i) % PGSIZE] = vals[i + 1]],
           s, PagesIn(0, Len(vals) - 1))

\* copyinstr(): the values from a up to a zero among the first max, or Fail.
CopyInStr(s, root, a, max) ==
  LET ends == {n \in 0 .. max - 1 : LET x == CopyIn(s, root, a, n + 1) IN x # Fail /\ x[n + 1] = 0}
  IN IF ends = {} THEN Fail ELSE CopyIn(s, root, a, Min(ends))

\* fetchaddr(): one pointer below the size of the process.
FetchAddr(s, p, a) == IF a >= p.sz \/ a + 1 > p.sz THEN Fail ELSE CopyIn(s, p.root, a, 1)

--------------------------------------------------------------------------------
(* Address spaces *)

\* proc_pagetable()
ProcPagetable(s, tf) ==
  LET root == New(s) IN
  IF root = 0 THEN Kalloc(s, Table)
  ELSE MapPages(MapPages(Kalloc(s, Table), root, TRAMPOLINE, Trampoline, FALSE), root, TRAPFRAME, tf, FALSE)

\* proc_freepagetable().  With a size of zero the tables stay allocated and are lost.
ProcFreePagetable(s, root, sz) ==
  LET w == UvmUnmap(UvmUnmap(s, root, TRAMPOLINE, TRAMPOLINE, FALSE), root, TRAPFRAME, TRAPFRAME, FALSE)
  IN IF sz > 0 THEN UvmFree(w, root, sz)
     ELSE [w EXCEPT !.lost = @ \cup Tables(w, root)]

NoProc == [root |-> 0, tf |-> 0, sz |-> 0, a1 |-> 0]
Used(p) == proc[p].root # 0
Call == m.panic = None /\ calls < MaxCalls /\ calls' = calls + 1

\* A frame for the trap frame, then the page table (allocproc).
AllocProc(s) == IF New(s) = 0 THEN Kalloc(s, Table) ELSE ProcPagetable(Kalloc(s, Frame("tf", <<>>)), New(s))
AllocTf(s) == New(s)
AllocRoot(s) == New(Kalloc(s, Frame("tf", <<>>)))

\* userinit(), uvminit()
Init ==
  /\ calls = 0
  /\ LET s == [ft |-> <<>>, panic |-> None, lost |-> {}]
         p == CHOOSE p \in Procs : TRUE
     IN /\ m = MapNew(AllocProc(s), AllocRoot(s), 0, Page(Initcode), TRUE)
        /\ proc = [q \in Procs |-> IF q = p THEN [NoProc EXCEPT !.root = AllocRoot(s), !.tf = AllocTf(s), !.sz = PGSIZE]
                                   ELSE NoProc]

\* growproc() for sbrk(n).  A size below zero wraps around to a large one: nothing happens.
Sbrk(p, n) ==
  LET sz == proc[p].sz
      wrapped == sz + n < 0
  IN /\ Used(p) /\ Call
     /\ m' = IF n > 0 THEN UvmAlloc(m, proc[p].root, sz, sz + n)
             ELSE IF wrapped THEN m ELSE UvmDealloc(m, proc[p].root, sz, sz + n)
     /\ proc' = [proc EXCEPT ![p].sz = IF wrapped THEN sz ELSE IF n > 0 THEN UvmAllocSz(sz, sz + n) ELSE UvmDeallocSz(sz, sz + n)]

\* fork(): allocproc(), uvmcopy()
Fork(p, q) ==
  LET s == AllocProc(m)
      root == AllocRoot(m)
  IN /\ Used(p) /\ ~Used(q) /\ Call
     /\ m' = IF s.panic # None THEN s ELSE UvmCopy(s, proc[p].root, root, proc[p].sz)
     /\ proc' = [proc EXCEPT ![q] = [proc[p] EXCEPT !.root = root, !.tf = AllocTf(m)]]

\* wait() reaps a process that has exited: freeproc()
Exit(p) ==
  /\ Used(p) /\ Call
  /\ m' = ProcFreePagetable(Kfree(m, proc[p].tf), proc[p].root, proc[p].sz)
  /\ proc' = [proc EXCEPT ![p] = NoProc]

\* The user stores v at a.
Store(p, a, v) ==
  /\ Used(p) /\ WalkAddr(m, proc[p].root, Pg(a)) # 0 /\ Call
  /\ m' = CopyOut(m, proc[p].root, a, <<v>>)
  /\ UNCHANGED proc

\* A call of p reads its memory and one of q writes what it read (a pipe, a file).
Transfer(p, q, a, b, n) ==
  LET x == CopyIn(m, proc[p].root, a, n) IN
  /\ Used(p) /\ Used(q) /\ x # Fail /\ Call
  /\ m' = CopyOut(m, proc[q].root, b, x)
  /\ UNCHANGED proc

--------------------------------------------------------------------------------
(* exec *)

\* sys_exec(): the strings that the pointers at uargv point to; none if one fails or they are too many.
ArgPtrs(s, p, uargv) ==
  LET ends == {n \in 0 .. MAXARG - 1 : FetchAddr(s, p, uargv + n) = <<0>> /\
                                       \A i \in 0 .. n - 1 : FetchAddr(s, p, uargv + i) \notin {<<0>>, Fail}}
  IN IF ends = {} THEN Fail ELSE [i \in 1 .. Min(ends) |-> FetchAddr(s, p, uargv + i - 1)[1]]
FetchArgs(s, p, uargv) ==
  LET ptrs == ArgPtrs(s, p, uargv)
      strs == [i \in DOMAIN ptrs |-> CopyInStr(s, p.root, ptrs[i], PGSIZE)]
  IN IF ptrs = Fail \/ Fail \in Range(strs) THEN <<Fail>> ELSE strs

\* A file read into the pages from va on (loadseg).
LoadSeg(s, root, g) ==
  IF \E i \in 0 .. g.file - 1 : WalkAddr(s, root, Pg(g.va + i)) = 0 THEN Panic(s, "loadseg: address should exist")
  ELSE CopyOut(s, root, g.va, [i \in 1 .. (IF g.read < g.file THEN g.read ELSE g.file) |-> g.val])

\* exec() so far: [s: memory, sz, bad].  One program header: read it, grow, load.
Segment(x, root, g) ==
  LET end == g.va + g.mem
      sz == UvmAllocSz(x.sz, end)
      grown == [x EXCEPT !.s = UvmAlloc(x.s, root, x.sz, end), !.sz = sz, !.bad = sz = 0]
  IN IF x.bad THEN x
     ELSE IF ~g.ok THEN [x EXCEPT !.bad = TRUE]
     ELSE IF ~g.load THEN x
     ELSE IF g.mem < g.file THEN [x EXCEPT !.bad = TRUE]
     ELSE IF grown.bad \/ g.va % PGSIZE # 0 \/ grown.s.panic # None THEN [grown EXCEPT !.bad = TRUE]
     ELSE [grown EXCEPT !.s = LoadSeg(grown.s, root, g), !.bad = g.read < g.file]

\* Two pages for the stack, the lower one closed.
Stack(x, root) ==
  LET sz == PGROUNDUP(x.sz) + 2 * PGSIZE
      s == UvmAlloc(x.s, root, PGROUNDUP(x.sz), sz)
  IN IF x.bad THEN x ELSE IF s.panic # None THEN [x EXCEPT !.s = s, !.bad = TRUE]
     ELSE [x EXCEPT !.s = UvmClear(s, root, Pg(sz) - 2), !.sz = sz]

\* The arguments are pushed: strings, then the pointers to them.  sp falls below the stack: bad.
Below(sp, n) == ((sp - n) \div ALIGN) * ALIGN
PushArgs(x, root, args) ==
  LET base == x.sz - PGSIZE
      push(y, str) ==
        LET sp == Below(y.sp, Len(str) + 1) IN
        IF y.bad \/ sp < base THEN [y EXCEPT !.bad = TRUE]
        ELSE [y EXCEPT !.s = CopyOut(y.s, root, sp, str \o <<0>>), !.sp = sp, !.ustack = Append(@, sp)]
      z == FoldLeft(push, [s |-> x.s, sz |-> x.sz, bad |-> x.bad, sp |-> x.sz, ustack |-> <<>>], args)
      sp == Below(z.sp, Len(args) + 1)
  IN IF z.bad \/ sp < base THEN [z EXCEPT !.bad = TRUE]
     ELSE [z EXCEPT !.s = CopyOut(z.s, root, sp, z.ustack \o <<0>>), !.sp = sp]

\* exec() of program g with the strings args.  The new image replaces the old one at the end.
Image(s, p, g, args) ==
  LET root == New(s)
      x == PushArgs(Stack(FoldLeft(LAMBDA y, seg : Segment(y, root, seg),
                                   [s |-> ProcPagetable(s, p.tf), sz |-> 0, bad |-> FALSE], g.seg), root), root, args)
  IN IF x.s.panic # None THEN [s |-> x.s, p |-> p]
     ELSE IF x.bad THEN [s |-> ProcFreePagetable(x.s, root, x.sz), p |-> p]
     ELSE [s |-> ProcFreePagetable(x.s, p.root, p.sz), p |-> [p EXCEPT !.root = root, !.sz = x.sz, !.a1 = x.sp]]

\* Faulty variant: the strings are kept.
DropArgsNot(s) == s
\* sys_exec() keeps each string in a frame during exec().
HoldArgs(s, n) == FoldLeft(LAMBDA w, i : Kalloc(w, Frame("arg", <<>>)), s, PagesIn(1, n))
\* ... and frees them.
DropArgs(s) == FoldSet(LAMBDA f, w : Kfree(w, f), s, {f \in DOMAIN s.ft : s.ft[f].k = "arg"})

Exec(p, g, uargv) ==
  LET args == FetchArgs(m, proc[p], uargv)
      held == HoldArgs(m, Len(args))
      r == Image(held, proc[p], g, args)
  IN /\ Used(p) /\ Call
     /\ IF args = <<Fail>> \/ ~g.elf THEN UNCHANGED <<m, proc>>
        ELSE IF held.panic # None THEN m' = held /\ UNCHANGED proc
        ELSE m' = DropArgs(r.s) /\ proc' = [proc EXCEPT ![p] = r.p]

Next ==
  \/ \E p \in Procs, n \in Grow : Sbrk(p, n)
  \/ \E p, q \in Procs : Fork(p, q)
  \/ \E p \in Procs : Exit(p)
  \/ \E p \in Procs, a \in Addrs, v \in Values : Store(p, a, v)
  \/ \E p, q \in Procs, a, b \in Addrs, n \in Lens : Transfer(p, q, a, b, n)
  \/ \E p \in Procs, g \in Programs, uargv \in Addrs : Exec(p, g, uargv)

Spec == Init /\ [][Next]_vars

--------------------------------------------------------------------------------
(* Properties *)

UserPages(p) == {v \in 0 .. TRAPFRAME - 1 : Walk(m, proc[p].root, v) # NoPte}
Owned(p) == IF Used(p) THEN Tables(m, proc[p].root) \cup {proc[p].tf} \cup {Walk(m, proc[p].root, v).f : v \in UserPages(p)} ELSE {}

\* Every frame that ufkalloc() gave out for user memory belongs to one process, as one page, one
\* page table or its trap frame; what nobody owns was lost by proc_freepagetable() at size zero.
FramesOwned ==
  m.panic = None =>
    /\ DOMAIN m.ft = m.lost \cup UNION {Owned(p) : p \in Procs}
    /\ \A p \in Procs : Used(p) =>
         /\ \A q \in Procs \ {p} : Owned(p) \cap Owned(q) = {}
         /\ Cardinality(Owned(p)) = Cardinality(Tables(m, proc[p].root)) + 1 + Cardinality(UserPages(p))

\* The panics of vm.c, exec.c and of a second ufkfree() of a frame are never reached: only memory runs out.
VmNoPanic == m.panic \in {None, "[ufkalloc] could not allocate"}

\* The image of a process, as its page table gives it.
PageView(p, v) == LET t == Walk(m, proc[p].root, v) IN [user |-> t.u, dat |-> m.ft[t.f].dat]
View(p) ==
  IF ~Used(p) THEN [live |-> FALSE, sz |-> 0, argv |-> 0, page |-> <<>>]
  ELSE [live |-> TRUE, sz |-> proc[p].sz, argv |-> proc[p].a1,
        page |-> FoldLeft(LAMBDA s, v : Append(s, PageView(p, v)), <<>>, PagesIn(0, Pg(PGROUNDUP(proc[p].sz)) - 1))]
Space == INSTANCE AddrSpace WITH img <- FoldSet(LAMBDA p, f : p :> View(p) @@ f, <<>>, Procs)

\* Page tables, copies and exec give each process a memory of its own: sbrk() adds zero pages and
\* keeps the rest, fork() copies, the kernel writes only open pages, a new program finds the
\* arguments of the old one above a closed page, and no call changes the memory of another process.
\* (Until memory runs out.)
OwnMemory == Space!Init /\ [][UNCHANGED <<m, proc>> \/ m'.panic # None \/ Space!Next]_vars

\* Frames have one owner each, and none is freed or mapped twice, on the way out of a failed exec() too.
FramesRight == FramesOwned /\ VmNoPanic
================================================================================
