------------------------------- MODULE AddrSpace -------------------------------
(***************************************************************************)
(* What user memory promises: each process has an image of its own, whole  *)
(* pages of it, which only its own calls change.  A page may be closed to  *)
(* the user (the guard page below the stack).                              *)
(***************************************************************************)
EXTENDS Integers, Sequences

CONSTANTS Procs, PGSIZE, Grow, Addrs, Values, Lens

VARIABLES
  img   \* process |-> [live, sz, argv, page: sequence of [user, dat]]

None == [live |-> FALSE, sz |-> 0, argv |-> 0, page |-> <<>>]
ZeroPage == [user |-> TRUE, dat |-> [i \in 0 .. PGSIZE - 1 |-> 0]]
Pages(sz) == (sz + PGSIZE - 1) \div PGSIZE

\* The page of an address, if it is the user's, and the value there.
Of(x, a) == a \div PGSIZE + 1
Open(x, a) == Of(x, a) \in DOMAIN x.page /\ x.page[Of(x, a)].user
At(x, a) == x.page[Of(x, a)].dat[a % PGSIZE]
Put(x, a, v) == [x EXCEPT !.page[Of(x, a)].dat[a % PGSIZE] = v]

\* The values from a up to the first zero; Bad if a closed page comes first.
Bad == <<-1>>
StringAt(x, a) ==
  LET n == CHOOSE n \in 0 .. PGSIZE * Len(x.page) :
             /\ ~Open(x, a + n) \/ At(x, a + n) = 0
             /\ \A i \in 0 .. n - 1 : Open(x, a + i) /\ At(x, a + i) # 0
  IN IF Open(x, a + n) THEN [i \in 1 .. n |-> At(x, a + i - 1)] ELSE Bad
\* The argument vector at a: the strings that the pointers there point to.
ArgvAt(x, a) == LET ptrs == StringAt(x, a) IN
                IF ptrs = Bad THEN <<Bad>> ELSE [i \in DOMAIN ptrs |-> StringAt(x, ptrs[i])]

Resize(x, sz) ==
  [x EXCEPT !.sz = sz,
            !.page = [i \in 1 .. Pages(sz) |-> IF i \in DOMAIN x.page THEN x.page[i] ELSE ZeroPage]]

Init == \E p \in Procs : /\ img[p].live /\ Len(img[p].page) = 1 /\ img[p].page[1].user
                         /\ \A q \in Procs \ {p} : img[q] = None

(* A step from the images x to the images y *)

\* New memory is zero, what is left keeps its contents.
Sbrk(x, y, p, n) == x[p].live /\ x[p].sz + n >= 0 /\ y = [x EXCEPT ![p] = Resize(@, @.sz + n)]
\* The child has a copy.
Fork(x, y, p, q) == x[p].live /\ ~x[q].live /\ y = [x EXCEPT ![q] = x[p]]
Exit(x, y, p) == x[p].live /\ y = [x EXCEPT ![p] = None]
Store(x, y, p, a, v) == Open(x[p], a) /\ y = [x EXCEPT ![p] = Put(@, a, v)]
\* A call moves values from one process to another, up to the first page that is closed.
Transfer(x, y, p, q, a, b, n) ==
  /\ \A i \in 0 .. n - 1 : Open(x[p], a + i)
  /\ LET k == IF \A i \in 0 .. n - 1 : Open(x[q], b + i) THEN n
              ELSE CHOOSE i \in 0 .. n - 1 : ~Open(x[q], b + i) /\ \A j \in 0 .. i - 1 : Open(x[q], b + j)
     IN y = [x EXCEPT ![q].page = [j \in DOMAIN @ |->
               [@[j] EXCEPT !.dat = [o \in 0 .. PGSIZE - 1 |->
                  LET i == (j - 1) * PGSIZE + o - b IN IF i \in 0 .. k - 1 THEN At(x[p], a + i) ELSE @[o]]]]]
\* A new program gets an argument vector of the old one, on a page above a closed one.
Exec(x, y, p) ==
  LET top == Len(y[p].page) IN
  /\ x[p].live /\ y[p].live
  /\ \A q \in Procs \ {p} : y[q] = x[q]
  /\ top >= 2 /\ y[p].sz = top * PGSIZE
  /\ \A i \in 1 .. top : y[p].page[i].user <=> i # top - 1
  /\ y[p].argv \div PGSIZE = top - 1
  /\ LET argv == ArgvAt(y[p], y[p].argv)
     IN (\A i \in DOMAIN argv : argv[i] # Bad) /\ \E a \in 0 .. x[p].sz - 1 : ArgvAt(x[p], a) = argv

Step(x, y) ==
  \/ \E p \in Procs, n \in Grow : Sbrk(x, y, p, n)
  \/ \E p, q \in Procs : Fork(x, y, p, q)
  \/ \E p \in Procs : Exit(x, y, p) \/ Exec(x, y, p)
  \/ \E p \in Procs, a \in Addrs, v \in Values : Store(x, y, p, a, v)
  \/ \E p, q \in Procs, a, b \in Addrs, n \in Lens : Transfer(x, y, p, q, a, b, n)

Next == \E x \in {img}, y \in {img'} : Step(x, y)
Spec == Init /\ [][Next]_img
================================================================================
