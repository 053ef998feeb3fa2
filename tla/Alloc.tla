--------------------------------- MODULE Alloc ---------------------------------
(***************************************************************************)
(* Kernel memory: ufkalloc() and ufkfree().  Pages and more come from a    *)
(* buddy allocator of leaves of two pages (ufkalloc.c); less than a page   *)
(* comes from a second one (buddy.c), which is given a leaf whenever it    *)
(* has no block left.  A leaf given to it is marked in split[0].  Both are *)
(* the same algorithm, here over records of free lists and bit maps; an    *)
(* address counts the smallest blocks.  The locks make an allocation and a *)
(* release one step each; marking and refilling take no lock.              *)
(***************************************************************************)
EXTENDS Integers, Sequences, FiniteSets, FiniteSetsExt, SequencesExt

CONSTANTS
  Procs,
  BdSizes, UfkSizes,  \* NSIZES of buddy.c and of ufkalloc.c
  NBIGPGS, MAX_PAGES, \* big pages, pages buddy.c can keep
  Small, Large,       \* sizes asked for: less than a page, a page or more
  MaxHeld             \* bound on the blocks in use

VARIABLES
  bd, ufk,     \* free: free lists by size; alloc, split: bits <<size, block>>
  pages,       \* entries of bd_table.plist in use
  small,       \* leaves marked in split[0]
  held,        \* blocks given out
  pc, loc,     \* a refill under way
  panicked, hist
vars == <<bd, ufk, pages, small, held, pc, loc, panicked, hist>>

PGSIZE == 2 ^ (BdSizes - 1)
LEAF_SIZE == 2 * PGSIZE
None == "none"

\* The two allocators: smallest block and largest size.
Bd == [leaf |-> 1, max |-> BdSizes - 1]
Ufk == [leaf |-> LEAF_SIZE, max |-> UfkSizes - 1]

--------------------------------------------------------------------------------
(* The buddy algorithm *)

BlkSize(A, k) == A.leaf * 2 ^ k
\* firstk(): the smallest size that n fits.
FirstK(A, n) == CHOOSE k \in 0 .. A.max : BlkSize(A, k) >= n /\ \A j \in 0 .. k - 1 : BlkSize(A, j) < n
\* blk_index() and addr(): the block of size k that p is in.  A page starts at a multiple of its size.
Blk(A, k, p) == (p \div BlkSize(A, k)) * BlkSize(A, k)
Buddy(A, k, p) ==
  IF (p \div BlkSize(A, k)) % 2 = 0 THEN Blk(A, k, p) + BlkSize(A, k) ELSE Blk(A, k, p) - BlkSize(A, k)

\* The sizes a request for n can be taken from.
Avail(A, b, n) == {k \in FirstK(A, n) .. A.max : b.free[k] # <<>>}
\* The block it gets: the first of the smallest size there is.
Took(A, b, n) == Head(b.free[Min(Avail(A, b, n))])

\* The sizes whose bit is set when a block of size k is split down to fk.
Marked(fk, k) == fk .. k

\* bd_alloc(), _ufkalloc(): take a block, split it, give the other halves back.
BuddyAlloc(A, b, n) ==
  LET fk == FirstK(A, n)
      k == Min(Avail(A, b, n))
      p == Took(A, b, n)
  IN [free |-> [j \in 0 .. A.max |-> IF j \in fk .. k - 1 THEN <<p + BlkSize(A, j)>> \o b.free[j]
                                     ELSE IF j = k THEN Tail(b.free[j]) ELSE b.free[j]],
      alloc |-> b.alloc \cup {<<j, p>> : j \in Marked(fk, k)},
      split |-> b.split \cup {<<j, p>> : j \in fk + 1 .. k}]

\* blk_size(), blksize_index(): the size whose parent is split.
BlkSizeIndex(A, b, p) ==
  LET S == {k \in 0 .. A.max - 1 : <<k + 1, Blk(A, k + 1, p)>> \in b.split}
  IN IF S = {} THEN A.max ELSE Min(S)

\* A freed block merges as long as its buddy is free.
MergeTo(A, b, k, p) ==
  Min({j \in k .. A.max : j = A.max \/ <<j, Buddy(A, j, p)>> \in b.alloc})

\* bd_free(), _ufkfree()
BuddyFree(A, b, p) ==
  LET k == BlkSizeIndex(A, b, p)
      m == MergeTo(A, b, k, p)
  IN [free |-> [j \in 0 .. A.max |->
                  IF j = m THEN <<Blk(A, m, p)>> \o b.free[j]
                  ELSE IF j \in k .. m - 1 THEN SelectSeq(b.free[j], LAMBDA q : q # Buddy(A, j, p)) ELSE b.free[j]],
      alloc |-> IF k = A.max THEN b.alloc ELSE b.alloc \ {<<j, Blk(A, j, p)>> : j \in k .. m},
      split |-> b.split \ {<<j, Blk(A, j, p)>> : j \in k + 1 .. m}]


--------------------------------------------------------------------------------
(* The calls *)

Empty(A) == [free |-> [j \in 0 .. A.max |-> <<>>], alloc |-> {}, split |-> {}]
BigPage(i) == i * BlkSize(Ufk, Ufk.max)

\* ufkinit(), table_init(), bd_init(): all big pages are free.
Init ==
  /\ bd = Empty(Bd)
  /\ ufk = [Empty(Ufk) EXCEPT !.free[Ufk.max] = [i \in 1 .. NBIGPGS |-> BigPage(NBIGPGS - i)]]
  /\ pages = 0 /\ small = {} /\ held = {}
  /\ pc = [p \in Procs |-> "idle"] /\ loc = [p \in Procs |-> [n |-> 0, leaf |-> 0, byte |-> {}]]
  /\ panicked = None /\ hist = {}

Idle(p) == panicked = None /\ pc[p] = "idle" /\ Cardinality(held) + Cardinality({q \in Procs : pc[q] # "idle"}) < MaxHeld
Ready(p, at) == panicked = None /\ pc[p] = at
Goes(p, at) == pc' = [pc EXCEPT ![p] = at]
Give(a, n) == held' = held \cup {[a |-> a, n |-> n]}
Panic(msg) == panicked' = msg /\ UNCHANGED <<bd, ufk, pages, small, held, pc, loc, hist>>
NoLoc == [n |-> 0, leaf |-> 0, byte |-> {}]

\* ufkalloc() of less than a page: bd_alloc(), or a refill.
UfkallocSmall(p, n) ==
  /\ Idle(p)
  /\ IF Avail(Bd, bd, n) # {}
     THEN bd' = BuddyAlloc(Bd, bd, n) /\ Give(Took(Bd, bd, n), n) /\ UNCHANGED <<pc, loc>>
     ELSE Goes(p, "leaf") /\ loc' = [loc EXCEPT ![p] = [NoLoc EXCEPT !.n = n]] /\ UNCHANGED <<bd, held>>
  /\ UNCHANGED <<ufk, pages, small, panicked, hist>>

\* ufkalloc() of a page or more
UfkallocLarge(p, n) ==
  /\ Idle(p)
  /\ IF Avail(Ufk, ufk, n) = {} THEN Panic("[ufkalloc] could not allocate")
     ELSE /\ ufk' = BuddyAlloc(Ufk, ufk, n) /\ Give(Took(Ufk, ufk, n), n)
          /\ UNCHANGED <<bd, pages, small, pc, loc, panicked, hist>>

\* The refill: ufkalloc(PGSIZE) gives a leaf.
RefillLeaf(p) ==
  /\ Ready(p, "leaf")
  /\ IF Avail(Ufk, ufk, PGSIZE) = {} THEN Panic("[ufkalloc] could not allocate")
     ELSE /\ ufk' = BuddyAlloc(Ufk, ufk, PGSIZE)
          /\ loc' = [loc EXCEPT ![p].leaf = Took(Ufk, ufk, PGSIZE)] /\ Goes(p, "load")
          /\ UNCHANGED <<bd, pages, small, held, panicked, hist>>

\* The leaves whose marks share a byte with those of leaf a.
Byte(a) == {x \in small : Blk(Ufk, Ufk.max, x) = Blk(Ufk, Ufk.max, a)}

\* bit_set() of the mark, without a lock: the byte is loaded
RefillLoad(p) ==
  /\ Ready(p, "load")
  /\ loc' = [loc EXCEPT ![p].byte = Byte(loc[p].leaf)] /\ Goes(p, "store")
  /\ UNCHANGED <<bd, ufk, pages, small, held, panicked, hist>>

\* ... and stored: a mark that was set since the load is lost.
RefillStore(p) ==
  LET a == loc[p].leaf IN
  /\ Ready(p, "store")
  /\ small' = (small \ Byte(a)) \cup loc[p].byte \cup {a}
  /\ hist' = IF Byte(a) = loc[p].byte THEN hist ELSE hist \cup {"raced"}
  /\ loc' = [loc EXCEPT ![p].byte = {}] /\ Goes(p, "add1")
  /\ UNCHANGED <<bd, ufk, pages, held, panicked>>

\* bd_addpage()
AddPage(p, a, next) ==
  IF pages = MAX_PAGES THEN Panic("[bd_addpage] cannot add new page")
  ELSE /\ bd' = [bd EXCEPT !.free[Bd.max] = <<a>> \o @] /\ pages' = pages + 1 /\ Goes(p, next)
       /\ UNCHANGED <<ufk, small, held, loc, panicked, hist>>

\* Faulty variant: a leaf is taken for one page.
AfterFirstDone == "retry"
AfterFirst == "add2"
\* ... of the first page of the leaf and of the second
RefillAdd(p) ==
  \/ Ready(p, "add1") /\ AddPage(p, loc[p].leaf, AfterFirst)
  \/ Ready(p, "add2") /\ AddPage(p, loc[p].leaf + PGSIZE, "retry")

\* The second bd_alloc() panics when others took both pages.
RefillRetry(p) ==
  /\ Ready(p, "retry")
  /\ IF Avail(Bd, bd, loc[p].n) = {} THEN Panic("[ufkalloc] cannot alloc...")
     ELSE /\ bd' = BuddyAlloc(Bd, bd, loc[p].n) /\ Give(Took(Bd, bd, loc[p].n), loc[p].n)
          /\ loc' = [loc EXCEPT ![p] = NoLoc] /\ Goes(p, "idle")
          /\ UNCHANGED <<ufk, pages, small, panicked, hist>>

\* The mark of the leaf says which allocator a block belongs to.
IsSmall(a) == Blk(Ufk, 0, a) \in small

\* ufkfree()
Ufkfree(x) ==
  /\ panicked = None
  /\ IF IsSmall(x.a) THEN bd' = BuddyFree(Bd, bd, x.a) /\ UNCHANGED ufk
     ELSE ufk' = BuddyFree(Ufk, ufk, x.a) /\ UNCHANGED bd
  /\ held' = held \ {x}
  /\ UNCHANGED <<pages, small, pc, loc, panicked, hist>>

Next ==
  \/ \E p \in Procs, n \in Small : UfkallocSmall(p, n)
  \/ \E p \in Procs, n \in Large : UfkallocLarge(p, n)
  \/ \E p \in Procs : RefillLeaf(p) \/ RefillLoad(p) \/ RefillStore(p) \/ RefillAdd(p) \/ RefillRetry(p)
  \/ \E x \in held : Ufkfree(x)

Spec == Init /\ [][Next]_vars

--------------------------------------------------------------------------------
(* Properties.  After two refills raced for a byte of marks a small block may be given *)
(* back to the wrong allocator: nothing is claimed then.                               *)

Units(a, n) == a .. a + n - 1
\* Blocks of an allocator's free lists.
FreeBlocks(A, b) == UNION {{[a |-> p, n |-> BlkSize(A, k)] : p \in Range(b.free[k])} : k \in 0 .. A.max}
InBd(x) == Blk(Ufk, 0, x.a) \in small
Rounded(A, x) == BlkSize(A, FirstK(A, x.n))
Total(S, Sz(_)) == FoldSet(LAMBDA x, s : s + Sz(x), 0, S)

\* Blocks that bd_alloc() and _ufkalloc() have given out share no byte with each other or with a
\* free block, of either allocator, however calls and refills interleave.
NoOverlap ==
  "raced" \notin hist =>
    LET all == held \cup FreeBlocks(Bd, bd) \cup FreeBlocks(Ufk, ufk)
    IN \A x, y \in all : x # y => x.a + x.n <= y.a \/ y.a + y.n <= x.a

\* No memory is lost: free blocks, blocks in use, leaves given to the small allocator and leaves on
\* their way to it make up all big pages, and the same holds of the pages of the small allocator.
NothingLost ==
  "raced" \notin hist =>
    LET moving == {p \in Procs : pc[p] \in {"load", "store"}}
        half == {p \in Procs : pc[p] = "add1"}
        most == {p \in Procs : pc[p] = "add2"}
    IN /\ Total(FreeBlocks(Ufk, ufk), LAMBDA x : x.n) + Total({x \in held : ~InBd(x)}, LAMBDA x : Rounded(Ufk, x))
            + LEAF_SIZE * (Cardinality(small) + Cardinality(moving)) = NBIGPGS * BlkSize(Ufk, Ufk.max)
       /\ Total(FreeBlocks(Bd, bd), LAMBDA x : x.n) + Total({x \in held : InBd(x)}, LAMBDA x : Rounded(Bd, x))
            + PGSIZE * (2 * Cardinality(half) + Cardinality(most)) = LEAF_SIZE * Cardinality(small)

\* Two buddies are never both free: what is given back can be used again for large blocks.
Merged ==
  "raced" \notin hist =>
    \A <<A, b>> \in {<<Bd, bd>>, <<Ufk, ufk>>} : \A k \in 0 .. A.max - 1 : \A p \in Range(b.free[k]) :
      Buddy(A, k, p) \notin Range(b.free[k])

\* The two allocators together divide the memory exactly: no overlap, no loss, no missed merge.
AllocExact == NoOverlap /\ NothingLost /\ Merged
================================================================================
