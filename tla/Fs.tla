----------------------------------- MODULE Fs ----------------------------------
(***************************************************************************)
(* The file system above the log: the inode cache, block allocation,       *)
(* directories, path names (fs.c), open files (file.c) and the system      *)
(* calls that use them (sysfile.c).  A process runs its call as a stack of *)
(* pending steps.  A step is one critical section: a sleep lock is taken,  *)
(* the inode read and changed, the lock released.  It is split where two   *)
(* inodes are held at once and where a reference is dropped.  The writes   *)
(* of a call reach the disk together (Log), when no call is under way.     *)
(***************************************************************************)
EXTENDS Integers, Sequences, FiniteSets, SequencesExt

CONSTANTS
  Procs,
  NFILE,             \* open files
  NINODE,            \* entries of the inode cache
  NInodes, Blocks,   \* inodes 1 .. NInodes and data blocks of the disk
  BSIZE, NDIRECT, NINDIRECT, \* a block holds BSIZE directory entries or units of a file
  MAXOPBLOCKS, NOFILE, NDEV,
  Calls,             \* the system calls the processes choose from
  MaxCalls,          \* bound on the calls of each process
  Trees              \* states of the disk, open files and current directories to start from

VARIABLES
  fs,        \* inode cache (ic), disk inodes (di), their contents (data), used blocks (bm),
             \* and the blocks each process has logged in its transaction (log)
  proc,      \* call under way, its pending steps, registers, current directory, descriptors
  file,      \* open files
  panicked, hist
vars == <<fs, proc, file, panicked, hist>>

None == "none"
ROOTINO == 1
Slots == 1 .. NINODE
Inums == 1 .. NInodes
Least(S) == CHOOSE x \in S : \A y \in S : x <= y
NoMeta == [type |-> "free", major |-> 0, nlink |-> 0, size |-> 0, addrs |-> <<>>, ind |-> 0]
NoEntry == [inum |-> 0, ref |-> 0, valid |-> FALSE, lock |-> None, m |-> NoMeta]
NoFile == [ref |-> 0, ip |-> 0, off |-> 0, type |-> None, writable |-> FALSE]
NoCall == [op |-> None]

\* iinit(), fsinit(): the cache holds the current directories and open files.
Init ==
  \E t \in Trees :
    /\ fs = [ic |-> [s \in Slots |-> t.ic[s]], di |-> t.di, data |-> t.data, bm |-> t.bm,
             log |-> [p \in Procs |-> {}]]
    /\ proc = [p \in Procs |-> [stk |-> <<>>, call |-> NoCall, cur |-> 0, ip |-> 0, dp |-> 0,
                                path |-> <<>>, name |-> None, cwd |-> t.cwd[p],
                                ofile |-> t.ofile[p], calls |-> 0]]
    /\ file = t.file
    /\ panicked = None /\ hist = {}

--------------------------------------------------------------------------------
(* Inodes and blocks: each operator maps the file system's state to the next *)

Inum(F, s) == F.ic[s].inum
Cached(F, i) == {s \in Slots : F.ic[s].ref > 0 /\ F.ic[s].inum = i}

\* The entry iget() returns: the one that holds the inode, else the first free one.
IGetSlot(F, i) ==
  IF Cached(F, i) # {} THEN Least(Cached(F, i)) ELSE Least({s \in Slots : F.ic[s].ref = 0})
\* iget()
IGet(F, i) ==
  [F EXCEPT !.ic[IGetSlot(F, i)] = IF Cached(F, i) # {} THEN [@ EXCEPT !.ref = @ + 1]
                                   ELSE [NoEntry EXCEPT !.inum = i, !.ref = 1]]
\* idup()
IDup(F, s) == [F EXCEPT !.ic[s].ref = @ + 1]

\* ilock(): the inode is read from the disk when the entry is not valid.
ILock(F, p, s) ==
  [F EXCEPT !.ic[s] = [@ EXCEPT !.lock = p, !.valid = TRUE,
                                !.m = IF F.ic[s].valid THEN @ ELSE F.di[Inum(F, s)]]]
\* iunlock()
IUnlock(F, s) == [F EXCEPT !.ic[s].lock = None]
\* ilock() panics on an inode that is free on the disk.
NoType(F, s) == ~F.ic[s].valid /\ F.di[Inum(F, s)].type = "free"

\* log_write(): absorbs a block that is already logged.
LogWrite(F, p, B) == [F EXCEPT !.log[p] = @ \cup B]

\* iupdate()
IUpdate(F, p, s) == LogWrite([F EXCEPT !.di[Inum(F, s)] = F.ic[s].m], p, {<<"inode", Inum(F, s)>>})

\* balloc() and bzero(): the first free block is marked and cleared.
BAlloc(F, p) ==
  LET b == Least(Blocks \ F.bm) IN
  LogWrite([F EXCEPT !.bm = @ \cup {b}], p, {<<"bitmap", 0>>, <<"block", b>>})

\* bmap(): a block, and the indirect block before it, is allocated when it is missing.
BMap(F, p, s, bn) ==
  IF bn < Len(F.ic[s].m.addrs) THEN F
  ELSE LET m == F.ic[s].m
           F1 == IF bn >= NDIRECT /\ m.ind = 0
                 THEN [BAlloc(F, p) EXCEPT !.ic[s].m.ind = Least(Blocks \ F.bm)] ELSE F
           F2 == [BAlloc(F1, p) EXCEPT !.ic[s].m.addrs = Append(@, Least(Blocks \ F1.bm))]
       IN IF bn >= NDIRECT THEN LogWrite(F2, p, {<<"block", F2.ic[s].m.ind>>}) ELSE F2

\* itrunc() with its calls of bfree()
ITrunc(F, p, s) ==
  LET m == F.ic[s].m IN
  IUpdate(LogWrite([F EXCEPT !.bm = @ \ (Range(m.addrs) \cup {m.ind}), !.data[Inum(F, s)] = <<>>,
                             !.ic[s].m = [m EXCEPT !.addrs = <<>>, !.ind = 0, !.size = 0]],
                   p, {<<"bitmap", 0>> : b \in Range(m.addrs)}), p, s)

\* writei() takes an offset up to the size, within the largest file.
CanWrite(F, s, off, n) == off <= F.ic[s].m.size /\ off + n <= (NDIRECT + NINDIRECT) * BSIZE
\* writei() of the units u at off; with n > 0 the inode is always written back.
WriteI(F, p, s, off, u) ==
  LET bns == [k \in 1 .. (off + Len(u) - 1) \div BSIZE - off \div BSIZE + 1 |-> off \div BSIZE + k - 1]
      F1 == FoldLeft(LAMBDA G, bn : BMap(G, p, s, bn), F, bns)
      old == F.data[Inum(F, s)]
      new == [k \in 1 .. IF off + Len(u) > Len(old) THEN off + Len(u) ELSE Len(old) |->
                IF k \in off + 1 .. off + Len(u) THEN u[k - off] ELSE old[k]]
  IN IUpdate(LogWrite([F1 EXCEPT !.data[Inum(F, s)] = new, !.ic[s].m.size = Len(new)],
                      p, {<<"block", F1.ic[s].m.addrs[bns[k] + 1]>> : k \in DOMAIN bns}), p, s)
\* writei() when the first copy from the process fails: the block stays, the size too.
WriteIFault(F, p, s, off) == IUpdate(BMap(F, p, s, off \div BSIZE), p, s)

\* readi() gives what is there from off on.
ReadILen(F, s, off, n) ==
  IF off > F.ic[s].m.size THEN 0 ELSE IF off + n > F.ic[s].m.size THEN F.ic[s].m.size - off ELSE n

--------------------------------------------------------------------------------
(* Directories *)

\* Positions of the entries dirlookup() matches.
Entries(F, s, nm) == {k \in DOMAIN F.data[Inum(F, s)] : F.data[Inum(F, s)][k].i # 0 /\ F.data[Inum(F, s)][k].n = nm}
\* dirlookup(): the inode number, 0 if there is no such entry.
DirLookup(F, s, nm) ==
  IF Entries(F, s, nm) = {} THEN 0 ELSE F.data[Inum(F, s)][Least(Entries(F, s, nm))].i
\* dirlink(): the first empty entry, else one at the end.
DirLink(F, p, s, nm, i) ==
  LET d == F.data[Inum(F, s)]
      k == Least({k \in DOMAIN d : d[k].i = 0} \cup {Len(d) + 1})
  IN WriteI(F, p, s, k - 1, <<[n |-> nm, i |-> i]>>)
\* isdirempty(): nothing after "." and ".."
IsDirEmpty(F, s) == \A k \in DOMAIN F.data[Inum(F, s)] : k > 2 => F.data[Inum(F, s)][k].i = 0

\* Change of the link count, written back.
AddLink(F, p, s, n) == IUpdate([F EXCEPT !.ic[s].m.nlink = @ + n], p, s)

--------------------------------------------------------------------------------
(* Pending steps of a process *)

At(p, label) == panicked = None /\ proc[p].stk # <<>> /\ Head(proc[p].stk)[1] = label
Arg(p) == Head(proc[p].stk)[2]
Free(s) == fs.ic[s].lock = None
\* The record r of process p with its first step replaced by the steps todo.
Go(r, todo) == [r EXCEPT !.stk = todo \o Tail(@)]
Goes(p, r, todo) == proc' = [proc EXCEPT ![p] = Go(r, todo)]
Put(s) == <<"put", s>>
End == <<"end", 0>>
Panic(msg) == panicked' = msg /\ UNCHANGED <<fs, proc, file, hist>>

\* iput(): icache.lock is held.  The last reference to an inode without links takes
\* its lock and frees it; the entry's lock must be free then.
IPut(p) ==
  LET s == Arg(p) IN
  /\ At(p, "put")
  /\ IF fs.ic[s].ref = 1 /\ fs.ic[s].valid /\ fs.ic[s].m.nlink = 0
     THEN /\ Free(s) /\ fs' = ILock(fs, p, s)
          /\ Goes(p, proc[p], <<<<"trunc", s>>, <<"free", s>>, <<"drop", s>>>>)
     ELSE fs' = [fs EXCEPT !.ic[s].ref = @ - 1] /\ Goes(p, proc[p], <<>>)
  /\ UNCHANGED <<file, panicked, hist>>

\* iput(): itrunc(), where bfree() checks the bitmap.
IPutTrunc(p) ==
  /\ At(p, "trunc")
  /\ IF ~(Range(fs.ic[Arg(p)].m.addrs) \subseteq fs.bm) THEN Panic("freeing free block")
     ELSE fs' = ITrunc(fs, p, Arg(p)) /\ Goes(p, proc[p], <<>>) /\ UNCHANGED <<file, panicked, hist>>

\* Faulty variant: the entry stays valid.
InvalidateNot(e) == [e EXCEPT !.lock = None]
\* iput() ends with an entry to be read again, unlocked.
Invalidate(e) == [e EXCEPT !.lock = None, !.valid = FALSE, !.m = NoMeta]

\* iput(): type 0 is written; releasesleep().
IPutFree(p) ==
  LET s == Arg(p) IN
  /\ At(p, "free")
  /\ fs' = [IUpdate([fs EXCEPT !.ic[s].m.type = "free", !.ic[s].m.major = 0], p, s) EXCEPT !.ic[s] = Invalidate(@)]
  /\ Goes(p, proc[p], <<>>)
  /\ UNCHANGED <<file, panicked, hist>>

\* iput(): ref--, with icache.lock taken again.
IPutDrop(p) ==
  /\ At(p, "drop") /\ fs' = [fs EXCEPT !.ic[Arg(p)].ref = @ - 1] /\ Goes(p, proc[p], <<>>)
  /\ UNCHANGED <<file, panicked, hist>>

\* end_op()
EndOp(p) ==
  /\ At(p, "end") /\ fs' = [fs EXCEPT !.log[p] = {}]
  /\ LET r == Go(proc[p], <<>>) IN
     proc' = [proc EXCEPT ![p] = IF r.stk # <<>> THEN r ELSE [r EXCEPT !.call = NoCall, !.name = None, !.path = <<>>]]
  /\ UNCHANGED <<file, panicked, hist>>

--------------------------------------------------------------------------------
(* Path names.  The register cur holds the inode reached, 0 at the end if there *)
(* is none; the argument is 1 for nameiparent().                                *)

\* skipelem(): what follows the first element.  Names are equal up to DIRSIZ characters.
SkipElem(path) == Tail(path)

\* namex(): "/" or the current directory.
NameX(p) ==
  LET r == proc[p] IN
  /\ At(p, "namex")
  /\ IF r.path # <<>> /\ Head(r.path) = "/"
     THEN /\ fs' = IGet(fs, ROOTINO)
          /\ Goes(p, [r EXCEPT !.cur = IGetSlot(fs, ROOTINO), !.path = SkipElem(@)], <<<<"walk", Arg(p)>>>>)
     ELSE fs' = IDup(fs, r.cwd) /\ Goes(p, [r EXCEPT !.cur = r.cwd], <<<<"walk", Arg(p)>>>>)
  /\ UNCHANGED <<file, panicked, hist>>

\* The end of the path: nameiparent() finds no last element.
WalkEnd(p) ==
  /\ At(p, "walk") /\ proc[p].path = <<>>
  /\ IF Arg(p) = 1 THEN Goes(p, [proc[p] EXCEPT !.cur = 0], <<Put(proc[p].cur)>>) ELSE Goes(p, proc[p], <<>>)
  /\ UNCHANGED <<fs, file, panicked, hist>>

\* One element: lock, look up, unlock, drop the directory.
Walk(p) ==
  LET r == proc[p]
      s == r.cur
      F == ILock(fs, p, s)
      i == DirLookup(F, s, Head(r.path))
  IN
  /\ At(p, "walk") /\ r.path # <<>> /\ Free(s) /\ ~NoType(fs, s)
  /\ IF F.ic[s].m.type # "dir"
     THEN fs' = IUnlock(F, s) /\ Goes(p, [r EXCEPT !.cur = 0], <<Put(s)>>)
     ELSE IF Arg(p) = 1 /\ Len(r.path) = 1
     THEN fs' = IUnlock(F, s) /\ Goes(p, [r EXCEPT !.name = Head(r.path), !.path = <<>>], <<>>)
     ELSE IF i = 0
     THEN fs' = IUnlock(F, s) /\ Goes(p, [r EXCEPT !.cur = 0], <<Put(s)>>)
     ELSE /\ fs' = IUnlock(IGet(F, i), s)
          /\ Goes(p, [r EXCEPT !.cur = IGetSlot(F, i), !.path = SkipElem(@)], <<Put(s), <<"walk", Arg(p)>>>>)
  /\ UNCHANGED <<file, panicked, hist>>

--------------------------------------------------------------------------------
(* link() *)

\* sys_link(): the link is counted before it is made.
LinkCount(p) ==
  LET r == proc[p]
      s == r.cur
      F == ILock(fs, p, s)
      r1 == [r EXCEPT !.cur = 0]
  IN
  /\ At(p, "link")
  /\ IF s = 0 THEN Goes(p, r1, <<>>) /\ UNCHANGED fs
     ELSE /\ Free(s) /\ ~NoType(fs, s)
          /\ IF F.ic[s].m.type = "dir" THEN fs' = IUnlock(F, s) /\ Goes(p, r1, <<Put(s)>>)
             ELSE /\ fs' = IUnlock(AddLink(F, p, s, 1), s)
                  /\ Goes(p, [r1 EXCEPT !.ip = s, !.path = r.call.new], <<<<"namex", 1>>, <<"dirlink", 0>>>>)
  /\ UNCHANGED <<file, panicked, hist>>

\* dirlink() refuses a name that is there.
NameTaken(F, s, nm) == DirLookup(F, s, nm) # 0

\* An entry made in a directory that has been removed.
Lost(F, s) == IF F.ic[s].m.nlink = 0 THEN hist \cup {"orphan"} ELSE hist

\* sys_link(): dirlink() in the new directory, or on to "bad".
LinkEntry(p) ==
  LET r == proc[p]
      s == r.cur
      F == ILock(fs, p, s)
      r1 == [r EXCEPT !.cur = 0]
  IN
  /\ At(p, "dirlink")
  /\ IF s = 0 THEN Goes(p, r1, <<<<"unlinked", 0>>>>) /\ UNCHANGED <<fs, hist>>
     ELSE /\ Free(s) /\ ~NoType(fs, s)
          /\ IF NameTaken(F, s, r.name)
             THEN fs' = IUnlock(F, s) /\ Goes(p, r1, <<Put(s), <<"unlinked", 0>>>>) /\ UNCHANGED hist
             ELSE /\ fs' = IUnlock(DirLink(F, p, s, r.name, Inum(fs, r.ip)), s) /\ hist' = Lost(F, s)
                  /\ Goes(p, [r1 EXCEPT !.ip = 0], <<Put(s), Put(r.ip)>>)
  /\ UNCHANGED <<file, panicked>>

\* Faulty variant: the count is left as it is.
UndoLinkNot(F, p, s) == F
\* sys_link(), bad: the count is taken back.
UndoLink(F, p, s) == AddLink(F, p, s, -1)
LinkBad(p) ==
  LET s == proc[p].ip IN
  /\ At(p, "unlinked") /\ Free(s)
  /\ fs' = IUnlock(UndoLink(ILock(fs, p, s), p, s), s)
  /\ Goes(p, [proc[p] EXCEPT !.ip = 0], <<Put(s)>>)
  /\ UNCHANGED <<file, panicked, hist>>

--------------------------------------------------------------------------------
(* unlink() *)

\* sys_unlink(): the entry is looked up; the directory stays locked if there is one.
UnlinkLookup(p) ==
  LET r == proc[p]
      s == r.cur
      F == ILock(fs, p, s)
      i == DirLookup(F, s, r.name)
      r1 == [r EXCEPT !.cur = 0]
  IN
  /\ At(p, "unlink")
  /\ IF s = 0 THEN Goes(p, r1, <<>>) /\ UNCHANGED fs
     ELSE /\ Free(s) /\ ~NoType(fs, s)
          /\ IF r.name \in {".", ".."} \/ i = 0
             THEN fs' = IUnlock(F, s) /\ Goes(p, r1, <<Put(s)>>)
             ELSE /\ fs' = IGet(F, i)
                  /\ Goes(p, [r1 EXCEPT !.dp = s, !.ip = IGetSlot(F, i)], <<<<"erase", 0>>>>)
  /\ UNCHANGED <<file, panicked, hist>>

\* sys_unlink() with both locked: the entry is cleared, the directory unlocked.
UnlinkErase(p) ==
  LET r == proc[p]
      d == r.dp
      s == r.ip
      F == ILock(fs, p, s)
      dir == F.ic[s].m.type = "dir"
      k == Least(Entries(F, d, r.name))
      F1 == WriteI(F, p, d, k - 1, <<[n |-> None, i |-> 0]>>)
      r1 == [r EXCEPT !.dp = 0]
  IN
  /\ At(p, "erase") /\ Free(s) /\ ~NoType(fs, s)
  /\ IF F.ic[s].m.nlink < 1 THEN Panic("unlink: nlink < 1")
     ELSE IF dir /\ ~IsDirEmpty(F, s)
     THEN /\ fs' = IUnlock(IUnlock(F, s), d) /\ Goes(p, [r1 EXCEPT !.ip = 0], <<Put(s), Put(d)>>)
          /\ UNCHANGED <<file, panicked, hist>>
     ELSE /\ fs' = IUnlock(IF dir THEN AddLink(F1, p, d, -1) ELSE F1, d)
          /\ Goes(p, r1, <<Put(d), <<"uncount", 0>>>>) /\ UNCHANGED <<file, panicked, hist>>

\* sys_unlink(): the link count of the inode, still locked; iunlockput().
UnlinkCount(p) ==
  LET s == proc[p].ip IN
  /\ At(p, "uncount")
  /\ fs' = IUnlock(AddLink(fs, p, s, -1), s) /\ Goes(p, [proc[p] EXCEPT !.ip = 0], <<Put(s)>>)
  /\ UNCHANGED <<file, panicked, hist>>

--------------------------------------------------------------------------------
(* open(), mkdir(), mknod() *)

FreeInodes(F) == {i \in Inums : F.di[i].type = "free"}

\* ialloc(): the first free inode is cleared and given its type.
IAlloc(F, p, type) ==
  LET i == Least(FreeInodes(F)) IN
  IGet(LogWrite([F EXCEPT !.di[i] = [NoMeta EXCEPT !.type = type]], p, {<<"inode", i>>}), i)

\* Faulty variant: the directory is unlocked meanwhile.
CreateAllocUnlocked(F, p, s, type) == IUnlock(IAlloc(F, p, type), s)
\* create() keeps the directory s locked while it allocates.
CreateAlloc(F, p, s, type) == IAlloc(F, p, type)

\* create(): an existing name is locked next; otherwise an inode is allocated, with the
\* directory locked.
CreateLookup(p) ==
  LET r == proc[p]
      s == r.cur
      F == ILock(fs, p, s)
      i == DirLookup(F, s, r.name)
      new == Least(FreeInodes(F))
      r1 == [r EXCEPT !.cur = 0]
  IN
  /\ At(p, "create")
  /\ IF s = 0 THEN Goes(p, r1, <<>>) /\ UNCHANGED fs
     ELSE /\ Free(s) /\ ~NoType(fs, s)
          /\ IF i # 0
             THEN /\ fs' = IUnlock(IGet(F, i), s)
                  /\ Goes(p, [r1 EXCEPT !.ip = IGetSlot(F, i)], <<Put(s), <<"exists", 0>>>>)
             ELSE /\ fs' = CreateAlloc(F, p, s, r.call.type)
                  /\ Goes(p, [r1 EXCEPT !.dp = s, !.ip = IGetSlot(F, new)], <<<<"fill", 0>>>>)
  /\ UNCHANGED <<file, panicked, hist>>

\* create(): only open() may find its name taken, by a file or a device.
CreateExists(p) ==
  LET s == proc[p].ip
      F == ILock(fs, p, s)
  IN
  /\ At(p, "exists") /\ Free(s) /\ ~NoType(fs, s)
  /\ IF proc[p].call.type = "file" /\ F.ic[s].m.type \in {"file", "device"}
     THEN fs' = F /\ Goes(p, proc[p], <<<<"created", 0>>>>)
     ELSE fs' = IUnlock(F, s) /\ Goes(p, [proc[p] EXCEPT !.ip = 0], <<Put(s)>>)
  /\ UNCHANGED <<file, panicked, hist>>

\* create(): the new inode, "." and "..", and the entry in the directory.
CreateFill(p) ==
  LET r == proc[p]
      d == r.dp
      s == r.ip
      i == Inum(fs, s)
      F == ILock(fs, p, s)
      F1 == IUpdate([F EXCEPT !.ic[s].m.major = r.call.major, !.ic[s].m.nlink = 1], p, s)
      F2 == IF r.call.type = "dir"
            THEN DirLink(DirLink(AddLink(F1, p, d, 1), p, s, ".", i), p, s, "..", Inum(fs, d)) ELSE F1
  IN
  /\ At(p, "fill") /\ Free(s) /\ ~NoType(fs, s)
  /\ IF NameTaken(F2, d, r.name) THEN Panic("create: dirlink")
     ELSE /\ fs' = IUnlock(DirLink(F2, p, d, r.name, i), d) /\ hist' = Lost(F, d)
          /\ Goes(p, [r EXCEPT !.dp = 0], <<Put(d), <<"created", 0>>>>) /\ UNCHANGED <<file, panicked>>

\* sys_mkdir(), sys_mknod(): iunlockput()
Made(p) ==
  LET s == proc[p].ip IN
  /\ At(p, "created") /\ proc[p].call.op = "make"
  /\ fs' = IUnlock(fs, s) /\ Goes(p, [proc[p] EXCEPT !.ip = 0], <<Put(s)>>)
  /\ UNCHANGED <<file, panicked, hist>>

\* A directory is opened for reading only.
DirMode(m, omode) == m.type = "dir" => omode = "r"

\* sys_open() without O_CREATE
OpenLock(p) ==
  LET s == proc[p].cur
      F == ILock(fs, p, s)
      r1 == [proc[p] EXCEPT !.cur = 0]
  IN
  /\ At(p, "open")
  /\ IF s = 0 THEN Goes(p, r1, <<>>) /\ UNCHANGED fs
     ELSE /\ Free(s) /\ ~NoType(fs, s)
          /\ IF DirMode(F.ic[s].m, proc[p].call.omode)
             THEN fs' = F /\ Goes(p, [r1 EXCEPT !.ip = s], <<<<"created", 0>>>>)
             ELSE fs' = IUnlock(F, s) /\ Goes(p, r1, <<Put(s)>>)
  /\ UNCHANGED <<file, panicked, hist>>

FreeFds(p) == {fd \in 1 .. NOFILE : proc[p].ofile[fd] = 0}
\* fdalloc()
FdAlloc(p) == Least(FreeFds(p))

\* filealloc(): a new structure with one reference.
FileAlloc == Least({f \in 1 .. NFILE : file[f].ref = 0})

\* sys_open(): filealloc(), fdalloc().  Without a free descriptor the structure is freed
\* again (its type is not set yet) and the inode given back.
OpenFile(p) ==
  LET s == proc[p].ip
      m == fs.ic[s].m
      r1 == [proc[p] EXCEPT !.ip = 0]
  IN
  /\ At(p, "created") /\ proc[p].call.op = "open"
  /\ fs' = IUnlock(fs, s)
  /\ IF (m.type = "device" /\ m.major >= NDEV) \/ FreeFds(p) = {}
     THEN Goes(p, r1, <<Put(s)>>) /\ UNCHANGED file
     ELSE /\ file' = [file EXCEPT ![FileAlloc] = [ref |-> 1, ip |-> s, off |-> 0, type |-> m.type,
                                                  writable |-> proc[p].call.omode = "w"]]
          /\ Goes(p, [r1 EXCEPT !.ofile[FdAlloc(p)] = FileAlloc], <<>>)
  /\ UNCHANGED <<panicked, hist>>

--------------------------------------------------------------------------------
(* chdir(), and calls on an open file *)

\* sys_chdir(): the reference moves from cur to cwd, the old directory is dropped.
Chdir(p) ==
  LET r == proc[p]
      s == r.cur
      F == ILock(fs, p, s)
      r1 == [r EXCEPT !.cur = 0]
  IN
  /\ At(p, "chdir")
  /\ IF s = 0 THEN Goes(p, r1, <<>>) /\ UNCHANGED fs
     ELSE /\ Free(s) /\ ~NoType(fs, s) /\ fs' = IUnlock(F, s)
          /\ IF F.ic[s].m.type # "dir" THEN Goes(p, r1, <<Put(s)>>)
             ELSE Goes(p, [r1 EXCEPT !.cwd = s], <<Put(r.cwd)>>)
  /\ UNCHANGED <<file, panicked, hist>>

\* A call on descriptor fd (argfd()) starts.
Fd(p, c, op) == panicked = None /\ proc[p].stk = <<>> /\ proc[p].calls < MaxCalls[p] /\ c.op = op /\ proc[p].ofile[c.fd] # 0
Called(p) == [proc[p] EXCEPT !.calls = @ + 1]

\* filefree(): the last reference frees the structure.
FileFree(f) == [file EXCEPT ![f] = IF @.ref > 1 THEN [@ EXCEPT !.ref = @ - 1] ELSE NoFile]

\* fileclose(): the last one drops the inode, in a transaction.
FileClose(p, c, r, f) ==
  /\ file' = FileFree(f)
  /\ proc' = [proc EXCEPT ![p] = IF file[f].ref > 1 THEN r
                                 ELSE [r EXCEPT !.call = c, !.stk = <<Put(file[f].ip), End>>]]
\* sys_close()
SysClose(p, c) ==
  /\ Fd(p, c, "close")
  /\ FileClose(p, c, [Called(p) EXCEPT !.ofile[c.fd] = 0], proc[p].ofile[c.fd])
  /\ UNCHANGED <<fs, panicked, hist>>

\* filedup()
FileDup(f) == [file EXCEPT ![f].ref = @ + 1]
\* sys_dup()
SysDup(p, c) ==
  LET f == proc[p].ofile[c.fd] IN
  /\ Fd(p, c, "dup") /\ FreeFds(p) # {} /\ file' = FileDup(f)
  /\ proc' = [proc EXCEPT ![p] = [Called(p) EXCEPT !.ofile[FdAlloc(p)] = f]]
  /\ UNCHANGED <<fs, panicked, hist>>

\* fileread() moves the offset by what readi() returned.
ReadAdvance(F, s, off, n) == ReadILen(F, s, off, n)

\* fileread() of an inode
FileRead(p, f, n) ==
  LET s == file[f].ip
      F == ILock(fs, p, s)
  IN
  /\ file[f].type # "device" /\ Free(s) /\ ~NoType(fs, s)
  /\ fs' = IUnlock(F, s)
  /\ file' = [file EXCEPT ![f].off = @ + ReadAdvance(F, s, @, n)]
\* sys_read()
SysRead(p, c) ==
  /\ Fd(p, c, "read") /\ FileRead(p, proc[p].ofile[c.fd], c.n)
  /\ proc' = [proc EXCEPT ![p] = Called(p)]
  /\ UNCHANGED <<panicked, hist>>

\* sys_write() starts on a file opened for writing.
SysWrite(p, c) ==
  /\ Fd(p, c, "write") /\ LET f == file[proc[p].ofile[c.fd]] IN f.writable /\ f.type # "device"
  /\ proc' = [proc EXCEPT ![p] = [Called(p) EXCEPT !.call = c, !.stk = <<<<"write", c.n>>>>]]
  /\ UNCHANGED <<fs, file, panicked, hist>>

\* Faulty variant: as much as fits the log without its other blocks.
WriteMaxAll == MAXOPBLOCKS * BSIZE
\* The part of a write that one transaction takes.
WriteMax == ((MAXOPBLOCKS - 1 - 1 - 2) \div 2) * BSIZE

\* filewrite(): one round of its loop; a write that is refused ends it.
FileWrite(p) ==
  LET f == proc[p].ofile[proc[p].call.fd]
      s == file[f].ip
      F == ILock(fs, p, s)
      off == file[f].off
      n1 == IF Arg(p) > WriteMax THEN WriteMax ELSE Arg(p)
      todo == IF Arg(p) > n1 THEN <<End, <<"write", Arg(p) - n1>>>> ELSE <<End>>
  IN
  /\ At(p, "write") /\ Free(s) /\ ~NoType(fs, s)
  /\ IF ~CanWrite(F, s, off, n1) THEN fs' = IUnlock(F, s) /\ Goes(p, proc[p], <<End>>) /\ UNCHANGED <<file, hist>>
     ELSE /\ file' = [file EXCEPT ![f].off = @ + n1] /\ Goes(p, proc[p], todo)
          /\ \/ fs' = IUnlock(WriteI(F, p, s, off, [k \in 1 .. n1 |-> [n |-> "data", i |-> 0]]), s) /\ UNCHANGED hist
             \/ fs' = IUnlock(WriteIFault(F, p, s, off), s) /\ hist' = hist \cup {"fault"}
  /\ UNCHANGED panicked

--------------------------------------------------------------------------------
(* System calls on names *)

Steps(c) ==
  CASE c.op = "link"   -> <<<<"namex", 0>>, <<"link", 0>>, End>>
    [] c.op = "unlink" -> <<<<"namex", 1>>, <<"unlink", 0>>, End>>
    [] c.op = "make" \/ (c.op = "open" /\ c.type # None) -> <<<<"namex", 1>>, <<"create", 0>>, End>>
    [] c.op = "open"   -> <<<<"namex", 0>>, <<"open", 0>>, End>>
    [] c.op = "chdir"  -> <<<<"namex", 0>>, <<"chdir", 0>>, End>>

\* begin_op(), and the first name is looked up.
SysName(p, c) ==
  /\ panicked = None /\ proc[p].stk = <<>> /\ proc[p].calls < MaxCalls[p]
  /\ c.op \in {"link", "unlink", "make", "open", "chdir"}
  /\ proc' = [proc EXCEPT ![p] = [Called(p) EXCEPT !.call = c, !.path = c.path, !.stk = Steps(c)]]
  /\ UNCHANGED <<fs, file, panicked, hist>>

\* The inode the next step of p locks, 0 if none.
ToLock(p) ==
  CASE proc[p].stk = <<>> -> 0
    [] Head(proc[p].stk)[1] = "walk" -> IF proc[p].path = <<>> THEN 0 ELSE proc[p].cur
    [] Head(proc[p].stk)[1] \in {"link", "dirlink", "unlink", "create", "open", "chdir"} -> proc[p].cur
    [] Head(proc[p].stk)[1] \in {"erase", "exists", "fill", "unlinked"} -> proc[p].ip
    [] OTHER -> 0

\* ilock() of an inode that is free on the disk
IlockPanics(p) ==
  /\ panicked = None /\ ToLock(p) # 0 /\ Free(ToLock(p)) /\ NoType(fs, ToLock(p)) /\ Panic("ilock: no type")

\* All calls are done.
Finished ==
  /\ panicked # None \/ \A p \in Procs : proc[p].stk = <<>>
  /\ UNCHANGED vars

Next ==
  \/ \E p \in Procs : IPut(p) \/ IPutTrunc(p) \/ IPutFree(p) \/ IPutDrop(p) \/ EndOp(p)
                      \/ NameX(p) \/ WalkEnd(p) \/ Walk(p) \/ LinkCount(p) \/ LinkEntry(p) \/ LinkBad(p)
                      \/ UnlinkLookup(p) \/ UnlinkErase(p) \/ UnlinkCount(p)
                      \/ CreateLookup(p) \/ CreateExists(p) \/ CreateFill(p) \/ Made(p)
                      \/ OpenLock(p) \/ OpenFile(p) \/ Chdir(p) \/ FileWrite(p) \/ IlockPanics(p)
  \/ \E p \in Procs, c \in Calls : SysName(p, c) \/ SysClose(p, c) \/ SysDup(p, c) \/ SysRead(p, c) \/ SysWrite(p, c)
  \/ Finished

Spec == Init /\ [][Next]_vars

--------------------------------------------------------------------------------
(* Properties *)

\* Steps of p that will drop a reference to s.
Pending(p, s) == Cardinality({k \in DOMAIN proc[p].stk : proc[p].stk[k] \in {Put(s), <<"drop", s>>}})
Holders(s) ==
  Cardinality({p \in Procs : proc[p].cwd = s}) + Cardinality({f \in 1 .. NFILE : file[f].ref > 0 /\ file[f].ip = s})
  + Cardinality({p \in Procs : proc[p].cur = s}) + Cardinality({p \in Procs : proc[p].ip = s})
  + Cardinality({p \in Procs : proc[p].dp = s})
  + FoldSet(LAMBDA p, n : n + Pending(p, s), 0, Procs)

Quiet == \A p \in Procs : fs.log[p] = {} /\ (proc[p].stk = <<>> \/ Head(proc[p].stk)[1] = "write")
Dirs == {d \in Inums : fs.di[d].type = "dir"}

\* Type invariant: the inode cache, disk inodes and open files of fs.c and file.c.
TypeOK ==
  /\ \A s \in Slots : fs.ic[s].inum \in 0 .. NInodes /\ fs.ic[s].ref \in Nat /\ fs.ic[s].lock \in Procs \cup {None}
  /\ \A i \in Inums : fs.di[i].type \in {"free", "dir", "file", "device"} /\ fs.di[i].nlink \in Nat
  /\ fs.bm \subseteq Blocks
  /\ \A f \in 1 .. NFILE : file[f].ref \in Nat /\ file[f].off \in Nat

\* Every reference iget() and idup() gave is dropped once: ip->ref is the number of current
\* directories, open files and calls under way that hold the inode (no leak, no early reuse),
\* and f->ref the number of descriptors.
RefsCounted ==
  /\ \A s \in Slots : fs.ic[s].ref = Holders(s)
  /\ \A f \in 1 .. NFILE : file[f].ref = Cardinality({<<p, fd>> \in Procs \X (1 .. NOFILE) : proc[p].ofile[fd] = f})

\* The cache is write-through: an inode has one entry, and one that is valid and not locked
\* says what the disk says, however iput() of the old and ialloc() of the new inode interleave.
CacheCoherent ==
  /\ \A s, t \in Slots : s # t /\ fs.ic[s].ref > 0 /\ fs.ic[t].ref > 0 => fs.ic[s].inum # fs.ic[t].inum
  /\ \A s \in Slots : fs.ic[s].ref > 0 /\ fs.ic[s].valid /\ fs.ic[s].lock = None => fs.ic[s].m = fs.di[fs.ic[s].inum]

\* iput() takes the inode's lock with icache.lock held, because a last reference means that
\* nobody has it locked (comment in fs.c): it never sleeps there.
IPutNeverBlocks ==
  \A p \in Procs : At(p, "put") /\ fs.ic[Arg(p)].ref = 1 /\ fs.ic[Arg(p)].valid /\ fs.ic[Arg(p)].m.nlink = 0
                   => Free(Arg(p))

\* Whenever the log may commit, the bitmap marks exactly the blocks of allocated inodes, and no
\* block belongs to two of them: balloc(), bmap() and itrunc() neither leak nor share.
BlocksExact ==
  Quiet =>
    LET Of(i) == Range(fs.di[i].addrs) \cup ({fs.di[i].ind} \ {0}) IN
    /\ fs.bm = UNION {Of(i) : i \in Inums}
    /\ \A i, j \in Inums : i # j => Of(i) \cap Of(j) = {}
    /\ \A i \in Inums : Cardinality(Of(i)) = Len(fs.di[i].addrs) + (IF fs.di[i].ind = 0 THEN 0 ELSE 1)

\* Names that count for the links of inode i: its entries and the ".." of directories in it.
Links(i) ==
  Cardinality({<<d, k>> \in Dirs \X (1 .. (NDIRECT + NINDIRECT) * BSIZE) :
                 /\ k \in DOMAIN fs.data[d] /\ fs.data[d][k].i = i /\ fs.data[d][k].n # "."
                 /\ fs.data[d][k].n = ".." => d # ROOTINO /\ fs.di[d].nlink > 0})
  + (IF i = ROOTINO THEN 1 ELSE 0)

\* Whenever the log may commit, link counts are right, names are unique, every name of a linked
\* directory leads to an inode, and an inode without links is one somebody holds, to be freed
\* by the last iput().  Not after an entry was made in a directory already removed.
TreeConsistent ==
  Quiet /\ "orphan" \notin hist =>
    /\ \A i \in Inums : fs.di[i].type # "free" =>
         /\ fs.di[i].nlink = Links(i)
         /\ fs.di[i].nlink = 0 => Cached(fs, i) # {}
    /\ \A d \in Dirs : fs.di[d].nlink > 0 => \A k \in DOMAIN fs.data[d] :
         LET e == fs.data[d][k] IN
         e.i # 0 => fs.di[e.i].type # "free" /\ \A l \in DOMAIN fs.data[d] : l # k /\ fs.data[d][l].i # 0 => fs.data[d][l].n # e.n

\* No assertion of the kernel fails, except ilock()'s for a ".." of a removed directory.
NoPanic == panicked \in {None, "ilock: no type"}

\* A call logs at most MAXOPBLOCKS blocks per transaction, which is what begin_op() reserves;
\* filewrite() splits a long write so that this holds.
OpFitsLog == \A p \in Procs : Cardinality(fs.log[p]) <= MAXOPBLOCKS

\* An offset never passes the end of the file, whoever shares it; unless a copy from the process
\* failed, which writei() reports as a full write.
OffsetInFile ==
  "fault" \notin hist => \A f \in 1 .. NFILE :
    file[f].ref > 0 /\ fs.ic[file[f].ip].lock = None => file[f].off <= fs.di[fs.ic[file[f].ip].inum].size

\* A directory is never changed by write().
DirsNotWritten == \A d \in Dirs : \A k \in DOMAIN fs.data[d] : fs.data[d][k].n # "data"

\* Inodes in memory: counted, one entry each, in step with the disk, and released without sleeping
\* under icache.lock.
InodesRight == TypeOK /\ RefsCounted /\ CacheCoherent /\ IPutNeverBlocks

\* Every state that a commit may make durable is a consistent file system.
DiskConsistent == BlocksExact /\ TreeConsistent

\* write() and the calls that change directories: each transaction fits, offsets stay in the file,
\* and the contents of directories are left to the directory operations.
WritesRight == OpFitsLog /\ OffsetInFile /\ DirsNotWritten
================================================================================
