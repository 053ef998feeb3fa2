--------------------------------- MODULE MCFs ----------------------------------
(***************************************************************************)
(* Two processes on a small tree: /d holds a file or a directory x.        *)
(***************************************************************************)
EXTENDS Fs
CONSTANTS p1, p2

Root == <<"/">>
Entry(nm, i) == [n |-> nm, i |-> i]
Meta(type, nlink, size, addrs) == [NoMeta EXCEPT !.type = type, !.nlink = nlink, !.size = size, !.addrs = addrs]
Cache(i, m, ref) == [inum |-> i, ref |-> ref, valid |-> TRUE, lock |-> None, m |-> m]
Fill(S, f, default) == [i \in S |-> IF i \in DOMAIN f THEN f[i] ELSE default]

RootDir == Meta("dir", 2, 3, <<1>>)
RootData == <<Entry(".", 1), Entry("..", 1), Entry("d", 2)>>
DData == <<Entry(".", 2), Entry("..", 1), Entry("x", 3)>>

\* x is a file, open in both processes since a fork; p1 is in /d.
FileTree ==
  LET d == Meta("dir", 1, 3, <<2>>)
      x == [Meta("file", 1, 4, <<3, 4>>) EXCEPT !.ind = 5]
  IN [di |-> Fill(Inums, <<RootDir, d, x>>, NoMeta),
      data |-> Fill(Inums, <<RootData, DData, [k \in 1 .. 4 |-> Entry("data", 0)]>>, <<>>),
      bm |-> 1 .. 5,
      ic |-> Fill(Slots, <<Cache(1, RootDir, 1), Cache(2, d, 1), Cache(3, x, 1)>>, NoEntry),
      cwd |-> [p \in Procs |-> IF p = p1 THEN 2 ELSE 1],
      ofile |-> [p \in Procs |-> Fill(1 .. NOFILE, <<1>>, 0)],
      file |-> Fill(1 .. NFILE, <<[ref |-> 2, ip |-> 3, off |-> 0, type |-> "file", writable |-> TRUE]>>, NoFile)]

\* x is a directory, and p1 is in it.
DirTree ==
  LET d == Meta("dir", 2, 3, <<2>>)
      x == Meta("dir", 1, 2, <<3>>)
  IN [di |-> Fill(Inums, <<RootDir, d, x>>, NoMeta),
      data |-> Fill(Inums, <<RootData, DData, <<Entry(".", 3), Entry("..", 2)>>>>, <<>>),
      bm |-> {1, 2, 3},
      ic |-> Fill(Slots, <<Cache(1, RootDir, 1), Cache(3, x, 1)>>, NoEntry),
      cwd |-> [p \in Procs |-> IF p = p1 THEN 2 ELSE 1],
      ofile |-> [p \in Procs |-> [fd \in 1 .. NOFILE |-> 0]],
      file |-> [f \in 1 .. NFILE |-> NoFile]]

Dx == <<"/", "d", "x">>
Unlink(path) == [op |-> "unlink", path |-> path]
Make(path, type, major) == [op |-> "make", path |-> path, type |-> type, major |-> major]
Open(path, type, omode) == [op |-> "open", path |-> path, type |-> type, major |-> 0, omode |-> omode]
OnFd(op, n) == [op |-> op, fd |-> 1, n |-> n]

MCMaxCalls == (p1 :> 2) @@ (p2 :> 1)
MCTrees == {FileTree, DirTree}
MCCalls == {
  Unlink(Dx), Unlink(<<"/", "d">>), Unlink(<<".">>),
  Make(<<"/", "d", "y">>, "dir", 0), Make(<<"y">>, "device", 2),
  Open(<<"x">>, "file", "w"), Open(Dx, None, "r"), Open(Dx, None, "w"),
  [op |-> "link", path |-> Dx, new |-> <<"/", "y">>], [op |-> "link", path |-> Dx, new |-> <<"y">>],
  [op |-> "chdir", path |-> <<"..">>],
  OnFd("close", 0), OnFd("dup", 0), OnFd("read", 3), OnFd("write", 10)}
================================================================================
