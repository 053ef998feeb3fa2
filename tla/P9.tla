----------------------------------- MODULE P9 -----------------------------------
(***************************************************************************)
(* The 9P file server (user/9psv): receiving requests from the TCP stream, *)
(* the handlers of server.c, fids with their hash map (intmap.c), file     *)
(* descriptors and offsets, and stopping.  The state of the server and of  *)
(* the files it serves is a record that the handlers transform; one        *)
(* handler is one step.  Names are not built from characters: a path is    *)
(* a sequence of names.  Using memory that was freed, or parsing a message *)
(* of which a part is missing, leaves the server "confused": what it does  *)
(* then is not modelled.                                                   *)
(***************************************************************************)
EXTENDS Integers, Sequences, FiniteSets, FiniteSetsExt, SequencesExt, Functions, TLC

CONSTANTS
  Fids,        \* numbers a client uses as fids
  NHASH,       \* lists of the hash map
  Fds,         \* descriptors left for files
  Starts,      \* states the server may start in
  Reqs,        \* requests a client may send
  Window,      \* requests it may have outstanding
  Piped,       \* ... those it may send before the answer to another
  MaxReqs, MaxNodes

VARIABLES
  s,      \* [hash, fid, files, open, tree, node, err, st, got]
  pend,   \* requests sent and not handled yet
  rsize,  \* units received and not handled; a request is two units
  pc,
  cl,     \* the client's own list: [path: fid |-> path, open: fids, attached]
  rude,   \* what a client did that the server is not made for
  odd,    \* what happened in the server that makes a descriptor's position unknown
  sent
vars == <<s, pend, rsize, pc, cl, rude, odd, sent>>

NoPath == <<"none">>
Root == 1      \* srv->fs->root
Null == 0
Without(f, x) == Restrict(f, DOMAIN f \ {x})
Fresh(f) == Min((1 .. 9) \ DOMAIN f)
Confused(x) == [x EXCEPT !.st = "confused"]
Err(x) == [x EXCEPT !.err = TRUE]

--------------------------------------------------------------------------------
(* intmap.c: lists of [id, aux] *)

Hash(x, id) == x.hash[id % NHASH]
Keyed(x, id) == SelectInSeq(Hash(x, id), LAMBDA e : e.id = id)
LookupKey(x, id) == IF Keyed(x, id) = 0 THEN Null ELSE Hash(x, id)[Keyed(x, id)].aux
InsertKey(x, id, v) == [x EXCEPT !.hash[id % NHASH] = <<[id |-> id, aux |-> v]>> \o @]
DeleteKey(x, id) == IF Keyed(x, id) = 0 THEN x ELSE [x EXCEPT !.hash[id % NHASH] = RemoveAt(@, Keyed(x, id))]

--------------------------------------------------------------------------------
(* The system calls the server makes *)

Exists(x, path) == path \in DOMAIN x.tree
IsDir(x, path) == x.node[x.tree[path]].dir
FreeFds(x) == Fds \ DOMAIN x.open
\* open() for reading, or reading and writing: a descriptor, or -1
CanOpen(x, path, rw) == Exists(x, path) /\ FreeFds(x) # {} /\ ~(rw /\ IsDir(x, path))
OpenFd(x, path, rw) == IF CanOpen(x, path, rw) THEN Min(FreeFds(x)) ELSE -1
Open(x, path, rw) ==
  IF CanOpen(x, path, rw) THEN [x EXCEPT !.open = Min(FreeFds(x)) :> [ino |-> x.tree[path], off |-> 0] @@ @] ELSE x
Close(x, fd) == [x EXCEPT !.open = Without(@, fd)]
Data(x, fd) == x.node[x.open[fd].ino].data
\* A directory is never empty; its bytes are not told apart.
DirData == <<0, 0>>
CanMake(x, path) == path # <<>> /\ Exists(x, Front(path)) /\ IsDir(x, Front(path))
Make(x, path, dir) ==
  LET i == Fresh(x.node)
  IN [x EXCEPT !.tree = path :> i @@ @, !.node = i :> [dir |-> dir, data |-> IF dir THEN DirData ELSE <<>>] @@ @]
CanUnlink(x, path) == path # <<>> /\ Exists(x, path) /\ ~\E q \in DOMAIN x.tree : Len(q) > Len(path) /\ IsPrefix(path, q)

\* p9_getqid(), p9_getstat(), p9_getdir(): need a descriptor for a moment.
GetQid(x, path) == CanOpen(x, path, FALSE)
GetStat(x, path) == CanOpen(x, path, FALSE)
GetDir(x, path) == CanOpen(x, path, FALSE)

--------------------------------------------------------------------------------
(* fid.c, file.c *)

\* The descriptor of a fid is closed with it.
CloseFid(x, fd) == IF fd = -1 THEN x ELSE Close(x, fd)

\* p9_freefile(): a file that is not there, or not any more, is freed all the same.
FreeFile(x, file) == IF file \in DOMAIN x.files THEN [x EXCEPT !.files = Without(@, file)] ELSE Confused(x)

\* freefid()
FreeFid(x, f) ==
  LET e == x.fid[f]
      y == FreeFile(x, e.file)
  IN IF y.st = "confused" THEN y
     ELSE [CloseFid(DeleteKey(y, e.fid), e.fd) EXCEPT !.fid = Without(@, f)]

AllocFile(x, path) == [x EXCEPT !.files = Fresh(@) :> path @@ @]

\* p9_allocfid(): a fid that is in use is freed together with the new one's file.
AllocFid(x, id, file) ==
  LET f == Fresh(x.fid)
      y == [x EXCEPT !.fid = f :> [fid |-> id, fd |-> -1, file |-> file, offset |-> 0] @@ @]
  IN IF LookupKey(x, id) # Null THEN Err(FreeFid(y, f)) ELSE InsertKey(y, id, f)

\* The path of a fid; the file may be gone.
FileOf(x, f) == x.fid[f].file
Path(x, f) == x.files[FileOf(x, f)]

--------------------------------------------------------------------------------
(* Handlers: state x, request r *)

\* rattach()
RAttach(x, r) ==
  IF LookupKey(x, r.fid) # Null THEN Confused(AllocFid(x, r.fid, Root))  \* p9_geterrstr() of no error
  ELSE LET y == AllocFid(x, r.fid, Root)
       IN IF r.afid THEN Err(y)
          ELSE IF Root \notin DOMAIN x.files THEN Confused(y)
          ELSE IF ~GetQid(y, y.files[Root]) THEN Err(y) ELSE y

\* rwalk(): every prefix must exist; the new fid has the whole path.
RWalk(x, r, f) ==
  LET path == Path(x, f) \o r.names
  IN IF \E i \in 1 .. Len(r.names) : ~GetQid(x, Path(x, f) \o SubSeq(r.names, 1, i)) THEN Err(x)
     ELSE LET y == AllocFid(x, r.newfid, Null)
          IN IF y.err THEN [y EXCEPT !.st = IF @ = "run" THEN "fail" ELSE @]
             ELSE [AllocFile(y, path) EXCEPT !.fid[LookupKey(y, r.newfid)].file = Fresh(y.files)]

\* ropen(): a descriptor the fid already has is lost.
ROpen(x, r, f) ==
  LET p == Path(x, f) IN
  IF ~GetQid(x, p) THEN Err(x)
  ELSE LET rw == ~IsDir(x, p)
           y == [Open(x, p, rw) EXCEPT !.fid[f].fd = OpenFd(x, p, rw)]
       IN IF OpenFd(x, p, rw) = -1 THEN Err(y) ELSE y

\* Faulty variant: the offset is kept when the file is opened again.
RewoundNot(e) == e.offset
Rewound(e) == 0

\* What to_offset() reads and throws away.
ToSkip(offset, from) == offset - from

\* to_offset(): backwards by opening the file again, forwards by reading.  At the end of the file
\* it reads nothing for ever.
ToOffset(x, f, offset) ==
  LET e == x.fid[f]
      back == e.offset > offset
      closed == Close(x, e.fd)
      fd == IF back THEN OpenFd(closed, Path(x, f), TRUE) ELSE e.fd
      y == IF back THEN [Open(closed, Path(x, f), TRUE) EXCEPT !.fid[f].fd = fd, !.fid[f].offset = IF fd = -1 THEN @ ELSE Rewound(e)]
           ELSE x
      diff == ToSkip(offset, y.fid[f].offset)
      left == Len(Data(y, fd)) - y.open[fd].off
  IN IF e.fd = -1 \/ fd = -1 THEN Err(y)
     ELSE IF diff > 0 /\ diff > left THEN [y EXCEPT !.st = "hung"]
     ELSE [y EXCEPT !.fid[f].offset = offset, !.open[fd].off = @ + (IF diff > 0 THEN diff ELSE 0)]

Going(y) == ~y.err /\ y.st = "run"

\* read_file(): the offset advances by what was asked for.
ReadFile(x, r, f) ==
  LET y == ToOffset(x, f, r.offset)
      fd == y.fid[f].fd
      off == y.open[fd].off
      n == Min({r.count, Len(Data(y, fd)) - off})
  IN IF x.fid[f].fd = -1 THEN Err(x)
     ELSE IF ~Going(y) THEN y
     ELSE [y EXCEPT !.got = SubSeq(Data(y, fd), off + 1, off + n),
                    !.open[fd].off = off + n, !.fid[f].offset = @ + r.count]

\* read_dir(): a directory is listed as a whole at offset 0; a failure is answered with no entries.
ReadDir(x, r, f) ==
  IF r.offset > 0 \/ ~GetDir(x, Path(x, f)) THEN x
  ELSE [x EXCEPT !.got = <<".", "..">> \o SetToSeq({Last(p) : p \in {q \in DOMAIN x.tree : q # <<>> /\ Front(q) = Path(x, f)}})]

\* rread()
RRead(x, r, f) ==
  IF ~GetQid(x, Path(x, f)) THEN Err(x)
  ELSE IF IsDir(x, Path(x, f)) THEN ReadDir(x, r, f) ELSE ReadFile(x, r, f)

\* rwrite()
Overwrite(d, off, v) == SubSeq(d, 1, off) \o v \o SubSeq(d, off + Len(v) + 1, Len(d))
RWrite(x, r, f) ==
  LET opened == x.fid[f].fd = -1
      w == IF opened THEN [Open(x, Path(x, f), TRUE) EXCEPT !.fid[f].fd = OpenFd(x, Path(x, f), TRUE)] ELSE x
      y == ToOffset(w, f, r.offset)
      fd == y.fid[f].fd
  IN IF w.fid[f].fd = -1 THEN Err(w)
     ELSE IF ~Going(y) THEN y
     ELSE IF y.node[y.open[fd].ino].dir THEN Err(y)
     ELSE [y EXCEPT !.node[y.open[fd].ino].data = Overwrite(@, y.open[fd].off, r.data),
                    !.open[fd].off = @ + Len(r.data), !.fid[f].offset = @ + Len(r.data)]

\* rcreate() moves the fid to the new file.
CreatedPath(parent, name) == Append(parent, name)

\* Faulty variant: the new fid is allocated first.
ReplacedFirst(x, f, id) == FreeFid(AllocFid(x, id, Null), f)
\* ... by freeing the fid and allocating it again.
Replaced(x, f, id) == AllocFid(FreeFid(x, f), id, Null)

RCreate(x, r, f) ==
  LET parent == Path(x, f)
      path == Append(parent, r.name)
      ok == IF r.dir THEN CanMake(x, path) /\ ~Exists(x, path)
            ELSE CanMake(x, path) /\ FreeFds(x) # {} /\ (Exists(x, path) => ~IsDir(x, path))
      y == IF Exists(x, path) THEN x ELSE Make(x, path, r.dir)
      z == Replaced(y, f, r.fid)
  IN IF ~ok THEN Err(x)
     ELSE IF ~GetQid(y, path) THEN Err(y)
     ELSE IF z.st # "run" THEN z
     ELSE [AllocFile(z, CreatedPath(parent, r.name)) EXCEPT !.fid[LookupKey(z, r.fid)].file = Fresh(z.files)]

\* rremove(): the fid goes, whether or not the file could be removed.
RRemove(x, r, f) ==
  IF CanUnlink(x, Path(x, f)) THEN FreeFid([x EXCEPT !.tree = Without(@, Path(x, f))], f) ELSE FreeFid(Err(x), f)

\* rclunk()
RClunk(x, r, f) == FreeFid(DeleteKey(x, r.fid), f)

\* rstat()
RStat(x, r, f) == IF GetStat(x, Path(x, f)) THEN x ELSE Err(x)

\* A handler that needs its fid, with a file that is still there.
WithFid(x, r) ==
  LET f == LookupKey(x, r.fid) IN
  IF f = Null THEN Err(x)
  ELSE IF f \notin DOMAIN x.fid THEN Confused(x)
  ELSE IF FileOf(x, f) \notin DOMAIN x.files THEN Confused(x)
  ELSE CASE r.t = "walk" -> RWalk(x, r, f)
         [] r.t = "open" -> ROpen(x, r, f)
         [] r.t = "read" -> RRead(x, r, f)
         [] r.t = "write" -> RWrite(x, r, f)
         [] r.t = "create" -> RCreate(x, r, f)
         [] r.t = "remove" -> RRemove(x, r, f)
         [] r.t = "clunk" -> RClunk(x, r, f)
         [] r.t = "stat" -> RStat(x, r, f)

\* rversion(): an answer, nothing else.
RVersion(x) == x
\* rflush(): the server stops after the answer.
RFlush(x) == [x EXCEPT !.st = "done"]

\* rfuncs, rwstat(), rignore(): a request the server cannot parse (auth) ends it as well.
Handle(x, r) ==
  CASE r.t = "version" -> RVersion(x)
    [] r.t = "wstat" -> x
    [] r.t = "flush" -> RFlush(x)
    [] r.t = "auth" -> [x EXCEPT !.st = "done"]
    [] r.t = "attach" -> RAttach(x, r)
    [] OTHER -> WithFid(x, r)

\* stop_server(), p9_freefidpool(): freemap() frees an entry of the map that freefid() has freed.
Stop(x) == IF \E h \in 0 .. NHASH - 1 : x.hash[h] # <<>> THEN Confused(x) ELSE [x EXCEPT !.st = "stopped"]

--------------------------------------------------------------------------------
(* The answer, and the client's own list of fids *)

\* respond(): the reply to the request, or Rerror.
Respond(y) == ~y.err

\* What a reply that is no error does to it.
Client(r) ==
  CASE r.t = "attach" -> [cl EXCEPT !.path[r.fid] = <<>>, !.attached = TRUE]
    [] r.t = "walk" -> [cl EXCEPT !.path[r.newfid] = cl.path[r.fid] \o r.names]
    [] r.t = "open" -> [cl EXCEPT !.open = @ \cup {r.fid}]
    [] r.t = "create" -> [cl EXCEPT !.path[r.fid] = Append(@, r.name), !.open = @ \cup {r.fid}]
    [] r.t \in {"clunk", "remove"} -> [cl EXCEPT !.path[r.fid] = NoPath, !.open = @ \ {r.fid}]
    [] OTHER -> cl

\* Requests that a careful client would not make, judged by its own list.
Beyond(path, n) == Exists(s, path) => n > Len(s.node[s.tree[path]].data)
Careless(r) ==
  {w \in {"twice", "afid", "inuse", "reopened", "unopened", "pastend"} :
     CASE w = "twice" -> r.t = "attach" /\ cl.attached
       [] w = "afid" -> r.t = "attach" /\ r.afid
       [] w = "inuse" -> r.t = "walk" /\ cl.path[r.newfid] # NoPath
       [] w = "reopened" -> r.t = "open" /\ r.fid \in cl.open
       [] w = "unopened" -> r.t \in {"read", "write"} /\ r.fid \notin cl.open
       [] w = "pastend" -> r.t \in {"read", "write"} /\ cl.path[r.fid] # NoPath /\ Beyond(cl.path[r.fid], r.offset)}

--------------------------------------------------------------------------------
\* initserver()
InitServer(tree, node) ==
  [hash |-> [h \in 0 .. NHASH - 1 |-> <<>>], fid |-> <<>>, files |-> Root :> <<>>, open |-> <<>>,
   tree |-> tree, node |-> node, err |-> FALSE, st |-> "run", got |-> <<>>]

Init ==
  /\ \E b \in Starts : s = b.s /\ cl = b.cl /\ rude = {}
  /\ pend = <<>> /\ rsize = 0 /\ pc = "recv" /\ odd = {} /\ sent = 0

Run == s.st = "run"
\* The client has fids it did not clunk.
Leaves == \E g \in Fids : cl.path[g] # NoPath

Send(r) ==
  /\ Run /\ sent < MaxReqs /\ Len(pend) < Window /\ (pend = <<>> \/ r \in Piped)
  /\ r.t = "create" => Cardinality(DOMAIN s.node) < MaxNodes
  /\ pend' = Append(pend, r) /\ sent' = sent + 1
  /\ rude' = IF pend = <<>> THEN rude ELSE rude \cup {"pipelined"}
  /\ UNCHANGED <<s, rsize, pc, cl, odd>>

\* p9_recvreq(): read some of what has come, and more until the first request is whole.
RecvRead(k) ==
  /\ Run /\ pend # <<>>
  /\ pc = "more" \/ (pc = "recv" /\ rsize = 0)
  /\ rsize + k <= 2 * Len(pend)
  /\ rsize' = rsize + k /\ pc' = IF rsize + k < 2 THEN "more" ELSE "handle"
  /\ UNCHANGED <<s, pend, cl, rude, odd, sent>>

\* What is left from the read before is taken for a whole request.
RecvRest ==
  /\ Run /\ pc = "recv" /\ rsize > 0
  /\ IF rsize < 2 THEN s' = Confused(s) /\ UNCHANGED pc ELSE pc' = "handle" /\ UNCHANGED s
  /\ UNCHANGED <<pend, rsize, cl, rude, odd, sent>>

\* One round of main(): a handler, then respond().
Serve ==
  LET r == Head(pend)
      y == Handle([s EXCEPT !.err = FALSE, !.got = <<>>], r)
      f == LookupKey(s, r.fid)
  IN /\ Run /\ pc = "handle"
     /\ s' = IF y.st \in {"done", "fail"} THEN Stop(y) ELSE y
     /\ pend' = Tail(pend) /\ rsize' = rsize - 2 /\ pc' = "recv"
     /\ cl' = IF (~Respond(y) /\ r.t # "remove") \/ (cl.path[r.fid] = NoPath /\ r.t # "attach") THEN cl ELSE Client(r)
     /\ rude' = rude \cup Careless(r) \cup (IF y.st = "done" /\ Leaves THEN {"left"} ELSE {})
     /\ odd' = odd \cup (IF r.t = "read" /\ ~y.err /\ y.st = "run" /\ ~IsDir(y, Path(y, f)) /\ Len(y.got) < r.count THEN {"short"} ELSE {})
                   \cup (IF r.t \in {"read", "write"} /\ y.err /\ f \in DOMAIN s.fid /\ s.fid[f].fd # -1 /\ y.fid[f].fd = -1 THEN {"lost"} ELSE {})
     /\ UNCHANGED sent

\* The client closes the connection when all is answered.
Hangup ==
  /\ Run /\ pc = "recv" /\ pend = <<>>
  /\ s' = Stop(s)
  /\ rude' = IF Leaves THEN rude \cup {"left"} ELSE rude
  /\ UNCHANGED <<pend, rsize, pc, cl, odd, sent>>

Next ==
  \/ \E r \in Reqs : Send(r)
  \/ \E k \in 1 .. 2 * Window : RecvRead(k)
  \/ RecvRest \/ Serve \/ Hangup

Spec == Init /\ [][Next]_vars

--------------------------------------------------------------------------------
(* Properties *)

\* The client's list and the server's may differ.
Misnamed == rude \cap {"twice", "inuse", "afid"} # {}
\* The server may have opened a file twice for a fid.
Misopened == rude \cap {"reopened", "unopened"} # {}

\* A client that attaches once, has one request outstanding, uses a new number for a new fid and
\* clunks them all before it leaves never makes the server use freed memory or half a message.
NotConfused == s.st = "confused" => Misnamed \/ rude \cap {"pipelined", "left"} # {}

\* Handlers keep the fid table as the client sees it: each fid stands for the path that the answers
\* to attach, walk, create, clunk and remove gave it, and no other fid exists.
FidsAgree ==
  Run /\ ~Misnamed =>
    \A id \in Fids : cl.path[id] = LET f == LookupKey(s, id) IN IF f = Null THEN NoPath ELSE Path(s, f)

\* The descriptors the server has open are those of its fids, one each, unless an open fid is opened
\* again: none is lost by any handler or by to_offset().
FdsOwned ==
  Run /\ ~Misnamed /\ ~Misopened =>
    LET owners == {f \in DOMAIN s.fid : s.fid[f].fd # -1}
    IN /\ DOMAIN s.open = {s.fid[f].fd : f \in owners}
       /\ Cardinality(owners) = Cardinality(DOMAIN s.open)

\* A descriptor is where its fid says it is, so that read and write happen at the offset asked for.
\* read_file() loses the position at the end of the file, and a failed reopening loses it as well.
PositionKept ==
  Run /\ ~Misnamed /\ ~Misopened /\ odd = {} =>
    \A f \in DOMAIN s.fid : s.fid[f].fd # -1 => s.open[s.fid[f].fd].off = s.fid[f].offset

\* to_offset() comes to an end unless the client asks for an offset past the end of the file, or the
\* file is not there any more.
OnlyPastEndHangs == s.st = "hung" /\ ~Misnamed => "pastend" \in rude

\* The server and a client that keeps to the protocol agree on what a fid is: its path, its
\* descriptor and its position.
ServerAgrees == FidsAgree /\ FdsOwned /\ PositionKept

\* A client that keeps to the protocol neither confuses nor hangs the server.
KeepsServing == NotConfused /\ OnlyPastEndHangs
================================================================================
