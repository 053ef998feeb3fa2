---------------------------------- MODULE Udp ----------------------------------
(***************************************************************************)
(* UDP sockets and port numbers: the system calls of sysnet.c, socket.c    *)
(* with its table of ports, the list of control blocks, udp_recv() in the  *)
(* interrupt handler and the reader that puts the rest of a datagram back. *)
(* A byte is its datagram and its position in it.                          *)
(***************************************************************************)
EXTENDS Integers, Sequences, SequencesExt

CONSTANTS
  Socks,       \* control blocks, each used once
  Peers,       \* remote address and port
  Ports, PerByte, \* ports 0 .. Ports - 1 can be handed out, PerByte (8) to a byte
  Sizes, Reads,   \* bytes in a datagram, bytes asked for
  MaxIn        \* bound on the datagrams received

NOPORT == -1   \* the 65535 that get_specified_sport() returns for "used"
None == "none"

VARIABLES
  sport_table, current_sport,
  scb,         \* control blocks
  list,        \* their hash list
  pc, loc,     \* the reader of a socket
  got, in,     \* bytes copied out; datagrams received so far
  hist         \* "shared": a close released a port others still use;
               \* "raced": a datagram was cut off the queue
vars == <<sport_table, current_sport, scb, list, pc, loc, got, in, hist>>

Open == {s \in Socks : scb[s].st \in {"socket", "listen", "linked"}}
NewScb == [st |-> "new", sport |-> NOPORT, peer |-> None, conn |-> FALSE, rxq |-> <<>>, lost |-> FALSE]
NoLoc == [m |-> <<>>, chained |-> FALSE]
Set(s, b) == scb' = [scb EXCEPT ![s] = b]

Init ==
  /\ sport_table = [p \in 0 .. Ports - 1 |-> FALSE] /\ current_sport = 0
  /\ scb = [s \in Socks |-> NewScb] /\ list = <<>>
  /\ pc = [s \in Socks |-> "idle"] /\ loc = [s \in Socks |-> NoLoc]
  /\ got = [s \in Socks |-> <<>>] /\ in = 0 /\ hist = {}

--------------------------------------------------------------------------------
(* Ports *)

FreeFrom(c) == {p \in c .. c + PerByte - 1 : ~sport_table[p]}
\* The bytes of the table in the order they are looked at, from the current one.
ByteAt(i) == (current_sport + i * PerByte) % Ports

\* Faulty variant: a byte that is not full gives its first port.
GetNewSportFirst(p) ==
  \E i \in 0 .. Ports \div PerByte - 1 :
    /\ FreeFrom(ByteAt(i)) # {} /\ \A j \in 0 .. i - 1 : FreeFrom(ByteAt(j)) = {}
    /\ p = ByteAt(i) /\ current_sport' = ByteAt(i)

\* get_new_sport(): p is the first free port of the first byte that has one.
GetNewSport(p) ==
  \E i \in 0 .. Ports \div PerByte - 1 :
    /\ p \in FreeFrom(ByteAt(i)) /\ \A q \in FreeFrom(ByteAt(i)) : p <= q
    /\ \A j \in 0 .. i - 1 : FreeFrom(ByteAt(j)) = {}
    /\ current_sport' = ByteAt(i)

\* get_specified_sport()
GetSpecifiedSport(p) == IF sport_table[p] THEN NOPORT ELSE p

Mark(p, used) == sport_table' = IF p = NOPORT THEN sport_table ELSE [sport_table EXCEPT ![p] = used]

--------------------------------------------------------------------------------
(* System calls *)

\* sys_socket(), sockalloc()
SysSocket(s) ==
  /\ scb[s].st = "new" /\ Set(s, [NewScb EXCEPT !.st = "socket"])
  /\ UNCHANGED <<sport_table, current_sport, list, pc, loc, got, in, hist>>

\* socklisten(): a port in use goes unnoticed.
SockListen(s, p) ==
  /\ Set(s, [scb[s] EXCEPT !.st = "listen", !.sport = GetSpecifiedSport(p)])
  /\ Mark(GetSpecifiedSport(p), TRUE)
  /\ UNCHANGED <<current_sport, list, pc, loc, got, in, hist>>

\* sys_socklisten()
SysSockListen(s, p) == scb[s].st = "socket" /\ SockListen(s, p)

\* sys_sockaccept(): a copy of the listening block, on the same port, is linked.
SysSockAccept(s, new) ==
  /\ scb[s].st = "listen" /\ scb[new].st = "new"
  /\ Set(new, [NewScb EXCEPT !.st = "linked", !.sport = scb[s].sport])
  /\ list' = Append(list, new)
  /\ UNCHANGED <<sport_table, current_sport, pc, loc, got, in, hist>>

\* sockconnect()
SockConnect(s, h) ==
  /\ \E p \in 0 .. Ports - 1 :
       /\ GetNewSport(p) /\ Mark(p, TRUE)
       /\ Set(s, [scb[s] EXCEPT !.st = "linked", !.sport = p, !.peer = h, !.conn = TRUE])
  /\ list' = Append(list, s)
  /\ UNCHANGED <<pc, loc, got, in, hist>>

\* sys_sockconnect()
SysSockConnect(s, h) == scb[s].st = "socket" /\ SockConnect(s, h)

\* sockclose() and free_sock_cb(): the port is released whoever else uses it.  A
\* block that was never given a peer would stay in the list: not closed here.
SockClose(s) ==
  LET b == scb[s] IN
  /\ s \in Open /\ pc[s] = "idle" /\ (b.st = "linked" => b.peer # None)
  /\ Set(s, [NewScb EXCEPT !.st = "freed"])
  /\ Mark(b.sport, FALSE)
  /\ list' = SelectSeq(list, LAMBDA x : x # s)
  /\ hist' = hist \cup {"shared" : x \in {x \in Open \ {s} : scb[x].sport = b.sport}}
  /\ UNCHANGED <<current_sport, pc, loc, got, in>>

--------------------------------------------------------------------------------
(* Datagrams *)

\* Faulty variant: the peer is not compared.
GetSockCbAny(p, h) == SelectSeq(list, LAMBDA s : scb[s].sport = p)

\* get_sock_cb(): the block is the first of these.
GetSockCb(p, h) == SelectSeq(list, LAMBDA s : scb[s].sport = p /\ scb[s].peer \in {None, h})

\* mbufq_pushtail()
PushTail(b, m) ==
  CASE b.rxq = <<>> -> [b EXCEPT !.rxq = <<m>>, !.lost = FALSE]
    [] b.rxq # <<>> /\ b.lost -> b
    [] OTHER -> [b EXCEPT !.rxq = Append(@, m)]

\* udp_recv(): the first datagram fixes the peer of an accepted socket.
UdpRecv(h, p, n) ==
  /\ in < MaxIn /\ in' = in + 1
  /\ IF GetSockCb(p, h) = <<>> THEN UNCHANGED scb
     ELSE LET s == Head(GetSockCb(p, h))
              b == IF scb[s].peer = None THEN [scb[s] EXCEPT !.peer = h] ELSE scb[s]
          IN Set(s, PushTail(b, [i \in 1 .. n |-> [from |-> h, dgram |-> in + 1, pos |-> i, last |-> i = n]]))
  /\ UNCHANGED <<sport_table, current_sport, list, pc, loc, got, hist>>

\* One byte less than what was copied is taken off.
UdpPull(m, n) == SubSeq(m, n, Len(m))

\* sockrecv(): the first datagram is popped and copied; the rest, if any, is put
\* back once its next pointer has been loaded.
SockRecv(s, n) ==
  LET b == scb[s]
      m == Head(b.rxq)
      k == IF n > Len(m) THEN Len(m) ELSE n
  IN
  /\ b.st = "linked" /\ pc[s] = "idle" /\ b.rxq # <<>>
  /\ Set(s, [b EXCEPT !.rxq = Tail(@)])
  /\ got' = [got EXCEPT ![s] = @ \o SubSeq(m, 1, k)]
  /\ IF Len(m) > n - 1
     THEN /\ pc' = [pc EXCEPT ![s] = "push"]
          /\ loc' = [loc EXCEPT ![s] = [m |-> UdpPull(m, n), chained |-> Len(b.rxq) > 1]]
     ELSE UNCHANGED <<pc, loc>>
  /\ UNCHANGED <<sport_table, current_sport, list, in, hist>>

\* mbufq_pushhead() without the lock
PushHead(s) ==
  LET cut == ~loc[s].chained /\ scb[s].rxq # <<>> IN
  /\ pc[s] = "push" /\ pc' = [pc EXCEPT ![s] = "idle"]
  /\ Set(s, IF cut THEN [scb[s] EXCEPT !.rxq = <<loc[s].m>>, !.lost = TRUE]
            ELSE [scb[s] EXCEPT !.rxq = <<loc[s].m>> \o @])
  /\ loc' = [loc EXCEPT ![s] = NoLoc]
  /\ hist' = IF cut THEN hist \cup {"raced"} ELSE hist
  /\ UNCHANGED <<sport_table, current_sport, list, got, in>>

\* MaxIn bounds the copies too: a read of one byte can repeat for ever.
Next ==
  \/ \E s \in Socks : SysSocket(s) \/ SockClose(s) \/ PushHead(s)
  \/ \E s \in Socks, p \in 0 .. Ports - 1 : SysSockListen(s, p)
  \/ \E s, new \in Socks : SysSockAccept(s, new)
  \/ \E s \in Socks, h \in Peers : SysSockConnect(s, h)
  \/ \E h \in Peers, p \in 0 .. Ports - 1, n \in Sizes : UdpRecv(h, p, n)
  \/ \E s \in Socks, n \in Reads : Len(got[s]) < 2 * MaxIn /\ SockRecv(s, n)

Spec == Init /\ [][Next]_vars

--------------------------------------------------------------------------------
\* get_new_sport() gives a connecting socket a port that no other open socket has,
\* until a close releases a port that is shared with a listening socket.
PortsExclusive ==
  "shared" \notin hist =>
    \A s, t \in Open : s # t /\ scb[s].conn => scb[s].sport # scb[t].sport

\* A socket delivers the datagrams of one peer only: the one it connected to, or
\* the first to send to it.
OnePeer ==
  \A s \in Socks : scb[s].st = "linked" =>
    /\ \A i \in DOMAIN got[s] : got[s][i].from = scb[s].peer
    /\ \A i \in DOMAIN scb[s].rxq : \A j \in DOMAIN scb[s].rxq[i] : scb[s].rxq[i][j].from = scb[s].peer

\* No byte is skipped: the next byte read is the one after, or again, the last
\* one of its datagram, or the first of a later one after the end of this.
NoGap ==
  \A s \in Socks : \A i \in 1 .. Len(got[s]) - 1 :
    LET a == got[s][i]
        b == got[s][i + 1]
    IN IF a.dgram = b.dgram THEN b.pos \in {a.pos, a.pos + 1} ELSE a.last /\ b.pos = 1 /\ a.dgram < b.dgram

\* A reader gets the bytes of its own peer's datagrams, none skipped.
DatagramsKept == OnePeer /\ NoGap
================================================================================
