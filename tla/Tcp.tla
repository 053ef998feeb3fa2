---------------------------------- MODULE Tcp ----------------------------------
(***************************************************************************)
(* kernel/net/tcp.c, socket.c, sock_cb.c and the packet queues of mbuf.c:  *)
(* two kernels, one that connects and one that listens, over a network     *)
(* that may lose, duplicate, delay and reorder segments.  A segment in     *)
(* net may be delivered at any time, any number of times, or never.        *)
(*                                                                         *)
(* tcp_recv() runs in the interrupt handler of the card and is one step.   *)
(* It takes no lock that a system call holds while it works on a control   *)
(* block, so system calls are cut where the handler can change what they   *)
(* have read; where both store to the same field, either store may be last.*)
(*                                                                         *)
(* A byte is the socket that sent it and its position in the stream.       *)
(* snd.wnd, wl1 and wl2 are written and never read, and are left out.      *)
(***************************************************************************)
EXTENDS Integers, Sequences, SequencesExt, FiniteSets

CONSTANTS
  Client,          \* the socket that connects
  Accepts,         \* sequence of the sockets accept() makes, in order
  SOCK_CB_WND,     \* SOCK_CB_DEFAULT_WND_SIZE
  TCP_MAX_DATA,
  SeqSpace,        \* sequence numbers are modulo SeqSpace (2^32 in the code)
  Apps             \* what the applications do, see Application

Servers == {Accepts[i] : i \in DOMAIN Accepts}
Socks == Servers \cup {Client}
Peers(s) == IF s = Client THEN Servers ELSE {Client}

\* Which sockets setnonblock() marks, how often accept() is called, sizes of the
\* calls of write() and read(), bound on the bytes each socket sends, which
\* sockets may be closed before the peer is, whether a process may be killed, and
\* whether the connection is set up to begin with.
Application ==
  [nonblock : SUBSET Socks, accepts : DOMAIN Accepts, writes : SUBSET Nat, reads : SUBSET Nat,
   max : [Socks -> Nat], early : SUBSET Socks, kill : BOOLEAN, established : BOOLEAN]

ASSUME TcpAssumption ==
  /\ Client \notin Servers /\ Apps \subseteq Application
  /\ {SOCK_CB_WND, TCP_MAX_DATA, SeqSpace} \subseteq Nat \ {0}
  /\ \A a \in Apps : 0 \notin a.writes \cup a.reads

VARIABLES
  app,    \* the applications, from Apps
  scb,    \* the control blocks
  chain,  \* tcp_scb_table: linked control blocks of each kernel, in list order
  net,    \* segments sent
  pc,     \* the process using a socket: where it is in a system call
  loc,    \* its local variables
  sent, got, \* bytes handed to tcp_send(), bytes sockrecv() copied out
  hist    \* history: "raced" a packet was lost in the queue, "eof" recv failed,
          \* "reset" the connection was reset

vars == <<app, scb, chain, net, pc, loc, sent, got, hist>>

\* enum sock_cb_state, and two marks for memory not allocated or freed
States == {"CLOSED", "LISTEN", "SYN_SENT", "SYN_RCVD", "ESTAB", "FIN_WAIT_1",
           "FIN_WAIT_2", "CLOSING", "TIME_WAIT", "CLOSE_WAIT", "LAST_ACK"}

Kernel(s) == IF s = Client THEN "client" ELSE "server"
Live(s) == scb[s].state \in States

\* struct sock_cb: f, slock, state, dport, snd, rcv and the two queues; lost is
\* TRUE when rxq.tail is not reachable from rxq.head.
NewScb(state) ==
  [state |-> state, f |-> TRUE, slock |-> FALSE, dport |-> FALSE,
   nxt |-> 0, unack |-> 0, rcvnxt |-> 0, wnd |-> SOCK_CB_WND,
   txq |-> <<>>, rxq |-> <<>>, lost |-> FALSE]
Freed == [NewScb("freed") EXCEPT !.f = FALSE]
NoLoc == [left |-> 0, m |-> <<>>, psh |-> FALSE, wnd |-> 0, state |-> "CLOSED", chained |-> FALSE]

Add(a, b) == (a + b) % SeqSpace
At(s, from, to) == pc[s] = from /\ pc' = [pc EXCEPT ![s] = to]
Set(s, b) == scb' = [scb EXCEPT ![s] = b]

\* tcp_send_core()
Segment(s, seq, ack, flg, data) ==
  [from |-> Kernel(s), seq |-> seq, ack |-> IF "ACK" \in flg THEN ack ELSE 0,
   flg |-> flg, data |-> data]
AckOf(s, b) == Segment(s, b.nxt, b.rcvnxt, {"ACK"}, <<>>)

\* add_sock_cb(): at the end of the list
\* Faulty variant: at its head.
AddFront(k, s) == [chain EXCEPT ![k] = <<s>> \o @]
AddSockCb(k, s) == [chain EXCEPT ![k] = Append(@, s)]

\* free_sock_cb(): the file goes if there still is one, the block is unlinked
\* only when dport is set.
FreeScb(s, b) ==
  /\ Set(s, Freed)
  /\ chain' = IF b.dport THEN [chain EXCEPT ![Kernel(s)] = SelectSeq(@, LAMBDA x : x # s)]
              ELSE chain

\* mbufq_pushtail(): to the last packet of the list, which may be out of reach.
PushTail(b, g) ==
  LET m == [data |-> g.data, psh |-> "PSH" \in g.flg] IN
  CASE b.rxq = <<>> -> [b EXCEPT !.rxq = <<m>>, !.lost = FALSE]
    [] b.lost       -> b
    [] OTHER        -> [b EXCEPT !.rxq = Append(@, m)]

\* Nothing is set up, or accept() and connect() have returned and the segments
\* they exchanged are still about.
Init ==
  LET s == Accepts[1]
      start == [x \in Socks |-> IF x = Client THEN NewScb("CLOSED") ELSE Freed]
      estab == [NewScb("ESTAB") EXCEPT !.dport = TRUE, !.nxt = 1, !.rcvnxt = 1]
  IN
  /\ app \in Apps
  /\ scb = IF app.established THEN [start EXCEPT ![Client] = [estab EXCEPT !.unack = 1], ![s] = estab] ELSE start
  /\ chain = [k \in {"client", "server"} |->
               IF ~app.established THEN <<>> ELSE IF k = "client" THEN <<Client>> ELSE <<s>>]
  /\ net = IF app.established
           THEN {Segment(Client, 0, 0, {"SYN"}, <<>>), Segment(s, 0, 1, {"SYN", "ACK"}, <<>>), AckOf(Client, estab)}
           ELSE {}
  /\ pc = [x \in Socks |-> IF app.established /\ x \in {Client, s} THEN "open" ELSE "new"]
  /\ loc = [x \in Socks |-> NoLoc]
  /\ sent = [x \in Socks |-> 0] /\ got = [x \in Socks |-> <<>>]
  /\ hist = [x \in Socks |-> {}]

--------------------------------------------------------------------------------
(* The arrival of a segment.  Each check returns the control block, a TCP_OP   *)
(* code and the segments sent in reply.                                        *)

Res(op, b, out) == [op |-> op, b |-> b, out |-> out]

\* is_seq_valid()
IsSeqValid(wnd, nxt, seq, len) ==
  LET In(x) == nxt <= x /\ x < Add(nxt, wnd) IN
  IF wnd = 0 THEN len = 0 /\ seq = nxt
  ELSE In(seq) \/ (len > 0 /\ In((seq + len - 1) % SeqSpace))

\* tcp_recv_listen()
RecvListen(s, b, g) ==
  CASE "RST" \in g.flg -> Res("ERR", b, {})
    [] "ACK" \in g.flg /\ "RST" \notin g.flg ->
         Res("ERR", b, {Segment(s, g.ack, 0, {"RST", "ACK"}, <<>>)})
    [] "SYN" \in g.flg /\ g.flg \cap {"RST", "ACK"} = {} ->
         LET c == [b EXCEPT !.dport = TRUE, !.wnd = SOCK_CB_WND, !.rcvnxt = Add(g.seq, 1),
                            !.nxt = 1, !.unack = 0, !.state = "SYN_RCVD"]
         IN Res("OK", c, {Segment(s, 0, c.rcvnxt, {"SYN", "ACK"}, <<>>)})
    [] OTHER -> Res("ERR", b, {})

\* tcp_recv_syn_sent(); snd.init_seq is 0.
RecvSynSent(s, b, g) ==
  CASE "ACK" \in g.flg /\ (g.ack <= 0 \/ g.ack > b.nxt) ->
         Res("ERR", [b EXCEPT !.nxt = 1], {Segment(s, b.nxt, b.rcvnxt, {"RST", "ACK"}, <<>>)})
    [] {"SYN", "ACK"} \subseteq g.flg /\ "RST" \notin g.flg /\ g.ack \in 1 .. b.nxt ->
         LET c == [b EXCEPT !.rcvnxt = Add(g.seq, 1), !.unack = g.ack,
                            !.state = "ESTAB", !.slock = FALSE]
         IN Res("OK", c, {AckOf(s, c)})
    [] OTHER -> Res("ERR", b, {})

\* check_rst() and check_syn(): every state that gets here is in their lists.
CheckRst(s, b, g) == Res(IF "RST" \in g.flg THEN "CLOSE_SCB" ELSE "OK", b, {})
CheckSyn(s, b, g) ==
  IF "SYN" \in g.flg THEN Res("CLOSE_SCB", b, {Segment(s, g.ack, 0, {"RST"}, <<>>)})
  ELSE Res("OK", b, {})

\* is_valid_nxtack.  Faulty variant: what was not sent can be acknowledged.
NxtAckUnbounded(b, g) == b.unack < g.ack
NxtAck(b, g) == b.unack < g.ack /\ g.ack <= b.nxt

\* check_ack() and the replies of its caller.
CheckAck(s, b, g) ==
  LET next == NxtAck(b, g)
      c == [b EXCEPT !.unack = IF next THEN g.ack ELSE @, !.state = IF @ = "FIN_WAIT_1" THEN "FIN_WAIT_2" ELSE @]
  IN CASE "ACK" \notin g.flg -> Res("ERR", b, {})
       [] "ACK" \in g.flg /\ b.state = "SYN_RCVD" ->
            IF next THEN Res("OK", [b EXCEPT !.state = "ESTAB", !.slock = FALSE], {})
            ELSE Res("ERR", b, {Segment(s, b.nxt, 0, {"RST"}, <<>>)})
       [] "ACK" \in g.flg /\ b.state = "LAST_ACK" -> Res("CLOSE_SCB", b, {})
       [] "ACK" \in g.flg /\ b.state \in {"ESTAB", "FIN_WAIT_1", "FIN_WAIT_2", "CLOSE_WAIT", "CLOSING"} ->
            CASE ~next /\ g.ack < b.unack -> Res("ERR", b, {})
              [] ~next /\ b.nxt < g.ack -> Res("ERR", b, {AckOf(s, b)})
              [] OTHER -> Res(IF b.state = "CLOSING" THEN "CLOSE_SCB" ELSE "OK", c, {})
       [] OTHER -> Res("OK", b, {})

\* Faulty variant: text is taken wherever it lies in the window.
CheckTextAnywhere(s, b, g) ==
  IF g.data # <<>> /\ b.state \in {"ESTAB", "FIN_WAIT_1", "FIN_WAIT_2"} /\ b.wnd > Len(g.data)
  THEN LET c == [PushTail(b, g) EXCEPT !.rcvnxt = Add(g.seq, Len(g.data)), !.wnd = @ - Len(g.data)]
       IN Res("TXT_OK", c, {AckOf(s, c)})
  ELSE Res("OK", b, {})

\* check_text() and what its caller does with the text.
CheckText(s, b, g) ==
  LET n == Len(g.data) IN
  CASE b.state \notin {"ESTAB", "FIN_WAIT_1", "FIN_WAIT_2"} -> Res("ERR", b, {})
    [] b.state \in {"ESTAB", "FIN_WAIT_1", "FIN_WAIT_2"} /\ n > 0 /\ b.rcvnxt = g.seq /\ b.wnd > n ->
         LET c == [PushTail(b, g) EXCEPT !.rcvnxt = Add(@, n), !.wnd = @ - n]
         IN Res("TXT_OK", c, {AckOf(s, c)})
    [] OTHER -> Res("OK", b, {})

\* check_fin() and the acknowledgement its caller sends.
CheckFin(s, b, g) ==
  LET c == [b EXCEPT !.rcvnxt = Add(@, 1)] IN
  CASE "FIN" \in g.flg /\ b.state \in {"SYN_RCVD", "ESTAB"} ->
         LET d == [c EXCEPT !.state = "CLOSE_WAIT"] IN Res("ERR", d, {AckOf(s, d)})
    [] "FIN" \in g.flg /\ b.state \in {"FIN_WAIT_1", "FIN_WAIT_2"} -> Res("CLOSE_SCB", c, {AckOf(s, c)})
    [] OTHER -> Res("FREE_MBUF", b, {})

\* tcp_recv_core(): the checks in order, until one does not say OK.
RecvCore(s, b, g) ==
  LET r0 == CheckRst(s, b, g)
      r1 == IF r0.op = "OK" THEN CheckSyn(s, b, g) ELSE r0
      r2 == CheckAck(s, r1.b, g)
      r3 == CheckText(s, r2.b, g)
  IN CASE ~IsSeqValid(b.wnd, b.rcvnxt, g.seq, Len(g.data)) ->
            Res("ERR", b, IF "RST" \in g.flg THEN {} ELSE {AckOf(s, b)})
       [] IsSeqValid(b.wnd, b.rcvnxt, g.seq, Len(g.data)) ->
            CASE r1.op # "OK" -> r1
              [] r1.op = "OK" /\ r2.op # "OK" -> r2
              [] r1.op = "OK" /\ r2.op = "OK" /\ r3.op # "OK" -> r3
              [] OTHER -> CheckFin(s, r3.b, g)

\* get_sock_cb(): the first of the list without a peer, or with this one.
GetSockCb(k) == Head(chain[k])

\* tcp_recv()
TcpRecv(k, g) ==
  /\ g.from # k /\ chain[k] # <<>>
  /\ LET s == GetSockCb(k)
         b == scb[s]
         r == CASE b.state = "LISTEN" -> RecvListen(s, b, g)
                [] b.state = "SYN_SENT" -> RecvSynSent(s, b, g)
                [] b.state \in {"CLOSED", "freed"} -> Res("ERR", b, {})
                [] OTHER -> RecvCore(s, b, g)
     IN /\ IF r.op = "CLOSE_SCB" THEN FreeScb(s, r.b)
           ELSE Set(s, r.b) /\ UNCHANGED chain
        /\ net' = net \cup r.out
        /\ hist' = [hist EXCEPT ![s] = IF r.op = "CLOSE_SCB" /\ g.flg \cap {"RST", "SYN"} # {}
                                        THEN @ \cup {"reset"} ELSE @]
  /\ UNCHANGED <<pc, loc, sent, got>>

--------------------------------------------------------------------------------
(* connect() and accept() *)

\* sockconnect() up to the SYN, which leaves before the state changes.
Connect ==
  /\ At(Client, "new", "syn")
  /\ Set(Client, [scb[Client] EXCEPT !.dport = TRUE, !.wnd = SOCK_CB_WND])
  /\ chain' = AddSockCb("client", Client)
  /\ net' = net \cup {Segment(Client, scb[Client].nxt, 0, {"SYN"}, <<>>)}
  /\ UNCHANGED <<loc, sent, got, hist>>

ConnectState ==
  /\ At(Client, "syn", "syn2")
  /\ Set(Client, [scb[Client] EXCEPT !.state = "SYN_SENT"])
  /\ UNCHANGED <<chain, net, loc, sent, got, hist>>

ConnectSeq ==
  /\ At(Client, "syn2", "wait")
  /\ Set(Client, [scb[Client] EXCEPT !.nxt = 1])
  /\ UNCHANGED <<chain, net, loc, sent, got, hist>>

Accepting == {"new", "wait", "slock", "spin"}

\* acpt_scb is set.
HasAcpt(s) == s \in Range(chain["server"])

\* sockcopy() of a socket after listen()
SockCopy == NewScb("LISTEN")

\* sockaccept(): sockcopy() of the listening socket, or acpt_scb of an accept
\* that failed; one accept() at a time.
Accept(i) ==
  LET s == Accepts[i] IN
  /\ At(s, "new", "wait") /\ i <= app.accepts
  /\ \A j \in 1 .. i - 1 : pc[Accepts[j]] \notin Accepting \cup {"killed"}
  /\ IF HasAcpt(s) THEN UNCHANGED <<scb, chain>>
     ELSE Set(s, SockCopy) /\ chain' = AddSockCb("server", s)
  /\ UNCHANGED <<net, loc, sent, got, hist>>

\* tcp_acquiresleep() under scb->lock.  A nonblocking accept() fails before the
\* SYN has come; after a nonblocking connect() the socket can be used anyhow.
AcquireSleepTest(s) ==
  /\ pc[s] = "wait"
  /\ pc' = [pc EXCEPT ![s] =
       CASE scb[s].state = "ESTAB" -> "open"
         [] scb[s].state # "ESTAB" /\ s \in app.nonblock ->
              IF scb[s].state = "SYN_RCVD" \/ s = Client THEN "open" ELSE "new"
         [] OTHER -> "slock"]
  /\ UNCHANGED <<scb, chain, net, loc, sent, got, hist>>

\* Faulty variant: the lock is not taken.
AcquireSleepNot(s) ==
  /\ At(s, "slock", "spin")
  /\ UNCHANGED <<scb, chain, net, loc, sent, got, hist>>

\* acquiresleep(): the lock may have been released before it was ever taken.
AcquireSleep(s) ==
  /\ At(s, "slock", "spin")
  /\ Set(s, [scb[s] EXCEPT !.slock = TRUE])
  /\ UNCHANGED <<chain, net, loc, sent, got, hist>>

SpinEnds(s) ==
  /\ At(s, "spin", "open") /\ ~scb[s].slock
  /\ UNCHANGED <<scb, chain, net, loc, sent, got, hist>>

\* The process is killed: connect() closes its socket on exit, a failing
\* accept() drops the descriptor and leaves the control block linked.
Killed(s) ==
  /\ app.kill /\ At(s, "spin", IF s = Client THEN "close" ELSE "killed")
  /\ Set(s, [scb[s] EXCEPT !.slock = FALSE])
  /\ UNCHANGED <<chain, net, loc, sent, got, hist>>

--------------------------------------------------------------------------------
(* socksend() and tcp_send() *)

\* push_to_scb_txq() records the sequence number the packet will be sent with.
Packet(s, n) ==
  LET k == IF n < TCP_MAX_DATA THEN n ELSE TCP_MAX_DATA
  IN [seq |-> scb[s].nxt, data |-> [i \in 1 .. k |-> <<s, sent[s] + i>>],
      flg |-> IF n < TCP_MAX_DATA THEN {"PSH", "ACK"} ELSE {"ACK"}]

\* A packet of n bytes that are left of the call is queued; once the connection
\* is established the queue is sent.
SendQueue(s, n) ==
  LET k == Len(Packet(s, n).data) IN
  /\ \/ pc[s] = "open" /\ n \in app.writes /\ sent[s] + n <= app.max[s]
     \/ pc[s] = "send" /\ n = loc[s].left
  /\ n > 0 /\ scb[s].state \in {"SYN_SENT", "SYN_RCVD", "ESTAB"}
  /\ pc' = [pc EXCEPT ![s] = IF scb[s].state = "ESTAB" THEN "flush" ELSE "send"]
  /\ Set(s, [scb[s] EXCEPT !.txq = Append(@, Packet(s, n))])
  /\ sent' = [sent EXCEPT ![s] = @ + k]
  /\ loc' = [loc EXCEPT ![s].left = n - k]
  /\ UNCHANGED <<chain, net, got, hist>>

\* The queue is emptied onto the network, ...
Flush(s) ==
  /\ pc[s] = "flush"
  /\ IF scb[s].txq = <<>> THEN pc' = [pc EXCEPT ![s] = "send"] /\ UNCHANGED <<scb, net, loc>>
     ELSE LET m == Head(scb[s].txq) IN
          /\ pc' = [pc EXCEPT ![s] = "sent"]
          /\ net' = net \cup {Segment(s, m.seq, scb[s].rcvnxt, m.flg, m.data)}
          /\ Set(s, [scb[s] EXCEPT !.txq = Tail(@)])
          /\ loc' = [loc EXCEPT ![s].m = m.data]
  /\ UNCHANGED <<chain, sent, got, hist>>

\* ... and snd.nxt_seq follows each packet.
Advance(s) ==
  /\ At(s, "sent", "flush")
  /\ Set(s, [scb[s] EXCEPT !.nxt = Add(@, Len(loc[s].m))])
  /\ loc' = [loc EXCEPT ![s].m = <<>>]
  /\ UNCHANGED <<chain, net, sent, got, hist>>

\* All is sent, or tcp_send() refuses.
SendReturns(s) ==
  /\ loc[s].left = 0 \/ scb[s].state \notin {"SYN_SENT", "SYN_RCVD", "ESTAB"}
  /\ At(s, "send", "open")
  /\ loc' = [loc EXCEPT ![s] = NoLoc]
  /\ UNCHANGED <<scb, chain, net, sent, got, hist>>

--------------------------------------------------------------------------------
(* sockrecv() *)

\* n bytes are wanted: by a new call, or by one that looks again.
Wants(s, n) == \/ pc[s] = "open" /\ n \in app.reads
               \/ pc[s] = "recv" /\ n = loc[s].left

\* get_sock_cb() finds nothing, or the peer has closed: -1.  An empty queue
\* ends a nonblocking call; others look again.
RecvReturns(s) ==
  LET fails == s \notin Range(chain[Kernel(s)]) \/ scb[s].state = "CLOSE_WAIT" IN
  /\ pc[s] \in {"open", "recv"} /\ pc' = [pc EXCEPT ![s] = "open"]
  /\ fails \/ (scb[s].rxq = <<>> /\ s \in app.nonblock)
  /\ hist' = [hist EXCEPT ![s] = IF fails THEN @ \cup {"eof"} ELSE @]
  /\ loc' = [loc EXCEPT ![s] = NoLoc]
  /\ UNCHANGED <<scb, chain, net, sent, got>>

\* pop_from_scb_rxq(), the copy to the user, and the load of rcv.wnd
RecvPop(s, n) ==
  /\ s \in Range(chain[Kernel(s)]) /\ scb[s].state # "CLOSE_WAIT" /\ scb[s].rxq # <<>>
  /\ Wants(s, n) /\ pc' = [pc EXCEPT ![s] = "wnd"]
  /\ LET m == Head(scb[s].rxq)
         k == IF n > Len(m.data) THEN Len(m.data) ELSE n
     IN /\ Set(s, [scb[s] EXCEPT !.rxq = Tail(@)])
        /\ got' = [got EXCEPT ![s] = @ \o SubSeq(m.data, 1, k)]
        /\ loc' = [loc EXCEPT ![s].left = n, ![s].m = m.data, ![s].psh = m.psh, ![s].wnd = scb[s].wnd]
  /\ UNCHANGED <<chain, net, sent, hist>>

MbufPull(data, k) == SubSeq(data, k + 1, Len(data))

\* rcv.wnd += size: if the handler stored in between, either store is last.
\* A packet with more bytes than wanted goes back: its next pointer is loaded here.
RecvWnd(s) ==
  LET n == loc[s].left
      k == IF n > Len(loc[s].m) THEN Len(loc[s].m) ELSE n
  IN
  /\ At(s, "wnd", IF n <= Len(loc[s].m) THEN "push" ELSE IF loc[s].psh THEN "open" ELSE "recv")
  /\ \E w \in {loc[s].wnd + k, scb[s].wnd + k} \cup ({scb[s].wnd} \ {loc[s].wnd}) : Set(s, [scb[s] EXCEPT !.wnd = w])
  /\ loc' = [loc EXCEPT ![s] =
       IF n <= Len(@.m) THEN [@ EXCEPT !.m = MbufPull(@, k), !.chained = scb[s].rxq # <<>>]
       ELSE IF @.psh THEN NoLoc ELSE [NoLoc EXCEPT !.left = n - k]]
  /\ UNCHANGED <<chain, net, sent, got, hist>>

\* mbufq_pushhead() without the lock: packets that arrived since the next
\* pointer was loaded as null are cut off, and rxq.tail with them.
PushHead(s) ==
  LET m == [data |-> loc[s].m, psh |-> loc[s].psh]
      cut == ~loc[s].chained /\ scb[s].rxq # <<>>
  IN
  /\ At(s, "push", "open")
  /\ Set(s, IF cut THEN [scb[s] EXCEPT !.rxq = <<m>>, !.lost = TRUE]
            ELSE [scb[s] EXCEPT !.rxq = <<m>> \o @])
  /\ hist' = [hist EXCEPT ![s] = IF cut THEN @ \cup {"raced"} ELSE @]
  /\ loc' = [loc EXCEPT ![s] = NoLoc]
  /\ UNCHANGED <<chain, net, sent, got>>

--------------------------------------------------------------------------------
(* sockclose() and tcp_close() *)

Fin(s) == Segment(s, scb[s].nxt, scb[s].rcvnxt, {"FIN", "ACK"}, <<>>)

Leaving(s, to) ==
  /\ pc[s] = "close" \/ (pc[s] = "open" /\ (s \in app.early \/ "eof" \in hist[s]))
  /\ pc' = [pc EXCEPT ![s] = to]

\* fileclose() has cleared scb->f.  Nothing was established: free at once.
CloseFree(s) ==
  /\ Leaving(s, "gone") /\ scb[s].state \notin {"SYN_RCVD", "ESTAB", "CLOSE_WAIT"}
  /\ FreeScb(s, scb[s])
  /\ UNCHANGED <<net, loc, sent, got, hist>>

\* In SYN_RCVD with nothing queued the FIN is queued; nothing sends it later.
CloseQueued(s) ==
  /\ Leaving(s, "gone") /\ scb[s].state = "SYN_RCVD" /\ scb[s].txq = <<>>
  /\ Set(s, [scb[s] EXCEPT !.f = FALSE,
       !.txq = <<[seq |-> scb[s].nxt, data |-> <<>>, flg |-> {"FIN", "ACK"}]>>])
  /\ UNCHANGED <<chain, net, loc, sent, got, hist>>

\* Send a FIN, ...
CloseFin(s) ==
  /\ Leaving(s, "fin")
  /\ scb[s].state \in {"ESTAB", "CLOSE_WAIT"} \/ (scb[s].state = "SYN_RCVD" /\ scb[s].txq # <<>>)
  /\ net' = net \cup {Fin(s)}
  /\ Set(s, [scb[s] EXCEPT !.f = FALSE])
  /\ loc' = [loc EXCEPT ![s].state = scb[s].state]
  /\ UNCHANGED <<chain, sent, got, hist>>

\* ... count it, ...
CloseSeq(s) ==
  /\ At(s, "fin", "finstate")
  /\ Set(s, [scb[s] EXCEPT !.nxt = Add(@, 1)])
  /\ UNCHANGED <<chain, net, loc, sent, got, hist>>

\* ... and change the state: if the handler changed it too, either store is last.
CloseState(s) ==
  LET next == IF loc[s].state = "CLOSE_WAIT" THEN "LAST_ACK" ELSE "FIN_WAIT_1" IN
  /\ At(s, "finstate", "gone")
  /\ \E st \in {next} \cup ({scb[s].state} \ {loc[s].state}) : Set(s, [scb[s] EXCEPT !.state = st])
  /\ loc' = [loc EXCEPT ![s] = NoLoc]
  /\ UNCHANGED <<chain, net, sent, got, hist>>

--------------------------------------------------------------------------------
\* After a reset the process goes on with freed memory: the model stops it there.
Call(s) ==
  /\ Live(s)
  /\ \/ AcquireSleepTest(s) \/ AcquireSleep(s) \/ SpinEnds(s) \/ Killed(s)
     \/ \E n \in app.writes \cup {loc[s].left} : SendQueue(s, n)
     \/ Flush(s) \/ Advance(s) \/ SendReturns(s)
     \/ \E n \in app.reads \cup {loc[s].left} : RecvPop(s, n)
     \/ RecvReturns(s) \/ RecvWnd(s) \/ PushHead(s)
     \/ CloseFree(s) \/ CloseQueued(s) \/ CloseFin(s) \/ CloseSeq(s) \/ CloseState(s)

Next ==
  /\ \/ Connect \/ ConnectState \/ ConnectSeq
     \/ \E i \in DOMAIN Accepts : Accept(i)
     \/ \E s \in Socks : Call(s)
     \/ \E k \in DOMAIN chain, g \in net : TcpRecv(k, g)
  /\ UNCHANGED app

Spec == Init /\ [][Next]_vars

--------------------------------------------------------------------------------
Packets == [data : Seq(Socks \X Nat), psh : BOOLEAN]

TypeOK ==
  /\ \A s \in Socks :
       /\ scb[s].state \in States \cup {"freed"}
       /\ {scb[s].nxt, scb[s].unack, scb[s].rcvnxt} \subseteq 0 .. SeqSpace - 1
       /\ scb[s].wnd \in Nat
       /\ \A i \in DOMAIN scb[s].rxq : scb[s].rxq[i] \in Packets
  /\ \A k \in DOMAIN chain : Range(chain[k]) \subseteq {s \in Socks : Kernel(s) = k} /\ IsInjective(chain[k])

InCall(s) == pc[s] \notin {"new", "gone", "killed"}

\* Delivered bytes are in the order they were sent, none twice: whatever the
\* network does, and whatever packets the receive queue loses.
StreamOrdered ==
  \A s \in Socks : \A i, j \in DOMAIN got[s] :
    /\ got[s][i][1] = got[s][j][1] /\ got[s][i][1] \in Peers(s)
    /\ i < j => got[s][i][2] < got[s][j][2]

\* What sockrecv() has copied out is a prefix of what the peer handed to
\* socksend(), unless the reader put a packet back while another arrived
\* (mbufq_pushhead() without the lock), or the peer's socket is nonblocking.
StreamPrefix ==
  \A s \in Socks : "raced" \notin hist[s] /\ Peers(s) \cap app.nonblock = {} =>
    \E p \in Peers(s) : \A i \in DOMAIN got[s] : got[s][i] = <<p, i>>

\* A control block is not freed while a process can reach it through a
\* descriptor, unless the peer resets the connection: the handler frees one only
\* after the process has closed it.
DescriptorLive == \A s \in Socks : InCall(s) => Live(s) \/ "reset" \in hist[s]

\* The hash list holds no freed control block: free_sock_cb() unlinks only when
\* dport is set.
NoDanglingEntry == \A k \in DOMAIN chain : \A s \in Range(chain[k]) : Live(s)

\* sockrecv() looks its connection up by address again and again; it finds its
\* own control block and never that of another connection.
LookupFindsOwn ==
  \A s \in Socks : pc[s] \in {"open", "recv", "wnd", "push"} /\ chain[Kernel(s)] # <<>> => GetSockCb(Kernel(s)) = s

\* A kernel never acknowledges more than the SYN, the bytes and the FIN its peer
\* has sent, and takes no acknowledgement of what it has not sent itself.
AcksWhatWasSent ==
  \A s \in Socks : Live(s) =>
    /\ scb[s].unack <= scb[s].nxt
    /\ \E p \in Peers(s) :
         scb[s].rcvnxt <= 1 + sent[p] + (IF pc[p] \in {"fin", "finstate", "gone"} THEN 1 ELSE 0)

\* When a blocking connect() or accept() returns without error, the connection
\* was established: the sleep-lock it spins on is released for nothing else.
ReturnsConnected ==
  \A s \in Socks \ app.nonblock : pc[s] = "open" => scb[s].state \notin {"CLOSED", "LISTEN", "SYN_SENT", "SYN_RCVD"}

\* What read() returns is the stream the peer wrote, in order and without gaps.
StreamKept == TypeOK /\ StreamOrdered /\ StreamPrefix

\* Descriptors, the hash list and get_sock_cb() agree on which control block is which.
BlocksKept == DescriptorLive /\ NoDanglingEntry /\ LookupFindsOwn
================================================================================
