---------------------------------- MODULE Net ----------------------------------
(***************************************************************************)
(* The path of a packet below the sockets: ip_send(), eth_send() and       *)
(* arp_send() with the ARP table and its queue, and the rings shared with  *)
(* the e1000 card.  System calls send from several processes; the          *)
(* interrupt handler of the card runs beside them, and only the lists of   *)
(* the ARP table have a lock.                                              *)
(***************************************************************************)
EXTENDS Integers, Sequences, SequencesExt

CONSTANTS
  Procs,          \* processes in a system call that sends
  Datagrams,      \* what they send
  Dest,           \* [Datagrams -> Peers]
  Peers, Bucket,  \* hosts; Bucket is ip % ARP_DEFUALT_ENTRY_NUM
  TX_RING_SIZE, RX_RING_SIZE,
  MaxRx           \* bound on the frames received

VARIABLES
  arptable,       \* list of entries per bucket
  arp_q,          \* packets reachable from arp_q.head
  dangling,       \* arp_q.tail is not the last of them
  tx, tdt, tdh,   \* DD of the transmit descriptors, driver's and card's index
  rx, rdt, rdh,   \* receive descriptors with their buffers
  pc, loc,        \* of the processes and of the interrupt handler
  todo,           \* datagrams not sent yet
  handed,         \* IP packets given to the card
  arrived, taken, \* frames the card wrote; their numbers in the order taken
  rxq,            \* a socket's queue: the ring's buffers themselves
  hist            \* "raced": two contexts in e1000_transmit() had one index;
                  \* "twice": an IP packet was given to the card again;
                  \* "over": a descriptor the card was not done with was stored to
vars == <<arptable, arp_q, dangling, tx, tdt, tdh, rx, rdt, rdh, pc, loc, todo, handed, arrived, taken, rxq, hist>>

Intr == "intr"
Contexts == Procs \cup {Intr}
NoFrame == [type |-> "none"]
NoLoc == [m |-> NoFrame, i |-> 0, then |-> "idle", k |-> 1, last |-> FALSE, in |-> NoFrame]

Goto(p, label) == pc' = [pc EXCEPT ![p] = label]
arpvars == <<arptable, arp_q, dangling>>
txvars == <<tx, tdt, handed, hist>>
rxvars == <<rx, rdt, rdh, arrived, taken, rxq>>

Init ==
  /\ arptable = [b \in {Bucket[h] : h \in Peers} |-> <<>>]
  /\ arp_q = <<>> /\ dangling = FALSE
  /\ tx = [i \in 0 .. TX_RING_SIZE - 1 |-> TRUE] /\ tdt = 0 /\ tdh = 0
  /\ rx = [i \in 0 .. RX_RING_SIZE - 1 |-> [m |-> NoFrame, dd |-> FALSE]]
  /\ rdt = RX_RING_SIZE - 1 /\ rdh = 0
  /\ pc = [p \in Contexts |-> "idle"] /\ loc = [p \in Contexts |-> NoLoc]
  /\ todo = Datagrams /\ handed = {} /\ arrived = 0 /\ taken = <<>> /\ rxq = <<>> /\ hist = {}

--------------------------------------------------------------------------------
(* The ARP table *)

\* get_arp_cache(): the table with an entry for ip, a new one at the end of its list
GetArpCache(ip) ==
  IF \E e \in Range(arptable[Bucket[ip]]) : e.ip = ip THEN arptable
  ELSE [arptable EXCEPT ![Bucket[ip]] = Append(@, [ip |-> ip, resolved |-> FALSE, mac |-> "zero"])]

SetEntry(tab, ip, mac) ==
  [tab EXCEPT ![Bucket[ip]] =
    [i \in DOMAIN @ |-> IF @[i].ip = ip THEN [ip |-> ip, resolved |-> TRUE, mac |-> mac] ELSE @[i]]]

\* arptable_get_mac(): "none" if the address is not resolved
ArptableGetMac(ip) ==
  IF \E e \in Range(arptable[Bucket[ip]]) : e.ip = ip /\ e.resolved
  THEN LET l == arptable[Bucket[ip]] IN l[CHOOSE i \in DOMAIN l : l[i].ip = ip].mac
  ELSE "none"

--------------------------------------------------------------------------------
(* Sending *)

Frame(type, ip, mac, d) == [type |-> type, ip |-> ip, mac |-> mac, d |-> d]

\* eth_send(): look the address up, then transmit and go on at "then"; an IP
\* packet without an address goes to "unresolved".
EthSend(p, type, ip, d, then, unresolved) ==
  LET mac == ArptableGetMac(ip)
      frame == Frame(type, ip, IF mac = "none" THEN "broadcast" ELSE mac, d)
      queues == mac = "none" /\ type # "ARP"
  IN
  /\ arptable' = GetArpCache(ip)
  /\ Goto(p, IF queues THEN unresolved ELSE "load")
  /\ loc' = [loc EXCEPT ![p].m = frame, ![p].then = then]

\* udp_send() or tcp_send_core(), ip_send() and eth_send()
IpSend(p, d) ==
  /\ pc[p] = "idle" /\ d \in todo /\ todo' = todo \ {d}
  /\ EthSend(p, "IP", Dest[d], d, "idle", "request")
  /\ UNCHANGED <<arp_q, dangling, tdh, txvars, rxvars>>

\* arp_send() of a request: a broadcast, unless the answer has come by now
ArpRequest(p) ==
  LET mac == ArptableGetMac(loc[p].m.ip) IN
  /\ pc[p] = "request" /\ Goto(p, "load")
  /\ arptable' = GetArpCache(loc[p].m.ip)
  /\ loc' = [loc EXCEPT ![p].in = loc[p].m, ![p].then = "queue",
              ![p].m = Frame("ARP", loc[p].m.ip, IF mac = "none" THEN "broadcast" ELSE mac, "request")]
  /\ UNCHANGED <<arp_q, dangling, tdh, txvars, rxvars, todo>>

\* mbufq_pushtail() to arp_q, after the request has left.
ArpQueue(p) ==
  /\ pc[p] = "queue" /\ Goto(p, "idle")
  /\ CASE arp_q = <<>> -> arp_q' = <<loc[p].in>> /\ dangling' = FALSE
       [] arp_q # <<>> /\ dangling -> UNCHANGED <<arp_q, dangling>>
       [] OTHER -> arp_q' = Append(arp_q, loc[p].in) /\ UNCHANGED dangling
  /\ loc' = [loc EXCEPT ![p] = NoLoc]
  /\ UNCHANGED <<arptable, tdh, txvars, rxvars, todo>>

\* What a context still knows when transmit has returned.
Done(l) == IF l.then = "idle" THEN NoLoc ELSE [l EXCEPT !.m = NoFrame, !.i = 0]

\* e1000_transmit(): the index, and whether the card is done with it.  If not,
\* eth_send() frees the packet.
TransmitLoad(p) ==
  /\ pc[p] = "load"
  /\ IF tx[tdt] THEN Goto(p, "store") /\ loc' = [loc EXCEPT ![p].i = tdt]
     ELSE Goto(p, loc[p].then) /\ loc' = [loc EXCEPT ![p] = Done(@)]
  /\ UNCHANGED <<arpvars, tdh, txvars, rxvars, todo>>

\* The packet of the descriptor before is freed, sent or not; this one is filled.
TransmitStore(p) ==
  LET i == loc[p].i
      m == loc[p].m
  IN
  /\ pc[p] = "store" /\ Goto(p, loc[p].then)
  /\ tx' = [tx EXCEPT ![i] = FALSE] /\ tdt' = (i + 1) % TX_RING_SIZE
  /\ handed' = handed \cup (IF m.type = "IP" THEN {m} ELSE {})
  /\ hist' = hist \cup (IF tx[i] THEN {} ELSE {"over"})
                  \cup {"twice" : f \in {f \in handed : m.type = "IP" /\ f.d = m.d}}
                  \cup {"raced" : q \in {q \in Contexts \ {p} : pc[q] = "store" /\ loc[q].i = i}}
  /\ loc' = [loc EXCEPT ![p] = Done(@)]
  /\ UNCHANGED <<arpvars, tdh, rxvars, todo>>

\* The card sends what is between its index and the driver's.
CardTransmit ==
  /\ tdh # tdt
  /\ tx' = [tx EXCEPT ![tdh] = TRUE] /\ tdh' = (tdh + 1) % TX_RING_SIZE
  /\ UNCHANGED <<arpvars, tdt, handed, hist, rxvars, pc, loc, todo>>

--------------------------------------------------------------------------------
(* Receiving *)

\* The card writes a frame to the next descriptor the driver gave it.
CardReceive(type, ip, op) ==
  /\ rdh # rdt /\ arrived < MaxRx
  /\ rx' = [rx EXCEPT ![rdh] = [m |-> [type |-> type, ip |-> ip, op |-> op, n |-> arrived + 1], dd |-> TRUE]]
  /\ rdh' = (rdh + 1) % RX_RING_SIZE /\ arrived' = arrived + 1
  /\ UNCHANGED <<arpvars, tdh, txvars, rdt, taken, rxq, pc, loc, todo>>

\* Faulty variant: DD is left set.
TakeAgain(i) == rx
\* The descriptor without DD; of an ARP frame nothing is looked at later.
Take(i) == [rx EXCEPT ![i] = [m |-> IF @.m.type = "ARP" THEN NoFrame ELSE @.m, dd |-> FALSE]]

\* ip_recv() and udp_recv() or tcp_recv(): the buffer goes on a socket's queue as
\* it is, unless a check of the headers fails.
IpRecv(i, m) == rxq' = IF m.op = "data" THEN Append(rxq, [slot |-> i, n |-> m.n]) ELSE rxq

\* eth_recv()
EthRecv(i, m) ==
  IF m.type = "ARP" THEN Goto(Intr, "add") /\ loc' = [loc EXCEPT ![Intr] = [NoLoc EXCEPT !.in = m]] /\ UNCHANGED rxq
  ELSE IpRecv(i, m) /\ UNCHANGED <<pc, loc>>

\* e1000_recv(): the buffer goes back to the card before the frame is handled.
Receive ==
  LET i == (rdt + 1) % RX_RING_SIZE IN
  /\ pc[Intr] = "idle" /\ rx[i].dd
  /\ rx' = Take(i) /\ rdt' = i
  /\ taken' = Append(taken, rx[i].m.n)
  /\ EthRecv(i, rx[i].m)
  /\ UNCHANGED <<arpvars, tdh, txvars, rdh, arrived, todo>>

\* A process takes the packet from the queue.
PopRxq ==
  /\ rxq # <<>> /\ rxq' = Tail(rxq)
  /\ UNCHANGED <<arpvars, tdh, txvars, rx, rdt, rdh, arrived, taken, pc, loc, todo>>

\* arp_recv(), arptable_add(): the entry is marked resolved ...
ArpRecv ==
  /\ pc[Intr] = "add" /\ Goto(Intr, "mac")
  /\ arptable' = LET ip == loc[Intr].in.ip
                    old == {e \in Range(arptable[Bucket[ip]]) : e.ip = ip}
                IN SetEntry(GetArpCache(ip), ip, IF old = {} THEN "zero" ELSE (CHOOSE e \in old : TRUE).mac)
  /\ UNCHANGED <<arp_q, dangling, tdh, txvars, rxvars, loc, todo>>

\* ... before it has the address.
ArpMac ==
  /\ pc[Intr] = "mac" /\ Goto(Intr, "scan")
  /\ arptable' = SetEntry(arptable, loc[Intr].in.ip, loc[Intr].in.ip)
  /\ UNCHANGED <<arp_q, dangling, tdh, txvars, rxvars, loc, todo>>

\* "check queue": the next packet for that host is sent ...
ArpScan ==
  LET at == {k \in DOMAIN arp_q : k >= loc[Intr].k /\ arp_q[k].ip = loc[Intr].in.ip}
      k == CHOOSE k \in at : \A j \in at : k <= j
  IN
  /\ pc[Intr] = "scan"
  /\ IF at = {} THEN Goto(Intr, "reply") /\ UNCHANGED <<loc, arptable>>
     ELSE /\ arptable' = GetArpCache(arp_q[k].ip) /\ Goto(Intr, "load")
          /\ loc' = [loc EXCEPT ![Intr].k = k, ![Intr].then = "unlink",
                      ![Intr].m = [arp_q[k] EXCEPT !.mac = ArptableGetMac(arp_q[k].ip)]]
  /\ UNCHANGED <<arp_q, dangling, tdh, txvars, rxvars, todo>>

\* ... its next pointer is loaded ...
ArpUnlink ==
  /\ pc[Intr] = "unlink" /\ Goto(Intr, "unlink2")
  /\ loc' = [loc EXCEPT ![Intr].last = loc[Intr].k = Len(arp_q)]
  /\ UNCHANGED <<arpvars, tdh, txvars, rxvars, todo>>

\* Faulty variant: the packet stays in the queue.
RemainingAll(k, last) == arp_q
Remaining(k, last) == SubSeq(arp_q, 1, k - 1) \o (IF last THEN <<>> ELSE SubSeq(arp_q, k + 1, Len(arp_q)))

\* ... and stored to its predecessor or to arp_q.head: arp_q.tail is left as it is.
ArpUnlinkStore ==
  LET k == loc[Intr].k
      last == loc[Intr].last
  IN
  /\ pc[Intr] = "unlink2" /\ Goto(Intr, "scan")
  /\ arp_q' = Remaining(k, last)
  /\ dangling' = (dangling \/ (last /\ k > 1))
  /\ loc' = [loc EXCEPT ![Intr].k = IF last THEN Len(arp_q) + 1 ELSE k]
  /\ UNCHANGED <<arptable, tdh, txvars, rxvars, todo>>

\* A request for local_ip is answered.
ArpReply ==
  /\ pc[Intr] = "reply"
  /\ IF loc[Intr].in.op = "request"
     THEN EthSend(Intr, "ARP", loc[Intr].in.ip, "reply", "idle", "idle")
     ELSE Goto(Intr, "idle") /\ loc' = [loc EXCEPT ![Intr] = NoLoc] /\ UNCHANGED arptable
  /\ UNCHANGED <<arp_q, dangling, tdh, txvars, rxvars, todo>>

Next ==
  \/ \E p \in Procs, d \in Datagrams : IpSend(p, d)
  \/ \E p \in Procs : ArpRequest(p) \/ ArpQueue(p)
  \/ \E p \in Contexts : TransmitLoad(p) \/ TransmitStore(p)
  \/ CardTransmit \/ Receive \/ PopRxq
  \/ \E h \in Peers : \E op \in {"request", "answer"} : CardReceive("ARP", h, op)
  \/ \E op \in {"data", "bad"} : CardReceive("IP", "any", op)
  \/ ArpRecv \/ ArpMac \/ ArpScan \/ ArpUnlink \/ ArpUnlinkStore \/ ArpReply

Spec == Init /\ [][Next]_vars

--------------------------------------------------------------------------------
\* get_arp_cache() finds and adds under one lock: every list holds addresses of
\* its bucket, each once, whatever contexts ask for them at the same time.
OneEntryPerIp ==
  \A b \in DOMAIN arptable : \A i, j \in DOMAIN arptable[b] :
    Bucket[arptable[b][i].ip] = b /\ (i # j => arptable[b][i].ip # arptable[b][j].ip)

\* An IP packet is given to the card with the hardware address of its host (or
\* the zeros of an entry arptable_add() has half filled), never as a broadcast
\* or to another host: eth_send() queues what has no address.
RightMac ==
  \A f \in handed : f.mac \in {f.ip, "zero"}

\* No IP packet is sent twice: one that waited in arp_q is sent by one ARP packet
\* and is then out of the queue.
SentOnce == "twice" \notin hist

\* The frames of the receive ring reach the stack in the order the card wrote
\* them, none left out; and a queued packet, whose buffer is still in the ring,
\* is what was received until RX_RING_SIZE more have arrived.
RxInOrder ==
  /\ \A i \in DOMAIN taken : taken[i] = i
  /\ \A i \in DOMAIN rxq : arrived - rxq[i].n < RX_RING_SIZE => rx[rxq[i].slot].m.n = rxq[i].n

\* e1000_transmit() stores to no descriptor the card has not finished, unless two
\* contexts were in it with the same index.
TxNoOverwrite == "over" \in hist => "raced" \in hist

\* An IP packet leaves once, for its own host, by way of the one entry the ARP table has for it.
PacketsRight == OneEntryPerIp /\ RightMac /\ SentOnce

\* Neither side of the card's two rings loses or overwrites what the other has not taken.
RingsKept == RxInOrder /\ TxNoOverwrite
================================================================================
