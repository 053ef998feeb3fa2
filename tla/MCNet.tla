--------------------------------- MODULE MCNet ---------------------------------
(***************************************************************************)
(* Packets, UDP sockets and the 9P server: a state belongs to the part     *)
(* chosen at the start, the variables of the others stay as they are.      *)
(***************************************************************************)
EXTENDS P9
CONSTANTS p1, d1, d2, h1, h2, s1, s2, s3, k1, k2

VARIABLES part,
  arptable, arp_q, dangling, tx, tdt, tdh, rx, rdt, rdh, npc, nloc, todo, handed, arrived, taken, rxq, nhist,
  sport_table, current_sport, scb, list, upc, uloc, got, in, uhist

N == INSTANCE Net WITH pc <- npc, loc <- nloc, hist <- nhist,
  Procs <- {p1}, Datagrams <- {d1, d2}, Dest <- [d \in {d1, d2} |-> IF d = d2 THEN h2 ELSE h1],
  Peers <- {h1, h2}, Bucket <- [h \in {h1, h2} |-> 0], TX_RING_SIZE <- 2, RX_RING_SIZE <- 2, MaxRx <- 3
U == INSTANCE Udp WITH pc <- upc, loc <- uloc, hist <- uhist,
  Socks <- {s1, s2, s3}, Peers <- {k1, k2}, Ports <- 4, PerByte <- 2, Sizes <- {2}, Reads <- {1, 3}, MaxIn <- 2

\* A fresh server over a file and a directory, and ones with an attached fid and an open
\* file, and with a fid for the directory besides.
Fresh0 == InitServer(<<>> :> 1 @@ <<"a">> :> 2 @@ <<"d">> :> 3,
                     1 :> [dir |-> TRUE, data |-> DirData] @@ 2 :> [dir |-> FALSE, data |-> <<1, 2, 3>>] @@ 3 :> [dir |-> TRUE, data |-> DirData])
NoFids == [path |-> [f \in Fids |-> NoPath], open |-> {}, attached |-> FALSE]
Attached == RAttach(Fresh0, [fid |-> 0, afid |-> FALSE])
Opened == LET x == RWalk(Attached, [newfid |-> 1, names |-> <<"a">>], LookupKey(Attached, 0))
          IN ROpen(x, [fid |-> 1], LookupKey(x, 1))
Walked == RWalk(Opened, [newfid |-> 2, names |-> <<"d">>], LookupKey(Opened, 0))
OpenedFids == [path |-> 0 :> <<>> @@ 1 :> <<"a">> @@ 2 :> NoPath, open |-> {1}, attached |-> TRUE]
MCStarts == {[s |-> Fresh0, cl |-> NoFids],
             [s |-> Opened, cl |-> OpenedFids], [s |-> Walked, cl |-> [OpenedFids EXCEPT !.path[2] = <<"d">>]]}

\* Nothing is claimed once the client and the server may disagree about the fids.
Agreed == ~Misnamed

T(t) == [t |-> t, fid |-> 0]
MCReqs ==
  {T(t) : t \in {"version", "wstat", "flush", "auth"}} \cup {[t |-> "attach", fid |-> f, afid |-> a] : f \in {0, 2}, a \in BOOLEAN}
  \cup {[t |-> "walk", fid |-> f, newfid |-> n, names |-> w] : f \in {0, 2}, n \in {1, 2}, w \in {<<>>, <<"a">>, <<"d", "a">>}}
  \cup {[t |-> t, fid |-> f] : t \in {"open", "clunk", "remove"}, f \in {0, 1, 2}} \cup {[t |-> "stat", fid |-> 2]}
  \cup {[t |-> "create", fid |-> f, name |-> n, dir |-> n = "d"] : f \in {0, 2}, n \in {"a", "d"}}
  \cup {[t |-> "read", fid |-> f, offset |-> o, count |-> 2] : f \in {1, 2}, o \in {0, 1, 2}}
  \cup {[t |-> "write", fid |-> f, offset |-> o, data |-> <<7, 8>>] : f \in {1, 2}, o \in {0, 1}}
MCPiped == {T("version"), [t |-> "clunk", fid |-> 1], [t |-> "read", fid |-> 1, offset |-> 0, count |-> 2]}

netvars == <<arptable, arp_q, dangling, tx, tdt, tdh, rx, rdt, rdh, npc, nloc, todo, handed, arrived, taken, rxq, nhist>>
udpvars == <<sport_table, current_sport, scb, list, upc, uloc, got, in, uhist>>
allvars == <<part, netvars, udpvars, vars>>
MCInit ==
  /\ part \in {"net", "udp", "9p"} /\ N!Init /\ U!Init /\ Init
  /\ part # "9p" => s = Fresh0
NetNext == part = "net" /\ N!Next /\ UNCHANGED <<part, udpvars, vars>>
UdpNext == part = "udp" /\ U!Next /\ UNCHANGED <<part, netvars, vars>>
P9Next == part = "9p" /\ Next /\ UNCHANGED <<part, netvars, udpvars>>
MCNext == NetNext \/ UdpNext \/ P9Next
MCSpec == MCInit /\ [][MCNext]_allvars

\* The hosts may change places, each with the datagram for it; so may the sockets.
Swap == h1 :> h2 @@ h2 :> h1 @@ d1 :> d2 @@ d2 :> d1
Symmetry == Permutations({s1, s2, s3}) \cup {Swap}

PacketsRight == part = "net" => N!PacketsRight
RingsKept == part = "net" => N!RingsKept
PortsExclusive == part = "udp" => U!PortsExclusive
DatagramsKept == part = "udp" => U!DatagramsKept
================================================================================
