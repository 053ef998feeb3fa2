--------------------------------- MODULE MCTcp ---------------------------------
EXTENDS Tcp
CONSTANTS c1, s1, s2
TwoAccepts == <<s1, s2>>
None == [s \in Socks |-> 0]
Plain == [nonblock |-> {}, accepts |-> 1, writes |-> {1}, reads |-> {1}, max |-> None, early |-> Socks,
          kill |-> FALSE, established |-> FALSE]
\* set up a connection and send a byte; move bytes over one in reads smaller and
\* larger than the packets; poll and send before the connection is set up;
\* accept a second time
Setup == [Plain EXCEPT !.max[c1] = 1, !.reads = {3}, !.kill = TRUE]
Transfer == [Plain EXCEPT !.max[c1] = 3, !.writes = {3}, !.reads = {1, 4}, !.early = {c1}, !.established = TRUE]
Poll == [Plain EXCEPT !.max[s1] = 1, !.nonblock = {s1}, !.early = {s1}]
Second == [Plain EXCEPT !.accepts = 2, !.early = {c1}, !.established = TRUE]
AllApps == {Setup, Transfer, Poll, Second}
================================================================================
