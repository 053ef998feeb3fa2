------------------------------- MODULE PipeProofs -------------------------------
(***************************************************************************)
(* Proofs about kernel/proc/pipe.c for any number of processes, any size   *)
(* of the ring and any width of the counters that the size divides.        *)
(***************************************************************************)
EXTENDS Pipe, TLAPS

--------------------------------------------------------------------------------
(* Remainders *)

\* A number is a multiple of the divisor and its remainder.
LEMMA Quotient ==
  ASSUME NEW P \in Nat \ {0}, NEW x \in Int
  PROVE  \E k \in Int, r \in 0 .. P - 1 : x = (P * k) + r /\ x % P = r
<1>1. x % P \in 0 .. P - 1 OBVIOUS
<1>2. x \div P \in Int /\ x = (P * (x \div P)) + (x % P) OBVIOUS
<1>3. QED BY <1>1, <1>2

\* A multiple of a positive number below that number is zero.
LEMMA SmallMultiple ==
  ASSUME NEW P \in Nat \ {0}, NEW d \in Int, P * d < P, P * d > -P
  PROVE  d = 0
<1>1. CASE d >= 1
  <2>1. P * d >= P BY <1>1
  <2>2. QED BY <2>1
<1>2. CASE d <= -1
  <2>1. P * d <= -P BY <1>2
  <2>2. QED BY <2>1
<1>3. QED BY <1>1, <1>2

\* Multiplication distributes over differences.
LEMMA Distribute ==
  ASSUME NEW P \in Int, NEW k \in Int, NEW l \in Int
  PROVE  P * (k - l) = (P * k) - (P * l) /\ P * k \in Int /\ P * l \in Int
OBVIOUS

\* The remainder is the only one below the divisor.
LEMMA Remainder ==
  ASSUME NEW P \in Nat \ {0}, NEW x \in Int, NEW k \in Int, NEW r \in 0 .. P - 1, x = (P * k) + r
  PROVE  x % P = r
<1>1. PICK l \in Int, y \in 0 .. P - 1 : x = (P * l) + y /\ x % P = y BY Quotient, Zenon
<1>2. P * (k - l) = y - r BY <1>1, Distribute
<1>3. k - l = 0
  <2>1. k - l \in Int /\ y - r < P /\ y - r > -P OBVIOUS
  <2>2. QED BY <1>2, <2>1, SmallMultiple
<1>4. k = l BY <1>3
<1>5. QED BY <1>1, <1>4

\* Reducing a term of a sum first changes nothing.
LEMMA ReduceFirst ==
  ASSUME NEW P \in Nat \ {0}, NEW x \in Int, NEW y \in Int
  PROVE  ((x % P) + y) % P = (x + y) % P
<1>1. PICK k \in Int, a \in 0 .. P - 1 : x = (P * k) + a /\ x % P = a BY Quotient, Zenon
<1>2. x + y \in Int /\ a + y \in Int OBVIOUS
<1>3. PICK l \in Int, b \in 0 .. P - 1 : x + y = (P * l) + b /\ (x + y) % P = b BY <1>2, Quotient
<1>4. a + y = (P * (l - k)) + b BY <1>1, <1>3, Distribute
<1>5. l - k \in Int OBVIOUS
<1>6. (a + y) % P = b BY <1>2, <1>4, <1>5, Remainder, Zenon
<1>7. QED BY <1>1, <1>3, <1>6

\* A multiple of the divisor may be taken off.
LEMMA DropMultiple ==
  ASSUME NEW P \in Nat \ {0}, NEW W \in Nat, W % P = 0, NEW x \in Int
  PROVE  (x - W) % P = x % P
<1>1. PICK k \in Int, a \in 0 .. P - 1 : x = (P * k) + a /\ x % P = a BY Quotient, Zenon
<1>2. PICK l \in Int, b \in 0 .. P - 1 : W = (P * l) + b /\ W % P = b BY Quotient
<1>3. x - W \in Int /\ k - l \in Int OBVIOUS
<1>4. x - W = (P * (k - l)) + a BY <1>1, <1>2, Distribute
<1>5. (x - W) % P = a BY <1>3, <1>4, Remainder
<1>6. QED BY <1>1, <1>5

\* A number within one divisor of the range.
LEMMA Wrap ==
  ASSUME NEW P \in Nat \ {0}, NEW x \in Int
  PROVE  /\ 0 <= x /\ x < P => x % P = x
         /\ P <= x /\ x < 2 * P => x % P = x - P
         /\ -P <= x /\ x < 0 => x % P = x + P
<1>1. ASSUME 0 <= x, x < P PROVE x % P = x
  <2>1. x = (P * 0) + x OBVIOUS
  <2>2. QED BY <1>1, <2>1, Remainder
<1>2. ASSUME P <= x, x < 2 * P PROVE x % P = x - P
  <2>1. x = (P * 1) + (x - P) OBVIOUS
  <2>2. x - P \in 0 .. P - 1 BY <1>2
  <2>3. QED BY <2>1, <2>2, Remainder
<1>3. ASSUME -P <= x, x < 0 PROVE x % P = x + P
  <2>1. x = (P * (-1)) + (x + P) OBVIOUS
  <2>2. x + P \in 0 .. P - 1 BY <1>3
  <2>3. QED BY <2>1, <2>2, Remainder
<1>4. QED BY <1>1, <1>2, <1>3

--------------------------------------------------------------------------------
(* The counters and the ring *)

\* The bytes of a pipe.
Byte == (Procs \X (1 .. MaxN)) \cup {Empty}

Counters == nread \in 0 .. Width - 1 /\ nwrite \in 0 .. Width - 1

\* What nwrite - nread, reduced, says of the counters.
LEMMA AvailIs ==
  ASSUME Counters
  PROVE  /\ Avail \in 0 .. Width - 1
         /\ nwrite = nread + Avail \/ nwrite = nread + Avail - Width
         /\ nread = nwrite <=> Avail = 0
<1>1. Width \in Nat \ {0} /\ nwrite - nread \in Int BY PipeAssumption DEF Counters
<1> DEFINE d == nwrite - nread
<1> HIDE DEF d
<1>2. /\ 0 <= d /\ d < Width => d % Width = d
      /\ -Width <= d /\ d < 0 => d % Width = d + Width
  BY <1>1, Wrap DEF d
<1>3. Avail = d % Width BY DEF Avail, d
<1>4. QED BY <1>1, <1>2, <1>3 DEF Counters, d

\* The counters determine the bytes between them.
LEMMA AvailUnique ==
  ASSUME NEW r \in 0 .. Width - 1, NEW w \in 0 .. Width - 1, NEW a \in 0 .. Width - 1,
         w = r + a \/ w = r + a - Width
  PROVE  (w - r) % Width = a
<1>1. Width \in Nat \ {0} /\ w - r \in Int BY PipeAssumption
<1> DEFINE d == w - r
<1> HIDE DEF d
<1>2. /\ 0 <= d /\ d < Width => d % Width = d
      /\ -Width <= d /\ d < 0 => d % Width = d + Width
  BY <1>1, Wrap, Zenon DEF d
<1>3. d % Width = a BY <1>1, <1>2 DEF d
<1>4. QED BY <1>3 DEF d

\* A counter moved on from below Width by at most Width.
LEMMA MoveOn ==
  ASSUME NEW d \in Int, 0 <= d, d < 2 * Width, NEW n, n = d % Width
  PROVE  n \in 0 .. Width - 1 /\ (n = d \/ n = d - Width)
<1>1. Width \in Nat \ {0} BY PipeAssumption
<1>2. /\ 0 <= d /\ d < Width => d % Width = d
      /\ Width <= d /\ d < 2 * Width => d % Width = d - Width
  BY <1>1, Wrap, Zenon
<1>3. QED BY <1>1, <1>2

\* pipewrite()'s test for a full pipe agrees with the number of bytes in it.
LEMMA SpaceIs ==
  ASSUME Counters, Avail <= PIPESIZE
  PROVE  Space = PIPESIZE - Avail
<1> DEFINE a == Avail
           n == (nread + PIPESIZE) % Width
<1>1. Width \in Nat /\ PIPESIZE \in Nat /\ PIPESIZE < Width BY PipeAssumption
<1>2. /\ a \in 0 .. Width - 1
      /\ nwrite = nread + a \/ nwrite = nread + a - Width
  BY AvailIs
<1>3. n \in 0 .. Width - 1 /\ (n = nread + PIPESIZE \/ n = nread + PIPESIZE - Width)
  <2> DEFINE d == nread + PIPESIZE
  <2>1. d \in Int /\ 0 <= d /\ d < 2 * Width BY <1>1 DEF Counters
  <2>2. n = d % Width BY Zenon
  <2> HIDE DEF n, d
  <2>3. n \in 0 .. Width - 1 /\ (n = d \/ n = d - Width) BY <2>1, <2>2, MoveOn
  <2>4. QED BY <1>1, <2>3 DEF d, Counters
<1>4. a <= PIPESIZE /\ Space = IF nwrite = n THEN 0 ELSE PIPESIZE - a BY DEF Space
<1> HIDE DEF a, n
<1>5. nwrite = n => a = PIPESIZE BY <1>1, <1>2, <1>3, <1>4 DEF Counters
<1>6. Space = PIPESIZE - a BY <1>1, <1>2, <1>4, <1>5
<1>7. QED BY <1>6 DEF a

Bounded == Counters /\ Avail <= PIPESIZE

\* Storing j bytes adds j to what is in the pipe.
LEMMA StoreCounts ==
  ASSUME Bounded, NEW p \in Procs, NEW j \in 0 .. Space, Store(p, j), nread' = nread
  PROVE  Bounded' /\ Avail' = Avail + j /\ Space' = Space - j
<1> DEFINE a == Avail
           d == nwrite + j
<1>1. Width \in Nat /\ PIPESIZE \in Nat /\ PIPESIZE < Width BY PipeAssumption
<1>2. a \in 0 .. Width - 1 /\ (nwrite = nread + a \/ nwrite = nread + a - Width)
  BY AvailIs DEF Bounded
<1>3. Space = PIPESIZE - a /\ a <= PIPESIZE BY SpaceIs DEF Bounded
<1>4. nwrite' = d % Width BY DEF Store
<1> HIDE DEF a
<1>5. j \in 0 .. PIPESIZE /\ a + j \in 0 .. PIPESIZE BY <1>1, <1>2, <1>3
<1>6. d \in Int /\ 0 <= d /\ d < 2 * Width BY <1>1, <1>5 DEF Bounded, Counters
<1> HIDE DEF d
<1>7. nwrite' \in 0 .. Width - 1 /\ (nwrite' = d \/ nwrite' = d - Width) BY <1>4, <1>6, MoveOn
<1>8. nwrite' = nread + (a + j) \/ nwrite' = nread + (a + j) - Width
  BY <1>1, <1>2, <1>5, <1>6, <1>7 DEF d, Bounded, Counters
<1>9. Avail' = a + j
  <2>1. a + j \in 0 .. Width - 1 /\ nread \in 0 .. Width - 1 BY <1>1, <1>5 DEF Bounded, Counters
  <2>2. (nwrite' - nread) % Width = a + j BY <1>7, <1>8, <2>1, AvailUnique
  <2>3. QED BY <2>2, Zenon DEF Avail
<1>10. Counters' BY <1>7 DEF Bounded, Counters
<1>11. Bounded' BY <1>5, <1>9, <1>10 DEF Bounded
<1>12. (Counters /\ Avail <= PIPESIZE => Space = PIPESIZE - Avail)' BY SpaceIs, PTL
<1>13. Space' = Space - j BY <1>1, <1>2, <1>3, <1>5, <1>9, <1>11, <1>12 DEF Bounded
<1>14. QED BY <1>9, <1>11, <1>13, Zenon DEF a

\* Taking j bytes out leaves the others.
LEMMA FetchCounts ==
  ASSUME Bounded, NEW j \in 0 .. Avail, nread' = (nread + j) % Width, nwrite' = nwrite
  PROVE  /\ Bounded' /\ Avail' = Avail - j
         /\ nread' = nread + j \/ nread' = nread + j - Width
<1> DEFINE a == Avail
           d == nread + j
<1>1. Width \in Nat /\ PIPESIZE \in Nat /\ PIPESIZE < Width BY PipeAssumption
<1>2. a \in 0 .. Width - 1 /\ (nwrite = nread + a \/ nwrite = nread + a - Width)
  BY AvailIs DEF Bounded
<1>3. a <= PIPESIZE /\ j \in 0 .. a BY DEF Bounded
<1>4. nread' = d % Width OBVIOUS
<1> HIDE DEF a
<1>5. a - j \in 0 .. PIPESIZE BY <1>1, <1>2, <1>3
<1>6. d \in Int /\ 0 <= d /\ d < 2 * Width BY <1>1, <1>2, <1>3 DEF Bounded, Counters
<1> HIDE DEF d
<1>7. nread' \in 0 .. Width - 1 /\ (nread' = d \/ nread' = d - Width) BY <1>4, <1>6, MoveOn
<1>8. nwrite = nread' + (a - j) \/ nwrite = nread' + (a - j) - Width
  BY <1>1, <1>2, <1>3, <1>5, <1>6, <1>7 DEF d, Bounded, Counters
<1>9. Avail' = a - j
  <2>1. a - j \in 0 .. Width - 1 /\ nwrite \in 0 .. Width - 1 BY <1>1, <1>5 DEF Bounded, Counters
  <2>2. (nwrite - nread') % Width = a - j BY <1>7, <1>8, <2>1, AvailUnique
  <2>3. QED BY <2>2, Zenon DEF Avail
<1>10. Counters' BY <1>7 DEF Bounded, Counters
<1>11. Bounded' BY <1>5, <1>9, <1>10 DEF Bounded
<1>12. nread' = nread + j \/ nread' = nread + j - Width
  BY <1>1, <1>2, <1>3, <1>7 DEF d, Bounded, Counters
<1>13. QED BY <1>9, <1>11, <1>12, Zenon DEF a

\* How far the slot of the i-th byte from nread is behind nwrite.
LEMMA IndexOf ==
  ASSUME Bounded, NEW i \in 1 .. PIPESIZE, NEW x, x = (nread + i - 1) % PIPESIZE
  PROVE  /\ x \in 0 .. PIPESIZE - 1
         /\ (x - nwrite) % PIPESIZE = IF i <= Avail THEN i - 1 - Avail + PIPESIZE ELSE i - 1 - Avail
<1> DEFINE a == Avail
           y == nread + i - 1
           z == i - 1 - a
<1>1. Width \in Nat /\ PIPESIZE \in Nat \ {0} /\ Width % PIPESIZE = 0 BY PipeAssumption
<1>2. a \in 0 .. Width - 1 /\ (nwrite = nread + a \/ nwrite = nread + a - Width)
  BY AvailIs DEF Bounded
<1>3. a <= PIPESIZE /\ x = y % PIPESIZE BY DEF Bounded
<1> HIDE DEF a
<1>4. y \in Int /\ z \in Int /\ -nwrite \in Int /\ nwrite \in Int
  BY <1>1, <1>2 DEF Bounded, Counters
<1>5. y + (-nwrite) = z \/ y + (-nwrite) = z + Width BY <1>1, <1>2, <1>4 DEF Bounded, Counters
<1>6. -PIPESIZE <= z /\ z < PIPESIZE /\ (i <= a <=> z < 0) BY <1>1, <1>2, <1>3
<1> HIDE DEF y, z
<1>7. x \in 0 .. PIPESIZE - 1
  <2>1. PICK k \in Int, r \in 0 .. PIPESIZE - 1 : y % PIPESIZE = r BY <1>1, <1>4, Quotient
  <2>2. QED BY <1>3, <2>1
<1>8. (x + (-nwrite)) % PIPESIZE = (y + (-nwrite)) % PIPESIZE
  <2> DEFINE m == -nwrite
  <2>1. m \in Int BY <1>4
  <2> HIDE DEF m
  <2>2. ((y % PIPESIZE) + m) % PIPESIZE = (y + m) % PIPESIZE BY <1>1, <1>4, <2>1, ReduceFirst, Zenon
  <2>3. (x + m) % PIPESIZE = (y + m) % PIPESIZE BY <1>3, <2>2, Zenon
  <2>4. QED BY <2>3, Zenon DEF m
<1>9. (y + (-nwrite)) % PIPESIZE = z % PIPESIZE
  <2>1. CASE y + (-nwrite) = z BY <2>1
  <2>2. CASE y + (-nwrite) = z + Width
    <3> DEFINE v == z + Width
    <3>1. v \in Int /\ v - Width = z BY <1>1, <1>4
    <3> HIDE DEF v
    <3>2. (v - Width) % PIPESIZE = v % PIPESIZE BY <1>1, <3>1, DropMultiple, Zenon
    <3>3. y + (-nwrite) = v BY <2>2 DEF v
    <3>4. QED BY <3>1, <3>2, <3>3
  <2>3. QED BY <1>5, <2>1, <2>2
<1>10. z % PIPESIZE = IF z < 0 THEN z + PIPESIZE ELSE z
  <2>1. /\ 0 <= z /\ z < PIPESIZE => z % PIPESIZE = z
        /\ -PIPESIZE <= z /\ z < 0 => z % PIPESIZE = z + PIPESIZE
    BY <1>1, <1>4, Wrap, Zenon
  <2>2. QED BY <1>4, <1>6, <2>1
<1>11. x - nwrite = x + (-nwrite) BY <1>4, <1>7
<1>12. (x - nwrite) % PIPESIZE = IF i <= a THEN z + PIPESIZE ELSE z
  BY <1>6, <1>8, <1>9, <1>10, <1>11
<1>13. QED BY <1>7, <1>12, Zenon DEF a, z

DataOK == data \in [0 .. PIPESIZE - 1 -> Byte] /\ left \in [Procs -> 0 .. MaxN]

\* Every slot holds a byte after a store, too.
LEMMA StoreKeepsData ==
  ASSUME DataOK, nwrite \in Int, NEW p \in Procs, NEW j \in Nat, j <= left[p], Store(p, j)
  PROVE  data' \in [0 .. PIPESIZE - 1 -> Byte]
<1>1. PIPESIZE \in Nat \ {0} /\ MaxN \in Nat BY PipeAssumption
<1>2. SUFFICES ASSUME NEW i \in 0 .. PIPESIZE - 1
               PROVE  (LET k == (i - nwrite) % PIPESIZE
                       IN IF k < j THEN <<p, left[p] - k>> ELSE data[i]) \in Byte
  BY DEF Store, DataOK
<1> DEFINE v == i - nwrite
<1>3. v \in Int BY <1>1
<1> HIDE DEF v
<1>4. PICK l \in Int, k \in 0 .. PIPESIZE - 1 : v % PIPESIZE = k BY <1>1, <1>3, Quotient
<1>5. (i - nwrite) % PIPESIZE = k BY <1>4, Zenon DEF v
<1>6. k < j => <<p, left[p] - k>> \in Byte BY <1>1 DEF DataOK, Byte
<1>7. data[i] \in Byte BY DEF DataOK
<1>8. QED BY <1>5, <1>6, <1>7, Zenon

\* Storing appends to the bytes between the counters, through every wrap.
LEMMA StoreAppends ==
  ASSUME Bounded, DataOK, NEW p \in Procs, NEW j \in 0 .. Space, j <= left[p],
         Store(p, j), nread' = nread
  PROVE  Fetch(Avail)' = Fetch(Avail) \o Abstract!Bytes(p, j)
<1> DEFINE a == Avail
           pos(i) == (nread + i - 1) % PIPESIZE
           F == Fetch(a)
           G == Abstract!Bytes(p, j)
<1>1. PIPESIZE \in Nat \ {0} /\ Width \in Nat /\ MaxN \in Nat BY PipeAssumption
<1>2. a \in 0 .. PIPESIZE /\ j \in Nat /\ a + j <= PIPESIZE
  BY <1>1, AvailIs, SpaceIs DEF Bounded
<1>3. Fetch(Avail)' = [i \in 1 .. a + j |-> data'[pos(i)]]
  <2>1. Avail' = a + j BY StoreCounts, Zenon
  <2>2. QED BY <2>1, Zenon DEF Fetch
<1>4. F = [i \in 1 .. a |-> data[pos(i)]] BY Zenon DEF Fetch
<1>5. G = [i \in 1 .. j |-> <<p, left[p] - i + 1>>] BY Zenon DEF Abstract!Bytes
<1>6. ASSUME NEW i \in 1 .. a + j
      PROVE  data'[pos(i)] = IF i <= a THEN data[pos(i)] ELSE <<p, left[p] - (i - a) + 1>>
  <2> DEFINE x == pos(i)
             k == (x - nwrite) % PIPESIZE
  <2>1. i \in 1 .. PIPESIZE BY <1>1, <1>2
  <2>2. /\ x \in 0 .. PIPESIZE - 1
        /\ k = IF i <= a THEN i - 1 - a + PIPESIZE ELSE i - 1 - a
    <3>1. x = (nread + i - 1) % PIPESIZE BY Zenon
    <3> HIDE DEF x
    <3>2. QED BY <2>1, <3>1, IndexOf, Zenon
  <2>3. data'[x] = IF k < j THEN <<p, left[p] - k>> ELSE data[x]
    <3>1. DOMAIN data = 0 .. PIPESIZE - 1 BY DEF DataOK
    <3>2. QED BY <2>2, <3>1, Zenon DEF Store
  <2> HIDE DEF a, k
  <2>4. IF i <= a THEN ~(k < j) ELSE k < j /\ k = i - 1 - a BY <1>1, <1>2, <2>1, <2>2
  <2>5. left[p] \in Int BY <1>1 DEF DataOK
  <2> HIDE DEF x
  <2>6. ~(i <= a) => left[p] - k = left[p] - (i - a) + 1 BY <1>2, <2>1, <2>4, <2>5
  <2>7. data'[x] = IF i <= a THEN data[x] ELSE <<p, left[p] - (i - a) + 1>>
    BY <2>3, <2>4, <2>6, Zenon
  <2>8. QED BY <2>7, Zenon DEF x
<1> HIDE DEF a, pos, F, G
<1>7. F \o G = [i \in 1 .. a + j |-> IF i <= a THEN data[pos(i)] ELSE <<p, left[p] - (i - a) + 1>>]
  <2>1. \A i \in 1 .. a : data[pos(i)] \in Byte
    <3>1. ASSUME NEW i \in 1 .. a PROVE pos(i) \in 0 .. PIPESIZE - 1
      <4>1. i \in 1 .. PIPESIZE BY <1>1, <1>2
      <4>2. pos(i) = (nread + i - 1) % PIPESIZE BY Zenon DEF pos
      <4>3. QED BY <4>1, <4>2, IndexOf, Zenon
    <3>2. QED BY <3>1 DEF DataOK
  <2>2. \A i \in 1 .. j : <<p, left[p] - i + 1>> \in Byte BY <1>1, <1>2 DEF DataOK, Byte
  <2>3. F \in Seq(Byte) /\ Len(F) = a BY <1>2, <1>4, <2>1
  <2>4. G \in Seq(Byte) /\ Len(G) = j BY <1>2, <1>5, <2>2
  <2> DEFINE H == F \o G
  <2>5. H \in Seq(Byte) /\ Len(H) = a + j BY <1>2, <2>3, <2>4
  <2>6. \A i \in 1 .. a + j : H[i] = IF i <= a THEN F[i] ELSE G[i - a] BY <1>2, <2>3, <2>4
  <2> HIDE DEF H
  <2>7. H = [i \in 1 .. a + j |-> H[i]] BY <2>5
  <2>8. ASSUME NEW i \in 1 .. a + j
        PROVE  H[i] = IF i <= a THEN data[pos(i)] ELSE <<p, left[p] - (i - a) + 1>>
    <3>1. CASE i <= a
      <4>1. i \in 1 .. a BY <1>2, <3>1
      <4>2. QED BY <1>4, <2>6, <3>1, <4>1
    <3>2. CASE ~(i <= a)
      <4>1. i - a \in 1 .. j BY <1>2, <3>2
      <4>2. QED BY <1>5, <2>6, <3>2, <4>1, Zenon
    <3>3. QED BY <3>1, <3>2
  <2>9. QED BY <2>7, <2>8, Zenon DEF H
<1>8. Fetch(Avail)' = F \o G BY <1>3, <1>6, <1>7
<1>9. QED BY <1>8, Zenon DEF F, G, a

\* The i-th byte after j were taken out is the (i + j)-th before.
LEMMA Shift ==
  ASSUME NEW r \in Int, NEW m, NEW i \in Int, NEW j \in Int, NEW W \in Int,
         m = r + j \/ m = r + j - W
  PROVE  m + i - 1 = r + (i + j) - 1 \/ m + i - 1 = r + (i + j) - 1 - W
OBVIOUS

\* Taking out delivers the oldest bytes and leaves the others, in order.
LEMMA FetchTakes ==
  ASSUME Bounded, NEW j \in 0 .. Avail, nread' = (nread + j) % Width,
         nwrite' = nwrite, data' = data
  PROVE  /\ Fetch(Avail)' = SubSeq(Fetch(Avail), j + 1, Len(Fetch(Avail)))
         /\ Len(Fetch(Avail)) = Avail
         /\ \A k \in 0 .. j : Fetch(k) = SubSeq(Fetch(Avail), 1, k)
<1> DEFINE a == Avail
           pos(i) == (nread + i - 1) % PIPESIZE
           F == Fetch(a)
<1>1. PIPESIZE \in Nat \ {0} /\ Width \in Nat /\ Width % PIPESIZE = 0 BY PipeAssumption
<1>2. a \in 0 .. PIPESIZE /\ j \in 0 .. a BY <1>1, AvailIs DEF Bounded
<1>3. Avail' = a - j /\ (nread' = nread + j \/ nread' = nread + j - Width) BY FetchCounts, Zenon
<1>4. ASSUME NEW i \in 1 .. a - j PROVE (nread' + i - 1) % PIPESIZE = pos(i + j)
  <2> DEFINE y == nread + (i + j) - 1
  <2>0. i \in Int /\ j \in Int /\ Width \in Int /\ nread \in Int
    BY <1>1, <1>2 DEF Bounded, Counters
  <2>1. y \in Int /\ (nread' + i - 1 = y \/ nread' + i - 1 = y - Width)
    <3>1. y \in Int BY <2>0
    <3>2. nread' + i - 1 = y \/ nread' + i - 1 = nread + (i + j) - 1 - Width BY <1>3, <2>0, Shift
    <3>3. nread + (i + j) - 1 - Width = y - Width BY <2>0
    <3>4. QED BY <3>1, <3>2, <3>3, Zenon
  <2>2. pos(i + j) = y % PIPESIZE BY Zenon
  <2> HIDE DEF y, pos
  <2>3. (y - Width) % PIPESIZE = y % PIPESIZE BY <1>1, <2>1, DropMultiple, Zenon
  <2>4. QED BY <2>1, <2>2, <2>3, Zenon
<1>5. Fetch(Avail)' = [i \in 1 .. a - j |-> data[pos(i + j)]]
  <2>1. Fetch(Avail)' = [i \in 1 .. a - j |-> data[(nread' + i - 1) % PIPESIZE]]
    BY <1>3, Zenon DEF Fetch
  <2>2. QED BY <1>4, <2>1, Zenon
<1>6. \A k \in 0 .. a : Fetch(k) = [i \in 1 .. k |-> data[pos(i)]] BY Zenon DEF Fetch
<1>7. F = [i \in 1 .. a |-> data[pos(i)]] BY Zenon DEF Fetch
<1> HIDE DEF a, pos, F
<1>8. Len(F) = a BY <1>2, <1>7
<1>9. Fetch(Avail)' = SubSeq(F, j + 1, Len(F)) BY <1>2, <1>5, <1>7, <1>8
<1>10. ASSUME NEW k \in 0 .. j PROVE Fetch(k) = SubSeq(F, 1, k) BY <1>2, <1>6, <1>7
<1>11. QED BY <1>8, <1>9, <1>10, Zenon DEF F, a

--------------------------------------------------------------------------------
(* The inductive invariant *)

\* The ends are open as long as somebody holds them, and whoever is in piperead()
\* or pipewrite() holds the end.
EndsInv ==
  /\ readopen = (rend # {}) /\ writeopen = (wend # {}) /\ freed = (rend = {} /\ wend = {})
  /\ rend \subseteq Procs /\ wend \subseteq Procs
  /\ st \in [Procs -> {"idle", "read", "read_sleep", "write", "write_sleep", "returns"}]
  /\ killed \in [Procs -> BOOLEAN]
  /\ \A p \in Procs : /\ st[p] \in {"read", "read_sleep"} => p \in rend
                      /\ st[p] \in {"write", "write_sleep"} => p \in wend

PipeInv == Bounded /\ DataOK /\ EndsInv /\ SleepersHaveReason

\* The initial states: an empty pipe with both ends open.
LEMMA PipeInit == ASSUME Init PROVE PipeInv /\ Avail = 0
<1>1. PIPESIZE \in Nat \ {0} /\ Width \in Nat \ {0} /\ Width > PIPESIZE /\ MaxN \in Nat
  BY PipeAssumption
<1>2. Counters BY <1>1 DEF Init, Counters
<1>3. Avail = 0 BY <1>2, AvailIs DEF Init
<1>4. Bounded BY <1>1, <1>2, <1>3 DEF Bounded
<1>5. DataOK BY <1>1 DEF Init, DataOK, Byte
<1>6. EndsInv BY Zenon DEF Init, EndsInv
<1>7. SleepersHaveReason BY DEF Init, SleepersHaveReason
<1>8. QED BY <1>3, <1>4, <1>5, <1>6, <1>7 DEF PipeInv

\* A call that writes: what it stores, and what it leaves of its call.
LEMMA Writes ==
  ASSUME Bounded, DataOK, NEW p \in Procs, WriteEnds(p) \/ WriteFull(p)
  PROVE  /\ \E j \in 0 .. Space :
              /\ j <= left[p] /\ Store(p, j)
              /\ \/ left' = [left EXCEPT ![p] = @ - j]
                 \/ left' = [left EXCEPT ![p] = 0]
         /\ Space \in 0 .. PIPESIZE /\ nread' = nread /\ ubuf' = ubuf
<1>1. PIPESIZE \in Nat /\ MaxN \in Nat BY PipeAssumption
<1>2. Space \in 0 .. PIPESIZE BY <1>1, AvailIs, SpaceIs DEF Bounded
<1>3. left[p] \in Nat BY <1>1 DEF DataOK
<1>4. CASE WriteEnds(p)
  <2>1. PICK j \in 0 .. Least(left[p], Space) : Store(p, j) BY <1>4 DEF WriteEnds
  <2>2. j \in 0 .. Space /\ j <= left[p] BY <1>1, <1>2, <1>3 DEF Least
  <2>3. QED BY <1>2, <1>4, <2>1, <2>2, Zenon DEF WriteEnds
<1>5. CASE WriteFull(p)
  <2>1. Space \in 0 .. Space /\ Space <= left[p] BY <1>1, <1>2, <1>3, <1>5 DEF WriteFull
  <2>2. Store(p, Space) BY <1>5 DEF WriteFull
  <2>3. left' = [left EXCEPT ![p] = @ - Space] \/ left' = [left EXCEPT ![p] = 0]
    BY <1>5 DEF WriteFull
  <2>4. nread' = nread /\ ubuf' = ubuf BY <1>5 DEF WriteFull
  <2>5. QED BY <1>2, <2>1, <2>2, <2>3, <2>4, Zenon
<1>6. QED BY <1>4, <1>5, Zenon

\* A call that reads: what it takes out.
LEMMA Reads ==
  ASSUME Bounded, DataOK, NEW p \in Procs, ReadSome(p)
  PROVE  /\ \E j \in 0 .. Avail :
              /\ j <= left[p] /\ nread' = (nread + j) % Width
              /\ \/ ubuf' = [ubuf EXCEPT ![p] = Fetch(j)]
                 \/ j > 0 /\ ubuf' = [ubuf EXCEPT ![p] = Fetch(j - 1)]
         /\ data' = data /\ nwrite' = nwrite /\ left' = left
<1>1. Width \in Nat /\ MaxN \in Nat BY PipeAssumption
<1>2. Avail \in Nat /\ left[p] \in Nat BY <1>1, AvailIs DEF Bounded, DataOK
<1>3. PICK j \in 0 .. Least(left[p], Avail) :
        /\ nread' = (nread + j) % Width
        /\ \/ ubuf' = [ubuf EXCEPT ![p] = Fetch(j)]
           \/ j > 0 /\ ubuf' = [ubuf EXCEPT ![p] = Fetch(j - 1)]
  BY Zenon DEF ReadSome
<1>4. j \in 0 .. Avail /\ j <= left[p]
  <2> DEFINE a == Avail
  <2>1. j \in 0 .. Least(left[p], a) /\ a \in Nat BY <1>2
  <2> HIDE DEF a
  <2>2. j \in 0 .. a /\ j <= left[p] BY <1>2, <2>1 DEF Least
  <2>3. QED BY <2>2 DEF a
<1>5. QED BY <1>3, <1>4, Zenon DEF ReadSome

\* The counters and the ring stay within bounds.
LEMMA RingStep ==
  ASSUME Bounded, DataOK, [Next]_vars
  PROVE  Bounded' /\ DataOK'
<1>1. PIPESIZE \in Nat /\ MaxN \in Nat /\ Sizes \subseteq 0 .. MaxN BY PipeAssumption
<1>2. ASSUME data' = data, nread' = nread, nwrite' = nwrite,
             left' = left \/ \E p \in Procs, n \in 0 .. MaxN : left' = [left EXCEPT ![p] = n]
      PROVE  Bounded' /\ DataOK'
  <2>1. Bounded' BY <1>2, Zenon DEF Bounded, Counters, Avail
  <2>2. DataOK' BY <1>2 DEF DataOK
  <2>3. QED BY <2>1, <2>2
<1>3. CASE UNCHANGED vars BY <1>2, <1>3, Zenon DEF vars, pipe
<1>4. ASSUME NEW p \in Procs, WriteEnds(p) \/ WriteFull(p) PROVE Bounded' /\ DataOK'
  <2>1. PICK j \in 0 .. Space :
          /\ j <= left[p] /\ Store(p, j)
          /\ left' = [left EXCEPT ![p] = @ - j] \/ left' = [left EXCEPT ![p] = 0]
    BY <1>4, Writes, Zenon
  <2>2. nread' = nread /\ Space \in 0 .. PIPESIZE BY <1>4, Writes, Zenon
  <2>3. Bounded' BY <2>1, <2>2, StoreCounts, Zenon
  <2>4. j \in Nat /\ nwrite \in Int BY <1>1, <2>2 DEF Bounded, Counters
  <2>5. data' \in [0 .. PIPESIZE - 1 -> Byte] BY <2>1, <2>4, StoreKeepsData, Zenon
  <2>6. left' \in [Procs -> 0 .. MaxN]
    <3>1. left \in [Procs -> 0 .. MaxN] /\ left[p] - j \in 0 .. MaxN /\ 0 \in 0 .. MaxN
      BY <1>1, <2>1, <2>4 DEF DataOK
    <3>2. QED BY <2>1, <3>1, Zenon
  <2>7. QED BY <2>3, <2>5, <2>6 DEF DataOK
<1>5. ASSUME NEW p \in Procs, ReadSome(p) PROVE Bounded' /\ DataOK'
  <2>1. PICK j \in 0 .. Avail : nread' = (nread + j) % Width BY <1>5, Reads, Zenon
  <2>2. data' = data /\ nwrite' = nwrite /\ left' = left BY <1>5, Reads, Zenon
  <2>3. Bounded' BY <2>1, <2>2, FetchCounts, Zenon
  <2>4. QED BY <2>2, <2>3, Zenon DEF DataOK
<1>6. ASSUME NEW p \in Procs,
             \/ \E n \in Sizes : Write(p, n) \/ Read(p, n)
             \/ ReadEmpty(p) \/ Return(p) \/ CloseRead(p) \/ CloseWrite(p) \/ Kill(p)
      PROVE  Bounded' /\ DataOK'
  <2>1. data' = data /\ nread' = nread /\ nwrite' = nwrite
    BY <1>6, Zenon DEF Write, Read, ReadEmpty, Return, CloseRead, CloseWrite, Kill, pipe
  <2>2. 0 \in 0 .. MaxN BY <1>1
  <2>3. left' = left \/ \E n \in 0 .. MaxN : left' = [left EXCEPT ![p] = n]
    BY <1>1, <1>6, <2>2, Zenon DEF Write, Read, ReadEmpty, Return, CloseRead, CloseWrite, Kill
  <2>4. QED BY <1>2, <2>1, <2>3, Zenon
<1>7. QED BY <1>3, <1>4, <1>5, <1>6, Zenon DEF Next

\* An end is closed by its last holder, who is not inside a call.
LEMMA EndsStep ==
  ASSUME EndsInv, [Next]_vars
  PROVE  EndsInv'
<1> USE DEF EndsInv
<1>1. CASE UNCHANGED vars BY <1>1 DEF vars, pipe
<1>2. ASSUME NEW p \in Procs, NEW n \in Sizes, Write(p, n) \/ Read(p, n) PROVE EndsInv'
  BY <1>2 DEF Write, Read, pipe
<1>3. ASSUME NEW p \in Procs, WriteEnds(p) PROVE EndsInv'
  BY <1>3 DEF WriteEnds, WakeReaders
<1>4. ASSUME NEW p \in Procs, WriteFull(p) PROVE EndsInv'
  BY <1>4, Zenon DEF WriteFull, WakeReaders
<1>5. ASSUME NEW p \in Procs, ReadEmpty(p) PROVE EndsInv'
  BY <1>5, Zenon DEF ReadEmpty, pipe
<1>6. ASSUME NEW p \in Procs, ReadSome(p) PROVE EndsInv'
  BY <1>6 DEF ReadSome, WakeWriters
<1>7. ASSUME NEW p \in Procs, Return(p) PROVE EndsInv'
  BY <1>7 DEF Return, pipe
<1>8. ASSUME NEW p \in Procs, CloseRead(p) PROVE EndsInv'
  BY <1>8, Zenon DEF CloseRead, WakeWriters
<1>9. ASSUME NEW p \in Procs, CloseWrite(p) PROVE EndsInv'
  BY <1>9, Zenon DEF CloseWrite, WakeReaders
<1>10. ASSUME NEW p \in Procs, Kill(p) PROVE EndsInv'
  BY <1>10 DEF Kill, pipe
<1>11. QED
  BY <1>1, <1>2, <1>3, <1>4, <1>5, <1>6, <1>7, <1>8, <1>9, <1>10, Zenon DEF Next

\* Every change of what a sleeper waits for wakes it.
LEMMA SleepStep ==
  ASSUME Bounded, DataOK, EndsInv, SleepersHaveReason, [Next]_vars
  PROVE  SleepersHaveReason'
<1>1. PIPESIZE \in Nat BY PipeAssumption
<1>2. ASSUME nread' = nread, nwrite' = nwrite PROVE Space' = Space BY <1>2, Zenon DEF Space, Avail
<1>3. ASSUME NEW p \in Procs, WriteEnds(p) \/ WriteFull(p), Space = 0 PROVE Space' = 0
  <2>1. PICK j \in 0 .. Space : Store(p, j) BY <1>3, Writes, Zenon
  <2>2. nread' = nread /\ Space \in 0 .. PIPESIZE BY <1>3, Writes, Zenon
  <2>3. Space' = Space - j BY <2>1, <2>2, StoreCounts, Zenon
  <2>4. j = 0 BY <1>3
  <2>5. QED BY <1>3, <2>3, <2>4
<1> USE DEF EndsInv, SleepersHaveReason
<1>4. CASE UNCHANGED vars BY <1>2, <1>4 DEF vars, pipe
<1>5. ASSUME NEW p \in Procs, NEW n \in Sizes, Write(p, n) \/ Read(p, n) PROVE SleepersHaveReason'
  <2>1. nread' = nread /\ nwrite' = nwrite BY <1>5, Zenon DEF Write, Read, pipe
  <2>2. QED BY <1>2, <1>5, <2>1 DEF Write, Read
<1>6. ASSUME NEW p \in Procs, WriteEnds(p) PROVE SleepersHaveReason'
  BY <1>3, <1>6, Zenon DEF WriteEnds, WakeReaders
<1>7. ASSUME NEW p \in Procs, WriteFull(p) PROVE SleepersHaveReason'
  <2>1. CASE ~readopen \/ killed[p] BY <1>7, <2>1, Zenon DEF WriteFull
  <2>2. CASE readopen /\ ~killed[p]
    <3>1. Space' = 0
      <4>1. Store(p, Space) /\ nread' = nread BY <1>7 DEF WriteFull
      <4>2. Space \in 0 .. PIPESIZE BY <1>7, Writes, Zenon
      <4>3. Space \in 0 .. Space BY <1>1, <4>2
      <4>4. Space' = Space - Space BY <4>1, <4>3, StoreCounts, Zenon
      <4>5. QED BY <1>1, <4>2, <4>4
    <3>2. QED BY <1>7, <2>2, <3>1, Zenon DEF WriteFull, WakeReaders
  <2>3. QED BY <2>1, <2>2
<1>8. ASSUME NEW p \in Procs, ReadEmpty(p) PROVE SleepersHaveReason'
  <2>1. nread' = nread /\ nwrite' = nwrite BY <1>8, Zenon DEF ReadEmpty, pipe
  <2>2. QED BY <1>2, <1>8, <2>1 DEF ReadEmpty
<1>9. ASSUME NEW p \in Procs, ReadSome(p) PROVE SleepersHaveReason'
  <2>1. /\ ~(nread = nwrite /\ writeopen) /\ st' = [WakeWriters(st) EXCEPT ![p] = "returns"]
        /\ wend' = wend /\ killed' = killed
    BY <1>9, Zenon DEF ReadSome
  <2>2. ASSUME \A r \in Procs : ~killed[r] PROVE \A r \in Procs : st[r] # "read_sleep"
    BY <2>1, <2>2, Zenon
  <2>3. ASSUME \A r \in Procs : ~killed[r], NEW r \in Procs
        PROVE  st'[r] \notin {"read_sleep", "write_sleep"}
    BY <2>1, <2>2, <2>3 DEF WakeWriters
  <2>4. QED BY <2>1, <2>3, Zenon
<1>10. ASSUME NEW p \in Procs, Return(p) PROVE SleepersHaveReason'
  <2>1. nread' = nread /\ nwrite' = nwrite BY <1>10, Zenon DEF Return, pipe
  <2>2. QED BY <1>2, <1>10, <2>1 DEF Return
<1>11. ASSUME NEW p \in Procs, CloseRead(p) PROVE SleepersHaveReason'
  <2>1. nread' = nread /\ nwrite' = nwrite BY <1>11, Zenon DEF CloseRead
  <2>2. QED BY <1>2, <1>11, <2>1 DEF CloseRead, WakeWriters
<1>12. ASSUME NEW p \in Procs, CloseWrite(p) PROVE SleepersHaveReason'
  <2>1. nread' = nread /\ nwrite' = nwrite BY <1>12, Zenon DEF CloseWrite
  <2>2. QED BY <1>2, <1>12, <2>1 DEF CloseWrite, WakeReaders
<1>13. ASSUME NEW p \in Procs, Kill(p) PROVE SleepersHaveReason'
  <2>1. killed'[p] = TRUE BY <1>13 DEF Kill
  <2>2. QED BY <2>1, Zenon
<1>14. QED
  BY <1>4, <1>5, <1>6, <1>7, <1>8, <1>9, <1>10, <1>11, <1>12, <1>13, Zenon DEF Next

--------------------------------------------------------------------------------
(* Theorems *)

\* The inductive invariant of pipewrite(), piperead() and pipeclose().
THEOREM PipeCorrect == Spec => []PipeInv
<1>1. Init => PipeInv BY PipeInit
<1>2. PipeInv /\ [Next]_vars => PipeInv'
  BY RingStep, EndsStep, SleepStep, Zenon DEF PipeInv
<1>3. QED BY <1>1, <1>2, PTL DEF Spec

\* The counters never differ by more than PIPESIZE, the ring holds bytes only.
THEOREM PipeTypes == Spec => []TypeOK
<1>1. PipeInv => TypeOK BY DEF PipeInv, Bounded, Counters, DataOK, Byte, EndsInv, TypeOK
<1>2. QED BY <1>1, PipeCorrect, PTL

\* pipeclose() frees the pipe exactly when both ends are closed, and then nobody
\* is inside piperead() or pipewrite().
THEOREM FreedOnce == Spec => []FreedWhenUnused
<1>1. PipeInv => FreedWhenUnused BY Zenon DEF PipeInv, EndsInv, FreedWhenUnused
<1>2. QED BY <1>1, PipeCorrect, PTL

\* No wakeup is lost: readers sleep only on an empty pipe with writers, writers
\* only on a full pipe with readers.
THEOREM NoLostPipeWakeup == Spec => []SleepersHaveReason
<1>1. PipeInv => SleepersHaveReason BY DEF PipeInv
<1>2. QED BY <1>1, PipeCorrect, PTL

q == Fetch(Avail)

\* Every step of the pipe is a step of the stream, or leaves it alone.
LEMMA StreamStep ==
  ASSUME PipeInv, [Next]_vars
  PROVE  [Abstract!Next]_<<q, left, ubuf>>
<1>1. PIPESIZE \in Nat /\ MaxN \in Nat /\ Sizes \subseteq 0 .. MaxN BY PipeAssumption
<1>2. ASSUME data' = data, nread' = nread, nwrite' = nwrite PROVE q' = q
  BY <1>2, Zenon DEF q, Fetch, Avail
<1>3. CASE UNCHANGED vars BY <1>2, <1>3, Zenon DEF vars, pipe
<1>4. ASSUME NEW p \in Procs, WriteEnds(p) \/ WriteFull(p) PROVE Abstract!Put(p)
  <2>1. PICK j \in 0 .. Space :
          /\ j <= left[p] /\ Store(p, j)
          /\ left' = [left EXCEPT ![p] = @ - j] \/ left' = [left EXCEPT ![p] = 0]
    BY <1>4, Writes, Zenon DEF PipeInv
  <2>2. nread' = nread /\ ubuf' = ubuf /\ Space \in 0 .. PIPESIZE BY <1>4, Writes, Zenon DEF PipeInv
  <2>3. q' = q \o Abstract!Bytes(p, j) BY <2>1, <2>2, StoreAppends, Zenon DEF PipeInv, q
  <2>4. Len(q) = Avail
    <3>1. Avail \in Nat BY PipeAssumption, AvailIs DEF PipeInv, Bounded
    <3> DEFINE a == Avail
    <3> HIDE DEF a
    <3>2. q = Fetch(a) BY Zenon DEF q, a
    <3>3. QED BY <3>1, <3>2 DEF Fetch, a
  <2>5. Space = PIPESIZE - Avail /\ Avail \in Nat
    BY PipeAssumption, AvailIs, SpaceIs DEF PipeInv, Bounded
  <2>6. j \in 0 .. PIPESIZE /\ Len(q) + j <= PIPESIZE
    <3> DEFINE a == Avail
    <3>1. Len(q) = a /\ a \in Nat /\ Space = PIPESIZE - a BY <2>4, <2>5
    <3> HIDE DEF a
    <3>2. QED BY <1>1, <3>1
  <2>7. QED BY <2>1, <2>2, <2>3, <2>6, Zenon DEF Abstract!Put, q
<1>5. ASSUME NEW p \in Procs, ReadSome(p) PROVE Abstract!Get(p)
  <2>1. PICK j \in 0 .. Avail :
          /\ j <= left[p] /\ nread' = (nread + j) % Width
          /\ \/ ubuf' = [ubuf EXCEPT ![p] = Fetch(j)]
             \/ j > 0 /\ ubuf' = [ubuf EXCEPT ![p] = Fetch(j - 1)]
    BY <1>5, Reads, Zenon DEF PipeInv
  <2>2. data' = data /\ nwrite' = nwrite /\ left' = left BY <1>5, Reads, Zenon DEF PipeInv
  <2>3. /\ q' = SubSeq(q, j + 1, Len(q)) /\ Len(q) = Avail
        /\ \A k \in 0 .. j : Fetch(k) = SubSeq(q, 1, k)
    BY <2>1, <2>2, FetchTakes, Zenon DEF PipeInv, q
  <2>4. \E k \in {j, j - 1} : ubuf' = [ubuf EXCEPT ![p] = SubSeq(q, 1, k)]
    <3>1. j \in 0 .. j /\ (j > 0 => j - 1 \in 0 .. j)
      <4>1. Avail \in Nat BY PipeAssumption, AvailIs DEF PipeInv, Bounded
      <4> DEFINE a == Avail
      <4>2. j \in 0 .. a /\ a \in Nat BY <4>1
      <4> HIDE DEF a
      <4>3. QED BY <4>2
    <3>2. QED BY <2>1, <2>3, <3>1, Zenon
  <2>5. QED BY <2>1, <2>2, <2>3, <2>4, Zenon DEF Abstract!Get, q
<1>6. ASSUME NEW p \in Procs, NEW n \in Sizes, Write(p, n) \/ Read(p, n) PROVE Abstract!Call(p)
  <2>1. q' = q BY <1>2, <1>6, Zenon DEF Write, Read, pipe
  <2>2. n \in 0 .. MaxN BY <1>1
  <2>3. QED BY <1>6, <2>1, <2>2, Zenon DEF Write, Read, Abstract!Call, q
<1>7. ASSUME NEW p \in Procs, Return(p) PROVE Abstract!Return(p)
  <2>1. q' = q BY <1>2, <1>7, Zenon DEF Return, pipe
  <2>2. QED BY <1>7, <2>1, Zenon DEF Return, Abstract!Return, q
<1>8. ASSUME NEW p \in Procs, ReadEmpty(p) \/ CloseRead(p) \/ CloseWrite(p) \/ Kill(p)
      PROVE  UNCHANGED <<q, left, ubuf>>
  <2>1. data' = data /\ nread' = nread /\ nwrite' = nwrite /\ left' = left /\ ubuf' = ubuf
    BY <1>8, Zenon DEF ReadEmpty, CloseRead, CloseWrite, Kill, pipe
  <2>2. QED BY <1>2, <2>1, Zenon
<1>9. QED
  BY <1>3, <1>4, <1>5, <1>6, <1>7, <1>8, Zenon DEF Next, Abstract!Next

\* The pipe is a bounded first-in-first-out stream of bytes, through every wrap of
\* the indexes and of the counters.
THEOREM PipeIsStream == Spec => PipeImplements
<1>1. Init => Abstract!Init
  <2>1. SUFFICES ASSUME Init PROVE Abstract!Init OBVIOUS
  <2>2. Avail = 0 BY <2>1, PipeInit
  <2>3. Fetch(Avail) = <<>> BY <2>2 DEF Fetch
  <2>4. QED BY <2>1, <2>3 DEF Init, Abstract!Init
<1>2. PipeInv /\ [Next]_vars => [Abstract!Next]_<<Fetch(Avail), left, ubuf>>
  BY StreamStep, Zenon DEF q
<1>3. QED BY <1>1, <1>2, PipeCorrect, PTL DEF Spec, PipeImplements, Abstract!Spec

================================================================================
