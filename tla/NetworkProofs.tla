----------------------------- MODULE NetworkProofs -----------------------------
(* Proofs about a network connection and about the MAIP server on top of such *)
(* connections, for any number of connections, requests, messages and bytes   *)
(* and any sizes of the buffer and of the requests.                           *)
EXTENDS Network, Integers, TLAPS

(***************************************************************************)
(* The MAIP server.                                                        *)
(***************************************************************************)

Opened == {c \in Conns : state[c] = "open"}
Accumulation == [ask : Conns \X Nat, mDataToRead : Nat, mAccumulatedData : Seq(Cells)]

Types ==
    /\ TypeOK
    /\ asked \in [Conns -> Seq(Kinds)] /\ stream \in [Conns -> Seq(Cells)]
    /\ \A c \in Conns : Len(asked[c]) <= Asks[c]
    /\ \A fd \in DOMAIN mAccumulationMap : mAccumulationMap[fd] \in Accumulation
    /\ run \in [conn : Conns \cup {0}, ask : (Conns \cup {0}) \X Nat, data : Seq(Cells)]

\* Two open connections have sockets of their own, and one not yet made has asked nothing.
SocketInv ==
    /\ \A c \in Opened : socket[c] \in 1..Cardinality(Conns)
    /\ \A c, d \in Opened : socket[c] = socket[d] => c = d
    /\ \A c \in Conns : state[c] = "none" => asked[c] = <<>>

\* What is in a stream goes on to the end of its request.
GoesOn(c, j) ==
    LET cell == stream[c][j] IN
    /\ cell[1] = c /\ cell[2] \in 1..Len(asked[c]) /\ cell[3] \in 0..KindOf(cell).len
    /\ \A m \in 0..(KindOf(cell).len - cell[3]) :
          j + m <= Len(stream[c]) /\ stream[c][j + m] = <<c, cell[2], cell[3] + m>>
StreamInv == \A c \in Conns : \A j \in 1..Len(stream[c]) : GoesOn(c, j)

\* What is accumulated is the data of a request that was asked.
AccInv == \A fd \in DOMAIN mAccumulationMap :
    LET acc == mAccumulationMap[fd] IN
    /\ acc.ask[2] \in 1..Len(asked[acc.ask[1]]) /\ acc.mDataToRead = KindOf(acc.ask).len
    /\ Len(acc.mAccumulatedData) < acc.mDataToRead

\* A connection's own accumulation begins with the request's data, and its stream goes on with it.
Begun(c, acc) ==
    /\ \A i \in 1..Len(acc.mAccumulatedData) : acc.mAccumulatedData[i] = <<c, acc.ask[2], i>>
    /\ stream[c] # <<>> /\ stream[c][1] = <<c, acc.ask[2], Len(acc.mAccumulatedData) + 1>>
Exempt(c) == <<c, "short">> \in odd \/ <<c, "inherited">> \in odd
WholeInv == \A c \in Opened :
    Accumulating(c) /\ ~Exempt(c) /\ mAccumulationMap[socket[c]].ask[1] = c =>
        Begun(c, mAccumulationMap[socket[c]])

RunInv == run.conn # 0 =>
    /\ run.ask[1] \in Conns /\ run.ask[2] \in 1..Len(asked[run.ask[1]])
    /\ Exempt(run.conn) \/ run.data = Data(run.ask)

IInv == Types /\ SocketInv /\ StreamInv /\ AccInv /\ WholeInv /\ RunInv

-----------------------------------------------------------------------------
(* The constants, requests and cells.                                      *)

LEMMA Constants ==
  /\ Cardinality(Conns) \in Nat /\ Conns = 1..Cardinality(Conns) /\ Conns \subseteq Nat \ {0}
  /\ BufferSize \in Nat \ {0}
  /\ \A q \in Kinds : q.len \in Nat /\ q.op \in {"INF", "EXEC", "custom", "create"} /\ q.STOK \in BOOLEAN
  /\ \A c \in Conns : Asks[c] \in Nat
BY RequestsAssumption DEF ConstantsFit

LEMMA RangeTyped ==
  ASSUME NEW S, NEW s \in Seq(S)
  PROVE  Range(s) \subseteq S
BY DEF Range

LEMMA CellTyped ==
  ASSUME NEW c \in Conns, NEW k \in 1..Asks[c], NEW q \in Kinds, NEW i \in 0..q.len
  PROVE  <<c, k, i>> \in Cells
<1> DEFINE Of(d, p) == {d} \X (1..Asks[d]) \X (0..p.len)
           cell == <<c, k, i>>
<1>1. cell \in Of(c, q)
  OBVIOUS
<1>2. Cells = {Empty} \cup UNION {Of(d, p) : d \in Conns, p \in Kinds}
  BY DEF Cells
<1> HIDE DEF Of, cell
<1>3. cell \in Cells
  BY <1>1, <1>2
<1> QED
  BY <1>3 DEF cell

LEMMA KindTyped ==
  ASSUME Types, NEW c \in Conns, NEW k \in 1..Len(asked[c])
  PROVE  /\ asked[c][k] \in Kinds /\ asked[c][k].len \in Nat /\ Len(asked[c]) \in Nat
         /\ k \in 1..Asks[c] /\ k \in Nat
BY SMTT(30), Constants DEF Types

\* A sequence is a function on its places.
LEMMA SequenceTyped ==
  ASSUME NEW S, NEW s \in Seq(S)
  PROVE  s \in [1..Len(s) -> S]
OBVIOUS

\* The data of a request is its cells but the head.
LEMMA DataCells ==
  ASSUME Types, NEW c \in Conns, NEW k \in 1..Len(asked[c])
  PROVE  Data(<<c, k>>) = [i \in 1..asked[c][k].len |-> <<c, k, i>>]
<1> DEFINE len == asked[c][k].len
           request == [i \in 1..(len + 1) |-> <<c, k, i - 1>>]
<1>1. len \in Nat
  BY KindTyped
<1>2. Data(<<c, k>>) = Tail(request)
  BY DEF Data, Request
<1> HIDE DEF len
<1>3. Tail(request) = [i \in 1..len |-> <<c, k, i>>]
  <2> DEFINE S == {<<c, k, i - 1>> : i \in 1..(len + 1)}
  <2>1. \A i \in 1..(len + 1) : <<c, k, i - 1>> \in S
    OBVIOUS
  <2> HIDE DEF S
  <2>2. request \in Seq(S) /\ Len(request) = len + 1
    BY <1>1, <2>1
  <2>3. \A i \in 1..len : i + 1 \in 1..(len + 1) /\ request[i + 1] = <<c, k, i>>
    BY <1>1
  <2> HIDE DEF request
  <2>4. Tail(request) \in Seq(S) /\ Len(Tail(request)) = len
          /\ \A i \in 1..len : Tail(request)[i] = request[i + 1]
    BY <1>1, <2>2
  <2>5. Tail(request) \in [1..len -> S]
    BY <2>4, SequenceTyped
  <2>6. Tail(request) = [i \in 1..len |-> Tail(request)[i]]
    BY <2>5
  <2> QED
    BY <2>3, <2>4, <2>6
<1> QED
  BY <1>2, <1>3 DEF len

\* The smaller of two numbers.
LEMMA MinOfTwo ==
  ASSUME NEW a \in Nat, NEW b \in Nat
  PROVE  Min({a, b}) = IF a <= b THEN a ELSE b
<1>1. \E x \in {a, b} : \A y \in {a, b} : x <= y
  OBVIOUS
<1>2. Min({a, b}) \in {a, b} /\ \A y \in {a, b} : Min({a, b}) <= y
  BY <1>1 DEF Min
<1> QED
  BY <1>2

LEMMA Beginning ==
  ASSUME NEW S, NEW s \in Seq(S), NEW n \in Nat, n <= Len(s)
  PROVE  /\ SubSeq(s, 1, n) \in Seq(S) /\ Len(SubSeq(s, 1, n)) = n
         /\ \A i \in 1..n : SubSeq(s, 1, n)[i] = s[i]
         /\ n = Len(s) => SubSeq(s, 1, n) = s
OBVIOUS

LEMMA Rest ==
  ASSUME NEW S, NEW s \in Seq(S), NEW n \in 0..Len(s)
  PROVE  /\ SubSeq(s, n + 1, Len(s)) \in Seq(S) /\ Len(SubSeq(s, n + 1, Len(s))) = Len(s) - n
         /\ \A i \in 1..(Len(s) - n) : SubSeq(s, n + 1, Len(s))[i] = s[n + i]
OBVIOUS

LEMMA Joined ==
  ASSUME NEW S, NEW s \in Seq(S), NEW t \in Seq(S)
  PROVE  /\ s \o t \in Seq(S) /\ Len(s \o t) = Len(s) + Len(t) /\ Len(s) \in Nat /\ Len(t) \in Nat
         /\ \A i \in 1..Len(s) : (s \o t)[i] = s[i]
         /\ \A i \in 1..Len(t) : (s \o t)[Len(s) + i] = t[i]
OBVIOUS

-----------------------------------------------------------------------------

LEMMA InitHolds ==
  ASSUME Init
  PROVE  IInv
<1>1. Len(<<>>) = 0 /\ Range(<<>>) = {} /\ DOMAIN <<>> = {} /\ \A S : <<>> \in Seq(S)
  BY DEF Range
<1>2. \A c \in Conns : asked[c] = <<>> /\ stream[c] = <<>> /\ state[c] = "none" /\ Asks[c] >= 0
  BY Constants DEF Init
<1>3. TypeOK
  <2>1. socket \in [Conns -> 0..Cardinality(Conns)]
        /\ mPacketContent \in [Conns -> [1..BufferSize -> Cells]]
    BY Constants DEF Init, Cells
  <2>2. {reading, writing, waiting} \subseteq [Conns -> BOOLEAN]
    BY DEF Init
  <2>3. DOMAIN mAccumulationMap = {} /\ Range(run.data) \subseteq Cells
    BY <1>1 DEF Init, NoRun
  <2>4. \A c \in Conns : Range(asked[c]) \subseteq Kinds /\ Range(stream[c]) \subseteq Cells
    BY <1>1, <1>2
  <2> QED
    BY <2>1, <2>2, <2>3, <2>4 DEF Init, TypeOK
<1>4. Types
  BY <1>1, <1>2, <1>3, Constants DEF Init, Types, NoRun
<1>5. SocketInv /\ StreamInv /\ WholeInv
  BY <1>1, <1>2 DEF SocketInv, StreamInv, WholeInv, Opened
<1>6. AccInv /\ RunInv
  BY <1>1 DEF Init, AccInv, RunInv, NoRun
<1> QED
  BY <1>4, <1>5, <1>6 DEF IInv

-----------------------------------------------------------------------------
(* Connections and their clients.                                          *)

LEMMA AcceptStep ==
  ASSUME IInv, NEW c \in Conns, Accept(c)
  PROVE  IInv'
<1>1. Types /\ SocketInv /\ StreamInv /\ AccInv /\ WholeInv /\ RunInv
  BY DEF IInv
<1>2. PICK fd \in (1..Cardinality(Conns)) \ Used : socket' = [socket EXCEPT ![c] = fd]
  BY DEF Accept
<1>3. state[c] = "none" /\ state' = [state EXCEPT ![c] = "open"]
        /\ reading' = [reading EXCEPT ![c] = TRUE]
  BY DEF Accept
<1>4. UNCHANGED <<running, writing, mPacketContent, mAccumulationMap, asked, stream, waiting, held,
                  run, odd>>
  BY DEF Accept, clientVars
<1>5. TypeOK'
  <2>1. socket' \in [Conns -> 0..Cardinality(Conns)]
    BY <1>1, <1>2, Constants DEF Types, TypeOK
  <2>2. state' \in [Conns -> {"none", "open", "closed", "reported"}]
    BY <1>1, <1>3 DEF Types, TypeOK
  <2>3. {reading', writing', waiting'} \subseteq [Conns -> BOOLEAN]
    BY <1>1, <1>3, <1>4 DEF Types, TypeOK
  <2> QED
    BY <1>1, <1>4, <2>1, <2>2, <2>3 DEF Types, TypeOK
<1>6. Types' /\ StreamInv' /\ AccInv' /\ RunInv'
  <2>1. Types'
    BY <1>1, <1>4, <1>5 DEF Types
  <2>2. StreamInv' /\ AccInv'
    BY SMTT(30), <1>1, <1>4 DEF StreamInv, GoesOn, AccInv, KindOf
  <2>3. RunInv'
    BY <1>1, <1>4 DEF RunInv, Exempt, Data, Request
  <2> QED
    BY <2>1, <2>2, <2>3
<1>7. Opened' = Opened \cup {c} /\ socket'[c] = fd /\ \A d \in Opened : d # c /\
        socket'[d] = socket[d]
        /\ socket[d] # fd
  BY <1>1, <1>2, <1>3 DEF Types, TypeOK, Opened, Used
<1>8. SocketInv'
  <2>1. \A d \in Conns : state'[d] = "none" => state[d] = "none"
    BY <1>1, <1>3 DEF Types, TypeOK
  <2>2. \A d, e \in Opened' : socket'[d] = socket'[e] => d = e
    BY <1>1, <1>7 DEF SocketInv
  <2>3. \A d \in Opened' : socket'[d] \in 1..Cardinality(Conns)
    BY <1>1, <1>7 DEF SocketInv
  <2> QED
    BY <1>1, <1>4, <2>1, <2>2, <2>3 DEF SocketInv
<1>9. WholeInv'
  <2> SUFFICES ASSUME NEW d \in Opened', (Accumulating(d))', ~(Exempt(d))',
                      (mAccumulationMap[socket[d]].ask[1] = d)'
               PROVE  (Begun(d, mAccumulationMap[socket[d]]))'
    BY DEF WholeInv
  <2>1. d # c
    BY <1>1, <1>3, <1>4, <1>7 DEF AccInv, SocketInv, Accumulating
  <2>2. d \in Opened /\ socket'[d] = socket[d] /\ stream'[d] = stream[d]
    BY <1>4, <1>7, <2>1
  <2>3. Begun(d, mAccumulationMap[socket[d]])
    BY <1>1, <1>4, <2>2 DEF WholeInv, Accumulating, Exempt
  <2> QED
    BY <1>4, <2>2, <2>3 DEF Begun
<1> QED
  BY <1>6, <1>8, <1>9 DEF IInv

LEMMA AskStep ==
  ASSUME IInv, NEW c \in Conns, NEW kind \in Kinds, Ask(c, kind)
  PROVE  IInv'
<1>1. Types /\ SocketInv /\ StreamInv /\ AccInv /\ WholeInv /\ RunInv
  BY DEF IInv
<1> DEFINE k == Len(asked[c]) + 1
           request == [i \in 1..(kind.len + 1) |-> <<c, k, i - 1>>]
<1>2. /\ state[c] = "open" /\ Len(asked[c]) < Asks[c]
      /\ asked' = [asked EXCEPT ![c] = Append(asked[c], kind)]
      /\ stream' = [stream EXCEPT ![c] = stream[c] \o request]
      /\ waiting' = [waiting EXCEPT ![c] = TRUE]
      /\ UNCHANGED <<running, socket, state, reading, writing, mPacketContent, mAccumulationMap,
                     held, run, odd>>
  BY DEF Ask, netVars
<1>3. /\ asked[c] \in Seq(Kinds) /\ Len(asked[c]) \in Nat /\ kind.len \in Nat /\ Asks[c] \in Nat
      /\ k \in 1..Asks[c] /\ stream[c] \in Seq(Cells)
  BY SMTT(30), <1>1, <1>2, Constants DEF Types
<1>4. \A i \in 1..(kind.len + 1) : <<c, k, i - 1>> \in Cells
  BY <1>3, CellTyped
<1>5. request \in Seq(Cells) /\ Len(request) = kind.len + 1
  BY SMTT(30), <1>3, <1>4
<1> HIDE DEF request
<1>6. /\ asked'[c] \in Seq(Kinds) /\ Len(asked'[c]) = k /\ asked'[c][k] = kind
      /\ \A n \in 1..Len(asked[c]) : asked'[c][n] = asked[c][n]
  BY <1>1, <1>2, <1>3 DEF Types
<1>7. /\ stream'[c] \in Seq(Cells) /\ Len(stream'[c]) = Len(stream[c]) + kind.len + 1
      /\ \A j \in 1..Len(stream[c]) : stream'[c][j] = stream[c][j]
      /\ \A j \in 1..(kind.len + 1) : stream'[c][Len(stream[c]) + j] = request[j]
  <2>1. stream'[c] = stream[c] \o request
    BY <1>1, <1>2 DEF Types
  <2> QED
    <3>1. /\ stream[c] \o request \in Seq(Cells) /\
               Len(stream[c] \o request) = Len(stream[c]) + Len(request)
          /\ \A i \in 1..Len(stream[c]) : (stream[c] \o request)[i] = stream[c][i]
          /\ \A i \in 1..Len(request) : (stream[c] \o request)[Len(stream[c]) + i] = request[i]
          /\ Len(stream[c]) \in Nat
      <4>1. stream[c] \in Seq(Cells) /\ request \in Seq(Cells)
        BY <1>3, <1>5
      <4> QED
        BY ONLY <4>1, Joined
    <3> HIDE DEF k
    <3>2. Len(stream[c]) + Len(request) = Len(stream[c]) + kind.len + 1
      BY <1>3, <1>5, <3>1
    <3> QED
      BY <1>5, <2>1, <3>1, <3>2
<1>8. \A d \in Conns \ {c} : asked'[d] = asked[d] /\ stream'[d] = stream[d]
  BY <1>1, <1>2 DEF Types
<1>9. asked' \in [Conns -> Seq(Kinds)] /\ stream' \in [Conns -> Seq(Cells)]
  BY <1>1, <1>2, <1>6, <1>7 DEF Types
<1>10. \A d \in Conns : Len(asked'[d]) <= Asks[d]
  <2>1. Len(asked'[c]) <= Asks[c]
    BY <1>3, <1>6
  <2>2. \A d \in Conns \ {c} : Len(asked'[d]) <= Asks[d]
    BY <1>1, <1>8 DEF Types
  <2> QED
    BY <2>1, <2>2
<1>11. \A d \in Conns : Range(asked'[d]) \subseteq Kinds /\ Range(stream'[d]) \subseteq Cells
  BY <1>9, RangeTyped
<1>12. waiting' \in [Conns -> BOOLEAN]
  BY <1>1, <1>2 DEF Types, TypeOK
<1>13. Types'
  <2>1. {reading', writing', waiting'} \subseteq [Conns -> BOOLEAN]
    BY <1>1, <1>2, <1>12 DEF Types, TypeOK
  <2>2. TypeOK'
    BY <1>1, <1>2, <1>11, <2>1 DEF Types, TypeOK
  <2> QED
    BY <1>1, <1>2, <1>9, <1>10, <2>2 DEF Types
<1>14. \A d \in Conns : \A n \in 1..Len(asked[d]) :
          /\ n \in 1..Len(asked'[d]) /\ asked'[d][n] = asked[d][n]
          /\ Data(<<d, n>>)' = Data(<<d, n>>)
  <2> SUFFICES ASSUME NEW d \in Conns, NEW n \in 1..Len(asked[d])
               PROVE  n \in 1..Len(asked'[d]) /\ asked'[d][n] = asked[d][n]
    BY DEF Data, Request
  <2>1. CASE d = c
    BY <1>3, <1>6, <2>1
  <2>2. CASE d # c
    BY <1>8, <2>2
  <2> QED
    BY <2>1, <2>2
<1>15. SocketInv'
  BY <1>1, <1>2, <1>8 DEF SocketInv, Opened
<1>16. StreamInv'
  <2> SUFFICES ASSUME NEW d \in Conns, NEW j \in 1..Len(stream'[d])
               PROVE  GoesOn(d, j)'
    BY DEF StreamInv
  <2>1. CASE d # c \/ j <= Len(stream[c])
    <3>1. j \in 1..Len(stream[d]) /\ stream'[d][j] = stream[d][j] /\ GoesOn(d, j)
            /\ Len(stream[d]) \in Nat
      BY SMTT(30), <1>1, <1>3, <1>7, <1>8, <2>1 DEF StreamInv, Types
    <3> DEFINE cell == stream[d][j]
    <3>2. cell[1] = d /\ cell[2] \in 1..Len(asked'[d]) /\ asked'[d][cell[2]] = asked[d][cell[2]]
            /\ asked[d][cell[2]].len \in Nat /\ cell[3] \in 0..asked[d][cell[2]].len
      BY <1>1, <1>14, <3>1, KindTyped DEF GoesOn, KindOf
    <3>3. \A m \in 0..(asked[d][cell[2]].len - cell[3]) :
            j + m <= Len(stream[d]) /\ stream[d][j + m] = <<d, cell[2], cell[3] + m>>
      BY <3>1, <3>2 DEF GoesOn, KindOf
    <3> HIDE DEF cell
    <3>4. \A n \in 1..Len(stream[d]) : n <= Len(stream'[d]) /\ stream'[d][n] = stream[d][n]
      <4>1. CASE d = c
        <5>1. Len(stream'[c]) >= Len(stream[c])
          BY <1>3, <1>7, KindTyped
        <5> QED
          BY <1>7, <4>1, <5>1
      <4>2. CASE d # c
        <5>1. stream'[d] = stream[d]
          BY <1>8, <4>2
        <5> QED
          BY <3>1, <5>1
      <4> QED
        BY <4>1, <4>2
    <3>5. \A m \in 0..(asked[d][cell[2]].len - cell[3]) :
            j + m <= Len(stream'[d]) /\ stream'[d][j + m] = <<d, cell[2], cell[3] + m>>
      <4> SUFFICES ASSUME NEW m \in 0..(asked[d][cell[2]].len - cell[3])
                   PROVE  j + m <= Len(stream'[d]) /\
                            stream'[d][j + m] = <<d, cell[2], cell[3] + m>>
        OBVIOUS
      <4>1. j + m \in 1..Len(stream[d]) /\ stream[d][j + m] = <<d, cell[2], cell[3] + m>>
        BY <3>1, <3>2, <3>3
      <4> QED
        BY <3>4, <4>1
    <3> QED
      BY <3>1, <3>2, <3>5 DEF GoesOn, KindOf, cell
  <2>2. CASE d = c /\ j > Len(stream[c])
    <3> DEFINE i == j - Len(stream[c])
    <3>1. i \in 1..(kind.len + 1) /\ Len(stream[c]) \in Nat /\ j = Len(stream[c]) + i
      BY SMTT(30), <1>3, <1>7, <2>2
    <3> HIDE DEF i
    <3>2. stream'[c][j] = <<c, k, i - 1>>
      BY <1>7, <3>1 DEF request
    <3>3. \A m \in 0..(kind.len - (i - 1)) :
            j + m <= Len(stream'[c]) /\ stream'[c][j + m] = <<c, k, (i - 1) + m>>
      <4> SUFFICES ASSUME NEW m \in 0..(kind.len - (i - 1))
                   PROVE  j + m <= Len(stream'[c]) /\ stream'[c][j + m] = <<c, k, (i - 1) + m>>
        OBVIOUS
      <4>1. i + m \in 1..(kind.len + 1) /\ j + m = Len(stream[c]) + (i + m)
        <5> HIDE DEF k
        <5>1. kind.len \in Nat /\ i \in Nat \ {0} /\ m \in Nat /\ Len(stream[c]) \in Nat
          BY <1>3, <3>1
        <5>2. m <= kind.len - (i - 1)
          OBVIOUS
        <5>3. i + m \in 1..(kind.len + 1)
          BY ONLY <5>1, <5>2
        <5>4. j + m = Len(stream[c]) + (i + m)
          <6>1. j = Len(stream[c]) + i
            BY <3>1
          <6>2. \A a, b, e \in Nat : (a + b) + e = a + (b + e)
            OBVIOUS
          <6>3. (Len(stream[c]) + i) + m = Len(stream[c]) + (i + m)
            BY ONLY <5>1, <6>2
          <6> QED
            BY ONLY <6>1, <6>3, Zenon
        <5> QED
          BY <5>3, <5>4
      <4>2. stream'[c][j + m] = <<c, k, (i + m) - 1>>
        BY <1>7, <4>1 DEF request
      <4>3. (i + m) - 1 = (i - 1) + m
        BY <3>1, <1>3
      <4> QED
        BY SMTT(30), <1>3, <1>7, <4>1, <4>2, <4>3
    <3>4. k \in 1..Len(asked'[c]) /\ i - 1 \in 0..kind.len
      BY <1>3, <1>6, <3>1
    <3> HIDE DEF k
    <3> QED
      BY <1>6, <2>2, <3>2, <3>3, <3>4 DEF GoesOn, KindOf
  <2> QED
    BY <1>3, <2>1, <2>2, <1>9
<1>17. AccInv'
  BY SMTT(30), <1>1, <1>2, <1>14 DEF AccInv, KindOf, Types, Accumulation
<1>18. WholeInv'
  <2>1. Opened' = Opened /\ \A d \in Opened : stream[d] # <<>> =>
            stream'[d] # <<>> /\ stream'[d][1] = stream[d][1]
    BY <1>2, <1>3, <1>7, <1>8 DEF Opened
  <2> QED
    BY <1>1, <1>2, <2>1 DEF WholeInv, Begun, Accumulating, Exempt
<1>19. RunInv'
  <2>1. run.conn # 0 => run.ask = <<run.ask[1], run.ask[2]>>
    BY <1>1 DEF Types
  <2> QED
    BY <1>1, <1>2, <1>14, <2>1 DEF RunInv, Exempt
<1> QED
  BY <1>13, <1>15, <1>16, <1>17, <1>18, <1>19 DEF IInv

LEMMA ConnectionStep ==
  ASSUME IInv, NEW c \in Conns, Write(c) \/ Close(c) \/ OnDisconnect(c)
  PROVE  IInv'
<1>1. Types /\ SocketInv /\ StreamInv /\ AccInv /\ WholeInv /\ RunInv
  BY DEF IInv
<1>2. /\ UNCHANGED <<running, socket, mAccumulationMap, asked, held, odd>>
      /\ run' = run \/ run' = NoRun
      /\ stream' = stream \/ (stream' = [stream EXCEPT ![c] = <<>>] /\ state'[c] = "closed")
      /\ Opened' \subseteq Opened
      /\ \A d \in Conns : state'[d] = "none" => state[d] = "none"
  BY <1>1 DEF Write, Close, OnDisconnect, clientVars, Types, TypeOK, Opened
<1>3. /\ state' \in [Conns -> {"none", "open", "closed", "reported"}]
      /\ mPacketContent' \in [Conns -> [1..BufferSize -> Cells]]
  <2>1. [i \in 1..BufferSize |-> Empty] \in [1..BufferSize -> Cells]
    BY DEF Cells
  <2>2. state \in [Conns -> {"none", "open", "closed", "reported"}]
        /\ mPacketContent \in [Conns -> [1..BufferSize -> Cells]]
    BY <1>1 DEF Types, TypeOK
  <2> QED
    BY <2>1, <2>2 DEF Write, Close, OnDisconnect
<1>4. {reading', writing', waiting'} \subseteq [Conns -> BOOLEAN]
  <2>1. {reading, writing, waiting} \subseteq [Conns -> BOOLEAN]
    BY <1>1 DEF Types, TypeOK
  <2>2. reading' \in [Conns -> BOOLEAN] /\ writing' \in [Conns -> BOOLEAN]
    BY <2>1 DEF Write, Close, OnDisconnect
  <2>3. waiting' \in [Conns -> BOOLEAN]
    BY <2>1 DEF Write, Close, OnDisconnect, clientVars
  <2> QED
    BY <2>2, <2>3
<1>5. Len(<<>>) = 0 /\ \A S : <<>> \in Seq(S)
  OBVIOUS
<1>6. /\ stream' \in [Conns -> Seq(Cells)]
      /\ \A d \in Conns : stream'[d] = stream[d] \/ (stream'[d] = <<>> /\ d \notin Opened')
  <2>1. CASE stream' = stream
    BY <1>1, <2>1 DEF Types
  <2>2. CASE stream' = [stream EXCEPT ![c] = <<>>] /\ state'[c] = "closed"
    BY <1>1, <1>5, <2>2 DEF Types, Opened
  <2> QED
    BY <1>2, <2>1, <2>2
<1>7. run' \in [conn : Conns \cup {0}, ask : (Conns \cup {0}) \X Nat, data : Seq(Cells)]
        /\ Range(run'.data) \subseteq Cells /\ (run'.conn # 0 => run' = run)
  <2>1. CASE run' = run
    BY <1>1, <2>1, RangeTyped DEF Types
  <2>2. CASE run' = NoRun
    <3>1. NoRun \in [conn : Conns \cup {0}, ask : (Conns \cup {0}) \X Nat, data : Seq(Cells)]
            /\ NoRun.data \in Seq(Cells) /\ NoRun.conn = 0
      BY <1>5 DEF NoRun
    <3> QED
      BY <2>2, <3>1, RangeTyped
  <2> QED
    BY <1>2, <2>1, <2>2
<1>8. \A d \in Conns : Range(stream'[d]) \subseteq Cells
  BY <1>6, RangeTyped
<1>9. Types'
  BY <1>1, <1>2, <1>3, <1>4, <1>6, <1>7, <1>8 DEF Types, TypeOK
<1>10. SocketInv'
  BY <1>1, <1>2 DEF SocketInv
<1>11. StreamInv'
  <2> SUFFICES ASSUME NEW d \in Conns, NEW j \in 1..Len(stream'[d])
               PROVE  GoesOn(d, j)'
    BY DEF StreamInv
  <2>1. stream'[d] = stream[d]
    BY <1>5, <1>6
  <2>2. GoesOn(d, j)
    BY <1>1, <2>1 DEF StreamInv
  <2> QED
    BY <1>2, <2>1, <2>2 DEF GoesOn, KindOf
<1>14. AccInv'
  BY <1>1, <1>2 DEF AccInv, KindOf
<1>12. WholeInv'
  <2>1. \A d \in Opened' : d \in Conns /\ d \in Opened /\ stream'[d] = stream[d]
    BY <1>2, <1>6 DEF Opened
  <2> QED
    BY <1>1, <1>2, <2>1 DEF WholeInv, Begun, Accumulating, Exempt
<1>13. RunInv'
  BY <1>1, <1>2, <1>7 DEF RunInv, Exempt, Data, Request
<1> QED
  BY <1>9, <1>10, <1>11, <1>12, <1>13, <1>14 DEF IInv

-----------------------------------------------------------------------------
(* on_data.                                                                *)

\* What a read changes.
LEMMA Received ==
  ASSUME Types, StreamInv, NEW c \in Conns, NEW n \in 1..BufferSize, Receive(c, n)
  PROVE  /\ mPacketContent' \in [Conns -> [1..BufferSize -> Cells]]
         /\ data(c) \in Seq(Cells) /\ Len(data(c)) = BufferSize
         /\ stream' \in [Conns -> Seq(Cells)]
         /\ Len(stream[c]) \in Nat /\ n \in 1..Len(stream[c]) /\
              Len(stream'[c]) = Len(stream[c]) - n
         /\ \A j \in 1..(Len(stream[c]) - n) : stream'[c][j] = stream[c][n + j]
         /\ \A d \in Conns \ {c} : stream'[d] = stream[d]
         /\ \A i \in 1..n : data(c)[i] = stream[c][i]
         /\ UNCHANGED <<socket, state, asked, waiting>> /\ state[c] = "open"
<1>1. /\ stream[c] \in Seq(Cells) /\ Len(stream[c]) \in Nat /\ n \in 1..Len(stream[c])
      /\ stream' = [stream EXCEPT ![c] = SubSeq(stream[c], n + 1, Len(stream[c]))]
      /\ mPacketContent' = [mPacketContent EXCEPT ![c] =
            [i \in 1..BufferSize |-> IF i <= n THEN stream[c][i] ELSE mPacketContent[c][i]]]
      /\ UNCHANGED <<socket, state, asked, waiting>> /\ state[c] = "open"
  BY DEF Types, Receive
<1> DEFINE new == [i \in 1..BufferSize |-> IF i <= n THEN stream[c][i] ELSE mPacketContent[c][i]]
<1>2. new \in [1..BufferSize -> Cells]
  <2>1. \A i \in 1..n : stream[c][i] \in Cells
    BY <1>1
  <2>2. \A i \in 1..BufferSize : mPacketContent[c][i] \in Cells
    <3>1. mPacketContent[c] \in [1..BufferSize -> Cells]
      BY DEF Types, TypeOK
    <3> QED
      BY <3>1
  <2> QED
    BY <2>1, <2>2, Constants
<1>3. \A i \in 1..n : new[i] = stream[c][i]
  BY Constants
<1> HIDE DEF new
<1>4. mPacketContent' \in [Conns -> [1..BufferSize -> Cells]] /\ data(c) = new
  BY <1>1, <1>2 DEF Types, TypeOK, data, new
<1>5. new \in Seq(Cells) /\ Len(new) = BufferSize
  BY <1>2, Constants
<1> DEFINE rest == SubSeq(stream[c], n + 1, Len(stream[c]))
<1>6. rest \in Seq(Cells) /\ Len(rest) = Len(stream[c]) - n
        /\ \A j \in 1..(Len(stream[c]) - n) : rest[j] = stream[c][n + j]
  <2>1. n \in 0..Len(stream[c])
    BY <1>1
  <2> QED
    BY <1>1, <2>1, Rest
<1> HIDE DEF rest
<1>7. stream' \in [Conns -> Seq(Cells)] /\ stream'[c] = rest
        /\ \A d \in Conns \ {c} : stream'[d] = stream[d]
  BY <1>1, <1>6 DEF Types, rest
<1> QED
  BY <1>1, <1>3, <1>4, <1>5, <1>6, <1>7

LEMMA ReceivedStream ==
  ASSUME Types, StreamInv, NEW c \in Conns, NEW n \in 1..BufferSize, Receive(c, n)
  PROVE  StreamInv'
<1> SUFFICES ASSUME NEW d \in Conns, NEW j \in 1..Len(stream'[d])
             PROVE  GoesOn(d, j)'
  BY DEF StreamInv
<1>1. /\ Len(stream[c]) \in Nat /\ n \in 1..Len(stream[c]) /\ Len(stream'[c]) = Len(stream[c]) - n
      /\ \A i \in 1..(Len(stream[c]) - n) : stream'[c][i] = stream[c][n + i]
      /\ \A e \in Conns \ {c} : stream'[e] = stream[e]
      /\ asked' = asked
  BY Received
<1>2. CASE d # c
  <2>1. GoesOn(d, j) /\ stream'[d] = stream[d]
    BY <1>1, <1>2 DEF StreamInv
  <2> QED
    BY <1>1, <2>1 DEF GoesOn, KindOf
<1>3. CASE d = c
  <2>1. n + j \in 1..Len(stream[c]) /\ stream'[c][j] = stream[c][n + j] /\ j \in Nat /\ n \in Nat
    BY <1>1, <1>3
  <2>2. GoesOn(c, n + j)
    BY <2>1 DEF StreamInv
  <2> DEFINE cell == stream[c][n + j]
  <2>3. /\ cell[1] = c /\ cell[2] \in 1..Len(asked[c]) /\ cell[3] \in 0..asked[cell[1]][cell[2]].len
        /\ \A m \in 0..(asked[cell[1]][cell[2]].len - cell[3]) :
              n + j + m <= Len(stream[c]) /\ stream[c][n + j + m] = <<c, cell[2], cell[3] + m>>
    BY <2>2 DEF GoesOn, KindOf
  <2> HIDE DEF cell
  <2>4. \A m \in 0..(asked[cell[1]][cell[2]].len - cell[3]) :
              j + m <= Len(stream'[c]) /\ stream'[c][j + m] = <<c, cell[2], cell[3] + m>>
    <3> SUFFICES ASSUME NEW m \in 0..(asked[cell[1]][cell[2]].len - cell[3])
                 PROVE  j + m <= Len(stream'[c]) /\ stream'[c][j + m] = <<c, cell[2], cell[3] + m>>
      OBVIOUS
    <3>1. m \in Nat /\ n + j + m <= Len(stream[c])
            /\ stream[c][n + j + m] = <<c, cell[2], cell[3] + m>>
      BY SMTT(30), <2>3
    <3>2. j + m \in 1..(Len(stream[c]) - n) /\ n + (j + m) = n + j + m
      BY <1>1, <2>1, <3>1
    <3>3. stream'[c][j + m] = stream[c][n + (j + m)]
      BY <1>1, <3>2
    <3> QED
      BY <1>1, <3>1, <3>2, <3>3
  <2> QED
    BY <1>1, <1>3, <2>1, <2>3, <2>4 DEF GoesOn, KindOf, cell
<1> QED
  BY <1>2, <1>3

\* A read that begins at the head of a request brings the cells that follow it.
LEMMA HeadRead ==
  ASSUME Types, StreamInv, NEW c \in Conns, NEW n \in 1..BufferSize, Receive(c, n), IsHead(head(c))
  PROVE  /\ head(c) = stream[c][1] /\ head(c)[1] = c /\ head(c)[2] \in 1..Len(asked[c]) /\
              head(c)[3] = 0
         /\ KindOf(head(c)) = asked[c][head(c)[2]] /\ KindOf(head(c)) \in Kinds
         /\ \A m \in 0..KindOf(head(c)).len :
               1 + m <= Len(stream[c]) /\ stream[c][1 + m] = <<c, head(c)[2], m>>
<1>1. head(c) = stream[c][1] /\ 1 \in 1..Len(stream[c])
  <2>1. Len(stream[c]) \in Nat /\ n \in 1..Len(stream[c])
          /\ \A i \in 1..n : data(c)[i] = stream[c][i]
    BY Received
  <2>2. 1 \in 1..n /\ 1 \in 1..Len(stream[c])
    BY <2>1
  <2> QED
    BY <2>1, <2>2 DEF head
<1>2. GoesOn(c, 1) /\ head(c)[3] = 0
  BY <1>1 DEF StreamInv, IsHead
<1>3. /\ head(c)[1] = c /\ head(c)[2] \in 1..Len(asked[c]) /\ KindOf(head(c)) = asked[c][head(c)[2]]
      /\ \A m \in 0..(KindOf(head(c)).len - head(c)[3]) :
            1 + m <= Len(stream[c]) /\ stream[c][1 + m] = <<c, head(c)[2], head(c)[3] + m>>
  BY <1>1, <1>2 DEF GoesOn, KindOf
<1>4. KindOf(head(c)) \in Kinds /\ KindOf(head(c)).len \in Nat
  BY <1>3, KindTyped
<1> QED
  BY SMTT(30), <1>1, <1>2, <1>3, <1>4

LEMMA Signals ==
  ASSUME Types, NEW c \in Conns,
         Answer(c) \/ SendReadSignal(c) \/ StaysUnread(c) \/ (UNCHANGED <<reading, writing>>)
  PROVE  {reading', writing'} \subseteq [Conns -> BOOLEAN]
<1>1. reading \in [Conns -> BOOLEAN] /\ writing \in [Conns -> BOOLEAN]
  BY DEF Types, TypeOK
<1>2. reading' \in [Conns -> BOOLEAN] /\ writing' \in [Conns -> BOOLEAN]
  BY <1>1 DEF Answer, SendReadSignal, StaysUnread
<1> QED
  BY <1>2

\* The types after a read, whatever it makes of the accumulations and the run.
LEMMA ReceivedTypes ==
  ASSUME Types, StreamInv, NEW c \in Conns, NEW n \in 1..BufferSize, Receive(c, n),
         running' \in BOOLEAN, {reading', writing'} \subseteq [Conns -> BOOLEAN], held' \subseteq Conns,
         DOMAIN mAccumulationMap' \subseteq 1..Cardinality(Conns),
         \A fd \in DOMAIN mAccumulationMap' :
            /\ mAccumulationMap'[fd] \in Accumulation
            /\ Len(mAccumulationMap'[fd].mAccumulatedData) < mAccumulationMap'[fd].mDataToRead,
         run' \in [conn : Conns \cup {0}, ask : (Conns \cup {0}) \X Nat, data : Seq(Cells)],
         odd' \subseteq Conns \X {"short", "inherited", "strayed"}
  PROVE  Types'
<1>1. /\ mPacketContent' \in [Conns -> [1..BufferSize -> Cells]]
      /\ stream' \in [Conns -> Seq(Cells)]
      /\ UNCHANGED <<socket, state, asked, waiting>>
  BY Received
<1>2. /\ \A d \in Conns : Range(asked'[d]) \subseteq Kinds /\ Range(stream'[d]) \subseteq Cells
      /\ Range(run'.data) \subseteq Cells
      /\ \A fd \in DOMAIN mAccumulationMap' :
            Range(mAccumulationMap'[fd].mAccumulatedData) \subseteq Cells
  BY <1>1, RangeTyped DEF Types, Accumulation
<1>3. {reading', writing', waiting'} \subseteq [Conns -> BOOLEAN]
  BY <1>1 DEF Types, TypeOK
<1>4. TypeOK'
  BY <1>1, <1>2, <1>3 DEF Types, TypeOK
<1> QED
  BY <1>1, <1>4 DEF Types

LEMMA ProgramAnswersStep ==
  ASSUME IInv, NEW c \in Conns, NEW d \in Conns, ProgramAnswers(c, d)
  PROVE  IInv'
<1>1. Types /\ SocketInv /\ StreamInv /\ AccInv /\ WholeInv /\ RunInv
  BY DEF IInv
<1>2. /\ UNCHANGED <<running, socket, state, mPacketContent, mAccumulationMap, asked, stream, waiting,
                     run>>
      /\ Answer(d) \/ UNCHANGED <<reading, writing>>
      /\ held' = held \ {c}
      /\ odd' = odd \cup (IF d = c THEN {} ELSE {c, d} \X {"strayed"})
  BY DEF ProgramAnswers, clientVars
<1>3. {reading', writing'} \subseteq [Conns -> BOOLEAN]
  BY <1>1, <1>2, Signals
<1>4. odd' \subseteq Conns \X {"short", "inherited", "strayed"} /\ odd \subseteq odd'
  BY <1>1, <1>2 DEF Types, TypeOK
<1>5. Types'
  BY <1>1, <1>2, <1>3, <1>4 DEF Types, TypeOK
<1>6. SocketInv' /\ AccInv'
  BY <1>1, <1>2 DEF SocketInv, Opened, AccInv, KindOf
<1>7. StreamInv'
  <2>1. asked' = asked /\ stream' = stream
    BY <1>2
  <2>2. ASSUME NEW e \in Conns, NEW j \in 1..Len(stream[e])
        PROVE  GoesOn(e, j) => GoesOn(e, j)'
    BY <2>1 DEF GoesOn, KindOf
  <2> QED
    BY <1>1, <2>1, <2>2 DEF StreamInv
<1>8. WholeInv' /\ RunInv'
  BY <1>1, <1>2, <1>4 DEF WholeInv, Opened, Begun, Accumulating, RunInv, Exempt, KindOf, Data, Request
<1> QED
  BY <1>5, <1>6, <1>7, <1>8 DEF IInv

LEMMA SimpleStep ==
  ASSUME IInv, NEW c \in Conns, NEW n \in 1..BufferSize,
         SimpleError(c, n) \/ SimpleNoData(c, n) \/ SimpleData(c, n)
  PROVE  IInv'
<1>1. Types /\ SocketInv /\ StreamInv /\ AccInv /\ WholeInv /\ RunInv
  BY DEF IInv
<1>2. /\ Receive(c, n) /\ ~Accumulating(c) /\ UNCHANGED <<mAccumulationMap, run, odd>>
      /\ Answer(c) \/ SendReadSignal(c) \/ StaysUnread(c) \/ (UNCHANGED <<reading, writing>>)
      /\ running' = running \/ running' = FALSE
      /\ held' = held \/ held' = held \cup {c}
  BY DEF SimpleError, SimpleNoData, SimpleData, simple_processing, on_request
<1>3. {reading', writing'} \subseteq [Conns -> BOOLEAN]
  BY <1>1, <1>2, Signals
<1>4. \A d \in Conns \ {c} : stream'[d] = stream[d]
  BY <1>1, <1>2, Received
<1>5. UNCHANGED <<socket, state, asked, waiting>>
  BY <1>2 DEF Receive
<1>6. Types'
  BY <1>1, <1>2, <1>3, ReceivedTypes DEF Types, TypeOK
<1>7. StreamInv'
  BY <1>1, <1>2, ReceivedStream
<1>8. SocketInv' /\ AccInv' /\ RunInv'
  BY <1>1, <1>2, <1>5 DEF SocketInv, Opened, AccInv, KindOf, RunInv, Exempt, Data, Request
<1>9. WholeInv'
  BY <1>1, <1>2, <1>4, <1>5 DEF WholeInv, Opened, Begun, Accumulating, Exempt
<1> QED
  BY <1>6, <1>7, <1>8, <1>9 DEF IInv

LEMMA AccumulateStep ==
  ASSUME IInv, NEW c \in Conns, NEW n \in 1..BufferSize, SimpleAccumulate(c, n)
  PROVE  IInv'
<1>1. Types /\ SocketInv /\ StreamInv /\ AccInv /\ WholeInv /\ RunInv
  BY DEF IInv
<1> DEFINE k == head(c)[2]
           len == KindOf(head(c)).len
           begin == SubSeq(data(c), 2, BufferSize)
           acc == [ask |-> <<head(c)[1], k>>, mDataToRead |-> len, mAccumulatedData |-> begin]
<1>2. /\ Receive(c, n) /\ IsHead(head(c)) /\ len > BufferSize
      /\ mAccumulationMap' = [fd \in DOMAIN mAccumulationMap \cup {socket[c]} |->
                                IF fd = socket[c] THEN acc ELSE mAccumulationMap[fd]]
      /\ odd' = odd \cup (IF n < BufferSize THEN {<<c, "short">>} ELSE {})
      /\ SendReadSignal(c) /\ UNCHANGED <<running, held, run>> /\ ~Accumulating(c)
  BY DEF SimpleAccumulate, Accumulate, simple_processing
<1>3. /\ data(c) \in Seq(Cells) /\ Len(data(c)) = BufferSize
      /\ Len(stream[c]) \in Nat /\ n \in 1..Len(stream[c]) /\ Len(stream'[c]) = Len(stream[c]) - n
      /\ \A j \in 1..(Len(stream[c]) - n) : stream'[c][j] = stream[c][n + j]
      /\ \A d \in Conns \ {c} : stream'[d] = stream[d]
      /\ \A i \in 1..n : data(c)[i] = stream[c][i]
      /\ UNCHANGED <<socket, state, asked, waiting>> /\ state[c] = "open"
  BY <1>1, <1>2, Received
<1>4. /\ head(c)[1] = c /\ k \in 1..Len(asked[c]) /\ len = asked[c][k].len /\ len \in Nat /\
           k \in Nat
      /\ \A m \in 0..len : 1 + m <= Len(stream[c]) /\ stream[c][1 + m] = <<c, k, m>>
  BY <1>1, <1>2, HeadRead, Constants
<1>5. begin \in Seq(Cells) /\ Len(begin) = BufferSize - 1
        /\ \A i \in 1..(BufferSize - 1) : begin[i] = data(c)[1 + i]
  <2>1. 1 \in 0..Len(data(c))
    BY <1>3, Constants
  <2>2. begin = SubSeq(data(c), 1 + 1, Len(data(c)))
    BY <1>3
  <2> HIDE DEF begin
  <2> QED
    BY <1>3, <2>1, <2>2, Rest
<1> HIDE DEF begin
<1>6. acc \in Accumulation /\ acc.ask = <<c, k>> /\ acc.mDataToRead = len /\
        acc.mAccumulatedData = begin
  BY <1>4, <1>5 DEF Accumulation
<1> HIDE DEF acc, k, len
<1>7. /\ DOMAIN mAccumulationMap' = DOMAIN mAccumulationMap \cup {socket[c]}
      /\ mAccumulationMap'[socket[c]] = acc
      /\ \A fd \in DOMAIN mAccumulationMap : mAccumulationMap'[fd] = mAccumulationMap[fd]
  BY <1>2 DEF Accumulating
<1>8. socket[c] \in 1..Cardinality(Conns)
  BY <1>1, <1>3 DEF SocketInv, Opened
<1>9. Types'
  <2>1. {reading', writing'} \subseteq [Conns -> BOOLEAN]
    BY <1>1, <1>2, Signals
  <2>2. Len(begin) < len
    BY <1>2, <1>4, <1>5, Constants DEF len
  <2>3. \A fd \in DOMAIN mAccumulationMap' :
            /\ mAccumulationMap'[fd] \in Accumulation
            /\ Len(mAccumulationMap'[fd].mAccumulatedData) < mAccumulationMap'[fd].mDataToRead
    BY <1>1, <1>6, <1>7, <2>2 DEF Types, AccInv
  <2>4. odd' \subseteq Conns \X {"short", "inherited", "strayed"}
    BY <1>1, <1>2 DEF Types, TypeOK
  <2>5. DOMAIN mAccumulationMap' \subseteq 1..Cardinality(Conns)
    BY <1>1, <1>7, <1>8 DEF Types, TypeOK
  <2> QED
    BY <1>1, <1>2, <2>1, <2>3, <2>4, <2>5, ReceivedTypes DEF Types, TypeOK
<1>10. StreamInv'
  BY <1>1, <1>2, ReceivedStream
<1>11. SocketInv' /\ RunInv'
  BY <1>1, <1>2, <1>3 DEF SocketInv, Opened, RunInv, Exempt, Data, Request
<1>12. AccInv'
  <2> SUFFICES ASSUME NEW fd \in DOMAIN mAccumulationMap'
               PROVE  LET a == mAccumulationMap'[fd] IN
                      /\ a.ask[2] \in 1..Len(asked[a.ask[1]])
                      /\ a.mDataToRead = asked[a.ask[1]][a.ask[2]].len
                      /\ Len(a.mAccumulatedData) < a.mDataToRead
    BY <1>3 DEF AccInv, KindOf
  <2>1. CASE fd = socket[c]
    BY SMTT(30), <1>2, <1>4, <1>5, <1>6, <1>7, <2>1, Constants
  <2>2. CASE fd # socket[c]
    BY <1>1, <1>7, <2>2 DEF AccInv, KindOf
  <2> QED
    BY <2>1, <2>2
<1>13. WholeInv'
  <2> SUFFICES ASSUME NEW d \in Opened', (Accumulating(d))', ~(Exempt(d))',
                      (mAccumulationMap[socket[d]].ask[1] = d)'
               PROVE  (Begun(d, mAccumulationMap[socket[d]]))'
    BY DEF WholeInv
  <2>1. CASE d = c
    <3>1. n = BufferSize
      BY <1>2, <2>1, Constants DEF Exempt
    <3>2. \A i \in 1..(BufferSize - 1) : begin[i] = <<c, k, i>>
      <4> SUFFICES ASSUME NEW i \in 1..(BufferSize - 1)
                   PROVE  begin[i] = <<c, k, i>>
        OBVIOUS
      <4>1. 1 + i \in 1..n /\ i \in 0..len
        BY <1>2, <1>4, <3>1, Constants
      <4> QED
        BY <1>3, <1>4, <1>5, <4>1
    <3>3. stream'[c] # <<>> /\ stream'[c][1] = <<c, k, BufferSize>>
      <4>1. BufferSize \in 0..len /\ 1 + BufferSize = n + 1
        BY <1>2, <1>4, <3>1, Constants
      <4>2. 1 + BufferSize <= Len(stream[c]) /\ stream[c][1 + BufferSize] = <<c, k, BufferSize>>
        BY <1>4, <4>1
      <4>3. 1 \in 1..(Len(stream[c]) - n) /\ Len(stream'[c]) >= 1
        BY <1>3, <3>1, <4>2, Constants
      <4> QED
        BY <1>3, <4>1, <4>2, <4>3
    <3> QED
      <4>1. /\ mAccumulationMap'[socket'[d]] = acc /\ acc.ask[2] = k /\ acc.mAccumulatedData = begin
            /\ Len(begin) = BufferSize - 1 /\ Len(begin) + 1 = BufferSize
        BY <1>3, <1>5, <1>6, <1>7, <2>1, Constants
      <4> QED
        BY <2>1, <3>2, <3>3, <4>1 DEF Begun
  <2>2. CASE d # c
    <3>1. d \in Opened /\ socket[d] # socket[c] /\ stream'[d] = stream[d] /\ ~Exempt(d)
      BY <1>1, <1>2, <1>3, <2>2 DEF Opened, SocketInv, Exempt
    <3>2. Accumulating(d) /\ mAccumulationMap'[socket[d]] = mAccumulationMap[socket[d]]
      BY <1>3, <1>7, <3>1 DEF Accumulating
    <3> QED
      BY <1>1, <1>3, <3>1, <3>2 DEF WholeInv, Begun
  <2> QED
    BY <2>1, <2>2
<1> QED
  BY <1>9, <1>10, <1>11, <1>12, <1>13 DEF IInv

\* What has come of the data of a connection's request is read, and more of it arrives.
Grows(c, n, acc, more, grown) ==
    /\ Types /\ StreamInv /\ c \in Conns /\ n \in 1..BufferSize /\ Receive(c, n)
    /\ acc \in Accumulation /\ acc.ask[1] = c /\ acc.ask[2] \in 1..Len(asked[c])
    /\ acc.mDataToRead = asked[c][acc.ask[2]].len /\ Begun(c, acc)
    /\ more \in 1..n /\ Len(acc.mAccumulatedData) + more <= acc.mDataToRead
    /\ grown \in Seq(Cells) /\ grown = acc.mAccumulatedData \o SubSeq(data(c), 1, more)

\* What a read adds to an accumulation of the connection's own data is that data again, and the
\* stream goes on with what follows.
LEMMA Grown ==
  ASSUME NEW c, NEW n, NEW acc, NEW more, NEW grown, Grows(c, n, acc, more, grown)
  PROVE  /\ Len(grown) = Len(acc.mAccumulatedData) + more
         /\ \A i \in 1..Len(grown) : grown[i] = <<c, acc.ask[2], i>>
         /\ more = n /\ Len(grown) < acc.mDataToRead =>
               stream'[c] # <<>> /\ stream'[c][1] = <<c, acc.ask[2], Len(grown) + 1>>
<1>0. /\ Types /\ StreamInv /\ c \in Conns /\ n \in 1..BufferSize /\ Receive(c, n)
      /\ acc \in Accumulation /\ acc.ask[1] = c /\ acc.ask[2] \in 1..Len(asked[c])
      /\ acc.mDataToRead = asked[c][acc.ask[2]].len /\ Begun(c, acc)
      /\ more \in 1..n /\ Len(acc.mAccumulatedData) + more <= acc.mDataToRead
      /\ grown \in Seq(Cells) /\ grown = acc.mAccumulatedData \o SubSeq(data(c), 1, more)
  BY DEF Grows
<1> USE <1>0
<1> DEFINE old == acc.mAccumulatedData
           k == acc.ask[2]
           len == acc.mDataToRead
<1>1. old \in Seq(Cells) /\ Len(old) \in Nat /\ len \in Nat
  BY DEF Accumulation
<1>2. /\ data(c) \in Seq(Cells) /\ Len(data(c)) = BufferSize
      /\ Len(stream[c]) \in Nat /\ n \in 1..Len(stream[c]) /\ Len(stream'[c]) = Len(stream[c]) - n
      /\ \A j \in 1..(Len(stream[c]) - n) : stream'[c][j] = stream[c][n + j]
      /\ \A i \in 1..n : data(c)[i] = stream[c][i]
  BY Received
<1>3. /\ \A i \in 1..Len(old) : old[i] = <<c, k, i>>
      /\ stream[c][1] = <<c, k, Len(old) + 1>>
  BY DEF Begun
<1>4. more \in Nat /\ more <= Len(data(c)) /\ more <= n /\ n \in Nat /\ Len(old) + more <= len
        /\ more >= 1
  BY <1>2, Constants
<1> DEFINE new == SubSeq(data(c), 1, more)
<1>5. new \in Seq(Cells) /\ Len(new) = more /\ \A i \in 1..more : new[i] = data(c)[i]
  BY SMTT(30), <1>2, <1>4, Beginning
<1> HIDE DEF new
<1>6. /\ grown = old \o new
      /\ Len(grown) = Len(old) + more
      /\ \A i \in 1..Len(old) : grown[i] = old[i]
      /\ \A i \in 1..more : grown[Len(old) + i] = new[i]
  <2>1. grown = old \o new
    BY DEF new
  <2> HIDE DEF old
  <2>2. /\ Len(old \o new) = Len(old) + Len(new)
        /\ \A i \in 1..Len(old) : (old \o new)[i] = old[i]
        /\ \A i \in 1..Len(new) : (old \o new)[Len(old) + i] = new[i]
    <3>1. old \in Seq(Cells) /\ new \in Seq(Cells)
      BY <1>1, <1>5
    <3> QED
      BY ONLY <3>1, Joined
  <2> QED
    BY <1>5, <2>1, <2>2
<1>7. \A m \in 0..(len - (Len(old) + 1)) :
        1 + m <= Len(stream[c]) /\ stream[c][1 + m] = <<c, k, Len(old) + 1 + m>>
  <2>1. GoesOn(c, 1)
    BY <1>2 DEF StreamInv
  <2>2. KindOf(stream[c][1]) = asked[c][k]
    BY <1>3 DEF KindOf
  <2>3. \A m \in 0..(asked[c][k].len - stream[c][1][3]) :
          1 + m <= Len(stream[c]) /\ stream[c][1 + m] = <<c, stream[c][1][2], stream[c][1][3] + m>>
    BY <2>1, <2>2 DEF GoesOn
  <2>4. stream[c][1][2] = k /\ stream[c][1][3] = Len(old) + 1 /\ asked[c][k].len = len
    BY <1>3
  <2> QED
    BY <2>3, <2>4
<1> HIDE DEF old, k, len
<1>8. ASSUME NEW i \in 1..Len(grown)
      PROVE  grown[i] = <<c, k, i>>
  <2>0. Len(grown) \in Nat /\ i \in Nat /\ i >= 1 /\ i <= Len(old) + more
    BY <1>1, <1>4, <1>6
  <2>1. CASE i <= Len(old)
    <3>1. i \in 1..Len(old)
      BY <1>1, <2>0, <2>1
    <3> QED
      BY <1>3, <1>6, <3>1
  <2>2. CASE i > Len(old)
    <3> DEFINE m == i - Len(old)
    <3>1. m \in 1..more /\ i = Len(old) + m /\ m \in 1..n
      BY <1>1, <1>4, <1>6, <2>2
    <3> HIDE DEF m
    <3>2. grown[i] = stream[c][m]
      BY <1>2, <1>5, <1>6, <3>1
    <3>3. m - 1 \in 0..(len - (Len(old) + 1)) /\ 1 + (m - 1) = m /\ Len(old) + 1 + (m - 1) = i
      <4>1. m \in Nat /\ m >= 1 /\ m <= more /\ more \in Nat /\ Len(old) \in Nat /\ len \in Nat
              /\ Len(old) + more <= len /\ i = Len(old) + m
        BY <1>1, <1>4, <3>1
      <4> QED
        BY ONLY <4>1
    <3> QED
      BY <1>7, <3>2, <3>3
  <2> QED
    BY <1>1, <2>0, <2>1, <2>2
<1>9. ASSUME more = n, Len(grown) < len
      PROVE  stream'[c] # <<>> /\ stream'[c][1] = <<c, k, Len(grown) + 1>>
  <2>1. n \in 0..(len - (Len(old) + 1)) /\ Len(old) + 1 + n = Len(grown) + 1
    BY <1>1, <1>4, <1>6, <1>9
  <2>2. 1 + n <= Len(stream[c]) /\ stream[c][1 + n] = <<c, k, Len(grown) + 1>>
    BY <1>7, <2>1
  <2>3. 1 \in 1..(Len(stream[c]) - n) /\ Len(stream'[c]) >= 1 /\ n + 1 = 1 + n
    <3>1. Len(stream'[c]) = Len(stream[c]) - n /\ Len(stream[c]) \in Nat /\ n \in Nat
            /\ 1 + n <= Len(stream[c])
      BY <1>2, <1>4, <2>2
    <3> QED
      BY ONLY <3>1
  <2>4. stream'[c][1] = stream[c][n + 1]
    BY <1>2, <2>3
  <2>5. stream'[c] # <<>>
    BY <2>3
  <2> QED
    BY ONLY <2>2, <2>3, <2>4, <2>5
<1> QED
  BY <1>6, <1>8, <1>9 DEF old, k, len

LEMMA AccumulatedStep ==
  ASSUME IInv, NEW c \in Conns, NEW n \in 1..BufferSize, accumulated_processing(c, n)
  PROVE  IInv'
<1>1. Types /\ SocketInv /\ StreamInv /\ AccInv /\ WholeInv /\ RunInv
  BY DEF IInv
<1> DEFINE fd == socket[c]
           acc == mAccumulationMap[fd]
           old == acc.mAccumulatedData
           more == Min({BufferSize, acc.mDataToRead - Len(old)})
           grown == old \o SubSeq(data(c), 1, more)
<1>2. /\ Accumulating(c) /\ Receive(c, n) /\ UNCHANGED running
      /\ odd' = odd \cup (IF acc.ask[1] = c THEN {} ELSE {<<c, "inherited">>})
                   \cup (IF n < more THEN {<<c, "short">>} ELSE {})
      /\ \/ /\ Len(grown) = acc.mDataToRead
            /\ run' = [conn |-> c, ask |-> acc.ask, data |-> grown]
            /\ on_request(c, acc.ask)
            /\ mAccumulationMap' = Restrict(mAccumulationMap, DOMAIN mAccumulationMap \ {fd})
         \/ /\ Len(grown) # acc.mDataToRead
            /\ mAccumulationMap' = [mAccumulationMap EXCEPT ![fd].mAccumulatedData = grown]
            /\ SendReadSignal(c)
            /\ UNCHANGED <<held, run>>
  BY DEF accumulated_processing
<1>3. /\ data(c) \in Seq(Cells) /\ Len(data(c)) = BufferSize
      /\ \A d \in Conns \ {c} : stream'[d] = stream[d]
      /\ UNCHANGED <<socket, state, asked, waiting>> /\ state[c] = "open"
  BY <1>1, <1>2, Received
<1>4. /\ fd \in DOMAIN mAccumulationMap /\ acc \in Accumulation
      /\ acc.ask[1] \in Conns /\ acc.ask[2] \in Nat
      /\ acc.ask[2] \in 1..Len(asked[acc.ask[1]]) /\
           acc.mDataToRead = asked[acc.ask[1]][acc.ask[2]].len
      /\ old \in Seq(Cells) /\ Len(old) \in Nat /\ acc.mDataToRead \in Nat
      /\ Len(old) < acc.mDataToRead
  <2>1. fd \in DOMAIN mAccumulationMap /\ acc \in Accumulation
    BY <1>1, <1>2 DEF Accumulating, Types
  <2>2. /\ acc.ask[2] \in 1..Len(asked[acc.ask[1]]) /\
             acc.mDataToRead = asked[acc.ask[1]][acc.ask[2]].len
        /\ Len(old) < acc.mDataToRead
    BY <1>1, <2>1 DEF AccInv, KindOf
  <2> HIDE DEF acc
  <2> QED
    BY <2>1, <2>2 DEF Accumulation
<1>5. more \in 1..BufferSize /\ Len(old) + more <= acc.mDataToRead
        /\ (Len(old) + more < acc.mDataToRead => more = BufferSize)
  <2>1. acc.mDataToRead - Len(old) \in Nat \ {0}
    BY SMTT(30), <1>4
  <2> HIDE DEF acc
  <2>2. more = IF BufferSize <= acc.mDataToRead - Len(old) THEN BufferSize ELSE acc.mDataToRead - Len(old)
    BY <2>1, MinOfTwo, Constants
  <2> HIDE DEF more, old
  <2>3. Len(old) \in Nat /\ acc.mDataToRead \in Nat /\ Len(old) < acc.mDataToRead
    BY <1>4
  <2> QED
    BY <2>2, <2>3, Constants
<1> HIDE DEF more
<1>6. grown \in Seq(Cells) /\ Len(grown) = Len(old) + more
  <2>1. more \in Nat /\ more <= Len(data(c))
    BY <1>3, <1>5, Constants
  <2>2. SubSeq(data(c), 1, more) \in Seq(Cells) /\ Len(SubSeq(data(c), 1, more)) = more
    BY <1>3, <2>1, Beginning
  <2> HIDE DEF old
  <2> QED
    BY <1>4, <2>2, Joined
<1>7. ASSUME ~Exempt(c)'
      PROVE  /\ acc.ask[1] = c
             /\ \A i \in 1..Len(grown) : grown[i] = <<c, acc.ask[2], i>>
             /\ Len(grown) < acc.mDataToRead =>
                   stream'[c] # <<>> /\ stream'[c][1] = <<c, acc.ask[2], Len(grown) + 1>>
  <2>1. acc.ask[1] = c /\ ~(n < more) /\ ~Exempt(c)
    BY <1>2, <1>7 DEF Exempt
  <2>2. more \in 1..n /\ (Len(grown) < acc.mDataToRead => more = n)
    BY <1>5, <1>6, <2>1, Constants
  <2>3. Begun(c, acc)
    BY <1>1, <1>2, <1>3, <2>1 DEF WholeInv, Opened, Begun
  <2>4. acc.ask[2] \in 1..Len(asked[c]) /\ acc.mDataToRead = asked[c][acc.ask[2]].len
    BY <1>4, <2>1
  <2> HIDE DEF acc
  <2>6. /\ acc \in Accumulation /\ grown \in Seq(Cells) /\ Receive(c, n)
        /\ Len(acc.mAccumulatedData) + more <= acc.mDataToRead
        /\ grown = acc.mAccumulatedData \o SubSeq(data(c), 1, more)
    BY <1>2, <1>4, <1>5, <1>6
  <2> HIDE DEF grown
  <2>7. PICK a, g, p : a = acc /\ g = grown /\ p = more
    OBVIOUS
  <2>8. /\ \A i \in 1..Len(g) : g[i] = <<c, a.ask[2], i>>
        /\ p = n /\ Len(g) < a.mDataToRead =>
               stream'[c] # <<>> /\ stream'[c][1] = <<c, a.ask[2], Len(g) + 1>>
    <3>1. /\ a \in Accumulation /\ a.ask[1] = c /\ a.ask[2] \in 1..Len(asked[c])
          /\ a.mDataToRead = asked[c][a.ask[2]].len
          /\ p \in 1..n /\ Len(a.mAccumulatedData) + p <= a.mDataToRead
          /\ g \in Seq(Cells) /\ g = a.mAccumulatedData \o SubSeq(data(c), 1, p)
      BY <2>1, <2>2, <2>3, <2>4, <2>6, <2>7
    <3>2. Begun(c, a)
      BY <2>3, <2>7 DEF Begun
    <3>3. Grows(c, n, a, p, g)
      BY <1>1, <2>6, <3>1, <3>2 DEF Grows
    <3> QED
      BY ONLY <3>3, Grown
  <2>5. /\ \A i \in 1..Len(grown) : grown[i] = <<c, acc.ask[2], i>>
        /\ more = n /\ Len(grown) < acc.mDataToRead =>
               stream'[c] # <<>> /\ stream'[c][1] = <<c, acc.ask[2], Len(grown) + 1>>
    BY <2>7, <2>8
  <2> QED
    BY <2>1, <2>2, <2>5
<1> HIDE DEF grown
<1>8. StreamInv'
  BY <1>1, <1>2, ReceivedStream
<1>9. SocketInv'
  BY <1>1, <1>3 DEF SocketInv, Opened
<1>10. odd \subseteq odd' /\ odd' \subseteq Conns \X {"short", "inherited", "strayed"}
  BY <1>1, <1>2 DEF Types, TypeOK
<1>11. CASE Len(grown) = acc.mDataToRead
  <2>1. /\ run' = [conn |-> c, ask |-> acc.ask, data |-> grown]
        /\ on_request(c, acc.ask)
        /\ DOMAIN mAccumulationMap' = DOMAIN mAccumulationMap \ {fd}
        /\ \A e \in DOMAIN mAccumulationMap' : mAccumulationMap'[e] = mAccumulationMap[e]
    BY <1>2, <1>11 DEF Restrict
  <2>2. Types'
    <3>1. {reading', writing'} \subseteq [Conns -> BOOLEAN]
      BY <1>1, <2>1, Signals DEF on_request
    <3>2. run' \in [conn : Conns \cup {0}, ask : (Conns \cup {0}) \X Nat, data : Seq(Cells)]
      BY <1>4, <1>6, <2>1 DEF Accumulation
    <3>3. \A e \in DOMAIN mAccumulationMap' :
            /\ mAccumulationMap'[e] \in Accumulation
            /\ Len(mAccumulationMap'[e].mAccumulatedData) < mAccumulationMap'[e].mDataToRead
      BY <1>1, <2>1 DEF Types, AccInv
    <3>4. DOMAIN mAccumulationMap' \subseteq 1..Cardinality(Conns) /\ running' \in BOOLEAN
      BY <1>1, <1>2, <2>1 DEF Types, TypeOK
    <3>5. held' \subseteq Conns
      BY <1>1, <2>1 DEF on_request, Types, TypeOK
    <3> QED
      BY <1>1, <1>2, <1>10, <3>1, <3>2, <3>3, <3>4, <3>5, ReceivedTypes
  <2>3. AccInv'
    BY <1>1, <1>3, <2>1 DEF AccInv, KindOf
  <2>4. WholeInv'
    <3> SUFFICES ASSUME NEW d \in Opened', (Accumulating(d))', ~(Exempt(d))',
                        (mAccumulationMap[socket[d]].ask[1] = d)'
                 PROVE  (Begun(d, mAccumulationMap[socket[d]]))'
      BY DEF WholeInv
    <3>1. d \in Opened /\ socket[d] # fd /\ d # c /\ Accumulating(d) /\ ~Exempt(d)
            /\ mAccumulationMap'[socket[d]] = mAccumulationMap[socket[d]]
      BY <1>3, <1>10, <2>1 DEF Opened, Accumulating, Exempt
    <3>2. stream'[d] = stream[d]
      BY <1>3, <3>1 DEF Opened
    <3> QED
      BY <1>1, <1>3, <3>1, <3>2 DEF WholeInv, Begun
  <2>5. RunInv'
    <3>1. run'.conn = c /\ run'.ask = acc.ask /\ run'.data = grown
      BY <2>1
    <3>0. PICK ask : ask = acc.ask
      OBVIOUS
    <3>2. ASSUME ~Exempt(c)'
          PROVE  grown = Data(ask)'
      <4>1. ask = <<c, acc.ask[2]>> /\ acc.ask[2] \in 1..Len(asked[c])
              /\ acc.mDataToRead = asked[c][acc.ask[2]].len
        <5>1. acc.ask \in Conns \X Nat /\ acc.ask[1] = c
          BY <1>4, <1>7, <3>2 DEF Accumulation
        <5> HIDE DEF acc
        <5> QED
          BY <1>4, <3>0, <5>1
      <4>2. Data(ask)' = [i \in 1..acc.mDataToRead |-> <<c, acc.ask[2], i>>]
        <5>1. Data(ask) = [i \in 1..acc.mDataToRead |-> <<c, acc.ask[2], i>>]
          BY <1>1, <4>1, DataCells
        <5>2. Data(ask)' = Data(ask)
          BY <1>3 DEF Data, Request
        <5> QED
          BY <5>1, <5>2
      <4>3. grown \in [1..acc.mDataToRead -> Cells]
        BY <1>6, <1>11, SequenceTyped
      <4>4. \A i \in 1..acc.mDataToRead : grown[i] = <<c, acc.ask[2], i>>
        BY <1>7, <1>11, <3>2
      <4> HIDE DEF acc
      <4> QED
        BY <4>2, <4>3, <4>4
    <3> QED
      BY <1>3, <1>4, <3>0, <3>1, <3>2 DEF RunInv
  <2> QED
    BY <1>8, <1>9, <2>2, <2>3, <2>4, <2>5 DEF IInv
<1>12. CASE Len(grown) # acc.mDataToRead
  <2> DEFINE new == [acc EXCEPT !.mAccumulatedData = grown]
  <2>1. /\ DOMAIN mAccumulationMap' = DOMAIN mAccumulationMap
        /\ mAccumulationMap'[fd] = new
        /\ \A e \in DOMAIN mAccumulationMap \ {fd} : mAccumulationMap'[e] = mAccumulationMap[e]
        /\ SendReadSignal(c) /\ UNCHANGED <<held, run>>
    BY <1>2, <1>4, <1>12
  <2>2. new \in Accumulation /\ new.ask = acc.ask /\ new.mDataToRead = acc.mDataToRead
          /\ new.mAccumulatedData = grown
    BY <1>4, <1>6 DEF Accumulation
  <2> HIDE DEF new
  <2>3. Len(grown) < acc.mDataToRead
    <3>1. Len(old) \in Nat /\ acc.mDataToRead \in Nat /\ more \in Nat /\
            Len(grown) = Len(old) + more
            /\ Len(old) + more <= acc.mDataToRead
      BY SMTT(30), <1>4, <1>5, <1>6, Constants
    <3> HIDE DEF acc, old
    <3> QED
      BY <1>12, <3>1
  <2>4. Types'
    <3>1. {reading', writing'} \subseteq [Conns -> BOOLEAN]
      BY <1>1, <2>1, Signals
    <3>2. \A e \in DOMAIN mAccumulationMap' :
            /\ mAccumulationMap'[e] \in Accumulation
            /\ Len(mAccumulationMap'[e].mAccumulatedData) < mAccumulationMap'[e].mDataToRead
      BY <1>1, <2>1, <2>2, <2>3 DEF Types, AccInv
    <3>3. /\ DOMAIN mAccumulationMap' \subseteq 1..Cardinality(Conns) /\ running' \in BOOLEAN
          /\ run' \in [conn : Conns \cup {0}, ask : (Conns \cup {0}) \X Nat, data : Seq(Cells)]
          /\ held' \subseteq Conns
      BY <1>1, <1>2, <2>1 DEF Types, TypeOK
    <3> QED
      BY <1>1, <1>2, <1>10, <3>1, <3>2, <3>3, ReceivedTypes
  <2>5. AccInv'
    <3> SUFFICES ASSUME NEW e \in DOMAIN mAccumulationMap'
                 PROVE  LET a == mAccumulationMap'[e] IN
                        /\ a.ask[2] \in 1..Len(asked[a.ask[1]])
                        /\ a.mDataToRead = asked[a.ask[1]][a.ask[2]].len
                        /\ Len(a.mAccumulatedData) < a.mDataToRead
      BY <1>3 DEF AccInv, KindOf
    <3>1. CASE e = fd
      BY <1>4, <2>1, <2>2, <2>3, <3>1
    <3>2. CASE e # fd
      BY <1>1, <2>1, <3>2 DEF AccInv, KindOf
    <3> QED
      BY <3>1, <3>2
  <2>6. WholeInv'
    <3> SUFFICES ASSUME NEW d \in Opened', (Accumulating(d))', ~(Exempt(d))',
                        (mAccumulationMap[socket[d]].ask[1] = d)'
                 PROVE  (Begun(d, mAccumulationMap[socket[d]]))'
      BY DEF WholeInv
    <3>1. CASE d = c
      BY <1>3, <1>7, <2>1, <2>2, <2>3, <3>1 DEF Begun
    <3>2. CASE d # c
      <4>1. d \in Opened /\ socket[d] # fd /\ ~Exempt(d)
        BY <1>1, <1>3, <1>10, <3>2 DEF Opened, SocketInv, Exempt
      <4>2. Accumulating(d) /\ mAccumulationMap'[socket[d]] = mAccumulationMap[socket[d]]
        BY <1>3, <2>1, <4>1 DEF Accumulating
      <4>3. stream'[d] = stream[d]
        BY <1>3, <3>2, <4>1 DEF Opened
      <4> QED
        BY <1>1, <1>3, <4>1, <4>2, <4>3 DEF WholeInv, Begun
    <3> QED
      BY <3>1, <3>2
  <2>7. RunInv'
    BY <1>1, <1>3, <1>10, <2>1 DEF RunInv, Exempt, Data, Request
  <2> QED
    BY <1>8, <1>9, <2>4, <2>5, <2>6, <2>7 DEF IInv
<1> QED
  BY <1>11, <1>12

LEMMA NextHolds ==
  ASSUME IInv, [Next]_vars
  PROVE  IInv'
<1>1. CASE Next
  BY <1>1, AcceptStep, AskStep, ConnectionStep, AccumulatedStep, SimpleStep, AccumulateStep,
     ProgramAnswersStep
  DEF Next, OnData
<1>2. CASE UNCHANGED vars
  <2>1. Types' /\ SocketInv'
    BY <1>2 DEF vars, netVars, clientVars, IInv, Types, TypeOK, SocketInv, Opened
  <2>3. StreamInv'
    <3>1. asked' = asked /\ stream' = stream
      BY <1>2 DEF vars, netVars, clientVars
    <3>2. ASSUME NEW c \in Conns, NEW j \in 1..Len(stream[c])
          PROVE  GoesOn(c, j) => GoesOn(c, j)'
      BY <3>1 DEF GoesOn, KindOf
    <3> QED
      BY <3>1, <3>2 DEF IInv, StreamInv
  <2>2. AccInv' /\ WholeInv' /\ RunInv'
    BY <1>2
    DEF vars, netVars, clientVars, IInv, AccInv, WholeInv, Begun, RunInv, Exempt, Opened,
        Accumulating, KindOf, Data, Request
  <2> QED
    BY <2>1, <2>2, <2>3 DEF IInv
<1> QED
  BY <1>1, <1>2

LEMMA Invariance == Spec => []IInv
<1>1. Init => IInv
  BY InitHolds
<1>2. IInv /\ [Next]_vars => IInv'
  BY NextHolds
<1> QED
  BY <1>1, <1>2, PTL DEF Spec

(***************************************************************************)
(* One connection.                                                         *)
(***************************************************************************)

PeerLost == mishaps \cap {"cut", "wiped"} # {}
PeerOpen == mPeerSocket = "open"

PeerTypes ==
    /\ N!TypeOK
    /\ mWriteBuffer \in Seq(N!Bytes) /\ arrived \in Seq(N!Bytes) /\ written \in Seq(N!Bytes)
    /\ handed \in Seq(0..Stream)

\* The thread is in the middle of a pass only over a connection that it has.
PeerPlace ==
    /\ inLoop <=> PeerOpen
    /\ thread # "top" => inLoop
    /\ mPeerSocket = "none" => listed = "no" /\ ~nWriting
    /\ mReadState => PeerOpen
    /\ nWriting => ~mWriteSignal

\* What was received is handed over or lies in front of the buffer.
PeerRead == "overrun" \notin mishaps =>
    /\ \A i \in 1..Len(handed) : handed[i] = i
    /\ PeerOpen =>
          /\ remote.read = Len(handed) + fresh
          /\ ~mReadState => fresh = 0
          /\ \A i \in 1..fresh : nPacketContent[i] = Len(handed) + i
    /\ mPeerSocket = "none" => remote.read = 0 /\ Len(handed) = 0 /\ fresh = 0

\* What was accepted has arrived or is in the buffer.  A message that comes between the two resets
\* of a write is wiped, or was given up with its connection.
PeerWrite == ~PeerLost =>
    /\ N!IsPrefix(arrived, written)
    /\ mPeerSocket # "closed" =>
          /\ nWriting \/ mWriteSignal => mWriteBuffer # <<>>
          /\ thread \notin {"sent", "clear"} /\ (thread # "top" \/ ~mDisconnectSignal) =>
                written = arrived \o mWriteBuffer
          /\ thread = "sent" => mWriteSignal /\ written = arrived
          /\ thread = "clear" =>
                \/ nWriting \/ mWriteSignal
                \/ mDisconnectSignal \/ written = arrived
          /\ thread \notin {"sent", "clear"} /\ ~mDisconnectSignal /\ ~nWriting /\ ~mWriteSignal =>
                mWriteBuffer = <<>>

PeerInv == PeerTypes /\ PeerPlace /\ PeerRead /\ PeerWrite

-----------------------------------------------------------------------------
(* Sequences.                                                              *)

\* What a sequence holds is of its element set.
LEMMA PeerRangeTyped ==
  ASSUME NEW S, NEW s \in Seq(S)
  PROVE  N!Range(s) \subseteq S
BY DEF N!Range, N!Range

\* A sequence is a prefix of itself and of what it is the beginning of.
LEMMA PrefixOfConcat ==
  ASSUME NEW S, NEW s \in Seq(S), NEW t \in Seq(S)
  PROVE  s \o t \in Seq(S) /\ N!IsPrefix(s, s \o t) /\ N!IsPrefix(s, s)
<1>1. s \o t \in Seq(S) /\ Len(s \o t) = Len(s) + Len(t) /\ Len(s) \in Nat /\ Len(t) \in Nat
  OBVIOUS
<1>2. SubSeq(s, 1, Len(s)) = SubSeq(s \o t, 1, Len(s))
  OBVIOUS
<1> QED
  BY <1>1, <1>2 DEF N!IsPrefix, N!IsPrefix

LEMMA PrefixTransitive ==
  ASSUME NEW S, NEW s \in Seq(S), NEW t \in Seq(S), NEW u \in Seq(S), N!IsPrefix(s, t)
  PROVE  N!IsPrefix(s, t \o u)
<1>1. Len(s) <= Len(t) /\ SubSeq(s, 1, Len(s)) = SubSeq(t, 1, Len(s)) /\ Len(s) \in Nat
        /\ Len(t) \in Nat /\ Len(u) \in Nat
  BY DEF N!IsPrefix, N!IsPrefix
<1>2. Len(t \o u) = Len(t) + Len(u)
  OBVIOUS
<1>3. SubSeq(t \o u, 1, Len(s)) = SubSeq(t, 1, Len(s))
  BY <1>1
<1> QED
  BY <1>1, <1>2, <1>3 DEF N!IsPrefix, N!IsPrefix

-----------------------------------------------------------------------------
(* The sizes.                                                              *)

LEMMA Sizes == BufferSize \in Nat /\ Stream \in Nat /\ Messages \in Nat
BY SizesAssumption DEF N!SizesFit

\* A message has two bytes, and one is built after the other.
LEMMA MessageTyped ==
  ASSUME PeerTypes, N!NextMessage <= Messages
  PROVE  N!Message(N!NextMessage) \in Seq(N!Bytes) /\ Len(N!Message(N!NextMessage)) = 2
<1>1. N!NextMessage \in 1..Messages
  BY Sizes DEF N!NextMessage, PeerTypes
<1> QED
  BY <1>1 DEF N!Message, N!Bytes

\* How the remote's counters move.
RemoteRecord == [sent : 0..Stream, read : 0..Stream, closed : BOOLEAN]
LEMMA ReadMore ==
  ASSUME NEW r \in RemoteRecord, NEW n \in Nat, n <= r.sent - r.read
  PROVE  /\ [r EXCEPT !.read = @ + n] \in RemoteRecord
         /\ [r EXCEPT !.read = @ + n].read = r.read + n
         /\ [r EXCEPT !.read = @ + n].sent = r.sent
<1>1. r.sent \in 0..Stream /\ r.read \in 0..Stream /\ r.read + n \in 0..Stream
  BY Sizes DEF RemoteRecord
<1> QED
  BY <1>1 DEF RemoteRecord

LEMMA SendMore ==
  ASSUME NEW r \in RemoteRecord, r.read <= r.sent, r.sent < Stream
  PROVE  /\ [r EXCEPT !.sent = @ + 1] \in RemoteRecord
         /\ [r EXCEPT !.sent = @ + 1].read <= [r EXCEPT !.sent = @ + 1].sent
<1>1. r.sent \in 0..Stream /\ r.read \in 0..Stream /\ r.sent + 1 \in 0..Stream
  BY Sizes DEF RemoteRecord
<1> QED
  BY <1>1 DEF RemoteRecord

LEMMA SendNoMore ==
  ASSUME NEW r \in RemoteRecord, r.read <= r.sent
  PROVE  /\ [r EXCEPT !.closed = TRUE] \in RemoteRecord
         /\ [r EXCEPT !.closed = TRUE].read <= [r EXCEPT !.closed = TRUE].sent
BY DEF RemoteRecord

-----------------------------------------------------------------------------
(* The connection.                                                         *)

LEMMA PeerInit ==
  ASSUME N!Init
  PROVE  PeerInv
<1>1. N!TypeOK
  <2>1. Len(<<>>) = 0 /\ N!Range(<<>>) = {}
    BY DEF N!Range, N!Range
  <2>5. N!Range(mWriteBuffer) = {} /\ Len(mWriteBuffer) <= 2 /\ N!Range(arrived) = {}
          /\ N!Range(written) = {} /\ N!Range(handed) = {}
    BY <2>1 DEF N!Init
  <2>6. {mReadSignal, mReadState, mWriteSignal, mDisconnectSignal} \subseteq BOOLEAN
    BY DEF N!Init
  <2>2. nPacketContent \in [1..BufferSize -> 0..Stream]
    BY Sizes DEF N!Init
  <2>3. remote \in [sent : 0..Stream, read : 0..Stream, closed : BOOLEAN] /\
          remote.read <= remote.sent
    BY Sizes DEF N!Init
  <2>4. fresh \in 0..BufferSize
    BY Sizes DEF N!Init
  <2> QED
    BY <2>2, <2>3, <2>4, <2>5, <2>6 DEF N!Init, N!TypeOK
<1>2. PeerTypes
  BY <1>1 DEF N!Init, PeerTypes
<1>3. PeerPlace
  BY DEF N!Init, PeerPlace, PeerOpen
<1>4. PeerRead
  BY DEF N!Init, PeerRead, PeerOpen
<1>5. PeerWrite
  <2>1. arrived = <<>> /\ written = <<>> /\ mWriteBuffer = <<>> /\ thread = "top" /\ ~nWriting
            /\ ~mWriteSignal /\ <<>> \in Seq({})
    BY DEF N!Init
  <2>2. N!IsPrefix(arrived, written) /\ arrived \o mWriteBuffer = written
    BY <2>1 DEF N!IsPrefix, N!IsPrefix
  <2> QED
    BY <2>1, <2>2 DEF PeerWrite
<1> QED
  BY <1>2, <1>3, <1>4, <1>5 DEF PeerInv

LEMMA PeerTypesKept ==
  ASSUME PeerInv, [N!Next]_(N!vars)
  PROVE  PeerTypes'
<1> USE Sizes DEF PeerInv
<1>1. N!TypeOK /\ mWriteBuffer \in Seq(N!Bytes) /\ arrived \in Seq(N!Bytes) /\
        written \in Seq(N!Bytes)
        /\ handed \in Seq(0..Stream)
  BY DEF PeerTypes
<1>2. /\ mWriteBuffer' \in Seq(N!Bytes) /\ Len(mWriteBuffer') <= 2
      /\ arrived' \in Seq(N!Bytes) /\ written' \in Seq(N!Bytes)
  <2>1. CASE \E n \in 1..2 : N!Send(n)
    <3>1. PICK n \in 1..2 : N!Send(n)
      BY <2>1
    <3>2. n \in Nat /\ n <= Len(mWriteBuffer)
      BY <3>1 DEF N!Send
    <3>3. SubSeq(mWriteBuffer, 1, n) \in Seq(N!Bytes)
      BY <1>1, <3>2, Beginning
    <3>4. arrived \o SubSeq(mWriteBuffer, 1, n) \in Seq(N!Bytes)
      BY <1>1, <3>3
    <3> QED
      BY <1>1, <3>1, <3>4 DEF N!Send, N!TypeOK
  <2>2. CASE N!WriteData
    <3>1. N!Message(N!NextMessage) \in Seq(N!Bytes) /\ Len(N!Message(N!NextMessage)) = 2
      BY <2>2, MessageTyped DEF N!WriteData
    <3> QED
      BY <1>1, <2>2, <3>1 DEF N!WriteData, N!writeVars
  <2>3. CASE N!LoopDisconnected \/ N!ReadFails \/ N!WriteFails \/ N!ClearWrite
    <3>1. mWriteBuffer' = <<>> /\ UNCHANGED <<arrived, written>>
      BY <2>3 DEF N!LoopDisconnected, N!ReadFails, N!WriteFails, N!ClearWrite, N!DestroyPeer
    <3>2. <<>> \in Seq(N!Bytes) /\ Len(<<>>) = 0
      OBVIOUS
    <3> QED
      BY <1>1, <3>1, <3>2
  <2>4. CASE UNCHANGED <<mWriteBuffer, arrived, written>>
    BY <1>1, <2>4 DEF N!TypeOK
  <2> QED
    BY <2>1, <2>2, <2>3, <2>4
    DEF N!Next, N!vars, N!writeVars, N!Thread, N!Update, N!Application, N!Remote, N!Accept,
      N!LoopConnected, N!Goto,
        N!NothingToRead, N!Recv, N!ResetRead, N!NothingToWrite, N!ResetWrite, N!Listen, N!Stop,
          N!SendReadSignal,
        N!SendWriteSignal, N!Disconnect, N!UpdateAccept, N!UpdateDisconnected, N!UpdateData,
          N!RemoteSends,
        N!RemoteCloses
<1>3. handed' \in Seq(0..Stream)
  <2>1. CASE N!UpdateData
    <3>1. nPacketContent \in Seq(0..Stream) /\ fresh \in Nat /\ fresh <= Len(nPacketContent)
      BY <1>1 DEF N!TypeOK
    <3>2. SubSeq(nPacketContent, 1, fresh) \in Seq(0..Stream)
      BY <3>1, Beginning
    <3> QED
      BY <1>1, <2>1, <3>2 DEF N!UpdateData
  <2>2. CASE UNCHANGED handed
    BY <1>1, <2>2
  <2> QED
    BY <2>1, <2>2
    DEF N!Next, N!vars, N!readVars, N!Thread, N!Update, N!Application, N!Remote, N!Accept,
      N!LoopConnected, N!Goto,
        N!LoopDisconnected, N!ReadFails, N!WriteFails, N!DestroyPeer, N!Send, N!ClearWrite,
          N!WriteData,
        N!NothingToRead, N!Recv, N!ResetRead, N!NothingToWrite, N!ResetWrite, N!Listen, N!Stop,
          N!SendReadSignal,
        N!SendWriteSignal, N!Disconnect, N!UpdateAccept, N!UpdateDisconnected, N!RemoteSends,
          N!RemoteCloses
<1>4. N!Range(mWriteBuffer') \subseteq N!Bytes /\ N!Range(arrived') \subseteq N!Bytes
        /\ N!Range(written') \subseteq N!Bytes /\ N!Range(handed') \subseteq 0..Stream
  BY <1>2, <1>3, PeerRangeTyped
<1>5. /\ mIsListening' \in BOOLEAN /\ mPeerSocket' \in {"none", "open", "closed"}
      /\ inLoop' \in BOOLEAN /\ listed' \in {"no", "accepted", "connected", "disconnected"}
      /\ thread' \in {"top", "read", "received", "write", "sent", "clear"}
  <2>1. mIsListening' \in BOOLEAN /\ mPeerSocket' \in {"none", "open", "closed"}
    BY <1>1
    DEF N!TypeOK, N!Next, N!vars, N!socketVars, N!Thread, N!Update, N!Application, N!Remote,
        N!Accept, N!LoopConnected, N!Goto, N!LoopDisconnected, N!ReadFails, N!WriteFails,
        N!DestroyPeer, N!Send, N!ClearWrite, N!WriteData, N!NothingToRead, N!Recv, N!ResetRead,
        N!NothingToWrite, N!ResetWrite, N!Listen, N!Stop, N!SendReadSignal, N!SendWriteSignal,
        N!Disconnect, N!UpdateAccept, N!UpdateDisconnected, N!UpdateData, N!RemoteSends,
        N!RemoteCloses
  <2>2. inLoop' \in BOOLEAN /\ listed' \in {"no", "accepted", "connected", "disconnected"}
    BY <1>1
    DEF N!TypeOK, N!Next, N!vars, N!socketVars, N!Thread, N!Update, N!Application, N!Remote,
        N!Accept, N!LoopConnected, N!Goto, N!LoopDisconnected, N!ReadFails, N!WriteFails,
        N!DestroyPeer, N!Send, N!ClearWrite, N!WriteData, N!NothingToRead, N!Recv, N!ResetRead,
        N!NothingToWrite, N!ResetWrite, N!Listen, N!Stop, N!SendReadSignal, N!SendWriteSignal,
        N!Disconnect, N!UpdateAccept, N!UpdateDisconnected, N!UpdateData, N!RemoteSends,
        N!RemoteCloses
  <2>3. thread' \in {"top", "read", "received", "write", "sent", "clear"}
    BY <1>1
    DEF N!TypeOK, N!Next, N!vars, N!socketVars, N!Thread, N!Update, N!Application, N!Remote,
        N!Accept, N!LoopConnected, N!Goto, N!LoopDisconnected, N!ReadFails, N!WriteFails,
        N!DestroyPeer, N!Send, N!ClearWrite, N!WriteData, N!NothingToRead, N!Recv, N!ResetRead,
        N!NothingToWrite, N!ResetWrite, N!Listen, N!Stop, N!SendReadSignal, N!SendWriteSignal,
        N!Disconnect, N!UpdateAccept, N!UpdateDisconnected, N!UpdateData, N!RemoteSends,
        N!RemoteCloses
  <2> QED
    BY <2>1, <2>2, <2>3
<1>8. /\ {mReadSignal', mReadState', mWriteSignal', mDisconnectSignal'} \subseteq BOOLEAN
      /\ nWriting' \in BOOLEAN /\ requested' \in BOOLEAN
  BY <1>1
  DEF N!TypeOK, N!Next, N!vars, N!socketVars, N!readVars, N!writeVars, N!Thread, N!Update,
    N!Application, N!Remote, N!Accept,
      N!LoopConnected, N!Goto, N!LoopDisconnected, N!ReadFails, N!WriteFails, N!DestroyPeer,
        N!Send, N!ClearWrite,
      N!WriteData, N!NothingToRead, N!Recv, N!ResetRead, N!NothingToWrite, N!ResetWrite, N!Listen,
        N!Stop,
      N!SendReadSignal, N!SendWriteSignal, N!Disconnect, N!UpdateAccept, N!UpdateDisconnected,
        N!UpdateData,
      N!RemoteSends, N!RemoteCloses, N!is_connected
<1>7. mishaps' \subseteq {"overrun", "unasked", "cut", "wiped", "failed"}
  <2>1. UNCHANGED mishaps \/ \E what \in {"overrun", "unasked", "cut", "wiped", "failed"} :
                                mishaps' = mishaps \cup {what}
    BY DEF N!Next, N!vars, N!Thread, N!Update, N!Application, N!Remote, N!Accept, N!LoopConnected,
      N!Goto,
        N!LoopDisconnected, N!ReadFails, N!WriteFails, N!Send, N!ClearWrite, N!WriteData,
          N!NothingToRead, N!Recv,
        N!ResetRead, N!NothingToWrite, N!ResetWrite, N!Listen, N!Stop, N!SendReadSignal,
          N!SendWriteSignal,
        N!Disconnect, N!UpdateAccept, N!UpdateDisconnected, N!UpdateData, N!RemoteSends,
          N!RemoteCloses, N!Happens
  <2> QED
    BY <1>1, <2>1 DEF N!TypeOK
<1>6. /\ nPacketContent' \in [1..BufferSize -> 0..Stream] /\ fresh' \in 0..BufferSize
      /\ remote' \in [sent : 0..Stream, read : 0..Stream, closed : BOOLEAN]
      /\ remote'.read <= remote'.sent
  <2>1. CASE \E n \in 1..BufferSize : N!Recv(n)
    <3>1. PICK n \in 1..BufferSize : N!Recv(n)
      BY <2>1
    <3>2. remote.sent \in 0..Stream /\ remote.read \in 0..Stream /\ remote.closed \in BOOLEAN
            /\ n \in 1..(remote.sent - remote.read)
      BY <1>1, <3>1 DEF N!Recv, N!TypeOK, N!Available
    <3>3. remote' = [remote EXCEPT !.read = @ + n] /\ remote \in RemoteRecord /\ n \in Nat
            /\ n <= remote.sent - remote.read
      BY <1>1, <3>1, <3>2 DEF N!Recv, N!TypeOK, RemoteRecord
    <3>4. remote' \in [sent : 0..Stream, read : 0..Stream, closed : BOOLEAN]
            /\ remote'.read = remote.read + n /\ remote'.sent = remote.sent
      BY <3>3, ReadMore DEF RemoteRecord
    <3>5. \A i \in 1..n : remote.read + i \in 0..Stream
      BY <3>2
    <3>6. nPacketContent' \in [1..BufferSize -> 0..Stream] /\ fresh' \in 0..BufferSize
      BY <1>1, <3>1, <3>5 DEF N!Recv, N!TypeOK
    <3> QED
      BY <3>2, <3>4, <3>6
  <2>2. CASE N!RemoteSends \/ N!RemoteCloses
    <3>1. remote \in RemoteRecord /\ remote.read <= remote.sent
      BY <1>1 DEF N!TypeOK, RemoteRecord
    <3>2. remote' \in RemoteRecord /\ remote'.read <= remote'.sent
      BY <2>2, <3>1, SendMore, SendNoMore DEF N!RemoteSends, N!RemoteCloses
    <3> QED
      BY <1>1, <2>2, <3>2 DEF N!RemoteSends, N!RemoteCloses, RemoteRecord, N!TypeOK, N!readVars
  <2>3. CASE N!UpdateData
    BY <1>1, <2>3 DEF N!UpdateData, N!TypeOK
  <2>4. CASE UNCHANGED <<nPacketContent, fresh, remote>>
    BY <1>1, <2>4 DEF N!TypeOK
  <2> QED
    BY <2>1, <2>2, <2>3, <2>4
    DEF N!Next, N!vars, N!readVars, N!Thread, N!Update, N!Application, N!Remote, N!Accept,
      N!LoopConnected, N!Goto,
        N!LoopDisconnected, N!ReadFails, N!WriteFails, N!DestroyPeer, N!Send, N!ClearWrite,
          N!WriteData,
        N!NothingToRead, N!ResetRead, N!NothingToWrite, N!ResetWrite, N!Listen, N!Stop,
          N!SendReadSignal,
        N!SendWriteSignal, N!Disconnect, N!UpdateAccept, N!UpdateDisconnected
<1> QED
  BY <1>2, <1>3, <1>4, <1>5, <1>6, <1>7, <1>8 DEF PeerTypes, N!TypeOK

LEMMA PeerPlaceKept ==
  ASSUME PeerInv, [N!Next]_(N!vars)
  PROVE  PeerPlace'
<1>1. CASE UNCHANGED <<mPeerSocket, inLoop, listed, thread, mReadState, nWriting, mWriteSignal>>
  BY <1>1 DEF PeerInv, PeerPlace, PeerOpen
<1> QED
  BY <1>1
  DEF PeerInv, PeerPlace, PeerOpen, PeerTypes, N!TypeOK, N!Next, N!vars, N!socketVars, N!readVars,
    N!writeVars, N!Thread, N!Update,
      N!Application, N!Remote, N!Accept, N!LoopConnected, N!Goto, N!LoopDisconnected, N!ReadFails,
        N!WriteFails,
      N!DestroyPeer, N!Send, N!ClearWrite, N!WriteData, N!NothingToRead, N!Recv, N!ResetRead,
        N!NothingToWrite,
      N!ResetWrite, N!Listen, N!Stop, N!SendReadSignal, N!SendWriteSignal, N!Disconnect,
        N!UpdateAccept,
      N!UpdateDisconnected, N!UpdateData, N!RemoteSends, N!RemoteCloses, N!is_connected

LEMMA PeerReadKept ==
  ASSUME PeerInv, [N!Next]_(N!vars)
  PROVE  PeerRead'
<1> USE Sizes
<1>1. PeerTypes /\ PeerPlace /\ PeerRead
  BY DEF PeerInv
<1>2. /\ handed \in Seq(0..Stream) /\ Len(handed) \in Nat /\ fresh \in 0..BufferSize
      /\ nPacketContent \in [1..BufferSize -> 0..Stream] /\ remote.read \in Nat /\
           remote.sent \in Nat
  BY <1>1 DEF PeerTypes, N!TypeOK
<1>3. ASSUME NEW n \in 1..BufferSize, N!Recv(n)
      PROVE  PeerRead'
  <2> SUFFICES ASSUME "overrun" \notin mishaps'
               PROVE  PeerRead'
    BY DEF PeerRead
  <2>1. "overrun" \notin mishaps /\ ~mReadState /\ PeerOpen
    BY <1>1, <1>3 DEF N!Recv, N!Happens, PeerPlace, PeerTypes, N!TypeOK
  <2>2. handed' = handed /\ fresh' = n /\ mReadState' /\ mPeerSocket' = mPeerSocket
          /\ remote'.read = remote.read + n
    BY <1>1, <1>3 DEF N!Recv, N!readVars, N!socketVars, PeerTypes, N!TypeOK
  <2>3. \A i \in 1..n : nPacketContent'[i] = remote.read + i
    BY <1>2, <1>3 DEF N!Recv
  <2> QED
    BY <1>1, <1>2, <2>1, <2>2, <2>3 DEF PeerRead, PeerOpen
<1>4. CASE N!UpdateData
  <2> SUFFICES ASSUME "overrun" \notin mishaps'
               PROVE  PeerRead'
    BY DEF PeerRead
  <2> DEFINE new == SubSeq(nPacketContent, 1, fresh)
  <2>1. "overrun" \notin mishaps /\ PeerOpen /\ mPeerSocket' = mPeerSocket /\ remote' = remote
          /\ fresh' = 0 /\ mReadState' = FALSE /\ handed' = handed \o new
    BY <1>4 DEF N!UpdateData, N!is_connected, PeerOpen, N!socketVars
  <2>2. nPacketContent \in Seq(0..Stream) /\ fresh \in Nat /\ fresh <= Len(nPacketContent)
    BY <1>2
  <2>3. new \in Seq(0..Stream) /\ Len(new) = fresh /\ \A i \in 1..fresh : new[i] = nPacketContent[i]
    BY <2>2, Beginning
  <2> HIDE DEF new
  <2>4. Len(handed') = Len(handed) + fresh
    BY <1>2, <2>1, <2>3
  <2>5. ASSUME NEW i \in 1..Len(handed')
        PROVE  handed'[i] = i
    <3>1. CASE i <= Len(handed)
      BY <1>1, <1>2, <2>1, <2>3, <3>1 DEF PeerRead
    <3>2. CASE i > Len(handed)
      <4>1. i - Len(handed) \in 1..fresh
        BY <1>2, <2>4, <3>2
      <4>2. handed'[i] = new[i - Len(handed)]
        BY <1>2, <2>1, <2>3, <3>2, <4>1
      <4> QED
        BY <1>1, <1>2, <2>1, <2>3, <4>1, <4>2 DEF PeerRead
    <3> QED
      BY <1>2, <3>1, <3>2
  <2> QED
    BY <1>1, <1>2, <2>1, <2>4, <2>5 DEF PeerRead, PeerOpen
<1>5. CASE /\ UNCHANGED <<handed, fresh, nPacketContent>> /\ remote'.read = remote.read
           /\ "overrun" \in mishaps => "overrun" \in mishaps'
           /\ PeerOpen' => PeerOpen /\ mReadState' = mReadState
           /\ mPeerSocket' = "none" => mPeerSocket = "none"
  BY <1>1, <1>5 DEF PeerRead, PeerOpen
<1>6. CASE N!Accept
  BY <1>1, <1>2, <1>6 DEF N!Accept, PeerRead, PeerOpen, N!readVars
<1>7. CASE N!LoopDisconnected \/ N!ReadFails \/ N!WriteFails
  BY <1>5, <1>7 DEF N!LoopDisconnected, N!ReadFails, N!WriteFails, N!DestroyPeer, N!Happens,
    PeerOpen
<1>8. CASE N!RemoteSends \/ N!RemoteCloses
  BY <1>1, <1>5, <1>8 DEF N!RemoteSends, N!RemoteCloses, N!readVars, N!socketVars, PeerTypes,
    N!TypeOK, PeerOpen
<1> QED
  BY <1>3, <1>4, <1>5, <1>6, <1>7, <1>8
  DEF N!Next, N!vars, N!socketVars, N!readVars, N!Thread, N!Update, N!Application, N!Remote,
    N!LoopConnected, N!Goto, N!Send,
      N!ClearWrite, N!WriteData, N!NothingToRead, N!ResetRead, N!NothingToWrite, N!ResetWrite,
        N!Listen, N!Stop,
      N!SendReadSignal, N!SendWriteSignal, N!Disconnect, N!UpdateAccept, N!UpdateDisconnected,
        N!Happens, PeerOpen

LEMMA PeerWriteKept ==
  ASSUME PeerInv, [N!Next]_(N!vars)
  PROVE  PeerWrite'
<1> SUFFICES ASSUME ~PeerLost'
             PROVE  PeerWrite'
  BY DEF PeerWrite
<1>1. PeerTypes /\ PeerPlace /\ PeerWrite
  BY DEF PeerInv
<1>2. mWriteBuffer \in Seq(N!Bytes) /\ arrived \in Seq(N!Bytes) /\ written \in Seq(N!Bytes)
  BY <1>1 DEF PeerTypes
<1>3. ASSUME NEW n \in 1..2, N!Send(n)
      PROVE  PeerWrite'
  <2>1. n \in 1..Len(mWriteBuffer) /\ n = Len(mWriteBuffer) /\ ~PeerLost
    <3>1. n \in 1..Len(mWriteBuffer) /\ Len(mWriteBuffer) \in Nat
      BY <1>2, <1>3 DEF N!Send
    <3>2. ~(n < Len(mWriteBuffer)) /\ mishaps' = mishaps
      BY <1>3 DEF N!Send, N!Happens, PeerLost
    <3> QED
      BY <3>1, <3>2 DEF PeerLost
  <2>2. SubSeq(mWriteBuffer, 1, n) = mWriteBuffer
    BY <1>2, <2>1, Beginning
  <2>3. written = arrived \o mWriteBuffer
    BY <1>1, <1>3, <2>1 DEF N!Send, PeerWrite, PeerPlace, PeerOpen
  <2>4. arrived' = written' /\ thread' = "sent" /\ mWriteSignal' /\ mWriteBuffer' # <<>>
    BY <1>2, <1>3, <2>1, <2>2, <2>3 DEF N!Send, PeerWrite, PeerPlace, PeerOpen
  <2>5. N!IsPrefix(arrived', written')
    BY <1>2, <1>3, <2>4, PrefixOfConcat DEF N!Send
  <2> QED
    BY <2>4, <2>5 DEF PeerWrite
<1>4. CASE N!WriteData
  <2>1. N!Message(N!NextMessage) \in Seq(N!Bytes) /\ Len(N!Message(N!NextMessage)) = 2
    BY <1>1, <1>4, MessageTyped DEF N!WriteData
  <2>2. ~PeerLost /\ ~nWriting /\ ~mWriteSignal /\ ~mDisconnectSignal /\ mPeerSocket = "open"
    BY <1>4 DEF N!WriteData, PeerLost, N!is_connected
  <2>3. N!Message(N!NextMessage) # <<>> /\ N!IsPrefix(arrived, written \o N!Message(N!NextMessage))
    <3>1. N!IsPrefix(arrived, written)
      BY <1>1, <2>2 DEF PeerWrite
    <3>2. N!IsPrefix(arrived, written \o N!Message(N!NextMessage))
      BY <1>2, <2>1, <3>1, PrefixTransitive
    <3> QED
      BY <2>1, <3>2
  <2>4. thread \notin {"sent", "clear"} => written = arrived
    BY <1>1, <1>2, <2>2 DEF PeerWrite
  <2> QED
    BY <1>1, <1>4, <2>2, <2>3, <2>4 DEF N!WriteData, PeerWrite
<1>5. CASE N!ClearWrite
  <2>1. /\ thread = "clear" /\ thread' = "top" /\ mWriteBuffer' = <<>>
        /\ UNCHANGED <<mPeerSocket, mWriteSignal, nWriting, arrived, written, mDisconnectSignal>>
        /\ ~PeerLost' => ~PeerLost /\ ~nWriting /\ ~mWriteSignal
    BY <1>5 DEF N!ClearWrite, N!Happens, PeerLost, N!socketVars
  <2>2. arrived \in Seq(N!Bytes) /\ arrived \o <<>> = arrived
    BY <1>2
  <2>3. ~PeerLost' => /\ N!IsPrefix(arrived, written)
                      /\ mPeerSocket # "closed" => mDisconnectSignal \/ written = arrived
    BY <1>1, <2>1 DEF PeerWrite
  <2> QED
    BY <2>1, <2>2, <2>3 DEF PeerWrite
<1>6. CASE N!LoopDisconnected \/ N!ReadFails \/ N!WriteFails
  BY <1>1, <1>6 DEF N!LoopDisconnected, N!ReadFails, N!WriteFails, N!DestroyPeer, N!Happens,
    PeerLost, PeerWrite
<1>7. CASE UNCHANGED <<mPeerSocket, mWriteSignal, mWriteBuffer, nWriting, arrived, written,
                       mDisconnectSignal, thread>>
           /\ ~PeerLost
  BY <1>1, <1>7 DEF PeerWrite
<1>8. CASE N!Accept
  BY <1>1, <1>8 DEF N!Accept, PeerLost, PeerWrite, PeerPlace, N!writeVars, PeerOpen
<1>11. CASE N!ResetWrite
  BY <1>1, <1>11 DEF N!ResetWrite, PeerLost, PeerWrite, PeerPlace, N!socketVars, PeerOpen
<1>12. CASE N!SendWriteSignal
  <2>1. /\ nWriting /\ ~mWriteSignal /\ nWriting' = FALSE /\ ~PeerLost /\ mWriteSignal' \in BOOLEAN
        /\ mWriteSignal' <=> N!is_connected /\ mWriteBuffer # <<>>
        /\ UNCHANGED <<mPeerSocket, mWriteBuffer, arrived, written, mDisconnectSignal, thread>>
    BY <1>1, <1>12 DEF N!SendWriteSignal, PeerLost, PeerPlace, N!socketVars, PeerTypes, N!TypeOK
  <2>2. /\ mDisconnectSignal \in BOOLEAN /\ mPeerSocket \in {"none", "open", "closed"}
        /\ (N!is_connected <=> ~mDisconnectSignal /\ mPeerSocket = "open")
    BY <1>1 DEF PeerTypes, N!TypeOK, N!is_connected
  <2>3. PeerPlace /\ PeerWrite /\ (thread \in {"sent", "clear"} => mPeerSocket = "open")
    BY <1>1 DEF PeerPlace, PeerOpen
  <2>4. mPeerSocket # "none"
    BY <1>1, <1>12 DEF N!SendWriteSignal, PeerPlace
  <2>5. mPeerSocket' # "closed" => mWriteBuffer # <<>> /\ thread # "sent" /\ mPeerSocket = "open"
    BY <2>1, <2>2, <2>3, <2>4 DEF PeerWrite
  <2>6. N!IsPrefix(arrived', written')
    BY <2>1, <2>3 DEF PeerWrite
  <2>7. thread' \notin {"sent", "clear"} /\ (thread' # "top" \/ ~mDisconnectSignal') /\
          mPeerSocket' # "closed"
           => written' = arrived' \o mWriteBuffer'
    BY <2>1, <2>3 DEF PeerWrite
  <2> QED
    BY <2>1, <2>2, <2>5, <2>6, <2>7 DEF PeerWrite
<1>13. CASE N!Disconnect
  BY <1>1, <1>13 DEF N!Disconnect, PeerLost, PeerWrite, N!socketVars, N!writeVars
<1>9. CASE (\E n \in 1..BufferSize : N!Recv(n)) \/ N!ResetRead
  BY <1>1, <1>9 DEF N!Recv, N!ResetRead, N!Happens, PeerLost, PeerWrite, N!socketVars, N!writeVars
<1>10. CASE N!LoopConnected \/ N!NothingToRead \/ N!NothingToWrite
  BY <1>1, <1>10
  DEF N!LoopConnected, N!NothingToRead, N!NothingToWrite, N!Goto, PeerLost, PeerWrite,
    N!socketVars, N!writeVars,
      N!is_connected
<1> QED
  BY <1>3, <1>4, <1>5, <1>6, <1>7, <1>8, <1>9, <1>10, <1>11, <1>12, <1>13
  DEF N!Next, N!vars, N!socketVars, N!writeVars, N!Thread, N!Update, N!Application, N!Remote,
    N!Listen, N!Stop,
      N!SendReadSignal, N!UpdateAccept, N!UpdateDisconnected, N!UpdateData, N!RemoteSends,
        N!RemoteCloses, PeerLost

LEMMA PeerInvariance == N!Spec => []PeerInv
<1>1. N!Init => PeerInv
  BY PeerInit
<1>2. PeerInv /\ [N!Next]_(N!vars) => PeerInv'
  BY PeerTypesKept, PeerPlaceKept, PeerReadKept, PeerWriteKept DEF PeerInv
<1> QED
  BY <1>1, <1>2, PTL DEF N!Spec

-----------------------------------------------------------------------------

\* For any number of connections, requests and bytes: on_data finds the bytes of the remote in
\* front of its buffer, each once and in order, what arrives at the remote is the beginning of what
\* write_data accepted, and an accumulated request runs with exactly the data its client sent, the
\* known overruns, cuts, wiped messages, short reads and inherited accumulations aside.
THEOREM InOrder == Spec /\ N!Spec => []DataInOrder
<1>1. IInv => TypeOK /\ DataWhole
  BY DEF IInv, Types, RunInv, Exempt, DataWhole
<1>2. PeerInv => N!TypeOK /\ N!ReceivedInOrder /\ N!SentInOrder
  BY DEF PeerInv, PeerTypes, PeerRead, PeerWrite, PeerLost, N!ReceivedInOrder, N!SentInOrder,
         N!IsPrefix
<1>3. IInv /\ PeerInv => DataInOrder
  BY <1>1, <1>2 DEF DataInOrder
<1> QED
  BY <1>3, Invariance, PeerInvariance, PTL
===============================================================================
