--------------------------- MODULE MetaServer_proofs ---------------------------
(***************************************************************************)
(* For any clients, scripts and segments: the signals of an open socket    *)
(* reach the one connection that owns it, through every reuse of a slot,   *)
(* and a proper request gets its one answer however TCP cuts it.           *)
(***************************************************************************)
EXTENDS MetaServer, TLAPS, SequenceTheorems, FiniteSetTheorems, WellFoundedInduction

\* A connection, of which only socket and parse state matter here; NoConn has
\* no state.
IsConnection(k) ==
  {"sock", "state"} \subseteq DOMAIN k /\ k.state \in {"method", "headers", "body"}

\* What a handler works on, and what it leaves of it.
Handled(h) == {"conn", "buf", "codes", "emitted"} \subseteq DOMAIN h /\ IsConnection(h.conn)

SameSocket(h, g) == Handled(g) /\ g.conn.sock = h.conn.sock

Slots(c) == {i \in DOMAIN conns : conns[i] # NoConn /\ conns[i].sock = c}

ConnsInv ==
  /\ \E S : conns \in Seq(S)
  /\ \A i \in DOMAIN conns :
       conns[i] = NoConn \/ (IsConnection(conns[i]) /\ conns[i].sock \in Clients)

\* A socket is in one slot, the one the mappers hold, from the time it is
\* accepted until it is collected, and in none at other times.
SlotInv ==
  /\ link \in [Clients -> {"none", "pending", "open", "closed"}]
  /\ DOMAIN mapped = Clients
  /\ \A c \in Clients :
       Slots(c) = IF link[c] \in {"open", "closed"} THEN {mapped[c]} ELSE {}

IInv == ConnsInv /\ SlotInv

-----------------------------------------------------------------------------
(* A handler keeps the socket of its connection.                           *)

\* A connection at its start.
LEMMA NewConnection ==
  ASSUME NEW c
  PROVE  /\ IsConnection(Connection(c)) /\ Connection(c).sock = c
         /\ ~IsConnection(NoConn)
  BY DEF IsConnection, Connection, NoConn

\* An answer keeps the socket.
LEMMA SendKeeps ==
  ASSUME NEW h, Handled(h), NEW code
  PROVE  SameSocket(h, Send(h, code))
  BY DEF Handled, SameSocket, Send

\* A title update keeps the socket.
LEMMA UpdateKeeps ==
  ASSUME NEW h, Handled(h)
  PROVE  SameSocket(h, Update(h))
<1>1. SameSocket(h, Send(h, 200))
  BY SendKeeps
<1> QED BY <1>1 DEF Handled, SameSocket, Update

\* The answer to a request keeps the socket.
LEMMA ProcessRequestKeeps ==
  ASSUME NEW h, Handled(h)
  PROVE  SameSocket(h, ProcessRequest(h))
<1>1. SameSocket(h, Update(h)) /\ \A code : SameSocket(h, Send(h, code))
  BY SendKeeps, UpdateKeeps
<1>2. SameSocket(h, GetRequestReceived(h))
  BY <1>1 DEF GetRequestReceived
<1>3. SameSocket(h, PostRequestReceived(h))
  BY <1>1 DEF PostRequestReceived
<1> QED BY <1>1, <1>2, <1>3 DEF ProcessRequest, RequestReceived

\* A piece of a body keeps the socket.
LEMMA ReadBodyKeeps ==
  ASSUME NEW h, Handled(h)
  PROVE  SameSocket(h, ReadBody(h))
<1> DEFINE want == h.conn.length - Len(h.conn.body)
           n    == IF want < Len(h.buf) THEN want ELSE Len(h.buf)
           body == h.conn.body \o SubSeq(h.buf, 1, n)
           h2   == [h EXCEPT !.conn.body = body,
                             !.buf = SubSeq(h.buf, n + 1, Len(h.buf))]
<1>1. ReadBody(h) = IF Len(body) = h.conn.length THEN ProcessRequest(h2) ELSE h2
  BY DEF ReadBody
<1> HIDE DEF body, n
<1>2. SameSocket(h, h2)
  BY DEF Handled, SameSocket, IsConnection
<1>3. SameSocket(h2, ProcessRequest(h2))
  BY <1>2, ProcessRequestKeeps DEF SameSocket
<1> QED BY <1>1, <1>2, <1>3 DEF SameSocket

\* The end of the headers keeps the socket.
LEMMA EndOfHeadersKeeps ==
  ASSUME NEW h, Handled(h)
  PROVE  SameSocket(h, EndOfHeaders(h))
<1> DEFINE b == [h EXCEPT !.conn.state = "body"]
<1>1. SameSocket(h, b)
  BY DEF Handled, SameSocket, IsConnection
<1>2. SameSocket(b, ReadBody(b))
  BY <1>1, ReadBodyKeeps DEF SameSocket
<1>3. SameSocket(h, ReadBody(b))
  BY <1>1, <1>2 DEF SameSocket
<1> QED BY <1>3, SendKeeps, ProcessRequestKeeps DEF EndOfHeaders


\* A header line keeps the socket.
LEMMA ReadHeadersKeeps ==
  ASSUME NEW h, Handled(h)
  PROVE  SameSocket(h, ReadHeaders(h))
<1> DEFINE Whole(i) == IsLine(h.buf[i]) /\ (i > 1 => IsLine(h.buf[i - 1]))
           lines    == {i \in DOMAIN h.buf: Whole(i)}
           stops    == {i \in lines: h.buf[i].kind = "blank" \/ Malformed(h.buf[i])}
           ends     == {i \in DOMAIN h.buf: IsLine(h.buf[i])}
           last     == IF stops # {} THEN Min(stops)
                       ELSE IF ends # {} THEN Max(ends) ELSE 0
           good     == {i \in lines: i <= last /\ ~Malformed(h.buf[i])}
           lengths  == {i \in good: h.buf[i].kind = "length"}
           hosts    == {i \in good: h.buf[i].kind = "host"}
           g == [h EXCEPT
                   !.buf = SubSeq(h.buf, last + 1, Len(h.buf)),
                   !.conn.length = IF lengths = {} THEN @ ELSE h.buf[Max(lengths)].n,
                   !.conn.host = @ \/ hosts # {}]
<1>1. ReadHeaders(h) = IF stops = {} THEN g
                       ELSE IF Malformed(h.buf[last]) THEN Send(g, 400)
                       ELSE EndOfHeaders(g)
  BY DEF ReadHeaders
<1> HIDE DEF lines, stops, ends, last, good, lengths, hosts
<1>2. SameSocket(h, g)
  BY DEF Handled, SameSocket, IsConnection
<1> HIDE DEF g
<1>3. SameSocket(h, Send(g, 400)) /\ SameSocket(h, EndOfHeaders(g))
  BY <1>2, SendKeeps, EndOfHeadersKeeps DEF SameSocket
<1> QED BY <1>1, <1>2, <1>3

\* A first line keeps the socket.
LEMMA ReadMethodLineKeeps ==
  ASSUME NEW h, Handled(h)
  PROVE  SameSocket(h, ReadMethodLine(h))
<1> DEFINE r == ReadLine(h.buf)
           l == r.line
           g == [h EXCEPT !.buf = r.rest]
           m == IF l.method \in Implemented THEN l.method ELSE h.conn.method
           q == [g EXCEPT !.conn.method = m, !.conn.uri = l.uri, !.conn.minor = l.minor]
           s == [q EXCEPT !.conn.state = "headers"]
<1>1. ReadMethodLine(h) =
        IF ~CanReadLine(h.buf) THEN h
        ELSE IF l.kind # "request" \/ ~l.form THEN Send(g, 400)
        ELSE IF m = "None" THEN Send(g, 501)
        ELSE IF l.major < 0 THEN Send(q, 400)
        ELSE IF l.major # 1 \/ l.minor > 1 THEN Send(q, 505)
        ELSE ReadHeaders(s)
  BY DEF ReadMethodLine
<1> HIDE DEF r, l, m
<1>2. SameSocket(h, g)
  BY DEF Handled, SameSocket, IsConnection
<1> HIDE DEF g
<1>3. SameSocket(g, q)
  BY <1>2 DEF Handled, SameSocket, IsConnection
<1> HIDE DEF q
<1>4. SameSocket(q, s)
  BY <1>3 DEF Handled, SameSocket, IsConnection
<1> HIDE DEF s
<1>5. SameSocket(h, h) /\ SameSocket(h, q) /\ SameSocket(h, s)
  BY <1>2, <1>3, <1>4 DEF SameSocket
<1>6. \A code : SameSocket(h, Send(g, code)) /\ SameSocket(h, Send(q, code))
  BY <1>2, <1>5, SendKeeps DEF SameSocket
<1>7. SameSocket(h, ReadHeaders(s))
  BY <1>5, ReadHeadersKeeps DEF SameSocket
<1> QED BY <1>1, <1>5, <1>6, <1>7

\* readyReadData() works on the connection of the slot and no other.
LEMMA DispatchKeeps ==
  ASSUME NEW h, Handled(h)
  PROVE  SameSocket(h, Dispatch(h))
  BY ReadMethodLineKeeps, ReadHeadersKeeps, ReadBodyKeeps
     DEF Dispatch, Handled, IsConnection

-----------------------------------------------------------------------------
(* Slots.                                                                  *)

(* A set of natural numbers has a least element: of the intervals that end *)
(* in the set one is least by inclusion.                                   *)
LEMMA LeastElement ==
  ASSUME NEW S \in SUBSET Nat, S # {}
  PROVE  \E i \in S : \A j \in S : i <= j
<1> DEFINE T == {1..i : i \in S}
<1>1. T \subseteq FiniteSubsetsOf(Nat)
  <2> SUFFICES ASSUME NEW i \in S
               PROVE  1..i \in FiniteSubsetsOf(Nat)
    OBVIOUS
  <2>1. IsFiniteSet(1..i)
    BY FS_Interval
  <2> QED BY <2>1 DEF FiniteSubsetsOf
<1>2. T # {}
  OBVIOUS
<1> HIDE DEF T
<1>3. PICK x \in T : \A y \in T : ~(<<y, x>> \in StrictSubsetOrdering(Nat))
  BY <1>1, <1>2, FS_StrictSubsetOrderingWellFounded, WFMin
<1> USE DEF T
<1>4. PICK i \in S : x = 1..i
  OBVIOUS
<1>5. ASSUME NEW j \in S, ~(i <= j)
      PROVE  FALSE
  <2>1. <<1..j, 1..i>> \in StrictSubsetOrdering(Nat)
    BY <1>5 DEF StrictSubsetOrdering
  <2> QED BY <1>3, <1>4, <2>1
<1> QED BY <1>5

\* newConnectionData() fills one slot that was free and leaves the others.
LEMMA NewSlot ==
  ASSUME ConnsInv, NEW c \in Clients, NewConnectionData(c)
  PROVE  \E id \in DOMAIN conns' :
           /\ \E S : conns' \in Seq(S)
           /\ conns'[id] = Connection(c) /\ mapped' = [mapped EXCEPT ![c] = id]
           /\ DOMAIN conns \subseteq DOMAIN conns'
           /\ id \in DOMAIN conns => conns[id] = NoConn
           /\ \A i \in DOMAIN conns' : i # id => i \in DOMAIN conns /\ conns'[i] = conns[i]
<1>1. PICK S : conns \in Seq(S)
  BY DEF ConnsInv
<1> DEFINE U == S \cup {Connection(c)}
<1>2. conns \in Seq(U) /\ Connection(c) \in U /\ DOMAIN conns = 1 .. Len(conns)
      /\ Len(conns) \in Nat
  BY <1>1
<1> HIDE DEF U
<1>3. CASE FreeSlots = {}
  <2> DEFINE n == Len(conns) + 1
  <2>1. conns' = Append(conns, Connection(c)) /\ mapped' = [mapped EXCEPT ![c] = n]
    BY <1>3 DEF NewConnectionData
  <2>2. /\ conns' \in Seq(U) /\ DOMAIN conns' = 1 .. n
        /\ conns'[n] = Connection(c)
        /\ \A i \in 1 .. Len(conns) : conns'[i] = conns[i]
    BY <1>2, <2>1, AppendProperties
  <2>3. n \in DOMAIN conns' /\ n \notin DOMAIN conns /\ DOMAIN conns \subseteq DOMAIN conns'
    BY <1>2, <2>2
  <2>4. \A i \in DOMAIN conns' : i # n => i \in DOMAIN conns
    BY <1>2, <2>2
  <2>5. \A i \in DOMAIN conns : conns'[i] = conns[i]
    BY <1>2, <2>2
  <2> HIDE DEF n
  <2> QED BY <2>1, <2>2, <2>3, <2>4, <2>5
<1>4. CASE FreeSlots # {}
  <2>1. FreeSlots \in SUBSET Nat
    BY <1>2 DEF FreeSlots
  <2>2. Min(FreeSlots) \in FreeSlots
    BY <1>4, <2>1, LeastElement DEF Min
  <2>3. PICK id \in DOMAIN conns : conns[id] = NoConn /\ id = Min(FreeSlots)
    BY <2>2 DEF FreeSlots
  <2>4. conns' = [conns EXCEPT ![id] = Connection(c)] /\ mapped' = [mapped EXCEPT ![c] = id]
    BY <1>4, <2>3 DEF NewConnectionData
  <2>5. /\ conns' \in Seq(U) /\ DOMAIN conns' = DOMAIN conns
        /\ conns'[id] = Connection(c)
        /\ \A i \in DOMAIN conns : i # id => conns'[i] = conns[i]
    BY <1>2, <2>4, ExceptSeq
  <2> QED BY <2>3, <2>4, <2>5
<1> QED BY <1>3, <1>4


\* What any step does to the socket of one connection leaves the others alone.
LEMMA NewConnectionKeeps ==
  ASSUME IInv, NEW c \in Clients, NewConnectionData(c)
  PROVE  IInv'
<1>1. PICK id \in DOMAIN conns' :
           /\ \E S : conns' \in Seq(S)
           /\ conns'[id] = Connection(c) /\ mapped' = [mapped EXCEPT ![c] = id]
           /\ DOMAIN conns \subseteq DOMAIN conns'
           /\ id \in DOMAIN conns => conns[id] = NoConn
           /\ \A i \in DOMAIN conns' : i # id => i \in DOMAIN conns /\ conns'[i] = conns[i]
  BY NewSlot DEF IInv
<1>2. link[c] = "pending" /\ link' = [link EXCEPT ![c] = "open"]
  BY DEF NewConnectionData
<1>3. IsConnection(conns'[id]) /\ conns'[id].sock = c /\ conns'[id] # NoConn
  BY <1>1, NewConnection
<1>4. ConnsInv'
  BY <1>1, <1>3 DEF IInv, ConnsInv
<1>5. link' \in [Clients -> {"none", "pending", "open", "closed"}] /\ DOMAIN mapped' = Clients
      /\ link'[c] = "open" /\ mapped'[c] = id
      /\ \A d \in Clients : d # c => link'[d] = link[d] /\ mapped'[d] = mapped[d]
  BY <1>1, <1>2 DEF IInv, SlotInv
<1>6. Slots(c) = {}
  BY <1>2 DEF IInv, SlotInv
<1>7. Slots(c)' = {id}
  BY <1>1, <1>3, <1>6 DEF Slots
<1>8. \A d \in Clients : d # c => Slots(d)' = Slots(d)
  BY <1>1, <1>3 DEF Slots
<1>9. SlotInv'
  BY <1>5, <1>7, <1>8 DEF IInv, SlotInv
<1> QED BY <1>4, <1>9 DEF IInv

\* The slot the mappers hold for an open socket is that socket's.
LEMMA SlotOfOpen ==
  ASSUME IInv, NEW c \in Clients, link[c] = "open"
  PROVE  mapped[c] \in DOMAIN conns /\ conns[mapped[c]] # NoConn /\ conns[mapped[c]].sock = c
<1>1. mapped[c] \in Slots(c)
  BY DEF IInv, SlotInv
<1> QED BY <1>1 DEF Slots

\* What a read finds keeps every slot with its socket.
LEMMA ReadyReadKeeps ==
  ASSUME IInv, NEW c \in Clients, ReadyReadData(c)
  PROVE  IInv'
<1> DEFINE id == mapped[c]
<1>1. id \in DOMAIN conns /\ conns[id] # NoConn /\ conns[id].sock = c
  <2>1. link[c] = "open"
    BY DEF ReadyReadData
  <2> QED BY <2>1, SlotOfOpen
<1>2. IsConnection(conns[id])
  BY <1>1 DEF IInv, ConnsInv
<1>3. PICK n \in 1 .. Len(wire[c]) :
        conns' = [conns EXCEPT ![id] =
                    Dispatch([conn |-> conns[id], buf |-> arrived[c] \o SubSeq(wire[c], 1, n),
                              codes |-> <<>>, emitted |-> <<>>]).conn]
  BY DEF ReadyReadData, Handle
<1> DEFINE h == [conn |-> conns[id], buf |-> arrived[c] \o SubSeq(wire[c], 1, n),
                 codes |-> <<>>, emitted |-> <<>>]
           k == Dispatch(h).conn
<1>4. Handled(h) /\ h.conn.sock = c
  BY <1>1, <1>2 DEF Handled
<1>5. conns' = [conns EXCEPT ![id] = k]
  BY <1>3
<1>6. IsConnection(k) /\ k.sock = c
  <2> HIDE DEF h
  <2> QED BY <1>4, DispatchKeeps DEF SameSocket, Handled
<1> HIDE DEF h, k
<1>7. PICK S : conns \in Seq(S)
  BY DEF IInv, ConnsInv
<1>8. conns \in Seq(S \cup {k}) /\ k \in S \cup {k}
  BY <1>7
<1>9. /\ conns' \in Seq(S \cup {k}) /\ DOMAIN conns' = DOMAIN conns
      /\ conns'[id] = k /\ \A i \in DOMAIN conns : i # id => conns'[i] = conns[i]
  BY <1>1, <1>5, <1>8, ExceptSeq
<1> HIDE DEF id
<1>10. ConnsInv'
  BY <1>6, <1>9 DEF IInv, ConnsInv
<1>11. k # NoConn
  BY <1>6, NewConnection
<1>12. \A d \in Clients : Slots(d)' = Slots(d)
  BY <1>1, <1>6, <1>9, <1>11 DEF Slots
<1>13. UNCHANGED <<link, mapped>>
  BY DEF ReadyReadData
<1>14. SlotInv'
  BY <1>12, <1>13 DEF IInv, SlotInv
<1> QED BY <1>10, <1>14 DEF IInv

\* The garbage collection takes the sockets that are not open, and only them.
LEMMA GarbageKeeps ==
  ASSUME IInv, GarbageData
  PROVE  IInv'
<1> DEFINE gone == {conns[i].sock: i \in {j \in DOMAIN conns: Dead(conns[j])}}
<1>1. /\ conns' = [i \in DOMAIN conns |-> IF Dead(conns[i]) THEN NoConn ELSE conns[i]]
      /\ mapped' = [c \in Clients |-> IF c \in gone THEN -1 ELSE mapped[c]]
      /\ link' = [c \in Clients |-> IF c \in gone THEN "none" ELSE link[c]]
  BY DEF GarbageData
<1>2. PICK S : conns \in Seq(S)
  BY DEF IInv, ConnsInv
<1>3. \A c \in Clients : c \in gone <=> Slots(c) # {} /\ link[c] # "open"
  BY DEF Dead, Slots
<1>4. \A c \in Clients : c \in gone <=> link[c] = "closed"
  BY <1>3 DEF IInv, SlotInv
<1> HIDE DEF gone
<1>5. \E U : conns' \in Seq(U)
  <2> DEFINE U == S \cup {NoConn}
  <2>1. conns' \in [1 .. Len(conns) -> U] /\ Len(conns) \in Nat
    BY <1>1, <1>2
  <2>2. conns' \in Seq(U)
    BY <2>1, SeqDef
  <2> QED BY <2>2
<1>6. ConnsInv'
  BY <1>1, <1>5 DEF IInv, ConnsInv
<1>7. \A c \in Clients : Slots(c)' = IF link[c] = "open" THEN Slots(c) ELSE {}
  BY <1>1 DEF Slots, Dead
<1>8. SlotInv'
  BY <1>1, <1>4, <1>7 DEF IInv, SlotInv
<1> QED BY <1>6, <1>8 DEF IInv

\* The end of the program leaves no socket and no slot.
LEMMA EndKeeps ==
  ASSUME IInv, NEW c \in Clients, ReadyReadDataEnds(c)
  PROVE  IInv'
<1>1. /\ conns' = <<>> /\ mapped' = [d \in Clients |-> -1]
      /\ link' = [d \in Clients |-> "none"]
  BY DEF ReadyReadDataEnds
<1>2. ConnsInv' /\ \A d \in Clients : Slots(d)' = {}
  BY <1>1, EmptySeq DEF ConnsInv, Slots
<1>3. SlotInv'
  BY <1>1, <1>2 DEF SlotInv
<1> QED BY <1>2, <1>3 DEF IInv

\* The invariant holds.
LEMMA Invariance == Spec => []IInv
<1>1. Init => IInv
  BY EmptySeq DEF Init, IInv, ConnsInv, SlotInv, Slots
<1>2. ASSUME IInv, [Next]_vars PROVE IInv'
  <2>1. ASSUME NEW c \in Clients, Open(c) \/ DisconnectedData(c) PROVE IInv'
    <3>1. UNCHANGED <<conns, mapped>>
      BY <2>1 DEF Open, DisconnectedData
    <3>2. ConnsInv' /\ \A d \in Clients : Slots(d)' = Slots(d)
      BY <1>2, <3>1 DEF IInv, ConnsInv, Slots
    <3>3. SlotInv'
      BY <1>2, <2>1, <3>1, <3>2 DEF IInv, SlotInv, Open, DisconnectedData
    <3> QED BY <3>2, <3>3 DEF IInv
  <2>2. CASE UNCHANGED vars
    BY <1>2, <2>2 DEF vars, IInv, ConnsInv, SlotInv, Slots
  <2> QED BY <1>2, <2>1, <2>2, NewConnectionKeeps, ReadyReadKeeps, EndKeeps, GarbageKeeps
     DEF Next
<1> QED BY <1>1, <1>2, PTL DEF Spec

(***************************************************************************)
(* However connections come, go and take the slots of others, the signal   *)
(* of an open socket is handled by the connection that owns it, and no     *)
(* other slot holds that socket.                                           *)
(***************************************************************************)
THEOREM ReachTheirOwner == Spec => []SignalsReachTheirOwner
<1>1. ASSUME IInv PROVE SignalsReachTheirOwner
  BY <1>1 DEF IInv, SlotInv, Slots, SignalsReachTheirOwner
<1> QED BY <1>1, Invariance, PTL

-----------------------------------------------------------------------------
(* Parts of a sequence: from after piece i up to piece j.                  *)
LEMMA Parts ==
  ASSUME NEW S, NEW s \in Seq(S), NEW i \in Nat, NEW j \in Nat, i <= j, j <= Len(s)
  PROVE  /\ SubSeq(s, i + 1, j) \in Seq(S) /\ Len(SubSeq(s, i + 1, j)) = j - i
         /\ DOMAIN SubSeq(s, i + 1, j) = 1 .. (j - i)
         /\ \A k \in 1 .. (j - i) : SubSeq(s, i + 1, j)[k] = s[i + k]
<1>1. \A k \in (i + 1) .. j : s[k] \in S
  BY ElementOfSeq
<1>2. /\ SubSeq(s, i + 1, j) \in Seq(S)
      /\ Len(SubSeq(s, i + 1, j)) = IF i + 1 <= j THEN (j - (i + 1)) + 1 ELSE 0
      /\ \A k \in 1 .. ((j - (i + 1)) + 1) : SubSeq(s, i + 1, j)[k] = s[((i + 1) + k) - 1]
  BY <1>1, SubSeqProperties
<1>3. (j - (i + 1)) + 1 = j - i /\ \A k \in 1 .. (j - i) : ((i + 1) + k) - 1 = i + k
  OBVIOUS
<1>4. Len(SubSeq(s, i + 1, j)) = j - i
  BY <1>2
<1> QED BY <1>2, <1>3, <1>4, LenProperties

(* A part of a part, from its start and to its end.                        *)
LEMMA PartOfPart ==
  ASSUME NEW S, NEW s \in Seq(S), NEW i \in Nat, NEW j \in Nat, NEW k \in Nat,
         i <= k, k <= j, j <= Len(s)
  PROVE  /\ SubSeq(SubSeq(s, i + 1, j), 1, k - i) = SubSeq(s, i + 1, k)
         /\ SubSeq(SubSeq(s, i + 1, j), (k - i) + 1, j - i) = SubSeq(s, k + 1, j)
         /\ SubSeq(s, i + 1, k) \o SubSeq(s, k + 1, j) = SubSeq(s, i + 1, j)
<1> DEFINE p == SubSeq(s, i + 1, j)
<1>1. p \in Seq(S) /\ Len(p) = j - i /\ \A l \in 1 .. (j - i) : p[l] = s[i + l]
  BY Parts
<1>2. /\ SubSeq(s, i + 1, k) \in Seq(S) /\ Len(SubSeq(s, i + 1, k)) = k - i
      /\ \A l \in 1 .. (k - i) : SubSeq(s, i + 1, k)[l] = s[i + l]
  <2>1. k <= Len(s)
    BY LenProperties
  <2> QED BY <2>1, Parts
<1>3. /\ SubSeq(s, k + 1, j) \in Seq(S) /\ Len(SubSeq(s, k + 1, j)) = j - k
      /\ \A l \in 1 .. (j - k) : SubSeq(s, k + 1, j)[l] = s[k + l]
  BY Parts
<1> HIDE DEF p
<1>4. /\ SubSeq(p, 0 + 1, k - i) \in Seq(S) /\ Len(SubSeq(p, 0 + 1, k - i)) = (k - i) - 0
      /\ \A l \in 1 .. ((k - i) - 0) : SubSeq(p, 0 + 1, k - i)[l] = p[0 + l]
  <2>1. k - i \in Nat /\ 0 <= k - i /\ k - i <= Len(p) /\ 0 \in Nat
    BY <1>1
  <2> QED BY <1>1, <2>1, Parts
<1>5. /\ SubSeq(p, (k - i) + 1, j - i) \in Seq(S)
      /\ Len(SubSeq(p, (k - i) + 1, j - i)) = (j - i) - (k - i)
      /\ \A l \in 1 .. ((j - i) - (k - i)) :
           SubSeq(p, (k - i) + 1, j - i)[l] = p[(k - i) + l]
  <2>1. k - i \in Nat /\ j - i \in Nat /\ k - i <= j - i /\ j - i <= Len(p)
    BY <1>1
  <2> QED BY <1>1, <2>1, Parts
<1>6. SubSeq(p, 1, k - i) = SubSeq(s, i + 1, k)
  <2>1. 0 + 1 = 1 /\ (k - i) - 0 = k - i /\ \A l \in 1 .. (k - i) : 0 + l = l /\ l \in 1 .. (j - i)
    OBVIOUS
  <2>2. \A l \in 1 .. (k - i) : SubSeq(p, 1, k - i)[l] = SubSeq(s, i + 1, k)[l]
    BY <1>1, <1>2, <1>4, <2>1
  <2> QED BY <1>2, <1>4, <2>1, <2>2, SeqEqual
<1>7. SubSeq(p, (k - i) + 1, j - i) = SubSeq(s, k + 1, j)
  <2>1. /\ (j - i) - (k - i) = j - k
        /\ \A l \in 1 .. (j - k) : (k - i) + l \in 1 .. (j - i) /\ i + ((k - i) + l) = k + l
    OBVIOUS
  <2>2. \A l \in 1 .. (j - k) :
          SubSeq(p, (k - i) + 1, j - i)[l] = SubSeq(s, k + 1, j)[l]
    BY <1>1, <1>3, <1>5, <2>1
  <2> QED BY <1>3, <1>5, <2>1, <2>2, SeqEqual
<1>8. SubSeq(s, i + 1, k) \o SubSeq(s, k + 1, j) = p
  <2>1. i + 1 \in 1 .. (Len(s) + 1) /\ k \in ((i + 1) - 1) .. Len(s) /\ j \in k .. Len(s)
    BY LenProperties
  <2> QED BY <2>1, ConcatAdjacentSubSeq DEF p
<1> QED BY <1>6, <1>7, <1>8 DEF p

-----------------------------------------------------------------------------
(* What a proper request says, b being where its headers end.              *)
EndOf(s) == CHOOSE b \in DOMAIN s : s[b] = Blank

Shape(s, b) ==
  /\ Len(s) \in Nat /\ b \in Nat /\ 1 < b /\ b <= Len(s)
  /\ \A i \in Nat : 0 < i /\ i < b =>
       IsLine(s[i]) /\ s[i].kind # "blank" /\ ~Malformed(s[i])
  /\ IsLine(s[b]) /\ s[b].kind = "blank" /\ ~Malformed(s[b])
  /\ \A i \in Nat : b < i /\ i <= Len(s) => ~IsLine(s[i])
  /\ \A i \in Nat : 1 < i /\ i < b /\ s[i].kind = "length" => s[i].n = Len(s) - b
  /\ (\A i \in Nat : 1 < i /\ i < b => s[i].kind # "length") => Len(s) = b

First(s, b) ==
  /\ s[1].kind = "request" /\ s[1].form /\ s[1].method \in Implemented
  /\ s[1].major = 1 /\ s[1].minor \in {0, 1} /\ s[1].uri \in Uris
  /\ s[1].method = "GET" => Len(s) = b
  /\ s[1].minor = 1 => \E i \in Nat : 1 < i /\ i < b /\ s[i].kind = "host"

\* A line of text that is a request has a URI.
LEMMA RequestUri ==
  ASSUME NEW p \in Pieces, p.kind = "request"
  PROVE  p.uri \in Uris
  BY DEF Pieces

\* A script that is proper has this shape.
LEMMA ProperShape ==
  ASSUME NEW s \in Seq(Pieces), Proper(s)
  PROVE  Shape(s, EndOf(s)) /\ First(s, EndOf(s))
<1>1. Len(s) \in Nat /\ DOMAIN s = 1 .. Len(s) /\ \A i \in 1 .. Len(s) : s[i] \in Pieces
  BY LenProperties, ElementOfSeq
<1>2. PICK b \in 1 .. Len(s) :
        LET Announced == {s[i].n : i \in {j \in 2 .. (b - 1) : s[j].kind = "length"}} IN
        /\ s[b] = Blank
        /\ \A i \in 2 .. (b - 1) : s[i] \in {Host(TRUE), Other, Length(Len(s) - b)}
        /\ \A i \in (b + 1) .. Len(s) : s[i].kind = "half"
        /\ Announced = {Len(s) - b} \/ (Announced = {} /\ Len(s) = b)
        /\ s[1].method = "GET" => Len(s) = b
        /\ s[1].minor = 1 => \E i \in 2 .. (b - 1) : s[i] = Host(TRUE)
  BY <1>1 DEF Proper
<1>3. /\ s[1].kind = "request" /\ s[1].form /\ s[1].method \in Implemented
      /\ s[1].major = 1 /\ s[1].minor \in {0, 1}
  BY DEF Proper
<1>4. \A l \in Int : /\ Length(l).kind = "length" /\ Length(l).n = l
  BY DEF Length
<1>5. /\ Host(TRUE).kind = "host" /\ Host(TRUE).ok /\ Other.kind = "header"
      /\ Blank.kind = "blank"
  BY DEF Host, Other, Blank
<1>6. b # 1
  BY <1>2, <1>3, <1>5
<1>7. ASSUME NEW i \in Nat, 1 < i, i < b
      PROVE  /\ s[i].kind \in {"host", "header", "length"} /\ ~Malformed(s[i])
             /\ s[i].kind = "length" => s[i].n = Len(s) - b
  <2>1. i \in 2 .. (b - 1) /\ Len(s) - b \in Nat
    BY <1>1, <1>7
  <2>2. s[i] \in {Host(TRUE), Other, Length(Len(s) - b)}
    BY <1>2, <2>1
  <2>3. CASE s[i] = Length(Len(s) - b)
    <3>1. s[i].kind = "length" /\ s[i].n = Len(s) - b /\ ~(s[i].n < 0)
      BY <1>4, <2>1, <2>3
    <3> QED BY <3>1 DEF Malformed
  <2>4. CASE s[i] = Host(TRUE)
    BY <1>5, <2>4 DEF Malformed
  <2>5. CASE s[i] = Other
    BY <1>5, <2>5 DEF Malformed
  <2> QED BY <2>2, <2>3, <2>4, <2>5
<1>8. \A i \in Nat : b < i /\ i <= Len(s) => s[i].kind = "half"
  <2>1. \A i \in (b + 1) .. Len(s) : s[i].kind = "half"
    BY <1>2
  <2>2. \A i \in Nat : b < i /\ i <= Len(s) => i \in (b + 1) .. Len(s)
    BY <1>1
  <2> QED BY <2>1, <2>2
<1>9. EndOf(s) = b
  <2>1. \A i \in DOMAIN s : s[i] = Blank => i = b
    <3>1. ASSUME NEW i \in 1 .. Len(s), i # b
          PROVE  s[i].kind # "blank"
      <4>1. i \in Nat /\ (i = 1 \/ (1 < i /\ i < b) \/ (b < i /\ i <= Len(s)))
        BY <1>1, <3>1
      <4> QED BY <1>3, <1>7, <1>8, <4>1
    <3> QED BY <1>1, <1>5, <3>1
  <2>2. b \in DOMAIN s /\ s[b] = Blank
    BY <1>1, <1>2
  <2> QED BY <2>1, <2>2 DEF EndOf
<1>10. (\A i \in Nat : 1 < i /\ i < b => s[i].kind # "length") => Len(s) = b
  <2> SUFFICES ASSUME \A i \in Nat : 1 < i /\ i < b => s[i].kind # "length"
               PROVE  Len(s) = b
    OBVIOUS
  <2>1. {j \in 2 .. (b - 1) : s[j].kind = "length"} = {}
    BY <1>1
  <2> QED BY <1>2, <2>1
<1>11. Shape(s, b)
  <2>1. 1 < b /\ b <= Len(s) /\ b \in Nat
    BY <1>1, <1>6
  <2>2. \A i \in Nat : 0 < i /\ i < b =>
          IsLine(s[i]) /\ s[i].kind # "blank" /\ ~Malformed(s[i])
    <3>1. ASSUME NEW i \in Nat, 0 < i, i < b
          PROVE  IsLine(s[i]) /\ s[i].kind # "blank" /\ ~Malformed(s[i])
      <4>1. CASE i = 1
        BY <1>3, <4>1 DEF IsLine, Malformed
      <4>2. CASE i # 1
        BY <1>7, <3>1, <4>2 DEF IsLine
      <4> QED BY <4>1, <4>2
    <3> QED BY <3>1
  <2>3. IsLine(s[b]) /\ s[b].kind = "blank" /\ ~Malformed(s[b])
    BY <1>2, <1>5 DEF IsLine, Malformed
  <2>4. \A i \in Nat : b < i /\ i <= Len(s) => ~IsLine(s[i])
    BY <1>8 DEF IsLine
  <2> QED BY <1>1, <1>7, <1>10, <2>1, <2>2, <2>3, <2>4 DEF Shape
<1>12. First(s, b)
  <2>1. s[1].uri \in Uris
    <3>1. 1 \in 1 .. Len(s)
      BY <1>1
    <3>2. s[1] \in Pieces
      BY <1>1, <3>1
    <3> QED BY <1>3, <3>2, RequestUri
  <2>2. s[1].minor = 1 => \E i \in Nat : 1 < i /\ i < b /\ s[i].kind = "host"
    <3> SUFFICES ASSUME s[1].minor = 1
                 PROVE  \E i \in Nat : 1 < i /\ i < b /\ s[i].kind = "host"
      OBVIOUS
    <3>1. PICK i \in 2 .. (b - 1) : s[i] = Host(TRUE)
      BY <1>2
    <3>2. i \in Nat /\ 1 < i /\ i < b
      BY <1>1
    <3> QED BY <1>5, <3>1, <3>2
  <2> QED BY <1>2, <1>3, <2>1, <2>2 DEF First
<1> QED BY <1>9, <1>11, <1>12

-----------------------------------------------------------------------------
(* How far a connection is with a proper script of which it has read w     *)
(* pieces: nothing is left unread between two segments.                    *)
Answer(s, w) == IF w = Len(s) THEN <<Deserves(s)>> ELSE <<>>

\* The URI of a connection: none at first.
Named == Uris \cup {NoUri}

Conn == [sock : Clients, state : {"method", "headers", "body"},
         method : Implemented \cup {"None"}, uri : Named, minor : Int,
         host : BOOLEAN, length : Int, body : Seq(Pieces)]

Handler == [conn : Conn, buf : Seq(Pieces), codes : Seq(Nat), emitted : Seq(Named)]

Said(s, w, kind) == \E i \in Nat : 1 < i /\ i <= w /\ s[i].kind = kind

\* The request line and w pieces have been read.
HeadersRead(k, s, w) ==
  /\ k.method = s[1].method /\ k.uri = s[1].uri /\ k.minor = s[1].minor
  /\ k.host = Said(s, w, "host")
  /\ k.length = IF Said(s, w, "length") THEN Len(s) - EndOf(s) ELSE 0
  /\ k.body = <<>>

\* The headers have been read, and of the body what is among w pieces.
BodyPartRead(k, s, w) ==
  /\ k.method = s[1].method /\ k.uri = s[1].uri
  /\ k.length = Len(s) - EndOf(s) /\ k.body = SubSeq(s, EndOf(s) + 1, w)

At(k, s, w) ==
  \/ w = 0 /\ k = Connection(k.sock)
  \/ 0 < w /\ w < EndOf(s) /\ k.state = "headers" /\ HeadersRead(k, s, w)
  \/ EndOf(s) <= w /\ w < Len(s) /\ k.state = "body" /\ BodyPartRead(k, s, w)
  \/ w = Len(s)

\* A handler whose connection has read the first w pieces, and has the next
\* up to v in its buffer; one that has read, and answered if that was all.
Fresh(h) == h.codes = <<>> /\ h.emitted = <<>>
Due(h, s, w, v) == Fresh(h) /\ h.buf = SubSeq(s, w + 1, v)
Treated(h, s, v) ==
  /\ h \in Handler /\ At(h.conn, s, v) /\ h.buf = <<>>
  /\ h.codes = Answer(s, v)
  /\ Len(h.emitted) = IF Answer(s, v) = <<200>> THEN 1 ELSE 0

\* The answer is one code; a title update comes with 200.
Answered(g, h, code) ==
  /\ g \in Handler /\ g.conn = h.conn /\ g.buf = h.buf /\ g.codes = <<code>>
  /\ Len(g.emitted) = IF code = 200 THEN 1 ELSE 0

\* An answer without an update.
LEMMA SendAnswers ==
  ASSUME NEW h \in Handler, Fresh(h), NEW code \in Nat, code # 200
  PROVE  Answered(Send(h, code), h, code)
<1>1. Append(h.codes, code) \in Seq(Nat) /\ Append(h.codes, code) = <<code>>
  BY DEF Handler, Fresh
<1>2. Send(h, code) = [h EXCEPT !.codes = Append(h.codes, code)]
  BY DEF Send, Handler
<1>3. Len(h.emitted) = 0
  BY DEF Fresh
<1> DEFINE g == [h EXCEPT !.codes = Append(h.codes, code)]
<1>4. /\ g \in Handler /\ g.conn = h.conn /\ g.buf = h.buf /\ g.codes = <<code>>
      /\ g.emitted = h.emitted
  BY <1>1 DEF Handler, Fresh
<1> QED BY <1>2, <1>3, <1>4 DEF Answered

\* An answer with one.
LEMMA UpdateAnswers ==
  ASSUME NEW h \in Handler, Fresh(h)
  PROVE  Answered(Update(h), h, 200)
<1>1. Append(h.codes, 200) \in Seq(Nat) /\ Append(h.codes, 200) = <<200>>
  BY DEF Handler, Fresh
<1>2. h.conn.uri \in Named
  BY DEF Handler, Conn
<1>3. Append(h.emitted, h.conn.uri) \in Seq(Named) /\ Len(Append(h.emitted, h.conn.uri)) = 1
  BY <1>2 DEF Handler, Fresh
<1>4. Update(h) = [h EXCEPT !.codes = Append(h.codes, 200),
                            !.emitted = Append(h.emitted, h.conn.uri)]
  BY DEF Update, Send, Handler
<1> DEFINE g == [h EXCEPT !.codes = Append(h.codes, 200),
                          !.emitted = Append(h.emitted, h.conn.uri)]
<1>5. /\ g \in Handler /\ g.conn = h.conn /\ g.buf = h.buf
      /\ g.codes = Append(h.codes, 200) /\ g.emitted = Append(h.emitted, h.conn.uri)
  BY <1>1, <1>3 DEF Handler
<1>6. Update(h) = g
  BY <1>4
<1> HIDE DEF g
<1> QED BY <1>1, <1>3, <1>5, <1>6 DEF Answered

(* The complete request is given to the page it names, and gets the answer *)
(* it deserves.                                                            *)
LEMMA RequestAnswered ==
  ASSUME NEW s \in Seq(Pieces), First(s, EndOf(s)), NEW h \in Handler, Fresh(h),
         h.conn.method = s[1].method, h.conn.uri = s[1].uri, h.conn.body = Body(s)
  PROVE  Answered(ProcessRequest(h), h, Deserves(s))
<1> DEFINE u == s[1].uri
<1>1. Answered(Update(h), h, 200)
  BY UpdateAnswers
<1>2. \A code \in Nat : code # 200 => Answered(Send(h, code), h, code)
  BY SendAnswers
<1>3. u.pass \in BOOLEAN /\ u.mode \in BOOLEAN
  BY DEF First, Uris
<1>4. CASE s[1].method = "HEAD"
  <2>1. Deserves(s) = 404 /\ ProcessRequest(h) = Send(h, 404)
    BY <1>4 DEF Deserves, ProcessRequest, RequestReceived
  <2> QED BY <1>2, <2>1
<1>5. CASE s[1].method = "POST"
  <2>1. ProcessRequest(h) = PostRequestReceived(h)
    BY <1>5 DEF ProcessRequest, RequestReceived
  <2>2. CASE u.path # "/json_pad"
    <3>1. Deserves(s) = 404 /\ PostRequestReceived(h) = Send(h, 404)
      BY <1>5, <2>2 DEF Deserves, PostRequestReceived
    <3> QED BY <1>2, <2>1, <3>1
  <2>3. CASE u.path = "/json_pad" /\ IsUpdateObject(Body(s))
    <3>1. ~IsEmptyObject(Body(s))
      BY <2>3 DEF IsUpdateObject, IsEmptyObject, Half
    <3>2. Deserves(s) = 200 /\ PostRequestReceived(h) = Update(h)
      BY <1>5, <2>3, <3>1 DEF Deserves, PostRequestReceived
    <3> QED BY <1>1, <2>1, <3>2
  <2>4. CASE /\ u.path = "/json_pad" /\ ~IsUpdateObject(Body(s))
             /\ IsEmptyObject(Body(s))
    <3>1. Deserves(s) = Ends /\ PostRequestReceived(h) = Send(h, Ends)
      BY <1>5, <2>4 DEF Deserves, PostRequestReceived
    <3>2. Ends \in Nat /\ Ends # 200
      BY DEF Ends
    <3> QED BY <1>2, <2>1, <3>1, <3>2
  <2>5. CASE /\ u.path = "/json_pad" /\ ~IsUpdateObject(Body(s))
             /\ ~IsEmptyObject(Body(s))
    <3>1. Deserves(s) = 400 /\ PostRequestReceived(h) = Send(h, 400)
      BY <1>5, <2>5 DEF Deserves, PostRequestReceived
    <3> QED BY <1>2, <2>1, <3>1
  <2> QED BY <2>2, <2>3, <2>4, <2>5
<1>6. CASE s[1].method = "GET"
  <2>1. ProcessRequest(h) = GetRequestReceived(h)
    BY <1>6 DEF ProcessRequest, RequestReceived
  <2>2. CASE u.path = "/admin.cgi" /\ u.pass /\ u.mode
    <3>1. Deserves(s) = 200 /\ GetRequestReceived(h) = Update(h)
      BY <1>6, <2>2 DEF Deserves, GetRequestReceived
    <3> QED BY <1>1, <2>1, <3>1
  <2>3. CASE u.path = "/admin.cgi" /\ ~(u.pass /\ u.mode)
    <3>1. Deserves(s) = 403 /\ GetRequestReceived(h) = Send(h, 403)
      BY <1>6, <2>3 DEF Deserves, GetRequestReceived
    <3> QED BY <1>2, <2>1, <3>1
  <2>4. CASE u.path = "/admin/metadata" /\ u.mode
    <3>1. Deserves(s) = 200 /\ GetRequestReceived(h) = Update(h)
      BY <1>6, <2>4 DEF Deserves, GetRequestReceived
    <3> QED BY <1>1, <2>1, <3>1
  <2>5. CASE u.path = "/admin/metadata" /\ ~u.mode
    <3>1. Deserves(s) = 403 /\ GetRequestReceived(h) = Send(h, 403)
      BY <1>6, <2>5 DEF Deserves, GetRequestReceived
    <3> QED BY <1>2, <2>1, <3>1
  <2>6. CASE u.path # "/admin.cgi" /\ u.path # "/admin/metadata"
    <3>1. Deserves(s) = 404 /\ GetRequestReceived(h) = Send(h, 404)
      BY <1>6, <2>6 DEF Deserves, GetRequestReceived
    <3> QED BY <1>2, <2>1, <3>1
  <2> QED BY <2>2, <2>3, <2>4, <2>5, <2>6
<1> QED BY <1>4, <1>5, <1>6 DEF First, Implemented

(* ReadBody() takes all that has come, and the last piece brings the       *)
(* answer.                                                                 *)
LEMMA BodyTreated ==
  ASSUME NEW s \in Seq(Pieces), Shape(s, EndOf(s)), First(s, EndOf(s)),
         NEW h \in Handler, NEW w \in Nat, NEW v \in Nat, Due(h, s, w, v),
         EndOf(s) <= w, w <= v, v <= Len(s),
         h.conn.state = "body", BodyPartRead(h.conn, s, w)
  PROVE  Treated(ReadBody(h), s, v)
<1> DEFINE b == EndOf(s)
           want == h.conn.length - Len(h.conn.body)
           n    == IF want < Len(h.buf) THEN want ELSE Len(h.buf)
           body == h.conn.body \o SubSeq(h.buf, 1, n)
           h2   == [h EXCEPT !.conn.body = body,
                             !.buf = SubSeq(h.buf, n + 1, Len(h.buf))]
<1>1. ReadBody(h) = IF Len(body) = h.conn.length THEN ProcessRequest(h2) ELSE h2
  BY DEF ReadBody
<1>2. /\ Fresh(h) /\ h.buf = SubSeq(s, w + 1, v) /\ h.conn.length = Len(s) - b
      /\ h.conn.body = SubSeq(s, b + 1, w)
      /\ h.conn.method = s[1].method /\ h.conn.uri = s[1].uri
  BY DEF Due, BodyPartRead
<1>3. Len(s) \in Nat /\ b \in Nat /\ 1 < b /\ b <= Len(s)
  BY DEF Shape
<1>4. /\ Len(h.buf) = v - w /\ SubSeq(h.buf, 1, v - w) = h.buf
      /\ SubSeq(h.buf, (v - w) + 1, v - w) = <<>>
  <2>1. h.buf \in Seq(Pieces) /\ Len(h.buf) = v - w
    BY <1>2, <1>3, Parts
  <2> QED BY <2>1, SubSeqFull, SubSeqEmpty
<1>5. Len(h.conn.body) = w - b
  <2>1. w <= Len(s)
    BY <1>3
  <2> QED BY <1>2, <1>3, <2>1, Parts
<1>6. n = v - w
  BY <1>2, <1>3, <1>4, <1>5
<1>7. body = SubSeq(s, b + 1, v) /\ body \in Seq(Pieces) /\ Len(body) = v - b
  <2>1. body = SubSeq(s, b + 1, w) \o SubSeq(s, w + 1, v)
    BY <1>2, <1>4, <1>6
  <2>2. b <= v
    BY <1>3
  <2>3. SubSeq(s, b + 1, w) \o SubSeq(s, w + 1, v) = SubSeq(s, b + 1, v)
    <3>1. b \in Nat /\ b <= w
      BY <1>3
    <3> HIDE DEF b
    <3> QED BY ONLY <3>1, PartOfPart, s \in Seq(Pieces), w \in Nat, v \in Nat,
              w <= v, v <= Len(s)
  <2>4. SubSeq(s, b + 1, v) \in Seq(Pieces) /\ Len(SubSeq(s, b + 1, v)) = v - b
    BY <1>3, <2>2, Parts
  <2> HIDE DEF body
  <2> QED BY <2>1, <2>3, <2>4
<1> HIDE DEF body, n
<1>8. h2 = [h EXCEPT !.conn.body = body, !.buf = <<>>]
  BY <1>4, <1>6
<1> HIDE DEF h2
<1>9. /\ h2 \in Handler /\ Fresh(h2) /\ h2.buf = <<>>
      /\ h2.conn = [h.conn EXCEPT !.body = body]
  <2> DEFINE k == [h.conn EXCEPT !.body = body]
  <2>1. k \in Conn
    BY <1>7 DEF Handler, Conn
  <2>2. h2 = [h EXCEPT !.conn = k, !.buf = <<>>]
    BY <1>8 DEF Handler
  <2>3. <<>> \in Seq(Pieces)
    BY EmptySeq
  <2> HIDE DEF k
  <2>4. h2 \in Handler /\ h2.conn = k /\ h2.buf = <<>>
        /\ h2.codes = h.codes /\ h2.emitted = h.emitted
    BY <2>1, <2>2, <2>3 DEF Handler
  <2> QED BY <1>2, <2>4 DEF Fresh, k
<1>10. /\ h2.conn.state = "body" /\ h2.conn.length = Len(s) - b
       /\ h2.conn.method = s[1].method /\ h2.conn.uri = s[1].uri
       /\ h2.conn.body = body
  BY <1>2, <1>9 DEF Handler, Conn
<1>11. CASE v = Len(s)
  <2>1. ReadBody(h) = ProcessRequest(h2)
    BY <1>1, <1>2, <1>7, <1>11
  <2>2. body = Body(s)
    BY <1>7, <1>11 DEF Body, EndOf
  <2>3. Answered(ProcessRequest(h2), h2, Deserves(s))
    BY <1>9, <1>10, <2>2, RequestAnswered
  <2>4. Answer(s, v) = <<Deserves(s)>>
    BY <1>11 DEF Answer
  <2>5. <<Deserves(s)>> = <<200>> <=> Deserves(s) = 200
    OBVIOUS
  <2> QED BY <1>9, <1>11, <2>1, <2>3, <2>4, <2>5 DEF Answered, Treated, At
<1>12. CASE v # Len(s)
  <2>1. ReadBody(h) = h2
    <3>1. v - b # Len(s) - b
      BY <1>3, <1>12
    <3> QED BY <1>1, <1>2, <1>7, <3>1
  <2>2. Answer(s, v) = <<>> /\ Answer(s, v) # <<200>>
    BY <1>12 DEF Answer
  <2>3. b <= v /\ v < Len(s)
    BY <1>3, <1>12
  <2>4. At(h2.conn, s, v)
    BY <1>7, <1>10, <2>3 DEF At, BodyPartRead
  <2>5. Len(h2.emitted) = 0 /\ h2.codes = <<>>
    BY <1>9 DEF Fresh
  <2> QED BY <1>9, <2>1, <2>2, <2>4, <2>5 DEF Treated
<1> QED BY <1>11, <1>12

(* The empty line is reached: the host is known when it has to be, a GET   *)
(* is answered, another method reads its body.                             *)
LEMMA EndTreated ==
  ASSUME NEW s \in Seq(Pieces), Shape(s, EndOf(s)), First(s, EndOf(s)),
         NEW h \in Handler, NEW v \in Nat, Due(h, s, EndOf(s), v),
         EndOf(s) <= v, v <= Len(s),
         HeadersRead(h.conn, s, EndOf(s))
  PROVE  Treated(EndOfHeaders(h), s, v)
<1> DEFINE b == EndOf(s)
           g == [h EXCEPT !.conn.state = "body"]
<1>1. Len(s) \in Nat /\ b \in Nat /\ 1 < b /\ b <= Len(s)
  BY DEF Shape
<1>2. h.conn.length = Len(s) - b
  <2>1. CASE Said(s, b, "length")
    BY <2>1 DEF HeadersRead
  <2>2. CASE ~Said(s, b, "length")
    <3>1. \A i \in Nat : 1 < i /\ i < b => s[i].kind # "length"
      BY <1>1, <2>2 DEF Said
    <3>2. Len(s) = b
      BY <3>1 DEF Shape
    <3>3. h.conn.length = 0
      BY <2>2 DEF HeadersRead
    <3> QED BY <1>1, <3>2, <3>3
  <2> QED BY <2>1, <2>2
<1>3. ~(h.conn.minor = 1 /\ ~h.conn.host)
  <2>1. s[1].minor = 1 => Said(s, b, "host")
    BY <1>1 DEF First, Said
  <2> QED BY <2>1 DEF HeadersRead
<1>4. h.conn.body = SubSeq(s, b + 1, b)
  BY <1>1, SubSeqEmpty DEF HeadersRead
<1>5. h.conn.method = s[1].method /\ h.conn.uri = s[1].uri
  BY DEF HeadersRead
<1>6. CASE s[1].method = "GET"
  <2>1. EndOfHeaders(h) = ProcessRequest(h)
    BY <1>3, <1>5, <1>6 DEF EndOfHeaders
  <2>2. v = Len(s) /\ b = v
    BY <1>1, <1>6 DEF First
  <2>3. h.conn.body = Body(s)
    BY <1>4, <2>2 DEF Body, EndOf
  <2>4. Answered(ProcessRequest(h), h, Deserves(s))
    BY <1>5, <2>3, RequestAnswered DEF Due
  <2>5. Answer(s, v) = <<Deserves(s)>>
    BY <2>2 DEF Answer
  <2>6. <<Deserves(s)>> = <<200>> <=> Deserves(s) = 200
    OBVIOUS
  <2>7. h.buf = <<>>
    BY <1>1, <2>2, SubSeqEmpty DEF Due
  <2> QED BY <2>1, <2>2, <2>4, <2>5, <2>6, <2>7 DEF Answered, Treated, At
<1>7. CASE s[1].method # "GET"
  <2>1. EndOfHeaders(h) = ReadBody(g)
    BY <1>3, <1>5, <1>7 DEF EndOfHeaders
  <2>2. /\ g \in Handler /\ g.conn = [h.conn EXCEPT !.state = "body"]
        /\ g.buf = h.buf /\ g.codes = h.codes /\ g.emitted = h.emitted
    BY DEF Handler, Conn
  <2> HIDE DEF g
  <2>3. Due(g, s, b, v)
    BY <2>2 DEF Due, Fresh
  <2>4. g.conn.state = "body" /\ BodyPartRead(g.conn, s, b)
    BY <1>2, <1>4, <1>5, <2>2 DEF Handler, Conn, BodyPartRead
  <2>5. b <= b
    BY <1>1
  <2>6. Treated(ReadBody(g), s, v)
    <3> HIDE DEF b
    <3>1. b = EndOf(s)
      BY DEF b
    <3> QED BY ONLY <1>1, <2>2, <2>3, <2>4, <2>5, <3>1, BodyTreated, v \in Nat,
              s \in Seq(Pieces), Shape(s, EndOf(s)), First(s, EndOf(s)),
              EndOf(s) <= v, v <= Len(s)
  <2> QED BY <2>1, <2>6
<1> QED BY <1>6, <1>7

\* What is said up to a piece is said up to it or after it.
LEMMA SaidFurther ==
  ASSUME NEW s, NEW kind, NEW w \in Nat, NEW v \in Nat, 0 < w, w <= v
  PROVE  Said(s, v, kind) <=>
           Said(s, w, kind) \/ \E i \in Nat : w < i /\ i <= v /\ s[i].kind = kind
  BY DEF Said

\* The greatest number of a set below a bound.
LEMMA GreatestElement ==
  ASSUME NEW n \in Nat, NEW S \in SUBSET (1 .. n), S # {}
  PROVE  Max(S) \in S /\ \A i \in S : i <= Max(S)
<1> DEFINE T == {n - i : i \in S}
<1>1. T \in SUBSET Nat /\ T # {}
  <2>1. \A i \in S : i \in 1 .. n /\ n - i \in Nat
    OBVIOUS
  <2> QED BY <2>1
<1>2. PICK k \in T : \A j \in T : k <= j
  BY <1>1, LeastElement
<1>3. PICK i \in S : k = n - i
  BY <1>2
<1>4. \A j \in S : i >= j
  BY <1>2, <1>3
<1>5. Max(S) \in S /\ \A j \in S : Max(S) >= j
  BY <1>4 DEF Max
<1> QED BY <1>5

(* ReadHeaders() on lines of the headers and, when the empty line is among *)
(* what has come, on all that follows it.                                  *)
LEMMA HeadersTreated ==
  ASSUME NEW s \in Seq(Pieces), Shape(s, EndOf(s)), First(s, EndOf(s)),
         NEW h \in Handler, NEW w \in Nat, NEW v \in Nat, Due(h, s, w, v),
         0 < w, w < EndOf(s), w <= v, v <= Len(s),
         h.conn.state = "headers", HeadersRead(h.conn, s, w)
  PROVE  Treated(ReadHeaders(h), s, v)
<1> DEFINE b == EndOf(s)
           Whole(i) == IsLine(h.buf[i]) /\ (i > 1 => IsLine(h.buf[i - 1]))
           lines    == {i \in DOMAIN h.buf: Whole(i)}
           stops    == {i \in lines: h.buf[i].kind = "blank" \/ Malformed(h.buf[i])}
           ends     == {i \in DOMAIN h.buf: IsLine(h.buf[i])}
           last     == IF stops # {} THEN Min(stops)
                       ELSE IF ends # {} THEN Max(ends) ELSE 0
           good     == {i \in lines: i <= last /\ ~Malformed(h.buf[i])}
           lengths  == {i \in good: h.buf[i].kind = "length"}
           hosts    == {i \in good: h.buf[i].kind = "host"}
           len      == IF lengths = {} THEN h.conn.length ELSE h.buf[Max(lengths)].n
           g == [h EXCEPT
                   !.buf = SubSeq(h.buf, last + 1, Len(h.buf)),
                   !.conn.length = len,
                   !.conn.host = @ \/ hosts # {}]
           e == IF b <= v THEN b ELSE v
<1>1. ReadHeaders(h) = IF stops = {} THEN g
                       ELSE IF Malformed(h.buf[last]) THEN Send(g, 400)
                       ELSE EndOfHeaders(g)
  BY DEF ReadHeaders, Handler, Conn
<1>2. Len(s) \in Nat /\ b \in Nat /\ 1 < b /\ b <= Len(s)
  BY DEF Shape
<1>3. /\ h.buf \in Seq(Pieces) /\ Len(h.buf) = v - w /\ DOMAIN h.buf = 1 .. (v - w)
      /\ \A i \in 1 .. (v - w) : h.buf[i] = s[w + i]
  BY <1>2, Parts DEF Due
<1>4. /\ e \in Nat /\ w <= e /\ e <= v /\ e <= b
      /\ e - w \in Nat /\ (b <= v => e = b) /\ (~(b <= v) => e = v)
  BY <1>2
<1> HIDE DEF e
<1>5. /\ \A i \in 1 .. (v - w) : w + i \in Nat /\ 1 < w + i /\ w + i <= Len(s)
      /\ \A i \in 1 .. (e - w) :
           /\ i \in 1 .. (v - w) /\ i \in Nat /\ i <= e - w
           /\ w + i \in Nat /\ 0 < w + i /\ w + i <= e /\ w + i <= b
      /\ e - w # 0 => e - w \in 1 .. (e - w)
  <2>1. \A i \in 1 .. (v - w) : w + i \in Nat /\ 1 < w + i /\ w + i <= Len(s)
    BY <1>2
  <2>2. ASSUME NEW i \in 1 .. (e - w)
        PROVE  /\ i \in 1 .. (v - w) /\ i \in Nat /\ i <= e - w
               /\ w + i \in Nat /\ 0 < w + i /\ w + i <= e /\ w + i <= b
    BY <1>2, <1>4
  <2> QED BY <1>4, <2>1, <2>2
<1>6. \A i \in 1 .. (v - w) : IsLine(h.buf[i]) <=> i <= e - w
  <2>1. \A i \in Nat : 0 < i /\ i <= b => IsLine(s[i])
    BY <1>2 DEF Shape
  <2>2. \A i \in Nat : b < i /\ i <= Len(s) => ~IsLine(s[i])
    BY DEF Shape
  <2> SUFFICES ASSUME NEW i \in 1 .. (v - w)
               PROVE  IsLine(h.buf[i]) <=> i <= e - w
    OBVIOUS
  <2>3. CASE i <= e - w
    <3>1. w + i \in Nat /\ 0 < w + i /\ w + i <= b
      BY <1>2, <1>4, <1>5, <2>3
    <3> QED BY <1>3, <2>1, <2>3, <3>1
  <2>4. CASE ~(i <= e - w)
    <3>1. w + i \in Nat /\ b < w + i /\ w + i <= Len(s)
      BY <1>2, <1>4, <1>5, <2>4
    <3> QED BY <1>3, <2>2, <2>4, <3>1
  <2> QED BY <2>3, <2>4
<1>7. lines = 1 .. (e - w) /\ ends = 1 .. (e - w)
  <2>1. 1 .. (e - w) \subseteq 1 .. (v - w)
    BY <1>4
  <2>2. \A i \in 1 .. (e - w) : i > 1 => i - 1 \in 1 .. (v - w) /\ i - 1 <= e - w
    BY <1>4
  <2>3. \A i \in 1 .. (v - w) : i <= e - w => i \in 1 .. (e - w)
    BY <1>4
  <2>4. ends = 1 .. (e - w)
    BY <1>3, <1>6, <2>1, <2>3, <1>5
  <2>5. \A i \in 1 .. (v - w) : Whole(i) <=> i \in 1 .. (e - w)
    <3>1. ASSUME NEW i \in 1 .. (v - w), Whole(i)
          PROVE  i \in 1 .. (e - w)
      BY <1>6, <2>3, <3>1
    <3>2. ASSUME NEW i \in 1 .. (e - w)
          PROVE  Whole(i)
      BY <1>5, <1>6, <2>2
    <3> QED BY <3>1, <3>2
  <2>6. lines = 1 .. (e - w)
    BY <1>3, <2>1, <2>5
  <2> QED BY <2>4, <2>6
<1>8. \A i \in 1 .. (e - w) : /\ ~Malformed(h.buf[i])
                              /\ h.buf[i].kind = "blank" <=> w + i = b
  <2> SUFFICES ASSUME NEW i \in 1 .. (e - w)
               PROVE  ~Malformed(h.buf[i]) /\ (h.buf[i].kind = "blank" <=> w + i = b)
    OBVIOUS
  <2>1. i \in 1 .. (v - w) /\ w + i \in Nat /\ 0 < w + i /\ w + i <= b
    BY <1>5
  <2>2. CASE w + i = b
    BY <1>3, <2>1, <2>2 DEF Shape
  <2>3. CASE w + i # b
    <3>1. w + i < b
      BY <1>2, <2>1, <2>3
    <3> QED BY <1>3, <2>1, <2>3, <3>1 DEF Shape
  <2> QED BY <2>2, <2>3
<1>9. stops = {i \in 1 .. (e - w) : w + i = b}
  BY <1>7, <1>8
<1>10. last = e - w
  <2>1. CASE b <= v
    <3>1. e = b /\ e - w \in 1 .. (e - w) /\ w + (e - w) = b
      BY <1>2, <1>4, <2>1
    <3>2. stops = {e - w}
      <4>1. \A i \in 1 .. (e - w) : w + i = b => i = e - w
        BY <1>2, <1>4, <3>1
      <4> QED BY <1>9, <3>1, <4>1
    <3>3. Min({e - w}) = e - w
      BY <1>4 DEF Min
    <3> QED BY <3>2, <3>3
  <2>2. CASE ~(b <= v)
    <3>1. stops = {}
      <4>1. \A i \in 1 .. (e - w) : w + i # b
        BY <1>2, <1>4, <2>2
      <4> QED BY <1>9, <4>1
    <3>2. CASE e - w = 0
      <4>1. ends = {}
        BY <1>7, <3>2
      <4> QED BY <3>1, <3>2, <4>1
    <3>3. CASE e - w # 0
      <4>1. e - w \in 1 .. (e - w) /\ ends # {}
        BY <1>5, <1>7, <3>3
      <4>2. Max(ends) \in 1 .. (e - w) /\ e - w <= Max(ends)
        BY <1>4, <1>7, <4>1, GreatestElement
      <4>3. Max(ends) = e - w
        BY <1>4, <4>2
      <4> QED BY <3>1, <4>1, <4>3
    <3> QED BY <3>2, <3>3
  <2> QED BY <2>1, <2>2
<1>11. good = 1 .. (e - w)
  <2>1. good = {i \in 1 .. (e - w) : i <= e - w /\ ~Malformed(h.buf[i])}
    BY <1>7, <1>10
  <2> QED BY <1>5, <1>8, <2>1
<1>12. (lengths # {} => len = Len(s) - b) /\ (lengths = {} => len = h.conn.length)
  <2> SUFFICES ASSUME lengths # {}
               PROVE  h.buf[Max(lengths)].n = Len(s) - b
    OBVIOUS
  <2>1. lengths \in SUBSET (1 .. (e - w))
    BY <1>11
  <2>2. Max(lengths) \in lengths
    <3> HIDE DEF lengths
    <3> QED BY <1>4, <2>1, GreatestElement
  <2>3. PICK i \in 1 .. (e - w) : i = Max(lengths) /\ h.buf[i].kind = "length"
    BY <1>11, <2>2
  <2>4. i \in 1 .. (v - w) /\ h.buf[i] = s[w + i] /\ h.buf[i].kind # "blank"
    <3>1. i \in 1 .. (v - w)
      BY <1>5
    <3>2. h.buf[i] = s[w + i]
      BY <1>3, <3>1
    <3> QED BY <2>3, <3>1, <3>2
  <2>5. w + i \in Nat /\ 1 < w + i /\ w + i < b
    <3>1. w + i \in Nat /\ 1 < w + i /\ w + i <= b
      BY <1>5, <2>4
    <3>2. w + i # b
      BY <1>8, <2>4
    <3> QED BY <1>2, <3>1, <3>2
  <2>6. s[w + i].n = Len(s) - b
    BY <2>3, <2>4, <2>5 DEF Shape
  <2> QED BY <2>3, <2>4, <2>6
<1>13. (lengths # {} <=> \E i \in Nat : w < i /\ i <= e /\ s[i].kind = "length")
       /\ (hosts # {} <=> \E i \in Nat : w < i /\ i <= e /\ s[i].kind = "host")
  <2>1. ASSUME NEW kind
        PROVE  {i \in good : h.buf[i].kind = kind} # {}
                 <=> \E i \in Nat : w < i /\ i <= e /\ s[i].kind = kind
    <3>1. ASSUME NEW i \in good, h.buf[i].kind = kind
          PROVE  \E j \in Nat : w < j /\ j <= e /\ s[j].kind = kind
      <4>1. i \in 1 .. (e - w) /\ i \in 1 .. (v - w)
        BY <1>5, <1>11
      <4>2. w + i \in Nat /\ w < w + i /\ w + i <= e
        BY <1>5, <4>1
      <4>3. s[w + i].kind = kind
        BY <1>3, <3>1, <4>1
      <4> QED BY <4>2, <4>3
    <3>2. ASSUME NEW j \in Nat, w < j, j <= e, s[j].kind = kind
          PROVE  \E i \in good : h.buf[i].kind = kind
      <4>1. j - w \in 1 .. (e - w) /\ j - w \in 1 .. (v - w) /\ w + (j - w) = j
        BY <1>4, <3>2
      <4> QED BY <1>3, <1>11, <3>2, <4>1
    <3> HIDE DEF good
    <3> QED BY <3>1, <3>2
  <2> HIDE DEF good
  <2> QED BY <2>1
<1> HIDE DEF lines, stops, ends, last, good, lengths, hosts, len
<1>14. /\ g \in Handler /\ Fresh(g) /\ g.buf = SubSeq(s, e + 1, v)
       /\ g.conn = [h.conn EXCEPT !.length = len, !.host = h.conn.host \/ hosts # {}]
  <2> DEFINE k == [h.conn EXCEPT !.length = len, !.host = h.conn.host \/ hosts # {}]
             r == SubSeq(h.buf, last + 1, Len(h.buf))
  <2>1. len \in Int
    BY <1>2, <1>12 DEF Handler, Conn
  <2>2. k \in Conn
    BY <2>1 DEF Handler, Conn
  <2>3. r = SubSeq(s, e + 1, v) /\ r \in Seq(Pieces)
    <3>1. r = SubSeq(SubSeq(s, w + 1, v), (e - w) + 1, v - w)
      BY <1>3, <1>10 DEF Due
    <3>2. SubSeq(SubSeq(s, w + 1, v), (e - w) + 1, v - w) = SubSeq(s, e + 1, v)
      BY <1>4, PartOfPart
    <3>3. SubSeq(s, e + 1, v) \in Seq(Pieces)
      BY <1>4, Parts
    <3> QED BY <3>1, <3>2, <3>3
  <2>4. g = [h EXCEPT !.buf = r, !.conn = k]
    BY DEF Handler, Conn
  <2> HIDE DEF r, k, g
  <2>5. g \in Handler /\ g.conn = k /\ g.buf = r /\ g.codes = h.codes
        /\ g.emitted = h.emitted
    BY <2>2, <2>3, <2>4 DEF Handler
  <2> QED BY <2>3, <2>5 DEF k, Due, Fresh
<1> HIDE DEF g
<1>15. HeadersRead(g.conn, s, e) /\ g.conn.state = "headers"
  <2>1. /\ g.conn.method = h.conn.method /\ g.conn.uri = h.conn.uri
        /\ g.conn.minor = h.conn.minor /\ g.conn.body = h.conn.body
        /\ g.conn.state = h.conn.state
        /\ g.conn.length = len /\ g.conn.host = (h.conn.host \/ hosts # {})
    BY <1>14 DEF Handler, Conn
  <2>a. \A kind : Said(s, e, kind) <=>
          Said(s, w, kind) \/ \E i \in Nat : w < i /\ i <= e /\ s[i].kind = kind
    BY <1>4, SaidFurther
  <2>2. Said(s, e, "length") <=> Said(s, w, "length") \/ lengths # {}
    BY <1>13, <2>a
  <2>3. Said(s, e, "host") <=> Said(s, w, "host") \/ hosts # {}
    BY <1>13, <2>a
  <2>4. len = IF Said(s, e, "length") THEN Len(s) - b ELSE 0
    BY <1>12, <2>2 DEF HeadersRead
  <2>5. (h.conn.host \/ hosts # {}) = Said(s, e, "host")
    <3>1. h.conn.host = Said(s, w, "host")
      BY DEF HeadersRead
    <3> QED BY <2>3, <3>1 DEF Said
  <2> QED BY <2>1, <2>4, <2>5 DEF HeadersRead
<1>16. CASE b <= v
  <2>1. e = b /\ e - w \in 1 .. (e - w) /\ w + (e - w) = b
    BY <1>2, <1>4, <1>16
  <2>2. stops # {} /\ ~Malformed(h.buf[last])
    BY <1>8, <1>9, <1>10, <2>1
  <2>3. ReadHeaders(h) = EndOfHeaders(g)
    BY <1>1, <2>2
  <2>4. Due(g, s, EndOf(s), v) /\ HeadersRead(g.conn, s, EndOf(s))
    BY <1>14, <1>15, <2>1 DEF Due
  <2> QED BY <1>14, <1>16, <2>3, <2>4, EndTreated
<1>17. CASE ~(b <= v)
  <2>1. e = v /\ \A i \in 1 .. (e - w) : w + i # b
    BY <1>2, <1>4, <1>17
  <2>2. stops = {}
    BY <1>9, <2>1
  <2>3. ReadHeaders(h) = g
    BY <1>1, <2>2
  <2>4. g.buf = <<>>
    BY <1>14, <2>1, SubSeqEmpty
  <2>5. v < b /\ 0 < v /\ v # Len(s)
    BY <1>2, <1>4, <1>17
  <2>6. At(g.conn, s, v)
    BY <1>15, <2>1, <2>5 DEF At
  <2>7. Answer(s, v) = <<>> /\ Answer(s, v) # <<200>>
    BY <2>5 DEF Answer
  <2>8. g.codes = <<>> /\ Len(g.emitted) = 0
    BY <1>14 DEF Fresh
  <2> QED BY <1>14, <2>3, <2>4, <2>6, <2>7, <2>8 DEF Treated
<1> QED BY <1>16, <1>17

(* The request line is read, and with it the headers that came along.      *)
LEMMA MethodTreated ==
  ASSUME NEW s \in Seq(Pieces), Shape(s, EndOf(s)), First(s, EndOf(s)),
         NEW h \in Handler, NEW v \in Nat, Due(h, s, 0, v),
         0 < v, v <= Len(s), h.conn = Connection(h.conn.sock)
  PROVE  Treated(ReadMethodLine(h), s, v)
<1> DEFINE b == EndOf(s)
           r == ReadLine(h.buf)
           l == r.line
           g == [h EXCEPT !.buf = r.rest]
           m == IF l.method \in Implemented THEN l.method ELSE h.conn.method
           q == [g EXCEPT !.conn.method = m, !.conn.uri = l.uri, !.conn.minor = l.minor]
           o == [q EXCEPT !.conn.state = "headers"]
<1>1. ReadMethodLine(h) =
        IF ~CanReadLine(h.buf) THEN h
        ELSE IF l.kind # "request" \/ ~l.form THEN Send(g, 400)
        ELSE IF m = "None" THEN Send(g, 501)
        ELSE IF l.major < 0 THEN Send(q, 400)
        ELSE IF l.major # 1 \/ l.minor > 1 THEN Send(q, 505)
        ELSE ReadHeaders(o)
  BY DEF ReadMethodLine
<1>2. Len(s) \in Nat /\ b \in Nat /\ 1 < b /\ b <= Len(s)
  BY DEF Shape
<1>3. /\ h.buf \in Seq(Pieces) /\ Len(h.buf) = v /\ DOMAIN h.buf = 1 .. v
      /\ h.buf[1] = s[1]
  <2>1. /\ h.buf \in Seq(Pieces) /\ Len(h.buf) = v - 0 /\ DOMAIN h.buf = 1 .. (v - 0)
        /\ \A i \in 1 .. (v - 0) : h.buf[i] = s[0 + i]
    <3>1. 0 \in Nat /\ 0 <= v
      OBVIOUS
    <3> QED BY <3>1, Parts DEF Due
  <2>2. v - 0 = v /\ 1 \in 1 .. v /\ 0 + 1 = 1
    OBVIOUS
  <2> QED BY <2>1, <2>2
<1>4. IsLine(h.buf[1]) /\ 1 \in DOMAIN h.buf
  <2>1. IsLine(s[1])
    BY <1>2 DEF Shape
  <2> QED BY <1>3, <2>1
<1>5. CanReadLine(h.buf)
  BY <1>4 DEF CanReadLine
<1>6. SelectInSeq(h.buf, IsLine) = 1
  <2> DEFINE I == {i \in 1 .. Len(h.buf) : IsLine(h.buf[i])}
  <2>1. 1 \in I /\ \A i \in I : i \in Nat /\ 1 <= i
    BY <1>3, <1>4
  <2>2. SelectInSeq(h.buf, IsLine) = IF I # {} THEN Min(I) ELSE 0
    BY DEF SelectInSeq
  <2> HIDE DEF I
  <2>3. Min(I) = 1
    BY <2>1 DEF Min
  <2> QED BY <2>1, <2>2, <2>3
<1>7. l = s[1] /\ r.rest = SubSeq(s, 1 + 1, v)
  <2>1. r = [line |-> h.buf[1], rest |-> SubSeq(h.buf, 1 + 1, Len(h.buf))]
    BY <1>6 DEF ReadLine
  <2>2. SubSeq(h.buf, 1 + 1, v) = SubSeq(s, 1 + 1, v)
    <3>1. h.buf = SubSeq(s, 0 + 1, v)
      BY DEF Due
    <3>2. SubSeq(SubSeq(s, 0 + 1, v), (1 - 0) + 1, v - 0) = SubSeq(s, 1 + 1, v)
      <4>1. 0 \in Nat /\ 1 \in Nat /\ 0 <= 1 /\ 1 <= v
        OBVIOUS
      <4> QED BY <4>1, PartOfPart
    <3>3. (1 - 0) + 1 = 1 + 1 /\ v - 0 = v
      OBVIOUS
    <3> QED BY <3>1, <3>2, <3>3
  <2> QED BY <1>3, <2>1, <2>2
<1> HIDE DEF r, l
<1>8. /\ l.kind = "request" /\ l.form /\ l.method \in Implemented /\ l.uri \in Uris
      /\ l.major = 1 /\ l.minor \in {0, 1}
  BY <1>7 DEF First
<1>9. m = s[1].method /\ m # "None"
  BY <1>7, <1>8 DEF Implemented
<1> HIDE DEF m
<1>10. ReadMethodLine(h) = ReadHeaders(o)
  BY <1>1, <1>5, <1>8, <1>9
<1>11. /\ o \in Handler /\ Fresh(o) /\ o.buf = SubSeq(s, 1 + 1, v)
       /\ o.conn = [h.conn EXCEPT !.method = m, !.uri = l.uri, !.minor = l.minor,
                                  !.state = "headers"]
  <2> DEFINE k == [h.conn EXCEPT !.method = m, !.uri = l.uri, !.minor = l.minor,
                                 !.state = "headers"]
  <2>1. k \in Conn
    <3>1. m \in Implemented /\ l.uri \in Named /\ l.minor \in Int
      BY <1>7, <1>8, <1>9 DEF Named
    <3> QED BY <3>1 DEF Handler, Conn
  <2>2. o = [h EXCEPT !.buf = r.rest, !.conn = k]
    BY DEF Handler, Conn
  <2>3. r.rest \in Seq(Pieces)
    <3>1. 1 \in Nat /\ 1 <= v
      OBVIOUS
    <3> QED BY <1>7, <3>1, Parts
  <2> HIDE DEF k, o
  <2>4. o \in Handler /\ o.conn = k /\ o.buf = r.rest /\ o.codes = h.codes
        /\ o.emitted = h.emitted
    BY <2>1, <2>2, <2>3 DEF Handler
  <2> QED BY <1>7, <2>4 DEF k, Due, Fresh
<1> HIDE DEF o
<1>12. HeadersRead(o.conn, s, 1) /\ o.conn.state = "headers"
  <2>1. h.conn.host = FALSE /\ h.conn.length = 0 /\ h.conn.body = <<>>
    BY DEF Connection
  <2>2. /\ o.conn.method = s[1].method /\ o.conn.uri = s[1].uri
        /\ o.conn.minor = s[1].minor /\ o.conn.state = "headers"
        /\ o.conn.host = FALSE /\ o.conn.length = 0 /\ o.conn.body = <<>>
    BY <1>7, <1>9, <1>11, <2>1 DEF Handler, Conn
  <2>3. Said(s, 1, "host") = FALSE /\ Said(s, 1, "length") = FALSE
    BY DEF Said
  <2> QED BY <2>2, <2>3 DEF HeadersRead
<1>13. Due(o, s, 1, v)
  BY <1>11 DEF Due
<1>14. Treated(ReadHeaders(o), s, v)
  <2>1. 1 \in Nat /\ 0 < 1 /\ 1 < EndOf(s) /\ 1 <= v
    BY <1>2
  <2> QED BY <1>11, <1>12, <1>13, <2>1, HeadersTreated
<1> QED BY <1>10, <1>14

(* However a proper script is cut, after each segment the connection is as *)
(* far as the pieces that have come, and has answered if they are all.     *)
LEMMA Treatment ==
  ASSUME NEW s \in Seq(Pieces), Proper(s), NEW h \in Handler, NEW w \in Nat,
         NEW v \in Nat, Due(h, s, w, v), w < v, v <= Len(s), At(h.conn, s, w)
  PROVE  Treated(Dispatch(h), s, v)
<1>1. Shape(s, EndOf(s)) /\ First(s, EndOf(s))
  BY ProperShape
<1>2. Len(s) \in Nat /\ EndOf(s) \in Nat
  BY <1>1 DEF Shape
<1>3. CASE w = 0 /\ h.conn = Connection(h.conn.sock)
  <2>1. Dispatch(h) = ReadMethodLine(h)
    <3>1. h.conn.state = "method"
      BY <1>3 DEF Connection
    <3> QED BY <3>1 DEF Dispatch
  <2>2. Due(h, s, 0, v) /\ 0 < v
    BY <1>3
  <2> QED BY <1>1, <1>3, <2>1, <2>2, MethodTreated
<1>4. CASE 0 < w /\ w < EndOf(s) /\ h.conn.state = "headers" /\ HeadersRead(h.conn, s, w)
  <2>1. Dispatch(h) = ReadHeaders(h)
    BY <1>4 DEF Dispatch
  <2>2. w <= v
    OBVIOUS
  <2> QED BY <1>1, <1>4, <2>1, <2>2, HeadersTreated
<1>5. CASE EndOf(s) <= w /\ h.conn.state = "body" /\ BodyPartRead(h.conn, s, w)
  <2>1. Dispatch(h) = ReadBody(h)
    BY <1>5 DEF Dispatch
  <2>2. w <= v
    OBVIOUS
  <2> QED BY <1>1, <1>5, <2>1, <2>2, BodyTreated
<1>6. w # Len(s)
  BY <1>2
<1> QED BY <1>3, <1>4, <1>5, <1>6 DEF At

-----------------------------------------------------------------------------
(* The clients.                                                            *)

\* An open connection with a proper script: k is the connection, wi what the
\* client has still to send, a what waits unread, r the codes, u the updates.
Track(k, s, wi, a, r, u) ==
  /\ k \in Conn /\ a = <<>> /\ u \in Seq(Named) /\ Ends \notin ToSet(r)
  /\ \E w \in Nat : /\ w <= Len(s) /\ wi = SubSeq(s, w + 1, Len(s)) /\ At(k, s, w)
                    /\ r = Answer(s, w)
                    /\ Len(u) = IF Answer(s, w) = <<200>> THEN 1 ELSE 0

\* A client whose link is l.
Client(l, k, s, wi, a, r, u) ==
  /\ l # "open" => r = <<>> /\ u = <<>>
  /\ l \in {"none", "pending"} => a = <<>>
  /\ l = "pending" => wi = s
  /\ l \in {"pending", "open"} => s \in Scripts
  /\ l = "open" /\ Proper(s) => Track(k, s, wi, a, r, u)

RequestInv ==
  /\ DOMAIN wire = Clients /\ DOMAIN arrived = Clients /\ DOMAIN script = Clients
  /\ DOMAIN replies = Clients /\ DOMAIN updates = Clients
  /\ \A c \in Clients :
       Client(link[c], conns[mapped[c]], script[c], wire[c], arrived[c],
              replies[c], updates[c])

\* A client connects, and disconnects.
LEMMA OpenRequest ==
  ASSUME IInv, RequestInv, NEW c \in Clients, Open(c) \/ DisconnectedData(c)
  PROVE  RequestInv'
<1>1. UNCHANGED <<conns, mapped, arrived>>
  BY DEF Open, DisconnectedData
<1>2. DOMAIN link = Clients
  BY DEF IInv, SlotInv
<1>3. ASSUME NEW d \in Clients, d # c
      PROVE  /\ link'[d] = link[d] /\ script'[d] = script[d] /\ wire'[d] = wire[d]
             /\ replies'[d] = replies[d] /\ updates'[d] = updates[d]
  BY <1>2, <1>3 DEF Open, DisconnectedData, RequestInv
<1>4. Client(link[c], conns[mapped[c]], script[c], wire[c], arrived[c], replies[c],
             updates[c])
  BY DEF RequestInv
<1>5. Client(link[c], conns[mapped[c]], script[c], wire[c], arrived[c], replies[c],
             updates[c])'
  <2>1. CASE Open(c)
    <3>1. link[c] = "none" /\ link'[c] = "pending" /\ UNCHANGED <<replies, updates>>
      BY <1>2, <2>1 DEF Open
    <3>2. script'[c] \in Scripts /\ wire'[c] = script'[c]
      BY <2>1 DEF Open, RequestInv
    <3> QED BY <1>1, <1>4, <3>1, <3>2 DEF Client
  <2>2. CASE DisconnectedData(c)
    <3>1. link'[c] = "closed" /\ replies'[c] = <<>> /\ updates'[c] = <<>>
      BY <1>2, <2>2 DEF DisconnectedData, RequestInv
    <3> QED BY <3>1 DEF Client
  <2> QED BY <2>1, <2>2
<1>6. /\ DOMAIN wire' = Clients /\ DOMAIN arrived' = Clients /\ DOMAIN script' = Clients
      /\ DOMAIN replies' = Clients /\ DOMAIN updates' = Clients
  BY DEF Open, DisconnectedData, RequestInv
<1>7. ASSUME NEW d \in Clients, d # c
      PROVE  Client(link[d], conns[mapped[d]], script[d], wire[d], arrived[d], replies[d],
                    updates[d])'
  BY <1>1, <1>3, <1>7 DEF RequestInv
<1> QED BY <1>5, <1>6, <1>7 DEF RequestInv

\* A connection is accepted: nothing has been read of what it will send.
LEMMA NewRequest ==
  ASSUME IInv, RequestInv, NEW c \in Clients, NewConnectionData(c)
  PROVE  RequestInv'
<1>1. PICK id \in DOMAIN conns' :
           /\ conns'[id] = Connection(c) /\ mapped' = [mapped EXCEPT ![c] = id]
           /\ id \in DOMAIN conns => conns[id] = NoConn
           /\ \A i \in DOMAIN conns' : i # id => i \in DOMAIN conns /\ conns'[i] = conns[i]
           /\ DOMAIN conns \subseteq DOMAIN conns'
  BY NewSlot DEF IInv
<1>2. DOMAIN link = Clients /\ DOMAIN mapped = Clients
  BY DEF IInv, SlotInv
<1>3. /\ link[c] = "pending" /\ link' = [link EXCEPT ![c] = "open"]
      /\ UNCHANGED <<wire, arrived, replies, updates, script>>
  BY DEF NewConnectionData
<1>4. ASSUME NEW d \in Clients, d # c
      PROVE  Client(link[d], conns[mapped[d]], script[d], wire[d], arrived[d], replies[d],
                    updates[d])'
  <2>1. Client(link[d], conns[mapped[d]], script[d], wire[d], arrived[d], replies[d],
               updates[d])
    BY DEF RequestInv
  <2>2. link'[d] = link[d] /\ mapped'[d] = mapped[d]
    BY <1>1, <1>2, <1>3, <1>4
  <2>3. CASE link[d] = "open"
    <3>1. mapped[d] \in DOMAIN conns /\ conns[mapped[d]] # NoConn
      BY <2>3 DEF IInv, SlotInv, Slots
    <3>2. conns'[mapped[d]] = conns[mapped[d]]
      BY <1>1, <3>1
    <3> QED BY <1>3, <2>1, <2>2, <3>2
  <2>4. CASE link[d] # "open"
    BY <1>3, <2>1, <2>2, <2>4 DEF Client
  <2> QED BY <2>3, <2>4
<1>5. Client(link[c], conns[mapped[c]], script[c], wire[c], arrived[c], replies[c],
             updates[c])'
  <2> DEFINE s == script[c]
  <2>1. Client("pending", conns[mapped[c]], s, wire[c], arrived[c], replies[c], updates[c])
    BY <1>3 DEF RequestInv
  <2>2. /\ wire[c] = s /\ s \in Scripts /\ arrived[c] = <<>> /\ replies[c] = <<>>
        /\ updates[c] = <<>>
    BY <2>1 DEF Client
  <2>3. link'[c] = "open" /\ conns'[mapped'[c]] = Connection(c)
    BY <1>1, <1>2, <1>3
  <2>4. ASSUME Proper(s)
        PROVE  Track(Connection(c), s, s, <<>>, <<>>, <<>>)
    <3>1. s \in Seq(Pieces)
      BY <2>2, ScriptsAssumption
    <3>2. Connection(c) \in Conn
      <4>1. NoUri \in Named
        BY DEF Named
      <4>2. <<>> \in Seq(Pieces)
        BY EmptySeq
      <4> QED BY <4>1, <4>2 DEF Connection, Conn
    <3>3. Len(s) \in Nat /\ 0 # Len(s) /\ 0 <= Len(s) /\ 0 \in Nat
      BY <2>4, <3>1, ProperShape DEF Shape
    <3>4. s = SubSeq(s, 0 + 1, Len(s))
      BY <3>1, SubSeqFull
    <3>5. Answer(s, 0) = <<>> /\ Answer(s, 0) # <<200>> /\ Len(<<>>) = 0
      BY <3>3 DEF Answer
    <3>6. At(Connection(c), s, 0)
      BY DEF At, Connection
    <3>7. <<>> \in Seq(Named)
      BY EmptySeq
    <3>8. Ends \notin ToSet(<<>>)
      BY DEF ToSet
    <3> QED BY <3>2, <3>3, <3>4, <3>5, <3>6, <3>7, <3>8 DEF Track
  <2> QED BY <1>3, <2>2, <2>3, <2>4 DEF Client
<1> QED BY <1>3, <1>4, <1>5 DEF RequestInv

\* A collected connection leaves nothing behind; an open one is not touched.
LEMMA GarbageRequest ==
  ASSUME IInv, RequestInv, GarbageData
  PROVE  RequestInv'
<1> DEFINE gone == {conns[i].sock: i \in {j \in DOMAIN conns: Dead(conns[j])}}
<1>1. /\ conns' = [i \in DOMAIN conns |-> IF Dead(conns[i]) THEN NoConn ELSE conns[i]]
      /\ mapped' = [c \in Clients |-> IF c \in gone THEN -1 ELSE mapped[c]]
      /\ link' = [c \in Clients |-> IF c \in gone THEN "none" ELSE link[c]]
      /\ arrived' = [c \in Clients |-> IF c \in gone THEN <<>> ELSE arrived[c]]
      /\ UNCHANGED <<wire, replies, updates, script>>
  BY DEF GarbageData
<1>2. \A c \in Clients : c \in gone <=> link[c] = "closed"
  <2>1. \A c \in Clients : c \in gone <=> Slots(c) # {} /\ link[c] # "open"
    BY DEF Dead, Slots
  <2> QED BY <2>1 DEF IInv, SlotInv
<1> HIDE DEF gone
<1>3. ASSUME NEW c \in Clients
      PROVE  Client(link[c], conns[mapped[c]], script[c], wire[c], arrived[c], replies[c],
                    updates[c])'
  <2>1. Client(link[c], conns[mapped[c]], script[c], wire[c], arrived[c], replies[c],
               updates[c])
    BY DEF RequestInv
  <2>2. CASE link[c] = "closed"
    <3>1. link'[c] = "none" /\ arrived'[c] = <<>>
      BY <1>1, <1>2, <2>2
    <3> QED BY <1>1, <2>1, <2>2, <3>1 DEF Client
  <2>3. CASE link[c] # "closed"
    <3>1. link'[c] = link[c] /\ arrived'[c] = arrived[c] /\ mapped'[c] = mapped[c]
      BY <1>1, <1>2, <2>3
    <3>2. CASE link[c] = "open"
      <4>1. mapped[c] \in DOMAIN conns /\ conns[mapped[c]].sock = c
        BY <3>2 DEF IInv, SlotInv, Slots
      <4>2. conns'[mapped[c]] = conns[mapped[c]]
        BY <1>1, <3>2, <4>1 DEF Dead
      <4> QED BY <1>1, <2>1, <3>1, <4>2
    <3>3. CASE link[c] # "open"
      BY <1>1, <2>1, <3>1, <3>3 DEF Client
    <3> QED BY <3>2, <3>3
  <2> QED BY <2>2, <2>3
<1> QED BY <1>1, <1>3 DEF RequestInv

\* A segment: what the handler leaves of the connection and of the buffer is
\* the connection's own, and no other client is affected.
LEMMA ReadRequest ==
  ASSUME IInv, RequestInv, NEW c \in Clients, ReadyReadData(c)
  PROVE  RequestInv'
<1> DEFINE id == mapped[c]
<1>1. id \in DOMAIN conns /\ conns[id] # NoConn /\ conns[id].sock = c
  <2>1. link[c] = "open"
    BY DEF ReadyReadData
  <2> QED BY <2>1, SlotOfOpen
<1>2. IsConnection(conns[id])
  BY <1>1 DEF IInv, ConnsInv
<1> DEFINE s == script[c]
           k == conns[id]
           Given(n) == [conn |-> k, buf |-> arrived[c] \o SubSeq(wire[c], 1, n),
                        codes |-> <<>>, emitted |-> <<>>]
<1>3. PICK n \in 1 .. Len(wire[c]) :
        LET h == Dispatch(Given(n)) IN
        /\ Ends \notin ToSet(h.codes)
        /\ wire' = [wire EXCEPT ![c] = SubSeq(wire[c], n + 1, Len(wire[c]))]
        /\ arrived' = [arrived EXCEPT ![c] = h.buf]
        /\ conns' = [conns EXCEPT ![id] = h.conn]
        /\ replies' = [replies EXCEPT ![h.conn.sock] = @ \o h.codes]
        /\ updates' = [updates EXCEPT ![h.conn.sock] = @ \o h.emitted]
  BY DEF ReadyReadData, Handle
<1> DEFINE g == Given(n)
           h == Dispatch(g)
<1>4. h.conn.sock = c
  <2>1. Handled(g) /\ g.conn.sock = c
    BY <1>1, <1>2 DEF Handled
  <2> HIDE DEF g
  <2> QED BY <2>1, DispatchKeeps DEF SameSocket
<1>5. /\ wire' = [wire EXCEPT ![c] = SubSeq(wire[c], n + 1, Len(wire[c]))]
      /\ arrived' = [arrived EXCEPT ![c] = h.buf]
      /\ conns' = [conns EXCEPT ![id] = h.conn]
      /\ replies' = [replies EXCEPT ![c] = @ \o h.codes]
      /\ updates' = [updates EXCEPT ![c] = @ \o h.emitted]
      /\ Ends \notin ToSet(h.codes)
  BY <1>3, <1>4
<1>6. g = [conn |-> k, buf |-> arrived[c] \o SubSeq(wire[c], 1, n),
           codes |-> <<>>, emitted |-> <<>>]
  OBVIOUS
<1>7. link[c] = "open" /\ UNCHANGED <<mapped, link, script>>
  BY DEF ReadyReadData
<1> HIDE DEF g, h
<1>8. ASSUME NEW d \in Clients, d # c
      PROVE  Client(link[d], conns[mapped[d]], script[d], wire[d], arrived[d], replies[d],
                    updates[d])'
  <2>1. Client(link[d], conns[mapped[d]], script[d], wire[d], arrived[d], replies[d],
               updates[d])
    BY DEF RequestInv
  <2>2. /\ wire'[d] = wire[d] /\ arrived'[d] = arrived[d]
        /\ replies'[d] = replies[d] /\ updates'[d] = updates[d]
    BY <1>5, <1>8 DEF RequestInv
  <2>3. CASE link[d] = "open"
    <3>1. mapped[d] \in DOMAIN conns /\ conns[mapped[d]].sock = d
      BY <2>3 DEF IInv, SlotInv, Slots
    <3>2. mapped[d] # id
      BY <1>1, <1>8, <3>1
    <3>3. conns'[mapped[d]] = conns[mapped[d]]
      BY <1>5, <3>1, <3>2
    <3> QED BY <1>7, <2>1, <2>2, <3>3
  <2>4. CASE link[d] # "open"
    BY <1>7, <2>1, <2>2, <2>4 DEF Client
  <2> QED BY <2>3, <2>4
<1>9. /\ wire'[c] = SubSeq(wire[c], n + 1, Len(wire[c])) /\ arrived'[c] = h.buf
      /\ conns'[id] = h.conn /\ replies'[c] = replies[c] \o h.codes
      /\ updates'[c] = updates[c] \o h.emitted
  BY <1>1, <1>5 DEF RequestInv
<1>10. Client("open", k, s, wire[c], arrived[c], replies[c], updates[c])
  BY <1>7 DEF RequestInv
<1>11. s \in Scripts
  BY <1>10 DEF Client
<1> HIDE DEF k, s
<1>12. ASSUME Proper(s)
       PROVE  Track(h.conn, s, wire'[c], h.buf, replies'[c], updates'[c])
  <2>1. s \in Seq(Pieces) /\ Len(s) \in Nat
    BY <1>11, ScriptsAssumption, LenProperties
  <2>2. PICK w \in Nat :
          /\ w <= Len(s) /\ wire[c] = SubSeq(s, w + 1, Len(s)) /\ At(k, s, w)
          /\ replies[c] = Answer(s, w)
          /\ Len(updates[c]) = IF Answer(s, w) = <<200>> THEN 1 ELSE 0
    BY <1>10, <1>12 DEF Client, Track
  <2>3. k \in Conn /\ arrived[c] = <<>>
    BY <1>10, <1>12 DEF Client, Track
  <2>4. Len(wire[c]) = Len(s) - w
    BY <2>1, <2>2, Parts
  <2> DEFINE v == w + n
  <2>5. v \in Nat /\ w < v /\ v <= Len(s) /\ w <= v /\ v - w = n /\ w # Len(s)
    BY <2>1, <2>2, <2>4
  <2>6. /\ SubSeq(wire[c], 1, n) = SubSeq(s, w + 1, v)
        /\ SubSeq(wire[c], n + 1, Len(wire[c])) = SubSeq(s, v + 1, Len(s))
    <3>1. /\ SubSeq(SubSeq(s, w + 1, Len(s)), 1, v - w) = SubSeq(s, w + 1, v)
          /\ SubSeq(SubSeq(s, w + 1, Len(s)), (v - w) + 1, Len(s) - w)
               = SubSeq(s, v + 1, Len(s))
      <4>1. Len(s) <= Len(s)
        BY <2>1
      <4> HIDE DEF v
      <4> QED BY <2>1, <2>5, <4>1, PartOfPart
    <3> QED BY <2>2, <2>4, <2>5, <3>1
  <2>7. SubSeq(s, w + 1, v) \in Seq(Pieces)
    <3> HIDE DEF v
    <3> QED BY <2>1, <2>5, Parts
  <2> HIDE DEF v
  <2>8. g = [conn |-> k, buf |-> SubSeq(s, w + 1, v), codes |-> <<>>, emitted |-> <<>>]
    BY <1>6, <2>3, <2>6, <2>7, ConcatEmptySeq
  <2>9. g \in Handler /\ Due(g, s, w, v) /\ g.conn = k
    <3>1. <<>> \in Seq(Nat) /\ <<>> \in Seq(Named)
      BY EmptySeq
    <3> QED BY <2>3, <2>7, <2>8, <3>1 DEF Handler, Due, Fresh
  <2>10. Treated(h, s, v)
    BY <1>12, <2>1, <2>2, <2>5, <2>9, Treatment DEF h
  <2>11. replies[c] = <<>> /\ Len(updates[c]) = 0
    BY <2>2, <2>5 DEF Answer
  <2>12. /\ replies'[c] = h.codes /\ Len(updates'[c]) = Len(h.emitted)
         /\ updates'[c] \in Seq(Named)
    <3>1. h.codes \in Seq(Nat) /\ h.emitted \in Seq(Named)
      BY <2>10 DEF Treated, Handler
    <3>2. updates[c] \in Seq(Named)
      BY <1>10, <1>12 DEF Client, Track
    <3>3. /\ Len(updates[c] \o h.emitted) = Len(updates[c]) + Len(h.emitted)
          /\ updates[c] \o h.emitted \in Seq(Named)
      BY <3>1, <3>2, ConcatProperties
    <3>4. Len(h.emitted) \in Nat
      BY <3>1, LenProperties
    <3> QED BY <1>9, <2>11, <3>1, <3>3, <3>4, ConcatEmptySeq
  <2>13. h.conn \in Conn /\ h.buf = <<>> /\ At(h.conn, s, v)
         /\ h.codes = Answer(s, v)
         /\ Len(h.emitted) = IF Answer(s, v) = <<200>> THEN 1 ELSE 0
    BY <2>10 DEF Treated, Handler
  <2>14. Ends \notin ToSet(replies'[c])
    BY <1>5, <2>12
  <2> QED BY <1>9, <2>5, <2>6, <2>12, <2>13, <2>14 DEF Track
<1>13. Client("open", h.conn, s, wire'[c], h.buf, replies'[c], updates'[c])
  BY <1>11, <1>12 DEF Client
<1>14. Client(link[c], conns[mapped[c]], script[c], wire[c], arrived[c], replies[c],
              updates[c])'
  BY <1>7, <1>9, <1>13 DEF s
<1>15. /\ DOMAIN wire' = Clients /\ DOMAIN arrived' = Clients /\ DOMAIN script' = Clients
       /\ DOMAIN replies' = Clients /\ DOMAIN updates' = Clients
  BY <1>5, <1>7 DEF RequestInv
<1> QED BY <1>8, <1>14, <1>15 DEF RequestInv

\* With the program every connection ends, and with it what is said of it.
LEMMA EndRequest ==
  ASSUME RequestInv, NEW c \in Clients, ReadyReadDataEnds(c)
  PROVE  RequestInv'
<1> DEFINE none == [d \in Clients |-> <<>>]
<1>1. /\ link' = [d \in Clients |-> "none"] /\ script' = none /\ wire' = none
      /\ arrived' = none /\ replies' = none /\ updates' = none
  BY DEF ReadyReadDataEnds
<1>2. \A d \in Clients :
        Client(link[d], conns[mapped[d]], script[d], wire[d], arrived[d], replies[d],
               updates[d])'
  BY <1>1 DEF Client
<1> QED BY <1>1, <1>2 DEF RequestInv

\* The requests, in every state that can be reached.
LEMMA RequestInvariance == Spec => [](IInv /\ RequestInv)
<1>1. Init => RequestInv
  BY DEF Init, RequestInv, Client
<1>2. ASSUME IInv, RequestInv, [Next]_vars PROVE RequestInv'
  <2>1. CASE UNCHANGED vars
    BY <1>2, <2>1 DEF vars, RequestInv
  <2> QED BY <1>2, <2>1, OpenRequest, NewRequest, ReadRequest, EndRequest,
            GarbageRequest DEF Next
<1> QED BY <1>1, <1>2, Invariance, PTL DEF Spec

(***************************************************************************)
(* For any scripts, however TCP cuts them and whatever the other clients   *)
(* do: a proper request gets its one answer when its last piece has come   *)
(* and none before, and the title is updated exactly when that is 200; the *)
(* program does not outlive a complete update with the empty object.       *)
(***************************************************************************)
THEOREM EachRequestAnswered == Spec => []CutsDoNotMatter
<1>1. ASSUME RequestInv, NEW c \in Clients, link[c] = "open", Proper(script[c])
      PROVE  LET code == IF wire[c] = <<>> THEN <<Deserves(script[c])>> ELSE <<>> IN
             /\ Ends \notin ToSet(code)
             /\ replies[c] = code
             /\ Len(updates[c]) = IF code = <<200>> THEN 1 ELSE 0
  <2> DEFINE s == script[c]
  <2>1. Client("open", conns[mapped[c]], s, wire[c], arrived[c], replies[c], updates[c])
    BY <1>1 DEF RequestInv
  <2>2. s \in Seq(Pieces) /\ Len(s) \in Nat
    BY <2>1, ScriptsAssumption, LenProperties DEF Client
  <2> HIDE DEF s
  <2>3. PICK w \in Nat :
          /\ w <= Len(s) /\ wire[c] = SubSeq(s, w + 1, Len(s))
          /\ replies[c] = Answer(s, w) /\ Ends \notin ToSet(replies[c])
          /\ Len(updates[c]) = IF Answer(s, w) = <<200>> THEN 1 ELSE 0
    BY <1>1, <2>1 DEF Client, Track, s
  <2>4. wire[c] = <<>> <=> w = Len(s)
    <3>1. Len(wire[c]) = Len(s) - w
      BY <2>2, <2>3, Parts
    <3>2. w = Len(s) => wire[c] = <<>>
      BY <2>2, <2>3, SubSeqEmpty
    <3>3. wire[c] = <<>> => Len(wire[c]) = 0
      OBVIOUS
    <3> QED BY <2>2, <2>3, <3>1, <3>2, <3>3
  <2>5. (IF wire[c] = <<>> THEN <<Deserves(s)>> ELSE <<>>) = Answer(s, w)
    BY <2>4 DEF Answer
  <2> QED BY <2>3, <2>5 DEF s
<1>2. RequestInv => CutsDoNotMatter
  BY <1>1 DEF CutsDoNotMatter
<1> QED BY <1>2, RequestInvariance, PTL

===============================================================================
