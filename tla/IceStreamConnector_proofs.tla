---------------------- MODULE IceStreamConnector_proofs -----------------------
(***************************************************************************)
(* For any set of connections and any maximum: slots are reused without    *)
(* ever losing a connection that is being served, the maximum holds over   *)
(* the TCP port and the pipe together, and no client that was connected    *)
(* before loses its connection by --server-exit-on-last.  For any          *)
(* requests, interval and number of bytes: what a connected player has     *)
(* been sent is every byte encoded since it was answered, once and in      *)
(* order, with a title wherever the interval asks for one and nowhere      *)
(* else.                                                                   *)
(***************************************************************************)
EXTENDS IceStreamConnector, TLAPS, FiniteSetTheorems, WellFoundedInduction

SlotType ==
  /\ slots \in Seq(Clients \cup {NULL})
  /\ sock \in [Clients -> {"none", "up", "down", "refused"}]

\* The clients in slots are those that have been accepted and whose stream
\* still exists; a connected one is among them.
ServedInv == \A c \in Served : sock[c] \in {"up", "down"}

WithinSize == MaxConnections > 0 => Len(slots) <= MaxConnections

SlotInv == SlotType /\ ServedInv /\ WithinSize /\ OneSlotEach

-----------------------------------------------------------------------------
(* A set of natural numbers has a least element: the least interval 1..i,  *)
(* by inclusion, gives it.                                                 *)
LEMMA LeastElement ==
  ASSUME NEW S \in SUBSET Nat, S # {}
  PROVE  \E i \in S : \A j \in S : i <= j
<1> DEFINE T == {1..i : i \in S}
<1>1. T \subseteq FiniteSubsetsOf(Nat)
  <2> SUFFICES ASSUME NEW i \in S
               PROVE  1..i \in FiniteSubsetsOf(Nat)
    OBVIOUS
  <2>1. IsFiniteSet(1..i)
    BY FS_Interval
  <2> QED BY <2>1 DEF FiniteSubsetsOf
<1>2. T # {}
  OBVIOUS
<1> HIDE DEF T
<1>3. PICK x \in T : \A y \in T : ~(<<y, x>> \in StrictSubsetOrdering(Nat))
  BY <1>1, <1>2, FS_StrictSubsetOrderingWellFounded, WFMin
<1> USE DEF T
<1>4. PICK i \in S : x = 1..i
  OBVIOUS
<1>5. ASSUME NEW j \in S, ~(i <= j)
      PROVE  FALSE
  <2>1. <<1..j, 1..i>> \in StrictSubsetOrdering(Nat)
    BY <1>5 DEF StrictSubsetOrdering
  <2> QED BY <1>3, <1>4, <2>1
<1> QED BY <1>5

(* GetFreeStreamId() gives a slot that is free, or the next one.           *)
LEMMA FreeSlotIsFree ==
  ASSUME NEW s \in Seq(Clients \cup {NULL})
  PROVE  \/ FreeSlot(s) \in DOMAIN s /\ s[FreeSlot(s)] = NULL
         \/ FreeSlot(s) = Len(s) + 1
<1>1. CASE FreeSlots(s) = {}
  BY <1>1 DEF FreeSlot
<1>2. CASE FreeSlots(s) # {}
  <2>1. FreeSlots(s) \subseteq Nat
    BY DEF FreeSlots
  <2>2. \E i \in FreeSlots(s) : \A j \in FreeSlots(s) : i <= j
    BY <1>2, <2>1, LeastElement
  <2>4. FreeSlot(s) \in FreeSlots(s)
    BY <1>2, <2>2 DEF FreeSlot
  <2> QED BY <2>4 DEF FreeSlots
<1> QED BY <1>1, <1>2

(* Placing a client takes the slot that was found and leaves the others.   *)
LEMMA PlacedKeepsOthers ==
  ASSUME NEW s \in Seq(Clients \cup {NULL}), NEW c \in Clients
  PROVE  LET id == FreeSlot(s)
         IN  /\ Placed(s, c) \in Seq(Clients \cup {NULL})
             /\ id \in DOMAIN Placed(s, c) /\ Placed(s, c)[id] = c
             /\ DOMAIN s \subseteq DOMAIN Placed(s, c)
             /\ \A i \in DOMAIN Placed(s, c) :
                  i # id => i \in DOMAIN s /\ Placed(s, c)[i] = s[i]
             /\ \A i \in DOMAIN s : s[i] # NULL => Placed(s, c)[i] = s[i]
             /\ Len(Placed(s, c)) \in {Len(s), Len(s) + 1}
<1> DEFINE id == FreeSlot(s)
           n == IF id > Len(s) THEN id ELSE Len(s)
<1>1. \/ id \in DOMAIN s /\ s[id] = NULL
      \/ id = Len(s) + 1
  BY FreeSlotIsFree
<1>2. id \in 1..n /\ n \in {Len(s), Len(s) + 1} /\ n \in Nat
  BY <1>1
<1>3. Placed(s, c) = [i \in 1..n |-> IF i = id THEN c ELSE s[i]]
  BY DEF Placed
<1>4. \A i \in 1..n : i # id => i \in DOMAIN s
  BY <1>1
<1>5. Placed(s, c) \in Seq(Clients \cup {NULL}) /\ Len(Placed(s, c)) = n
  <2>1. \A i \in 1..n : (IF i = id THEN c ELSE s[i]) \in Clients \cup {NULL}
    BY <1>4
  <2> HIDE DEF id, n
  <2> QED BY <1>2, <1>3, <2>1
<1>6. DOMAIN Placed(s, c) = 1..n
  BY <1>3
<1>7. \A i \in DOMAIN s : s[i] # NULL => i # id
  BY <1>1
<1>8. DOMAIN s \subseteq 1..n
  BY <1>2
<1> HIDE DEF n, id
<1>9. \A i \in 1..n : Placed(s, c)[i] = IF i = id THEN c ELSE s[i]
  BY <1>3
<1> QED BY <1>2, <1>4, <1>5, <1>6, <1>7, <1>8, <1>9 DEF id

-----------------------------------------------------------------------------
(* What the handlers do to the slots: nothing but to a socket of a served  *)
(* client, ...                                                             *)
LEMMA SocketChange ==
  ASSUME SlotInv, NEW c \in Served, NEW v \in {"up", "down"},
         slots' = slots, sock' = [sock EXCEPT ![c] = v]
  PROVE  SlotInv'
<1>1. c \in Clients
  BY DEF Served
<1>2. SlotType' /\ Served' = Served
  BY <1>1 DEF SlotInv, SlotType, Served
<1>3. ServedInv'
  BY <1>1, <1>2 DEF SlotInv, SlotType, ServedInv, Served
<1>4. OneSlotEach'
  BY <1>1, <1>2 DEF SlotInv, SlotType, OneSlotEach, Up
<1> QED BY <1>2, <1>3, <1>4 DEF SlotInv, WithinSize

(* ... turning a client away, ...                                          *)
LEMMA Refusal ==
  ASSUME SlotInv, NEW c \in Clients, sock[c] = "none",
         slots' = slots, sock' = [sock EXCEPT ![c] = "refused"]
  PROVE  SlotInv'
<1>1. SlotType' /\ Served' = Served
  BY DEF SlotInv, SlotType, Served
<1>2. c \notin Served
  BY DEF SlotInv, ServedInv
<1>3. ServedInv'
  BY <1>1, <1>2 DEF SlotInv, SlotType, ServedInv, Served
<1>4. OneSlotEach'
  BY <1>1, <1>2 DEF SlotInv, SlotType, OneSlotEach, Up
<1> QED BY <1>1, <1>3, <1>4 DEF SlotInv, WithinSize

(* ... and accepting one.                                                  *)
LEMMA Acceptance ==
  ASSUME SlotInv, NEW c \in Clients, sock[c] = "none", ~Full(slots),
         slots' = Placed(slots, c), sock' = [sock EXCEPT ![c] = "up"]
  PROVE  SlotInv'
<1> DEFINE id == FreeSlot(slots)
<1>1. slots \in Seq(Clients \cup {NULL})
  BY DEF SlotInv, SlotType
<1>2. /\ slots' \in Seq(Clients \cup {NULL})
      /\ id \in DOMAIN slots' /\ slots'[id] = c
      /\ DOMAIN slots \subseteq DOMAIN slots'
      /\ \A i \in DOMAIN slots' : i # id => i \in DOMAIN slots /\ slots'[i] = slots[i]
      /\ \A i \in DOMAIN slots : slots[i] # NULL => slots'[i] = slots[i]
      /\ Len(slots') \in {Len(slots), Len(slots) + 1}
  BY <1>1, PlacedKeepsOthers
<1> HIDE DEF id
<1>3. SlotType'
  BY <1>2 DEF SlotInv, SlotType
<1>4. c \notin Served
  BY DEF SlotInv, ServedInv
<1>5. c # NULL
  BY ServerAssumption
<1>6. Served' = Served \cup {c}
  <2>1. ASSUME NEW d \in Served' PROVE d \in Served \cup {c}
    BY <1>2 DEF Served
  <2>2. ASSUME NEW d \in Served PROVE d \in Served'
    <3>1. PICK i \in DOMAIN slots : slots[i] = d
      BY DEF Served
    <3>2. d # NULL /\ d \in Clients
      BY ServerAssumption DEF Served
    <3> QED BY <1>2, <3>1, <3>2 DEF Served
  <2>3. c \in Served'
    BY <1>2 DEF Served
  <2> QED BY <2>1, <2>2, <2>3
<1>7. ServedInv'
  BY <1>4, <1>6 DEF SlotInv, SlotType, ServedInv, Served
<1>8. \A d \in Up' : d \in Served'
  BY <1>6 DEF SlotInv, SlotType, OneSlotEach, Up
<1>9. ASSUME NEW i \in DOMAIN slots', NEW j \in DOMAIN slots',
             slots'[i] = slots'[j], slots'[i] # NULL
      PROVE  i = j
  <2>1. \A k \in DOMAIN slots' : k # id => k \in DOMAIN slots /\ slots'[k] = slots[k] /\ slots[k] # c
    BY <1>2, <1>4 DEF Served
  <2> QED BY <1>2, <1>9, <2>1 DEF SlotInv, OneSlotEach
<1>10. WithinSize'
  <2>1. Len(slots) \in Nat /\ Len(slots) # MaxConnections
    BY <1>1 DEF Full
  <2> QED BY <1>2, <2>1, ServerAssumption DEF SlotInv, WithinSize
<1> QED BY <1>3, <1>7, <1>8, <1>9, <1>10 DEF SlotInv, OneSlotEach

(* The garbage timer frees the slots of sockets that are not connected and *)
(* no other.                                                               *)
LEMMA CollectedSlots ==
  ASSUME SlotInv, slots' = Collected(slots), sock' = sock
  PROVE  SlotInv' /\ Up' \subseteq Served'
<1>1. /\ DOMAIN slots' = DOMAIN slots
      /\ \A i \in DOMAIN slots :
           slots'[i] = IF slots[i] # NULL /\ sock[slots[i]] # "up" THEN NULL ELSE slots[i]
  BY DEF Collected
<1>2. slots \in Seq(Clients \cup {NULL}) /\ Len(slots) \in Nat /\ DOMAIN slots = 1..Len(slots)
  BY DEF SlotInv, SlotType
<1>3. \A i \in 1..Len(slots) : slots'[i] \in Clients \cup {NULL}
  BY <1>1, <1>2
<1>4. slots' \in Seq(Clients \cup {NULL}) /\ Len(slots') = Len(slots)
  BY <1>1, <1>2, <1>3 DEF Collected
<1>5. SlotType' /\ WithinSize'
  BY <1>4 DEF SlotInv, SlotType, WithinSize
<1>6. Served' \subseteq Served
  BY <1>1, ServerAssumption DEF Served
<1>7. ServedInv'
  BY <1>6 DEF SlotInv, ServedInv
<1>8. Up' \subseteq Served'
  <2> SUFFICES ASSUME NEW c \in Up PROVE c \in Served'
    BY DEF Up
  <2>1. PICK i \in DOMAIN slots : slots[i] = c
    BY DEF SlotInv, OneSlotEach, Served
  <2>2. slots'[i] = c
    BY <1>1, <2>1 DEF Up
  <2> QED BY <1>1, <2>2 DEF Served, Up
<1>9. \A i, j \in DOMAIN slots' : slots'[i] = slots'[j] /\ slots'[i] # NULL => i = j
  BY <1>1 DEF SlotInv, OneSlotEach
<1> QED BY <1>5, <1>7, <1>8, <1>9 DEF SlotInv, OneSlotEach

-----------------------------------------------------------------------------
(* The invariant holds initially and is kept by every action.              *)
LEMMA NoSlots == <<>> \in Seq(Clients \cup {NULL}) /\ Len(<<>>) = 0 /\ DOMAIN <<>> = {}
OBVIOUS

(* The server starts without a slot, so without a client in one.           *)
LEMMA SlotInvInit == Init => SlotInv
<1> SUFFICES ASSUME Init PROVE SlotInv
  OBVIOUS
<1>1. slots = <<>> /\ sock = [c \in Clients |-> "none"]
  BY DEF Init
<1>2. SlotType
  BY <1>1, NoSlots DEF SlotType
<1>3. Served = {} /\ Up = {}
  BY <1>1, NoSlots DEF Served, Up
<1>4. WithinSize
  BY <1>1, NoSlots, ServerAssumption DEF WithinSize
<1>5. OneSlotEach
  BY <1>1, <1>3, NoSlots DEF OneSlotEach
<1> QED BY <1>2, <1>3, <1>4, <1>5 DEF SlotInv, ServedInv

(* Placing a client fills a free slot or a new one below the maximum; a socket *)
(* event changes no slot; garbage collection frees the slots of dead clients. *)
LEMMA SlotInvNext == SlotInv /\ [Next]_vars => SlotInv'
<1> SUFFICES ASSUME SlotInv, [Next]_vars PROVE SlotInv'
  OBVIOUS
<1>1. ASSUME NEW c \in Clients, NewConnection(c) PROVE SlotInv'
  <2>1. CASE Full(slots)
    BY <1>1, <2>1, Refusal DEF NewConnection, Refuse
  <2>2. CASE ~Full(slots)
    BY <1>1, <2>2, Acceptance DEF NewConnection
  <2> QED BY <2>1, <2>2
<1>2. ASSUME NEW c \in Clients, NewPipeConnection(c) PROVE SlotInv'
  <2>1. CASE Full(slots)
    BY <1>2, <2>1, Refusal DEF NewPipeConnection, Refuse
  <2>2. CASE ~Full(slots)
    BY <1>2, <2>2, Acceptance DEF NewPipeConnection
  <2> QED BY <2>1, <2>2
<1>3. ASSUME NEW c \in Clients, NEW new \in Segments, ReadyRead(c, new) PROVE SlotInv'
  <2>1. c \in Served /\ slots' = slots
    BY <1>3 DEF ReadyRead
  <2>2. PICK v \in {"up", "down"} : sock' = [sock EXCEPT ![c] = v]
    BY <1>3 DEF ReadyRead
  <2> QED BY <2>1, <2>2, SocketChange
<1>4. ASSUME NEW c \in Clients, Timeout(c) PROVE SlotInv'
  BY <1>4, SocketChange DEF Timeout
<1>5. ASSUME NEW c \in Clients, Disconnected(c) PROVE SlotInv'
  BY <1>5, SocketChange DEF Disconnected
<1>6. ASSUME CollectGarbage PROVE SlotInv'
  BY <1>6, CollectedSlots DEF CollectGarbage
<1>7. ASSUME StartStopping PROVE SlotInv'
  <2>1. slots' = <<>> /\ sock' = [c \in Clients |-> IF c \in Served THEN "down" ELSE sock[c]]
    BY <1>7 DEF StartStopping
  <2>2. Up' = {}
    BY <2>1 DEF SlotInv, OneSlotEach, Up
  <2>3. sock' \in [Clients -> {"none", "up", "down", "refused"}]
    BY <2>1 DEF SlotInv, SlotType
  <2>4. SlotType'
    BY <2>1, <2>3, NoSlots DEF SlotType
  <2>5. Served' = {}
    BY <2>1, NoSlots DEF Served
  <2>6. WithinSize'
    BY <2>1, NoSlots, ServerAssumption DEF WithinSize
  <2>7. OneSlotEach'
    BY <2>1, <2>2, NoSlots DEF OneSlotEach
  <2> QED BY <2>4, <2>5, <2>6, <2>7 DEF SlotInv, ServedInv
<1>8. ASSUME UNCHANGED <<slots, sock>> PROVE SlotInv'
  BY <1>8 DEF SlotInv, SlotType, ServedInv, WithinSize, OneSlotEach, Served, Up
<1> QED
  BY <1>1, <1>2, <1>3, <1>4, <1>5, <1>6, <1>7, <1>8 DEF Next, Signal, WriteData, vars

(* The slots, in every state that can be reached.                          *)
LEMMA SlotInvariant == Spec => []SlotInv
BY SlotInvInit, SlotInvNext, PTL DEF Spec

-----------------------------------------------------------------------------
(* GetFreeStreamId() and garbageData() reuse slots without losing or       *)
(* doubling a connection that is being served.                             *)
THEOREM SlotsAreKept == Spec => []OneSlotEach
<1>1. SlotInv => OneSlotEach
  BY DEF SlotInv
<1> QED BY <1>1, SlotInvariant, PTL

(* newConnectionData() and newPipeConnectionData() together never have     *)
(* more connections open than --server-max-connections.                    *)
THEOREM MaximumHolds == Spec => []WithinMaxConnections
<1>1. SlotInv => WithinMaxConnections
  <2> SUFFICES ASSUME SlotInv, MaxConnections > 0
               PROVE  Cardinality(Up) <= MaxConnections
    BY DEF WithinMaxConnections
  <2> DEFINE slot == [c \in Up |-> CHOOSE i \in DOMAIN slots : slots[i] = c]
  <2>1. Len(slots) \in Nat /\ DOMAIN slots = 1..Len(slots)
    BY DEF SlotInv, SlotType
  <2>2. \A c \in Up : slot[c] \in 1..Len(slots) /\ slots[slot[c]] = c
    BY <2>1 DEF SlotInv, OneSlotEach, Served
  <2> HIDE DEF slot
  <2>3. slot \in [Up -> 1..Len(slots)]
    BY <2>2 DEF slot
  <2>4. slot \in Injection(Up, 1..Len(slots))
    BY <2>2, <2>3 DEF Injection, IsInjective
  <2>5. IsFiniteSet(1..Len(slots)) /\ Cardinality(1..Len(slots)) = Len(slots)
    <3>1. ASSUME NEW n \in Nat
          PROVE  IsFiniteSet(1..n) /\ Cardinality(1..n) = n
      <4>1. /\ IsFiniteSet(1..n)
            /\ Cardinality(1..n) = IF 1 > n THEN 0 ELSE n - 1 + 1
        BY FS_Interval
      <4> QED BY <4>1
    <3> QED BY <2>1, <3>1
  <2>6. IsFiniteSet(Up) /\ Cardinality(Up) <= Len(slots)
    BY <2>4, <2>5, FS_Injection
  <2>7. Cardinality(Up) \in Nat
    BY <2>6, FS_CardinalityType
  <2> QED BY <2>1, <2>6, <2>7, ServerAssumption DEF SlotInv, WithinSize
<1> QED BY <1>1, SlotInvariant, PTL

\* A client that has come before the program decides to end.
CameBefore(c) == sock[c] # "none" /\ (exiting = "last" => c \notin Up)

(* The decision is taken when every slot is free, and a slot that is free  *)
(* stands for no connected client.                                         *)
LEMMA DecidedWithoutClients ==
  ASSUME SlotInv, Next, exiting # "last", exiting' = "last"
  PROVE  Up' = {}
<1>1. CollectGarbage
  BY DEF Next, NewConnection, NewPipeConnection, ReadyRead, Timeout, Disconnected,
         Signal, StartStopping, WriteData
<1>2. AllFree(slots') /\ Up' \subseteq Served'
  BY <1>1, CollectedSlots DEF CollectGarbage
<1>3. Served' = {}
  BY <1>2, ServerAssumption DEF AllFree, Served
<1> QED BY <1>2, <1>3

(* Nobody comes twice: a client that has been connected is not accepted    *)
(* between the decision and the end.                                       *)
LEMMA StaysAway ==
  ASSUME SlotInv, NEW c \in Clients, CameBefore(c), [Next]_vars
  PROVE  CameBefore(c)'
<1>1. sock \in [Clients -> {"none", "up", "down", "refused"}]
  BY DEF SlotInv, SlotType
<1>2. sock'[c] = sock[c] \/ (sock'[c] = "down" /\ sock[c] # "none")
  <2>1. ASSUME NEW d \in Clients, NewConnection(d) \/ NewPipeConnection(d)
        PROVE  sock'[c] = sock[c]
    <3>1. sock[d] = "none" /\ \E v : sock' = [sock EXCEPT ![d] = v]
      BY <2>1 DEF NewConnection, NewPipeConnection, Refuse
    <3> QED BY <1>1, <3>1 DEF CameBefore
  <2>2. ASSUME NEW d \in Clients, NEW new, ReadyRead(d, new)
        PROVE  sock'[c] = sock[c] \/ (sock'[c] = "down" /\ sock[c] # "none")
    <3>1. sock[d] = "up" /\ \E v \in {"up", "down"} : sock' = [sock EXCEPT ![d] = v]
      BY <2>2 DEF ReadyRead
    <3> QED BY <1>1, <3>1
  <2>3. ASSUME NEW d \in Clients, Timeout(d) \/ Disconnected(d)
        PROVE  sock'[c] = sock[c] \/ (sock'[c] = "down" /\ sock[c] # "none")
    <3>1. sock' = [sock EXCEPT ![d] = "down"]
      BY <2>3 DEF Timeout, Disconnected
    <3> QED BY <1>1, <3>1 DEF CameBefore
  <2>4. ASSUME StartStopping
        PROVE  sock'[c] = sock[c] \/ (sock'[c] = "down" /\ sock[c] # "none")
    <3>1. sock' = [d \in Clients |-> IF d \in Served THEN "down" ELSE sock[d]]
      BY <2>4 DEF StartStopping
    <3> QED BY <1>1, <3>1 DEF CameBefore
  <2>5. ASSUME UNCHANGED sock
        PROVE  sock'[c] = sock[c]
    BY <2>5
  <2> QED
    BY <2>1, <2>2, <2>3, <2>4, <2>5
       DEF Next, CollectGarbage, Signal, WriteData, vars
<1>3. CASE exiting' = "last" /\ exiting # "last"
  <2>1. Next
    BY <1>3 DEF vars
  <2>2. Up' = {}
    BY <1>3, <2>1, DecidedWithoutClients
  <2> QED BY <1>2, <2>2 DEF CameBefore
<1>4. CASE exiting' = "last" /\ exiting = "last"
  BY <1>2, <1>4 DEF CameBefore, Up
<1>5. CASE exiting' # "last"
  BY <1>2, <1>5 DEF CameBefore
<1> QED BY <1>3, <1>4, <1>5

(* Whoever is connected before garbageData() ends the program is gone by   *)
(* the time it does.                                                       *)
THEOREM ClientsAreNotLeft == Spec => NeverLeavesAClient
<1>1. ASSUME NEW c \in Clients
      PROVE  Spec => [](c \in Up /\ exiting # "last" => [](exiting = "last" => c \notin Up))
  <2>1. c \in Up /\ exiting # "last" => CameBefore(c)
    BY DEF CameBefore, Up
  <2>2. SlotInv /\ CameBefore(c) /\ [Next]_vars => CameBefore(c)'
    BY StaysAway
  <2>3. CameBefore(c) => (exiting = "last" => c \notin Up)
    BY DEF CameBefore
  <2> QED BY <2>1, <2>2, <2>3, SlotInvariant, PTL DEF Spec
<1> QED BY <1>1 DEF NeverLeavesAClient

-----------------------------------------------------------------------------
Stream == [type : {"New", "Player", "Updinfo"}, negotiated : BOOLEAN,
           authenticated : BOOLEAN, metadata : BOOLEAN, bytes : Nat, timer : BOOLEAN]

Item == [kind : {"header", "audio", "metadata"}, is : Nat \cup Clients \cup {"initial"}]

Handled ==
  [strm : Stream, up : BOOLEAN, out : Seq(Item), started : BOOLEAN,
   title : Clients \cup {"initial"}, garbage : BOOLEAN]

\* A request is being read; it is complete.
Reading(h) == ~h.strm.negotiated /\ h.out = <<>> /\ h.strm.bytes = 0
Playing(h) == h.strm.negotiated /\ h.out = <<Header>> /\ h.strm.bytes = 0

(* One line of a request.                                                  *)
LEMMA OneLine ==
  ASSUME NEW h \in Handled, NEW c \in Clients, NEW line \in Lines, Reading(h)
  PROVE  /\ ProcessHeader(h, c, line) \in Handled
         /\ Reading(ProcessHeader(h, c, line)) \/ (line = "blank" /\ Playing(ProcessHeader(h, c, line)))
<1> DEFINE p == ProcessHeader(h, c, line)
<1>1. h.strm \in Stream
  BY DEF Handled
<1>a. h = [strm |-> h.strm, up |-> h.up, out |-> h.out, started |-> h.started,
           title |-> h.title, garbage |-> h.garbage]
  BY DEF Handled
<1>2. ASSUME NEW x \in Handled, Reading(x)
      PROVE  CloseConnection(x) \in Handled /\ Reading(CloseConnection(x))
  BY <1>2 DEF CloseConnection, Handled, Stream, Reading
<1>3. SetMetadata(h, c) \in Handled /\ Reading(SetMetadata(h, c))
  BY DEF SetMetadata, Handled, Stream, Reading
<1>4. StartStream(h) \in Handled /\ Playing(StartStream(h))
  <2>1. Header \in Item
    BY DEF Header, Item
  <2>2. Append(h.out, Header) \in Seq(Item) /\ Append(h.out, Header) = <<Header>>
    BY <2>1 DEF Handled, Reading
  <2>3. StartStream(h).out = Append(h.out, Header)
    BY DEF StartStream, Handled
  <2>4. StartStream(h).strm = [h.strm EXCEPT !.negotiated = TRUE, !.timer = FALSE]
    BY DEF StartStream, Handled, Stream
  <2> QED BY <2>2, <2>3, <2>4, <1>1 DEF StartStream, Handled, Stream, Playing, Reading
<1>5. EndOfRequest(h, c) \in Handled /\ (Reading(EndOfRequest(h, c)) \/ Playing(EndOfRequest(h, c)))
  BY <1>2, <1>3, <1>4 DEF EndOfRequest
<1>6. CASE h.strm.type = "New"
  <2>1. [h EXCEPT !.strm.type = "Player"] \in Handled /\ Reading([h EXCEPT !.strm.type = "Player"])
    BY DEF Handled, Stream, Reading
  <2>2. [h EXCEPT !.strm.type = "Updinfo"] \in Handled /\ Reading([h EXCEPT !.strm.type = "Updinfo"])
    BY DEF Handled, Stream, Reading
  <2>3. p \in {[h EXCEPT !.strm.type = "Player"], [h EXCEPT !.strm.type = "Updinfo"], CloseConnection(h), h}
    BY <1>6 DEF ProcessHeader
  <2> QED BY <1>2, <2>1, <2>2, <2>3
<1>7. CASE h.strm.type # "New" /\ line = "blank"
  <2>1. p = EndOfRequest(h, c)
    BY <1>7 DEF ProcessHeader
  <2> QED BY <1>5, <1>7, <2>1
<1>8. CASE h.strm.type # "New" /\ line # "blank"
  <2>1. [h EXCEPT !.strm.metadata = @ \/ IcyCapable] \in Handled
        /\ Reading([h EXCEPT !.strm.metadata = @ \/ IcyCapable])
    BY DEF Handled, Stream, Reading
  <2>2. [h EXCEPT !.strm.authenticated = TRUE] \in Handled /\ Reading([h EXCEPT !.strm.authenticated = TRUE])
    BY DEF Handled, Stream, Reading
  <2>3. p \in {[h EXCEPT !.strm.metadata = @ \/ IcyCapable], [h EXCEPT !.strm.authenticated = TRUE], h}
    BY <1>8 DEF ProcessHeader
  <2> QED BY <2>1, <2>2, <2>3
<1> QED BY <1>6, <1>7, <1>8

(* What can arrive is at most three lines, and an empty one is the last.   *)
LEMMA AtMostThree ==
  ASSUME NEW new \in Segments
  PROVE  /\ new \in Seq(Lines) /\ Len(new) \in 1..3
         /\ \A k \in 1..Len(new) : new[k] \in Lines /\ (new[k] = "blank" => k = Len(new))
<1>1. PICK r \in Requests : new \in UNION {{SubSeq(r, i, j) : j \in i..Len(r)} : i \in 1..Len(r)}
  BY Zenon DEF Segments
<1>2. PICK i \in 1..Len(r) : new \in {SubSeq(r, i, j) : j \in i..Len(r)}
  BY <1>1
<1>3. PICK j \in i..Len(r) : new = SubSeq(r, i, j)
  BY <1>2
<1>4. /\ r \in Seq(Lines) /\ Len(r) \in 2..3
      /\ \A k \in 1..Len(r) : r[k] = "blank" => k = Len(r)
  <2>1. CASE r = <<"GET", "blank">>
    BY <2>1 DEF Lines
  <2>2. CASE r = <<"GET", "icy-metadata", "blank">>
    BY <2>2 DEF Lines
  <2>3. CASE r = <<"BAD", "blank">>
    BY <2>3 DEF Lines
  <2>4. CASE r = <<"UPDINFO", "blank">>
    BY <2>4 DEF Lines
  <2>5. CASE r = <<"UPDINFO", "credentials", "blank">>
    BY <2>5 DEF Lines
  <2> QED BY <2>1, <2>2, <2>3, <2>4, <2>5 DEF Requests
<1>5. i \in 1..3 /\ j \in i..3 /\ j <= Len(r)
  BY <1>4
<1>6. new \in Seq(Lines) /\ Len(new) = (j + 1) - i /\ \A k \in 1..Len(new) : new[k] = r[(i + k) - 1]
  BY <1>3, <1>4, <1>5
<1>7. ASSUME NEW k \in 1..Len(new), new[k] = "blank" PROVE k = Len(new)
  <2>1. (i + k) - 1 \in 1..Len(r) /\ r[(i + k) - 1] = "blank"
    BY <1>4, <1>5, <1>6, <1>7
  <2>2. (i + k) - 1 = Len(r)
    BY <1>4, <2>1
  <2> QED BY <2>2, <1>5, <1>6
<1> QED BY <1>5, <1>6, <1>7

(* ... so that the function of ProcessLines() is the one it defines.       *)
LEMMA Steps ==
  ASSUME NEW h0, NEW c, NEW lines, Len(lines) \in 1..3
  PROVE  LET one == ProcessHeader(h0, c, lines[1])
             two == ProcessHeader(one, c, lines[2])
         IN  ProcessLines(h0, c, lines) =
               IF Len(lines) = 1 THEN one
               ELSE IF Len(lines) = 2 THEN two
               ELSE ProcessHeader(two, c, lines[3])
<1> DEFINE L == Len(lines)
           one == ProcessHeader(h0, c, lines[1])
           two == ProcessHeader(one, c, lines[2])
           three == ProcessHeader(two, c, lines[3])
           P(x, n) == ProcessHeader(x, c, lines[n])
           h == CHOOSE h : h = [n \in 0..L |-> IF n = 0 THEN h0 ELSE ProcessHeader(h[n - 1], c, lines[n])]
           g == [n \in 0..L |-> IF n = 0 THEN h0 ELSE IF n = 1 THEN one
                                ELSE IF n = 2 THEN two ELSE three]
<1>1. g = [n \in 0..L |-> IF n = 0 THEN h0 ELSE ProcessHeader(g[n - 1], c, lines[n])]
  <2> SUFFICES ASSUME NEW n \in 0..L
               PROVE  g[n] = IF n = 0 THEN h0 ELSE ProcessHeader(g[n - 1], c, lines[n])
    <3> HIDE DEF one, two, three, L
    <3> QED OBVIOUS
  <2>1. CASE n = 0
    BY <2>1
  <2>2. CASE n = 1
    <3>1. g[n] = one /\ g[n - 1] = h0
      BY <2>2
    <3> QED BY <2>2, <3>1
  <2>3. CASE n = 2
    <3>1. g[n] = two /\ g[n - 1] = one
      BY <2>3
    <3> QED BY <2>3, <3>1
  <2>4. CASE n = 3
    <3>1. g[n] = three /\ g[n - 1] = two
      BY <2>4
    <3> QED BY <2>4, <3>1
  <2> QED BY <2>1, <2>2, <2>3, <2>4
<1> HIDE DEF one, two, three, g
<1>2. h = [n \in 0..L |-> IF n = 0 THEN h0 ELSE ProcessHeader(h[n - 1], c, lines[n])]
  BY <1>1
<1>3. ProcessLines(h0, c, lines) = h[L]
  BY DEF ProcessLines
<1> HIDE DEF h
<1>4. /\ h[0] = h0 /\ h[1] = P(h[0], 1)
      /\ L >= 2 => h[2] = P(h[1], 2)
      /\ L = 3 => h[3] = P(h[2], 3)
  BY <1>2
<1>5. CASE L = 1
  BY <1>3, <1>4, <1>5 DEF one
<1>6. CASE L = 2
  BY <1>3, <1>4, <1>6 DEF one, two
<1>7. CASE L = 3
  BY <1>3, <1>4, <1>7 DEF one, two
<1> QED BY <1>5, <1>6, <1>7 DEF one, two

(* A whole segment: the request is still being read, or it is complete.    *)
LEMMA LinesRead ==
  ASSUME NEW h \in Handled, NEW c \in Clients, NEW new \in Segments, Reading(h)
  PROVE  /\ ProcessLines(h, c, new) \in Handled
         /\ Reading(ProcessLines(h, c, new)) \/ Playing(ProcessLines(h, c, new))
<1>1. /\ new \in Seq(Lines) /\ Len(new) \in 1..3
      /\ \A k \in 1..Len(new) : new[k] \in Lines /\ (new[k] = "blank" => k = Len(new))
  BY AtMostThree
<1> DEFINE one == ProcessHeader(h, c, new[1])
           two == ProcessHeader(one, c, new[2])
           three == ProcessHeader(two, c, new[3])
<1>2. one \in Handled /\ (Reading(one) \/ (new[1] = "blank" /\ Playing(one)))
  BY <1>1, OneLine
<1> HIDE DEF one
<1>3. CASE Len(new) = 1
  BY <1>1, <1>2, <1>3, Steps DEF one
<1>4. CASE Len(new) = 2
  <2>1. Reading(one)
    BY <1>1, <1>2, <1>4
  <2>2. two \in Handled /\ (Reading(two) \/ Playing(two))
    BY <1>1, <1>2, <1>4, <2>1, OneLine
  <2> QED BY <1>1, <1>4, <2>2, Steps DEF one
<1>5. CASE Len(new) = 3
  <2>1. Reading(one)
    BY <1>1, <1>2, <1>5
  <2>2. two \in Handled /\ (Reading(two) \/ (new[2] = "blank" /\ Playing(two)))
    BY <1>1, <1>2, <1>5, <2>1, OneLine
  <2> HIDE DEF two
  <2>3. Reading(two)
    BY <1>1, <1>5, <2>2
  <2>4. three \in Handled /\ (Reading(three) \/ Playing(three))
    <3>1. new[3] \in Lines
      BY <1>1, <1>5
    <3> QED BY <2>2, <2>3, <3>1, OneLine
  <2> QED BY <1>1, <1>5, <2>4, Steps DEF one, two
<1> QED BY <1>1, <1>3, <1>4, <1>5

-----------------------------------------------------------------------------
\* One metadata block and the audio before it; how many of them end before a
\* position of the body, and how far into the next one it is.
Period == Interval + 1
Whole(b) == b \div Period
Rest(b)  == b % Period

(* Quotient and remainder.                                                 *)
LEMMA Division ==
  ASSUME NEW m \in Nat \ {0}, NEW b \in Nat
  PROVE  b = (m * (b \div m)) + (b % m) /\ b \div m \in Nat /\ b % m \in 0..(m - 1)
<1>1. b = (m * (b \div m)) + (b % m)
  OBVIOUS
<1>2. b \div m \in Nat
  OBVIOUS
<1>3. b % m \in 0..(m - 1)
  OBVIOUS
<1> QED BY <1>1, <1>2, <1>3

(* Quotient and remainder are determined by their defining equation.       *)
LEMMA DivMod ==
  ASSUME NEW m \in Nat \ {0}, NEW q \in Nat, NEW r \in 0..(m - 1)
  PROVE  ((m * q) + r) % m = r /\ ((m * q) + r) \div m = q
OBVIOUS

(* ... of a body position, some items further.                             *)
LEMMA Further ==
  ASSUME NEW b \in Nat, NEW k \in Nat
  PROVE  /\ Rest(b) \in 0..Interval /\ Whole(b) \in Nat
         /\ Rest(b) + k < Period =>
              Rest(b + k) = Rest(b) + k /\ Whole(b + k) = Whole(b)
         /\ Rest(b) + k >= Period /\ Rest(b) + k < Period + Period =>
              Rest(b + k) = (Rest(b) + k) - Period /\ Whole(b + k) = Whole(b) + 1
<1> DEFINE m == Period
           q == b \div m
           r == b % m
<1>1. m \in Nat \ {0} /\ m = Interval + 1 /\ Interval \in Nat
  BY ServerAssumption DEF Period
<1> HIDE DEF m
<1>2. q \in Nat /\ r \in 0..(m - 1) /\ b = (m * q) + r
  BY <1>1, Division
<1> HIDE DEF q, r
<1>3. ASSUME r + k < m PROVE (b + k) % m = r + k /\ (b + k) \div m = q
  <2>1. r + k \in 0..(m - 1)
    BY <1>1, <1>2, <1>3
  <2>2. b + k = (m * q) + (r + k)
    BY <1>1, <1>2
  <2> QED BY <1>1, <1>2, <2>1, <2>2, DivMod
<1>4. ASSUME r + k >= m, r + k < m + m PROVE (b + k) % m = (r + k) - m /\ (b + k) \div m = q + 1
  <2>1. (r + k) - m \in 0..(m - 1)
    BY <1>1, <1>2, <1>4
  <2>2. b + k = (m * (q + 1)) + ((r + k) - m)
    <3>1. m * (q + 1) = (m * q) + m
      BY <1>1, <1>2
    <3> QED BY <1>1, <1>2, <3>1
  <2>3. q + 1 \in Nat
    BY <1>2
  <2> DEFINE q1 == q + 1
             r1 == (r + k) - m
  <2> HIDE DEF q1, r1
  <2>4. ((m * q1) + r1) % m = r1 /\ ((m * q1) + r1) \div m = q1
    <3>1. q1 \in Nat /\ r1 \in 0..(m - 1)
      BY <2>1, <2>3 DEF q1, r1
    <3> QED BY <1>1, <3>1, DivMod
  <2> QED BY <2>2, <2>4 DEF q1, r1
<1> QED BY <1>1, <1>2, <1>3, <1>4 DEF m, q, r, Rest, Whole

(* What a player is sent from byte a + 1 on: the header, then the bytes in *)
(* order, and with metadata every Period-th item is a metadata block.      *)
Marked(metadata, b) == metadata /\ Rest(b) = 0
ByteAt(metadata, a, b) == IF metadata THEN (a + b) - Whole(b) ELSE a + b

Streamed(s, metadata, a) ==
  /\ s \in Seq(Item) /\ s # <<>> /\ s[1] = Header
  /\ \A i \in 2..Len(s) :
       IF Marked(metadata, i - 1) THEN s[i].kind = "metadata"
                                  ELSE s[i] = Audio(ByteAt(metadata, a, i - 1))

\* ... up to byte p, with so many bytes since the last metadata block.
StreamedTo(s, metadata, a, p, bytes) ==
  /\ Streamed(s, metadata, a) /\ p = ByteAt(metadata, a, Len(s) - 1)
  /\ metadata => bytes = Rest(Len(s) - 1) /\ bytes < Interval

(* The items of two sequences one after the other.                         *)
LEMMA Joined ==
  ASSUME NEW s \in Seq(Item), NEW u \in Seq(Item)
  PROVE  /\ s \o u \in Seq(Item) /\ Len(s \o u) = Len(s) + Len(u)
         /\ \A i \in 1..Len(s) : (s \o u)[i] = s[i]
         /\ \A k \in 1..Len(u) : (s \o u)[Len(s) + k] = u[k]
OBVIOUS

(* Items that go on as they should continue the stream.                   *)
LEMMA Continues ==
  ASSUME NEW s, NEW metadata, NEW a, Streamed(s, metadata, a), NEW chunk \in Seq(Item),
         \A k \in 1..Len(chunk) :
           IF Marked(metadata, (Len(s) - 1) + k) THEN chunk[k].kind = "metadata"
           ELSE chunk[k] = Audio(ByteAt(metadata, a, (Len(s) - 1) + k))
  PROVE  Streamed(s \o chunk, metadata, a) /\ Len(s \o chunk) = Len(s) + Len(chunk)
<1> DEFINE L == Len(s)
<1>1. s \in Seq(Item) /\ L \in Nat \ {0} /\ Len(chunk) \in Nat
  BY DEF Streamed
<1>2. /\ s \o chunk \in Seq(Item) /\ Len(s \o chunk) = L + Len(chunk)
      /\ \A i \in 1..L : (s \o chunk)[i] = s[i]
      /\ \A k \in 1..Len(chunk) : (s \o chunk)[L + k] = chunk[k]
  BY <1>1
<1>3. s \o chunk # <<>>
  BY <1>1, <1>2
<1>4. (s \o chunk)[1] = Header
  BY <1>1, <1>2 DEF Streamed
<1>5. ASSUME NEW i \in 2..(L + Len(chunk))
      PROVE  IF Marked(metadata, i - 1) THEN (s \o chunk)[i].kind = "metadata"
             ELSE (s \o chunk)[i] = Audio(ByteAt(metadata, a, i - 1))
  <2>1. CASE i <= L
    BY <2>1, <1>1, <1>2 DEF Streamed
  <2>2. CASE i > L
    <3> DEFINE k == i - L
    <3>1. k \in 1..Len(chunk) /\ (L - 1) + k = i - 1 /\ L + k = i
      BY <2>2, <1>1
    <3>2. (s \o chunk)[i] = chunk[k]
      BY <3>1, <1>2
    <3> HIDE DEF k
    <3> QED BY <3>1, <3>2
  <2> QED BY <2>1, <2>2, <1>1
<1> QED BY <1>2, <1>3, <1>4, <1>5 DEF Streamed

(* A block.                                                                *)
LEMMA BlockItems ==
  ASSUME NEW f \in Nat, NEW n \in Nat
  PROVE  /\ Block(f, n) \in Seq(Item) /\ Len(Block(f, n)) = n
         /\ \A k \in 1..n : Block(f, n)[k] = Audio(f + k)
<1>1. \A k \in 1..n : Audio(f + k) \in Item
  BY DEF Audio, Item
<1>2. Block(f, n) = [k \in 1..n |-> Audio(f + k)]
  BY DEF Block
<1>3. [k \in 1..n |-> Audio(f + k)] \in Seq(Item)
  BY <1>1
<1> QED BY <1>2, <1>3

(* n bytes after the first f with a metadata block after cut of them.      *)
Spliced(chunk, f, n, cut) ==
  /\ chunk \in Seq(Item) /\ Len(chunk) = n + 1
  /\ \A k \in 1..(n + 1) :
       /\ k <= cut => chunk[k] = Audio(f + k)
       /\ k = cut + 1 => chunk[k].kind = "metadata"
       /\ k > cut + 1 => chunk[k] = Audio((f + k) - 1)

(* A block with a metadata block in it.                                    *)
LEMMA CutBlock ==
  ASSUME NEW f \in Nat, NEW n \in Nat, NEW cut \in 0..n, NEW t \in Clients \cup {"initial"}
  PROVE  Spliced(Block(f, cut) \o <<Metadata(t)>> \o Block(f + cut, n - cut), f, n, cut)
<1> DEFINE first == Block(f, cut)
           mark  == <<Metadata(t)>>
           rest  == Block(f + cut, n - cut)
           chunk == first \o mark \o rest
<1>0. cut \in Nat /\ n - cut \in Nat /\ f + cut \in Nat
  OBVIOUS
<1>1. first \in Seq(Item) /\ Len(first) = cut /\ \A k \in 1..cut : first[k] = Audio(f + k)
  BY <1>0, BlockItems
<1>2. /\ rest \in Seq(Item) /\ Len(rest) = n - cut
      /\ \A k \in 1..(n - cut) : rest[k] = Audio((f + cut) + k)
  <2> DEFINE f1 == f + cut
             n1 == n - cut
  <2> HIDE DEF f1, n1
  <2>1. Block(f1, n1) \in Seq(Item) /\ Len(Block(f1, n1)) = n1
        /\ \A k \in 1..n1 : Block(f1, n1)[k] = Audio(f1 + k)
    <3>1. f1 \in Nat /\ n1 \in Nat
      BY <1>0 DEF f1, n1
    <3> QED BY <3>1, BlockItems
  <2> QED BY <2>1 DEF f1, n1
<1>3. mark \in Seq(Item) /\ Len(mark) = 1 /\ mark[1] = Metadata(t) /\ Metadata(t).kind = "metadata"
  BY DEF Metadata, Item
<1> HIDE DEF first, mark, rest
<1> DEFINE two == first \o mark
<1>a. /\ two \in Seq(Item) /\ Len(two) = cut + 1
      /\ \A k \in 1..cut : two[k] = first[k]
      /\ two[cut + 1] = mark[1]
  <2>1. /\ two \in Seq(Item) /\ Len(two) = Len(first) + Len(mark)
        /\ \A k \in 1..Len(first) : two[k] = first[k]
        /\ \A k \in 1..Len(mark) : two[Len(first) + k] = mark[k]
    BY <1>1, <1>3, Joined
  <2>2. Len(mark) = 1 /\ Len(first) = cut /\ 1 \in 1..1
    BY <1>1, <1>3
  <2> QED BY <2>1, <2>2
<1> HIDE DEF two
<1>b. /\ two \o rest \in Seq(Item) /\ Len(two \o rest) = (cut + 1) + (n - cut)
      /\ \A k \in 1..(cut + 1) : (two \o rest)[k] = two[k]
      /\ \A k \in 1..(n - cut) : (two \o rest)[(cut + 1) + k] = rest[k]
  <2>1. /\ two \o rest \in Seq(Item) /\ Len(two \o rest) = Len(two) + Len(rest)
        /\ \A k \in 1..Len(two) : (two \o rest)[k] = two[k]
        /\ \A k \in 1..Len(rest) : (two \o rest)[Len(two) + k] = rest[k]
    BY <1>2, <1>a, Joined
  <2>2. Len(two) = cut + 1 /\ Len(rest) = n - cut
    BY <1>2, <1>a
  <2> QED BY <2>1, <2>2
<1>c. chunk = two \o rest
  BY DEF two
<1> HIDE DEF chunk
<1>4. chunk \in Seq(Item) /\ Len(chunk) = n + 1
  <2>1. (cut + 1) + (n - cut) = n + 1
    BY <1>0
  <2> QED BY <1>b, <1>c, <2>1
<1>5. /\ \A k \in 1..cut : chunk[k] = first[k]
      /\ chunk[cut + 1] = mark[1]
      /\ \A k \in 1..(n - cut) : chunk[(cut + 1) + k] = rest[k]
  <2>1. cut + 1 \in 1..(cut + 1) /\ \A k \in 1..cut : k \in 1..(cut + 1)
    BY <1>0
  <2> QED BY <1>a, <1>b, <1>c, <2>1
<1>6. ASSUME NEW k \in 1..(n + 1), k > cut + 1 PROVE chunk[k] = Audio((f + k) - 1)
  <2> DEFINE j == k - (cut + 1)
  <2>1. j \in 1..(n - cut) /\ (cut + 1) + j = k /\ (f + cut) + j = (f + k) - 1
    BY <1>0, <1>6
  <2> HIDE DEF j
  <2>2. chunk[k] = rest[j]
    BY <1>5, <2>1
  <2> QED BY <1>2, <2>1, <2>2
<1>7. \A k \in 1..(n + 1) : (k <= cut => k \in 1..cut)
  BY <1>0
<1>8. \A k \in 1..(n + 1) :
        /\ k <= cut => chunk[k] = Audio(f + k)
        /\ k = cut + 1 => chunk[k].kind = "metadata"
        /\ k > cut + 1 => chunk[k] = Audio((f + k) - 1)
  BY <1>1, <1>3, <1>5, <1>6, <1>7
<1>9. Spliced(chunk, f, n, cut)
  BY <1>4, <1>8 DEF Spliced
<1> QED BY <1>9 DEF chunk, first, mark, rest

(* What a block of n bytes adds continues the stream: with a metadata      *)
(* block where it is due, ...                                              *)
LEMMA DueContinues ==
  ASSUME NEW s, NEW metadata \in BOOLEAN, metadata, NEW a \in Nat, NEW p \in Nat, NEW n \in Nat, n \in 1..Interval,
         NEW t \in Clients \cup {"initial"}, NEW bytes \in Nat,
         StreamedTo(s, metadata, a, p, bytes), bytes + n >= Interval
  PROVE  LET cut == n - ((bytes + n) - Interval)
         IN  StreamedTo(s \o (Block(p, cut) \o <<Metadata(t)>> \o Block(p + cut, n - cut)),
                        metadata, a, p + n, (bytes + n) - Interval)
<1> DEFINE b == Len(s) - 1
           cut == n - ((bytes + n) - Interval)
           chunk == Block(p, cut) \o <<Metadata(t)>> \o Block(p + cut, n - cut)
<1>0. Streamed(s, metadata, a) /\ p = ByteAt(metadata, a, b) /\ bytes = Rest(b) /\ bytes < Interval
  BY DEF StreamedTo
<1>1. Len(s) \in Nat /\ b \in Nat /\ Interval \in Nat \ {0} /\ Period = Interval + 1
  BY <1>0, ServerAssumption DEF Streamed, Period
<1>2. cut = Interval - bytes /\ cut \in 0..n /\ cut \in Nat
  BY <1>0, <1>1
<1> HIDE DEF cut
<1>3. /\ chunk \in Seq(Item) /\ Len(chunk) = n + 1
      /\ \A k \in 1..(n + 1) :
           /\ k <= cut => chunk[k] = Audio(p + k)
           /\ k = cut + 1 => chunk[k].kind = "metadata"
           /\ k > cut + 1 => chunk[k] = Audio((p + k) - 1)
  <2>1. p \in Nat /\ n \in Nat /\ cut \in 0..n /\ t \in Clients \cup {"initial"}
    BY <1>2
  <2>2. Spliced(chunk, p, n, cut)
    BY ONLY <2>1, CutBlock DEF chunk
  <2> HIDE DEF chunk
  <2> QED BY ONLY <2>2 DEF Spliced
<1> HIDE DEF chunk
<1>5. Whole(b) \in Nat /\ p = (a + b) - Whole(b)
  BY <1>0, <1>1, Further DEF ByteAt
<1>b. Len(s) = b + 1
  BY <1>1
<1> HIDE DEF b
<1>6. ASSUME NEW k \in Nat, k \in 1..(n + 1), k <= cut
      PROVE  ~Marked(metadata, b + k) /\ ByteAt(metadata, a, b + k) = p + k
  <2>1. Rest(b) + k < Period
    BY <1>0, <1>1, <1>2, <1>6
  <2>2. Rest(b + k) = Rest(b) + k /\ Whole(b + k) = Whole(b)
    BY <1>1, <2>1, Further
  <2>3. Rest(b + k) # 0
    BY <1>0, <1>6, <2>2
  <2>4. (a + (b + k)) - Whole(b) = p + k
    BY <1>1, <1>5
  <2> QED BY <2>2, <2>3, <2>4 DEF Marked, ByteAt
<1>7. ASSUME NEW k \in Nat, k \in 1..(n + 1), k > cut
      PROVE  /\ Rest(b + k) = (bytes + k) - Period
             /\ ByteAt(metadata, a, b + k) = (p + k) - 1
  <2>1. Rest(b) + k >= Period /\ Rest(b) + k < Period + Period
    BY <1>0, <1>1, <1>2, <1>7
  <2>2. Rest(b + k) = (Rest(b) + k) - Period /\ Whole(b + k) = Whole(b) + 1
    BY <1>1, <2>1, Further
  <2>4. (a + (b + k)) - (Whole(b) + 1) = (p + k) - 1
    BY <1>1, <1>5
  <2> QED BY <1>0, <2>2, <2>4 DEF ByteAt
<1>8. ASSUME NEW k \in Nat, k \in 1..(n + 1)
      PROVE  IF Marked(metadata, b + k) THEN chunk[k].kind = "metadata"
             ELSE chunk[k] = Audio(ByteAt(metadata, a, b + k))
  <2>1. CASE k <= cut
    BY <1>3, <1>6, <1>8, <2>1
  <2>2. CASE k = cut + 1
    <3>0. k > cut
      BY <1>2, <2>2
    <3>1. Rest(b + k) = 0
      <4>1. Rest(b + k) = (bytes + k) - Period
        BY <1>7, <1>8, <3>0
      <4> QED BY <1>1, <1>2, <2>2, <4>1
    <3>2. Marked(metadata, b + k)
      BY <3>1 DEF Marked
    <3> QED BY <1>3, <1>8, <2>2, <3>2
  <2>3. CASE k > cut + 1
    <3>0. k > cut
      BY <1>2, <2>3
    <3>1. Rest(b + k) = (bytes + k) - Period /\ ByteAt(metadata, a, b + k) = (p + k) - 1
      BY <1>7, <1>8, <3>0
    <3>2. Rest(b + k) # 0
      BY <1>1, <1>2, <2>3, <3>1
    <3>3. ~Marked(metadata, b + k)
      BY <3>2 DEF Marked
    <3> QED BY <1>3, <1>8, <2>3, <3>1, <3>3
  <2>4. k <= cut \/ k = cut + 1 \/ k > cut + 1
    BY <1>2
  <2> QED BY <2>1, <2>2, <2>3, <2>4
<1>9. Streamed(s \o chunk, metadata, a) /\ Len(s \o chunk) = Len(s) + Len(chunk)
  <2>1. \A k \in 1..Len(chunk) :
           IF Marked(metadata, (Len(s) - 1) + k) THEN chunk[k].kind = "metadata"
           ELSE chunk[k] = Audio(ByteAt(metadata, a, (Len(s) - 1) + k))
    <3>1. \A k \in 1..(n + 1) : k \in Nat
      OBVIOUS
    <3> QED BY <1>3, <1>8, <3>1 DEF b
  <2>2. chunk \in Seq(Item) /\ Streamed(s, metadata, a)
    BY <1>0, <1>3
  <2> QED BY ONLY <2>1, <2>2, Continues
<1>10. Len(s \o chunk) - 1 = b + (n + 1)
  BY <1>1, <1>3, <1>9, <1>b
<1>11. /\ Rest(b + (n + 1)) = (bytes + (n + 1)) - Period
       /\ ByteAt(metadata, a, b + (n + 1)) = (p + (n + 1)) - 1
  <2>1. n + 1 \in Nat /\ n + 1 \in 1..(n + 1) /\ n + 1 > cut
    BY <1>2
  <2> QED BY <1>7, <2>1
<1>12. p + n = (p + (n + 1)) - 1
  OBVIOUS
<1>13. (bytes + n) - Interval = (bytes + (n + 1)) - Period /\ (bytes + n) - Interval < Interval
  BY <1>0, <1>1
<1>14. StreamedTo(s \o chunk, metadata, a, p + n, (bytes + n) - Interval)
  BY <1>9, <1>10, <1>11, <1>12, <1>13 DEF StreamedTo
<1> QED BY <1>14 DEF chunk, cut

(* ... and without one where it is not.                                    *)
LEMMA PlainContinues ==
  ASSUME NEW s, NEW metadata \in BOOLEAN, NEW a \in Nat, NEW p \in Nat, NEW n \in Nat,
         NEW bytes \in Nat,
         StreamedTo(s, metadata, a, p, bytes), metadata => bytes + n < Interval
  PROVE  StreamedTo(s \o Block(p, n), metadata, a, p + n, bytes + n)
<1> DEFINE b == Len(s) - 1
           chunk == Block(p, n)
<1>0. Streamed(s, metadata, a) /\ p = ByteAt(metadata, a, b) /\ (metadata => bytes = Rest(b))
  BY DEF StreamedTo
<1>1. Len(s) \in Nat /\ b \in Nat /\ Interval \in Nat \ {0} /\ Period = Interval + 1
  BY <1>0, ServerAssumption DEF Streamed, Period
<1>2. chunk \in Seq(Item) /\ Len(chunk) = n /\ \A k \in 1..n : chunk[k] = Audio(p + k)
  BY BlockItems
<1>b. Len(s) = b + 1
  BY <1>1
<1> HIDE DEF b, chunk
<1>5. ASSUME NEW k \in Nat, k <= n
      PROVE  /\ ByteAt(metadata, a, b + k) = p + k
             /\ metadata => Rest(b + k) = bytes + k
  <2>1. CASE metadata
    <3>1. Rest(b) + k < Period /\ Rest(b) = bytes
      BY <1>0, <1>1, <1>5, <2>1
    <3>2. Rest(b + k) = Rest(b) + k /\ Whole(b + k) = Whole(b) /\ Whole(b) \in Nat
      BY <1>1, <3>1, Further
    <3>3. p = (a + b) - Whole(b)
      BY <1>0, <2>1 DEF ByteAt
    <3>4. (a + (b + k)) - Whole(b) = p + k
      BY <1>1, <3>2, <3>3
    <3> QED BY <2>1, <3>1, <3>2, <3>4 DEF ByteAt
  <2>2. CASE ~metadata
    <3>1. p = a + b
      BY <1>0, <2>2 DEF ByteAt
    <3>2. a + (b + k) = p + k
      BY <1>1, <3>1
    <3> QED BY <2>2, <3>2 DEF ByteAt
  <2> QED BY <2>1, <2>2
<1>6. ASSUME NEW k \in 1..n
      PROVE  IF Marked(metadata, b + k) THEN chunk[k].kind = "metadata"
             ELSE chunk[k] = Audio(ByteAt(metadata, a, b + k))
  <2>0. k \in Nat /\ k <= n /\ k # 0
    OBVIOUS
  <2>1. /\ ByteAt(metadata, a, b + k) = p + k
        /\ metadata => Rest(b + k) = bytes + k
    BY <1>5, <2>0
  <2>2. ~Marked(metadata, b + k)
    BY <2>0, <2>1 DEF Marked
  <2> QED BY <1>2, <2>1, <2>2
<1>7. Streamed(s \o chunk, metadata, a) /\ Len(s \o chunk) = Len(s) + Len(chunk)
  <2>1. \A k \in 1..Len(chunk) :
           IF Marked(metadata, (Len(s) - 1) + k) THEN chunk[k].kind = "metadata"
           ELSE chunk[k] = Audio(ByteAt(metadata, a, (Len(s) - 1) + k))
    BY <1>2, <1>6 DEF b
  <2>2. chunk \in Seq(Item) /\ Streamed(s, metadata, a)
    BY <1>0, <1>2
  <2> QED BY ONLY <2>1, <2>2, Continues
<1>8. Len(s \o chunk) - 1 = b + n
  BY <1>1, <1>2, <1>7, <1>b
<1>9. ByteAt(metadata, a, b + n) = p + n /\ (metadata => Rest(b + n) = bytes + n)
  BY <1>5
<1>10. StreamedTo(s \o chunk, metadata, a, p + n, bytes + n)
  BY <1>7, <1>8, <1>9 DEF StreamedTo
<1> QED BY <1>10 DEF chunk

-----------------------------------------------------------------------------
\* A client: its stream, the state of its socket, what it was sent, and the
\* bytes encoded so far.
Player(s, so, o, p) ==
  /\ s.bytes <= p /\ (s.metadata => s.bytes < Interval)
  /\ so = "none" => ~s.negotiated
  /\ ~s.negotiated => o = <<>> /\ s.bytes = 0
  /\ s.negotiated => \E a \in Nat :
       /\ Streamed(o, s.metadata, a)
       /\ so = "up" => StreamedTo(o, s.metadata, a, p, s.bytes)

Sockets == {"none", "up", "down", "refused"}

StreamType ==
  /\ strm \in [Clients -> Stream] /\ out \in [Clients -> Seq(Item)]
  /\ got \in [Clients -> Seq(Lines)]
  /\ \A c \in Clients : got[c] = <<>> \/ \E r \in Requests : IsPrefix(got[c], r)
  /\ pos \in Nat /\ pos <= MaxBytes
  /\ title \in Clients \cup {"initial"}
  /\ garbage \in BOOLEAN /\ unmuted \in BOOLEAN /\ stopped \in BOOLEAN
  /\ exiting \in {"no", "last", "signal"}

PlayersInv == \A c \in Clients : Player(strm[c], sock[c], out[c], pos)

(* A response header starts a stream at any byte.                          *)
LEMMA Starts ==
  ASSUME NEW metadata \in BOOLEAN, NEW p \in Nat
  PROVE  StreamedTo(<<Header>>, metadata, p, p, 0) /\ <<Header>> \in Seq(Item)
<1>1. Rest(0) = 0 /\ Whole(0) = 0 /\ Interval > 0
  <2>1. Period \in Nat \ {0} /\ Interval > 0 /\ 0 \in Nat /\ Period - 1 \in Nat
    BY ServerAssumption DEF Period
  <2>2. 0 = (Period * 0) + 0 /\ 0 \in 0..(Period - 1)
    BY <2>1
  <2>3. 0 % Period = 0 /\ 0 \div Period = 0
    BY <2>1, <2>2, DivMod
  <2> QED BY <2>1, <2>3 DEF Rest, Whole
<1>2. Header \in Item
  BY DEF Header, Item
<1>3. <<Header>> \in Seq(Item) /\ Len(<<Header>>) = 1 /\ <<Header>>[1] = Header /\ <<Header>> # <<>>
  BY <1>2
<1>4. Streamed(<<Header>>, metadata, p)
  BY <1>3 DEF Streamed
<1>5. Len(<<Header>>) - 1 = 0
  BY <1>3
<1>6. ByteAt(metadata, p, 0) = p
  BY <1>1 DEF ByteAt
<1> QED BY <1>1, <1>3, <1>4, <1>5, <1>6 DEF StreamedTo

(* A client that has gone, or was never there.                             *)
LEMMA Forgotten ==
  ASSUME NEW so, NEW p \in Nat
  PROVE  Player(NewStream, so, <<>>, p) /\ NewStream \in Stream /\ <<>> \in Seq(Item)
<1>1. NewStream.bytes = 0 /\ NewStream.negotiated = FALSE /\ NewStream.metadata = FALSE
  BY DEF NewStream
<1>2. Player(NewStream, so, <<>>, p)
  BY <1>1 DEF Player
<1>3. NewStream \in Stream
  BY DEF NewStream, Stream
<1> QED BY <1>2, <1>3

(* A connection that closes.                                               *)
LEMMA Closes ==
  ASSUME NEW s \in Stream, NEW so \in Sockets, so # "none", NEW o, NEW p \in Nat, Player(s, so, o, p),
         NEW v \in {"up", "down"}, v = "up" => so = "up",
         NEW s2 \in Stream, s2.bytes = s.bytes, s2.metadata = s.metadata, s2.negotiated = s.negotiated
  PROVE  Player(s2, v, o, p)
BY DEF Player

(* A block for one client.                                                 *)
LEMMA Listened ==
  ASSUME NEW s \in Stream, NEW o \in Seq(Item), NEW p \in Nat, NEW n \in Nat, n \in 1..Interval,
         NEW t \in Clients \cup {"initial"}, Player(s, "up", o, p), s.negotiated
  PROVE  LET total == s.bytes + n
             due   == s.metadata /\ total >= Interval
             cut   == n - (total - Interval)
             left  == IF due THEN total - Interval ELSE total
             chunk == IF due THEN Block(p, cut) \o <<Metadata(t)>> \o Block(p + cut, n - cut)
                             ELSE Block(p, n)
         IN  /\ Player([s EXCEPT !.bytes = left], "up", o \o chunk, p + n)
             /\ [s EXCEPT !.bytes = left] \in Stream /\ o \o chunk \in Seq(Item)
<1> DEFINE total == s.bytes + n
           due   == s.metadata /\ total >= Interval
           cut   == n - (total - Interval)
           left  == IF due THEN total - Interval ELSE total
           chunk == IF due THEN Block(p, cut) \o <<Metadata(t)>> \o Block(p + cut, n - cut)
                           ELSE Block(p, n)
           s2 == [s EXCEPT !.bytes = left]
<1>1. s.bytes \in Nat /\ s.metadata \in BOOLEAN /\ s.bytes <= p /\ (s.metadata => s.bytes < Interval)
      /\ Interval \in Nat
  BY ServerAssumption DEF Stream, Player
<1>2. PICK a \in Nat : StreamedTo(o, s.metadata, a, p, s.bytes)
  BY DEF Player
<1>3. left \in Nat /\ left <= p + n /\ (s.metadata => left < Interval)
  BY <1>1
<1>4. StreamedTo(o \o chunk, s.metadata, a, p + n, left)
  <2>1. CASE due
    <3>1. StreamedTo(o \o (Block(p, cut) \o <<Metadata(t)>> \o Block(p + cut, n - cut)),
                     s.metadata, a, p + n, total - Interval)
      BY <1>1, <1>2, <2>1, DueContinues
    <3> QED BY <2>1, <3>1
  <2>2. CASE ~due
    <3>1. s.metadata => total < Interval
      BY <1>1, <2>2
    <3>2. StreamedTo(o \o Block(p, n), s.metadata, a, p + n, total)
      BY <1>1, <1>2, <3>1, PlainContinues
    <3> QED BY <2>2, <3>2
  <2> QED BY <2>1, <2>2
<1>5. Streamed(o \o chunk, s.metadata, a) /\ o \o chunk \in Seq(Item)
  BY <1>4 DEF StreamedTo, Streamed
<1> HIDE DEF left, chunk
<1>6. s2 \in Stream /\ s2.bytes = left /\ s2.metadata = s.metadata /\ s2.negotiated = s.negotiated
  BY <1>3 DEF Stream
<1> HIDE DEF s2
<1>7. Player(s2, "up", o \o chunk, p + n)
  BY <1>3, <1>4, <1>5, <1>6 DEF Player
<1> QED BY <1>5, <1>6, <1>7 DEF left, chunk, s2

(* ... and for one that is not connected any more.                         *)
LEMMA Unheard ==
  ASSUME NEW s \in Stream, NEW so \in Sockets, so # "up", NEW o, NEW p \in Nat, NEW n \in Nat, n \in 1..Interval,
         Player(s, so, o, p), s.negotiated
  PROVE  LET total == s.bytes + n
             left  == IF s.metadata /\ total >= Interval THEN total - Interval ELSE total
         IN  /\ Player([s EXCEPT !.bytes = left], so, o, p + n)
             /\ [s EXCEPT !.bytes = left] \in Stream
<1> DEFINE total == s.bytes + n
           left  == IF s.metadata /\ total >= Interval THEN total - Interval ELSE total
           s2 == [s EXCEPT !.bytes = left]
<1>1. s.bytes \in Nat /\ s.metadata \in BOOLEAN /\ s.bytes <= p /\ (s.metadata => s.bytes < Interval)
      /\ Interval \in Nat
  BY ServerAssumption DEF Stream, Player
<1>2. PICK a \in Nat : Streamed(o, s.metadata, a)
  BY DEF Player
<1>3. left \in Nat /\ left <= p + n /\ (s.metadata => left < Interval)
  BY <1>1
<1> HIDE DEF left
<1>4. s2 \in Stream /\ s2.bytes = left /\ s2.metadata = s.metadata /\ s2.negotiated = s.negotiated
  BY <1>3 DEF Stream
<1> HIDE DEF s2
<1>5. Player(s2, so, o, p + n)
  BY <1>2, <1>3, <1>4 DEF Player
<1> QED BY <1>4, <1>5 DEF left, s2

-----------------------------------------------------------------------------
HearInv == StreamType /\ PlayersInv

(* Before any connection nothing has been read or sent.                    *)
LEMMA HearInvInit == Init => HearInv
<1> SUFFICES ASSUME Init PROVE HearInv
  OBVIOUS
<1>1. StreamType
  <2>1. NewStream \in Stream /\ <<>> \in Seq(Item)
    BY Forgotten
  <2>2. <<>> \in Seq(Lines)
    OBVIOUS
  <2>3. strm \in [Clients -> Stream]
    BY <2>1 DEF Init
  <2>4. out \in [Clients -> Seq(Item)]
    BY <2>1 DEF Init
  <2>5. got \in [Clients -> Seq(Lines)] /\ \A c \in Clients : got[c] = <<>>
    BY <2>2 DEF Init
  <2>6. unmuted \in BOOLEAN
    BY DEF Init
  <2>7. pos \in Nat /\ pos <= MaxBytes
    BY ServerAssumption DEF Init
  <2> QED BY <2>3, <2>4, <2>5, <2>6, <2>7 DEF Init, StreamType
<1>2. PlayersInv
  BY Forgotten DEF Init, PlayersInv
<1> QED BY <1>1, <1>2 DEF HearInv

(* One client changes.                                                     *)
LEMMA OneChanges ==
  ASSUME SlotType, HearInv, NEW c \in Clients, NEW s \in Stream, NEW so \in Sockets, NEW o \in Seq(Item),
         Player(s, so, o, pos), pos' = pos,
         strm' = [strm EXCEPT ![c] = s], sock' = [sock EXCEPT ![c] = so], out' = [out EXCEPT ![c] = o]
  PROVE  /\ strm' \in [Clients -> Stream] /\ out' \in [Clients -> Seq(Item)]
         /\ PlayersInv'
<1>1. strm' \in [Clients -> Stream] /\ out' \in [Clients -> Seq(Item)]
  BY DEF HearInv, StreamType
<1>2. ASSUME NEW d \in Clients PROVE Player(strm'[d], sock'[d], out'[d], pos')
  <2>1. CASE d = c
    BY <2>1 DEF HearInv, StreamType, SlotType
  <2>2. CASE d # c
    BY <2>2 DEF HearInv, StreamType, SlotType, PlayersInv
  <2> QED BY <2>1, <2>2
<1> QED BY <1>1, <1>2 DEF PlayersInv

(* The clients whose stream is deleted.                                    *)
LEMMA Deleted ==
  ASSUME SlotType, HearInv, NEW D, Delete(D), pos' = pos,
         \A c \in Clients \ D : sock'[c] = sock[c]
  PROVE  /\ strm' \in [Clients -> Stream] /\ out' \in [Clients -> Seq(Item)]
         /\ got' \in [Clients -> Seq(Lines)]
         /\ \A c \in Clients : got'[c] = <<>> \/ \E r \in Requests : IsPrefix(got'[c], r)
         /\ PlayersInv'
<1>1. NewStream \in Stream /\ <<>> \in Seq(Item) /\ <<>> \in Seq(Lines) /\ pos \in Nat
  BY Forgotten DEF HearInv, StreamType
<1>2. strm' \in [Clients -> Stream]
  BY <1>1 DEF HearInv, StreamType, Delete
<1>3. out' \in [Clients -> Seq(Item)]
  BY <1>1 DEF HearInv, StreamType, Delete
<1>4. got' \in [Clients -> Seq(Lines)]
  BY <1>1 DEF HearInv, StreamType, Delete
<1>5. \A c \in Clients : got'[c] = <<>> \/ \E r \in Requests : IsPrefix(got'[c], r)
  BY DEF HearInv, StreamType, Delete
<1>6. ASSUME NEW c \in Clients PROVE Player(strm'[c], sock'[c], out'[c], pos')
  <2>1. CASE c \in D
    <3>1. strm'[c] = NewStream /\ out'[c] = <<>>
      BY <2>1 DEF Delete
    <3> QED BY <1>1, <3>1, Forgotten
  <2>2. CASE c \notin D
    <3>1. strm'[c] = strm[c] /\ out'[c] = out[c] /\ sock'[c] = sock[c]
      BY <2>2 DEF Delete
    <3> QED BY <3>1 DEF HearInv, PlayersInv
  <2> QED BY <2>1, <2>2
<1> QED BY <1>2, <1>3, <1>4, <1>5, <1>6 DEF PlayersInv

(* A line read, an answer sent or a block of audio cut at a title keeps every *)
(* client's stream in its closed form; the other events leave it alone.    *)
LEMMA HearInvNext == SlotInv /\ HearInv /\ [Next]_vars => HearInv'
<1> SUFFICES ASSUME SlotInv, HearInv, [Next]_vars PROVE HearInv'
  OBVIOUS
<1>0. /\ SlotType /\ StreamType /\ pos \in Nat
      /\ \A c \in Clients : /\ Player(strm[c], sock[c], out[c], pos)
                           /\ strm[c] \in Stream /\ sock[c] \in Sockets /\ out[c] \in Seq(Item)
                           /\ got[c] \in Seq(Lines)
  BY DEF SlotInv, HearInv, StreamType, SlotType, PlayersInv, Sockets
<1>1. ASSUME NEW c \in Clients, NewConnection(c) PROVE HearInv'
  <2>1. ~strm[c].negotiated /\ sock[c] = "none" /\ strm[c].metadata \in BOOLEAN
    BY <1>0, <1>1 DEF NewConnection, Player, Stream
  <2>2. strm'[c] = strm[c] \/ strm'[c] = [strm[c] EXCEPT !.timer = TRUE]
    BY <1>0, <1>1 DEF NewConnection, Refuse, StreamType, ArmedTimer
  <2>3. PICK s \in Stream : /\ s.bytes = strm[c].bytes /\ s.metadata = strm[c].metadata
                            /\ s.negotiated = strm[c].negotiated /\ strm' = [strm EXCEPT ![c] = s]
    <3>1. CASE strm' = strm
      BY <3>1, <1>0 DEF StreamType
    <3>2. CASE strm' = [strm EXCEPT ![c].timer = TRUE]
      <4> DEFINE s == [strm[c] EXCEPT !.timer = TRUE]
      <4>1. s \in Stream /\ s.bytes = strm[c].bytes /\ s.metadata = strm[c].metadata
            /\ s.negotiated = strm[c].negotiated
        BY <1>0 DEF Stream
      <4>2. strm' = [strm EXCEPT ![c] = s]
        BY <3>2
      <4> QED BY <4>1, <4>2
    <3> QED BY <1>1, <3>1, <3>2 DEF NewConnection, Refuse, ArmedTimer
  <2>4. PICK v \in {"up", "refused"} : sock' = [sock EXCEPT ![c] = v]
    BY <1>1 DEF NewConnection, Refuse
  <2>5. Player(s, v, out[c], pos)
    BY <1>0, <2>1, <2>3 DEF Player
  <2>6. out' = [out EXCEPT ![c] = out[c]] /\ pos' = pos
    BY <1>0, <1>1 DEF NewConnection, Refuse, StreamType
  <2>7. strm' \in [Clients -> Stream] /\ out' \in [Clients -> Seq(Item)] /\ PlayersInv'
    BY <1>0, <2>3, <2>4, <2>5, <2>6, OneChanges DEF Sockets
  <2> QED BY <1>0, <1>1, <2>7 DEF NewConnection, Refuse, HearInv, StreamType
<1>2. ASSUME NEW c \in Clients, NewPipeConnection(c) PROVE HearInv'
  <2>1. ~strm[c].negotiated /\ sock[c] = "none" /\ strm[c].metadata \in BOOLEAN /\ strm[c].bytes = 0
    BY <1>0, <1>2 DEF NewPipeConnection, Player, Stream
  <2>2. CASE Full(slots)
    <3>1. strm' = [strm EXCEPT ![c] = strm[c]] /\ out' = [out EXCEPT ![c] = out[c]] /\ pos' = pos
          /\ sock' = [sock EXCEPT ![c] = "refused"]
      BY <1>0, <1>2, <2>2 DEF NewPipeConnection, Refuse, StreamType
    <3>2. Player(strm[c], "refused", out[c], pos)
      BY <1>0, <2>1 DEF Player
    <3>3. strm' \in [Clients -> Stream] /\ out' \in [Clients -> Seq(Item)] /\ PlayersInv'
      BY <1>0, <3>1, <3>2, OneChanges DEF Sockets
    <3> QED BY <1>0, <1>2, <3>3, <2>2 DEF NewPipeConnection, Refuse, HearInv, StreamType
  <2>3. CASE ~Full(slots)
    <3> DEFINE s == [strm[c] EXCEPT !.negotiated = TRUE]
    <3>1. strm' = [strm EXCEPT ![c] = s] /\ out' = [out EXCEPT ![c] = <<Header>>] /\ pos' = pos
          /\ sock' = [sock EXCEPT ![c] = "up"]
      BY <1>0, <1>2, <2>3 DEF NewPipeConnection, StreamType
    <3>2. s \in Stream /\ s.negotiated /\ s.metadata = strm[c].metadata /\ s.bytes = 0
      BY <1>0, <2>1 DEF Stream
    <3> HIDE DEF s
    <3>3. Player(s, "up", <<Header>>, pos) /\ <<Header>> \in Seq(Item)
      BY <1>0, <2>1, <3>2, Starts, ServerAssumption DEF Player, StreamedTo
    <3>4. strm' \in [Clients -> Stream] /\ out' \in [Clients -> Seq(Item)] /\ PlayersInv'
      BY <1>0, <3>1, <3>2, <3>3, OneChanges DEF Sockets
    <3> QED BY <1>0, <1>2, <3>4, <2>3 DEF NewPipeConnection, HearInv, StreamType
  <2> QED BY <2>2, <2>3
<1>3. ASSUME NEW c \in Clients, NEW new \in Segments, ReadyRead(c, new) PROVE HearInv'
  <2> DEFINE h0 == [strm |-> strm[c], up |-> TRUE, out |-> out[c], started |-> FALSE,
                    title |-> title, garbage |-> garbage]
             h  == IF strm[c].negotiated THEN h0 ELSE ProcessLines(h0, c, new)
  <2>1. /\ strm' = [strm EXCEPT ![c] = h.strm]
        /\ sock' = [sock EXCEPT ![c] = IF h.up THEN "up" ELSE "down"]
        /\ out' = [out EXCEPT ![c] = h.out]
        /\ title' = h.title /\ garbage' = h.garbage
        /\ unmuted' = (unmuted \/ (h.started /\ Unmutes(slots)))
        /\ pos' = pos /\ exiting' = exiting /\ stopped' = stopped
    BY <1>3 DEF ReadyRead
  <2>2. h0 \in Handled
    BY <1>0 DEF Handled, StreamType
  <2>3. /\ h \in Handled
        /\ Player(h.strm, IF h.up THEN "up" ELSE "down", h.out, pos)
    <3>1. CASE strm[c].negotiated
      <4>1. h = h0 /\ h0.strm = strm[c] /\ h0.up = TRUE /\ h0.out = out[c]
        BY <3>1
      <4>2. sock[c] = "up"
        BY <1>3 DEF ReadyRead
      <4> QED BY <1>0, <2>2, <4>1, <4>2
    <3>2. CASE ~strm[c].negotiated
      <4>1. Reading(h0)
        BY <1>0, <3>2 DEF Reading, Player
      <4>2. h = ProcessLines(h0, c, new)
        BY <3>2
      <4> HIDE DEF h, h0
      <4>3. h \in Handled /\ (Reading(h) \/ Playing(h))
        BY <2>2, <4>1, <4>2, LinesRead
      <4>4. h.strm \in Stream /\ h.strm.metadata \in BOOLEAN /\ h.strm.bytes = 0
        BY <4>3 DEF Handled, Stream, Reading, Playing
      <4>5. CASE Reading(h)
        <5>1. 0 <= pos /\ 0 < Interval
          BY <1>0, ServerAssumption
        <5>2. \A v : Player(h.strm, v, h.out, pos)
          BY <4>4, <4>5, <5>1 DEF Reading, Player
        <5> QED BY <4>3, <5>2
      <4>6. CASE Playing(h)
        <5>1. StreamedTo(<<Header>>, h.strm.metadata, pos, pos, 0)
          BY <1>0, <4>4, Starts
        <5> QED BY <1>0, <4>3, <4>4, <4>6, <5>1, ServerAssumption DEF Playing, Player, StreamedTo
      <4> QED BY <4>3, <4>5, <4>6
    <3> QED BY <3>1, <3>2
  <2> HIDE DEF h
  <2>4. h.strm \in Stream /\ h.out \in Seq(Item) /\ h.title \in Clients \cup {"initial"}
        /\ h.garbage \in BOOLEAN /\ h.started \in BOOLEAN
    BY <2>3 DEF Handled
  <2>5. strm' \in [Clients -> Stream] /\ out' \in [Clients -> Seq(Item)] /\ PlayersInv'
    <3> DEFINE v == IF h.up THEN "up" ELSE "down"
    <3>1. v \in Sockets /\ sock' = [sock EXCEPT ![c] = v] /\ Player(h.strm, v, h.out, pos)
      BY <2>1, <2>3 DEF Sockets
    <3> HIDE DEF v
    <3> QED BY <1>0, <2>1, <2>4, <3>1, OneChanges
  <2>6. /\ got' \in [Clients -> Seq(Lines)]
        /\ \A d \in Clients : got'[d] = <<>> \/ \E r \in Requests : IsPrefix(got'[d], r)
    <3>1. new \in Seq(Lines)
      BY AtMostThree
    <3>2. got[c] \o new \in Seq(Lines)
      BY <1>0, <3>1
    <3>3. got' = [got EXCEPT ![c] = got[c] \o new] /\ \E r \in Requests : IsPrefix(got[c] \o new, r)
      BY <1>3 DEF ReadyRead
    <3> QED BY <1>0, <3>2, <3>3 DEF StreamType
  <2>7. unmuted' \in BOOLEAN
    BY <1>0, <2>1, <2>4 DEF StreamType
  <2> QED BY <1>0, <2>1, <2>4, <2>5, <2>6, <2>7 DEF HearInv, StreamType
<1>4. ASSUME NEW c \in Clients, Timeout(c) PROVE HearInv'
  <2> DEFINE s == [strm[c] EXCEPT !.timer = FALSE]
  <2>1. sock[c] # "none" /\ sock[c] \in Sockets
    BY <1>0, <1>4 DEF Timeout, SlotInv, ServedInv
  <2>2. s \in Stream /\ s.bytes = strm[c].bytes /\ s.metadata = strm[c].metadata
        /\ s.negotiated = strm[c].negotiated
    BY <1>0 DEF Stream
  <2>3. strm' = [strm EXCEPT ![c] = s] /\ sock' = [sock EXCEPT ![c] = "down"]
        /\ out' = [out EXCEPT ![c] = out[c]] /\ pos' = pos
    BY <1>0, <1>4 DEF Timeout, StreamType
  <2> HIDE DEF s
  <2>4. Player(s, "down", out[c], pos)
    BY <1>0, <2>1, <2>2, Closes
  <2>5. strm' \in [Clients -> Stream] /\ out' \in [Clients -> Seq(Item)] /\ PlayersInv'
    BY <1>0, <2>2, <2>3, <2>4, OneChanges DEF Sockets
  <2> QED BY <1>0, <1>4, <2>5 DEF Timeout, HearInv, StreamType
<1>5. ASSUME NEW c \in Clients, Disconnected(c) PROVE HearInv'
  <2>1. sock[c] = "up"
    BY <1>5 DEF Disconnected
  <2>2. Player(strm[c], "down", out[c], pos)
    BY <1>0, <2>1, Closes
  <2>3. strm' = [strm EXCEPT ![c] = strm[c]] /\ sock' = [sock EXCEPT ![c] = "down"]
        /\ out' = [out EXCEPT ![c] = out[c]] /\ pos' = pos
    BY <1>0, <1>5 DEF Disconnected, StreamType
  <2>4. strm' \in [Clients -> Stream] /\ out' \in [Clients -> Seq(Item)] /\ PlayersInv'
    BY <1>0, <2>2, <2>3, OneChanges DEF Sockets
  <2>5. garbage' \in BOOLEAN
    BY <1>5 DEF Disconnected, Armed
  <2> QED BY <1>0, <1>5, <2>4, <2>5 DEF Disconnected, HearInv, StreamType
<1>6. ASSUME CollectGarbage PROVE HearInv'
  <2>1. Delete(Served \ Up) /\ pos' = pos /\ sock' = sock
    BY <1>6 DEF CollectGarbage
  <2>2. /\ strm' \in [Clients -> Stream] /\ out' \in [Clients -> Seq(Item)]
        /\ got' \in [Clients -> Seq(Lines)]
        /\ \A c \in Clients : got'[c] = <<>> \/ \E r \in Requests : IsPrefix(got'[c], r)
        /\ PlayersInv'
    BY <1>0, <2>1, Deleted
  <2>3. exiting' \in {"no", "last", "signal"}
    BY <1>0, <1>6 DEF CollectGarbage, StreamType
  <2> QED BY <1>0, <1>6, <2>2, <2>3 DEF CollectGarbage, HearInv, StreamType
<1>7. ASSUME StartStopping PROVE HearInv'
  <2>1. Delete(Served) /\ pos' = pos /\ \A c \in Clients \ Served : sock'[c] = sock[c]
    BY <1>7 DEF StartStopping
  <2>2. /\ strm' \in [Clients -> Stream] /\ out' \in [Clients -> Seq(Item)]
        /\ got' \in [Clients -> Seq(Lines)]
        /\ \A c \in Clients : got'[c] = <<>> \/ \E r \in Requests : IsPrefix(got'[c], r)
        /\ PlayersInv'
    BY <1>0, <2>1, Deleted
  <2> QED BY <1>0, <1>7, <2>2 DEF StartStopping, HearInv, StreamType
<1>8. ASSUME NEW n \in BlockSizes, WriteData(n) PROVE HearInv'
  <2>1. n \in Nat /\ n \in 1..Interval /\ Interval \in Nat
    BY ServerAssumption
  <2>2. pos' = pos + n /\ pos' \in Nat /\ pos' <= MaxBytes /\ sock' = sock
    BY <1>0, <1>8, <2>1 DEF WriteData
  <2>3. ASSUME NEW c \in Clients
        PROVE  strm'[c] \in Stream /\ out'[c] \in Seq(Item) /\ Player(strm'[c], sock[c], out'[c], pos + n)
    <3>1. strm'[c] = IF Listens(c) THEN [strm[c] EXCEPT !.bytes = Remaining(c, strm[c].bytes + n)] ELSE strm[c]
      BY <1>8 DEF WriteData
    <3>2. out'[c] = IF Listens(c) /\ sock[c] = "up" THEN out[c] \o Chunk(c, n) ELSE out[c]
      BY <1>8 DEF WriteData
    <3>3. CASE ~Listens(c)
      <4>1. strm'[c] = strm[c] /\ out'[c] = out[c]
        BY <3>1, <3>2, <3>3
      <4>2. strm[c].negotiated => sock[c] # "up"
        BY <3>3 DEF Listens, Negotiated, SlotInv, OneSlotEach, Up
      <4>3. Player(strm[c], sock[c], out[c], pos + n)
        BY <1>0, <2>1, <4>2 DEF Player, Stream
      <4> QED BY <1>0, <4>1, <4>3
    <3>4. CASE Listens(c) /\ sock[c] # "up"
      <4>1. strm[c].negotiated
        BY <3>4 DEF Listens, Negotiated
      <4> DEFINE total == strm[c].bytes + n
                 left  == IF strm[c].metadata /\ total >= Interval THEN total - Interval ELSE total
      <4>2. strm'[c] = [strm[c] EXCEPT !.bytes = left]
        BY <3>1, <3>4 DEF Remaining, Due
      <4>3. out'[c] = out[c]
        BY <3>2, <3>4
      <4>4. /\ Player([strm[c] EXCEPT !.bytes = left], sock[c], out[c], pos + n)
            /\ [strm[c] EXCEPT !.bytes = left] \in Stream
        BY <1>0, <2>1, <3>4, <4>1, Unheard
      <4> QED BY <1>0, <4>2, <4>3, <4>4
    <3>5. CASE Listens(c) /\ sock[c] = "up"
      <4>1. strm[c].negotiated /\ Player(strm[c], "up", out[c], pos)
        BY <1>0, <3>5 DEF Listens, Negotiated
      <4> DEFINE total == strm[c].bytes + n
                 due   == strm[c].metadata /\ total >= Interval
                 cut   == n - (total - Interval)
                 left  == IF due THEN total - Interval ELSE total
                 chunk == IF due THEN Block(pos, cut) \o <<Metadata(title)>> \o Block(pos + cut, n - cut)
                                 ELSE Block(pos, n)
      <4>2. strm'[c] = [strm[c] EXCEPT !.bytes = left]
        BY <3>1, <3>5 DEF Remaining, Due
      <4>3. out'[c] = out[c] \o chunk
        BY <3>2, <3>5 DEF Chunk, Due, Offset
      <4>4. /\ Player([strm[c] EXCEPT !.bytes = left], "up", out[c] \o chunk, pos + n)
            /\ [strm[c] EXCEPT !.bytes = left] \in Stream /\ out[c] \o chunk \in Seq(Item)
        <5>1. title \in Clients \cup {"initial"}
          BY <1>0 DEF StreamType
        <5> QED BY <1>0, <2>1, <4>1, <5>1, Listened
      <4> QED BY <3>5, <4>2, <4>3, <4>4
    <3> QED BY <3>3, <3>4, <3>5
  <2>4. strm' \in [Clients -> Stream] /\ out' \in [Clients -> Seq(Item)]
    BY <1>8, <2>3 DEF WriteData
  <2>5. PlayersInv'
    BY <2>2, <2>3 DEF PlayersInv
  <2> QED BY <1>0, <1>8, <2>2, <2>4, <2>5 DEF WriteData, HearInv, StreamType
<1>9. ASSUME Signal PROVE HearInv'
  BY <1>9 DEF Signal, HearInv, StreamType, PlayersInv
<1>10. ASSUME UNCHANGED vars PROVE HearInv'
  BY <1>10 DEF vars, HearInv, StreamType, PlayersInv
<1> QED BY <1>1, <1>2, <1>3, <1>4, <1>5, <1>6, <1>7, <1>8, <1>9, <1>10 DEF Next

(* Slots and streams, in every state that can be reached.                  *)
LEMMA HearInvariant == Spec => [](SlotInv /\ HearInv)
BY SlotInvInit, SlotInvNext, HearInvInit, HearInvNext, PTL DEF Spec

-----------------------------------------------------------------------------
(* The type invariant.                                                     *)
THEOREM TypeCorrect == Spec => []TypeOK
<1>1. SlotInv /\ HearInv => TypeOK
  <2> SUFFICES ASSUME SlotInv, HearInv PROVE TypeOK
    OBVIOUS
  <2>1. SlotType /\ StreamType /\ PlayersInv
    BY DEF SlotInv, HearInv
  <2>2. \A c \in Clients : strm[c].bytes <= pos /\ (strm[c].metadata => strm[c].bytes < Interval)
    BY <2>1 DEF PlayersInv, Player
  <2>3. strm \in [Clients -> [type : {"New", "Player", "Updinfo"}, negotiated : BOOLEAN,
                              authenticated : BOOLEAN, metadata : BOOLEAN,
                              bytes : 0..MaxBytes, timer : BOOLEAN]]
    <3> DEFINE S == [type : {"New", "Player", "Updinfo"}, negotiated : BOOLEAN,
                     authenticated : BOOLEAN, metadata : BOOLEAN,
                     bytes : 0..MaxBytes, timer : BOOLEAN]
    <3>1. ASSUME NEW c \in Clients PROVE strm[c] \in S
      <4>1. strm[c] \in Stream /\ strm[c].bytes <= pos /\ pos <= MaxBytes /\ pos \in Nat
        BY <2>1, <2>2 DEF StreamType
      <4>2. strm[c].bytes \in 0..MaxBytes
        BY <4>1, ServerAssumption DEF Stream
      <4> QED BY <4>1, <4>2 DEF Stream
    <3> HIDE DEF S
    <3>2. strm \in [Clients -> S]
      BY <2>1, <3>1 DEF StreamType
    <3> QED BY <3>2 DEF S
  <2>4. pos \in 0..MaxBytes
    BY <2>1, ServerAssumption DEF StreamType
  <2> QED BY <2>1, <2>2, <2>3, <2>4 DEF SlotType, StreamType, TypeOK
<1> QED BY <1>1, HearInvariant, PTL

(* Two bytes with no other between them are next to one another or have a  *)
(* metadata block between them.                                            *)
LEMMA NextByte ==
  ASSUME NEW s, NEW metadata \in BOOLEAN, NEW a \in Nat, Streamed(s, metadata, a),
         NEW i \in DOMAIN s, NEW j \in DOMAIN s, i < j,
         s[i].kind = "audio", s[j].kind = "audio",
         \A k \in DOMAIN s : s[k].kind = "audio" => k <= i \/ j <= k
  PROVE  s[j].is = s[i].is + 1
<1>1. Len(s) \in Nat /\ DOMAIN s = 1..Len(s) /\ i \in Nat /\ j \in Nat
  BY DEF Streamed
<1>2. Header.kind = "header" /\ \A n : Audio(n).kind = "audio" /\ Audio(n).is = n
  BY DEF Header, Audio
<1>3. s[1] = Header /\ \A k \in 2..Len(s) :
        IF Marked(metadata, k - 1) THEN s[k].kind = "metadata"
        ELSE s[k] = Audio(ByteAt(metadata, a, k - 1))
  BY DEF Streamed
<1>4. i # 1 /\ i \in 2..Len(s) /\ j \in 2..Len(s)
  BY <1>1, <1>2, <1>3
<1>5. ~Marked(metadata, i - 1) /\ ~Marked(metadata, j - 1)
  BY <1>3, <1>4
<1>6. s[i].is = ByteAt(metadata, a, i - 1) /\ s[j].is = ByteAt(metadata, a, j - 1)
  BY <1>2, <1>3, <1>4, <1>5
<1>7. \A k \in 2..Len(s) : ~Marked(metadata, k - 1) => k <= i \/ j <= k
  BY <1>1, <1>2, <1>3
<1> DEFINE b == i - 1
<1>8. b \in Nat /\ i = b + 1 /\ (i + 1) - 1 = b + 1 /\ (i + 2) - 1 = b + 2 /\ Interval \in Nat \ {0}
      /\ Period = Interval + 1
  BY <1>1, <1>4, ServerAssumption DEF Period
<1> HIDE DEF b
<1>9. CASE Marked(metadata, b + 1)
  <2>1. metadata /\ Rest(b + 1) = 0
    BY <1>9 DEF Marked
  <2>2. Rest(b) \in 0..Interval /\ Whole(b) \in Nat
    BY <1>8, Further
  <2>3. Rest(b) + 1 = Period
    <3>1. CASE Rest(b) + 1 < Period
      <4>1. Rest(b + 1) = Rest(b) + 1
        BY <1>8, <3>1, Further
      <4> QED BY <2>1, <2>2, <4>1
    <3> QED BY <1>8, <2>2, <3>1
  <2>4. Rest(b) + 2 >= Period /\ Rest(b) + 2 < Period + Period
    BY <1>8, <2>2, <2>3
  <2>5. Rest(b + 2) = (Rest(b) + 2) - Period /\ Whole(b + 2) = Whole(b) + 1
    BY <1>8, <2>4, Further
  <2>6. ~Marked(metadata, b + 2)
    <3>1. Rest(b + 2) # 0
      BY <1>8, <2>2, <2>3, <2>5
    <3> QED BY <3>1 DEF Marked
  <2>7. j # i + 1
    BY <1>5, <1>8, <1>9
  <2>8. j >= i + 2
    BY <1>1, <2>7
  <2>9. i + 2 \in 2..Len(s)
    BY <1>1, <1>4, <2>8
  <2>10. j = i + 2
    BY <1>1, <1>7, <1>8, <2>6, <2>8, <2>9
  <2>11. s[i].is = (a + b) - Whole(b) /\ s[j].is = (a + (b + 2)) - (Whole(b) + 1)
    BY <1>6, <1>8, <2>1, <2>5, <2>10 DEF ByteAt, b
  <2> QED BY <1>8, <2>2, <2>11
<1>10. CASE ~Marked(metadata, b + 1)
  <2>1. i + 1 \in 2..Len(s)
    BY <1>1, <1>4
  <2>2. j = i + 1
    <3>1. ~Marked(metadata, (i + 1) - 1)
      BY <1>8, <1>10
    <3>2. i + 1 <= i \/ j <= i + 1
      BY <1>7, <2>1, <3>1
    <3> QED BY <1>1, <3>2
  <2>3. CASE metadata
    <3>1. Rest(b + 1) # 0 /\ Rest(b) \in 0..Interval /\ Whole(b) \in Nat
      BY <1>8, <1>10, <2>3, Further DEF Marked
    <3>2. Rest(b) + 1 < Period
      <4>1. CASE Rest(b) + 1 >= Period
        <5>1. Rest(b) + 1 = Period /\ Rest(b) + 1 < Period + Period
          BY <1>8, <3>1, <4>1
        <5>2. Rest(b + 1) = (Rest(b) + 1) - Period
          BY <1>8, <5>1, Further
        <5> QED BY <1>8, <3>1, <5>1, <5>2
      <4> QED BY <1>8, <3>1, <4>1
    <3>3. Whole(b + 1) = Whole(b)
      BY <1>8, <3>2, Further
    <3>4. s[i].is = (a + b) - Whole(b) /\ s[j].is = (a + (b + 1)) - Whole(b)
      BY <1>6, <1>8, <2>2, <2>3, <3>3 DEF ByteAt, b
    <3> QED BY <1>8, <3>1, <3>4
  <2>4. CASE ~metadata
    <3>1. s[i].is = a + b /\ s[j].is = a + (b + 1)
      BY <1>6, <1>8, <2>2, <2>4 DEF ByteAt, b
    <3> QED BY <1>8, <3>1
  <2> QED BY <2>3, <2>4
<1> QED BY <1>9, <1>10

(* The last byte of a stream is the one it goes up to.                     *)
LEMMA LastByte ==
  ASSUME NEW s, NEW metadata \in BOOLEAN, NEW a \in Nat, NEW p \in Nat, NEW bytes,
         StreamedTo(s, metadata, a, p, bytes),
         NEW i \in DOMAIN s, s[i].kind = "audio",
         \A k \in DOMAIN s : s[k].kind = "audio" => k <= i
  PROVE  s[i].is = p
<1>1. Streamed(s, metadata, a) /\ p = ByteAt(metadata, a, Len(s) - 1)
  BY DEF StreamedTo
<1>2. Len(s) \in Nat /\ DOMAIN s = 1..Len(s) /\ i \in Nat
  BY <1>1 DEF Streamed
<1>3. Header.kind = "header" /\ \A n : Audio(n).kind = "audio" /\ Audio(n).is = n
  BY DEF Header, Audio
<1>4. s[1] = Header /\ \A k \in 2..Len(s) :
        IF Marked(metadata, k - 1) THEN s[k].kind = "metadata"
        ELSE s[k] = Audio(ByteAt(metadata, a, k - 1))
  BY <1>1 DEF Streamed
<1>5. i \in 2..Len(s)
  BY <1>2, <1>3, <1>4
<1>6. ~Marked(metadata, i - 1) /\ s[i].is = ByteAt(metadata, a, i - 1)
  BY <1>3, <1>4, <1>5
<1>7. \A k \in 2..Len(s) : ~Marked(metadata, k - 1) => k <= i
  BY <1>2, <1>3, <1>4
<1> DEFINE b == i - 1
<1>8. b \in Nat /\ i = b + 1 /\ (i + 1) - 1 = b + 1 /\ (i + 2) - 1 = b + 2 /\ Interval \in Nat \ {0}
      /\ Period = Interval + 1
  BY <1>2, <1>5, ServerAssumption DEF Period
<1> HIDE DEF b
<1>9. CASE i = Len(s)
  BY <1>1, <1>6, <1>9
<1>10. CASE i # Len(s)
  <2>1. i + 1 \in 2..Len(s)
    BY <1>2, <1>5, <1>10
  <2>2. Marked(metadata, b + 1)
    BY <1>2, <1>7, <1>8, <2>1
  <2>3. metadata /\ Rest(b + 1) = 0
    BY <2>2 DEF Marked
  <2>4. Rest(b) \in 0..Interval /\ Whole(b) \in Nat
    BY <1>8, Further
  <2>5. Rest(b) + 1 = Period
    <3>1. CASE Rest(b) + 1 < Period
      <4>1. Rest(b + 1) = Rest(b) + 1
        BY <1>8, <3>1, Further
      <4> QED BY <2>3, <2>4, <4>1
    <3> QED BY <1>8, <2>4, <3>1
  <2>6. Rest(b) + 1 >= Period /\ Rest(b) + 1 < Period + Period
    BY <1>8, <2>4, <2>5
  <2>7. Whole(b + 1) = Whole(b) + 1
    BY <1>8, <2>6, Further
  <2>8. Rest(b) + 2 >= Period /\ Rest(b) + 2 < Period + Period
    BY <1>8, <2>4, <2>5
  <2>9. Rest(b + 2) = (Rest(b) + 2) - Period
    BY <1>8, <2>8, Further
  <2>10. ~Marked(metadata, b + 2)
    <3>1. Rest(b + 2) # 0
      BY <1>8, <2>4, <2>5, <2>9
    <3> QED BY <3>1 DEF Marked
  <2>11. Len(s) = i + 1
    <3>1. CASE i + 2 <= Len(s)
      <4>1. i + 2 \in 2..Len(s)
        BY <1>2, <1>5, <3>1
      <4> QED BY <1>2, <1>7, <1>8, <2>10, <4>1
    <3> QED BY <1>2, <2>1, <3>1
  <2>12. p = (a + (b + 1)) - (Whole(b) + 1) /\ s[i].is = (a + b) - Whole(b)
    BY <1>1, <1>6, <1>8, <2>3, <2>7, <2>11 DEF ByteAt, b
  <2> QED BY <1>8, <2>4, <2>12
<1> QED BY <1>9, <1>10

(* writeDataConnector() sends a player one response header and then every  *)
(* byte encoded since, in order and without a gap.                         *)
THEOREM EveryByteIsHeard == Spec => []HearsEveryByte
<1>1. SlotInv /\ HearInv => HearsEveryByte
  <2> SUFFICES ASSUME HearInv, NEW c \in Clients
               PROVE  /\ \A i \in DOMAIN out[c] : out[c][i].kind = "header" <=> i = 1
                      /\ \A i, j \in AudioAt(c) :
                           i < j /\ (\A k \in AudioAt(c) : k <= i \/ j <= k) =>
                             out[c][j].is = out[c][i].is + 1
                      /\ c \in Up => \A i \in AudioAt(c) :
                           (\A k \in AudioAt(c) : k <= i) => out[c][i].is = pos
    BY DEF HearsEveryByte
  <2>1. /\ Player(strm[c], sock[c], out[c], pos) /\ strm[c].metadata \in BOOLEAN
        /\ strm[c].negotiated \in BOOLEAN /\ pos \in Nat
    BY DEF HearInv, StreamType, PlayersInv, Stream
  <2>2. CASE ~strm[c].negotiated
    <3>1. DOMAIN out[c] = {} /\ AudioAt(c) = {}
      BY <2>1, <2>2 DEF Player, AudioAt
    <3> QED BY <3>1
  <2>3. CASE strm[c].negotiated
    <3>1. PICK a \in Nat : /\ Streamed(out[c], strm[c].metadata, a)
                           /\ sock[c] = "up" => StreamedTo(out[c], strm[c].metadata, a, pos, strm[c].bytes)
      BY <2>1, <2>3 DEF Player
    <3>2. \A i \in DOMAIN out[c] : out[c][i].kind = "header" <=> i = 1
      <4>1. DOMAIN out[c] = 1..Len(out[c]) /\ Len(out[c]) \in Nat
        BY <3>1 DEF Streamed
      <4>2. Header.kind = "header" /\ \A n : Audio(n).kind = "audio"
        BY DEF Header, Audio
      <4>3. \A i \in 2..Len(out[c]) : out[c][i].kind \in {"audio", "metadata"}
        BY <3>1, <4>2 DEF Streamed
      <4>4. out[c][1] = Header
        BY <3>1 DEF Streamed
      <4>5. \A i \in 1..Len(out[c]) : i = 1 \/ i \in 2..Len(out[c])
        BY <4>1
      <4> QED BY <4>1, <4>2, <4>3, <4>4, <4>5
    <3>3. ASSUME NEW i \in AudioAt(c), NEW j \in AudioAt(c), i < j,
                 \A k \in AudioAt(c) : k <= i \/ j <= k
          PROVE  out[c][j].is = out[c][i].is + 1
      BY <2>1, <3>1, <3>3, NextByte DEF AudioAt
    <3>4. ASSUME c \in Up, NEW i \in AudioAt(c), \A k \in AudioAt(c) : k <= i
          PROVE  out[c][i].is = pos
      <4>1. StreamedTo(out[c], strm[c].metadata, a, pos, strm[c].bytes)
        BY <3>1, <3>4 DEF Up
      <4>2. i \in DOMAIN out[c] /\ out[c][i].kind = "audio"
        BY DEF AudioAt
      <4>3. \A k \in DOMAIN out[c] : out[c][k].kind = "audio" => k <= i
        BY <3>4 DEF AudioAt
      <4> QED BY <2>1, <4>1, <4>2, <4>3, LastByte
    <3> QED BY <3>2, <3>3, <3>4
  <2> QED BY <2>1, <2>2, <2>3
<1> QED BY <1>1, HearInvariant, PTL

(* addMetadataBytes() puts a title after every ICESTREAM_METADATA_INTERVAL *)
(* bytes of audio for the players that asked for it, and nowhere else.     *)
THEOREM TitlesAreInPlace == Spec => []MetadataEveryInterval
<1>1. SlotInv /\ HearInv => MetadataEveryInterval
  <2> SUFFICES ASSUME HearInv, NEW c \in Clients
               PROVE  LET body == IF out[c] = <<>> THEN <<>> ELSE Tail(out[c])
                      IN  \A i \in DOMAIN body :
                            body[i].kind = "metadata" <=> strm[c].metadata /\ i % (Interval + 1) = 0
    BY DEF MetadataEveryInterval
  <2>1. /\ Player(strm[c], sock[c], out[c], pos) /\ strm[c].negotiated \in BOOLEAN
    BY DEF HearInv, StreamType, PlayersInv, Stream
  <2>2. CASE ~strm[c].negotiated
    BY <2>1, <2>2 DEF Player
  <2>3. CASE strm[c].negotiated
    <3>1. PICK a \in Nat : Streamed(out[c], strm[c].metadata, a)
      BY <2>1, <2>3 DEF Player
    <3> DEFINE body == Tail(out[c])
    <3>2. out[c] \in Seq(Item) /\ Len(out[c]) \in Nat /\ out[c] # <<>>
      BY <3>1 DEF Streamed
    <3>3. /\ Len(body) = Len(out[c]) - 1 /\ DOMAIN body = 1..Len(body)
          /\ \A i \in 1..Len(body) : body[i] = out[c][i + 1]
      BY <3>2
    <3>4. ASSUME NEW i \in 1..(Len(out[c]) - 1)
          PROVE  out[c][i + 1].kind = "metadata" <=> Marked(strm[c].metadata, i)
      <4>1. i + 1 \in 2..Len(out[c]) /\ (i + 1) - 1 = i
        BY <3>2
      <4>2. Audio(ByteAt(strm[c].metadata, a, i)).kind = "audio"
        BY DEF Audio
      <4> QED BY <3>1, <4>1, <4>2 DEF Streamed
    <3> HIDE DEF body
    <3>5. \A i \in DOMAIN body :
            body[i].kind = "metadata" <=> strm[c].metadata /\ i % (Interval + 1) = 0
      BY <3>3, <3>4 DEF Marked, Rest, Period
    <3> QED BY <3>2, <3>5 DEF body
  <2> QED BY <2>1, <2>2, <2>3
<1> QED BY <1>1, HearInvariant, PTL
===============================================================================
