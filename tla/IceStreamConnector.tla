-------------------------- MODULE IceStreamConnector --------------------------
(***************************************************************************)
(* The streaming server inside glasscoder (IceStreamer output,             *)
(* src/glasscoder/icestreamconnector.cpp): players connect over TCP or     *)
(* over a local pipe and hear the encoded stream from then on; another     *)
(* request on the same port updates the stream title.                      *)
(*                                                                         *)
(* Everything runs in the event loop of one thread: an action is one slot  *)
(* (newConnectionData, readyReadData, timeoutData, garbageData, ...) run   *)
(* from beginning to end.  What interleaves are the events: connections,   *)
(* segments of a request, closures by the peer, timers, encoded blocks.    *)
(*                                                                         *)
(* A connection is a member of Clients and is made once.  A request is a   *)
(* sequence of lines, and what a player is sent is a sequence of the       *)
(* response header, the audio bytes (numbered from the start of the        *)
(* stream) and the metadata blocks (the title).  The text of the replies   *)
(* that close a connection is left out.                                    *)
(***************************************************************************)
EXTENDS Integers, Sequences, SequencesExt, FiniteSets

CONSTANTS
  Clients,           \* connections, each made at most once
  PipeClients,       \* the ones made to the server pipe
  NULL,              \* a free slot
  MaxConnections,    \* --server-max-connections; -1 means no limit
  StartConnections,  \* --server-start-connections
  ExitOnLast,        \* --server-exit-on-last
  IcyCapable,        \* the content type is audio/mpeg or audio/aacp
  Interval,          \* ICESTREAM_METADATA_INTERVAL
  BlockSizes,        \* sizes of the blocks the codec writes
  MaxBytes           \* bound: bytes of audio encoded

ASSUME ServerAssumption ==
  /\ PipeClients \subseteq Clients /\ NULL \notin Clients
  /\ MaxConnections \in Int \ {0} /\ StartConnections \in Nat
  /\ ExitOnLast \in BOOLEAN /\ IcyCapable \in BOOLEAN
  /\ Interval \in Nat \ {0} /\ MaxBytes \in Nat
  /\ BlockSizes \subseteq 1..Interval

VARIABLES
  slots,    \* iceserv_streams: a client or NULL in each element
  strm,     \* the IceStream object of each client
  sock,     \* its socket: "none" before, "up" in ConnectedState, "down" after,
            \* "refused" when turned away
  got,      \* the lines of its request that have been read
  out,      \* what has been written to the client; this, strm and got
            \* are forgotten when the stream is deleted
  pos,      \* audio bytes encoded so far
  title,    \* iceserv_metadata: who set it
  garbage,  \* iceserv_garbage_timer is armed
  unmuted,  \* unmuteRequested() was emitted
  exiting,  \* "no", or why glasscoder_exiting was set: "last" or "signal"
  stopped   \* stopped() was emitted

vars == <<slots, strm, sock, got, out, pos, title, garbage, unmuted,
          exiting, stopped>>

\* The lines the server tells apart ("blank" is the empty one that ends the
\* request), and the requests clients make of them.
Lines == {"GET", "UPDINFO", "BAD", "icy-metadata", "credentials", "blank"}
Requests ==
  { <<"GET", "blank">>, <<"GET", "icy-metadata", "blank">>, <<"BAD", "blank">>,
    <<"UPDINFO", "blank">>, <<"UPDINFO", "credentials", "blank">> }

\* What can arrive at once: some consecutive lines of a request.
Segments ==
  UNION {UNION {{SubSeq(r, i, j) : j \in i..Len(r)} : i \in 1..Len(r)} : r \in Requests}

\* What a client can be sent.
Header      == [kind |-> "header", is |-> 0]
Audio(n)    == [kind |-> "audio", is |-> n]
Metadata(t) == [kind |-> "metadata", is |-> t]

NewStream ==
  [type |-> "New", negotiated |-> FALSE, authenticated |-> FALSE,
   metadata |-> FALSE, bytes |-> 0, timer |-> FALSE]

Init ==
  /\ slots = <<>> /\ strm = [c \in Clients |-> NewStream]
  /\ sock = [c \in Clients |-> "none"]
  /\ got = [c \in Clients |-> <<>>] /\ out = [c \in Clients |-> <<>>]
  /\ pos = 0 /\ title = "initial"
  /\ garbage = FALSE
  /\ unmuted = (StartConnections = 0)
  /\ exiting = "no" /\ stopped = FALSE

Served      == {c \in Clients : \E i \in DOMAIN slots : slots[i] = c}
Up          == {c \in Clients : sock[c] = "up"}
Negotiated  == {c \in Served : strm[c].negotiated}

(***************************************************************************)
(* Accepting a connection.                                                 *)
(***************************************************************************)

\* The size of the vector is compared, free slots included.
LooseFull(s) == Len(s) > MaxConnections /\ MaxConnections > 0
Full(s)      == Len(s) = MaxConnections

\* GetFreeStreamId(): the first free slot, or one more.
FreeSlots(s)     == {i \in DOMAIN s : s[i] = NULL}
CarelessFreeSlot(s) == IF FreeSlots(s) # {} THEN 1 ELSE Len(s) + 1
FreeSlot(s) ==
  IF FreeSlots(s) # {}
    THEN CHOOSE i \in FreeSlots(s) : \A j \in FreeSlots(s) : i <= j
    ELSE Len(s) + 1

Placed(s, c) ==
  LET id == FreeSlot(s)
  IN  [i \in 1..(IF id > Len(s) THEN id ELSE Len(s)) |-> IF i = id THEN c ELSE s[i]]

\* StartStream() asks for the audio transport when the vector has the right
\* size at that moment.
Unmutes(s) == Len(s) = StartConnections

\* The constructor starts the timeout.
NoTimer == FALSE
ArmedTimer == TRUE

Refuse(c) ==
  /\ sock' = [sock EXCEPT ![c] = "refused"]
  /\ UNCHANGED <<slots, strm, out, unmuted>>

NewConnection(c) ==
  /\ ~stopped /\ sock[c] = "none" /\ c \notin PipeClients
  /\ IF Full(slots)
       THEN Refuse(c)
       ELSE /\ slots' = Placed(slots, c)
            /\ strm' = [strm EXCEPT ![c].timer = ArmedTimer]
            /\ sock' = [sock EXCEPT ![c] = "up"]
            /\ UNCHANGED <<out, unmuted>>
  /\ UNCHANGED <<got, pos, title, garbage, exiting, stopped>>

\* A pipe connection is a player at once; it sends nothing.  (Its type stays
\* New: the constructor resets the one it is given, and nothing reads it.)
NewPipeConnection(c) ==
  /\ ~stopped /\ sock[c] = "none" /\ c \in PipeClients
  /\ IF Full(slots)
       THEN Refuse(c)
       ELSE /\ slots' = Placed(slots, c)
            /\ strm' = [strm EXCEPT ![c].negotiated = TRUE]
            /\ sock' = [sock EXCEPT ![c] = "up"]
            /\ out' = [out EXCEPT ![c] = <<Header>>]
            /\ unmuted' = (unmuted \/ Unmutes(slots'))
  /\ UNCHANGED <<got, pos, title, garbage, exiting, stopped>>

(***************************************************************************)
(* Reading a request.  h is what readyReadData() has made so far of the    *)
(* client: its stream, whether its socket is up, what was written to it,   *)
(* whether StartStream() ran, the title and the garbage timer.             *)
(***************************************************************************)

CloseConnection(h) == [h EXCEPT !.up = FALSE, !.garbage = TRUE]

StartStream(h) ==
  [h EXCEPT !.strm.negotiated = TRUE, !.strm.timer = FALSE,
            !.out = Append(@, Header), !.started = TRUE]

SetMetadata(h, c) == [h EXCEPT !.title = c]

\* A title update needs the credentials of the stream.
MayUpdate(s) == s.authenticated

EndOfRequest(h, c) ==
  IF h.strm.type = "Player"       THEN StartStream(h)
  ELSE IF MayUpdate(h.strm)       THEN CloseConnection(SetMetadata(h, c))
  ELSE                                 CloseConnection(h)

\* The handling of one line of the request of c.
ProcessHeader(h, c, line) ==
  CASE h.strm.type = "New" /\ line = "GET"     -> [h EXCEPT !.strm.type = "Player"]
    [] h.strm.type = "New" /\ line = "UPDINFO" -> [h EXCEPT !.strm.type = "Updinfo"]
    [] h.strm.type = "New" /\ line \notin {"GET", "UPDINFO"} -> CloseConnection(h)
    [] h.strm.type # "New" /\ line = "blank"        -> EndOfRequest(h, c)
    [] h.strm.type # "New" /\ line = "icy-metadata" ->
         [h EXCEPT !.strm.metadata = @ \/ IcyCapable]
    [] h.strm.type # "New" /\ line = "credentials"  ->
         [h EXCEPT !.strm.authenticated = TRUE]
    [] OTHER -> h

\* ... and of the next lines, one after the other.
ProcessLines(h0, c, lines) ==
  LET h[n \in 0..Len(lines)] ==
        IF n = 0 THEN h0 ELSE ProcessHeader(h[n - 1], c, lines[n])
  IN  h[Len(lines)]

\* readyReadData() for the next lines of the client, any number of them.  A
\* stream negotiated before they came ignores them; one negotiated by one of
\* them does not.
ReadyRead(c, new) ==
  /\ ~stopped /\ c \in Served \ PipeClients /\ sock[c] = "up"
  /\ \E r \in Requests : IsPrefix(got[c] \o new, r)
  /\ got' = [got EXCEPT ![c] = @ \o new]
  /\ LET h0 == [strm |-> strm[c], up |-> TRUE, out |-> out[c], started |-> FALSE,
                title |-> title, garbage |-> garbage]
         h == IF strm[c].negotiated THEN h0 ELSE ProcessLines(h0, c, new)
     IN  /\ strm' = [strm EXCEPT ![c] = h.strm]
         /\ sock' = [sock EXCEPT ![c] = IF h.up THEN "up" ELSE "down"]
         /\ out' = [out EXCEPT ![c] = h.out]
         /\ title' = h.title
         /\ garbage' = h.garbage
         /\ unmuted' = (unmuted \/ (h.started /\ Unmutes(slots)))
  /\ UNCHANGED <<slots, pos, exiting, stopped>>

(***************************************************************************)
(* Closing.                                                                *)
(***************************************************************************)

\* timeoutData(): ten seconds without a complete request.
Timeout(c) ==
  /\ ~stopped /\ c \in Served /\ strm[c].timer
  /\ strm' = [strm EXCEPT ![c].timer = FALSE]
  /\ sock' = [sock EXCEPT ![c] = "down"]
  /\ garbage' = TRUE
  /\ UNCHANGED <<slots, got, out, pos, title, unmuted, exiting, stopped>>

\* The peer closes, and disconnectedData() arms the garbage timer.
NotArmed(g) == g
Armed(g)    == TRUE
Disconnected(c) ==
  /\ ~stopped /\ c \in Served /\ sock[c] = "up"
  /\ sock' = [sock EXCEPT ![c] = "down"]
  /\ garbage' = Armed(garbage)
  /\ UNCHANGED <<slots, strm, got, out, pos, title, unmuted, exiting, stopped>>

Collected(s) ==
  [i \in DOMAIN s |-> IF s[i] # NULL /\ sock[s[i]] # "up" THEN NULL ELSE s[i]]

\* delete of the IceStream objects and sockets of the clients of D.
Delete(D) ==
  /\ strm' = [c \in Clients |-> IF c \in D THEN NewStream ELSE strm[c]]
  /\ got' = [c \in Clients |-> IF c \in D THEN <<>> ELSE got[c]]
  /\ out' = [c \in Clients |-> IF c \in D THEN <<>> ELSE out[c]]

FirstFree(s) == s = <<>> \/ s[1] = NULL
AllFree(s)   == \A i \in DOMAIN s : s[i] = NULL

\* garbageData(): delete the streams whose socket is not connected any more;
\* with --server-exit-on-last, end the program when none is left.
CollectGarbage ==
  /\ ~stopped /\ garbage
  /\ garbage' = FALSE
  /\ slots' = Collected(slots)
  /\ Delete(Served \ Up)
  /\ exiting' = IF ExitOnLast /\ AllFree(slots') /\ exiting = "no" THEN "last" ELSE exiting
  /\ UNCHANGED <<sock, pos, title, unmuted, stopped>>

\* SIGTERM or SIGINT from outside, or the end of the audio file.
Signal ==
  /\ ~stopped /\ exiting = "no"
  /\ exiting' = "signal"
  /\ UNCHANGED <<slots, strm, sock, got, out, pos, title, garbage, unmuted,
                 stopped>>

\* exitTimerData() looks four times a second; startStopping() deletes every
\* stream, which closes its socket.
StartStopping ==
  /\ ~stopped /\ exiting # "no"
  /\ slots' = <<>>
  /\ sock' = [c \in Clients |-> IF c \in Served THEN "down" ELSE sock[c]]
  /\ Delete(Served)
  /\ stopped' = TRUE
  /\ UNCHANGED <<pos, title, garbage, unmuted, exiting>>

(***************************************************************************)
(* The stream.                                                             *)
(***************************************************************************)

\* Audio goes to the streams whose request is complete.
EveryoneListens(c) == c \in Served
Listens(c)         == c \in Negotiated

\* addMetadataBytes(): where in a block of n bytes the metadata goes, if the
\* bytes since the last one are total with the block; 0 when it does not.
Due(c, total) == strm[c].metadata /\ total >= Interval
WrongOffset(n, total) == total - Interval
Offset(n, total)      == n - (total - Interval)

Block(from, n) == [k \in 1..n |-> Audio(from + k)]

\* What a block of n bytes adds to what c was sent.
Chunk(c, n) ==
  LET total == strm[c].bytes + n
      cut   == Offset(n, total)
  IN  IF Due(c, total)
        THEN Block(pos, cut) \o <<Metadata(title)>> \o Block(pos + cut, n - cut)
        ELSE Block(pos, n)

\* What is left of the interval after it.
Remaining(c, total) == IF Due(c, total) THEN total - Interval ELSE total

\* writeDataConnector(): a block of n bytes from the codec.
WriteData(n) ==
  /\ ~stopped /\ pos + n <= MaxBytes
  /\ pos' = pos + n
  /\ strm' = [c \in Clients |->
               IF Listens(c)
                 THEN [strm[c] EXCEPT !.bytes = Remaining(c, @ + n)]
                 ELSE strm[c]]
  /\ out' = [c \in Clients |->
              IF Listens(c) /\ sock[c] = "up" THEN out[c] \o Chunk(c, n) ELSE out[c]]
  /\ UNCHANGED <<slots, sock, got, title, garbage, unmuted, exiting, stopped>>

Next ==
  \/ \E c \in Clients : \/ NewConnection(c)
                        \/ NewPipeConnection(c)
                        \/ \E new \in Segments : ReadyRead(c, new)
                        \/ Timeout(c)
                        \/ Disconnected(c)
  \/ CollectGarbage
  \/ Signal
  \/ StartStopping
  \/ \E n \in BlockSizes : WriteData(n)

Spec == Init /\ [][Next]_vars

\* The timers of the event loop fire.
FairSpec ==
  /\ Spec
  /\ WF_vars(CollectGarbage)
  /\ WF_vars(StartStopping)
  /\ \A c \in Clients : WF_vars(Timeout(c))

(***************************************************************************)
(* Properties.                                                             *)
(***************************************************************************)

\* The type invariant.
TypeOK ==
  /\ slots \in Seq(Clients \cup {NULL})
  /\ strm \in [Clients -> [type : {"New", "Player", "Updinfo"}, negotiated : BOOLEAN,
                           authenticated : BOOLEAN, metadata : BOOLEAN,
                           bytes : 0..MaxBytes, timer : BOOLEAN]]
  /\ \A c \in Clients : strm[c].metadata => strm[c].bytes < Interval
  /\ sock \in [Clients -> {"none", "up", "down", "refused"}]
  /\ \A c \in Clients : got[c] = <<>> \/ \E r \in Requests : IsPrefix(got[c], r)
  /\ pos \in 0..MaxBytes
  /\ title \in Clients \cup {"initial"}
  /\ garbage \in BOOLEAN /\ unmuted \in BOOLEAN /\ stopped \in BOOLEAN
  /\ exiting \in {"no", "last", "signal"}

\* Every connected client has one slot, and no client has two: the reuse of
\* slots by GetFreeStreamId() never loses a connection that is being served.
OneSlotEach ==
  /\ \A c \in Up : c \in Served
  /\ \A i, j \in DOMAIN slots : slots[i] = slots[j] /\ slots[i] # NULL => i = j

\* --server-max-connections holds over the TCP port and the pipe together.
WithinMaxConnections == MaxConnections > 0 => Cardinality(Up) <= MaxConnections

\* Where the audio bytes are in what a client was sent.
AudioAt(c) == {i \in DOMAIN out[c] : out[c][i].kind = "audio"}

\* A player is sent one response header, then every byte encoded since, in
\* order and without a gap, up to the last one as long as it is connected.
HearsEveryByte ==
  \A c \in Clients :
    /\ \A i \in DOMAIN out[c] : out[c][i].kind = "header" <=> i = 1
    /\ \A i, j \in AudioAt(c) :
         i < j /\ (\A k \in AudioAt(c) : k <= i \/ j <= k) =>
           out[c][j].is = out[c][i].is + 1
    /\ c \in Up => \A i \in AudioAt(c) :
         (\A k \in AudioAt(c) : k <= i) => out[c][i].is = pos

\* A player that asked for metadata finds a block after every Interval bytes
\* of audio and nowhere else; a player that did not finds none.
MetadataEveryInterval ==
  \A c \in Clients :
    LET body == IF out[c] = <<>> THEN <<>> ELSE Tail(out[c])
    IN  \A i \in DOMAIN body :
          body[i].kind = "metadata" <=> strm[c].metadata /\ i % (Interval + 1) = 0

\* A client that is connected before --server-exit-on-last ends the program
\* does not lose its connection by it (garbageData).  Only one that comes in
\* between the SIGTERM the program sends itself (icestreamconnector.cpp:294)
\* and startStopping() does: it is accepted and then deleted.
NeverLeavesAClient ==
  \A c \in Clients :
    [](c \in Up /\ exiting # "last" => [](exiting = "last" => c \notin Up))

\* A connection whose request never completes does not keep its slot.
HandshakeEnds ==
  \A c \in Clients :
    (c \in Served /\ ~strm[c].negotiated) ~> (c \notin Served \/ strm[c].negotiated)

\* With --server-exit-on-last, once every connection is gone the program ends,
\* unless another one comes.
ExitsAfterLast ==
  (ExitOnLast /\ Served # {} /\ Up = {}) ~> (stopped \/ Up # {})

===============================================================================
