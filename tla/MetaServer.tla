----------------------------- MODULE MetaServer -----------------------------
(***************************************************************************)
(* The metadata server of glasscoder: HttpServer with its HttpConnection    *)
(* objects, and MetaServer, which turns requests into title updates.        *)
(*                                                                          *)
(* A client sends a script of pieces: a line, or half of a body (which has  *)
(* no line end).  TCP delivers them in segments of any length; each segment *)
(* makes the socket emit readyRead, and the slot consumes what it can.      *)
(* No WebSocket, static, CGI or user source is registered by this program,  *)
(* so ProcessRequest always comes to requestReceived.                       *)
(***************************************************************************)
EXTENDS Integers, Sequences, SequencesExt, FiniteSetsExt

CONSTANTS Clients,   \* the programs that open a connection to the server
          Scripts,   \* what a client may send: a set of sequences of pieces
          MaxOpens   \* bound: how often one client may connect

NoConn == [sock |-> "none"]      \* a NULL entry of http_connections

VARIABLES
  conns,     \* http_connections: a sequence of connections, NoConn where NULL
  mapped,    \* the slot the signal mappers hold for a client's socket, or -1
  wire,      \* per client: the pieces it has still to send
  arrived,   \* per client: pieces in the socket's read buffer, not yet read
  link,      \* per client: "none", "pending" (not accepted), "open", "closed"
  garbage,   \* http_garbage_timer is running
  replies,   \* per client: the status codes it was sent, in order
  updates,   \* per client: the title updates emitted on its behalf, in order
  script,    \* per client: what it set out to send in this connection
  opens,     \* per client: connections made so far
  running    \* the program runs

vars == <<conns, mapped, wire, arrived, link, garbage, replies, updates,
          script, opens, running>>

------------------------------------------------------------------------------
(* Pieces of a request.                                                      *)

Request(method, uri, major, minor, form) ==
  [kind |-> "request", method |-> method, uri |-> uri,
   major |-> major, minor |-> minor,        \* major = -1: not a number
   form |-> form]                           \* form FALSE: not three words
Host(ok)    == [kind |-> "host", ok |-> ok] \* ok FALSE: malformed host or port
Length(n)   == [kind |-> "length", n |-> n] \* n = -1: not a number
Other       == [kind |-> "header"]          \* any other header line
Blank       == [kind |-> "blank"]
Half(of)    == [kind |-> "half", of |-> of]       \* half of a JSON document
Junk        == [kind |-> "junk"]            \* a line glued to what precedes it

IsLine(p) == p.kind # "half"

\* URIs: path, and for the two update paths what the query holds.
Uri(path, pass, mode) == [path |-> path, pass |-> pass, mode |-> mode]
NoUri == Uri("none", FALSE, FALSE)

Uris == [path: STRING, pass: BOOLEAN, mode: BOOLEAN]

\* All that a client can send.
Pieces ==
  [kind: {"request"}, method: STRING, uri: Uris, major: Int, minor: Int,
   form: BOOLEAN]
  \cup [kind: {"host"}, ok: BOOLEAN] \cup [kind: {"length"}, n: Int]
  \cup [kind: {"header", "blank", "junk"}]
  \cup [kind: {"half"}, of: {"update", "empty", "other"}]

ASSUME ScriptsAssumption == Scripts \subseteq Seq(Pieces)

------------------------------------------------------------------------------
(* HttpConnection *)

Connection(c) ==                 \* what the constructor sets
  [sock |-> c, state |-> "method", method |-> "None", uri |-> NoUri,
   minor |-> 0, host |-> FALSE, length |-> 0, body |-> <<>>]

(* A handler works on h: the connection, the socket's read buffer, the codes *)
(* written and the updates emitted so far.                                    *)

Send(h, code) == [h EXCEPT !.codes = Append(@, code)]

\* emit metadataReceived(e), then 200.
Update(h) ==
  [Send(h, 200) EXCEPT !.emitted = Append(@, h.conn.uri)]

\* MetaServer: GET.
GetRequestReceived(h) ==
  LET u == h.conn.uri IN
  CASE u.path = "/admin.cgi" /\ u.pass /\ u.mode -> Update(h)
    [] u.path = "/admin.cgi" /\ ~(u.pass /\ u.mode) -> Send(h, 403)
    [] u.path = "/admin/metadata" /\ u.mode -> Update(h)
    [] u.path = "/admin/metadata" /\ ~u.mode -> Send(h, 403)
    [] OTHER -> Send(h, 404)

\* No status code: the program ends where it would have sent one.
Ends == 0

\* The body is the JSON object MetaServer looks for; it is the object {}.
IsUpdateObject(body) == body = <<Half("update"), Half("update")>>
IsEmptyObject(body)  == body = <<Half("empty"), Half("empty")>>

\* MetaServer: POST.  The first key of an object is looked at before it is
\* known to have one: at(0) of the empty list is a failed assertion or, when
\* assertions are compiled out, a string without data.
PostRequestReceived(h) ==
  LET body == h.conn.body IN
  CASE h.conn.uri.path # "/json_pad" -> Send(h, 404)
    [] h.conn.uri.path = "/json_pad" /\ IsUpdateObject(body) -> Update(h)
    [] h.conn.uri.path = "/json_pad" /\ IsEmptyObject(body) -> Send(h, Ends)
    [] OTHER -> Send(h, 400)

\* requestReceived(): a method without a handler of MetaServer has the one of
\* HttpServer, which knows no page.
RequestReceived(h) ==
  CASE h.conn.method = "GET"  -> GetRequestReceived(h)
    [] h.conn.method = "POST" -> PostRequestReceived(h)
    [] OTHER -> Send(h, 404)

\* The tables of WebSocket, static and CGI sources are empty.
ProcessRequest(h) == RequestReceived(h)

------------------------------------------------------------------------------
(* Reading *)

CanReadLine(buf) == \E i \in DOMAIN buf: IsLine(buf[i])

\* readLine() takes everything up to the first line end: a half of a body
\* that waits in front of a line becomes part of it.
ReadLine(buf) ==
  LET i == SelectInSeq(buf, IsLine)
  IN  [line |-> IF i = 1 THEN buf[1] ELSE Junk,
       rest |-> SubSeq(buf, i + 1, Len(buf))]

\* read(contentLength - body): as much of it as has come.
ReadBody(h) ==
  LET want == h.conn.length - Len(h.conn.body)
      n    == IF want < Len(h.buf) THEN want ELSE Len(h.buf)
      body == h.conn.body \o SubSeq(h.buf, 1, n)
      h2   == [h EXCEPT !.conn.body = body,
                        !.buf = SubSeq(h.buf, n + 1, Len(h.buf))]
  IN  IF Len(body) = h.conn.length THEN ProcessRequest(h2) ELSE h2

\* The empty line that ends the headers.
EndOfHeaders(h) ==
  IF h.conn.minor = 1 /\ ~h.conn.host THEN Send(h, 400)
  ELSE IF h.conn.method = "GET" THEN ProcessRequest(h)
  ELSE ReadBody([h EXCEPT !.conn.state = "body"])

\* The header lines that make ReadHeaders answer, and so return.
Malformed(l) == (l.kind = "length" /\ l.n < 0) \/ (l.kind = "host" /\ ~l.ok)

\* The loop of ReadHeaders: complete lines are read up to and with the first
\* that is malformed or empty, and each stores what it says.
ReadHeaders(h) ==
  LET Whole(i) == IsLine(h.buf[i]) /\ (i > 1 => IsLine(h.buf[i - 1]))
      lines    == {i \in DOMAIN h.buf: Whole(i)}
      stops    == {i \in lines: h.buf[i].kind = "blank" \/ Malformed(h.buf[i])}
      ends     == {i \in DOMAIN h.buf: IsLine(h.buf[i])}
      last     == IF stops # {} THEN Min(stops)
                  ELSE IF ends # {} THEN Max(ends) ELSE 0
      good     == {i \in lines: i <= last /\ ~Malformed(h.buf[i])}
      lengths  == {i \in good: h.buf[i].kind = "length"}
      hosts    == {i \in good: h.buf[i].kind = "host"}
      g == [h EXCEPT
              !.buf = SubSeq(h.buf, last + 1, Len(h.buf)),
              !.conn.length = IF lengths = {} THEN @ ELSE h.buf[Max(lengths)].n,
              !.conn.host = @ \/ hosts # {}]
  IN  IF stops = {} THEN g
      ELSE IF Malformed(h.buf[last]) THEN Send(g, 400)
      ELSE EndOfHeaders(g)

Implemented == {"GET", "POST", "HEAD"}

\* The headers wait for the next readyRead, though they may all have come.
WaitingReadMethodLine(h) ==
  IF ~CanReadLine(h.buf) THEN h ELSE
  LET r == ReadLine(h.buf)
      l == r.line
  IN IF l.kind # "request" \/ ~l.form THEN Send([h EXCEPT !.buf = r.rest], 400)
     ELSE [h EXCEPT !.buf = r.rest, !.conn.state = "headers",
                    !.conn.method = IF l.method \in Implemented THEN l.method ELSE @,
                    !.conn.uri = l.uri, !.conn.minor = l.minor]

\* The request line.  A method that is not implemented leaves the one of an
\* earlier line in place.
ReadMethodLine(h) ==
  IF ~CanReadLine(h.buf) THEN h ELSE
  LET r == ReadLine(h.buf)
      l == r.line
      g == [h EXCEPT !.buf = r.rest]
      m == IF l.method \in Implemented THEN l.method ELSE h.conn.method
      q == [g EXCEPT !.conn.method = m, !.conn.uri = l.uri, !.conn.minor = l.minor]
  IN IF l.kind # "request" \/ ~l.form THEN Send(g, 400)
     ELSE IF m = "None" THEN Send(g, 501)
     ELSE IF l.major < 0 THEN Send(q, 400)
     ELSE IF l.major # 1 \/ l.minor > 1 THEN Send(q, 505)
     ELSE ReadHeaders([q EXCEPT !.conn.state = "headers"])

\* readyReadData().
Dispatch(h) ==
  CASE h.conn.state = "method"  -> ReadMethodLine(h)
    [] h.conn.state = "headers" -> ReadHeaders(h)
    [] h.conn.state = "body"    -> ReadBody(h)

------------------------------------------------------------------------------
(* The server and its clients *)

Init ==
  /\ conns = <<>>
  /\ mapped = [c \in Clients |-> -1]
  /\ script = [c \in Clients |-> <<>>]
  /\ wire = [c \in Clients |-> <<>>]
  /\ arrived = [c \in Clients |-> <<>>]
  /\ link = [c \in Clients |-> "none"]
  /\ garbage = FALSE
  /\ replies = [c \in Clients |-> <<>>]
  /\ updates = [c \in Clients |-> <<>>]
  /\ opens = [c \in Clients |-> 0]
  /\ running = TRUE

\* A client opens a connection; the kernel queues it.
Open(c) ==
  /\ running
  /\ link[c] = "none"
  /\ opens[c] < MaxOpens
  /\ opens' = [opens EXCEPT ![c] = @ + 1]
  /\ link' = [link EXCEPT ![c] = "pending"]
  /\ \E s \in Scripts:
        /\ script' = [script EXCEPT ![c] = s]
        /\ wire' = [wire EXCEPT ![c] = s]
  /\ UNCHANGED <<conns, mapped, arrived, garbage, replies, updates, running>>

\* Slots whose connection waits for the garbage collection count as free.
EagerFreeSlots ==
  {i \in DOMAIN conns: conns[i] = NoConn \/ link[conns[i].sock] = "closed"}

FreeSlots == {i \in DOMAIN conns: conns[i] = NoConn}

\* The slot is found anew for the mappers: always the last one.
LastSlotConnectionData(c) ==
  LET id == IF FreeSlots = {} THEN Len(conns) + 1
            ELSE Min(FreeSlots)
  IN /\ link[c] = "pending"
     /\ conns' = IF FreeSlots = {} THEN Append(conns, Connection(c))
                 ELSE [conns EXCEPT ![id] = Connection(c)]
     /\ mapped' = [mapped EXCEPT ![c] = Len(conns')]
     /\ link' = [link EXCEPT ![c] = "open"]
     /\ UNCHANGED <<wire, arrived, garbage, replies, updates, script, opens,
                    running>>

\* newConnectionData(): the first empty slot, or one more at the end; the
\* mappers send this socket's signals to that slot.
NewConnectionData(c) ==
  LET id == IF FreeSlots = {} THEN Len(conns) + 1
            ELSE Min(FreeSlots)
  IN /\ link[c] = "pending"
     /\ conns' = IF FreeSlots = {} THEN Append(conns, Connection(c))
                 ELSE [conns EXCEPT ![id] = Connection(c)]
     /\ mapped' = [mapped EXCEPT ![c] = id]
     /\ link' = [link EXCEPT ![c] = "open"]
     /\ UNCHANGED <<wire, arrived, garbage, replies, updates, script, opens,
                    running>>

\* What readyReadData() makes of n more pieces, in the slot the mapper names.
Handle(c, n) ==
  Dispatch([conn |-> conns[mapped[c]],
            buf |-> arrived[c] \o SubSeq(wire[c], 1, n),
            codes |-> <<>>, emitted |-> <<>>])

\* A segment arrives and is treated.
ReadyReadData(c) ==
  /\ link[c] = "open"
  /\ \E n \in 1..Len(wire[c]):
       \E h \in {Handle(c, n)}:
         /\ Ends \notin ToSet(h.codes)
         /\ wire' = [wire EXCEPT ![c] = SubSeq(@, n + 1, Len(@))]
         /\ arrived' = [arrived EXCEPT ![c] = h.buf]
         /\ conns' = [conns EXCEPT ![mapped[c]] = h.conn]
         /\ replies' = [replies EXCEPT ![h.conn.sock] = @ \o h.codes]
         /\ updates' = [updates EXCEPT ![h.conn.sock] = @ \o h.emitted]
  /\ UNCHANGED <<mapped, link, garbage, script, opens, running>>

\* A segment arrives that ends the program, and every connection with it.
ReadyReadDataEnds(c) ==
  /\ link[c] = "open"
  /\ \E n \in 1..Len(wire[c]): Ends \in ToSet(Handle(c, n).codes)
  /\ running' = FALSE
  /\ conns' = <<>>
  /\ mapped' = [d \in Clients |-> -1]
  /\ link' = [d \in Clients |-> "none"]
  /\ garbage' = FALSE
  /\ \E none \in {[d \in Clients |-> <<>>]}:
       /\ script' = none /\ wire' = none /\ arrived' = none
       /\ replies' = none /\ updates' = none
  /\ UNCHANGED opens

\* The client closes: disconnectedData() arms the garbage timer.
DisconnectedData(c) ==
  /\ link[c] = "open"
  /\ link' = [link EXCEPT ![c] = "closed"]
  /\ garbage' = TRUE
  /\ wire' = [wire EXCEPT ![c] = <<>>]       \* what was sent is lost, and the
  /\ script' = [script EXCEPT ![c] = <<>>]   \* record of it is forgotten
  /\ replies' = [replies EXCEPT ![c] = <<>>]
  /\ updates' = [updates EXCEPT ![c] = <<>>]
  /\ UNCHANGED <<conns, mapped, arrived, opens, running>>

Dead(k) == k # NoConn /\ link[k.sock] # "open"

\* garbageData(): every connection whose socket is not connected goes, with
\* its socket and the mappings of it.
GarbageData ==
  /\ garbage
  /\ garbage' = FALSE
  /\ conns' = [i \in DOMAIN conns |-> IF Dead(conns[i]) THEN NoConn ELSE conns[i]]
  /\ LET gone == {conns[i].sock: i \in {j \in DOMAIN conns: Dead(conns[j])}} IN
       /\ mapped' = [c \in Clients |-> IF c \in gone THEN -1 ELSE mapped[c]]
       /\ arrived' = [c \in Clients |-> IF c \in gone THEN <<>> ELSE arrived[c]]
       /\ link' = [c \in Clients |-> IF c \in gone THEN "none" ELSE link[c]]
  /\ UNCHANGED <<wire, replies, updates, script, opens, running>>

Next ==
  \/ \E c \in Clients: \/ Open(c) \/ NewConnectionData(c)
                       \/ ReadyReadData(c) \/ ReadyReadDataEnds(c)
                       \/ DisconnectedData(c)
  \/ GarbageData

\* The event loop accepts what is queued and runs the timer that is due;
\* nothing makes a client connect, send or close.
Fairness ==
  /\ \A c \in Clients: WF_vars(NewConnectionData(c))
  /\ WF_vars(GarbageData)

Spec == Init /\ [][Next]_vars /\ Fairness

------------------------------------------------------------------------------
(* Properties *)

ConnectionOK(k) ==
  k = NoConn \/
  ( /\ k.sock \in Clients
    /\ k.state \in {"method", "headers", "body"}
    /\ k.method \in Implemented \cup {"None"}
    /\ k.length \in Nat /\ Len(k.body) <= k.length
    /\ (k.state # "method" => k.method # "None") )

\* The variables have their types; a body never outgrows its Content-Length,
\* and headers are read only for a method the server implements.
TypeOK ==
  /\ \A i \in DOMAIN conns: ConnectionOK(conns[i])
  /\ Len(conns) <= Cardinality(Clients)
  /\ mapped \in [Clients -> {-1} \cup DOMAIN conns]
  /\ link \in [Clients -> {"none", "pending", "open", "closed"}]
  /\ garbage \in BOOLEAN
  /\ opens \in [Clients -> 0..MaxOpens]
  /\ running \in BOOLEAN

\* What a client that sends one well-formed request and nothing else sends:
\* the end of the headers, and as many pieces after it as it announced.
Proper(s) ==
  /\ s # <<>>
  /\ s[1].kind = "request" /\ s[1].form /\ s[1].method \in Implemented
  /\ s[1].major = 1 /\ s[1].minor \in {0, 1}
  /\ \E b \in DOMAIN s:
       LET Announced == {s[i].n: i \in {j \in 2..(b - 1): s[j].kind = "length"}} IN
       /\ s[b] = Blank
       /\ \A i \in 2..(b - 1): s[i] \in {Host(TRUE), Other, Length(Len(s) - b)}
       /\ \A i \in (b + 1)..Len(s): s[i].kind = "half"
       /\ Announced = {Len(s) - b} \/ (Announced = {} /\ Len(s) = b)
       /\ s[1].method = "GET" => Len(s) = b
       /\ s[1].minor = 1 => \E i \in 2..(b - 1): s[i] = Host(TRUE)

\* The body of such a request: what follows its only empty line.
Body(s) == SubSeq(s, (CHOOSE b \in DOMAIN s: s[b] = Blank) + 1, Len(s))

\* The answer it should have; none if it ends the program.
Deserves(s) ==
  LET u == s[1].uri
  IN CASE s[1].method = "HEAD" -> 404
       [] s[1].method = "POST" /\ u.path = "/json_pad"
            -> IF IsUpdateObject(Body(s)) THEN 200
               ELSE IF IsEmptyObject(Body(s)) THEN Ends ELSE 400
       [] s[1].method = "GET" /\ u.path = "/admin.cgi"
            -> IF u.pass /\ u.mode THEN 200 ELSE 403
       [] s[1].method = "GET" /\ u.path = "/admin/metadata"
            -> IF u.mode THEN 200 ELSE 403
       [] OTHER -> 404

\* However TCP cuts a proper request into segments, and whatever the other
\* connections do, it gets the one answer it deserves once it has all come
\* and none before, and the title changes exactly when that answer is 200
\* (readyReadData dispatching on the parse state, httpserver.cpp:413).  The
\* one exception, which the code does not answer, is the update with the
\* object {} (metaserver.cpp:102): the program does not outlive its last piece.
CutsDoNotMatter ==
  \A c \in Clients: link[c] = "open" /\ Proper(script[c]) =>
    LET code == IF wire[c] = <<>> THEN <<Deserves(script[c])>> ELSE <<>> IN
    /\ Ends \notin ToSet(code)
    /\ replies[c] = code
    /\ Len(updates[c]) = IF code = <<200>> THEN 1 ELSE 0

\* A signal of an open socket reaches the connection that owns the socket,
\* and no other slot holds that socket (the mappers of newConnectionData keep
\* an index, httpserver.cpp:401, and slots are reused).
SignalsReachTheirOwner ==
  \A c \in Clients: link[c] = "open" =>
    {i \in DOMAIN conns: conns[i] # NoConn /\ conns[i].sock = c} = {mapped[c]}

\* The connection of a client that has gone is deleted (garbageData).
DeadConnectionsFreed ==
  \A c \in Clients: link[c] = "closed" ~> link[c] = "none"

=============================================================================
