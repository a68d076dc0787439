----------------------------- MODULE IceConnector -----------------------------
(***************************************************************************)
(* glasscoder as the source client of an Icecast 2 server                  *)
(* (src/glasscoder/iceconnector.cpp): a TCP connection that is opened,     *)
(* answered, lost and opened again, with title updates going to the same   *)
(* server through a queue of their own, and the exit of the program.       *)
(*                                                                         *)
(* The server and the network are nondeterministic: a connection may be    *)
(* refused, closed at any time, answered in two parts or never.  The       *)
(* answer is abstracted to its status, "200" or "refused"; a part of it is *)
(* a complete status line without the blank line that ends the headers.    *)
(***************************************************************************)
EXTENDS Connector, GetConveyor

VARIABLES
  sock,    \* ice_socket: "connecting", "up", "closing" (closed by us, data
           \* still to be sent) or "closed"
  reply,   \* what the server has answered on it: "none", "part", "all"
  status,  \* the status line in that answer
  buffer   \* ice_recv_buffer: "", the status line of an unfinished answer, or
           \* text that came after the headers ("body")

sockVars == <<sock, reply, status, buffer>>
vars == <<connected, scripts, lastScript, overrun, watchdog, stopping, stopTimer,
          exiting, exited, queue, curl, pushed, applied, sock, reply, status, buffer>>

Statuses == {"200", "refused"}

Init ==
  /\ BaseInit /\ ConveyorInit
  /\ sock = "connecting" /\ reply = "none" /\ status = "refused" /\ buffer = ""

(***************************************************************************)
(* The connection.                                                         *)
(***************************************************************************)

\* setError() arms the watchdog.
Unwatched == watchdog
Watched   == TRUE

\* disconnectFromHostConnector() on an open socket: it closes at once, or
\* later if data are still to be sent; disconnected() follows the closing.
CloseSocket ==
  \/ /\ sock' = "closed"
     /\ SetConnected(FALSE)
  \/ /\ sock' = "closing"
     /\ UNCHANGED statusVars

SocketConnected ==
  /\ Alive /\ sock = "connecting"
  /\ sock' = "up"
  /\ UNCHANGED <<statusVars, watchdog, exitVars, conveyorVars, reply, status, buffer>>

\* socketErrorData() before the connection is made: nothing to close, and
\* disconnected() is not emitted.
ConnectionFailed ==
  /\ Alive /\ sock = "connecting"
  /\ sock' = "closed"
  /\ watchdog' = Watched
  /\ UNCHANGED <<statusVars, exitVars, conveyorVars, reply, status, buffer>>

\* The server closes: socketErrorData(), then socketDisconnectedData().
RemoteClosed ==
  /\ Alive /\ sock = "up"
  /\ sock' = "closed"
  /\ SetConnected(FALSE)
  /\ watchdog' = Watched
  /\ UNCHANGED <<exitVars, conveyorVars, reply, status, buffer>>

\* The last data are sent, or lost: socketDisconnectedData().
SocketDisconnected ==
  /\ Alive /\ sock = "closing"
  /\ sock' = "closed"
  /\ SetConnected(FALSE)
  /\ UNCHANGED <<watchdog, exitVars, conveyorVars, reply, status, buffer>>

\* A part of the answer with status s: it stays in the buffer, which a new
\* connection does not clear.
PartOfAnswer(s) ==
  /\ Alive /\ sock = "up" /\ reply = "none"
  /\ reply' = "part" /\ status' = s
  /\ buffer' = IF buffer = "" THEN s ELSE buffer
  /\ UNCHANGED <<statusVars, watchdog, exitVars, conveyorVars, sock>>

\* The end of the answer: ProcessHeaders() takes the first status line in
\* the buffer.  What follows the headers of a refusal stays in it, and makes
\* the next answer unrecognizable.
EndOfAnswer(s) ==
  /\ Alive /\ sock = "up" /\ reply # "all"
  /\ reply = "part" => s = status
  /\ reply' = "all" /\ status' = s
  /\ IF (IF buffer = "" THEN s ELSE buffer) = "200"
       THEN SetConnected(TRUE) /\ buffer' = "" /\ UNCHANGED <<sock, watchdog>>
       ELSE CloseSocket /\ watchdog' = Watched /\ buffer' \in {"", "body"}
  /\ UNCHANGED <<exitVars, conveyorVars>>

\* watchdogTimeoutData(): connectToHostConnector() with a new socket, the
\* signals of the old one no longer connected.
WatchdogTimeout ==
  /\ Alive /\ watchdog
  /\ watchdog' = FALSE
  /\ sock' = "connecting" /\ reply' = "none" /\ status' = "refused"
  /\ UNCHANGED <<statusVars, exitVars, conveyorVars, buffer>>

(***************************************************************************)
(* Title updates.                                                          *)
(***************************************************************************)

SendMetadata ==
  /\ Alive /\ Push
  /\ UNCHANGED <<statusVars, watchdog, exitVars, sockVars>>

\* conveyorEventFinished(): the result of an update sets the status of the
\* connection.
UpdateSucceeded ==
  /\ Alive /\ CurlFinished(TRUE)
  /\ SetConnected(TRUE)
  /\ UNCHANGED <<watchdog, exitVars, sockVars>>

UpdateFailed(done) ==
  /\ Alive /\ CurlFinished(done)
  /\ SetConnected(FALSE)
  /\ UNCHANGED <<watchdog, exitVars, sockVars>>

\* conveyorError(): curl cannot be started, or crashed.
UpdateBroken ==
  /\ Alive /\ curl = "running"
  /\ SetConnected(FALSE)
  /\ exited' = "error"
  /\ UNCHANGED <<watchdog, stopping, stopTimer, exiting, conveyorVars, sockVars>>

UpdateCollected ==
  /\ Alive /\ CollectProcess
  /\ UNCHANGED <<statusVars, watchdog, exitVars, sockVars>>

(***************************************************************************)
(* The specification.                                                      *)
(***************************************************************************)

Base ==
  /\ \/ \E k \in Commands : ScriptFinished(k) \/ ScriptCollected(k)
     \/ RequestExit
     \/ ExitTimer
     \/ StopTimeout
  /\ UNCHANGED <<conveyorVars, sockVars>>

UpdateEnds == UpdateSucceeded \/ UpdateBroken \/ \E done \in BOOLEAN : UpdateFailed(done)

Next ==
  \/ Base
  \/ SocketConnected \/ ConnectionFailed \/ RemoteClosed \/ SocketDisconnected
  \/ \E s \in Statuses : PartOfAnswer(s) \/ EndOfAnswer(s)
  \/ WatchdogTimeout
  \/ SendMetadata \/ UpdateEnds \/ UpdateCollected

Spec == Init /\ [][Next]_vars

\* The timers fire and curl ends.
FairSpec ==
  /\ Spec
  /\ WF_vars(WatchdogTimeout) /\ WF_vars(UpdateCollected) /\ WF_vars(UpdateEnds)
  /\ WF_vars(ExitTimer /\ UNCHANGED <<conveyorVars, sockVars>>)
  /\ WF_vars(StopTimeout /\ UNCHANGED <<conveyorVars, sockVars>>)

(***************************************************************************)
(* Properties.                                                             *)
(***************************************************************************)

\* The type invariant.
TypeOK ==
  /\ BaseTypeOK /\ ConveyorTypeOK
  /\ sock \in {"connecting", "up", "closing", "closed"}
  /\ reply \in {"none", "part", "all"} /\ status \in Statuses
  /\ buffer \in Statuses \cup {"", "body"}

\* Whatever goes wrong with the connection, in whatever order, another
\* attempt is being made or is due.
AlwaysRetries == Alive => sock \in {"connecting", "up"} \/ watchdog

\* The status of the connection and the commands agree at the end: if the
\* command for an established connection was the last one started, then some
\* command of this run of the program was skipped because the one before was
\* still running (it is logged as an overrun).  One skipped command is enough
\* for the exception, also one long before the end.
EveryUpHasItsDown == exited # "no" => lastScript # "up" \/ overrun

\* No title update waits for ever.
MetadataTreated ==
  \A m \in 1..MaxUpdates :
    (\E i \in DOMAIN queue : queue[i] = m) ~> (~Alive \/ \A i \in DOMAIN queue : queue[i] # m)

\* A request to exit ends the program.
ExitCompletes == exiting ~> ~Alive

===============================================================================
