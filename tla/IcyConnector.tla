---------------------------- MODULE IcyConnector ----------------------------
(***************************************************************************)
(* glasscoder as the source client of a Shoutcast server                    *)
(* (src/glasscoder/icyconnector.cpp).  Unlike the Icecast client it keeps   *)
(* one socket for all its connections, logs in with a bare password and     *)
(* does not hang up on a server that refuses it.                            *)
(*                                                                          *)
(* An answer of the server is "OK2", "invalid" (the line "invalid           *)
(* password", which no empty line follows) or another refusal; it may come  *)
(* in two parts.  Servers that send a second block of headers are left out, *)
(* and so is the audio, which is written whenever the socket is open.       *)
(***************************************************************************)
EXTENDS Connector, GetConveyor

VARIABLES
  icySocket,      \* icy_socket: "closed", "connecting" or "up"
  icyReply,       \* what the server has sent on it: "none", "part", "all"
  icyBuffer,      \* icy_recv_buffer: "" or the first line in it
  authenticated,  \* icy_authenticated
  headersSent,    \* ghost: the icy- headers were sent on this connection
  mood            \* ghost: the server does "anything", or from now on what
                  \* a server does that is in order ("good")

connVars == <<icySocket, icyReply, icyBuffer, authenticated, headersSent>>
icyVars == <<connVars, mood>>
allIcyVars == <<statusVars, watchdog, exitVars, conveyorVars, icyVars>>

IcyInit ==
  /\ BaseInit /\ ConveyorInit
  /\ icySocket = "connecting" /\ icyReply = "none" /\ icyBuffer = ""
  /\ authenticated = FALSE
  /\ headersSent = FALSE /\ mood = "anything"

-------------------------------------------------------------------------------
(* The connection *)

\* socketConnectedData(): the password.
IcySocketConnected ==
  /\ Alive /\ icySocket = "connecting"
  /\ icySocket' = "up"
  /\ UNCHANGED <<statusVars, watchdog, exitVars, conveyorVars, icyReply, icyBuffer,
                 authenticated, headersSent, mood>>

\* socketErrorData() of a connection that was never made
IcyConnectionFailed ==
  /\ Alive /\ icySocket = "connecting" /\ mood = "anything"
  /\ icySocket' = "closed"
  /\ watchdog' = TRUE
  /\ UNCHANGED <<statusVars, exitVars, conveyorVars, icyReply, icyBuffer, authenticated,
                 headersSent, mood>>

StaysAuthenticated == authenticated
AuthenticatedAfterClose == FALSE

\* The server hangs up: socketErrorData(), then socketDisconnectedData().  A
\* server in order does so only with a client that sends no headers.
IcyRemoteClosed ==
  /\ Alive /\ icySocket = "up"
  /\ mood = "good" => icyReply = "all" /\ ~headersSent
  /\ icySocket' = "closed"
  /\ authenticated' = AuthenticatedAfterClose
  /\ watchdog' = TRUE
  /\ SetConnected(FALSE)
  /\ UNCHANGED <<exitVars, conveyorVars, icyReply, icyBuffer, headersSent, mood>>

\* watchdogTimeoutData(): the same socket again; what the last connection left
\* in the buffer is still there.
IcyWatchdogTimeout ==
  /\ Alive /\ watchdog
  /\ watchdog' = FALSE
  /\ icySocket' = "connecting" /\ icyReply' = "none"
  /\ headersSent' = FALSE
  /\ UNCHANGED <<statusVars, exitVars, conveyorVars, icyBuffer, authenticated, mood>>

-------------------------------------------------------------------------------
(* The answer: socketReadyReadData() *)

Answers == IF mood = "good" THEN {"OK2"} ELSE {"OK2", "refused"}

FirstLine(line) == IF icyBuffer = "" THEN line ELSE icyBuffer

\* The line of an answer without the empty line that ends it
IcyPartOfAnswer ==
  /\ Alive /\ icySocket = "up" /\ icyReply = "none"
  /\ \E line \in Answers : icyBuffer' = FirstLine(line)
  /\ icyReply' = "part"
  /\ UNCHANGED <<statusVars, watchdog, exitVars, conveyorVars, icySocket, authenticated,
                 headersSent, mood>>

\* Logged, and kept: what the next connection brings is appended to it.
InvalidPassword ==
  /\ Alive /\ icySocket = "up" /\ icyReply = "none" /\ mood = "anything"
  /\ icyBuffer' = FirstLine("invalid")
  /\ icyReply' = "all"
  /\ UNCHANGED <<statusVars, watchdog, exitVars, conveyorVars, icySocket, authenticated,
                 headersSent, mood>>

KeptBuffer(line) == line
EmptiedBuffer(line) == ""

\* The empty line: ProcessHeaders(), whatever it thinks of the first line.
IcyEndOfAnswer ==
  /\ Alive /\ icySocket = "up" /\ icyReply # "all"
  /\ \E line \in IF icyReply = "part" THEN {icyBuffer}
                  ELSE {FirstLine(a) : a \in Answers} :
       /\ icyBuffer' = EmptiedBuffer(line)
       /\ IF authenticated \/ line = "OK2"
            THEN /\ authenticated' = TRUE /\ headersSent' = TRUE
                 /\ SetConnected(TRUE)
            ELSE UNCHANGED <<authenticated, headersSent, statusVars>>
  /\ icyReply' = "all"
  /\ UNCHANGED <<watchdog, exitVars, conveyorVars, icySocket, mood>>

ServerRecovers ==
  /\ mood = "anything"
  /\ mood' = "good"
  /\ UNCHANGED <<statusVars, watchdog, exitVars, conveyorVars, connVars>>

-------------------------------------------------------------------------------
(* Title updates: sendMetadata(), conveyorEventFinished(), conveyorError() *)

IcySendMetadata ==
  /\ Alive /\ Push
  /\ UNCHANGED <<statusVars, watchdog, exitVars, icyVars>>

\* An answer of 2xx, or none at all: that server gives no answer.
IcyUpdateSucceeded(done) ==
  /\ Alive /\ CurlFinished(done)
  /\ SetConnected(TRUE)
  /\ UNCHANGED <<watchdog, exitVars, icyVars>>

IcyUpdateFailed(done) ==
  /\ Alive /\ CurlFinished(done)
  /\ SetConnected(FALSE)
  /\ UNCHANGED <<watchdog, exitVars, icyVars>>

IcyUpdateBroken ==
  /\ Alive /\ curl = "running"
  /\ SetConnected(FALSE)
  /\ exited' = "error"
  /\ UNCHANGED <<watchdog, stopping, stopTimer, exiting, conveyorVars, icyVars>>

IcyUpdateCollected ==
  /\ Alive /\ CollectProcess
  /\ UNCHANGED <<statusVars, watchdog, exitVars, icyVars>>

-------------------------------------------------------------------------------

IcyBase ==
  /\ \/ \E k \in Commands : ScriptFinished(k) \/ ScriptCollected(k)
     \/ RequestExit
     \/ ExitTimer
     \/ StopTimeout
  /\ UNCHANGED <<conveyorVars, icyVars>>

IcyNext ==
  \/ IcyBase
  \/ IcySocketConnected \/ IcyConnectionFailed \/ IcyRemoteClosed \/ IcyWatchdogTimeout
  \/ IcyPartOfAnswer \/ InvalidPassword \/ IcyEndOfAnswer \/ ServerRecovers
  \/ IcySendMetadata \/ IcyUpdateBroken \/ IcyUpdateCollected
  \/ \E done \in BOOLEAN : IcyUpdateSucceeded(done) \/ IcyUpdateFailed(done)

\* The timer fires; once in order, the server accepts connections, answers
\* them and gets rid of the ones that send no headers.
IcySpec ==
  /\ IcyInit /\ [][IcyNext]_allIcyVars
  /\ WF_allIcyVars(IcyWatchdogTimeout)
  /\ WF_allIcyVars(mood = "good"
                   /\ (IcySocketConnected \/ IcyEndOfAnswer \/ IcyRemoteClosed))

-------------------------------------------------------------------------------
(* Properties *)

\* A login holds for the connection it was made on, and the headers were sent
\* on it: the next connection has to be answered before it sends any
\* (socketDisconnectedData(), ProcessHeaders()).
LoginIsOfThisConnection == authenticated => icySocket = "up" /\ headersSent

\* Whatever a server said, refused or broke off before, once it is in order
\* glasscoder gets in: the leftovers in the receive buffer and a refused
\* connection that stays open cost attempts, never the stream
\* (socketReadyReadData(), ProcessHeaders(), setError()).
GetsInAtLast == mood = "good" ~> (icySocket = "up" /\ headersSent) \/ ~Alive
=============================================================================
