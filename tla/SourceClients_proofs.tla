------------------------- MODULE SourceClients_proofs -------------------------
(***************************************************************************)
(* The source clients of Icecast and Shoutcast servers, for any number of  *)
(* title updates.  Whatever the server and the network do, another attempt *)
(* at a connection to Icecast is being made or is due, and however the     *)
(* program ends, the last command it started is not the one for an         *)
(* established connection, unless one was skipped.  A login to Shoutcast   *)
(* holds for its own connection only.                                      *)
(***************************************************************************)
EXTENDS IceConnector, IcyConnector, TLAPS, SequenceTheorems

(***************************************************************************)
(* The types.  Each handler is a change of some of four groups of          *)
(* variables: status and commands, the exit, the queue, the socket.        *)
(***************************************************************************)
StatusType ==
  /\ connected \in BOOLEAN /\ overrun \in BOOLEAN
  /\ scripts \in [Commands -> {"none", "running", "failed", "finished"}]
  /\ lastScript \in Commands \cup {"none"}

ExitType ==
  /\ stopping \in BOOLEAN /\ stopTimer \in BOOLEAN /\ exiting \in BOOLEAN
  /\ exited \in {"no", "stopped", "error"}

SocketType ==
  /\ sock \in {"connecting", "up", "closing", "closed"}
  /\ reply \in {"none", "part", "all"} /\ status \in Statuses
  /\ buffer \in Statuses \cup {"", "body"}

\* A command that is started or skipped keeps the types.
LEMMA RunScriptType ==
  ASSUME StatusType, NEW k \in Commands, RunScript(k), connected' \in BOOLEAN
  PROVE  StatusType'
  BY DEF StatusType, RunScript

\* A change of the status keeps the types.
LEMMA SetConnectedType ==
  ASSUME StatusType, NEW state \in BOOLEAN, SetConnected(state)
  PROVE  StatusType'
<1>1. CASE connected # state /\ ~stopping
  <2>1. RunScript(IF state THEN "up" ELSE "down") /\ connected' \in BOOLEAN
    BY <1>1 DEF SetConnected
  <2>2. (IF state THEN "up" ELSE "down") \in Commands
    BY DEF Commands
  <2> QED BY <2>1, <2>2, RunScriptType
<1>2. CASE ~(connected # state /\ ~stopping)
  BY <1>2 DEF SetConnected, StatusType
<1> QED BY <1>1, <1>2

(* What push(), the end of curl and its collection make of the queue.      *)
LEMMA PushType ==
  ASSUME ConveyorTypeOK, Push
  PROVE  ConveyorTypeOK'
<1> USE UpdatesAssumption DEF ConveyorTypeOK
<1>1. /\ pushed < MaxUpdates /\ pushed' = pushed + 1
      /\ queue' = Append(queue, pushed + 1) /\ applied' = applied
      /\ curl' = IF Len(queue') = 1 THEN Dispatched(queue') ELSE curl
  BY DEF Push
<1>2. pushed' \in 1 .. MaxUpdates
  BY <1>1
<1>3. queue' \in Seq(1 .. MaxUpdates) /\ Len(queue') = Len(queue) + 1
      /\ Len(queue) \in Nat
  BY <1>1, <1>2
<1>4. queue' # <<>>
  BY <1>3
<1>5. CASE queue = <<>>
  <2>1. Len(queue') = 1
    BY <1>3, <1>5
  <2> QED BY <1>1, <1>2, <1>3, <1>4, <2>1 DEF Dispatched
<1>6. CASE queue # <<>>
  <2>1. Len(queue') # 1
    BY <1>3, <1>6
  <2> QED BY <1>1, <1>2, <1>3, <1>4, <1>6, <2>1
<1> QED BY <1>5, <1>6

\* The end of curl keeps the types.
LEMMA CurlFinishedType ==
  ASSUME ConveyorTypeOK, NEW done \in BOOLEAN, CurlFinished(done)
  PROVE  ConveyorTypeOK'
<1>1. queue \in Seq(1 .. MaxUpdates) /\ queue # <<>>
  BY DEF ConveyorTypeOK, CurlFinished
<1>2. Head(queue) \in 1 .. MaxUpdates
  BY <1>1, HeadTailProperties
<1>3. applied' \in Seq(1 .. MaxUpdates)
  <2>1. CASE done
    <3>1. applied' = Append(applied, Head(queue)) /\ applied \in Seq(1 .. MaxUpdates)
      BY <2>1 DEF ConveyorTypeOK, CurlFinished
    <3> QED BY <1>2, <3>1, AppendProperties
  <2>2. CASE ~done
    BY <2>2 DEF ConveyorTypeOK, CurlFinished
  <2> QED BY <2>1, <2>2
<1> QED BY <1>1, <1>3 DEF ConveyorTypeOK, CurlFinished

\* The collection of its process keeps the types.
LEMMA CollectType ==
  ASSUME ConveyorTypeOK, CollectProcess
  PROVE  ConveyorTypeOK'
<1>1. queue \in Seq(1 .. MaxUpdates) /\ queue # <<>>
  BY DEF ConveyorTypeOK, CollectProcess
<1>2. Tail(queue) \in Seq(1 .. MaxUpdates)
  BY <1>1, HeadTailProperties
<1> QED BY <1>1, <1>2 DEF ConveyorTypeOK, CollectProcess, Popped, GoesOn, Dispatched

(* A group of variables that does not change keeps its type.               *)
LEMMA UnchangedTypes ==
  ASSUME TypeOK
  PROVE  /\ UNCHANGED statusVars => StatusType'
         /\ UNCHANGED watchdog => (watchdog \in BOOLEAN)'
         /\ UNCHANGED exitVars => ExitType'
         /\ UNCHANGED conveyorVars => ConveyorTypeOK'
         /\ UNCHANGED sockVars => SocketType'
<1>1. UNCHANGED statusVars => StatusType'
  BY DEF TypeOK, BaseTypeOK, StatusType, statusVars
<1>2. UNCHANGED watchdog => (watchdog \in BOOLEAN)'
  BY DEF TypeOK, BaseTypeOK
<1>3. UNCHANGED exitVars => ExitType'
  BY DEF TypeOK, BaseTypeOK, ExitType, exitVars
<1>4. UNCHANGED conveyorVars => ConveyorTypeOK'
  BY DEF TypeOK, ConveyorTypeOK, conveyorVars
<1>5. UNCHANGED sockVars => SocketType'
  BY DEF TypeOK, SocketType, sockVars
<1> QED BY <1>1, <1>2, <1>3, <1>4, <1>5

\* The type invariant by the parts the actions change.
LEMMA TypeParts ==
  TypeOK <=> /\ StatusType /\ watchdog \in BOOLEAN /\ ExitType
             /\ ConveyorTypeOK /\ SocketType
  BY DEF TypeOK, BaseTypeOK, StatusType, ExitType, SocketType

\* The same in the next state.
LEMMA TypePartsNext ==
  ASSUME StatusType', (watchdog \in BOOLEAN)', ExitType', ConveyorTypeOK', SocketType'
  PROVE  TypeOK'
  BY TypeParts, PTL

\* The steps of a title update keep the types.
LEMMA UpdateType ==
  ASSUME TypeOK, SendMetadata \/ UpdateEnds \/ UpdateCollected
  PROVE  TypeOK'
<1> USE UnchangedTypes, TypePartsNext
<1>0. ConveyorTypeOK /\ StatusType
  BY TypeParts
<1>1. CASE SendMetadata
  BY <1>0, <1>1, PushType DEF SendMetadata
<1>2. CASE UpdateCollected
  BY <1>0, <1>2, CollectType DEF UpdateCollected
<1>3. CASE UpdateSucceeded
  BY <1>0, <1>3, CurlFinishedType, SetConnectedType DEF UpdateSucceeded
<1>4. ASSUME NEW done \in BOOLEAN, UpdateFailed(done)
      PROVE  TypeOK'
  BY <1>0, <1>4, CurlFinishedType, SetConnectedType DEF UpdateFailed
<1>5. CASE UpdateBroken
  <2>1. ExitType'
    BY <1>5 DEF UpdateBroken, ExitType, TypeOK, BaseTypeOK
  <2> QED BY <1>0, <1>5, <2>1, SetConnectedType DEF UpdateBroken
<1> QED BY <1>1, <1>2, <1>3, <1>4, <1>5 DEF UpdateEnds

\* The steps of the connection keep the types.
LEMMA ConnectionType ==
  ASSUME TypeOK,
         \/ SocketConnected \/ ConnectionFailed \/ RemoteClosed
         \/ SocketDisconnected \/ WatchdogTimeout
         \/ \E s \in Statuses : PartOfAnswer(s) \/ EndOfAnswer(s)
  PROVE  TypeOK'
<1> USE UnchangedTypes, TypePartsNext
<1>0. SocketType /\ StatusType
  BY TypeParts
<1>1. CASE SocketConnected
  <2>1. SocketType'
    BY <1>0, <1>1 DEF SocketConnected, SocketType
  <2> QED BY <1>1, <2>1 DEF SocketConnected
<1>2. CASE ConnectionFailed
  <2>1. SocketType' /\ (watchdog \in BOOLEAN)'
    BY <1>0, <1>2 DEF ConnectionFailed, SocketType, Watched
  <2> QED BY <1>2, <2>1 DEF ConnectionFailed
<1>3. CASE RemoteClosed
  <2>1. SocketType' /\ (watchdog \in BOOLEAN)'
    BY <1>0, <1>3 DEF RemoteClosed, SocketType, Watched
  <2> QED BY <1>0, <1>3, <2>1, SetConnectedType DEF RemoteClosed
<1>4. CASE SocketDisconnected
  <2>1. SocketType'
    BY <1>0, <1>4 DEF SocketDisconnected, SocketType
  <2> QED BY <1>0, <1>4, <2>1, SetConnectedType DEF SocketDisconnected
<1>5. CASE WatchdogTimeout
  <2>1. SocketType' /\ (watchdog \in BOOLEAN)'
    BY <1>0, <1>5 DEF WatchdogTimeout, SocketType, Statuses
  <2> QED BY <1>5, <2>1 DEF WatchdogTimeout
<1>6. ASSUME NEW s \in Statuses, PartOfAnswer(s)
      PROVE  TypeOK'
  <2>1. SocketType'
    BY <1>0, <1>6 DEF PartOfAnswer, SocketType
  <2> QED BY <1>6, <2>1 DEF PartOfAnswer
<1>7. ASSUME NEW s \in Statuses, EndOfAnswer(s)
      PROVE  TypeOK'
  <2>1. SocketType' /\ (watchdog \in BOOLEAN)'
    BY <1>0, <1>7, TypeParts DEF EndOfAnswer, CloseSocket, SocketType, Watched
  <2>2. SetConnected(TRUE) \/ SetConnected(FALSE) \/ UNCHANGED statusVars
    BY <1>7 DEF EndOfAnswer, CloseSocket
  <2>3. StatusType'
    BY <1>0, <2>2, SetConnectedType
  <2> QED BY <1>7, <2>1, <2>3 DEF EndOfAnswer
<1> QED BY <1>1, <1>2, <1>3, <1>4, <1>5, <1>6, <1>7

\* The steps of the commands and of the exit keep the types.
LEMMA BaseType ==
  ASSUME TypeOK, Base
  PROVE  TypeOK'
<1> USE UnchangedTypes, TypePartsNext
<1>0. /\ StatusType /\ ExitType /\ UNCHANGED <<conveyorVars, sockVars>>
  BY TypeParts DEF Base
<1>1. ASSUME NEW k \in Commands, ScriptFinished(k) \/ ScriptCollected(k)
      PROVE  TypeOK'
  <2>1. StatusType'
    BY <1>0, <1>1 DEF ScriptFinished, ScriptCollected, StatusType
  <2> QED BY <1>0, <1>1, <2>1 DEF ScriptFinished, ScriptCollected
<1>2. CASE RequestExit
  <2>1. ExitType'
    BY <1>0, <1>2 DEF RequestExit, ExitType
  <2> QED BY <1>0, <1>2, <2>1 DEF RequestExit
<1>3. CASE ExitTimer
  <2>1. StatusType' /\ ExitType'
    BY <1>0, <1>3 DEF ExitTimer, StatusType, ExitType, Commands
  <2> QED BY <1>0, <1>3, <2>1 DEF ExitTimer
<1>4. CASE StopTimeout
  <2>1. ExitType'
    BY <1>0, <1>4 DEF StopTimeout, ExitType
  <2> QED BY <1>0, <1>4, <2>1 DEF StopTimeout
<1> QED BY <1>1, <1>2, <1>3, <1>4 DEF Base

\* The types at the start.
LEMMA InitType == Init => TypeOK
<1> SUFFICES ASSUME Init PROVE TypeOK
  OBVIOUS
<1>1. StatusType /\ watchdog \in BOOLEAN /\ ExitType
  BY DEF Init, BaseInit, StatusType, ExitType
<1>2. ConveyorTypeOK
  <2>1. queue = <<>> /\ applied = <<>> /\ curl = "none" /\ pushed = 0
    BY DEF Init, ConveyorInit
  <2>2. 0 \in 0 .. MaxUpdates
    BY UpdatesAssumption
  <2> QED BY <2>1, <2>2, EmptySeq DEF ConveyorTypeOK
<1>3. SocketType
  BY DEF Init, SocketType, Statuses
<1> QED BY <1>1, <1>2, <1>3, TypeParts

\* Every step keeps the types.
LEMMA StepType == TypeOK /\ [Next]_vars => TypeOK'
<1>1. ASSUME TypeOK, UNCHANGED vars
      PROVE  TypeOK'
  <2>1. UNCHANGED <<statusVars, watchdog, exitVars, conveyorVars, sockVars>>
    BY <1>1 DEF vars, statusVars, exitVars, conveyorVars, sockVars
  <2> QED BY <1>1, <2>1, UnchangedTypes, TypePartsNext
<1> QED BY <1>1, BaseType, ConnectionType, UpdateType DEF Next

(***************************************************************************)
(* Every variable of the source client keeps its type.                     *)
(***************************************************************************)
THEOREM TypeCorrect == Spec => []TypeOK
  BY InitType, StepType, PTL DEF Spec

-----------------------------------------------------------------------------
(***************************************************************************)
(* Retries.  Of a connection that is not there only the watchdog can make  *)
(* another attempt; a socket that closes by itself is the one case where   *)
(* it must have been armed some steps before.                              *)
(***************************************************************************)
LEMMA RetryStep == TypeOK /\ AlwaysRetries /\ [Next]_vars => AlwaysRetries'
<1> SUFFICES ASSUME TypeOK, AlwaysRetries, [Next]_vars, Alive'
             PROVE  (sock \in {"connecting", "up"} \/ watchdog)'
  BY DEF AlwaysRetries
<1>1. CASE UNCHANGED vars
  BY <1>1 DEF vars, AlwaysRetries, Alive
<1>2. CASE Base
  <2>1. UNCHANGED <<watchdog, sock>> /\ Alive
    BY <1>2 DEF Base, sockVars, ScriptFinished, ScriptCollected, RequestExit,
                ExitTimer, StopTimeout
  <2> QED BY <2>1 DEF AlwaysRetries
<1>3. CASE SocketConnected \/ WatchdogTimeout
  BY <1>3 DEF SocketConnected, WatchdogTimeout
<1>4. CASE ConnectionFailed \/ RemoteClosed
  BY <1>4 DEF ConnectionFailed, RemoteClosed, Watched
<1>5. CASE SocketDisconnected
  BY <1>5 DEF SocketDisconnected, AlwaysRetries
<1>6. ASSUME NEW s \in Statuses, PartOfAnswer(s)
      PROVE  (sock \in {"connecting", "up"} \/ watchdog)'
  BY <1>6 DEF PartOfAnswer
<1>7. ASSUME NEW s \in Statuses, EndOfAnswer(s)
      PROVE  (sock \in {"connecting", "up"} \/ watchdog)'
  BY <1>7 DEF EndOfAnswer, Watched
<1>8. CASE SendMetadata \/ UpdateEnds \/ UpdateCollected
  <2>1. UNCHANGED <<watchdog, sock>> /\ Alive
    BY <1>8 DEF SendMetadata, UpdateEnds, UpdateSucceeded, UpdateFailed,
                UpdateBroken, UpdateCollected, sockVars
  <2> QED BY <2>1 DEF AlwaysRetries
<1> QED BY <1>1, <1>2, <1>3, <1>4, <1>5, <1>6, <1>7, <1>8 DEF Next

(***************************************************************************)
(* Whatever goes wrong with the connection, in whatever order, another     *)
(* attempt is being made or is due.                                        *)
(***************************************************************************)
THEOREM NeverGivesUp == Spec => []AlwaysRetries
<1>1. Init => AlwaysRetries
  BY DEF Init, AlwaysRetries
<1> QED BY <1>1, InitType, StepType, RetryStep, PTL DEF Spec

-----------------------------------------------------------------------------
(***************************************************************************)
(* Commands.  The command for an established connection may be the last    *)
(* one only as long as the connection is established and its loss will be  *)
(* seen: the program is neither stopping nor over.                         *)
(***************************************************************************)
Settled == lastScript # "up" \/ overrun

CommandInv ==
  /\ Settled \/ (connected /\ ~stopping /\ Alive)
  /\ stopTimer => stopping

(* A loss that is seen settles it; nothing unsettles it while stopping.    *)
LEMMA StatusChange ==
  ASSUME TypeOK, CommandInv, NEW state \in BOOLEAN, SetConnected(state)
  PROVE  /\ ~state => Settled'
         /\ stopping => Settled'
         /\ Settled' \/ connected'
<1>1. CASE connected # state /\ ~stopping
  <2>1. connected' = state /\ RunScript(IF state THEN "up" ELSE "down")
    BY <1>1 DEF SetConnected
  <2>2. CASE state
    BY <1>1, <2>1, <2>2
  <2>3. CASE ~state
    BY <1>1, <2>1, <2>3 DEF RunScript, Settled
  <2> QED BY <2>2, <2>3
<1>2. CASE ~(connected # state /\ ~stopping)
  <2>1. connected' = state /\ UNCHANGED <<lastScript, overrun>>
    BY <1>2 DEF SetConnected
  <2>2. Settled \/ (connected /\ ~stopping)
    BY DEF CommandInv
  <2> QED BY <1>2, <2>1, <2>2 DEF Settled, TypeOK, BaseTypeOK
<1> QED BY <1>1, <1>2

\* Every step keeps the invariant of the commands.
LEMMA CommandStep == TypeOK /\ CommandInv /\ [Next]_vars => CommandInv'
<1> SUFFICES ASSUME TypeOK, CommandInv, [Next]_vars
             PROVE  CommandInv'
  OBVIOUS
<1>1. CASE UNCHANGED <<connected, lastScript, overrun, stopping, stopTimer, exited>>
  BY <1>1 DEF CommandInv, Settled, Alive
<1>2. ASSUME NEW state \in BOOLEAN, SetConnected(state), Alive, UNCHANGED exitVars
      PROVE  CommandInv'
  BY <1>2, StatusChange DEF CommandInv, exitVars, Alive
<1>3. CASE UpdateBroken
  BY <1>3, StatusChange DEF CommandInv, UpdateBroken
<1>4. CASE ExitTimer
  BY <1>4 DEF ExitTimer, StatusAtExit, CommandInv, Settled
<1>5. CASE StopTimeout
  BY <1>5 DEF StopTimeout, CommandInv, Settled, statusVars
<1>6. ASSUME NEW s \in Statuses, EndOfAnswer(s)
      PROVE  CommandInv'
  <2>1. Alive /\ UNCHANGED exitVars
    BY <1>6 DEF EndOfAnswer
  <2>2. SetConnected(TRUE) \/ SetConnected(FALSE) \/ UNCHANGED statusVars
    BY <1>6 DEF EndOfAnswer, CloseSocket
  <2> QED BY <1>1, <1>2, <2>1, <2>2 DEF exitVars, statusVars
<1>7. CASE Base
  BY <1>1, <1>4, <1>5, <1>7
     DEF Base, ScriptFinished, ScriptCollected, RequestExit, exitVars, statusVars
<1>8. CASE RemoteClosed \/ SocketDisconnected
  BY <1>2, <1>8 DEF RemoteClosed, SocketDisconnected
<1>9. CASE SocketConnected \/ ConnectionFailed \/ WatchdogTimeout
           \/ (\E s \in Statuses : PartOfAnswer(s)) \/ SendMetadata \/ UpdateCollected
  BY <1>1, <1>9 DEF SocketConnected, ConnectionFailed, WatchdogTimeout,
     PartOfAnswer, SendMetadata, UpdateCollected, exitVars, statusVars
<1>10. CASE UpdateEnds
  BY <1>2, <1>3, <1>10 DEF UpdateEnds, UpdateSucceeded, UpdateFailed
<1>11. CASE UNCHANGED vars
  BY <1>1, <1>11 DEF vars
<1> QED BY <1>6, <1>7, <1>8, <1>9, <1>10, <1>11 DEF Next

(***************************************************************************)
(* However the program ends, the last command it started is not the one    *)
(* for an established connection, unless one was skipped.                  *)
(***************************************************************************)
THEOREM DownFollowsUp == Spec => []EveryUpHasItsDown
<1>1. Init => CommandInv
  BY DEF Init, BaseInit, CommandInv, Settled
<1>2. CommandInv => EveryUpHasItsDown
  BY DEF CommandInv, Settled, EveryUpHasItsDown, Alive
<1> QED BY <1>1, <1>2, InitType, StepType, CommandStep, PTL DEF Spec

-----------------------------------------------------------------------------
(***************************************************************************)
(* The Shoutcast client has the base and the queue of this one, and its    *)
(* own socket, which it keeps.                                             *)
(***************************************************************************)
\* The watchdog is armed only when the connection is closed, so that it cannot
\* open another under a login.
LoginInv ==
  /\ LoginIsOfThisConnection
  /\ watchdog => icySocket = "closed"

\* The commands, the exit and the title updates leave the connection alone.
LEMMA ConnectionUntouched ==
  ASSUME \/ IcyBase \/ IcySendMetadata \/ IcyUpdateBroken \/ IcyUpdateCollected
         \/ \E done \in BOOLEAN : IcyUpdateSucceeded(done) \/ IcyUpdateFailed(done)
  PROVE  UNCHANGED <<watchdog, icySocket, authenticated, headersSent>>
<1> USE DEF icyVars, connVars
<1>1. CASE IcyBase
  BY <1>1 DEF IcyBase, ScriptFinished, ScriptCollected, RequestExit,
              ExitTimer, StopTimeout
<1>2. CASE IcySendMetadata \/ IcyUpdateBroken \/ IcyUpdateCollected
  BY <1>2 DEF IcySendMetadata, IcyUpdateBroken, IcyUpdateCollected
<1>3. ASSUME NEW done \in BOOLEAN, IcyUpdateSucceeded(done) \/ IcyUpdateFailed(done)
      PROVE  UNCHANGED <<watchdog, icySocket, authenticated, headersSent>>
  BY <1>3 DEF IcyUpdateSucceeded, IcyUpdateFailed
<1> QED BY <1>1, <1>2, <1>3

\* Every step of the Shoutcast client keeps the login to its connection.
LEMMA LoginStep == LoginInv /\ [IcyNext]_allIcyVars => LoginInv'
<1> SUFFICES ASSUME LoginInv, [IcyNext]_allIcyVars
             PROVE  LoginInv'
  OBVIOUS
<1> USE DEF LoginInv, LoginIsOfThisConnection
<1>1. CASE UNCHANGED <<watchdog, icySocket, authenticated, headersSent>>
  BY <1>1
<1>2. CASE IcySocketConnected \/ IcyConnectionFailed
  BY <1>2 DEF IcySocketConnected, IcyConnectionFailed
<1>3. CASE IcyRemoteClosed
  BY <1>3 DEF IcyRemoteClosed, AuthenticatedAfterClose
<1>4. CASE IcyWatchdogTimeout
  BY <1>4 DEF IcyWatchdogTimeout
<1>5. CASE IcyPartOfAnswer \/ InvalidPassword \/ ServerRecovers
  BY <1>1, <1>5 DEF IcyPartOfAnswer, InvalidPassword, ServerRecovers,
                    connVars
<1>6. CASE IcyEndOfAnswer
  <2>1. icySocket = "up" /\ UNCHANGED <<watchdog, icySocket>>
    BY <1>6 DEF IcyEndOfAnswer
  <2>2. \/ authenticated' = TRUE /\ headersSent' = TRUE
        \/ UNCHANGED <<authenticated, headersSent>>
    BY <1>6 DEF IcyEndOfAnswer
  <2> QED BY <2>1, <2>2
<1>7. CASE UNCHANGED allIcyVars
  BY <1>1, <1>7 DEF allIcyVars, icyVars, connVars
<1> QED BY <1>1, <1>2, <1>3, <1>4, <1>5, <1>6, <1>7, ConnectionUntouched DEF IcyNext

(***************************************************************************)
(* A login to a Shoutcast server holds for the connection it was made on,  *)
(* and the headers were sent on it.                                        *)
(***************************************************************************)
THEOREM LoginsEndWithTheConnection == IcySpec => []LoginIsOfThisConnection
<1>1. IcyInit => LoginInv
  BY DEF IcyInit, BaseInit, LoginInv, LoginIsOfThisConnection
<1>2. LoginInv => LoginIsOfThisConnection
  BY DEF LoginInv
<1> QED BY <1>1, <1>2, LoginStep, PTL DEF IcySpec

===============================================================================
