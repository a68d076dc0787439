------------------------------ MODULE Connector -------------------------------
(***************************************************************************)
(* What every server connector of glasscoder shares                        *)
(* (src/common/connector.cpp) and how the program stops it                 *)
(* (src/glasscoder/glasscoder.cpp): the connection status, the commands    *)
(* run when it changes (--server-script-up, --server-script-down, both     *)
(* given here), the watchdog timer that connects again, and the exit.      *)
(*                                                                         *)
(* A command runs in a process of its own; one that cannot be started      *)
(* never reports its end.  conn_watchdog_active only chooses log messages  *)
(* and is left out.                                                        *)
(***************************************************************************)
EXTENDS Naturals

VARIABLES
  connected,   \* conn_connected
  scripts,     \* conn_script_{up,down}_process: "none" (NULL), "running",
               \* "failed" (never started), "finished" (garbage timer armed)
  lastScript,  \* ghost: the command started last
  overrun,     \* ghost: a command was skipped, the one before still there
  watchdog,    \* conn_watchdog_timer is armed
  stopping,    \* conn_is_stopping
  stopTimer,   \* conn_stop_timer is armed
  exiting,     \* glasscoder_exiting
  exited       \* "no", or how the program ended: "stopped", "error"

statusVars == <<connected, scripts, lastScript, overrun>>
exitVars == <<stopping, stopTimer, exiting, exited>>

Commands == {"up", "down"}

BaseInit ==
  /\ connected = FALSE
  /\ scripts = [k \in Commands |-> "none"] /\ lastScript = "none" /\ overrun = FALSE
  /\ watchdog = FALSE
  /\ stopping = FALSE /\ stopTimer = FALSE /\ exiting = FALSE /\ exited = "no"

Alive == exited = "no"

RunScript(k) ==
  IF scripts[k] = "none"
    THEN /\ \E outcome \in {"running", "failed"} : scripts' = [scripts EXCEPT ![k] = outcome]
         /\ lastScript' = k
         /\ UNCHANGED overrun
    ELSE /\ overrun' = TRUE
         /\ UNCHANGED <<scripts, lastScript>>

\* setConnected(): a change of the status runs the command for it, unless
\* the program is stopping.
SetConnected(state) ==
  /\ connected' = state
  /\ IF connected # state /\ ~stopping
       THEN RunScript(IF state THEN "up" ELSE "down")
       ELSE UNCHANGED <<scripts, lastScript, overrun>>

ScriptFinished(k) ==
  /\ Alive /\ scripts[k] = "running"
  /\ scripts' = [scripts EXCEPT ![k] = "finished"]
  /\ UNCHANGED <<connected, lastScript, overrun, watchdog, exitVars>>

\* scriptUpCollectGarbageData(), scriptDownCollectGarbageData()
ScriptCollected(k) ==
  /\ Alive /\ scripts[k] = "finished"
  /\ scripts' = [scripts EXCEPT ![k] = "none"]
  /\ UNCHANGED <<connected, lastScript, overrun, watchdog, exitVars>>

\* The handlers of SIGINT and SIGTERM, and audioDeviceStoppedData().
RequestExit ==
  /\ Alive /\ ~exiting
  /\ exiting' = TRUE
  /\ UNCHANGED <<statusVars, watchdog, stopping, stopTimer, exited>>

\* exitTimerData() reads the status before it stops the connector, which
\* resets it.
StatusAfterStop == FALSE
StatusAtExit    == connected

\* exitTimerData(), with the stop() of a connector that stops by the timer:
\* setConnected(false) runs no command while stopping, so the program runs
\* the last one itself, detached.
ExitTimer ==
  /\ Alive /\ exiting /\ ~stopping
  /\ stopping' = TRUE /\ stopTimer' = TRUE
  /\ connected' = FALSE
  /\ lastScript' = IF StatusAtExit THEN "down" ELSE lastScript
  /\ UNCHANGED <<scripts, overrun, watchdog, exiting, exited>>

\* Each stopped() signal is delivered to connectorStoppedData() once per
\* connection of the signal; the program ends at one more than the number of
\* connectors (one).
Connectors == 1
SingleConnection == 1
StoppedConnections == 2
StopTimeout ==
  /\ Alive /\ stopTimer
  /\ stopTimer' = FALSE
  /\ exited' = IF StoppedConnections = Connectors + 1 THEN "stopped" ELSE exited
  /\ UNCHANGED <<statusVars, watchdog, stopping, exiting>>

BaseTypeOK ==
  /\ connected \in BOOLEAN /\ overrun \in BOOLEAN /\ watchdog \in BOOLEAN
  /\ scripts \in [Commands -> {"none", "running", "failed", "finished"}]
  /\ lastScript \in Commands \cup {"none"}
  /\ stopping \in BOOLEAN /\ stopTimer \in BOOLEAN /\ exiting \in BOOLEAN
  /\ exited \in {"no", "stopped", "error"}
===============================================================================
