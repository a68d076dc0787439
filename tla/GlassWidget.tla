---------------------------- MODULE GlassWidget -----------------------------
(***************************************************************************)
(* GlassWidget: one row of GlassCommander, which starts, watches and stops  *)
(* one glasscoder.  A row keeps gw_process, a pointer to the QProcess it    *)
(* started last; a QProcess that was started before may outlive that        *)
(* pointer, so the processes have a table of their own here.                *)
(*                                                                          *)
(* What is started and stopped by whom is GlassCommander's part.            *)
(***************************************************************************)
EXTENDS Naturals, Sequences, FiniteSets

CONSTANTS Widgets,   \* the rows that can exist
          MaxProcs   \* bound: encoder processes started in a behaviour

NULL == 0            \* gw_process of a row without a process

VARIABLES
  proc,       \* gw_process: the index in procs, or NULL
  procs,      \* every QProcess made so far
  button,     \* "Start" or "Stop": text and connection of gw_start_button
  killTimer,  \* gw_kill_timer runs
  replaced    \* rows for which start() overwrote a gw_process that was not NULL:
              \* one still starting, or one that could not be started

widgetVars == <<proc, procs, button, killTimer, replaced>>

\* A QProcess: its state() q ("over" is NotRunning), the program behind it,
\* and the signals sent to that program.
NewProcess(w) ==
  [owner |-> w, q |-> "starting", os |-> "alive", code |-> 0,
   told |-> "no"]

WidgetInit ==
  /\ proc = [w \in Widgets |-> NULL]
  /\ procs = <<>>
  /\ button = [w \in Widgets |-> "Start"]
  /\ killTimer = [w \in Widgets |-> FALSE]
  /\ replaced = {}

\* isActive(): the process has reported that it runs.
IsActive(w) == proc[w] # NULL /\ procs[proc[w]].q = "running"

\* terminate(): SIGTERM, with the button of the row ("stop", which arms the kill
\* timer) or for all rows ("end").
Told(p, how) == [p EXCEPT !.told = how]

Killed(p) ==
  IF p.os = "alive" THEN [p EXCEPT !.os = "dead", !.code = 1] ELSE p

\* A process that is over, or whose QProcess was deleted: the destructor
\* kills a program that still runs.
Over(p) == [NewProcess(p.owner) EXCEPT !.q = "over", !.os = "dead"]

\* startEncodingData(): credentials, a new process in place of the old
\* pointer, the button.
StartEncoding(w) ==
  \/ /\ Len(procs) < MaxProcs
     /\ procs' = Append(procs, NewProcess(w))
     /\ proc' = [proc EXCEPT ![w] = Len(procs) + 1]
     /\ button' = [button EXCEPT ![w] = "Stop"]
     /\ replaced' = IF proc[w] # NULL THEN replaced \cup {w} ELSE replaced
     /\ UNCHANGED killTimer
  \/ UNCHANGED widgetVars        \* the credentials cannot be written

\* With the pointer given up too early.
StopAndForget(w) ==
  /\ procs' = [procs EXCEPT ![proc[w]] = Told(@, "stop")]
  /\ proc' = [proc EXCEPT ![w] = NULL]
  /\ killTimer' = [killTimer EXCEPT ![w] = TRUE]
  /\ UNCHANGED <<button, replaced>>

\* stopEncodingData(), for a row that has a process.
StopEncoding(w) ==
  /\ procs' = [procs EXCEPT ![proc[w]] = Told(@, "stop")]
  /\ killTimer' = [killTimer EXCEPT ![w] = TRUE]
  /\ UNCHANGED <<proc, button, replaced>>

\* killData(): the encoder did not end in time.  The time is long enough for a
\* QProcess to learn that its program was started.
KillTimeout(w) ==
  /\ killTimer[w]
  /\ proc[w] # NULL => procs[proc[w]].q # "starting"
  /\ killTimer' = [killTimer EXCEPT ![w] = FALSE]
  /\ procs' = IF IsActive(w) THEN [procs EXCEPT ![proc[w]] = Killed(@)] ELSE procs
  /\ UNCHANGED <<proc, button, replaced>>

\* QProcess learns that the program was started ...
Started(i) ==
  /\ procs[i].q = "starting"
  /\ procs' = [procs EXCEPT ![i].q = "running"]
  /\ UNCHANGED <<proc, button, killTimer, replaced>>

\* ... or that it could not be: processErrorData() prints a line, and no
\* finished() ever comes.
FailedToStart(i) ==
  /\ procs[i].q = "starting" /\ procs[i].os = "alive"
  /\ procs' = [procs EXCEPT ![i] = Over(@)]
  /\ UNCHANGED <<proc, button, killTimer, replaced>>

\* The encoder ends: because it was told to or the file is over (0), or with
\* an error or a crash.
EncoderEnds(i) ==
  /\ procs[i].os = "alive"
  /\ \E c \in {0, 1}: procs' = [procs EXCEPT ![i].os = "dead", ![i].code = c]
  /\ UNCHANGED <<proc, button, killTimer, replaced>>

\* Without the reset of the kill timer.
ProcessFinishedTimerOn(i) ==
  LET w    == procs[i].owner
      over == [procs EXCEPT ![i] = Over(@)]
  IN /\ procs[i].q = "running" /\ procs[i].os = "dead"
     /\ button' = IF procs[i].code = 0 THEN [button EXCEPT ![w] = "Start"] ELSE button
     /\ procs' = IF proc[w] = NULL THEN over ELSE [over EXCEPT ![proc[w]] = Over(@)]
     /\ proc' = [proc EXCEPT ![w] = NULL]
     /\ UNCHANGED <<killTimer, replaced>>

\* processFinishedData() of the row that started process i.  It forgets and
\* deletes gw_process, which in a replaced row may be another process, or NULL
\* (glasswidget.cpp:348): deleteLater() then only posts an event to nobody,
\* which Qt drops with a warning.
ProcessFinished(i) ==
  LET w    == procs[i].owner
      over == [procs EXCEPT ![i] = Over(@)]
  IN /\ procs[i].q = "running" /\ procs[i].os = "dead"
     /\ button' = IF procs[i].code = 0 THEN [button EXCEPT ![w] = "Start"] ELSE button
     /\ killTimer' = [killTimer EXCEPT ![w] = FALSE]
     /\ procs' = IF proc[w] = NULL THEN over ELSE [over EXCEPT ![proc[w]] = Over(@)]
     /\ proc' = [proc EXCEPT ![w] = NULL]
     /\ UNCHANGED replaced

\* The row is deleted, and its processes with it.
DeleteWidget(w) ==
  /\ procs' = [i \in DOMAIN procs |->
                 IF procs[i].owner = w THEN Over(procs[i]) ELSE procs[i]]
  /\ proc' = [proc EXCEPT ![w] = NULL]
  /\ button' = [button EXCEPT ![w] = "Start"]      \* what a new row has
  /\ killTimer' = [killTimer EXCEPT ![w] = FALSE]
  /\ replaced' = replaced \ {w}
=============================================================================
