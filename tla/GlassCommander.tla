--------------------------- MODULE GlassCommander ---------------------------
(***************************************************************************)
(* GlassCommander: the main window over its rows (GlassWidget).  It lists   *)
(* codecs and devices with glasscoder itself, starts the rows marked for    *)
(* it, starts and stops all, adds and removes rows, and waits for the       *)
(* encoders when it is closed.                                              *)
(*                                                                          *)
(* A question to the user is a modal dialog with an event loop of its own:  *)
(* while one is open the processes and timers go on and the window takes    *)
(* no input.                                                                *)
(***************************************************************************)
EXTENDS GlassWidget, Integers, SequencesExt

CONSTANTS InitialRows,  \* the settings files to start from: sets of rows
          MaxCloses,  \* bound: how often the user confirms the end
          MaxEdits    \* bound: rows added or removed

ASSUME RowsAssumption == \A S \in InitialRows: S \subseteq Widgets /\ IsFiniteSet(S)

VARIABLES
  phase,        \* "lists": gui_process lists codecs and devices; "ready";
                \* "exited" and "crashed" (a call through a null gw_process)
  exitCode,     \* of ExitProgram()
  encoders,     \* gui_encoders: the rows, from the top
  auto,         \* gw_auto_start of each row
  saved,        \* the settings file: names and autostart flags
  startingAll,  \* gui_starting_all
  autoIndex,    \* gui_autostart_index
  autoTimer,    \* gui_autostart_timer runs
  stopCount,    \* gui_stop_count
  stopTimer,    \* gui_stop_timer runs
  links,        \* connections of stopped() to encoderStoppedData(), per row
  mode,         \* mode of the rows: "normal", "insert", "remove"
  removable,    \* rows whose Remove button was enabled with that mode
  newName,      \* gui_new_instance_name
  dialog,       \* the modal dialog: "none", "close", or the row to delete
  asked,        \* the processes that were to end when the window was closed
  closes,       \* confirmed closings
  restarted,    \* something was started after that, or a row had more than one
                \* process then
  edits

startVars == <<startingAll, autoIndex, autoTimer>>
closeVars == <<stopCount, stopTimer, links, asked, closes, restarted>>
rowVars   == <<encoders, auto, saved, mode, removable, newName, edits>>
vars == <<widgetVars, startVars, closeVars, rowVars, phase, exitCode, dialog>>

Runs == phase \notin {"exited", "crashed"}
Free == Runs /\ dialog = "none"       \* the window takes input

ExitProgram(code) == phase' = "exited" /\ exitCode' = code
Stay == UNCHANGED <<phase, exitCode>>

\* SaveEncoders(): written to a temporary file that replaces the old one.
Saved(rows, flags) == [i \in DOMAIN rows |-> <<rows[i], flags[rows[i]]>>]

------------------------------------------------------------------------------
(* Start *)

\* The rows of the settings file, and which of them start by themselves.
LoadEncoders ==
  \E S \in InitialRows, T \in InitialRows:
    /\ encoders = SetToSeq(S)
    /\ auto = [w \in Widgets |-> w \in S /\ w \in T]

\* What the constructor of the window sets.
Init ==
  /\ WidgetInit
  /\ LoadEncoders
  /\ saved = Saved(encoders, auto)
  /\ phase = "lists" /\ exitCode = 0
  /\ startingAll = FALSE /\ autoIndex = 1 /\ autoTimer = FALSE
  /\ stopCount = 0 /\ stopTimer = FALSE /\ links = [w \in Widgets |-> 0]
  /\ mode = "normal" /\ removable = {} /\ newName = "none"
  /\ dialog = "none" /\ asked = {} /\ closes = 0 /\ restarted = FALSE /\ edits = 0

\* Rows at or after an index that autostartData() would start.
Due(all, index) ==
  {i \in index..Len(encoders):
     ~IsActive(encoders[i]) /\ (all \/ auto[encoders[i]])}

\* autostartData(): start one row, and come back in a second for the rest.
AutostartData(all, index, pending) ==
  LET due == Due(all, index) IN
  \/ /\ due = {}
     /\ startingAll' = FALSE /\ autoIndex' = index /\ autoTimer' = pending
     /\ UNCHANGED <<widgetVars, restarted>>
  \/ \E i \in due:
       /\ \A j \in due: i <= j
       /\ StartEncoding(encoders[i])
       /\ startingAll' = all /\ autoIndex' = i + 1 /\ autoTimer' = TRUE
       /\ restarted' = (restarted \/ closes > 0)

\* codecFinishedData(), then deviceFinishedData(); a list that cannot be had
\* ends the program.
ListsRead ==
  /\ Runs /\ phase = "lists"
  /\ \/ /\ phase' = "ready"
        /\ AutostartData(startingAll, autoIndex, autoTimer)
        /\ UNCHANGED <<exitCode, stopCount, stopTimer, links, asked, closes,
                       rowVars, dialog>>
     \/ /\ ExitProgram(256)
        /\ UNCHANGED <<widgetVars, startVars, closeVars, rowVars, dialog>>

AutostartTimeout ==
  /\ Runs /\ autoTimer
  /\ AutostartData(startingAll, autoIndex, FALSE)
  /\ UNCHANGED <<stopCount, stopTimer, links, asked, closes, rowVars, dialog>>
  /\ Stay

StartAllData ==
  /\ Free /\ mode = "normal"
  /\ AutostartData(TRUE, 1, autoTimer)
  /\ UNCHANGED <<stopCount, stopTimer, links, asked, closes, rowVars, dialog>>
  /\ Stay

\* SIGTERM without a kill timer; one that was armed goes on.
EndTold(p) == IF p.told = "no" THEN Told(p, "end") ELSE p

\* stopAllData(): no kill timer, and the buttons stay as they are.
StopAllData ==
  /\ Free /\ mode = "normal"
  /\ procs' = [i \in DOMAIN procs |->
       IF \E w \in Range(encoders): IsActive(w) /\ proc[w] = i
       THEN EndTold(procs[i]) ELSE procs[i]]
  /\ UNCHANGED <<proc, button, killTimer, replaced,
                 startVars, closeVars, rowVars, dialog>>
  /\ Stay

------------------------------------------------------------------------------
(* One row *)

\* The button of a row.  "Stop" on a row without a process goes through the
\* null pointer.
ClickStart(w) ==
  /\ Free /\ mode = "normal" /\ w \in Range(encoders) /\ button[w] = "Start"
  /\ StartEncoding(w)
  /\ restarted' = (restarted \/ closes > 0)
  /\ UNCHANGED <<startVars, stopCount, stopTimer, links, asked, closes, rowVars, dialog>>
  /\ Stay

ClickStop(w) ==
  /\ Free /\ mode = "normal" /\ w \in Range(encoders) /\ button[w] = "Stop"
  /\ \/ proc[w] # NULL /\ StopEncoding(w) /\ Stay
     \/ proc[w] = NULL /\ phase' = "crashed" /\ UNCHANGED <<widgetVars, exitCode>>
  /\ UNCHANGED <<startVars, closeVars, rowVars, dialog>>

RowEvent(w) ==
  /\ Runs
  /\ KillTimeout(w)
  /\ UNCHANGED <<startVars, closeVars, rowVars, dialog>> /\ Stay

ProcessEvent(i) ==
  /\ Runs
  /\ Started(i) \/ FailedToStart(i) \/ EncoderEnds(i)
  /\ UNCHANGED <<startVars, closeVars, rowVars, dialog>> /\ Stay

\* Ending with the first encoder that stops.
FirstEncoderFinished(i) ==
  /\ Runs
  /\ ProcessFinished(i)
  /\ stopCount' = stopCount - links[procs[i].owner]
  /\ IF stopCount > 0 /\ links[procs[i].owner] > 0 THEN ExitProgram(0) ELSE Stay
  /\ UNCHANGED <<startVars, stopTimer, links, asked, closes, restarted,
                 rowVars, dialog>>

\* processFinishedData(), and encoderStoppedData() once for each connection
\* of the row's stopped(): the program ends when the count comes to zero.
EncoderFinished(i) ==
  LET n == links[procs[i].owner] IN
  /\ Runs
  /\ ProcessFinished(i)
  /\ stopCount' = stopCount - n
  /\ IF stopCount \in 1..n THEN ExitProgram(0) ELSE Stay
  /\ UNCHANGED <<startVars, stopTimer, links, asked, closes, restarted,
                 rowVars, dialog>>

\* configData(): the autostart flag, then configurationChangedData().
Configure(w) ==
  /\ Free /\ mode = "normal" /\ w \in Range(encoders) /\ edits < MaxEdits
  /\ edits' = edits + 1
  /\ auto' = [auto EXCEPT ![w] = ~@]
  /\ saved' = Saved(encoders, auto')
  /\ UNCHANGED <<widgetVars, startVars, closeVars, encoders, mode, removable,
                 newName, dialog>>
  /\ Stay

------------------------------------------------------------------------------
(* Adding and removing rows *)

\* abandonInstanceData(), also at the end of an insertion or removal.
NormalMode == mode' = "normal" /\ newName' = "none" /\ removable' = {}

AddInstanceData ==
  /\ Free /\ edits < MaxEdits
  /\ \E w \in Widgets \ Range(encoders): newName' = w
  /\ mode' = "insert" /\ removable' = {}
  /\ UNCHANGED <<widgetVars, startVars, closeVars, encoders, auto, saved,
                 edits, dialog>>
  /\ Stay

RemoveInstanceData ==
  /\ Free /\ encoders # <<>> /\ edits < MaxEdits
  /\ mode' = "remove" /\ newName' = "none"
  /\ removable' = IF mode = "remove" THEN removable   \* setMode() sees no change
                  ELSE {w \in Range(encoders): ~IsActive(w)}
  /\ UNCHANGED <<widgetVars, startVars, closeVars, encoders, auto, saved,
                 edits, dialog>>
  /\ Stay

AbandonInstanceData ==
  /\ Free /\ mode # "normal"
  /\ NormalMode
  /\ UNCHANGED <<widgetVars, startVars, closeVars, encoders, auto, saved,
                 edits, dialog>>
  /\ Stay

\* insertClickedData(): below the row clicked, or on top (k = 0).
InsertClickedData(k) ==
  /\ Free /\ mode = "insert"
  /\ encoders' = InsertAt(encoders, k + 1, newName)
  /\ auto' = [auto EXCEPT ![newName] = FALSE]
  /\ saved' = Saved(encoders', auto')
  /\ links' = [links EXCEPT ![newName] = 0]
  /\ NormalMode /\ edits' = edits + 1
  /\ UNCHANGED <<widgetVars, startVars, stopCount, stopTimer, asked, closes,
                 restarted, dialog>>
  /\ Stay

\* removeClickedData(): the question, then the answer.
RemoveClicked(w) ==
  /\ Free /\ mode = "remove" /\ w \in removable
  /\ dialog' = w
  /\ UNCHANGED <<widgetVars, startVars, closeVars, rowVars>> /\ Stay

\* The row at its position is erased.
EraseRow(w) ==
  \E pos \in DOMAIN encoders:
    encoders[pos] = w /\ encoders' = RemoveAt(encoders, pos)

\* Without SaveEncoders().
RemovedUnsaved(w) ==
  /\ EraseRow(w)
  /\ auto' = [auto EXCEPT ![w] = FALSE]
  /\ NormalMode /\ edits' = edits + 1
  /\ UNCHANGED saved

\* The row goes, with its flag and its place in the settings file.
Removed(w) ==
  /\ EraseRow(w)
  /\ auto' = [auto EXCEPT ![w] = FALSE]
  /\ saved' = Saved(encoders', auto')
  /\ NormalMode /\ edits' = edits + 1

RemoveAnswered ==
  /\ Runs /\ dialog \in Widgets
  /\ dialog' = "none"
  /\ \/ /\ DeleteWidget(dialog) /\ Removed(dialog)
        /\ links' = [links EXCEPT ![dialog] = 0]
        /\ UNCHANGED <<startVars, stopCount, stopTimer, asked, closes, restarted>>
     \/ UNCHANGED <<widgetVars, startVars, closeVars, rowVars>>
  /\ Stay

------------------------------------------------------------------------------
(* The end *)

Active == {w \in Range(encoders): IsActive(w)}

\* closeEvent(): with active rows there is a question first.
CloseEvent ==
  /\ Free
  /\ \/ Active = {} /\ ExitProgram(0) /\ UNCHANGED dialog
     \/ Active # {} /\ closes < MaxCloses /\ dialog' = "close" /\ Stay
  /\ UNCHANGED <<widgetVars, startVars, closeVars, rowVars>>

\* What has ended while the question was open is not waited for.
CloseAnswered ==
  /\ Runs /\ dialog = "close"
  /\ dialog' = "none"
  /\ \/ /\ procs' = [i \in DOMAIN procs |->
                       IF \E w \in Active: proc[w] = i THEN EndTold(procs[i])
                       ELSE procs[i]]
        /\ stopCount' = Cardinality(Active)
        /\ links' = [w \in Widgets |-> IF w \in Active THEN links[w] + 1 ELSE links[w]]
        /\ stopTimer' = TRUE
        /\ asked' = {proc[w]: w \in Active}
        /\ closes' = closes + 1
        /\ restarted' = (restarted \/ replaced # {})
        /\ UNCHANGED <<proc, button, killTimer, replaced>>
     \/ UNCHANGED <<widgetVars, closeVars>>
  /\ UNCHANGED <<startVars, rowVars>> /\ Stay

\* stopTimeoutData()
StopTimeout ==
  /\ Runs /\ stopTimer
  /\ stopTimer' = FALSE
  /\ procs' = [i \in DOMAIN procs |->
                 IF \E w \in Active: proc[w] = i THEN Killed(procs[i]) ELSE procs[i]]
  /\ ExitProgram(1)
  /\ UNCHANGED <<proc, button, killTimer, replaced, startVars, rowVars, dialog,
                 stopCount, links, asked, closes, restarted>>

------------------------------------------------------------------------------
Timers ==
  \/ AutostartTimeout \/ StopTimeout
  \/ \E w \in Widgets: RowEvent(w)

Processes ==
  \/ ListsRead
  \/ \E i \in DOMAIN procs: ProcessEvent(i) \/ EncoderFinished(i)

User ==
  \/ StartAllData \/ StopAllData
  \/ \E w \in Widgets: ClickStart(w) \/ ClickStop(w) \/ Configure(w) \/ RemoveClicked(w)
  \/ AddInstanceData \/ RemoveInstanceData \/ AbandonInstanceData
  \/ \E k \in 0..Len(encoders): InsertClickedData(k)
  \/ RemoveAnswered \/ CloseEvent \/ CloseAnswered

Next == Timers \/ Processes \/ User

Spec == Init /\ [][Next]_vars

------------------------------------------------------------------------------
(* Properties *)

TypeOK ==
  /\ proc \in [Widgets -> {NULL} \cup DOMAIN procs]
  /\ \A i \in DOMAIN procs:
       /\ procs[i].owner \in Widgets
       /\ procs[i].q \in {"starting", "running", "over"}
       /\ procs[i].q = "over" => procs[i].os = "dead"
  /\ button \in [Widgets -> {"Start", "Stop"}]
  /\ killTimer \in [Widgets -> BOOLEAN]
  /\ IsInjective(encoders) /\ Range(encoders) \subseteq Widgets
  /\ links \in [Widgets -> 0..MaxCloses]
  /\ autoIndex \in Nat /\ stopCount \in Int
  /\ dialog \in {"none", "close"} \cup Range(encoders)
  /\ phase \in {"lists", "ready", "exited", "crashed"}

\* A row shows "Stop" and points at the process as long as an encoder it
\* started runs, unless start() came again while it held one that was starting
\* (isActive, glasswidget.cpp:179, against autostartData).
NoneLostSight ==
  \A i \in DOMAIN procs:
    LET w == procs[i].owner IN
    procs[i].os = "alive" /\ w \notin replaced =>
      proc[w] = i /\ button[w] = "Stop"

\* The kill timer of a row runs only against an encoder that was told to stop
\* with its button, never against one started since; and when it has run out,
\* an encoder told to stop is dead (glasswidget.cpp:303 and 346).
KillsWhatWasStopped ==
  \A w \in Widgets: IsActive(w) /\ w \notin replaced =>
    LET p == procs[proc[w]] IN
    /\ killTimer[w] => p.told = "stop"
    /\ p.told = "stop" /\ ~killTimer[w] => p.os = "dead"

\* When the program has ended after one confirmed closing with nothing
\* started since, and no row with a second process then, no encoder it told to
\* end is left behind (the count of encoderStoppedData, glasscommander.cpp:437).
CloseWaitsForAll ==
  (phase = "exited" /\ exitCode # 256 /\ closes = 1 /\ ~restarted) =>
    \A i \in asked: procs[i].os = "dead"

\* The settings file lists the rows of the window with their flags: what the
\* next start brings back.
SavedListIsCurrent == saved = Saved(encoders, auto)

=============================================================================
