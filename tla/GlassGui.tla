------------------------------ MODULE GlassGui ------------------------------
(***************************************************************************)
(* GlassGui: the window around one glasscoder.  gui_process is in turn the  *)
(* process that lists codecs, the one that lists devices, and the encoder.  *)
(* The encoder reports on its standard output, in lines that arrive cut     *)
(* anywhere; a line is a head and a tail here, the tail with the line end.  *)
(*                                                                          *)
(* A warning before the program ends (fatal) and the question at the        *)
(* closing of the window are modal: meanwhile processes and timers go on.   *)
(* The warnings after which the program goes on are left out.               *)
(***************************************************************************)
EXTENDS Naturals, Sequences

CONSTANTS ReadMax,    \* pieces one read() takes, 1500 bytes in the code
          MaxStarts,  \* bound: encoders started
          MaxLines,   \* bound: lines an encoder writes
          MaxCloses,  \* bound: confirmed closings
          MaxChanges    \* bound: changes of the forms

ASSUME ReadMaxAssumption == ReadMax \in Nat

VARIABLES
  phase,      \* "up"; "exited"; "crashed", a call through a null gui_process
  proc,       \* gui_process: a process, or NoProc
  live,       \* glasscoder encoders alive, known to the window or not
  starts,     \* encoders started
  button,     \* text and connection of gui_start_button
  enabled,    \* gui_start_button is enabled
  locked,     \* LockControls(): codec, stream and source forms are read-only
  form,       \* what the dialogs show
  savedForm,  \* the settings file
  status,     \* gui_status_widget
  pipe,       \* pieces the encoder has written and the window has not read
  accum,      \* gui_process_accum
  cleanup, killTimer, autoTimer,   \* these timers run
  question, fatal,                 \* these dialogs are open
  autostart,  \* gui_autostart
  closes, changes,
  reported,   \* what the status should be after the pieces read so far
  spoiled     \* the accumulator held the rest of an earlier encoder's line when
              \* this one was started, and no status line was read since

timers   == <<cleanup, killTimer, autoTimer>>
feedback == <<status, pipe, accum, reported, spoiled>>
formVars    == <<enabled, locked, form, savedForm, changes>>
dialogs  == <<question, fatal, closes>>
vars == <<phase, proc, live, starts, button, timers, feedback, formVars, dialogs,
          autostart>>

\* The forms: the server dialog makes valid arguments when it has a location.
Forms == [server: {"none", "set"}, rest: {"a", "b"}]
Default == [server |-> "none", rest |-> "a"]
Valid(f) == f.server = "set"

NoProc == [job |-> "none"]
Job(j, args) == [job |-> j, alive |-> TRUE, code |-> 0, over |-> FALSE,
                 lines |-> 0, args |-> args]
Encoding == proc.job = "encoder"
Finishable == proc # NoProc /\ ~proc.alive /\ ~proc.over

Up   == phase = "up"
Free == Up /\ ~question /\ ~fatal           \* the window takes input

ExitProgram == phase' = "exited"
LockControls(state) == locked' = state
LoadSettings == form' = savedForm /\ enabled' = Valid(savedForm)

------------------------------------------------------------------------------
(* What the encoder reports *)

Status == {"idle", "pending", "stopping", "ok", "failed"}
Lines  == {"ok", "failed", "other"}    \* CS 2, CS 3; messages and meters

\* ProcessFeedback() on the text of a line; the rest of another line in front
\* of it makes it one that means nothing.
ProcessFeedback(old, line, l) ==
  IF line = <<l>> /\ l # "other" THEN l ELSE old

\* One piece through the loop of processReadyReadStandardOutputData().
TakePiece(g, p) ==
  IF ~p.end THEN [g EXCEPT !.accum = Append(@, p.line)]
  ELSE [accum    |-> <<>>,
        status   |-> ProcessFeedback(g.status, g.accum, p.line),
        reported |-> IF p.line = "other" THEN g.reported ELSE p.line,
        spoiled  |-> g.spoiled /\ (p.line = "other" \/ g.accum # <<p.line>>)]

\* All the pieces of a read.
TakePieces(g0, pieces) ==
  LET g[n \in 0..Len(pieces)] ==
        IF n = 0 THEN g0 ELSE TakePiece(g[n - 1], pieces[n])
  IN  g[Len(pieces)]

\* The accumulator starts afresh with each read.
ForgetfulRead(n) ==
  LET g == TakePieces([accum |-> <<>>, status |-> status,
                       reported |-> reported, spoiled |-> spoiled],
                      SubSeq(pipe, 1, n))
  IN  [g EXCEPT !.accum = <<>>]

\* A read of n pieces.
Read(n) ==
  TakePieces([accum |-> accum, status |-> status,
              reported |-> reported, spoiled |-> spoiled],
             SubSeq(pipe, 1, n))

Least(m, n) == IF m < n THEN m ELSE n

ProcessReadyReadStandardOutputData ==
  /\ Up /\ Encoding /\ ~proc.over
  /\ \E n \in 1..Least(ReadMax, Len(pipe)): \E g \in {Read(n)}:
       /\ pipe' = SubSeq(pipe, n + 1, Len(pipe))
       /\ accum' = g.accum /\ status' = g.status
       /\ reported' = g.reported /\ spoiled' = g.spoiled
  /\ UNCHANGED <<phase, proc, live, starts, button, timers, formVars, dialogs, autostart>>

EncoderWrites ==
  /\ Up /\ Encoding /\ proc.alive /\ proc.lines < MaxLines
  /\ proc' = [proc EXCEPT !.lines = @ + 1]
  /\ \E l \in Lines: pipe' = pipe \o <<[line |-> l, end |-> FALSE],
                                       [line |-> l, end |-> TRUE]>>
  /\ UNCHANGED <<phase, live, starts, button, timers, status, accum, reported,
                 spoiled, formVars, dialogs, autostart>>

------------------------------------------------------------------------------
(* Start and end of the processes *)

Init ==
  /\ phase = "up" /\ proc = Job("codecs", Default) /\ live = 0 /\ starts = 0
  /\ button = "Start" /\ enabled = FALSE /\ locked = FALSE
  /\ form = Default /\ savedForm \in Forms
  /\ status = "idle" /\ pipe = <<>> /\ accum = <<>>
  /\ reported = "idle" /\ spoiled = FALSE
  /\ cleanup = FALSE /\ killTimer = FALSE /\ autoTimer = FALSE
  /\ question = FALSE /\ fatal = FALSE
  /\ autostart \in BOOLEAN /\ closes = 0 /\ changes = 0

\* startEncodingData() that does not look for a process.
HastyStart ==
  /\ starts < MaxStarts
  /\ status' = "pending" /\ reported' = "pending"
  /\ proc' = Job("encoder", form)
  /\ live' = live + 1 /\ starts' = starts + 1
  /\ button' = "Stop" /\ locked' = TRUE /\ pipe' = <<>>
  /\ spoiled' = (accum # <<>>)

\* startEncodingData(), from the button or the autostart timer.  If there is a
\* process, or the credentials cannot be written, there is a warning.
StartEncodingData ==
  \/ /\ proc # NoProc
     /\ UNCHANGED <<proc, live, starts, button, locked, status, reported, pipe, spoiled>>
  \/ /\ proc = NoProc /\ starts < MaxStarts
     /\ status' = "pending" /\ reported' = "pending"
     /\ \/ /\ proc' = Job("encoder", form)
           /\ live' = live + 1 /\ starts' = starts + 1
           /\ button' = "Stop" /\ LockControls(TRUE) /\ pipe' = <<>>
           /\ spoiled' = (accum # <<>>)
        \/ UNCHANGED <<proc, live, starts, button, locked, pipe, spoiled>>

ClickStart ==
  /\ Free /\ button = "Start" /\ enabled
  /\ StartEncodingData
  /\ UNCHANGED <<phase, timers, accum, enabled, form, savedForm, changes, dialogs, autostart>>

AutostartTimeout ==
  /\ Up /\ autoTimer /\ autoTimer' = FALSE
  /\ StartEncodingData
  /\ UNCHANGED <<phase, cleanup, killTimer, accum, enabled, form, savedForm, changes,
                 dialogs, autostart>>

\* A process ends, or cannot be started: code 0, or an error or a crash.
ProcessEnds ==
  /\ Up /\ proc # NoProc /\ proc.alive
  /\ \E c \in {0, 1}: proc' = [proc EXCEPT !.alive = FALSE, !.code = c]
  /\ live' = IF Encoding THEN live - 1 ELSE live
  /\ UNCHANGED <<phase, starts, button, timers, feedback, formVars, dialogs, autostart>>

\* codecFinishedData() and deviceFinishedData(): the next list, or the settings.
ListRead ==
  /\ Up /\ Finishable /\ ~Encoding /\ proc.code = 0
  /\ \/ /\ proc.job = "codecs"
        /\ proc' = Job("devices", Default)
        /\ UNCHANGED <<form, enabled, autoTimer>>
     \/ /\ proc.job = "devices"
        /\ proc' = NoProc
        /\ LoadSettings
        /\ autoTimer' = autostart
  /\ UNCHANGED <<phase, live, starts, button, cleanup, killTimer, feedback,
                 locked, savedForm, changes, dialogs, autostart>>

\* processFinishedData(), after a last read: the program ends if it was being
\* closed.
ProcessFinishedData ==
  /\ Up /\ Finishable /\ Encoding /\ proc.code = 0
  /\ pipe' = <<>>
  /\ accum' = Read(Least(ReadMax, Len(pipe))).accum
  /\ proc' = [proc EXCEPT !.over = TRUE]
  /\ IF killTimer THEN ExitProgram ELSE UNCHANGED phase
  /\ button' = "Start" /\ LockControls(FALSE)
  /\ status' = "idle" /\ reported' = "idle" /\ cleanup' = TRUE
  /\ UNCHANGED <<live, starts, killTimer, autoTimer, enabled, form, savedForm, changes,
                 spoiled, dialogs, autostart>>

\* Any process that fails: ProcessError() or processErrorData(), a warning and
\* then the end.
ProcessError ==
  /\ Up /\ Finishable /\ proc.code # 0
  /\ fatal' = TRUE
  /\ proc' = [proc EXCEPT !.over = TRUE]
  /\ UNCHANGED <<phase, live, starts, button, timers, feedback, formVars, question,
                 closes, autostart>>

FatalClosed ==
  /\ Up /\ fatal
  /\ ExitProgram
  /\ UNCHANGED <<proc, live, starts, button, timers, feedback, formVars, dialogs, autostart>>

ProcessCollectGarbageData ==
  /\ Up /\ cleanup /\ cleanup' = FALSE
  /\ proc' = NoProc
  /\ UNCHANGED <<phase, live, starts, button, killTimer, autoTimer, feedback,
                 formVars, dialogs, autostart>>

\* processKillData(), and the program ends.
ProcessKillData ==
  /\ Up /\ killTimer /\ killTimer' = FALSE
  /\ phase' = IF proc = NoProc THEN "crashed" ELSE "exited"
  /\ live' = IF Encoding /\ proc.alive THEN live - 1 ELSE live
  /\ proc' = IF proc = NoProc THEN proc ELSE [proc EXCEPT !.alive = FALSE]
  /\ UNCHANGED <<starts, button, cleanup, autoTimer, feedback, formVars, dialogs, autostart>>

------------------------------------------------------------------------------
(* The user *)

\* stopEncodingData(): SIGTERM, which the encoder may take any time to obey.
ClickStop ==
  /\ Free /\ button = "Stop" /\ enabled
  /\ status' = "stopping" /\ reported' = "stopping"
  /\ phase' = IF proc = NoProc THEN "crashed" ELSE phase
  /\ UNCHANGED <<proc, live, starts, button, timers, pipe, accum, spoiled, formVars,
                 dialogs, autostart>>

\* metadataData(): the button is there when no process is.
ClickSend ==
  /\ Free /\ proc = NoProc
  /\ phase' = "crashed"
  /\ UNCHANGED <<proc, live, starts, button, timers, feedback, formVars, dialogs, autostart>>

\* A form that the lock has missed.
UnlockedChange ==
  /\ Free /\ changes < MaxChanges /\ changes' = changes + 1
  /\ form' \in Forms
  /\ enabled' = Valid(form')
  /\ UNCHANGED <<phase, proc, live, starts, button, timers, feedback, locked,
                 savedForm, dialogs, autostart>>

\* A change of the dialogs.  The server dialog is not locked.  What is typed as
\* the location always has checkArgs() called; of the other changes some have.
ChangeForm ==
  /\ Free /\ changes < MaxChanges /\ changes' = changes + 1
  /\ form' \in {f \in Forms: locked => f.rest = form.rest}
  /\ \/ enabled' = Valid(form')
     \/ form'.server = form.server /\ UNCHANGED enabled
  /\ UNCHANGED <<phase, proc, live, starts, button, timers, feedback, locked,
                 savedForm, dialogs, autostart>>

\* SaveSettings(): by way of a second file, or not at all.
SaveSettings == savedForm' \in {form, savedForm}

\* closeEvent(): the question, or the end.
CloseEvent ==
  /\ Free
  /\ \/ /\ proc # NoProc /\ closes < MaxCloses
        /\ question' = TRUE /\ UNCHANGED <<phase, savedForm>>
     \/ /\ proc = NoProc
        /\ SaveSettings /\ ExitProgram /\ UNCHANGED question
  /\ UNCHANGED <<proc, live, starts, button, timers, feedback, enabled, locked,
                 form, changes, fatal, closes, autostart>>

\* The answer.  The process the question was about may be gone by now.
CloseAnswered ==
  /\ Up /\ question /\ ~fatal
  /\ question' = FALSE
  /\ \/ UNCHANGED <<phase, killTimer, savedForm, closes>>
     \/ /\ closes' = closes + 1
        /\ IF proc = NoProc
           THEN phase' = "crashed" /\ UNCHANGED <<killTimer, savedForm>>
           ELSE killTimer' = TRUE /\ SaveSettings /\ UNCHANGED phase
  /\ UNCHANGED <<proc, live, starts, button, cleanup, autoTimer, feedback,
                 enabled, locked, form, changes, fatal, autostart>>

------------------------------------------------------------------------------
Next ==
  \/ ProcessReadyReadStandardOutputData \/ EncoderWrites
  \/ AutostartTimeout \/ ProcessEnds \/ ListRead \/ ProcessFinishedData
  \/ ProcessError \/ FatalClosed \/ ProcessCollectGarbageData \/ ProcessKillData
  \/ ClickStart \/ ClickStop \/ ClickSend \/ ChangeForm \/ CloseEvent \/ CloseAnswered

Spec == Init /\ [][Next]_vars

------------------------------------------------------------------------------
(* Properties *)

TypeOK ==
  /\ phase \in {"up", "exited", "crashed"}
  /\ proc.job \in {"none", "codecs", "devices", "encoder"}
  /\ live \in 0..MaxStarts
  /\ status \in Status /\ reported \in Status
  /\ form \in Forms /\ savedForm \in Forms
  /\ button \in {"Start", "Stop"}

\* However starts, ends, closings and timers meet, the only encoder alive is
\* the one gui_process points at, and none is when the program is no more: not
\* even after a call through a null pointer (glassgui.cpp:275, 394, 583).
NothingLeftRunning ==
  live = IF Up /\ Encoding /\ proc.alive THEN 1 ELSE 0

\* The button says "Stop", and the forms of LockControls() are locked, as long
\* as an encoder is there to be stopped; and what these forms show then is what
\* it was started with (startEncodingData and processFinishedData,
\* glassgui.cpp:325 and 543).  The server dialog is not one of them: it may
\* show another server than the encoder uses.
FormsShowWhatRuns ==
  /\ Encoding /\ ~(proc.over /\ proc.code = 0) <=> button = "Stop"
  /\ locked = (button = "Stop")
  /\ locked => form.rest = proc.args.rest

\* However the reads cut the output of the encoder, the status shown is the
\* last one it reported, or the last the window itself set, except after the
\* rest of an earlier encoder's line (glassgui.cpp:518).
ShowsLastReport == spoiled \/ status = reported
=============================================================================
