--------------------------- MODULE GlassGui_proofs ----------------------------
(***************************************************************************)
(* GlassGui, for any length of a read and any number of starts, lines,     *)
(* closings and changes of the forms: the window never loses an encoder it *)
(* has started, its button and forms always tell what runs, and its status *)
(* is the last one reported, however the reads cut the output.             *)
(*                                                                         *)
(* GlassSettings, for any texts, numbers, settings files and command       *)
(* lines: a window that opens shows what the last one had shown; an        *)
(* encoder works as the forms show that it was started from, and is only   *)
(* refused what is known to be; and the order of options means nothing.    *)
(***************************************************************************)
EXTENDS GlassGui, GlassSettings, TLAPS, FiniteSetTheorems, WellFoundedInduction

\* gui_process: none, or one of the three jobs.
Process ==
  [job : {"codecs", "devices", "encoder"}, alive : BOOLEAN, code : {0, 1},
   over : BOOLEAN, lines : Nat, args : Forms]

TypeInv ==
  /\ proc \in Process \cup {NoProc}
  /\ phase \in {"up", "exited", "crashed"}
  /\ live \in Nat
  /\ form \in Forms /\ savedForm \in Forms
  /\ button \in {"Start", "Stop"} /\ locked \in BOOLEAN
  /\ cleanup \in BOOLEAN /\ fatal \in BOOLEAN

\* A process whose end was treated has ended.
OverInv == proc # NoProc /\ proc.over => ~proc.alive

\* The garbage timer runs for an encoder that ended well, and so never for
\* one that was started since; the last warning is about a process that
\* ended badly, and nothing is started after it.
CleanupInv == cleanup => Encoding /\ proc.over /\ proc.code = 0
FatalInv   == fatal => proc # NoProc /\ proc.over /\ proc.code # 0

GuiInv == TypeInv /\ OverInv /\ CleanupInv /\ FatalInv

IInv == GuiInv /\ NothingLeftRunning /\ FormsShowWhatRuns

-----------------------------------------------------------------------------
(* A new process is one: alive, and its end not treated.                   *)
LEMMA JobIsProcess ==
  ASSUME NEW j \in {"codecs", "devices", "encoder"}, NEW f \in Forms
  PROVE  /\ Job(j, f) \in Process
         /\ Job(j, f).job = j /\ Job(j, f).alive /\ ~Job(j, f).over
         /\ Job(j, f).args = f
  BY DEF Job, Process

(* No process is none of them.                                             *)
LEMMA NoProcIsNone ==
  /\ NoProc.job = "none" /\ NoProc \notin Process
  /\ \A p \in Process : p.job # "none"
  BY DEF NoProc, Process

\* The invariant at the start.
LEMMA InitInv == Init => IInv
<1> SUFFICES ASSUME Init PROVE IInv
  OBVIOUS
<1>1. Default \in Forms
  BY DEF Default, Forms
<1>2. /\ proc \in Process /\ proc.job = "codecs" /\ proc.alive /\ ~proc.over
  BY <1>1, JobIsProcess DEF Init
<1>3. TypeInv
  BY <1>1, <1>2 DEF Init, TypeInv
<1>4. OverInv /\ CleanupInv /\ FatalInv
  BY <1>2 DEF Init, OverInv, CleanupInv, FatalInv
<1>5. NothingLeftRunning /\ FormsShowWhatRuns
  BY <1>2 DEF Init, NothingLeftRunning, FormsShowWhatRuns, Encoding
<1> QED BY <1>3, <1>4, <1>5 DEF IInv, GuiInv

(* Handlers that leave alone the process and what shows it.                *)
LEMMA Untouched ==
  ASSUME IInv, UNCHANGED <<proc, live, button, locked, cleanup, fatal>>,
         form' \in Forms, locked => form'.rest = form.rest, savedForm' \in Forms,
         \/ phase' = phase
         \/ phase' \in {"exited", "crashed"} /\ live = 0
  PROVE  IInv'
<1> USE DEF IInv, GuiInv, Encoding
<1>1. TypeInv'
  BY DEF TypeInv
<1>2. OverInv' /\ CleanupInv' /\ FatalInv'
  BY DEF OverInv, CleanupInv, FatalInv
<1>3. NothingLeftRunning'
  BY DEF NothingLeftRunning, Up
<1>4. FormsShowWhatRuns'
  BY DEF FormsShowWhatRuns
<1> QED BY <1>1, <1>2, <1>3, <1>4

(* A start, whether it finds a process, fails or succeeds.                 *)
LEMMA StartKeeps ==
  ASSUME IInv, Up, StartEncodingData,
         UNCHANGED <<phase, cleanup, form, savedForm, fatal>>
  PROVE  IInv'
<1>1. CASE UNCHANGED <<proc, live, button, locked>>
  BY <1>1, Untouched DEF IInv, GuiInv, TypeInv
<1>2. CASE /\ proc = NoProc
           /\ proc' = Job("encoder", form) /\ live' = live + 1
           /\ button' = "Stop" /\ LockControls(TRUE)
  <2>1. /\ proc' \in Process /\ proc'.job = "encoder" /\ proc'.alive
        /\ ~proc'.over /\ proc'.args = form
    BY <1>2, JobIsProcess DEF IInv, GuiInv, TypeInv
  <2>2. live = 0 /\ ~cleanup /\ ~fatal
    BY <1>2, NoProcIsNone DEF IInv, GuiInv, NothingLeftRunning, CleanupInv,
                              FatalInv, Encoding
  <2>3. TypeInv'
    BY <1>2, <2>1 DEF IInv, GuiInv, TypeInv, LockControls
  <2>4. OverInv' /\ CleanupInv' /\ FatalInv'
    BY <2>1, <2>2 DEF OverInv, CleanupInv, FatalInv
  <2>5. NothingLeftRunning'
    BY <1>2, <2>1, <2>2 DEF NothingLeftRunning, Encoding, Up
  <2>6. FormsShowWhatRuns'
    BY <1>2, <2>1 DEF FormsShowWhatRuns, Encoding, LockControls
  <2> QED BY <2>3, <2>4, <2>5, <2>6 DEF IInv, GuiInv
<1> QED BY <1>1, <1>2 DEF StartEncodingData

(* The end of a process, whose handler is yet to run.                      *)
LEMMA ProcessEndsKeeps ==
  ASSUME IInv, ProcessEnds
  PROVE  IInv'
<1>1. proc \in Process /\ proc.alive
  BY DEF ProcessEnds, IInv, GuiInv, TypeInv
<1>2. PICK c \in {0, 1} : proc' = [proc EXCEPT !.alive = FALSE, !.code = c]
  BY DEF ProcessEnds
<1>3. /\ proc' \in Process /\ ~proc'.alive /\ proc'.job = proc.job
      /\ proc'.over = proc.over /\ proc'.args = proc.args
  BY <1>1, <1>2 DEF Process
<1>4. ~proc.over /\ ~cleanup /\ ~fatal
  BY <1>1, NoProcIsNone DEF IInv, GuiInv, OverInv, CleanupInv, FatalInv
<1>5. UNCHANGED <<phase, button, cleanup, fatal, locked, form, savedForm>>
  BY DEF ProcessEnds, timers, formVars, dialogs
<1>6. TypeInv'
  <2>1. live' \in Nat
    BY <1>1 DEF ProcessEnds, IInv, GuiInv, TypeInv, NothingLeftRunning
  <2> QED BY <1>3, <1>5, <2>1 DEF IInv, GuiInv, TypeInv
<1>7. OverInv' /\ CleanupInv' /\ FatalInv'
  BY <1>3, <1>4, <1>5 DEF OverInv, CleanupInv, FatalInv
<1>8. NothingLeftRunning'
  BY <1>1, <1>3, <1>5 DEF ProcessEnds, IInv, NothingLeftRunning, Encoding, Up
<1>9. FormsShowWhatRuns'
  BY <1>3, <1>4, <1>5 DEF IInv, FormsShowWhatRuns, Encoding
<1> QED BY <1>6, <1>7, <1>8, <1>9 DEF IInv, GuiInv

\* Output of the encoder keeps the invariant.
LEMMA WritesKeeps ==
  ASSUME IInv, EncoderWrites
  PROVE  IInv'
<1>1. proc \in Process
  BY NoProcIsNone DEF EncoderWrites, Encoding, IInv, GuiInv, TypeInv
<1>2. /\ proc' \in Process /\ proc'.alive = proc.alive /\ proc'.job = proc.job
      /\ proc'.over = proc.over /\ proc'.code = proc.code /\ proc'.args = proc.args
  <2>1. proc' = [proc EXCEPT !.lines = proc.lines + 1] /\ proc.lines + 1 \in Nat
    BY <1>1 DEF EncoderWrites, Process
  <2> QED BY <1>1, <2>1 DEF Process
<1>3. UNCHANGED <<phase, live, button, cleanup, fatal, locked, form, savedForm>>
  BY DEF EncoderWrites, timers, formVars, dialogs
<1>4. proc # NoProc /\ proc' # NoProc
  BY <1>1, <1>2, NoProcIsNone
<1>5. GuiInv'
  BY <1>2, <1>3, <1>4 DEF IInv, GuiInv, TypeInv, OverInv, CleanupInv, FatalInv, Encoding
<1>6. NothingLeftRunning' /\ FormsShowWhatRuns'
  BY <1>2, <1>3 DEF IInv, NothingLeftRunning, FormsShowWhatRuns, Encoding, Up
<1> QED BY <1>5, <1>6 DEF IInv

\* The end of a listing keeps the invariant.
LEMMA ListReadKeeps ==
  ASSUME IInv, ListRead
  PROVE  IInv'
<1>1. proc \in Process /\ ~proc.alive /\ ~proc.over /\ ~Encoding
  BY DEF ListRead, Finishable, IInv, GuiInv, TypeInv
<1>2. ~cleanup /\ ~fatal /\ live = 0 /\ button = "Start" /\ locked = FALSE
  BY <1>1 DEF IInv, GuiInv, TypeInv, CleanupInv, FatalInv, NothingLeftRunning,
              FormsShowWhatRuns
<1>3. UNCHANGED <<phase, live, button, cleanup, fatal, locked, savedForm>>
  BY DEF ListRead, feedback, dialogs
<1>4. form' \in Forms
  BY DEF ListRead, LoadSettings, IInv, GuiInv, TypeInv
<1>5. Default \in Forms
  BY DEF Default, Forms
<1>6. \/ proc' \in Process /\ proc'.job = "devices" /\ ~proc'.over
      \/ proc' = NoProc
  BY <1>5, JobIsProcess DEF ListRead
<1>7. proc'.job # "encoder"
  BY <1>6, NoProcIsNone
<1>8. GuiInv'
  BY <1>2, <1>3, <1>4, <1>6
     DEF IInv, GuiInv, TypeInv, OverInv, CleanupInv, FatalInv
<1>9. NothingLeftRunning' /\ FormsShowWhatRuns'
  BY <1>2, <1>3, <1>7 DEF NothingLeftRunning, FormsShowWhatRuns, Encoding, Up
<1> QED BY <1>8, <1>9 DEF IInv

\* The handler of the end of a process keeps the invariant.
LEMMA FinishedKeeps ==
  ASSUME IInv, ProcessFinishedData
  PROVE  IInv'
<1>1. proc \in Process /\ ~proc.alive /\ Encoding /\ proc.code = 0
  BY DEF ProcessFinishedData, Finishable, IInv, GuiInv, TypeInv
<1>2. /\ proc' \in Process /\ ~proc'.alive /\ proc'.job = "encoder"
      /\ proc'.over /\ proc'.code = 0
  BY <1>1 DEF ProcessFinishedData, Process, Encoding
<1>3. /\ button' = "Start" /\ locked' = FALSE /\ cleanup' = TRUE
      /\ UNCHANGED <<live, form, savedForm, fatal>> /\ phase' \in {phase, "exited"}
  BY DEF ProcessFinishedData, LockControls, ExitProgram, dialogs
<1>4. live = 0
  BY <1>1 DEF IInv, NothingLeftRunning
<1>5. ~fatal
  BY <1>1 DEF ProcessFinishedData, Finishable, IInv, GuiInv, FatalInv, TypeInv
<1>6. GuiInv'
  BY <1>2, <1>3, <1>5
     DEF IInv, GuiInv, TypeInv, OverInv, CleanupInv, FatalInv, Encoding
<1>7. NothingLeftRunning' /\ FormsShowWhatRuns'
  BY <1>2, <1>3, <1>4 DEF NothingLeftRunning, FormsShowWhatRuns, Encoding
<1> QED BY <1>6, <1>7 DEF IInv

\* The handler of a failed start keeps the invariant.
LEMMA ErrorKeeps ==
  ASSUME IInv, ProcessError
  PROVE  IInv'
<1>1. proc \in Process /\ ~proc.alive /\ ~proc.over /\ proc.code # 0 /\ proc # NoProc
  BY DEF ProcessError, Finishable, IInv, GuiInv, TypeInv
<1>2. /\ proc' \in Process /\ ~proc'.alive /\ proc'.job = proc.job
      /\ proc'.over /\ proc'.code = proc.code /\ proc'.args = proc.args
  BY <1>1 DEF ProcessError, Process
<1>3. /\ fatal' = TRUE
      /\ UNCHANGED <<phase, live, button, cleanup, locked, form, savedForm>>
  BY DEF ProcessError, timers, formVars
<1>4. ~cleanup /\ proc' # NoProc
  BY <1>1, <1>2, NoProcIsNone DEF IInv, GuiInv, TypeInv, CleanupInv
<1>5. GuiInv'
  BY <1>1, <1>2, <1>3, <1>4
     DEF IInv, GuiInv, TypeInv, OverInv, CleanupInv, FatalInv
<1>6. NothingLeftRunning' /\ FormsShowWhatRuns'
  BY <1>1, <1>2, <1>3
     DEF IInv, NothingLeftRunning, FormsShowWhatRuns, Encoding, Up
<1> QED BY <1>5, <1>6 DEF IInv

\* The collection of an ended process keeps the invariant.
LEMMA CollectKeeps ==
  ASSUME IInv, ProcessCollectGarbageData
  PROVE  IInv'
<1>1. cleanup /\ Encoding /\ proc.over /\ proc.code = 0
  BY DEF ProcessCollectGarbageData, IInv, GuiInv, CleanupInv
<1>2. proc # NoProc /\ ~proc.alive
  BY <1>1, NoProcIsNone DEF IInv, GuiInv, OverInv, Encoding
<1>3. live = 0 /\ button = "Start" /\ locked = FALSE
  BY <1>1, <1>2 DEF IInv, GuiInv, TypeInv, NothingLeftRunning, FormsShowWhatRuns
<1>4. ~fatal
  BY <1>1 DEF IInv, GuiInv, FatalInv
<1>5. /\ cleanup' = FALSE /\ proc' = NoProc
      /\ UNCHANGED <<phase, live, button, fatal, locked, form, savedForm>>
  BY DEF ProcessCollectGarbageData, formVars, dialogs
<1>6. GuiInv'
  BY <1>4, <1>5 DEF IInv, GuiInv, TypeInv, OverInv, CleanupInv, FatalInv
<1>7. NothingLeftRunning' /\ FormsShowWhatRuns'
  BY <1>3, <1>5, NoProcIsNone DEF NothingLeftRunning, FormsShowWhatRuns, Encoding
<1> QED BY <1>6, <1>7 DEF IInv

\* The kill timer keeps the invariant.
LEMMA KillKeeps ==
  ASSUME IInv, ProcessKillData
  PROVE  IInv'
<1>1. /\ phase' \in {"exited", "crashed"}
      /\ UNCHANGED <<button, cleanup, fatal, locked, form, savedForm>>
  BY DEF ProcessKillData, formVars, dialogs
<1>2. live' = 0
  BY DEF ProcessKillData, IInv, NothingLeftRunning
<1>3. CASE proc = NoProc
  BY <1>1, <1>2, <1>3 DEF ProcessKillData, IInv, GuiInv, TypeInv, OverInv,
     CleanupInv, FatalInv, NothingLeftRunning, FormsShowWhatRuns, Encoding, Up
<1>4. CASE proc \in Process
  <2>0. proc # NoProc
    BY <1>4, NoProcIsNone
  <2>1. /\ proc' \in Process /\ ~proc'.alive /\ proc'.job = proc.job
        /\ proc'.over = proc.over /\ proc'.code = proc.code
        /\ proc'.args = proc.args
    BY <1>4, <2>0 DEF ProcessKillData, Process
  <2>2. GuiInv'
    BY <1>1, <1>2, <2>0, <2>1, NoProcIsNone
       DEF IInv, GuiInv, TypeInv, OverInv, CleanupInv, FatalInv, Encoding
  <2>3. NothingLeftRunning' /\ FormsShowWhatRuns'
    BY <1>1, <1>2, <2>1
       DEF IInv, NothingLeftRunning, FormsShowWhatRuns, Encoding, Up
  <2> QED BY <2>2, <2>3 DEF IInv
<1> QED BY <1>3, <1>4 DEF IInv, GuiInv, TypeInv

\* Every step keeps the invariant.
LEMMA StepInv == IInv /\ [Next]_vars => IInv'
<1> SUFFICES ASSUME IInv, [Next]_vars
             PROVE  IInv'
  OBVIOUS
<1>0. /\ form \in Forms /\ savedForm \in Forms
      /\ proc = NoProc => live = 0
      /\ fatal => live = 0
  BY NoProcIsNone DEF IInv, GuiInv, TypeInv, NothingLeftRunning, Encoding,
                      FatalInv, OverInv
<1>1. CASE ProcessReadyReadStandardOutputData
  BY <1>0, <1>1, Untouched
     DEF ProcessReadyReadStandardOutputData, timers, formVars, dialogs
<1>2. CASE EncoderWrites               BY <1>2, WritesKeeps
<1>3. CASE AutostartTimeout
  BY <1>3, StartKeeps DEF AutostartTimeout, dialogs
<1>4. CASE ProcessEnds                 BY <1>4, ProcessEndsKeeps
<1>5. CASE ListRead                    BY <1>5, ListReadKeeps
<1>6. CASE ProcessFinishedData         BY <1>6, FinishedKeeps
<1>7. CASE ProcessError                BY <1>7, ErrorKeeps
<1>8. CASE FatalClosed
  BY <1>0, <1>8, Untouched DEF FatalClosed, ExitProgram, timers, formVars, dialogs
<1>9. CASE ProcessCollectGarbageData   BY <1>9, CollectKeeps
<1>10. CASE ProcessKillData            BY <1>10, KillKeeps
<1>11. CASE ClickStart
  BY <1>11, StartKeeps DEF ClickStart, Free, timers, dialogs
<1>12. CASE ClickStop
  BY <1>0, <1>12, Untouched DEF ClickStop, timers, formVars, dialogs
<1>13. CASE ClickSend
  BY <1>0, <1>13, Untouched DEF ClickSend, timers, formVars, dialogs
<1>14. CASE ChangeForm
  BY <1>0, <1>14, Untouched DEF ChangeForm, timers, dialogs
<1>15. CASE CloseEvent
  BY <1>0, <1>15, Untouched DEF CloseEvent, ExitProgram, SaveSettings, timers
<1>16. CASE CloseAnswered
  BY <1>0, <1>16, Untouched DEF CloseAnswered, SaveSettings
<1>17. CASE UNCHANGED vars
  BY <1>0, <1>17, Untouched DEF vars, timers, formVars, dialogs
<1> QED BY <1>1, <1>2, <1>3, <1>4, <1>5, <1>6, <1>7, <1>8, <1>9, <1>10, <1>11,
           <1>12, <1>13, <1>14, <1>15, <1>16, <1>17 DEF Next

\* The invariant holds.
LEMMA Inductive == Spec => []IInv
  BY InitInv, StepInv, PTL DEF Spec

(***************************************************************************)
(* However starts, ends, closings and timers meet, the only encoder alive  *)
(* is the one gui_process points at, and none is when the program is over. *)
(***************************************************************************)
THEOREM NoEncoderIsLost == Spec => []NothingLeftRunning
<1>1. IInv => NothingLeftRunning
  BY DEF IInv
<1> QED BY <1>1, Inductive, PTL

(***************************************************************************)
(* The button says "Stop" and the forms are locked exactly while there is  *)
(* an encoder to be stopped, and the locked forms show what it was started *)
(* with.                                                                   *)
(***************************************************************************)
THEOREM FormsAreTrue == Spec => []FormsShowWhatRuns
<1>1. IInv => FormsShowWhatRuns
  BY DEF IInv
<1> QED BY <1>1, Inductive, PTL

-----------------------------------------------------------------------------
(* What the window reads from the encoder.                                 *)

(* A set of natural numbers has a least element: of the intervals that end *)
(* in the set one is least by inclusion.                                   *)
LEMMA LeastElement ==
  ASSUME NEW S \in SUBSET Nat, S # {}
  PROVE  \E i \in S : \A j \in S : i <= j
<1> DEFINE T == {1..i : i \in S}
<1>1. T \subseteq FiniteSubsetsOf(Nat)
  <2> SUFFICES ASSUME NEW i \in S
               PROVE  1..i \in FiniteSubsetsOf(Nat)
    OBVIOUS
  <2>1. IsFiniteSet(1..i)
    BY FS_Interval
  <2> QED BY <2>1 DEF FiniteSubsetsOf
<1>2. T # {}
  OBVIOUS
<1> HIDE DEF T
<1>3. PICK x \in T : \A y \in T : ~(<<y, x>> \in StrictSubsetOrdering(Nat))
  BY <1>1, <1>2, FS_StrictSubsetOrderingWellFounded, WFMin
<1> USE DEF T
<1>4. PICK i \in S : x = 1..i
  OBVIOUS
<1>5. ASSUME NEW j \in S, ~(i <= j)
      PROVE  FALSE
  <2>1. <<1..j, 1..i>> \in StrictSubsetOrdering(Nat)
    BY <1>5 DEF StrictSubsetOrdering
  <2> QED BY <1>3, <1>4, <2>1
<1> QED BY <1>5

\* A step of TakePieces(), ReadOptions() or ProcessOptions() ...
Step(what, x, y) ==
  IF what = "piece" THEN TakePiece(x, y)
  ELSE IF what = "option" THEN ReadOption(x, y)
  ELSE ReadDeviceOption(x, y)

\* ... and the function of m such steps.
Takes(what, g, g0, pieces, m) ==
  g = [n \in 0..m |-> IF n = 0 THEN g0 ELSE Step(what, g[n - 1], pieces[n])]

(* There is a function that takes pieces or options one after another,     *)
(* however many there are: a function for all but the last one is easily   *)
(* extended.                                                               *)
LEMMA Readings ==
  ASSUME NEW what, NEW g0, NEW pieces, NEW len \in Nat
  PROVE  \E g : Takes(what, g, g0, pieces, len)
<1> DEFINE E(m) == \E g : Takes(what, g, g0, pieces, m)
           B == {m \in Nat : ~E(m)}
<1>1. SUFFICES ASSUME B # {}
               PROVE  FALSE
  OBVIOUS
<1>2. PICK m \in B : \A k \in B : m <= k
  BY <1>1, LeastElement
<1>3. m \in Nat /\ ~E(m)
  OBVIOUS
<1>4. CASE m = 0
  <2> DEFINE g == [n \in 0..0 |-> g0]
  <2>1. Takes(what, g, g0, pieces, m)
    BY <1>4 DEF Takes
  <2> QED BY <1>3, <2>1
<1>5. CASE m > 0
  <2>1. m - 1 \in Nat /\ ~(m <= m - 1)
    BY <1>3, <1>5
  <2>2. E(m - 1)
    BY <1>2, <2>1
  <2>3. PICK f : f = [n \in 0..(m - 1) |-> IF n = 0 THEN g0
                                           ELSE Step(what, f[n - 1], pieces[n])]
    BY <2>2 DEF Takes
  <2> DEFINE last == Step(what, f[m - 1], pieces[m])
             g == [n \in 0..m |-> IF n = m THEN last ELSE f[n]]
  <2>4. ASSUME NEW n \in 0..m
        PROVE  g[n] = IF n = 0 THEN g0 ELSE Step(what, g[n - 1], pieces[n])
    <3>1. CASE n = 0
      BY <1>3, <1>5, <2>3, <3>1
    <3>2. CASE n = m
      <4>1. m - 1 \in 0..m /\ m - 1 # m
        BY <1>3, <1>5
      <4>2. g[n - 1] = f[m - 1]
        BY <3>2, <4>1
      <4> QED BY <1>5, <3>2, <4>2
    <3>3. CASE n # 0 /\ n # m
      <4>1. n \in 0..(m - 1) /\ n - 1 \in 0..m /\ n - 1 # m
        BY <1>3, <3>3
      <4>2. g[n - 1] = f[n - 1] /\ g[n] = f[n]
        BY <3>3, <4>1
      <4>3. f[n] = Step(what, f[n - 1], pieces[n])
        BY <2>3, <3>3, <4>1
      <4> QED BY <3>3, <4>2, <4>3
    <3> QED BY <3>1, <3>2, <3>3
  <2> HIDE DEF g
  <2>5. Takes(what, g, g0, pieces, m)
    <3>1. g = [n \in 0..m |-> g[n]]
      BY DEF g
    <3> QED BY <2>4, <3>1 DEF Takes
  <2> QED BY <1>3, <2>5
<1> QED BY <1>3, <1>4, <1>5

\* The output of an encoder: the head of a line is followed by its tail, and
\* a tail by a head; the last piece is a tail.
Lined(s) ==
  /\ s \in Seq([line : Lines, end : BOOLEAN])
  /\ \A i \in 1..Len(s) : ~s[i].end => /\ i < Len(s)
                                       /\ s[i + 1].end /\ s[i + 1].line = s[i].line
  /\ \A i \in 1..(Len(s) - 1) : s[i].end => ~s[i + 1].end

\* With the first k pieces of s read, the accumulator has the head of the line
\* whose tail is next, and the status is the one reported; unless the
\* accumulator held something before.
InStep(g, s, k) ==
  ~g.spoiled => /\ g.status = g.reported
                /\ g.accum = IF k < Len(s) /\ s[k + 1].end
                             THEN <<s[k + 1].line>> ELSE <<>>

\* The state that a read changes.
Reading(g) ==
  /\ g = [accum |-> g.accum, status |-> g.status,
          reported |-> g.reported, spoiled |-> g.spoiled]
  /\ g.spoiled \in BOOLEAN

(* A piece keeps the window in step.                                       *)
LEMMA PieceInStep ==
  ASSUME NEW s, Lined(s), NEW k \in Nat, k < Len(s),
         NEW g, Reading(g), InStep(g, s, k)
  PROVE  Reading(TakePiece(g, s[k + 1])) /\ InStep(TakePiece(g, s[k + 1]), s, k + 1)
<1> DEFINE p == s[k + 1]
           t == TakePiece(g, p)
<1>1. Len(s) \in Nat /\ k + 1 \in 1..Len(s)
  BY DEF Lined
<1>2. p.end \in BOOLEAN /\ p.line \in Lines
  <2> DEFINE Piece == [line : Lines, end : BOOLEAN]
  <2>1. \A x \in Piece : x.end \in BOOLEAN /\ x.line \in Lines
    OBVIOUS
  <2>2. s \in Seq(Piece)
    BY DEF Lined
  <2> HIDE DEF Piece
  <2>3. p \in Piece
    BY <1>1, <2>2
  <2> QED BY <2>1, <2>3
<1>3. CASE ~p.end
  <2>1. t = [g EXCEPT !.accum = Append(@, p.line)]
    BY <1>3 DEF TakePiece
  <2>2. /\ t.accum = Append(g.accum, p.line) /\ t.status = g.status
        /\ t.reported = g.reported /\ t.spoiled = g.spoiled /\ Reading(t)
    BY <2>1 DEF Reading
  <2>3. k + 1 < Len(s) /\ s[(k + 1) + 1].end /\ s[(k + 1) + 1].line = p.line
    BY <1>1, <1>3 DEF Lined
  <2>4. ~g.spoiled => g.status = g.reported /\ g.accum = <<>>
    BY <1>3 DEF InStep
  <2>5. Append(<<>>, p.line) = <<p.line>>
    OBVIOUS
  <2> QED BY <2>2, <2>3, <2>4, <2>5 DEF InStep
<1>4. CASE p.end
  <2>1. /\ t.accum = <<>> /\ t.status = ProcessFeedback(g.status, g.accum, p.line)
        /\ t.reported = (IF p.line = "other" THEN g.reported ELSE p.line)
        /\ t.spoiled = (g.spoiled /\ (p.line = "other" \/ g.accum # <<p.line>>))
        /\ Reading(t)
    BY <1>4 DEF TakePiece, Reading
  <2>2. ~(k + 1 < Len(s) /\ s[(k + 1) + 1].end)
    BY <1>1, <1>4 DEF Lined
  <2>3. ~t.spoiled => /\ g.accum = <<p.line>>
                      /\ p.line = "other" => g.status = g.reported
    BY <1>4, <2>1 DEF InStep, Reading
  <2>4. ~t.spoiled => t.status = t.reported
    BY <2>1, <2>3 DEF ProcessFeedback
  <2> QED BY <2>1, <2>2, <2>4 DEF InStep
<1> QED BY <1>2, <1>3, <1>4

(* So does a read of any number of pieces: there is no first one after     *)
(* which the window is not in step.                                        *)
LEMMA ReadInStep ==
  ASSUME NEW s, Lined(s), NEW len \in 0..Len(s),
         NEW g0, Reading(g0), InStep(g0, s, 0)
  PROVE  LET g == TakePieces(g0, SubSeq(s, 1, len))
         IN  Reading(g) /\ InStep(g, s, len)
<1> DEFINE q == SubSeq(s, 1, len)
           g == CHOOSE g : g = [n \in 0..Len(q) |-> IF n = 0 THEN g0
                                        ELSE TakePiece(g[n - 1], q[n])]
<1>1. Len(s) \in Nat /\ len \in Nat /\ Len(q) = len
  BY DEF Lined
<1>2. \A n \in 1..len : q[n] = s[n]
  <2> DEFINE Piece == [line : Lines, end : BOOLEAN]
  <2>1. s \in Seq(Piece)
    BY DEF Lined
  <2> HIDE DEF Piece
  <2> QED BY <1>1, <2>1
<1> HIDE DEF q
<1>3. g = [n \in 0..len |-> IF n = 0 THEN g0 ELSE TakePiece(g[n - 1], q[n])]
  <2>1. \E f : Takes("piece", f, g0, q, Len(q))
    BY <1>1, Readings
  <2>2. g = [n \in 0..Len(q) |-> IF n = 0 THEN g0 ELSE TakePiece(g[n - 1], q[n])]
    BY <2>1 DEF Takes, Step
  <2> HIDE DEF g
  <2> QED BY <1>1, <2>2
<1>4. TakePieces(g0, q) = g[len]
  BY <1>1 DEF TakePieces
<1> HIDE DEF g
<1> DEFINE B == {n \in 0..len : ~(Reading(g[n]) /\ InStep(g[n], s, n))}
<1>5. SUFFICES ASSUME B # {}
               PROVE  FALSE
  BY <1>1, <1>4 DEF q
<1>6. PICK m \in B : \A k \in B : m <= k
  <2>1. B \in SUBSET Nat
    OBVIOUS
  <2> HIDE DEF B
  <2> QED BY <1>5, <2>1, LeastElement
<1>7. m \in 0..len /\ ~(Reading(g[m]) /\ InStep(g[m], s, m))
  OBVIOUS
<1>8. m # 0
  <2>1. g[0] = g0
    BY <1>1, <1>3
  <2> QED BY <1>7, <2>1
<1>9. m - 1 \in 0..len /\ ~(m <= m - 1) /\ m \in 1..len /\ (m - 1) + 1 = m
  BY <1>1, <1>7, <1>8
<1>10. Reading(g[m - 1]) /\ InStep(g[m - 1], s, m - 1)
  BY <1>6, <1>9
<1>11. g[m] = TakePiece(g[m - 1], s[m])
  BY <1>2, <1>3, <1>7, <1>8, <1>9
<1>12. m - 1 \in Nat /\ m - 1 < Len(s)
  BY <1>1, <1>9
<1>13. \A x : x = m => TakePiece(g[m - 1], s[x]) = TakePiece(g[m - 1], s[m])
  OBVIOUS
<1> QED BY <1>7, <1>9, <1>10, <1>11, <1>12, PieceInStep

\* What is left of the output after a read is output again.
LEMMA RestIsLined ==
  ASSUME NEW s, Lined(s), NEW len \in 0..Len(s)
  PROVE  LET r == SubSeq(s, len + 1, Len(s))
         IN  /\ Lined(r)
             /\ \A g : InStep(g, s, len) => InStep(g, r, 0)
<1> DEFINE r == SubSeq(s, len + 1, Len(s))
           Piece == [line : Lines, end : BOOLEAN]
<1>1. s \in Seq(Piece) /\ Len(s) \in Nat /\ len \in Nat
  BY DEF Lined
<1>2. r \in Seq(Piece) /\ Len(r) = Len(s) - len
  <2> HIDE DEF Piece
  <2> QED BY <1>1
<1>3. \A i \in 1..Len(r) : r[i] = s[i + len]
  BY <1>1, <1>2
<1> HIDE DEF r
<1>4. ASSUME NEW i \in 1..Len(r), ~r[i].end
      PROVE  i < Len(r) /\ r[i + 1].end /\ r[i + 1].line = r[i].line
  <2>1. i + len \in 1..Len(s) /\ r[i] = s[i + len]
    BY <1>1, <1>2, <1>3
  <2>2. /\ i + len < Len(s) /\ s[(i + len) + 1].end
        /\ s[(i + len) + 1].line = s[i + len].line
    BY <1>4, <2>1 DEF Lined
  <2>3. i + 1 \in 1..Len(r) /\ (i + 1) + len = (i + len) + 1
    BY <1>1, <1>2, <2>2
  <2>4. r[i + 1] = s[(i + len) + 1]
    BY <1>3, <2>3
  <2> QED BY <1>2, <2>1, <2>2, <2>3, <2>4
<1>5. ASSUME NEW i \in 1..(Len(r) - 1), r[i].end
      PROVE  ~r[i + 1].end
  <2>1. /\ i \in 1..Len(r) /\ i + 1 \in 1..Len(r) /\ i + len \in 1..(Len(s) - 1)
        /\ (i + 1) + len = (i + len) + 1
    BY <1>1, <1>2
  <2>2. r[i] = s[i + len] /\ r[i + 1] = s[(i + len) + 1]
    BY <1>3, <2>1
  <2> QED BY <1>5, <2>1, <2>2 DEF Lined
<1>6. Lined(r)
  BY <1>2, <1>4, <1>5 DEF Lined
<1>7. ASSUME NEW g, InStep(g, s, len)
      PROVE  InStep(g, r, 0)
  <2>1. 0 < Len(r) <=> len < Len(s)
    BY <1>1, <1>2
  <2>2. len < Len(s) => r[1] = s[len + 1]
    BY <1>1, <1>2, <1>3
  <2>3. 0 + 1 = 1
    OBVIOUS
  <2> QED BY <1>7, <2>1, <2>2, <2>3 DEF InStep
<1> QED BY <1>6, <1>7 DEF r

\* An encoder writes whole lines.
LEMMA WrittenIsLined ==
  ASSUME NEW s, Lined(s), NEW l \in Lines
  PROVE  LET r == s \o <<[line |-> l, end |-> FALSE], [line |-> l, end |-> TRUE]>>
         IN  /\ Lined(r)
             /\ \A g : InStep(g, s, 0) => InStep(g, r, 0)
<1> DEFINE Piece == [line : Lines, end : BOOLEAN]
           head == [line |-> l, end |-> FALSE]
           tail == [line |-> l, end |-> TRUE]
           r == s \o <<head, tail>>
           L == Len(s)
<1>1. s \in Seq(Piece) /\ L \in Nat /\ head \in Piece /\ tail \in Piece
  BY DEF Lined
<1>2. /\ r \in Seq(Piece) /\ Len(r) = L + 2
      /\ \A i \in 1..L : r[i] = s[i]
      /\ r[L + 1] = head /\ r[L + 2] = tail
  <2> HIDE DEF Piece, head, tail
  <2> QED BY <1>1
<1> HIDE DEF r
<1>3. ~head.end /\ tail.end /\ head.line = tail.line
  OBVIOUS
<1> HIDE DEF head, tail
<1>4. ASSUME NEW i \in 1..Len(r), ~r[i].end
      PROVE  i < Len(r) /\ r[i + 1].end /\ r[i + 1].line = r[i].line
  <2>1. CASE i \in 1..L
    <3>1. i < L /\ s[i + 1].end /\ s[i + 1].line = s[i].line
      BY <1>1, <1>2, <1>4, <2>1 DEF Lined
    <3>2. i + 1 \in 1..L
      BY <1>1, <2>1, <3>1
    <3> QED BY <1>1, <1>2, <2>1, <3>1, <3>2
  <2>2. CASE i = L + 1
    <3>1. i + 1 = L + 2 /\ i < Len(r)
      BY <1>1, <1>2, <2>2
    <3> QED BY <1>2, <1>3, <2>2, <3>1
  <2>3. i # L + 2
    BY <1>2, <1>3, <1>4
  <2> QED BY <1>1, <1>2, <2>1, <2>2, <2>3
<1>5. ASSUME NEW i \in 1..(Len(r) - 1), r[i].end
      PROVE  ~r[i + 1].end
  <2>1. CASE i \in 1..(L - 1)
    <3>1. i \in 1..L /\ i + 1 \in 1..L
      BY <1>1, <2>1
    <3> QED BY <1>2, <1>5, <2>1, <3>1 DEF Lined
  <2>2. CASE i = L
    BY <1>2, <1>3, <2>2
  <2>3. i # L + 1
    BY <1>2, <1>3, <1>5
  <2> QED BY <1>1, <1>2, <2>1, <2>2, <2>3
<1>6. Lined(r)
  BY <1>2, <1>4, <1>5 DEF Lined
<1>7. ASSUME NEW g, InStep(g, s, 0)
      PROVE  InStep(g, r, 0)
  <2>1. CASE L = 0
    <3>1. ~r[0 + 1].end
      BY <1>2, <1>3, <2>1
    <3> QED BY <1>7, <2>1, <3>1 DEF InStep
  <2>2. CASE L > 0
    <3>1. 0 + 1 \in 1..L /\ 0 < Len(r) /\ 0 < L
      BY <1>1, <1>2, <2>2
    <3>2. r[0 + 1] = s[0 + 1]
      BY <1>2, <3>1
    <3> QED BY <1>7, <3>1, <3>2 DEF InStep
  <2> QED BY <1>1, <2>1, <2>2
<1> QED BY <1>6, <1>7 DEF r, head, tail

\* The output that waits is that of an encoder, and as long as one is read
\* from, the window is in step with it.
Now == [accum |-> accum, status |-> status,
        reported |-> reported, spoiled |-> spoiled]

FeedbackInv ==
  /\ Lined(pipe) /\ spoiled \in BOOLEAN
  /\ ~spoiled => status = reported
  /\ Encoding /\ ~proc.over => InStep(Now, pipe, 0)

\* Nothing waits to be read.
LEMMA NothingIsLined == Lined(<<>>)
  BY DEF Lined

\* Handlers that leave alone what was read and what was not.
LEMMA FeedbackUntouched ==
  ASSUME FeedbackInv, UNCHANGED feedback,
         Encoding' /\ ~proc'.over => Encoding /\ ~proc.over
  PROVE  FeedbackInv'
  BY DEF FeedbackInv, feedback, Now

\* A start that is tried while what is left of a line is in the accumulator
\* spoils it; otherwise the window is in step with an encoder that has written
\* nothing.
LEMMA FeedbackStart ==
  ASSUME IInv, FeedbackInv, StartEncodingData, UNCHANGED accum
  PROVE  FeedbackInv'
<1>1. CASE UNCHANGED <<proc, status, reported, pipe, spoiled>>
  BY <1>1, FeedbackUntouched DEF feedback, Encoding
<1>2. CASE /\ proc = NoProc /\ UNCHANGED <<proc, pipe, spoiled>>
           /\ status' = "pending" /\ reported' = "pending"
  BY <1>2, NoProcIsNone DEF FeedbackInv, Encoding
<1>3. CASE /\ status' = "pending" /\ reported' = "pending"
           /\ pipe' = <<>> /\ spoiled' = (accum # <<>>)
  <2>1. InStep(Now', pipe', 0)
    <3>1. /\ Now'.status = Now'.reported /\ Now'.accum = accum
          /\ ~Now'.spoiled => accum = <<>>
      BY <1>3 DEF Now
    <3>2. ~(0 < Len(pipe'))
      BY <1>3
    <3> QED BY <3>1, <3>2 DEF InStep
  <2> QED BY <1>3, <2>1, NothingIsLined DEF FeedbackInv
<1> QED BY <1>1, <1>2, <1>3 DEF StartEncodingData

\* A read of the output of the encoder keeps the window in step.
LEMMA FeedbackRead ==
  ASSUME FeedbackInv, ProcessReadyReadStandardOutputData
  PROVE  FeedbackInv'
<1>1. PICK n \in 1..Least(ReadMax, Len(pipe)) :
        /\ pipe' = SubSeq(pipe, n + 1, Len(pipe))
        /\ accum' = Read(n).accum /\ status' = Read(n).status
        /\ reported' = Read(n).reported /\ spoiled' = Read(n).spoiled
  BY DEF ProcessReadyReadStandardOutputData
<1>2. Lined(pipe) /\ Reading(Now) /\ InStep(Now, pipe, 0) /\ Encoding /\ ~proc.over
  BY DEF FeedbackInv, ProcessReadyReadStandardOutputData, Reading, Now
<1>3. n \in 0..Len(pipe)
  <2>1. Len(pipe) \in Nat
    BY <1>2 DEF Lined
  <2> QED BY <2>1, ReadMaxAssumption DEF Least
<1>4. Reading(Read(n)) /\ InStep(Read(n), pipe, n)
  BY <1>2, <1>3, ReadInStep DEF Read, Now
<1>5. Now' = Read(n)
  BY <1>1, <1>4 DEF Now, Reading
<1>6. Lined(pipe') /\ InStep(Now', pipe', 0)
  BY <1>1, <1>2, <1>3, <1>4, <1>5, RestIsLined
<1>7. spoiled' \in BOOLEAN
  BY <1>1, <1>4 DEF Reading
<1>8. ~spoiled' => status' = reported'
  BY <1>6 DEF InStep, Now
<1> QED BY <1>6, <1>7, <1>8 DEF FeedbackInv

\* Every step keeps the window in step.
LEMMA FeedbackStep == IInv /\ FeedbackInv /\ [Next]_vars => FeedbackInv'
<1> SUFFICES ASSUME IInv, FeedbackInv, [Next]_vars
             PROVE  FeedbackInv'
  OBVIOUS
<1>0. proc \in Process \cup {NoProc}
  BY DEF IInv, GuiInv, TypeInv
<1>1. CASE ProcessReadyReadStandardOutputData
  BY <1>1, FeedbackRead
<1>2. CASE EncoderWrites
  <2>1. PICK l \in Lines :
          pipe' = pipe \o <<[line |-> l, end |-> FALSE], [line |-> l, end |-> TRUE]>>
    BY <1>2 DEF EncoderWrites
  <2>2. Encoding /\ proc'.over = proc.over /\ UNCHANGED <<status, accum, reported, spoiled>>
    BY <1>0, <1>2, NoProcIsNone DEF EncoderWrites, Process, Encoding
  <2>3. Lined(pipe') /\ (InStep(Now, pipe, 0) => InStep(Now, pipe', 0))
    BY <2>1, WrittenIsLined DEF FeedbackInv
  <2> QED BY <2>2, <2>3 DEF FeedbackInv, Now
<1>3. CASE AutostartTimeout
  BY <1>3, FeedbackStart DEF AutostartTimeout
<1>4. CASE ProcessEnds
  <2>1. Encoding' /\ ~proc'.over => Encoding /\ ~proc.over
    BY <1>0, <1>4 DEF ProcessEnds, Process, Encoding
  <2> QED BY <1>4, <2>1, FeedbackUntouched DEF ProcessEnds
<1>5. CASE ListRead
  <2>1. Default \in Forms
    BY DEF Default, Forms
  <2>2. proc'.job # "encoder"
    BY <1>5, <2>1, JobIsProcess, NoProcIsNone DEF ListRead
  <2> QED BY <1>5, <2>2, FeedbackUntouched DEF ListRead, Encoding
<1>6. CASE ProcessFinishedData
  <2>1. proc'.over
    BY <1>0, <1>6, NoProcIsNone DEF ProcessFinishedData, Process, Encoding
  <2>2. /\ pipe' = <<>> /\ status' = "idle" /\ reported' = "idle"
        /\ spoiled' = spoiled
    BY <1>6 DEF ProcessFinishedData
  <2> QED BY <2>1, <2>2, NothingIsLined DEF FeedbackInv
<1>7. CASE ProcessError
  <2>1. proc'.over
    BY <1>0, <1>7 DEF ProcessError, Finishable, Process
  <2> QED BY <1>7, <2>1, FeedbackUntouched DEF ProcessError
<1>8. CASE FatalClosed
  BY <1>8, FeedbackUntouched DEF FatalClosed, Encoding
<1>9. CASE ProcessCollectGarbageData
  BY <1>9, FeedbackUntouched, NoProcIsNone DEF ProcessCollectGarbageData, Encoding
<1>10. CASE ProcessKillData
  <2>1. Encoding' /\ ~proc'.over => Encoding /\ ~proc.over
    BY <1>0, <1>10, NoProcIsNone DEF ProcessKillData, Process, Encoding
  <2> QED BY <1>10, <2>1, FeedbackUntouched DEF ProcessKillData
<1>11. CASE ClickStart
  BY <1>11, FeedbackStart DEF ClickStart
<1>12. CASE ClickStop
  BY <1>12 DEF ClickStop, FeedbackInv, Encoding, InStep, Now
<1>13. CASE ClickSend
  BY <1>13, FeedbackUntouched DEF ClickSend, Encoding
<1>14. CASE ChangeForm
  BY <1>14, FeedbackUntouched DEF ChangeForm, Encoding
<1>15. CASE CloseEvent
  BY <1>15, FeedbackUntouched DEF CloseEvent, Encoding
<1>16. CASE CloseAnswered
  BY <1>16, FeedbackUntouched DEF CloseAnswered, Encoding
<1>17. CASE UNCHANGED vars
  BY <1>17, FeedbackUntouched DEF vars, Encoding
<1> QED BY <1>1, <1>2, <1>3, <1>4, <1>5, <1>6, <1>7, <1>8, <1>9, <1>10, <1>11,
           <1>12, <1>13, <1>14, <1>15, <1>16, <1>17 DEF Next

(***************************************************************************)
(* However the reads cut the output of the encoder, and whatever their     *)
(* length, the status shown is the last one it reported or the window set, *)
(* except after the rest of an earlier encoder's line.                     *)
(***************************************************************************)
THEOREM StatusIsLastReported == Spec => []ShowsLastReport
<1>1. Init => FeedbackInv
  <2>1. Init => proc.job = "codecs"
    BY DEF Init, Job
  <2> QED BY <2>1, NothingIsLined DEF Init, FeedbackInv, Encoding
<1>2. IInv /\ FeedbackInv /\ [Next]_vars => FeedbackInv'
  BY FeedbackStep
<1>3. FeedbackInv => ShowsLastReport
  BY DEF FeedbackInv, ShowsLastReport
<1> QED BY <1>1, <1>2, <1>3, Inductive, PTL DEF Spec

-----------------------------------------------------------------------------
(***************************************************************************)
(* The four forms and the settings file in detail: GlassSettings, where a  *)
(* form is every box and text of a dialog.  Here for any texts, numbers,   *)
(* settings files and edits: saving the forms and loading them again gives *)
(* the forms back, without the blanks around a text.  It needs that every  *)
(* box shows one of its items, of those of the type that is chosen: a new  *)
(* form does, and loading and every edit keep it, whatever the file holds. *)
(***************************************************************************)
In(x, items) == \E i \in DOMAIN items : items[i] = x

\* A form of the codec dialog: every box shows one of its items.
CodecOK(c) ==
  /\ c = [type |-> c.type, rate |-> c.rate, channels |-> c.channels, bits |-> c.bits]
  /\ In(c.type, CodecTypes) /\ In(c.rate, Samplerates(c.type))
  /\ In(c.channels, Channels) /\ In(c.bits, Bitrates(c.type))

ServerFields ==
  {"type", "location", "username", "password", "use_identity", "identity",
   "script_down", "script_up", "maxconns", "cleanup", "preclean", "verbose",
   "metadata_port"}

UrlOK(l) ==
  l = [scheme |-> l.scheme, port |-> l.port, path |-> l.path] /\ l.port \in Int

ServerOK(v) ==
  /\ v = [type |-> v.type, location |-> v.location, username |-> v.username,
          password |-> v.password, use_identity |-> v.use_identity,
          identity |-> v.identity, script_down |-> v.script_down,
          script_up |-> v.script_up, metadata_port |-> v.metadata_port,
          maxconns |-> v.maxconns, cleanup |-> v.cleanup, preclean |-> v.preclean,
          verbose |-> v.verbose]
  /\ In(v.type, ServerBox)
  /\ v.use_identity \in BOOLEAN /\ v.cleanup \in BOOLEAN
  /\ v.preclean \in BOOLEAN /\ v.verbose \in BOOLEAN
  /\ UrlOK(v.location)
  /\ v.maxconns \in -1 .. MaxSpin /\ v.metadata_port \in 0 .. MaxSpin

SourceFields ==
  {"type", "alsa_device", "file_name", "server_name", "client_name", "gain"}

SourceOK(u) ==
  /\ u = [type |-> u.type, alsa_device |-> u.alsa_device, file_name |-> u.file_name,
          server_name |-> u.server_name, client_name |-> u.client_name,
          gain |-> u.gain]
  /\ In(u.type, SourceBox) /\ u.gain \in -100 .. 100

StreamOK(m) ==
  /\ m = [texts |-> m.texts, offset |-> m.offset] /\ m.offset \in -300 .. 300
  /\ m.texts = [f \in StreamTexts |-> m.texts[f]]

FormsOK(f) ==
  /\ f = [codec |-> f.codec, server |-> f.server, source |-> f.source,
          stream |-> f.stream]
  /\ CodecOK(f.codec) /\ ServerOK(f.server) /\ SourceOK(f.source) /\ StreamOK(f.stream)


(* What the dialogs keep in the settings file.                             *)
CodecTags  == {"AudioFormat", "AudioSamplerate", "AudioChannels", "AudioBitrate1"}
ServerTags == {"ServerType", "ServerLocation", "ServerUsernameSecret",
               "ServerPasswordSecret", "ServerUseIdentity", "ServerSshIdentity",
               "ServerScriptDown", "ServerScriptUp", "ServerMaxConnections",
               "ServerNoDeletes", "ServerPrecleanPublishPoint", "MetadataPort",
               "VerboseLogging"}
SourceTags == {"AudioDevice", "AlsaDevice", "FileName", "JackServerName",
               "JackClientName", "JackGain"}
StreamTags == {"StreamName", "StreamDescription", "StreamUrl", "StreamGenre",
               "StreamIcq", "StreamAim", "StreamIrc", "StreamTimestampOffset"}

\* Each dialog keeps its own tags.
LEMMA TagsOfDialogs ==
  ASSUME NEW f
  PROVE  /\ DOMAIN CodecSave(f.codec) = CodecTags
         /\ DOMAIN ServerSave(f.server) = ServerTags
         /\ DOMAIN SourceSave(f.source) = SourceTags
         /\ DOMAIN StreamSave(f.stream) = StreamTags
<1>1. DOMAIN CodecSave(f.codec) = CodecTags
  BY DEF CodecSave, CodecTags
<1>2. DOMAIN ServerSave(f.server) = ServerTags
  BY DEF ServerSave, ServerTags
<1>3. DOMAIN SourceSave(f.source) = SourceTags
  BY DEF SourceSave, SourceTags
<1>4. DOMAIN StreamSave(f.stream) = StreamTags
  BY DEF StreamSave, StreamTags
<1> QED BY <1>1, <1>2, <1>3, <1>4

\* No two of them have a tag in common, ...
LEMMA TagsDiffer ==
  /\ CodecTags \cap ServerTags = {} /\ CodecTags \cap SourceTags = {}
  /\ CodecTags \cap StreamTags = {} /\ ServerTags \cap SourceTags = {}
  /\ ServerTags \cap StreamTags = {} /\ SourceTags \cap StreamTags = {}
  BY DEF CodecTags, ServerTags, SourceTags, StreamTags

\* ... so that the file has what each of them saved.
LEMMA FileHasAll ==
  ASSUME NEW f, NEW s \in {ServerSave(f.server), CodecSave(f.codec),
                           SourceSave(f.source), StreamSave(f.stream)},
         NEW tag \in DOMAIN s
  PROVE  tag \in DOMAIN Save(f) /\ Save(f)[tag] = s[tag]
<1> DEFINE Sections == {ServerSave(f.server), CodecSave(f.codec),
                        SourceSave(f.source), StreamSave(f.stream)}
           Has(r) == tag \in DOMAIN r
<1>1. tag \in UNION {DOMAIN r : r \in Sections}
  OBVIOUS
<1>2. \A r \in Sections : tag \in DOMAIN r => r = s
  BY TagsOfDialogs, TagsDiffer
<1>3. (CHOOSE r \in Sections : tag \in DOMAIN r) = s
  BY <1>2
<1> QED BY <1>1, <1>3 DEF Save

-----------------------------------------------------------------------------
(* Every change of a form leaves a form.                                   *)

CodecShape(c) ==
  c = [type |-> c.type, rate |-> c.rate, channels |-> c.channels, bits |-> c.bits]

\* What a change of a box leaves alone.
LEMMA BoxChanged ==
  ASSUME NEW c, CodecShape(c), NEW x
  PROVE  /\ CodecShape([c EXCEPT !.type = x]) /\ [c EXCEPT !.type = x].type = x
         /\ CodecShape([c EXCEPT !.rate = x]) /\ [c EXCEPT !.rate = x].rate = x
         /\ [c EXCEPT !.rate = x].type = c.type
         /\ CodecShape(CodecSamplerateChanged(c))
         /\ CodecSamplerateChanged(c).type = c.type
         /\ CodecSamplerateChanged(c).rate = c.rate
<1> USE DEF CodecShape
<1>1. CodecShape([c EXCEPT !.type = x]) /\ [c EXCEPT !.type = x].type = x
  OBVIOUS
<1>2. /\ CodecShape([c EXCEPT !.rate = x]) /\ [c EXCEPT !.rate = x].rate = x
      /\ [c EXCEPT !.rate = x].type = c.type
  OBVIOUS
<1>3. /\ CodecShape(CodecSamplerateChanged(c))
      /\ CodecSamplerateChanged(c).type = c.type
      /\ CodecSamplerateChanged(c).rate = c.rate
  BY DEF CodecSamplerateChanged
<1> QED BY <1>1, <1>2, <1>3

\* The numbers in the boxes
LEMMA Items ==
  ASSUME NEW type, In(type, CodecTypes)
  PROVE  /\ Samplerates(type) \in Seq(Nat) /\ Samplerates(type) # <<>>
         /\ Bitrates(type) \in Seq(Nat) /\ Bitrates(type) # <<>>
         /\ Channels \in Seq(Nat) /\ Channels # <<>>
<1>1. type \in {"aacp", "mp2", "mp3", "vorbis", "pcm16", "opus"}
  BY DEF In, CodecTypes
<1>2. Samplerates(type) \in Seq(Nat) /\ Samplerates(type) # <<>>
  BY DEF Samplerates
<1>3. Bitrates(type) \in Seq(Nat) /\ Bitrates(type) # <<>>
  <2>1. LayerBitrates \in Seq(Nat) /\ LayerBitrates # <<>>
    BY DEF LayerBitrates
  <2>2. Append(LayerBitrates, 384) \in Seq(Nat) /\ Append(LayerBitrates, 384) # <<>>
    BY <2>1
  <2>3. /\ <<16, 24, 32, 40, 48>> \in Seq(Nat) /\ <<16, 24, 32, 40, 48>> # <<>>
        /\ <<0>> \in Seq(Nat) /\ <<0>> # <<>>
    OBVIOUS
  <2>4. <<0, 1, 2, 3, 4, 5, 6, 7, 8, 9, 10>> \in Seq(Nat)
        /\ <<0, 1, 2, 3, 4, 5, 6, 7, 8, 9, 10>> # <<>>
    OBVIOUS
  <2> QED BY <1>1, <2>1, <2>2, <2>3, <2>4 DEF Bitrates
<1>4. Channels \in Seq(Nat) /\ Channels # <<>>
  BY DEF Channels
<1> QED BY <1>2, <1>3, <1>4

\* What such a box shows is a number.
LEMMA ItemIsNumber ==
  ASSUME NEW box \in Seq(Nat), NEW x, In(x, box)
  PROVE  x \in Nat
  BY DEF In

\* The numbers that a form of the codec dialog shows
LEMMA CodecNumbers ==
  ASSUME NEW c, CodecOK(c)
  PROVE  c.rate \in Nat /\ c.channels \in Nat /\ c.bits \in Nat
  BY Items, ItemIsNumber DEF CodecOK

\* A box that is filled anew shows its first item.
LEMMA FirstItems ==
  ASSUME NEW type, In(type, CodecTypes)
  PROVE  /\ In(Head(Samplerates(type)), Samplerates(type))
         /\ In(Head(Bitrates(type)), Bitrates(type))
         /\ In(Head(Channels), Channels)
<1>1. ASSUME NEW box \in Seq(Nat), box # <<>>
      PROVE  In(Head(box), box)
  BY <1>1 DEF In
<1> QED BY <1>1, Items

\* A new sample rate, and a new type, of a form whose boxes are in order.
LEMMA RateChangedOK ==
  ASSUME NEW c, CodecShape(c), In(c.type, CodecTypes), In(c.rate, Samplerates(c.type)),
         In(c.channels, Channels)
  PROVE  /\ CodecOK(CodecSamplerateChanged(c))
         /\ CodecSamplerateChanged(c).type = c.type
<1>1. In(Head(Bitrates(c.type)), Bitrates(c.type))
  BY FirstItems
<1> DEFINE first == Head(Bitrates(c.type))
           c1 == [c EXCEPT !.bits = first]
<1>2. CodecSamplerateChanged(c) = c1
  BY DEF CodecSamplerateChanged
<1> HIDE DEF first
<1>3. c1 = [type |-> c.type, rate |-> c.rate, channels |-> c.channels, bits |-> first]
  BY DEF CodecShape
<1> HIDE DEF c1
<1>4. CodecOK(c1)
  BY <1>1, <1>3 DEF CodecOK, first
<1> QED BY <1>2, <1>4, BoxChanged

(* Another type: the first rate and bit rate of it, and the first channels. *)
LEMMA TypeChangedOK ==
  ASSUME NEW c, CodecShape(c), In(c.type, CodecTypes)
  PROVE  CodecOK(CodecTypeChanged(c)) /\ CodecTypeChanged(c).type = c.type
<1> DEFINE rate == Head(Samplerates(c.type))
           channels == Head(Channels)
           c0 == [c EXCEPT !.rate = rate]
           c1 == [c0 EXCEPT !.channels = channels]
<1>1. In(rate, Samplerates(c.type)) /\ In(channels, Channels)
  BY FirstItems
<1>2. CodecTypeChanged(c) = CodecSamplerateChanged(c1)
  BY DEF CodecTypeChanged
<1> HIDE DEF rate, channels
<1>3. CodecShape(c0) /\ c0.type = c.type /\ c0.rate = rate
  BY BoxChanged
<1> HIDE DEF c0
<1>4. CodecShape(c1) /\ c1.type = c.type /\ c1.rate = rate /\ c1.channels = channels
  BY <1>3 DEF CodecShape
<1> HIDE DEF c1
<1> QED BY <1>1, <1>2, <1>4, RateChangedOK
-----------------------------------------------------------------------------
(* What the dialogs make of a file that has what they saved.               *)

\* The file has everything that section has.
ContainsAll(file0, section) ==
  \A tag \in DOMAIN section : tag \in DOMAIN file0 /\ file0[tag] = section[tag]

\* A tag that is there is read, ...
LEMMA TagRead ==
  ASSUME NEW file0, NEW tag \in DOMAIN file0, NEW default
  PROVE  /\ StringValue(file0, tag) = Trim(file0[tag])
         /\ file0[tag] \in Int => IntValue(file0, tag, default) = file0[tag]
  BY Zenon DEF StringValue, IntValue

\* ... a spin box (for a number of connections, a port, a gain or an offset)
\* shows a number in its range, the one it is set to if it can, ...
LEMMA Spins ==
  ASSUME NEW n \in Int
  PROVE  /\ SpinValue(-1, MaxSpin, n) \in -1 .. MaxSpin
         /\ n \in -1 .. MaxSpin => SpinValue(-1, MaxSpin, n) = n
         /\ SpinValue(0, MaxSpin, n) \in 0 .. MaxSpin
         /\ n \in 0 .. MaxSpin => SpinValue(0, MaxSpin, n) = n
         /\ SpinValue(-100, 100, n) \in -100 .. 100
         /\ n \in -100 .. 100 => SpinValue(-100, 100, n) = n
         /\ SpinValue(-300, 300, n) \in -300 .. 300
         /\ n \in -300 .. 300 => SpinValue(-300, 300, n) = n
<1>1. MaxSpin \in Nat
  BY DEF MaxSpin
<1>2. /\ SpinValue(-1, MaxSpin, n) \in -1 .. MaxSpin
      /\ n \in -1 .. MaxSpin => SpinValue(-1, MaxSpin, n) = n
      /\ SpinValue(0, MaxSpin, n) \in 0 .. MaxSpin
      /\ n \in 0 .. MaxSpin => SpinValue(0, MaxSpin, n) = n
  BY <1>1 DEF SpinValue
<1>3. /\ SpinValue(-100, 100, n) \in -100 .. 100
      /\ n \in -100 .. 100 => SpinValue(-100, 100, n) = n
      /\ SpinValue(-300, 300, n) \in -300 .. 300
      /\ n \in -300 .. 300 => SpinValue(-300, 300, n) = n
  BY DEF SpinValue
<1> QED BY <1>2, <1>3

\* (which are numbers)
LEMMA Ranges ==
  /\ -1 .. MaxSpin \subseteq Int /\ 0 .. MaxSpin \subseteq Int
  /\ -100 .. 100 \subseteq Int /\ -300 .. 300 \subseteq Int /\ -1 \in Int
  BY DEF MaxSpin

\* ... and a box is set to what it once showed.
LEMMA BoxSet ==
  ASSUME NEW items, NEW current, NEW value, In(value, items)
  PROVE  SetCurrentItemData(items, current, value) = value
  BY DEF SetCurrentItemData, ToSet, In

\* The names of types have no blanks to lose.
LEMMA NamesKept ==
  ASSUME NEW name, In(name, CodecTypes) \/ In(name, ServerBox) \/ In(name, SourceBox)
  PROVE  Trim(name) = name
<1>1. name \in {"aacp", "mp2", "mp3", "vorbis", "pcm16", "opus", "hls", "icecast2",
                "shout1", "shout2", "file", "filearchive", "icestreamer", "iceout",
                "alsa", "jack"}
  BY DEF In, CodecTypes, ServerBox, SourceBox
<1>2. name # " text"
  BY <1>1
<1> QED BY <1>2, Zenon DEF Trim

(* The type is loaded first: it resets the other boxes, to items among     *)
(* which what was saved is found again.                                    *)
LEMMA CodecReturns ==
  ASSUME NEW c, CodecOK(c), NEW c0, CodecOK(c0), NEW file0, ContainsAll(file0, CodecSave(c))
  PROVE  CodecLoad(c0, file0) = c
<1> DEFINE type == CodecTypeChanged([c0 EXCEPT !.type =
                SetCurrentItemData(CodecTypes, @, StringValue(file0, "AudioFormat"))])
           rate == CodecSamplerateChanged([type EXCEPT !.rate =
                SetCurrentItemData(Samplerates(type.type), @,
                                   IntValue(file0, "AudioSamplerate", 0))])
           final == [rate EXCEPT
        !.channels = SetCurrentItemData(Channels, @, IntValue(file0, "AudioChannels", 0)),
        !.bits = SetCurrentItemData(Bitrates(type.type), @,
                                    IntValue(file0, "AudioBitrate1", 0))]
<1>0. CodecLoad(c0, file0) = final
  BY DEF CodecLoad
<1>1. /\ StringValue(file0, "AudioFormat") = Trim(c.type)
      /\ IntValue(file0, "AudioSamplerate", 0) = c.rate
      /\ IntValue(file0, "AudioChannels", 0) = c.channels
      /\ IntValue(file0, "AudioBitrate1", 0) = c.bits
  <2>1. /\ "AudioFormat" \in DOMAIN file0 /\ file0["AudioFormat"] = c.type
        /\ "AudioSamplerate" \in DOMAIN file0 /\ file0["AudioSamplerate"] = c.rate
        /\ "AudioChannels" \in DOMAIN file0 /\ file0["AudioChannels"] = c.channels
        /\ "AudioBitrate1" \in DOMAIN file0 /\ file0["AudioBitrate1"] = c.bits
    BY DEF ContainsAll, CodecSave
  <2>2. c.rate \in Int /\ c.channels \in Int /\ c.bits \in Int
    BY CodecNumbers
  <2> QED BY <2>1, <2>2, TagRead
<1>2. Trim(c.type) = c.type
  BY NamesKept DEF CodecOK
<1>3. CodecShape(type) /\ type.type = c.type
  <2> DEFINE item == SetCurrentItemData(CodecTypes, c0.type,
                                        StringValue(file0, "AudioFormat"))
             new == [c0 EXCEPT !.type = item]
  <2>1. item = c.type
    BY <1>1, <1>2, BoxSet DEF CodecOK
  <2>2. CodecShape(new) /\ new.type = item
    BY BoxChanged DEF CodecOK, CodecShape
  <2>3. type = CodecTypeChanged(new)
    OBVIOUS
  <2> HIDE DEF new, type
  <2> QED BY <2>1, <2>2, <2>3, TypeChangedOK DEF CodecOK, CodecShape
<1> HIDE DEF type
<1>4. CodecShape(rate) /\ rate.type = c.type /\ rate.rate = c.rate
  <2> DEFINE item == SetCurrentItemData(Samplerates(type.type), type.rate,
                                        IntValue(file0, "AudioSamplerate", 0))
             new == [type EXCEPT !.rate = item]
  <2>1. item = c.rate
    BY <1>1, <1>3, BoxSet DEF CodecOK
  <2>2. CodecShape(new) /\ new.rate = item /\ new.type = type.type
    BY <1>3, BoxChanged
  <2>3. rate = CodecSamplerateChanged(new)
    OBVIOUS
  <2> HIDE DEF new, rate
  <2> QED BY <1>3, <2>1, <2>2, <2>3, BoxChanged
<1> HIDE DEF rate
<1>5. final = [type |-> c.type, rate |-> c.rate, channels |-> c.channels, bits |-> c.bits]
  <2>1. SetCurrentItemData(Channels, rate.channels, IntValue(file0, "AudioChannels", 0))
          = c.channels
    BY <1>1, BoxSet DEF CodecOK
  <2>2. SetCurrentItemData(Bitrates(type.type), rate.bits,
                           IntValue(file0, "AudioBitrate1", 0)) = c.bits
    BY <1>1, <1>3, BoxSet DEF CodecOK
  <2>3. final = [rate EXCEPT !.channels = c.channels, !.bits = c.bits]
    BY <1>4, <2>1, <2>2 DEF CodecShape
  <2> HIDE DEF final
  <2> QED BY <1>4, <2>3 DEF CodecShape
<1> QED BY <1>0, <1>5 DEF CodecOK

\* A check mark is kept as a bit.
LEMMA BitKept ==
  ASSUME NEW b \in BOOLEAN
  PROVE  (Bit(b) # 0) = b
  BY DEF Bit

(* The server form comes back without the blanks around its texts.         *)
LEMMA ServerReturns ==
  ASSUME NEW v, ServerOK(v), NEW v0, NEW file0, ContainsAll(file0, ServerSave(v))
  PROVE  ServerLoad(v0, file0) = TrimServer(v)
<1>1. \A tag \in ServerTags : tag \in DOMAIN file0 /\ file0[tag] = ServerSave(v)[tag]
  BY DEF ContainsAll, ServerSave, ServerTags
<1>2. /\ StringValue(file0, "ServerType") = v.type
      /\ file0["ServerLocation"] = v.location /\ "ServerLocation" \in DOMAIN file0
      /\ StringValue(file0, "ServerSshIdentity") = Trim(v.identity)
      /\ StringValue(file0, "ServerScriptDown") = Trim(v.script_down)
      /\ StringValue(file0, "ServerScriptUp") = Trim(v.script_up)
  BY <1>1, TagRead, NamesKept DEF ServerTags, ServerSave, ServerOK
<1>10. /\ SpinValue(-1, MaxSpin, IntValue(file0, "ServerMaxConnections", -1)) = v.maxconns
      /\ SpinValue(0, MaxSpin, IntValue(file0, "MetadataPort", -1)) = v.metadata_port
  <2>1. v.maxconns \in -1 .. MaxSpin /\ v.metadata_port \in 0 .. MaxSpin
    BY DEF ServerOK
  <2>2. /\ IntValue(file0, "ServerMaxConnections", -1) = v.maxconns
        /\ IntValue(file0, "MetadataPort", -1) = v.metadata_port
    BY <1>1, <2>1, TagRead, Ranges DEF ServerTags, ServerSave
  <2>3. v.maxconns \in Int /\ v.metadata_port \in Int
    BY <2>1, Ranges
  <2> QED BY <2>1, <2>2, <2>3, Spins
<1>3. /\ (IntValue(file0, "ServerUseIdentity", 0) # 0) = v.use_identity
      /\ (IntValue(file0, "ServerNoDeletes", 1) # 0) = v.cleanup
      /\ (IntValue(file0, "ServerPrecleanPublishPoint", 1) # 0) = v.preclean
      /\ (IntValue(file0, "VerboseLogging", 0) # 0) = v.verbose
  <2>1. /\ IntValue(file0, "ServerUseIdentity", 0) = Bit(v.use_identity)
        /\ IntValue(file0, "ServerNoDeletes", 1) = Bit(v.cleanup)
        /\ IntValue(file0, "ServerPrecleanPublishPoint", 1) = Bit(v.preclean)
        /\ IntValue(file0, "VerboseLogging", 0) = Bit(v.verbose)
    <3>1. /\ Bit(v.use_identity) \in Int /\ Bit(v.cleanup) \in Int
          /\ Bit(v.preclean) \in Int /\ Bit(v.verbose) \in Int
      BY DEF Bit
    <3>2. \A tag \in ServerTags : file0[tag] \in Int => \A d : IntValue(file0, tag, d) = file0[tag]
      BY <1>1, TagRead
    <3> QED BY <1>1, <3>1, <3>2 DEF ServerTags, ServerSave
  <2>2. /\ v.use_identity \in BOOLEAN /\ v.cleanup \in BOOLEAN
        /\ v.preclean \in BOOLEAN /\ v.verbose \in BOOLEAN
    BY DEF ServerOK
  <2> QED BY <2>1, <2>2, BitKept, Zenon
<1>4. /\ Secret(file0, "ServerUsernameSecret", "ServerUsername") = v.username
      /\ Secret(file0, "ServerPasswordSecret", "ServerPassword") = v.password
  <2>1. /\ "ServerUsernameSecret" \in DOMAIN file0
        /\ file0["ServerUsernameSecret"] = ToBase64(v.username)
        /\ "ServerPasswordSecret" \in DOMAIN file0
        /\ file0["ServerPasswordSecret"] = ToBase64(v.password)
    BY <1>1 DEF ServerTags, ServerSave
  <2>2. \A t : FromBase64(ToBase64(t)) = t
    BY DEF FromBase64, ToBase64
  <2> QED BY <2>1, <2>2, Zenon DEF Secret
<1>5. SetCurrentItemData(ServerBox, v0.type, StringValue(file0, "ServerType")) = v.type
  BY <1>2, BoxSet DEF ServerOK
<1>6. ServerLoad(v0, file0) =
        [type |-> v.type, location |-> v.location, username |-> v.username,
         password |-> v.password, use_identity |-> v.use_identity,
         identity |-> Trim(v.identity), script_down |-> Trim(v.script_down),
         script_up |-> Trim(v.script_up), maxconns |-> v.maxconns, cleanup |-> v.cleanup,
         preclean |-> v.preclean, verbose |-> v.verbose, metadata_port |-> v.metadata_port]
  BY <1>2, <1>3, <1>4, <1>5, <1>10, Zenon DEF ServerLoad
<1> DEFINE trimmed == TrimServer(v)
           loaded == ServerLoad(v0, file0)
<1>7. DOMAIN v = ServerFields /\ v = [k \in ServerFields |-> v[k]]
  BY DEF ServerOK, ServerFields
<1>8. /\ DOMAIN loaded = ServerFields /\ loaded = [k \in ServerFields |-> loaded[k]]
      /\ DOMAIN trimmed = ServerFields /\ trimmed = [k \in ServerFields |-> trimmed[k]]
  BY <1>6, <1>7 DEF ServerFields, TrimServer
<1>9. ASSUME NEW k \in ServerFields
      PROVE  loaded[k] = trimmed[k]
  <2>1. trimmed[k] = IF k \in {"identity", "script_down", "script_up"} THEN Trim(v[k])
                     ELSE v[k]
    BY ONLY <1>7, k \in ServerFields DEF TrimServer
  <2>2. loaded[k] = IF k \in {"identity", "script_down", "script_up"} THEN Trim(v[k])
                    ELSE v[k]
    BY <1>6 DEF ServerFields
  <2> QED BY <2>1, <2>2
<1> HIDE DEF loaded, trimmed
<1>11. loaded = trimmed
  BY <1>8, <1>9, Zenon
<1> QED BY <1>11 DEF loaded, trimmed

(* And the source form, ...                                                *)
LEMMA SourceReturns ==
  ASSUME NEW u, SourceOK(u), NEW u0, NEW file0, ContainsAll(file0, SourceSave(u))
  PROVE  SourceLoad(u0, file0) = TrimSource(u)
<1>1. \A tag \in SourceTags : tag \in DOMAIN file0 /\ file0[tag] = SourceSave(u)[tag]
  BY DEF ContainsAll, SourceSave, SourceTags
<1>2. /\ StringValue(file0, "AudioDevice") = u.type
      /\ StringValue(file0, "AlsaDevice") = Trim(u.alsa_device)
      /\ StringValue(file0, "FileName") = Trim(u.file_name)
      /\ StringValue(file0, "JackServerName") = Trim(u.server_name)
      /\ StringValue(file0, "JackClientName") = Trim(u.client_name)
  BY <1>1, TagRead, NamesKept DEF SourceTags, SourceSave, SourceOK
<1>9. SpinValue(-100, 100, IntValue(file0, "JackGain", 0)) = u.gain
  <2>1. u.gain \in -100 .. 100 /\ u.gain \in Int
    BY Ranges DEF SourceOK
  <2>2. IntValue(file0, "JackGain", 0) = u.gain
    BY <1>1, <2>1, TagRead DEF SourceTags, SourceSave
  <2>3. SpinValue(-100, 100, u.gain) = u.gain
    BY <2>1 DEF SpinValue
  <2> QED BY <2>2, <2>3
<1>3. SetCurrentItemData(SourceBox, u0.type, StringValue(file0, "AudioDevice")) = u.type
  BY <1>2, BoxSet DEF SourceOK
<1>4. SourceLoad(u0, file0) =
        [type |-> u.type, alsa_device |-> Trim(u.alsa_device),
         file_name |-> Trim(u.file_name), server_name |-> Trim(u.server_name),
         client_name |-> Trim(u.client_name), gain |-> u.gain]
  BY <1>2, <1>3, <1>9, Zenon DEF SourceLoad
<1> DEFINE Texts == {"alsa_device", "file_name", "server_name", "client_name"}
           Fields == {"type", "gain"} \cup Texts
           trimmed == TrimSource(u)
           loaded == SourceLoad(u0, file0)
<1>5. DOMAIN u = Fields /\ u = [k \in Fields |-> u[k]]
  BY DEF SourceOK
<1>6. /\ DOMAIN loaded = Fields /\ loaded = [k \in Fields |-> loaded[k]]
      /\ DOMAIN trimmed = Fields /\ trimmed = [k \in Fields |-> trimmed[k]]
  BY <1>4, <1>5 DEF TrimSource
<1>7. ASSUME NEW k \in Fields
      PROVE  loaded[k] = trimmed[k]
  <2>1. trimmed[k] = IF k \in Texts THEN Trim(u[k]) ELSE u[k]
    BY ONLY <1>5, k \in Fields DEF TrimSource
  <2>2. loaded[k] = IF k \in Texts THEN Trim(u[k]) ELSE u[k]
    BY <1>4
  <2> QED BY <2>1, <2>2
<1> HIDE DEF loaded, trimmed
<1>8. loaded = trimmed
  BY <1>6, <1>7, Zenon
<1> QED BY <1>8 DEF loaded, trimmed

(* ... and the stream form.                                                *)
LEMMA StreamReturns ==
  ASSUME NEW m, StreamOK(m), NEW m0, NEW file0, ContainsAll(file0, StreamSave(m))
  PROVE  StreamLoad(m0, file0) = TrimStream(m)
<1>1. \A tag \in StreamTags : tag \in DOMAIN file0 /\ file0[tag] = StreamSave(m)[tag]
  BY DEF ContainsAll, StreamSave, StreamTags
<1>2. ASSUME NEW f \in StreamTexts
      PROVE  StringValue(file0, StreamTag[f]) = Trim(m.texts[f])
  <2>1. StreamTag[f] \in StreamTags /\ StreamSave(m)[StreamTag[f]] = m.texts[f]
    BY DEF StreamTags, StreamTag, StreamTexts, StreamSave
  <2> QED BY <1>1, <2>1, TagRead
<1>3. SpinValue(-300, 300, IntValue(file0, "StreamTimestampOffset", 0)) = m.offset
  <2>1. m.offset \in -300 .. 300 /\ m.offset \in Int
    BY Ranges DEF StreamOK
  <2>2. IntValue(file0, "StreamTimestampOffset", 0) = m.offset
    BY <1>1, <2>1, TagRead DEF StreamTags, StreamSave
  <2>3. SpinValue(-300, 300, m.offset) = m.offset
    BY <2>1 DEF SpinValue
  <2> QED BY <2>2, <2>3
<1>4. StreamLoad(m0, file0) =
        [texts |-> [t \in StreamTexts |-> Trim(m.texts[t])], offset |-> m.offset]
  BY <1>2, <1>3 DEF StreamLoad
<1> QED BY <1>4 DEF StreamOK, TrimStream

\* What was saved comes back, without the blanks around the texts.
LEMMA FormsReturn ==
  ASSUME NEW f, FormsOK(f), NEW f0, CodecOK(f0.codec)
  PROVE  Load(f0, Save(f)) = TrimAll(f)
<1>1. /\ ContainsAll(Save(f), CodecSave(f.codec)) /\ ContainsAll(Save(f), ServerSave(f.server))
      /\ ContainsAll(Save(f), SourceSave(f.source)) /\ ContainsAll(Save(f), StreamSave(f.stream))
  BY FileHasAll DEF ContainsAll
<1>2. CodecLoad(f0.codec, Save(f)) = f.codec
  BY <1>1, CodecReturns DEF FormsOK
<1>3. ServerLoad(f0.server, Save(f)) = TrimServer(f.server)
  BY <1>1, ServerReturns DEF FormsOK
<1>4. SourceLoad(f0.source, Save(f)) = TrimSource(f.source)
  BY <1>1, SourceReturns DEF FormsOK
<1>5. StreamLoad(f0.stream, Save(f)) = TrimStream(f.stream)
  BY <1>1, StreamReturns DEF FormsOK
<1> QED BY <1>2, <1>3, <1>4, <1>5 DEF Load, TrimAll
-----------------------------------------------------------------------------
\* A box never shows what is not one of its items.
LEMMA BoxKeeps ==
  ASSUME NEW items, NEW current, In(current, items), NEW value
  PROVE  In(SetCurrentItemData(items, current, value), items)
  BY DEF SetCurrentItemData, In, ToSet

(* Whatever the file holds, the boxes show items of the type they load.    *)
LEMMA CodecLoadedOK ==
  ASSUME NEW c0, CodecOK(c0), NEW file0
  PROVE  CodecOK(CodecLoad(c0, file0))
<1> DEFINE item == SetCurrentItemData(CodecTypes, c0.type,
                                      StringValue(file0, "AudioFormat"))
           c1 == [c0 EXCEPT !.type = item]
           type == CodecTypeChanged(c1)
           r == SetCurrentItemData(Samplerates(type.type), type.rate,
                                   IntValue(file0, "AudioSamplerate", 0))
           c2 == [type EXCEPT !.rate = r]
           rate == CodecSamplerateChanged(c2)
           n == SetCurrentItemData(Channels, rate.channels,
                                   IntValue(file0, "AudioChannels", 0))
           b == SetCurrentItemData(Bitrates(type.type), rate.bits,
                                   IntValue(file0, "AudioBitrate1", 0))
           final == [rate EXCEPT !.channels = n, !.bits = b]
<1>1. CodecLoad(c0, file0) = final
  <2>1. /\ type = CodecTypeChanged([c0 EXCEPT !.type =
                SetCurrentItemData(CodecTypes, @, StringValue(file0, "AudioFormat"))])
        /\ rate = CodecSamplerateChanged([type EXCEPT !.rate =
                SetCurrentItemData(Samplerates(type.type), @,
                                   IntValue(file0, "AudioSamplerate", 0))])
    OBVIOUS
  <2> HIDE DEF type, rate
  <2> QED BY <2>1 DEF CodecLoad
<1>2. CodecOK(type)
  <2>1. In(item, CodecTypes)
    BY BoxKeeps DEF CodecOK
  <2>2. CodecShape(c1) /\ c1.type = item
    BY BoxChanged DEF CodecOK, CodecShape
  <2> HIDE DEF c1, item
  <2> QED BY <2>1, <2>2, TypeChangedOK
<1> HIDE DEF type
<1>3. CodecOK(rate) /\ rate.type = type.type
  <2>1. In(r, Samplerates(type.type))
    BY <1>2, BoxKeeps DEF CodecOK
  <2>2. CodecShape(type)
    BY <1>2 DEF CodecOK, CodecShape
  <2> HIDE DEF r
  <2>3. /\ CodecShape(c2) /\ c2.type = type.type /\ c2.rate = r
        /\ c2.channels = type.channels
    BY <2>2 DEF CodecShape
  <2> HIDE DEF c2
  <2> QED BY <1>2, <2>1, <2>3, RateChangedOK, BoxChanged DEF CodecOK
<1> HIDE DEF rate
<1>4. In(n, Channels) /\ In(b, Bitrates(rate.type))
  BY <1>3, BoxKeeps DEF CodecOK
<1> HIDE DEF n, b
<1>5. final = [type |-> rate.type, rate |-> rate.rate, channels |-> n, bits |-> b]
  <2> DEFINE c3 == [rate EXCEPT !.channels = n]
  <2>1. c3 = [type |-> rate.type, rate |-> rate.rate, channels |-> n,
              bits |-> rate.bits]
    BY <1>3 DEF CodecOK
  <2>2. final = [c3 EXCEPT !.bits = b]
    BY Zenon
  <2> HIDE DEF c3, final
  <2> QED BY <2>1, <2>2
<1> HIDE DEF final
<1> QED BY <1>1, <1>3, <1>4, <1>5 DEF CodecOK

\* A settings file of which the location, if it has one, is a URL.
FileOK(f) == "ServerLocation" \in DOMAIN f => UrlOK(f["ServerLocation"])

\* A number of the file is one, or the default.
LEMMA NumberRead ==
  ASSUME NEW file0, NEW tag, NEW default \in Int
  PROVE  IntValue(file0, tag, default) \in Int
  BY DEF IntValue

\* No location is a URL too.
LEMMA NoUrlOK == UrlOK(NoUrl)
  BY DEF UrlOK, NoUrl

\* What is loaded are forms, whatever else the file has.
LEMMA LoadedOK ==
  ASSUME NEW f0, CodecOK(f0.codec), In(f0.server.type, ServerBox),
         In(f0.source.type, SourceBox), NEW file0, FileOK(file0)
  PROVE  FormsOK(Load(f0, file0))
<1>1. CodecOK(CodecLoad(f0.codec, file0))
  BY CodecLoadedOK
<1>2. ServerOK(ServerLoad(f0.server, file0))
  <2> DEFINE v == ServerLoad(f0.server, file0)
  <2>1. v.type = SetCurrentItemData(ServerBox, f0.server.type,
                                    StringValue(file0, "ServerType"))
    BY DEF ServerLoad
  <2>2. /\ v.use_identity \in BOOLEAN /\ v.cleanup \in BOOLEAN
        /\ v.preclean \in BOOLEAN /\ v.verbose \in BOOLEAN
    BY DEF ServerLoad
  <2>3. v = [type |-> v.type, location |-> v.location, username |-> v.username,
             password |-> v.password, use_identity |-> v.use_identity,
             identity |-> v.identity, script_down |-> v.script_down,
             script_up |-> v.script_up, metadata_port |-> v.metadata_port,
             maxconns |-> v.maxconns, cleanup |-> v.cleanup, preclean |-> v.preclean,
             verbose |-> v.verbose]
    BY DEF ServerLoad
  <2>6. v.maxconns \in -1 .. MaxSpin /\ v.metadata_port \in 0 .. MaxSpin
    <3>1. /\ IntValue(file0, "ServerMaxConnections", -1) \in Int
          /\ IntValue(file0, "MetadataPort", -1) \in Int
      BY NumberRead, Ranges
    <3>2. /\ v.maxconns = SpinValue(-1, MaxSpin, IntValue(file0, "ServerMaxConnections", -1))
          /\ v.metadata_port = SpinValue(0, MaxSpin, IntValue(file0, "MetadataPort", -1))
      BY DEF ServerLoad
    <3> QED BY <3>1, <3>2, Spins
  <2>7. UrlOK(v.location)
    BY NoUrlOK DEF FileOK, ServerLoad
  <2> HIDE DEF v
  <2>4. In(v.type, ServerBox)
    BY <2>1, BoxKeeps
  <2>5. ServerOK(v)
    BY <2>2, <2>3, <2>4, <2>6, <2>7 DEF ServerOK
  <2> QED BY <2>5 DEF v
<1>3. SourceOK(SourceLoad(f0.source, file0))
  <2> DEFINE u == SourceLoad(f0.source, file0)
  <2>1. u.type = SetCurrentItemData(SourceBox, f0.source.type,
                                    StringValue(file0, "AudioDevice"))
    BY DEF SourceLoad
  <2>2. u = [type |-> u.type, alsa_device |-> u.alsa_device, file_name |-> u.file_name,
             server_name |-> u.server_name, client_name |-> u.client_name,
             gain |-> u.gain]
    BY DEF SourceLoad
  <2>4. u.gain \in -100 .. 100
    <3> DEFINE n == IntValue(file0, "JackGain", 0)
    <3>1. n \in Int
      BY NumberRead
    <3>2. u.gain = SpinValue(-100, 100, n)
      BY DEF SourceLoad
    <3> HIDE DEF n, u
    <3>3. SpinValue(-100, 100, n) \in -100 .. 100
      BY <3>1 DEF SpinValue
    <3> QED BY <3>2, <3>3
  <2> HIDE DEF u
  <2>3. SourceOK(u)
    BY <2>1, <2>2, <2>4, BoxKeeps DEF SourceOK
  <2> QED BY <2>3 DEF u
<1>4. StreamOK(StreamLoad(f0.stream, file0))
  <2>1. IntValue(file0, "StreamTimestampOffset", 0) \in Int
    BY NumberRead
  <2> DEFINE offset == SpinValue(-300, 300, IntValue(file0, "StreamTimestampOffset", 0))
  <2>2. offset \in -300 .. 300
    <3> DEFINE n == IntValue(file0, "StreamTimestampOffset", 0)
    <3>1. n \in Int
      BY <2>1
    <3> HIDE DEF n
    <3>2. SpinValue(-300, 300, n) \in -300 .. 300
      BY <3>1 DEF SpinValue
    <3> QED BY <3>2 DEF n
  <2>3. StreamLoad(f0.stream, file0) =
          [texts |-> [f \in StreamTexts |-> StringValue(file0, StreamTag[f])],
           offset |-> offset]
    BY Zenon DEF StreamLoad
  <2> HIDE DEF offset
  <2> QED BY <2>2, <2>3 DEF StreamOK
<1> QED BY <1>1, <1>2, <1>3, <1>4 DEF Load, FormsOK

\* So are the forms of a new window.
LEMMA NewFormsOK ==
  /\ CodecOK(NewForms.codec) /\ In(NewForms.server.type, ServerBox)
  /\ In(NewForms.source.type, SourceBox)
<1>1. CodecOK(CodecNew)
  <2> DEFINE c == [type |-> Head(CodecTypes), rate |-> 0, channels |-> 0, bits |-> 0]
  <2>1. In(Head(CodecTypes), CodecTypes)
    BY DEF In, CodecTypes
  <2>2. CodecShape(c) /\ c.type = Head(CodecTypes)
    BY DEF CodecShape
  <2> HIDE DEF c
  <2>3. CodecOK(CodecTypeChanged(c))
    BY <2>1, <2>2, TypeChangedOK
  <2> QED BY <2>3 DEF CodecNew, c
<1>2. ServerNew.type = Head(ServerBox) /\ SourceNew.type = Head(SourceBox)
  BY Zenon DEF ServerNew, SourceNew
<1>3. In(Head(ServerBox), ServerBox) /\ In(Head(SourceBox), SourceBox)
  BY DEF In, ServerBox, SourceBox
<1>4. /\ NewForms.codec = CodecNew /\ NewForms.server = ServerNew
      /\ NewForms.source = SourceNew
  BY DEF NewForms
<1> QED BY <1>1, <1>2, <1>3, <1>4
-----------------------------------------------------------------------------
(* The edits.                                                              *)

\* Forms of which one dialog was changed
LEMMA DialogChanged ==
  ASSUME NEW f, FormsOK(f), NEW x
  PROVE  /\ CodecOK(x)  => FormsOK([f EXCEPT !.codec = x])
         /\ ServerOK(x) => FormsOK([f EXCEPT !.server = x])
         /\ SourceOK(x) => FormsOK([f EXCEPT !.source = x])
         /\ StreamOK(x) => FormsOK([f EXCEPT !.stream = x])
<1>1. CodecOK(x) => FormsOK([f EXCEPT !.codec = x])
  BY DEF FormsOK
<1>2. ServerOK(x) => FormsOK([f EXCEPT !.server = x])
  BY DEF FormsOK
<1>3. SourceOK(x) => FormsOK([f EXCEPT !.source = x])
  BY DEF FormsOK
<1>4. StreamOK(x) => FormsOK([f EXCEPT !.stream = x])
  BY DEF FormsOK
<1> QED BY <1>1, <1>2, <1>3, <1>4

\* What a field of the server dialog may hold.
ServerFieldOK(k, x) ==
  /\ k = "type" => In(x, ServerBox)
  /\ k \in {"use_identity", "cleanup", "preclean", "verbose"} => x \in BOOLEAN
  /\ k = "location" => UrlOK(x)
  /\ k = "maxconns" => x \in -1 .. MaxSpin
  /\ k = "metadata_port" => x \in 0 .. MaxSpin

\* A field of the server dialog
LEMMA ServerChanged ==
  ASSUME NEW v, ServerOK(v), NEW k \in ServerFields, NEW x, ServerFieldOK(k, x)
  PROVE  ServerOK([v EXCEPT ![k] = x])
<1> DEFINE w == [v EXCEPT ![k] = x]
<1>1. DOMAIN v = ServerFields /\ v = [i \in ServerFields |-> v[i]]
  BY DEF ServerOK, ServerFields
<1>2. /\ DOMAIN w = ServerFields /\ w = [i \in ServerFields |-> w[i]]
      /\ \A i \in ServerFields : w[i] = IF i = k THEN x ELSE v[i]
  BY <1>1
<1> HIDE DEF w
<1>3. w = [type |-> w.type, location |-> w.location, username |-> w.username,
           password |-> w.password, use_identity |-> w.use_identity,
           identity |-> w.identity, script_down |-> w.script_down,
           script_up |-> w.script_up, metadata_port |-> w.metadata_port,
           maxconns |-> w.maxconns, cleanup |-> w.cleanup, preclean |-> w.preclean,
           verbose |-> w.verbose]
  BY <1>2 DEF ServerFields
<1>4. In(w.type, ServerBox) /\ UrlOK(w.location)
  BY <1>2 DEF ServerOK, ServerFields, ServerFieldOK
<1>5. /\ w.use_identity \in BOOLEAN /\ w.cleanup \in BOOLEAN
      /\ w.preclean \in BOOLEAN /\ w.verbose \in BOOLEAN
  BY <1>2 DEF ServerOK, ServerFields, ServerFieldOK
<1>7. w.maxconns \in -1 .. MaxSpin /\ w.metadata_port \in 0 .. MaxSpin
  BY <1>2 DEF ServerOK, ServerFields, ServerFieldOK
<1>6. ServerOK(w)
  BY <1>3, <1>4, <1>5, <1>7 DEF ServerOK
<1> QED BY <1>6 DEF w

\* A field of the source dialog: its type, the gain, or a text.
LEMMA SourceChanged ==
  ASSUME NEW u, SourceOK(u), NEW k \in SourceFields, NEW x,
         k = "type" => In(x, SourceBox), k = "gain" => x \in -100 .. 100
  PROVE  SourceOK([u EXCEPT ![k] = x])
<1> DEFINE w == [u EXCEPT ![k] = x]
<1>1. DOMAIN u = SourceFields /\ u = [i \in SourceFields |-> u[i]]
  BY DEF SourceOK, SourceFields
<1>2. /\ DOMAIN w = SourceFields /\ w = [i \in SourceFields |-> w[i]]
      /\ \A i \in SourceFields : w[i] = IF i = k THEN x ELSE u[i]
  BY <1>1
<1> HIDE DEF w
<1>3. w = [type |-> w.type, alsa_device |-> w.alsa_device, file_name |-> w.file_name,
           server_name |-> w.server_name, client_name |-> w.client_name,
           gain |-> w.gain]
  BY <1>2 DEF SourceFields
<1>4. In(w.type, SourceBox) /\ w.gain \in -100 .. 100
  BY <1>2 DEF SourceOK, SourceFields
<1>5. SourceOK(w)
  BY <1>3, <1>4 DEF SourceOK
<1> QED BY <1>5 DEF w

\* A text of the stream dialog, and the offset.
LEMMA StreamChanged ==
  ASSUME NEW m, StreamOK(m), NEW x
  PROVE  /\ x \in -300 .. 300 => StreamOK([m EXCEPT !.offset = x])
         /\ \A k : StreamOK([m EXCEPT !.texts[k] = x])
  BY DEF StreamOK

(* The user chooses among the items; another type resets the other boxes.  *)
LEMMA CodecEdits ==
  ASSUME FormsOK(forms),
         EditCodecType \/ EditSamplerate \/ EditChannels \/ EditBitrate
  PROVE  FormsOK(forms')
<1> DEFINE c == forms.codec
<1>0. CodecOK(c) /\ CodecShape(c)
  BY DEF FormsOK, CodecOK, CodecShape
<1>1. CASE EditCodecType
  <2>1. PICK t \in ToSet(CodecTypes) :
          forms' = [forms EXCEPT !.codec = CodecTypeChanged([@ EXCEPT !.type = t])]
    BY <1>1 DEF EditCodecType, Unchecked
  <2> DEFINE c1 == [c EXCEPT !.type = t]
             c2 == CodecTypeChanged(c1)
  <2>2. In(t, CodecTypes)
    BY DEF In, ToSet
  <2>3. CodecShape(c1) /\ c1.type = t
    BY <1>0, BoxChanged
  <2>4. forms' = [forms EXCEPT !.codec = c2]
    BY <2>1
  <2> HIDE DEF c1
  <2>5. CodecOK(c2)
    BY <2>2, <2>3, TypeChangedOK
  <2> HIDE DEF c2
  <2> QED BY <2>4, <2>5, DialogChanged
<1>2. CASE EditSamplerate
  <2>1. PICK r \in ToSet(Samplerates(c.type)) :
          forms' = [forms EXCEPT !.codec = CodecSamplerateChanged([@ EXCEPT !.rate = r])]
    BY <1>2 DEF EditSamplerate, Unchecked
  <2> DEFINE c1 == [c EXCEPT !.rate = r]
             c2 == CodecSamplerateChanged(c1)
  <2>2. In(r, Samplerates(c.type))
    BY DEF In, ToSet
  <2>3. /\ CodecShape(c1) /\ c1.type = c.type /\ c1.rate = r
        /\ c1.channels = c.channels
    BY <1>0 DEF CodecShape
  <2>4. forms' = [forms EXCEPT !.codec = c2]
    BY <2>1
  <2> HIDE DEF c1
  <2>5. CodecOK(c2)
    BY <1>0, <2>2, <2>3, RateChangedOK DEF CodecOK
  <2> HIDE DEF c2
  <2> QED BY <2>4, <2>5, DialogChanged
<1>3. CASE EditChannels
  <2>1. PICK n \in ToSet(Channels) : forms' = [forms EXCEPT !.codec.channels = n]
    BY <1>3 DEF EditChannels, Unchecked
  <2> DEFINE c1 == [c EXCEPT !.channels = n]
  <2>2. In(n, Channels)
    BY DEF In, ToSet
  <2>3. forms' = [forms EXCEPT !.codec = c1]
    BY <2>1
  <2>4. CodecOK(c1)
    BY <1>0, <2>2 DEF CodecOK
  <2> HIDE DEF c1
  <2> QED BY <2>3, <2>4, DialogChanged
<1>4. CASE EditBitrate
  <2>1. PICK b \in ToSet(Bitrates(c.type)) : forms' = [forms EXCEPT !.codec.bits = b]
    BY <1>4 DEF EditBitrate, Unchecked
  <2> DEFINE c1 == [c EXCEPT !.bits = b]
  <2>2. In(b, Bitrates(c.type))
    BY DEF In, ToSet
  <2>3. forms' = [forms EXCEPT !.codec = c1]
    BY <2>1
  <2>4. CodecOK(c1)
    BY <1>0, <2>2 DEF CodecOK
  <2> HIDE DEF c1
  <2> QED BY <2>3, <2>4, DialogChanged
<1> QED BY <1>1, <1>2, <1>3, <1>4

(* The other dialogs: an edit changes one box or text.                     *)
LEMMA ServerEdits ==
  ASSUME FormsOK(forms),
         \/ EditServerType \/ EditLocation \/ EditLogin \/ EditScript
         \/ EditCheckBox \/ EditSpinBox
  PROVE  FormsOK(forms')
<1> DEFINE v == forms.server
           checks == {"use_identity", "cleanup", "preclean", "verbose"}
<1>1. ASSUME NEW k \in ServerFields, NEW x, forms' = [forms EXCEPT !.server[k] = x],
             ServerFieldOK(k, x)
      PROVE  FormsOK(forms')
  <2> DEFINE w == [v EXCEPT ![k] = x]
  <2>1. ServerOK(v)
    BY DEF FormsOK
  <2>2. ServerOK(w)
    BY <1>1, <2>1, ServerChanged
  <2>3. forms' = [forms EXCEPT !.server = w]
    BY <1>1
  <2> HIDE DEF w
  <2> QED BY <2>2, <2>3, DialogChanged
<1>2. CASE EditServerType
  <2>1. PICK t \in ToSet(ServerBox) : forms' = [forms EXCEPT !.server["type"] = t]
    BY <1>2 DEF EditServerType, Unchecked
  <2>2. In(t, ServerBox)
    BY DEF In, ToSet
  <2> QED BY <1>1, <2>1, <2>2 DEF ServerFields, ServerFieldOK
<1>3. CASE EditLocation
  <2>1. PICK l \in Locations : forms' = [forms EXCEPT !.server["location"] = l]
    BY <1>3 DEF EditLocation, Validated
  <2>2. UrlOK(l)
    BY LocationsAssumption DEF Urls, UrlOK
  <2> QED BY <1>1, <2>1, <2>2 DEF ServerFields, ServerFieldOK
<1>4. CASE EditLogin \/ EditScript
  <2>1. PICK k \in {"username", "password", "identity", "script_up", "script_down"} :
          \E t : forms' = [forms EXCEPT !.server[k] = t]
    BY <1>4 DEF EditLogin, EditScript, Unchecked
  <2>2. PICK t : forms' = [forms EXCEPT !.server[k] = t]
    BY <2>1
  <2> QED BY <1>1, <2>2 DEF ServerFields, ServerFieldOK
<1>5. CASE EditCheckBox
  <2>1. PICK k \in checks : forms' = [forms EXCEPT !.server[k] = ~@]
    BY <1>5 DEF EditCheckBox, Unchecked
  <2>2. forms' = [forms EXCEPT !.server[k] = ~v[k]]
    BY <2>1
  <2>3. (~v[k]) \in BOOLEAN
    OBVIOUS
  <2> QED BY <1>1, <2>2, <2>3 DEF ServerFields, ServerFieldOK
<1>6. CASE EditSpinBox
  <2>1. \/ \E n \in 0 .. MaxSpin : forms' = [forms EXCEPT !.server["metadata_port"] = n]
        \/ \E n \in -1 .. MaxSpin : forms' = [forms EXCEPT !.server["maxconns"] = n]
    BY <1>6 DEF EditSpinBox, Unchecked
  <2>2. PICK k \in {"metadata_port", "maxconns"} :
          \E n : ServerFieldOK(k, n) /\ forms' = [forms EXCEPT !.server[k] = n]
    BY <2>1 DEF ServerFieldOK
  <2>3. PICK n : ServerFieldOK(k, n) /\ forms' = [forms EXCEPT !.server[k] = n]
    BY <2>2
  <2> QED BY <1>1, <2>3 DEF ServerFields
<1> QED BY <1>2, <1>3, <1>4, <1>5, <1>6

(* The form of the audio source.                                           *)
LEMMA SourceEdits ==
  ASSUME FormsOK(forms), EditSourceType \/ EditSourceText \/ EditSource
  PROVE  FormsOK(forms')
<1> DEFINE u == forms.source
<1>0. SourceOK(u)
  BY DEF FormsOK
<1>1. CASE EditSourceType
  <2>1. PICK t \in ToSet(SourceBox) : forms' = [forms EXCEPT !.source.type = t]
    BY <1>1 DEF EditSourceType, Unchecked
  <2> DEFINE w == [u EXCEPT !["type"] = t]
  <2>2. In(t, SourceBox)
    BY DEF In, ToSet
  <2>3. SourceOK(w)
    BY <1>0, <2>2, SourceChanged DEF SourceFields
  <2>4. forms' = [forms EXCEPT !.source = w]
    BY <2>1
  <2> HIDE DEF w
  <2> QED BY <2>3, <2>4, DialogChanged
<1>2. CASE EditSourceText \/ EditSource
  <2>0. PICK k \in {"alsa_device", "file_name", "client_name", "gain"} :
          \E x : /\ k = "gain" => x \in -100 .. 100
                /\ forms' = [forms EXCEPT !.source[k] = x]
    <3>1. CASE EditSourceText
      BY <3>1 DEF EditSourceText, Validated
    <3>2. CASE EditSource
      BY <3>2 DEF EditSource, Unchecked
    <3> QED BY <1>2, <3>1, <3>2
  <2>1. PICK x : /\ k = "gain" => x \in -100 .. 100
                 /\ forms' = [forms EXCEPT !.source[k] = x]
    BY <2>0
  <2> DEFINE w == [u EXCEPT ![k] = x]
  <2>2. SourceOK(w)
    BY <1>0, <2>1, SourceChanged DEF SourceFields
  <2>3. forms' = [forms EXCEPT !.source = w]
    BY <2>1
  <2> HIDE DEF w
  <2> QED BY <2>2, <2>3, DialogChanged
<1> QED BY <1>1, <1>2

(* The form of the stream: texts and an offset.                            *)
LEMMA StreamEdits ==
  ASSUME FormsOK(forms), EditStream
  PROVE  FormsOK(forms')
<1> DEFINE m == forms.stream
<1>0. StreamOK(m)
  BY DEF FormsOK
<1>1. \/ \E k, x : forms' = [forms EXCEPT !.stream.texts[k] = x]
      \/ \E x \in -300 .. 300 : forms' = [forms EXCEPT !.stream.offset = x]
  BY DEF EditStream, Unchecked
<1>2. ASSUME NEW k, NEW x, forms' = [forms EXCEPT !.stream.texts[k] = x]
      PROVE  FormsOK(forms')
  <2> DEFINE w == [m EXCEPT !.texts[k] = x]
  <2>1. StreamOK(w)
    BY <1>0, StreamChanged
  <2>2. forms' = [forms EXCEPT !.stream = w]
    BY <1>2
  <2> HIDE DEF w
  <2> QED BY <2>1, <2>2, DialogChanged
<1>3. ASSUME NEW x \in -300 .. 300, forms' = [forms EXCEPT !.stream.offset = x]
      PROVE  FormsOK(forms')
  <2> DEFINE w == [m EXCEPT !.offset = x]
  <2>1. StreamOK(w)
    BY <1>0, StreamChanged
  <2>2. forms' = [forms EXCEPT !.stream = w]
    BY <1>3
  <2> HIDE DEF w
  <2> QED BY <2>1, <2>2, DialogChanged
<1> QED BY <1>1, <1>2, <1>3

-----------------------------------------------------------------------------
(***************************************************************************)
(* The forms of an open window and those last saved are forms; the file    *)
(* has what was last saved.                                                *)
(***************************************************************************)
FormsInv ==
  /\ forms # None => FormsOK(forms)
  /\ saved # None => FormsOK(saved) /\ file = Save(saved)
  /\ FileOK(file)

SessionIInv == FormsInv /\ LoadReturnsWhatWasSaved

Edits ==
  \/ EditCodecType \/ EditSamplerate \/ EditChannels \/ EditBitrate
  \/ EditServerType \/ EditLocation \/ EditLogin \/ EditScript
  \/ EditCheckBox \/ EditSpinBox
  \/ EditSourceType \/ EditSourceText \/ EditSource \/ EditStream

(* No edit touches the file, and every box still shows one of its items.   *)
LEMMA EditsKeep ==
  ASSUME SessionIInv, Edits
  PROVE  SessionIInv'
<1>1. forms # None /\ fresh' = FALSE /\ UNCHANGED <<file, saved>>
  <2>0. (EditCodecType => Edit(TRUE)) /\ (EditSamplerate => Edit(TRUE))
    <3>1. EditCodecType => Edit(TRUE)
      BY DEF EditCodecType
    <3>2. EditSamplerate => Edit(TRUE)
      BY DEF EditSamplerate
    <3> QED BY <3>1, <3>2
  <2>1. EditChannels \/ EditBitrate => Edit(TRUE)
    BY DEF EditChannels, EditBitrate
  <2>2. EditServerType \/ EditLocation \/ EditLogin => Edit(FALSE)
    BY DEF EditServerType, EditLocation, EditLogin
  <2>3. EditScript \/ EditCheckBox \/ EditSpinBox => Edit(FALSE)
    BY DEF EditScript, EditCheckBox, EditSpinBox
  <2>4. EditSourceType \/ EditSourceText \/ EditSource \/ EditStream => Edit(TRUE)
    BY DEF EditSourceType, EditSourceText, EditSource, EditStream
  <2>5. Edit(TRUE) \/ Edit(FALSE)
    BY <2>0, <2>1, <2>2, <2>3, <2>4 DEF Edits
  <2> QED BY <2>5 DEF Edit
<1>2. FormsOK(forms)
  BY <1>1 DEF SessionIInv, FormsInv
<1>3. FormsOK(forms')
  BY <1>2, CodecEdits, ServerEdits, SourceEdits, StreamEdits DEF Edits
<1> QED BY <1>1, <1>3 DEF SessionIInv, FormsInv, LoadReturnsWhatWasSaved

\* The location of a saved form is a URL.
LEMMA SavedFileOK ==
  ASSUME NEW f, FormsOK(f)
  PROVE  FileOK(Save(f))
<1>1. "ServerLocation" \in DOMAIN ServerSave(f.server)
      /\ ServerSave(f.server)["ServerLocation"] = f.server.location
  BY DEF ServerSave
<1>2. Save(f)["ServerLocation"] = f.server.location
  BY <1>1, FileHasAll
<1>3. UrlOK(f.server.location)
  BY DEF FormsOK, ServerOK
<1> QED BY <1>2, <1>3 DEF FileOK

(* Closing saves, opening loads, and losing the window saves nothing.      *)
LEMMA SessionStepInv == SessionIInv /\ [SettingsNext]_settingsVars => SessionIInv'
<1> SUFFICES ASSUME SessionIInv, [SettingsNext]_settingsVars PROVE SessionIInv'
  OBVIOUS
<1> USE DEF SessionIInv, FormsInv, LoadReturnsWhatWasSaved
<1>1. CASE Edits
  BY <1>1, EditsKeep
<1>2. CASE CloseWindow
  <2>1. /\ forms # None /\ file' = Save(forms) /\ saved' = forms /\ forms' = None
        /\ fresh' = FALSE
    BY <1>2 DEF CloseWindow
  <2>2. FileOK(file')
    BY <2>1, SavedFileOK
  <2> QED BY <2>1, <2>2
<1>3. CASE LoseWindow
  BY <1>3 DEF LoseWindow
<1>4. CASE OpenWindow
  <2>1. forms' = Load(NewForms, file) /\ UNCHANGED <<file, saved>>
    BY <1>4 DEF OpenWindow
  <2>2. FormsOK(forms')
    BY <2>1, NewFormsOK, LoadedOK
  <2>3. saved # None => forms' = TrimAll(saved)
    BY <2>1, NewFormsOK, FormsReturn
  <2> QED BY <2>1, <2>2, <2>3
<1>5. CASE UNCHANGED <<forms, file, saved>> /\ (fresh' => fresh)
  BY <1>5
<1>6. CASE StartEncoding \/ StopEncoding \/ StartByHand
  <2>1. UNCHANGED <<forms, file, saved>> /\ (fresh' => fresh)
    BY <1>6 DEF StartEncoding, StopEncoding, StartByHand, Launch
  <2> QED BY <1>5, <2>1
<1>7. CASE UNCHANGED settingsVars
  BY <1>5, <1>7 DEF settingsVars
<1> QED BY <1>1, <1>2, <1>3, <1>4, <1>6, <1>7 DEF SettingsNext, Edits

\* A session begins with the forms of its settings file.
LEMMA SessionInitInv == SettingsInit => SessionIInv
<1> SUFFICES ASSUME SettingsInit PROVE SessionIInv
  OBVIOUS
<1>1. forms = Load(NewForms, file) /\ saved = None
  BY DEF SettingsInit
<1>2. FileOK(file)
  BY OldFilesAssumption DEF SettingsInit, FileOK, UrlOK, Urls
<1>3. FormsOK(forms)
  BY <1>1, <1>2, NewFormsOK, LoadedOK
<1> QED BY <1>1, <1>2, <1>3 DEF SessionIInv, FormsInv, LoadReturnsWhatWasSaved

(***************************************************************************)
(* A window that opens shows what the last window that closed had shown.   *)
(***************************************************************************)
THEOREM NothingIsForgotten == SettingsSpec => []LoadReturnsWhatWasSaved
<1>1. SessionIInv => LoadReturnsWhatWasSaved
  BY DEF SessionIInv
<1> QED BY <1>1, SessionInitInv, SessionStepInv, PTL DEF SettingsSpec

-----------------------------------------------------------------------------
(***************************************************************************)
(* The command line of glasscoder.  An option sets fields of the settings, *)
(* is left to the audio device, or ends the program; no two options set    *)
(* the same field.  So what a command line leaves is decided by the set of *)
(* its arguments, when none of them is given twice with different values.  *)
(***************************************************************************)

\* The option that sets a field.
KeyOf ==
  [audio_atomic_frames |-> "--audio-atomic-frames", audio_bitrate |-> "--audio-bitrate",
   audio_channels |-> "--audio-channels", audio_device |-> "--audio-device",
   audio_format |-> "--audio-format", audio_quality |-> "--audio-quality",
   audio_samplerate |-> "--audio-samplerate",
   credentials_file |-> "--credentials-file", delete_credentials |-> "--delete-credentials",
   ssh_identity |-> "--ssh-identity", dump_headers |-> "--dump-headers",
   log_string |-> "--errors-string", log_to |-> "--errors-to",
   list_codecs |-> "--list-codecs", list_devices |-> "--list-devices",
   metadata_port |-> "--metadata-port", meter_data |-> "--meter-data",
   server_username |-> "--server-auth", server_password |-> "--server-auth",
   server_exit_on_last |-> "--server-exit-on-last",
   server_max_connections |-> "--server-max-connections",
   server_preclean_publish_point |-> "--server-preclean-publish-point",
   server_url |-> "--server-url", server_base_url |-> "--server-url",
   server_user_agent |-> "--server-user-agent",
   server_script_down |-> "--server-script-down", server_script_up |-> "--server-script-up",
   server_start_connections |-> "--server-start-connections",
   server_type |-> "--server-type", server_pipe |-> "--server-pipe",
   server_no_deletes |-> "--server-no-deletes",
   stream_description |-> "--stream-description", stream_genre |-> "--stream-genre",
   stream_name |-> "--stream-name", stream_url |-> "--stream-url",
   stream_irc |-> "--stream-irc", stream_icq |-> "--stream-icq",
   stream_aim |-> "--stream-aim",
   stream_timestamp_offset |-> "--stream-timestamp-offset", show_verbose |-> "--verbose"]

\* A line of the table of options: what it says of a key.
Entry(key, o) ==
  \/ o.kind = "unknown"
  \/ /\ o.kind \in {"flag", "text", "checked", "offered"}
     /\ o.field \in DOMAIN KeyOf /\ KeyOf[o.field] = key
     /\ o.field \notin {"server_username", "server_password", "server_url", "server_base_url"}
  \/ o.kind = "auth" /\ key = "--server-auth"
  \/ o.kind = "url" /\ key = "--server-url"

\* The fields of the settings
LEMMA SettingsFields ==
  /\ DOMAIN KeyOf \subseteq DOMAIN Defaults
  /\ {"exited", "device_options"} \subseteq DOMAIN Defaults
  /\ {"exited", "device_options"} \cap DOMAIN KeyOf = {}
  /\ Defaults.exited = FALSE /\ Defaults.device_options = << >>
  /\ Defaults = [f \in DOMAIN Defaults |-> Defaults[f]]
  BY DEF KeyOf, Defaults

\* The table, from its last lines to its first
LEMMA StreamEntries ==
  ASSUME NEW key
  PROVE  Entry(key, StreamOption(key))
  BY DEF StreamOption, Entry, KeyOf, Flag, Text, Checked, Offered, Unknown

\* ... then the options of the server, ...
LEMMA ServerEntries ==
  ASSUME NEW key
  PROVE  Entry(key, ServerOption(key))
<1> DEFINE rest == StreamOption(key)
<1>1. Entry(key, rest)
  BY StreamEntries
<1> HIDE DEF rest
<1> QED BY <1>1 DEF ServerOption, Entry, KeyOf, Flag, Text, Checked, Offered, Unknown, rest

\* ... those of the program, ...
LEMMA GeneralEntries ==
  ASSUME NEW key
  PROVE  Entry(key, GeneralOption(key))
<1> DEFINE rest == ServerOption(key)
<1>1. Entry(key, rest)
  BY ServerEntries
<1> HIDE DEF rest
<1> QED BY <1>1 DEF GeneralOption, Entry, KeyOf, Flag, Text, Checked, Offered, Unknown, rest

\* ... and those of the audio: every option is such a line.
LEMMA Entries ==
  ASSUME NEW key
  PROVE  Entry(key, Option(key))
<1> DEFINE rest == GeneralOption(key)
<1>1. Entry(key, rest)
  BY GeneralEntries
<1> HIDE DEF rest
<1> QED BY <1>1 DEF Option, Entry, KeyOf, Flag, Text, Checked, Offered, Unknown, rest

(* What one argument does.                                                 *)
\* It sets a field, ...
Sets(a, f) ==
  LET o == Option(a.key) IN
  \/ o.kind \in {"flag", "text", "checked"} /\ f = o.field
  \/ o.kind = "offered" /\ f = o.field /\ a.value \in o.valid
  \/ o.kind = "auth" /\ \/ f = "server_username"
                        \/ f = "server_password" /\ Len(a.value) = 2
  \/ o.kind = "url" /\ f \in {"server_url", "server_base_url"}

\* ... to this, ...
SetTo(a, f) ==
  IF Option(a.key).kind = "flag" THEN TRUE
  ELSE
  CASE f = "server_username" -> a.value[1]
    [] f = "server_password" -> a.value[2]
    [] f = "server_url" -> [a.value EXCEPT !.port = IF @ < 0 THEN DefaultPort[a.value.scheme]
                                                    ELSE @]
    [] f = "server_base_url" -> Front(a.value.path)
    [] OTHER -> a.value

\* ... is left to the audio device, ...
ForDev(a) ==
  LET o == Option(a.key) IN
  o.kind = "unknown" \/ (o.kind = "offered" /\ a.value \notin o.valid)

\* ... or ends the program.
Bad(a) ==
  LET o == Option(a.key) IN
  \/ o.kind = "checked" /\ a.value \notin o.valid
  \/ o.kind = "url" /\ a.value.port < 0 /\ a.value.scheme \notin DOMAIN DefaultPort

\* A field is set by one option only.
LEMMA OneOption ==
  ASSUME NEW a, NEW f, Sets(a, f)
  PROVE  f \in DOMAIN KeyOf /\ a.key = KeyOf[f]
<1> DEFINE o == Option(a.key)
<1>1. Entry(a.key, o)
  BY Entries
<1>2. /\ {"server_username", "server_password", "server_url", "server_base_url"}
           \subseteq DOMAIN KeyOf
      /\ KeyOf["server_username"] = "--server-auth"
      /\ KeyOf["server_password"] = "--server-auth"
      /\ KeyOf["server_url"] = "--server-url" /\ KeyOf["server_base_url"] = "--server-url"
  BY DEF KeyOf
<1>3. \/ o.kind \in {"flag", "text", "checked", "offered"} /\ f = o.field
      \/ o.kind = "auth" /\ f \in {"server_username", "server_password"}
      \/ o.kind = "url" /\ f \in {"server_url", "server_base_url"}
  BY DEF Sets
<1> HIDE DEF o
<1> QED BY <1>1, <1>2, <1>3 DEF Entry

\* The settings that are read so far
Read0(s) == s = [f \in DOMAIN Defaults |-> s[f]]

(* One option                                                              *)
LEMMA OptionRead ==
  ASSUME NEW s, Read0(s), NEW a, s.exited = FALSE
  PROVE  LET t == ReadOption(s, a) IN
         /\ Read0(t)
         /\ t.exited \in BOOLEAN /\ (t.exited <=> Bad(a))
         /\ ~Bad(a) => /\ \A f \in DOMAIN KeyOf : t[f] = IF Sets(a, f) THEN SetTo(a, f) ELSE s[f]
                       /\ t.device_options = IF ForDev(a) THEN Append(s.device_options, a)
                                             ELSE s.device_options
<1> DEFINE o == Option(a.key)
           t == ReadOption(s, a)
<1>1. Entry(a.key, o)
  BY Entries
<1>2. t = CASE o.kind = "unknown" -> ToDevice(s, a)
         [] o.kind = "flag"    -> [s EXCEPT ![o.field] = TRUE]
         [] o.kind = "text"    -> [s EXCEPT ![o.field] = a.value]
         [] o.kind = "checked" -> IF a.value \in o.valid THEN [s EXCEPT ![o.field] = a.value]
                                  ELSE [s EXCEPT !.exited = TRUE]
         [] o.kind = "offered" -> IF a.value \in o.valid THEN [s EXCEPT ![o.field] = a.value]
                                  ELSE ToDevice(s, a)
         [] o.kind = "auth"    -> ServerAuth(s, a.value)
         [] o.kind = "url"     -> ServerUrl(s, a.value)
  BY DEF ReadOption
<1> DEFINE Goal(u) ==
         /\ Read0(u)
         /\ u.exited \in BOOLEAN /\ (u.exited <=> Bad(a))
         /\ ~Bad(a) => /\ \A f \in DOMAIN KeyOf : u[f] = IF Sets(a, f) THEN SetTo(a, f) ELSE s[f]
                       /\ u.device_options = IF ForDev(a) THEN Append(s.device_options, a)
                                             ELSE s.device_options
           D == DOMAIN Defaults
<1>3. /\ DOMAIN s = D /\ "exited" \in D /\ "device_options" \in D /\ DOMAIN KeyOf \subseteq D
      /\ "exited" \notin DOMAIN KeyOf /\ "device_options" \notin DOMAIN KeyOf
  BY SettingsFields DEF Read0
\* a field is set
<1>4. ASSUME NEW k \in DOMAIN KeyOf, NEW x, ~Bad(a), ~ForDev(a), SetTo(a, k) = x,
             \A f \in DOMAIN KeyOf : Sets(a, f) <=> f = k
      PROVE  Goal([s EXCEPT ![k] = x])
  <2> DEFINE u == [s EXCEPT ![k] = x]
  <2>1. DOMAIN u = D /\ u = [f \in D |-> u[f]] /\ \A f \in D : u[f] = IF f = k THEN x ELSE s[f]
    BY <1>3 DEF Read0
  <2> HIDE DEF u, D
  <2>2. Read0(u)
    BY <2>1 DEF Read0, D
  <2>3. u.exited = FALSE /\ u.device_options = s.device_options
    BY <1>3, <2>1
  <2>4. \A f \in DOMAIN KeyOf : u[f] = IF Sets(a, f) THEN SetTo(a, f) ELSE s[f]
    BY <1>3, <1>4, <2>1
  <2>5. Goal(u)
    BY <1>4, <2>2, <2>3, <2>4
  <2> QED BY <2>5 DEF u
\* the program ends
<1>5. ASSUME Bad(a)
      PROVE  Goal([s EXCEPT !.exited = TRUE])
  BY <1>3, <1>5 DEF Read0
\* the option is left to the device
<1>6. ASSUME ForDev(a), ~Bad(a), \A f \in DOMAIN KeyOf : ~Sets(a, f)
      PROVE  Goal(ToDevice(s, a))
  <2> DEFINE x == Append(s.device_options, a)
             u == [s EXCEPT !.device_options = x]
  <2>1. DOMAIN u = D /\ u = [f \in D |-> u[f]]
        /\ \A f \in D : u[f] = IF f = "device_options" THEN x ELSE s[f]
    BY <1>3 DEF Read0
  <2>2. ToDevice(s, a) = u
    BY DEF ToDevice
  <2> HIDE DEF u, x, D
  <2>3. Read0(u)
    BY <2>1 DEF Read0, D
  <2>4. u.exited = FALSE /\ u.device_options = x
    BY <1>3, <2>1
  <2>5. \A f \in DOMAIN KeyOf : u[f] = s[f]
    BY <1>3, <2>1
  <2>6. Goal(u)
    BY <1>6, <2>3, <2>4, <2>5 DEF x
  <2> QED BY <2>2, <2>6
<1> HIDE DEF Goal, t
<1>7. CASE o.kind = "unknown"
  <2>1. t = ToDevice(s, a)
    BY <1>2, <1>7
  <2>2. ForDev(a) /\ ~Bad(a) /\ \A f \in DOMAIN KeyOf : ~Sets(a, f)
    BY <1>7 DEF ForDev, Bad, Sets
  <2> QED BY <1>6, <2>1, <2>2 DEF Goal, t
<1>8. CASE o.kind \in {"flag", "text", "checked", "offered"}
  <2> DEFINE k == o.field
  <2>1. k \in DOMAIN KeyOf
        /\ k \notin {"server_username", "server_password", "server_url", "server_base_url"}
    BY <1>1, <1>8 DEF Entry
  <2>2. CASE o.kind = "flag"
    <3>1. t = [s EXCEPT ![k] = TRUE]
      BY <1>2, <2>2
    <3>2. ~Bad(a) /\ ~ForDev(a) /\ \A f \in DOMAIN KeyOf : Sets(a, f) <=> f = k
      BY <2>2 DEF Bad, ForDev, Sets
    <3>3. SetTo(a, k) = TRUE
      BY <2>2, Zenon DEF SetTo
    <3> HIDE DEF k
    <3>4. Goal([s EXCEPT ![k] = TRUE])
      BY <1>4, <2>1, <3>2, <3>3
    <3> QED BY <3>1, <3>4 DEF Goal, t
  <2>3. CASE o.kind \in {"text", "checked", "offered"} /\ ~Bad(a) /\ ~ForDev(a)
    <3>1. t = [s EXCEPT ![k] = a.value]
      BY <1>2, <2>3 DEF Bad, ForDev
    <3>2. SetTo(a, k) = a.value
      BY <2>1, <2>3 DEF SetTo
    <3>3. \A f \in DOMAIN KeyOf : Sets(a, f) <=> f = k
      BY <2>3 DEF Sets, ForDev
    <3> HIDE DEF k
    <3>4. Goal([s EXCEPT ![k] = a.value])
      BY <1>4, <2>1, <2>3, <3>2, <3>3
    <3> QED BY <3>1, <3>4 DEF Goal, t
  <2>4. CASE Bad(a)
    <3>1. t = [s EXCEPT !.exited = TRUE]
      BY <1>2, <1>8, <2>4 DEF Bad
    <3> QED BY <1>5, <2>4, <3>1 DEF Goal, t
  <2>5. CASE ForDev(a)
    <3>1. o.kind = "offered" /\ a.value \notin o.valid
      BY <1>8, <2>5 DEF ForDev
    <3>2. t = ToDevice(s, a)
      BY <1>2, <3>1
    <3>3. ~Bad(a) /\ \A f \in DOMAIN KeyOf : ~Sets(a, f)
      BY <3>1 DEF Bad, Sets
    <3> QED BY <1>6, <2>5, <3>2, <3>3 DEF Goal, t
  <2> QED BY <1>8, <2>2, <2>3, <2>4, <2>5
\* two fields are set
<1>9. ASSUME NEW j \in DOMAIN KeyOf, NEW k \in DOMAIN KeyOf, j # k, ~Bad(a), ~ForDev(a),
             \A f \in DOMAIN KeyOf : Sets(a, f) <=> f \in {j, k}
      PROVE  Goal([s EXCEPT ![j] = SetTo(a, j), ![k] = SetTo(a, k)])
  <2> DEFINE x == SetTo(a, j)
             y == SetTo(a, k)
             v == [s EXCEPT ![j] = x]
             u == [v EXCEPT ![k] = y]
  <2>1. DOMAIN v = D /\ \A f \in D : v[f] = IF f = j THEN x ELSE s[f]
    BY <1>3 DEF Read0
  <2>0. u = [s EXCEPT ![j] = SetTo(a, j), ![k] = SetTo(a, k)]
    BY Zenon
  <2>2. DOMAIN u = D /\ u = [f \in D |-> u[f]]
        /\ \A f \in D : u[f] = IF f = k THEN y ELSE v[f]
    <3> HIDE DEF v, y
    <3>1. u = [f \in DOMAIN v |-> IF f = k THEN y ELSE v[f]]
      OBVIOUS
    <3> HIDE DEF u
    <3> QED BY <2>1, <3>1
  <2> HIDE DEF u, v, D
  <2>3. Read0(u)
    BY <2>2 DEF Read0, D
  <2>4. u.exited = FALSE /\ u.device_options = s.device_options
    BY <1>3, <1>9, <2>1, <2>2
  <2>5. \A f \in DOMAIN KeyOf : u[f] = IF Sets(a, f) THEN SetTo(a, f) ELSE s[f]
    BY <1>3, <1>9, <2>1, <2>2
  <2>6. Goal(u)
    BY <1>9, <2>3, <2>4, <2>5 DEF Goal
  <2> QED BY <2>0, <2>6
<1>10. {"server_username", "server_password", "server_url", "server_base_url"}
          \subseteq DOMAIN KeyOf
  BY DEF KeyOf
<1>11. CASE o.kind = "auth"
  <2>1. t = ServerAuth(s, a.value) /\ ~Bad(a) /\ ~ForDev(a)
    BY <1>2, <1>11 DEF Bad, ForDev
  <2>2. CASE Len(a.value) = 2
    <3>1. t = [s EXCEPT !["server_username"] = SetTo(a, "server_username"),
                        !["server_password"] = SetTo(a, "server_password")]
      BY <1>11, <2>1, <2>2 DEF ServerAuth, SetTo
    <3>2. \A f \in DOMAIN KeyOf : Sets(a, f) <=> f \in {"server_username", "server_password"}
      BY <1>11, <2>2 DEF Sets
    <3>3. Goal([s EXCEPT !["server_username"] = SetTo(a, "server_username"),
                         !["server_password"] = SetTo(a, "server_password")])
      BY <1>9, <1>10, <2>1, <3>2
    <3> QED BY <3>1, <3>3 DEF Goal, t
  <2>3. CASE Len(a.value) # 2
    <3>1. t = [s EXCEPT !["server_username"] = SetTo(a, "server_username")]
      BY <1>11, <2>1, <2>3 DEF ServerAuth, SetTo
    <3>2. \A f \in DOMAIN KeyOf : Sets(a, f) <=> f = "server_username"
      BY <1>11, <2>3 DEF Sets
    <3>3. Goal([s EXCEPT !["server_username"] = SetTo(a, "server_username")])
      BY <1>4, <1>10, <2>1, <3>2
    <3> QED BY <3>1, <3>3 DEF Goal, t
  <2> QED BY <2>2, <2>3
<1>12. CASE o.kind = "url"
  <2>1. t = ServerUrl(s, a.value) /\ ~ForDev(a)
    BY <1>2, <1>12 DEF ForDev
  <2>2. CASE Bad(a)
    <3>1. t = [s EXCEPT !.exited = TRUE]
      BY <1>12, <2>1, <2>2 DEF ServerUrl, Bad
    <3> QED BY <1>5, <2>2, <3>1 DEF Goal, t
  <2>3. CASE ~Bad(a)
    <3>1. t = [s EXCEPT !["server_url"] = SetTo(a, "server_url"),
                        !["server_base_url"] = SetTo(a, "server_base_url")]
      <4>1. SetTo(a, "server_url") = [a.value EXCEPT !.port = IF @ < 0 THEN DefaultPort[a.value.scheme]
                                                    ELSE @]
            /\ SetTo(a, "server_base_url") = Front(a.value.path)
        BY <1>12 DEF SetTo
      <4>2. ~(a.value.port < 0 /\ a.value.scheme \notin DOMAIN DefaultPort)
        BY <1>12, <2>3 DEF Bad
      <4> QED BY <2>1, <4>1, <4>2, Zenon DEF ServerUrl
    <3>2. \A f \in DOMAIN KeyOf : Sets(a, f) <=> f \in {"server_url", "server_base_url"}
      BY <1>12 DEF Sets
    <3>3. Goal([s EXCEPT !["server_url"] = SetTo(a, "server_url"),
                         !["server_base_url"] = SetTo(a, "server_base_url")])
      BY <1>9, <1>10, <2>1, <2>3, <3>2
    <3> QED BY <3>1, <3>3 DEF Goal, t
  <2> QED BY <2>2, <2>3
<1> QED BY <1>1, <1>7, <1>8, <1>11, <1>12 DEF Entry, Goal, t

\* A command line
Line(args) == args \in Seq(ToSet(args))

\* The settings s are what the first m arguments leave.
Left(s, args, m) ==
  /\ Read0(s) /\ s.exited \in BOOLEAN
  /\ s.exited <=> \E i \in 1 .. m : Bad(args[i])
  /\ ~s.exited =>
       /\ \A f \in DOMAIN KeyOf :
            \/ \E i \in 1 .. m : Sets(args[i], f) /\ s[f] = SetTo(args[i], f)
            \/ (\A i \in 1 .. m : ~Sets(args[i], f)) /\ s[f] = Defaults[f]
       /\ s.device_options \in Seq(ToSet(args))
       /\ ToSet(s.device_options) = {args[i] : i \in {j \in 1 .. m : ForDev(args[j])}}

\* An option more
LEMMA OneMoreOption ==
  ASSUME NEW args, Line(args), NEW m \in 1 .. Len(args), NEW s, Left(s, args, m - 1)
  PROVE  Left(ReadOption(s, args[m]), args, m)
<1> DEFINE a == args[m]
           t == ReadOption(s, a)
<1>1. /\ m \in Nat /\ m >= 1 /\ m - 1 \in Nat /\ m \in 1 .. m
      /\ \A i : i \in 1 .. m <=> i \in 1 .. (m - 1) \/ i = m
  BY DEF Line
<1>2. a \in ToSet(args)
  BY DEF Line, ToSet
<1>3. CASE s.exited
  <2>1. t = s
    BY <1>3 DEF ReadOption
  <2> HIDE DEF t
  <2> QED BY <1>1, <1>3, <2>1 DEF Left, t
<1>4. CASE ~s.exited
  <2>0. s.exited = FALSE /\ Read0(s)
    BY <1>4 DEF Left
  <2>1. /\ Read0(t)
        /\ t.exited \in BOOLEAN /\ (t.exited <=> Bad(a))
        /\ ~Bad(a) => /\ \A f \in DOMAIN KeyOf : t[f] = IF Sets(a, f) THEN SetTo(a, f) ELSE s[f]
                      /\ t.device_options = IF ForDev(a) THEN Append(s.device_options, a)
                                            ELSE s.device_options
    BY <2>0, OptionRead
  <2> HIDE DEF t
  <2>2. t.exited <=> \E i \in 1 .. m : Bad(args[i])
    BY <1>1, <1>4, <2>1 DEF Left
  <2>3. ASSUME ~t.exited, NEW f \in DOMAIN KeyOf
        PROVE  \/ \E i \in 1 .. m : Sets(args[i], f) /\ t[f] = SetTo(args[i], f)
               \/ (\A i \in 1 .. m : ~Sets(args[i], f)) /\ t[f] = Defaults[f]
    <3>1. t[f] = IF Sets(a, f) THEN SetTo(a, f) ELSE s[f]
      BY <2>1, <2>3
    <3>2. \/ \E i \in 1 .. (m - 1) : Sets(args[i], f) /\ s[f] = SetTo(args[i], f)
          \/ (\A i \in 1 .. (m - 1) : ~Sets(args[i], f)) /\ s[f] = Defaults[f]
      BY <1>4 DEF Left
    <3> QED BY <1>1, <3>1, <3>2
  <2>4. ASSUME ~t.exited
        PROVE  /\ t.device_options \in Seq(ToSet(args))
               /\ ToSet(t.device_options) = {args[i] : i \in {j \in 1 .. m : ForDev(args[j])}}
    <3>1. /\ s.device_options \in Seq(ToSet(args))
          /\ ToSet(s.device_options) = {args[i] : i \in {j \in 1 .. (m - 1) : ForDev(args[j])}}
      BY <1>4 DEF Left
    <3>2. CASE ~ForDev(a)
      <4>1. t.device_options = s.device_options
        BY <2>1, <2>4, <3>2
      <4> QED BY <1>1, <3>1, <3>2, <4>1
    <3>3. CASE ForDev(a)
      <4>1. t.device_options = Append(s.device_options, a)
        BY <2>1, <2>4, <3>3
      <4>2. t.device_options \in Seq(ToSet(args))
        BY <1>2, <3>1, <4>1
      <4>3. ToSet(t.device_options) = ToSet(s.device_options) \cup {a}
        <5> DEFINE d == s.device_options
                   e == t.device_options
                   S == ToSet(args)
        <5>1. d \in Seq(S) /\ e = Append(d, a) /\ a \in S
          BY <1>2, <3>1, <4>1
        <5> HIDE DEF d, e, S, a
        <5>2. /\ Len(d) \in Nat /\ DOMAIN d = 1 .. Len(d) /\ DOMAIN e = 1 .. (Len(d) + 1)
              /\ \A i \in 1 .. Len(d) : e[i] = d[i]
              /\ e[Len(d) + 1] = a
          BY <5>1
        <5>3. ToSet(e) = ToSet(d) \cup {a}
          BY <5>2 DEF ToSet
        <5> QED BY <5>3 DEF d, e
      <4> QED BY <1>1, <3>1, <3>3, <4>2, <4>3
    <3> QED BY <3>2, <3>3
  <2> QED BY <2>1, <2>2, <2>3, <2>4 DEF Left, t
<1> QED BY <1>3, <1>4

(* All the options                                                         *)
LEMMA OptionsRead ==
  ASSUME NEW args, Line(args)
  PROVE  Left(ReadOptions(args), args, Len(args))
<1> DEFINE n == Len(args)
           g == CHOOSE g : g = [i \in 0 .. n |-> IF i = 0 THEN Defaults
                                               ELSE ReadOption(g[i - 1], args[i])]
<1>1. n \in Nat
  BY DEF Line
<1> HIDE DEF n
<1>2. g = [i \in 0 .. n |-> IF i = 0 THEN Defaults ELSE ReadOption(g[i - 1], args[i])]
  <2>1. \E f : Takes("option", f, Defaults, args, n)
    BY <1>1, Readings
  <2>2. \E f : f = [i \in 0 .. n |-> IF i = 0 THEN Defaults ELSE ReadOption(f[i - 1], args[i])]
    BY <2>1 DEF Takes, Step
  <2> QED BY <2>2
<1>3. ReadOptions(args) = g[n]
  BY DEF ReadOptions, n
<1> HIDE DEF g
<1> DEFINE B == {i \in 0 .. n : ~Left(g[i], args, i)}
<1>4. SUFFICES ASSUME B # {}
               PROVE  FALSE
  BY <1>1, <1>3 DEF n
<1>5. PICK m \in B : \A k \in B : m <= k
  <2>1. B \in SUBSET Nat
    OBVIOUS
  <2> HIDE DEF B
  <2> QED BY <1>4, <2>1, LeastElement
<1>6. m \in 0 .. n /\ ~Left(g[m], args, m)
  OBVIOUS
<1>7. m # 0
  <2>1. g[0] = Defaults
    BY <1>1, <1>2
  <2>2. /\ Defaults.exited = FALSE /\ Defaults.device_options = << >>
        /\ Read0(Defaults)
    BY SettingsFields DEF Read0
  <2>3. Left(Defaults, args, 0)
    <3>1. << >> \in Seq(ToSet(args)) /\ ToSet(<< >>) = {} /\ \A i : i \notin 1 .. 0
      BY DEF ToSet
    <3> QED BY <2>2, <3>1 DEF Left
  <2> QED BY <1>6, <2>1, <2>3
<1>8. m - 1 \in 0 .. n /\ ~(m <= m - 1) /\ m \in 1 .. n
  BY <1>1, <1>6, <1>7
<1>9. Left(g[m - 1], args, m - 1)
  BY <1>5, <1>8
<1>10. g[m] = ReadOption(g[m - 1], args[m])
  BY <1>2, <1>6, <1>7
<1> QED BY <1>6, <1>8, <1>9, <1>10, OneMoreOption DEF n

(* As sets: what the arguments make of the settings                        *)
LEMMA SettingsOfArgs ==
  ASSUME NEW args, Line(args)
  PROVE  LET r == ReadOptions(args)
             A == ToSet(args) IN
         /\ Read0(r) /\ r.exited \in BOOLEAN
         /\ r.exited <=> \E a \in A : Bad(a)
         /\ ~r.exited =>
              /\ \A f \in DOMAIN KeyOf :
                   \/ \E a \in A : Sets(a, f) /\ r[f] = SetTo(a, f)
                   \/ (\A a \in A : ~Sets(a, f)) /\ r[f] = Defaults[f]
              /\ Line(r.device_options)
              /\ ToSet(r.device_options) = {a \in A : ForDev(a)}
<1> DEFINE r == ReadOptions(args)
           A == ToSet(args)
<1>1. Left(r, args, Len(args))
  BY OptionsRead
<1>2. A = {args[i] : i \in 1 .. Len(args)}
  BY DEF Line, ToSet
<1> HIDE DEF r, A
<1>3. r.exited <=> \E a \in A : Bad(a)
  BY <1>1, <1>2 DEF Left
<1>4. ASSUME ~r.exited, NEW f \in DOMAIN KeyOf
      PROVE  \/ \E a \in A : Sets(a, f) /\ r[f] = SetTo(a, f)
             \/ (\A a \in A : ~Sets(a, f)) /\ r[f] = Defaults[f]
  <2>1. \/ \E i \in 1 .. Len(args) : Sets(args[i], f) /\ r[f] = SetTo(args[i], f)
        \/ (\A i \in 1 .. Len(args) : ~Sets(args[i], f)) /\ r[f] = Defaults[f]
    BY <1>1, <1>4 DEF Left
  <2> QED BY <1>2, <2>1
<1>5. ASSUME ~r.exited
      PROVE  /\ Line(r.device_options)
             /\ ToSet(r.device_options) = {a \in A : ForDev(a)}
  <2> DEFINE d == r.device_options
  <2>1. d \in Seq(A) /\ ToSet(d) = {args[i] : i \in {j \in 1 .. Len(args) : ForDev(args[j])}}
    BY <1>1, <1>5 DEF Left, A
  <2> HIDE DEF d
  <2>2. ToSet(d) = {a \in A : ForDev(a)}
    BY <1>2, <2>1
  <2>3. Line(d)
    <3>1. Len(d) \in Nat /\ d = [i \in 1 .. Len(d) |-> d[i]]
      BY <2>1
    <3>2. \A i \in 1 .. Len(d) : d[i] \in ToSet(d)
      BY <3>1 DEF ToSet
    <3> DEFINE S == ToSet(d)
    <3> HIDE DEF S
    <3>3. d \in Seq(S)
      BY <3>1, <3>2 DEF S
    <3> QED BY <3>3 DEF S, Line
  <2> QED BY <2>2, <2>3 DEF d
<1> QED BY <1>1, <1>3, <1>4, <1>5 DEF Left, r, A

-----------------------------------------------------------------------------
(***************************************************************************)
(* The options of an audio device are read the same way, except that an     *)
(* option that it lacks is refused.                                         *)
(***************************************************************************)
DeviceKeyOf ==
  [alsa_device |-> "--alsa-device", file_name |-> "--file-name",
   jack_server_name |-> "--jack-server-name", jack_client_name |-> "--jack-client-name",
   jack_gain |-> "--jack-gain", adapter |-> "--asihpi-adapter-index",
   input |-> "--asihpi-input-index", gain |-> "--asihpi-input-gain",
   mode |-> "--asihpi-channel-mode", source |-> "--asihpi-input-source",
   type |-> "--asihpi-input-type"]

\* The fields of a device that its options set
DeviceFields(device) ==
  CASE device = "alsa" -> {"alsa_device"}
    [] device = "file" -> {"file_name"}
    [] device = "jack" -> {"jack_server_name", "jack_client_name", "jack_gain"}
    [] device = "asihpi" -> {"adapter", "input", "gain", "mode", "source", "type"}

DevSets(device, a, f) ==
  LET o == DeviceOption(device, a.key) IN o.kind # "unknown" /\ o.field = f

Refused(device, a) ==
  LET o == DeviceOption(device, a.key) IN
  o.kind = "unknown" \/ (o.kind = "checked" /\ a.value \notin o.valid)

\* The options and fields of the devices
LEMMA DeviceEntries ==
  ASSUME NEW device \in Devices, NEW key
  PROVE  LET o == DeviceOption(device, key) IN
         \/ o.kind = "unknown"
         \/ o.kind \in {"text", "checked"} /\ o.field \in DeviceFields(device)
            /\ DeviceKeyOf[o.field] = key
<1>1. device \in {"alsa", "asihpi", "file", "jack"}
  BY DEF Devices
<1> USE DEF DeviceOption, DeviceFields, DeviceKeyOf, Text, Checked, Unknown
<1>2. CASE device = "alsa"
  BY <1>2 DEF AlsaOption
<1>3. CASE device = "file"
  BY <1>3 DEF FileOption
<1>4. CASE device = "jack"
  BY <1>4 DEF JackOption
<1>5. CASE device = "asihpi"
  BY <1>5 DEF AsiHpiOption
<1> QED BY <1>1, <1>2, <1>3, <1>4, <1>5

\* What a device begins with: a value in each of its fields
LEMMA FieldsOfDevices ==
  ASSUME NEW device \in Devices
  PROVE  LET d == DeviceDefaults[device] IN
         /\ DOMAIN d = {"device"} \cup DeviceFields(device)
         /\ d = [f \in DOMAIN d |-> d[f]]
         /\ d.device = device /\ "device" \notin DeviceFields(device)
<1>1. device \in {"alsa", "asihpi", "file", "jack"}
  BY DEF Devices
<1> USE DEF DeviceFields, DeviceDefaults
<1>2. CASE device = "alsa"
  BY <1>2 DEF AlsaDefaults
<1>3. CASE device = "file"
  BY <1>3 DEF FileDefaults
<1>4. CASE device = "jack"
  BY <1>4 DEF JackDefaults
<1>5. CASE device = "asihpi"
  BY <1>5 DEF AsiHpiDefaults
<1> QED BY <1>1, <1>2, <1>3, <1>4, <1>5

\* The device d is what the first m options leave.
DeviceLeft(d, device, options, m) ==
  /\ d = NotStarted <=> \E i \in 1 .. m : Refused(device, options[i])
  /\ d # NotStarted =>
       /\ d = [f \in {"device"} \cup DeviceFields(device) |-> d[f]] /\ d.device = device
       /\ \A f \in DeviceFields(device) :
            \/ \E i \in 1 .. m : DevSets(device, options[i], f) /\ d[f] = options[i].value
            \/ (\A i \in 1 .. m : ~DevSets(device, options[i], f))
               /\ d[f] = DeviceDefaults[device][f]

\* A device is not the end of the program.
LEMMA DeviceIsStarted ==
  ASSUME NEW d, "device" \in DOMAIN d
  PROVE  d # NotStarted
<1>1. DOMAIN NotStarted = {"started"}
  BY DEF NotStarted
<1> QED BY <1>1

\* An option of a device more
LEMMA OneMoreDeviceOption ==
  ASSUME NEW device \in Devices, NEW options, Line(options), NEW m \in 1 .. Len(options),
         NEW d, DeviceLeft(d, device, options, m - 1)
  PROVE  DeviceLeft(ReadDeviceOption(d, options[m]), device, options, m)
<1> DEFINE a == options[m]
           t == ReadDeviceOption(d, a)
           o == DeviceOption(device, a.key)
<1>1. /\ m \in Nat /\ m >= 1 /\ m - 1 \in Nat /\ m \in 1 .. m
      /\ \A i : i \in 1 .. m <=> i \in 1 .. (m - 1) \/ i = m
  BY DEF Line
<1>2. CASE d = NotStarted
  <2>1. t = NotStarted
    BY <1>2 DEF ReadDeviceOption
  <2>2. \E i \in 1 .. (m - 1) : Refused(device, options[i])
    BY <1>2 DEF DeviceLeft
  <2> QED BY <1>1, <2>1, <2>2 DEF DeviceLeft
<1>3. CASE d # NotStarted
  <2>1. d.device = device /\ d = [f \in {"device"} \cup DeviceFields(device) |-> d[f]]
    BY <1>3 DEF DeviceLeft
  <2>2. \A i \in 1 .. (m - 1) : ~Refused(device, options[i])
    BY <1>3 DEF DeviceLeft
  <2>3. CASE Refused(device, a)
    <3>1. t = NotStarted
      BY <2>1, <2>3 DEF ReadDeviceOption, Refused
    <3> QED BY <1>1, <2>3, <3>1 DEF DeviceLeft
  <2>4. CASE ~Refused(device, a)
    <3>1. t = [d EXCEPT ![o.field] = a.value]
      BY <1>3, <2>1, <2>4 DEF ReadDeviceOption, Refused
    <3>2. o.kind # "unknown" /\ o.field \in DeviceFields(device)
      BY <2>4, DeviceEntries DEF Refused
    <3>3. "device" \notin DeviceFields(device)
      BY FieldsOfDevices
    <3> DEFINE k == o.field
               x == a.value
    <3>4. \A f : DevSets(device, a, f) <=> f = k
      BY <3>2 DEF DevSets
    <3> HIDE DEF o, k, x, t
    <3>5. t = [f \in {"device"} \cup DeviceFields(device) |-> IF f = k THEN x ELSE d[f]]
      BY <2>1, <3>1 DEF k, x
    <3>6. /\ t = [f \in {"device"} \cup DeviceFields(device) |-> t[f]] /\ t.device = device
          /\ \A f \in DeviceFields(device) : t[f] = IF f = k THEN x ELSE d[f]
      BY <2>1, <3>2, <3>3, <3>5 DEF k
    <3>7. t # NotStarted
      BY <3>6, DeviceIsStarted
    <3>8. ~\E i \in 1 .. m : Refused(device, options[i])
      BY <1>1, <2>2, <2>4
    <3>9. ASSUME NEW f \in DeviceFields(device)
          PROVE  \/ \E i \in 1 .. m : DevSets(device, options[i], f) /\ t[f] = options[i].value
                 \/ (\A i \in 1 .. m : ~DevSets(device, options[i], f))
                    /\ t[f] = DeviceDefaults[device][f]
      <4>1. \/ \E i \in 1 .. (m - 1) : DevSets(device, options[i], f) /\ d[f] = options[i].value
            \/ (\A i \in 1 .. (m - 1) : ~DevSets(device, options[i], f))
                /\ d[f] = DeviceDefaults[device][f]
        BY <1>3 DEF DeviceLeft
      <4> QED BY <1>1, <3>4, <3>6, <4>1 DEF x
    <3> QED BY <3>6, <3>7, <3>8, <3>9 DEF DeviceLeft, t
  <2> QED BY <2>3, <2>4
<1> QED BY <1>2, <1>3

(* All the options of a device                                             *)
LEMMA DeviceOptionsRead ==
  ASSUME NEW device \in Devices, NEW options, Line(options)
  PROVE  DeviceLeft(ProcessOptions(device, options), device, options, Len(options))
<1> DEFINE n == Len(options)
           d0 == DeviceDefaults[device]
           g == CHOOSE g : g = [i \in 0 .. n |-> IF i = 0 THEN d0
                                               ELSE ReadDeviceOption(g[i - 1], options[i])]
<1>1. n \in Nat
  BY DEF Line
<1>3. ProcessOptions(device, options) = g[n]
  BY DEF ProcessOptions
<1>2. g = [i \in 0 .. n |-> IF i = 0 THEN d0 ELSE ReadDeviceOption(g[i - 1], options[i])]
  <2> HIDE DEF n, d0
  <2>1. \E f : Takes("device", f, d0, options, n)
    BY <1>1, Readings
  <2>2. \E f : f = [i \in 0 .. n |-> IF i = 0 THEN d0 ELSE ReadDeviceOption(f[i - 1], options[i])]
    BY <2>1 DEF Takes, Step
  <2> QED BY <2>2
<1> HIDE DEF g, n
<1> DEFINE B == {i \in 0 .. n : ~DeviceLeft(g[i], device, options, i)}
<1>4. SUFFICES ASSUME B # {}
               PROVE  FALSE
  BY <1>1, <1>3 DEF n
<1>5. PICK m \in B : \A k \in B : m <= k
  <2>1. B \in SUBSET Nat
    OBVIOUS
  <2> HIDE DEF B
  <2> QED BY <1>4, <2>1, LeastElement
<1>6. m \in 0 .. n /\ ~DeviceLeft(g[m], device, options, m)
  OBVIOUS
<1>7. m # 0
  <2>1. g[0] = d0
    BY <1>1, <1>2
  <2>2. /\ DOMAIN d0 = {"device"} \cup DeviceFields(device)
        /\ d0 = [f \in DOMAIN d0 |-> d0[f]] /\ d0.device = device
    BY FieldsOfDevices
  <2>3. d0 # NotStarted
    BY <2>2, DeviceIsStarted
  <2>4. \A i : i \notin 1 .. 0
    OBVIOUS
  <2> HIDE DEF B
  <2>5. DeviceLeft(d0, device, options, 0)
    BY <2>2, <2>3, <2>4 DEF DeviceLeft
  <2> QED BY <1>6, <2>1, <2>5
<1>8. m - 1 \in 0 .. n /\ ~(m <= m - 1) /\ m \in 1 .. n
  BY <1>1, <1>6, <1>7
<1>9. DeviceLeft(g[m - 1], device, options, m - 1)
  BY <1>5, <1>8
<1>10. g[m] = ReadDeviceOption(g[m - 1], options[m])
  BY <1>2, <1>6, <1>7
<1> QED BY <1>6, <1>8, <1>9, <1>10, OneMoreDeviceOption DEF n

(* As sets                                                                 *)
LEMMA DeviceOfOptions ==
  ASSUME NEW device \in Devices, NEW options, Line(options)
  PROVE  LET d == ProcessOptions(device, options)
             A == ToSet(options) IN
         /\ d = NotStarted <=> \E a \in A : Refused(device, a)
         /\ d # NotStarted =>
              /\ d = [f \in {"device"} \cup DeviceFields(device) |-> d[f]] /\ d.device = device
              /\ \A f \in DeviceFields(device) :
                   \/ \E a \in A : DevSets(device, a, f) /\ d[f] = a.value
                   \/ (\A a \in A : ~DevSets(device, a, f)) /\ d[f] = DeviceDefaults[device][f]
<1> DEFINE d == ProcessOptions(device, options)
           A == ToSet(options)
<1>1. DeviceLeft(d, device, options, Len(options))
  BY DeviceOptionsRead
<1>2. A = {options[i] : i \in 1 .. Len(options)}
  BY DEF Line, ToSet
<1> HIDE DEF d, A
<1>3. d = NotStarted <=> \E a \in A : Refused(device, a)
  BY <1>1, <1>2 DEF DeviceLeft
<1>4. ASSUME d # NotStarted, NEW f \in DeviceFields(device)
      PROVE  \/ \E a \in A : DevSets(device, a, f) /\ d[f] = a.value
             \/ (\A a \in A : ~DevSets(device, a, f)) /\ d[f] = DeviceDefaults[device][f]
  <2>1. \/ \E i \in 1 .. Len(options) : DevSets(device, options[i], f) /\ d[f] = options[i].value
        \/ (\A i \in 1 .. Len(options) : ~DevSets(device, options[i], f))
           /\ d[f] = DeviceDefaults[device][f]
    BY <1>1, <1>4 DEF DeviceLeft
  <2> QED BY <1>2, <2>1
<1> QED BY <1>1, <1>3, <1>4 DEF DeviceLeft, d, A

-----------------------------------------------------------------------------
(***************************************************************************)
(* Two command lines with the same arguments leave settings that differ in *)
(* the order of the options for the device at most.                        *)
(***************************************************************************)
\* No option is given two values.
Single(A) == \A a, b \in A : a.key = b.key => a = b

Alike(s, t) ==
  /\ Read0(s) /\ Read0(t) /\ s.exited \in BOOLEAN /\ t.exited \in BOOLEAN
  /\ s.exited <=> t.exited
  /\ ~s.exited =>
       /\ \A f \in DOMAIN KeyOf : s[f] = t[f]
       /\ s.audio_device \in Devices
       /\ Line(s.device_options) /\ Line(t.device_options)
       /\ ToSet(s.device_options) = ToSet(t.device_options) /\ Single(ToSet(s.device_options))

\* The audio device is one that there is.
LEMMA DeviceExists ==
  ASSUME NEW args, Line(args), ~ReadOptions(args).exited
  PROVE  ReadOptions(args).audio_device \in Devices
<1> DEFINE r == ReadOptions(args)
           A == ToSet(args)
<1>1. "audio_device" \in DOMAIN KeyOf /\ KeyOf["audio_device"] = "--audio-device"
  BY DEF KeyOf
<1>2. \/ \E a \in A : Sets(a, "audio_device") /\ r["audio_device"] = SetTo(a, "audio_device")
      \/ r["audio_device"] = Defaults["audio_device"]
  BY <1>1, SettingsOfArgs
<1> HIDE DEF r, A
<1>3. ASSUME NEW a \in A, Sets(a, "audio_device")
      PROVE  SetTo(a, "audio_device") \in Devices
  <2>1. a.key = "--audio-device"
    BY <1>1, <1>3, OneOption
  <2>2. Option(a.key) = Offered("audio_device", Devices)
    BY <2>1 DEF Option
  <2>3. SetTo(a, "audio_device") = a.value /\ a.value \in Devices
    BY <1>3, <2>2 DEF SetTo, Sets, Offered
  <2> QED BY <2>3
<1>4. Defaults["audio_device"] \in Devices
  BY DEF Defaults, Devices
<1> QED BY <1>2, <1>3, <1>4 DEF r

\* The options, in any order, ...
LEMMA SameArgs ==
  ASSUME NEW x, NEW y, Line(x), Line(y), ToSet(x) = ToSet(y), Single(ToSet(x))
  PROVE  Alike(ReadOptions(x), ReadOptions(y))
<1> DEFINE r == ReadOptions(x)
           s == ReadOptions(y)
           A == ToSet(x)
<1>1. /\ Read0(r) /\ r.exited \in BOOLEAN
      /\ r.exited <=> \E a \in A : Bad(a)
      /\ ~r.exited =>
           /\ \A f \in DOMAIN KeyOf :
                \/ \E a \in A : Sets(a, f) /\ r[f] = SetTo(a, f)
                \/ (\A a \in A : ~Sets(a, f)) /\ r[f] = Defaults[f]
           /\ Line(r.device_options)
           /\ ToSet(r.device_options) = {a \in A : ForDev(a)}
  BY SettingsOfArgs
<1>2. /\ Read0(s) /\ s.exited \in BOOLEAN
      /\ s.exited <=> \E a \in A : Bad(a)
      /\ ~s.exited =>
           /\ \A f \in DOMAIN KeyOf :
                \/ \E a \in A : Sets(a, f) /\ s[f] = SetTo(a, f)
                \/ (\A a \in A : ~Sets(a, f)) /\ s[f] = Defaults[f]
           /\ Line(s.device_options)
           /\ ToSet(s.device_options) = {a \in A : ForDev(a)}
  BY SettingsOfArgs
<1>3. ~r.exited => r.audio_device \in Devices
  BY DeviceExists
<1>4. Single(A)
  OBVIOUS
<1> HIDE DEF r, s, A
<1>5. ASSUME ~r.exited, NEW f \in DOMAIN KeyOf
      PROVE  r[f] = s[f]
  <2>1. \A a, b \in A : Sets(a, f) /\ Sets(b, f) => a = b
    BY <1>4, OneOption DEF Single
  <2> QED BY <1>1, <1>2, <1>5, <2>1
<1>6. ASSUME ~r.exited
      PROVE  /\ ToSet(r.device_options) = ToSet(s.device_options)
             /\ Single(ToSet(r.device_options))
  BY <1>1, <1>2, <1>4, <1>6 DEF Single
<1>7. Alike(r, s)
  BY <1>1, <1>2, <1>3, <1>5, <1>6 DEF Alike
<1> QED BY <1>7 DEF r, s

\* What keeps two settings alike
LEMMA AlikeField ==
  ASSUME NEW s, NEW t, Alike(s, t), NEW k \in DOMAIN KeyOf, k # "audio_device", NEW x
  PROVE  Alike([s EXCEPT ![k] = x], [t EXCEPT ![k] = x])
<1> DEFINE u == [s EXCEPT ![k] = x]
           v == [t EXCEPT ![k] = x]
           D == DOMAIN Defaults
<1>1. /\ k \in D /\ "exited" \in D /\ "device_options" \in D
      /\ k # "exited" /\ k # "device_options" /\ "audio_device" \in D
      /\ DOMAIN KeyOf \subseteq D
  <2>1. "audio_device" \in DOMAIN KeyOf
    BY DEF KeyOf
  <2> QED BY <2>1, SettingsFields
<1>2. /\ DOMAIN u = D /\ u = [f \in D |-> u[f]]
      /\ \A f \in D : u[f] = IF f = k THEN x ELSE s[f]
  BY DEF Alike, Read0
<1>3. /\ DOMAIN v = D /\ v = [f \in D |-> v[f]]
      /\ \A f \in D : v[f] = IF f = k THEN x ELSE t[f]
  BY DEF Alike, Read0
<1> HIDE DEF u, v, D
<1>4. Read0(u) /\ Read0(v)
  BY <1>2, <1>3 DEF Read0, D
<1>5. /\ u.exited = s.exited /\ v.exited = t.exited /\ u.audio_device = s.audio_device
      /\ u.device_options = s.device_options /\ v.device_options = t.device_options
  BY <1>1, <1>2, <1>3
<1>6. ~s.exited => \A f \in DOMAIN KeyOf : u[f] = v[f]
  BY <1>1, <1>2, <1>3 DEF Alike
<1>7. Alike(u, v)
  BY <1>4, <1>5, <1>6 DEF Alike
<1> QED BY <1>7 DEF u, v

\* A program that ends is like any other that ends.
LEMMA AlikeExited ==
  ASSUME NEW s, NEW t, Read0(s), Read0(t)
  PROVE  Alike([s EXCEPT !.exited = TRUE], [t EXCEPT !.exited = TRUE])
<1>1. "exited" \in DOMAIN Defaults
  BY SettingsFields
<1> QED BY <1>1 DEF Alike, Read0

(* The credentials file, ...                                               *)
LEMMA AlikeCredentials ==
  ASSUME NEW s, NEW t, Alike(s, t), NEW fs
  PROVE  Alike(ReadCredentials(s, fs), ReadCredentials(t, fs))
<1>1. {"credentials_file", "server_username", "server_password"} \subseteq DOMAIN KeyOf
  BY DEF KeyOf
<1>2. CASE s.exited
  BY <1>2 DEF Alike, ReadCredentials
<1>3. CASE ~s.exited
  <2>1. ~t.exited /\ s.credentials_file = t.credentials_file
    BY <1>1, <1>3 DEF Alike
  <2>2. CASE s.credentials_file = << >>
    BY <1>3, <2>1, <2>2 DEF ReadCredentials
  <2>3. CASE s.credentials_file # << >> /\ s.credentials_file \notin DOMAIN fs
    <3>1. /\ ReadCredentials(s, fs) = [s EXCEPT !.exited = TRUE]
          /\ ReadCredentials(t, fs) = [t EXCEPT !.exited = TRUE]
      BY <1>3, <2>1, <2>3 DEF ReadCredentials
    <3> QED BY <3>1, AlikeExited DEF Alike
  <2>4. CASE s.credentials_file # << >> /\ s.credentials_file \in DOMAIN fs
    <3> DEFINE c == fs[s.credentials_file]
               x == Trim(c.Username)
               y == Trim(c.Password)
               s1 == [s EXCEPT !["server_username"] = x]
               t1 == [t EXCEPT !["server_username"] = x]
               s2 == [s1 EXCEPT !["server_password"] = y]
               t2 == [t1 EXCEPT !["server_password"] = y]
    <3>1. ReadCredentials(s, fs) = s2 /\ ReadCredentials(t, fs) = t2
      BY <1>3, <2>1, <2>4, Zenon DEF ReadCredentials
    <3>2. Alike(s1, t1)
      BY <1>1, AlikeField
    <3> HIDE DEF s1, t1, x, y
    <3>3. Alike(s2, t2)
      BY <1>1, <3>2, AlikeField
    <3> QED BY <3>1, <3>3
  <2> QED BY <2>2, <2>3, <2>4
<1> QED BY <1>2, <1>3

\* What the checks refuse
Fails(u) ==
  \/ u.exited
  \/ \E i \in DOMAIN u.device_options :
        OptionDevice(u.device_options[i].key) # u.audio_device
  \/ u.list_codecs \/ u.list_devices
  \/ RequiresServerUrl(u.server_type) /\ u.server_url = NoUrl
  \/ u.audio_quality >= 0 /\ u.audio_bitrate > 0

(* ... the checks, ...                                                     *)
LEMMA AlikeChecks ==
  ASSUME NEW s, NEW t, Alike(s, t)
  PROVE  Alike(SanityChecks(s), SanityChecks(t))
<1>1. {"audio_device", "list_codecs", "list_devices", "server_type", "server_url",
       "audio_quality", "audio_bitrate"} \subseteq DOMAIN KeyOf
  BY DEF KeyOf
<1>2. Fails(s) <=> Fails(t)
  <2>1. CASE s.exited
    BY <2>1 DEF Alike, Fails
  <2>2. CASE ~s.exited
    <3>1. /\ ~t.exited /\ s.audio_device = t.audio_device /\ s.list_codecs = t.list_codecs
          /\ s.list_devices = t.list_devices /\ s.server_type = t.server_type
          /\ s.server_url = t.server_url /\ s.audio_quality = t.audio_quality
          /\ s.audio_bitrate = t.audio_bitrate
      BY <1>1, <2>2 DEF Alike
    <3>2. ToSet(s.device_options) = ToSet(t.device_options)
      BY <2>2 DEF Alike
    <3>3. (\E i \in DOMAIN s.device_options :
              OptionDevice(s.device_options[i].key) # s.audio_device)
          <=> \E a \in ToSet(s.device_options) : OptionDevice(a.key) # s.audio_device
      BY DEF ToSet
    <3>4. (\E i \in DOMAIN t.device_options :
              OptionDevice(t.device_options[i].key) # t.audio_device)
          <=> \E a \in ToSet(t.device_options) : OptionDevice(a.key) # t.audio_device
      BY DEF ToSet
    <3> QED BY <2>2, <3>1, <3>2, <3>3, <3>4 DEF Fails
  <2> QED BY <2>1, <2>2
<1>3. \A u : SanityChecks(u) = IF Fails(u) THEN [u EXCEPT !.exited = TRUE]
                              ELSE IF u.audio_quality < 0 /\ u.audio_bitrate = 0
                              THEN [u EXCEPT !["audio_bitrate"] = DefaultAudioBitrate]
                              ELSE u
  BY Zenon DEF SanityChecks, Fails
<1>4. ~Fails(s) => s.audio_quality = t.audio_quality /\ s.audio_bitrate = t.audio_bitrate
  BY <1>1 DEF Alike, Fails
<1>5. CASE Fails(s)
  <2>1. /\ SanityChecks(s) = [s EXCEPT !.exited = TRUE]
        /\ SanityChecks(t) = [t EXCEPT !.exited = TRUE]
    BY <1>2, <1>3, <1>5
  <2>2. Alike([s EXCEPT !.exited = TRUE], [t EXCEPT !.exited = TRUE])
    BY AlikeExited DEF Alike
  <2> QED BY <2>1, <2>2
<1>6. CASE ~Fails(s) /\ s.audio_quality < 0 /\ s.audio_bitrate = 0
  <2>1. Alike([s EXCEPT !["audio_bitrate"] = DefaultAudioBitrate],
              [t EXCEPT !["audio_bitrate"] = DefaultAudioBitrate])
    BY <1>1, AlikeField
  <2> QED BY <1>2, <1>3, <1>4, <1>6, <2>1
<1>7. CASE ~Fails(s) /\ ~(s.audio_quality < 0 /\ s.audio_bitrate = 0)
  <2>1. SanityChecks(s) = s /\ SanityChecks(t) = t
    BY <1>2, <1>3, <1>4, <1>7
  <2> QED BY <2>1
<1> QED BY <1>5, <1>6, <1>7

(* ... the audio device, ...                                               *)
LEMMA SameDevice ==
  ASSUME NEW device \in Devices, NEW x, NEW y, Line(x), Line(y), ToSet(x) = ToSet(y),
         Single(ToSet(x))
  PROVE  ProcessOptions(device, x) = ProcessOptions(device, y)
<1> DEFINE d == ProcessOptions(device, x)
           e == ProcessOptions(device, y)
           A == ToSet(x)
           F == {"device"} \cup DeviceFields(device)
<1>1. /\ d = NotStarted <=> \E a \in A : Refused(device, a)
      /\ d # NotStarted =>
              /\ d = [f \in F |-> d[f]] /\ d.device = device
              /\ \A f \in DeviceFields(device) :
                   \/ \E a \in A : DevSets(device, a, f) /\ d[f] = a.value
                   \/ (\A a \in A : ~DevSets(device, a, f)) /\ d[f] = DeviceDefaults[device][f]
  BY DeviceOfOptions
<1>2. /\ e = NotStarted <=> \E a \in A : Refused(device, a)
      /\ e # NotStarted =>
              /\ e = [f \in F |-> e[f]] /\ e.device = device
              /\ \A f \in DeviceFields(device) :
                   \/ \E a \in A : DevSets(device, a, f) /\ e[f] = a.value
                   \/ (\A a \in A : ~DevSets(device, a, f)) /\ e[f] = DeviceDefaults[device][f]
  BY DeviceOfOptions
<1>3. Single(A)
  OBVIOUS
<1> HIDE DEF d, e, A
<1>4. CASE d = NotStarted
  BY <1>1, <1>2, <1>4 DEF d, e
<1>5. CASE d # NotStarted
  <2>1. ASSUME NEW f \in DeviceFields(device)
        PROVE  d[f] = e[f]
    <3>1. \A a, b \in A : DevSets(device, a, f) /\ DevSets(device, b, f) => a = b
      BY <1>3, DeviceEntries DEF Single, DevSets
    <3> QED BY <1>1, <1>2, <1>5, <3>1
  <2>2. \A f \in F : d[f] = e[f]
    BY <1>1, <1>2, <1>5, <2>1
  <2> HIDE DEF F
  <2>3. d = e
    BY <1>1, <1>2, <1>5, <2>2, Zenon
  <2> QED BY <2>3 DEF d, e
<1> QED BY <1>4, <1>5

(* ... and so the encoder that is started, or none.                        *)
LEMMA AlikeStarts ==
  ASSUME NEW x, NEW y, Line(x), Line(y), ToSet(x) = ToSet(y), Single(ToSet(x)), NEW fs
  PROVE  Start(x, fs) = Start(y, fs)
<1> DEFINE s == Settings(x, fs)
           t == Settings(y, fs)
<1>1. Alike(s, t)
  BY SameArgs, AlikeCredentials, AlikeChecks DEF Settings
<1> HIDE DEF s, t
<1>2. CASE s.exited
  BY <1>1, <1>2 DEF Start, s, t, Alike
<1>3. CASE ~s.exited
  <2>1. \A f \in DOMAIN KeyOf : s[f] = t[f]
    BY <1>1, <1>3 DEF Alike
  <2>2. StartAudioDevice(s) = StartAudioDevice(t)
    <3>1. s.audio_device = t.audio_device
      BY <2>1 DEF KeyOf
    <3>2. ProcessOptions(s.audio_device, s.device_options)
            = ProcessOptions(s.audio_device, t.device_options)
      BY <1>1, <1>3, SameDevice DEF Alike
    <3> QED BY <3>1, <3>2 DEF StartAudioDevice
  <2>3. StartCodec(s) = StartCodec(t)
    <3>1. CodecSettings(s) = CodecSettings(t)
      <4>1. /\ s.audio_format = t.audio_format /\ s.audio_channels = t.audio_channels
            /\ s.audio_samplerate = t.audio_samplerate /\ s.audio_bitrate = t.audio_bitrate
            /\ s.audio_quality = t.audio_quality
        BY <2>1 DEF KeyOf
      <4> QED BY <4>1, Zenon DEF CodecSettings, AudioQuality
    <3> QED BY <3>1, Zenon DEF StartCodec
  <2>4. StartServerConnection(s) = StartServerConnection(t)
    <3>1. ServerSettings(s) = ServerSettings(t)
      <4>1. /\ s.server_exit_on_last = t.server_exit_on_last
            /\ s.server_max_connections = t.server_max_connections
            /\ s.server_user_agent = t.server_user_agent /\ s.server_username = t.server_username
            /\ s.server_password = t.server_password /\ s.server_url = t.server_url
            /\ s.server_pipe = t.server_pipe
            /\ s.server_start_connections = t.server_start_connections
        BY <2>1 DEF KeyOf
      <4> QED BY <4>1, Zenon DEF ServerSettings
    <3>2. StreamSettings(s) = StreamSettings(t)
      <4>1. /\ s.stream_timestamp_offset = t.stream_timestamp_offset
            /\ s.server_type = t.server_type
        BY <2>1 DEF KeyOf
      <4>2. TextsSent(s.server_type) \subseteq DOMAIN KeyOf
        BY DEF TextsSent, IcyTexts, IceTexts, ServerTexts, KeyOf
      <4>3. \A f \in TextsSent(s.server_type) : s[f] = t[f]
        BY <2>1, <4>2
      <4> QED BY <4>1, <4>3, Zenon DEF StreamSettings
    <3>3. ScriptSettings(s) = ScriptSettings(t)
      <4>1. s.server_script_up = t.server_script_up /\ s.server_script_down = t.server_script_down
        BY <2>1 DEF KeyOf
      <4> QED BY <4>1, Zenon DEF ScriptSettings
    <3>4. /\ s.server_type = t.server_type /\ s.server_url = t.server_url
          /\ s.server_base_url = t.server_base_url /\ s.ssh_identity = t.ssh_identity
          /\ s.server_no_deletes = t.server_no_deletes
          /\ s.server_preclean_publish_point = t.server_preclean_publish_point
      BY <2>1 DEF KeyOf
    <3> QED BY <3>1, <3>2, <3>3, <3>4, Zenon DEF StartServerConnection
  <2>5. /\ s.metadata_port = t.metadata_port /\ s.show_verbose = t.show_verbose
        /\ s.meter_data = t.meter_data /\ s.log_to = t.log_to
    BY <2>1 DEF KeyOf
  <2>6. s.exited = t.exited
    BY <1>1, <1>3 DEF Alike
  <2> DEFINE Started(u) ==
        IF u.exited \/ StartAudioDevice(u) = NotStarted \/ StartCodec(u) = NotStarted
        THEN NotStarted
        ELSE [started |-> TRUE, device |-> StartAudioDevice(u), codec |-> StartCodec(u),
              connector |-> StartServerConnection(u), metadata_port |-> u.metadata_port,
              verbose |-> u.show_verbose, meters |-> u.meter_data, log_to |-> u.log_to]
  <2>7. Start(x, fs) = Started(s) /\ Start(y, fs) = Started(t)
    BY Zenon DEF Start, s, t
  <2>8. Started(s) = Started(t)
    BY <2>2, <2>3, <2>4, <2>5, <2>6
  <2> QED BY <2>7, <2>8
<1> QED BY <1>2, <1>3

\* The opposite order
LEMMA Reversed ==
  ASSUME NEW args, Line(args)
  PROVE  Line(Reverse(args)) /\ ToSet(Reverse(args)) = ToSet(args)
<1> DEFINE n == Len(args)
           b == Reverse(args)
<1>1. n \in Nat /\ args = [i \in 1 .. n |-> args[i]]
  BY DEF Line
<1>2. b = [i \in 1 .. n |-> args[(n - i) + 1]]
  BY DEF Reverse
<1>3. \A i \in 1 .. n : (n - i) + 1 \in 1 .. n /\ (n - ((n - i) + 1)) + 1 = i
  BY <1>1
<1> HIDE DEF n, b
<1>4. \A i \in 1 .. n : args[i] = b[(n - i) + 1]
  BY <1>2, <1>3
<1>5. DOMAIN args = 1 .. n /\ DOMAIN b = 1 .. n /\ \A i \in 1 .. n : b[i] = args[(n - i) + 1]
  BY <1>1, <1>2
<1>6. ToSet(b) = ToSet(args)
  <2>1. ASSUME NEW i \in 1 .. n
        PROVE  (\E j \in 1 .. n : args[i] = b[j]) /\ (\E j \in 1 .. n : b[i] = args[j])
    BY <1>3, <1>4, <1>5
  <2>2. ToSet(args) = {args[i] : i \in 1 .. n} /\ ToSet(b) = {b[i] : i \in 1 .. n}
    BY <1>5 DEF ToSet
  <2> QED BY <2>1, <2>2
<1>7. \A i \in 1 .. n : b[i] \in ToSet(args)
  BY <1>3, <1>5 DEF ToSet
<1>8. b \in Seq(ToSet(args))
  <2> DEFINE S == ToSet(args)
  <2> HIDE DEF S
  <2>1. b \in Seq(S)
    <3>1. b = [i \in 1 .. n |-> b[i]] /\ \A i \in 1 .. n : b[i] \in S
      BY <1>2, <1>7 DEF S
    <3> QED BY <1>1, <3>1
  <2> QED BY <2>1 DEF S
<1> QED BY <1>6, <1>8 DEF Line, b

-----------------------------------------------------------------------------
(***************************************************************************)
(* The arguments that the dialogs make: each option once at most, and of a *)
(* value that is the one in the form.                                      *)
(***************************************************************************)
One(A, key, value) ==
  Arg(key, value) \in A /\ \A a \in A : a.key = key => a = Arg(key, value)
Lacks(A, key) == \A a \in A : a.key # key
Given(A, key, given, value) == IF given THEN One(A, key, value) ELSE Lacks(A, key)

\* Arguments put together
LEMMA ArgsJoined ==
  ASSUME NEW s, NEW t, Line(s), Line(t)
  PROVE  Line(s \o t) /\ ToSet(s \o t) = ToSet(s) \cup ToSet(t)
<1> DEFINE S == ToSet(s) \cup ToSet(t)
<1>1. s \in Seq(S) /\ t \in Seq(S)
  <2>1. s \in Seq(ToSet(s)) /\ t \in Seq(ToSet(t)) /\ ToSet(s) \subseteq S /\ ToSet(t) \subseteq S
    BY DEF Line
  <2> HIDE DEF S
  <2> QED BY <2>1
<1>2. /\ Len(s) \in Nat /\ Len(t) \in Nat /\ DOMAIN s = 1 .. Len(s) /\ DOMAIN t = 1 .. Len(t)
  BY <1>1
<1> HIDE DEF S
<1>3. /\ s \o t \in Seq(S) /\ DOMAIN (s \o t) = 1 .. (Len(s) + Len(t))
      /\ \A i \in 1 .. Len(s) : (s \o t)[i] = s[i]
      /\ \A i \in 1 .. Len(t) : (s \o t)[Len(s) + i] = t[i]
  BY <1>1
<1>4. \A i \in 1 .. (Len(s) + Len(t)) : i \in 1 .. Len(s) \/ \E j \in 1 .. Len(t) : i = Len(s) + j
  <2> SUFFICES ASSUME NEW i \in 1 .. (Len(s) + Len(t)), i \notin 1 .. Len(s)
               PROVE  \E j \in 1 .. Len(t) : i = Len(s) + j
    OBVIOUS
  <2>1. i - Len(s) \in 1 .. Len(t) /\ i = Len(s) + (i - Len(s))
    BY <1>2
  <2> QED BY <2>1
<1> DEFINE st == s \o t
<1> HIDE DEF st
<1>5. \A i \in 1 .. Len(t) : Len(s) + i \in 1 .. (Len(s) + Len(t))
  BY <1>2
<1>6. \A i \in 1 .. Len(s) : i \in 1 .. (Len(s) + Len(t))
  BY <1>2
<1>7. ToSet(st) = S
  <2>1. ASSUME NEW x \in ToSet(st)
        PROVE  x \in S
    <3>1. PICK i \in 1 .. (Len(s) + Len(t)) : x = st[i]
      BY <1>3 DEF ToSet, st
    <3>2. CASE i \in 1 .. Len(s)
      BY <1>2, <1>3, <3>1, <3>2 DEF ToSet, S, st
    <3>3. CASE \E j \in 1 .. Len(t) : i = Len(s) + j
      BY <1>2, <1>3, <3>1, <3>3 DEF ToSet, S, st
    <3> QED BY <1>4, <3>2, <3>3
  <2>2. ASSUME NEW x \in S
        PROVE  x \in ToSet(st)
    <3>1. CASE x \in ToSet(s)
      BY <1>2, <1>3, <1>6, <3>1 DEF ToSet, st
    <3>2. CASE x \in ToSet(t)
      BY <1>2, <1>3, <1>5, <3>2 DEF ToSet, st
    <3> QED BY <3>1, <3>2 DEF S
  <2> QED BY <2>1, <2>2
<1> QED BY <1>3, <1>7 DEF Line, S, st

\* One argument, or none
Maybe(given, key, value) == IF given THEN {Arg(key, value)} ELSE {}

\* What When() makes of it, ...
LEMMA WhenGiven ==
  ASSUME NEW given, NEW key, NEW value
  PROVE  /\ Line(When(given, key, value))
         /\ ToSet(When(given, key, value)) = Maybe(given, key, value)
<1> DEFINE a == Arg(key, value)
<1> HIDE DEF a
<1>1. Line(<<a>>) /\ ToSet(<<a>>) = {a}
  BY DEF Line, ToSet
<1>2. Line(<<>>) /\ ToSet(<<>>) = {}
  BY DEF Line, ToSet
<1> QED BY <1>1, <1>2 DEF When, Maybe, a

\* ... and what TextArg() does
LEMMA TextGiven ==
  ASSUME NEW key, NEW text
  PROVE  /\ Line(TextArg(key, text))
         /\ ToSet(TextArg(key, text)) = Maybe(text # NoText, key, text)
  BY WhenGiven, Zenon DEF TextArg

ServerKeys ==
  {"--server-type", "--server-url", "--credentials-file", "--ssh-identity",
   "--server-script-down", "--server-script-up", "--metadata-port",
   "--server-max-connections", "--server-no-deletes", "--server-preclean-publish-point",
   "--verbose"}

ServerOptions(A, v) ==
  /\ One(A, "--server-type", v.type) /\ One(A, "--server-url", v.location)
  /\ One(A, "--credentials-file", CredentialsFilename(v))
  /\ Given(A, "--ssh-identity", WithIdentity(v), v.identity)
  /\ Given(A, "--server-script-down", v.script_down # NoText, v.script_down)
  /\ Given(A, "--server-script-up", v.script_up # NoText, v.script_up)
  /\ Given(A, "--metadata-port", v.metadata_port > 0, v.metadata_port)
  /\ Given(A, "--server-max-connections", v.maxconns >= 0, v.maxconns)
  /\ Given(A, "--server-no-deletes", ~v.cleanup, NoText)
  /\ Given(A, "--server-preclean-publish-point", v.preclean, NoText)
  /\ Given(A, "--verbose", v.verbose, NoText)

\* The arguments of the server dialog
LEMMA ServerGiven ==
  ASSUME NEW v
  PROVE  LET A == ToSet(ServerArgs(v)) IN
         /\ Line(ServerArgs(v)) /\ \A a \in A : a.key \in ServerKeys
         /\ ServerOptions(A, v)
<1> DEFINE a1 == Arg("--server-type", v.type)
           a2 == Arg("--server-url", v.location)
           a3 == Arg("--credentials-file", CredentialsFilename(v))
           s0 == <<a1, a2, a3>>
           w1 == When(WithIdentity(v), "--ssh-identity", v.identity)
           w2 == TextArg("--server-script-down", v.script_down)
           w3 == TextArg("--server-script-up", v.script_up)
           w4 == When(v.metadata_port > 0, "--metadata-port", v.metadata_port)
           w5 == When(v.maxconns >= 0, "--server-max-connections", v.maxconns)
           w6 == When(~v.cleanup, "--server-no-deletes", NoText)
           w7 == When(v.preclean, "--server-preclean-publish-point", NoText)
           w8 == When(v.verbose, "--verbose", NoText)
           s1 == s0 \o w1
           s2 == s1 \o w2
           s3 == s2 \o w3
           s4 == s3 \o w4
           s5 == s4 \o w5
           s6 == s5 \o w6
           s7 == s6 \o w7
           s8 == s7 \o w8
<1>1. ServerArgs(v) = s8
  BY DEF ServerArgs
<1>2. Line(s0) /\ ToSet(s0) = {a1, a2, a3}
  <2> HIDE DEF a1, a2, a3
  <2> QED BY DEF Line, ToSet
<1>3. /\ Line(w1) /\ ToSet(w1) = Maybe(WithIdentity(v), "--ssh-identity", v.identity)
      /\ Line(w4) /\ ToSet(w4) = Maybe(v.metadata_port > 0, "--metadata-port", v.metadata_port)
      /\ Line(w5) /\ ToSet(w5) = Maybe(v.maxconns >= 0, "--server-max-connections", v.maxconns)
      /\ Line(w6) /\ ToSet(w6) = Maybe(~v.cleanup, "--server-no-deletes", NoText)
      /\ Line(w7) /\ ToSet(w7) = Maybe(v.preclean, "--server-preclean-publish-point", NoText)
      /\ Line(w8) /\ ToSet(w8) = Maybe(v.verbose, "--verbose", NoText)
  BY WhenGiven
<1>4. /\ Line(w2) /\ ToSet(w2) = Maybe(v.script_down # NoText, "--server-script-down", v.script_down)
      /\ Line(w3) /\ ToSet(w3) = Maybe(v.script_up # NoText, "--server-script-up", v.script_up)
  BY TextGiven
<1> HIDE DEF s0, w1, w2, w3, w4, w5, w6, w7, w8
<1>5. Line(s1) /\ ToSet(s1) = ToSet(s0) \cup ToSet(w1)
  BY <1>2, <1>3, ArgsJoined
<1> HIDE DEF s1
<1>6. Line(s2) /\ ToSet(s2) = ToSet(s1) \cup ToSet(w2)
  BY <1>4, <1>5, ArgsJoined
<1> HIDE DEF s2
<1>7. Line(s3) /\ ToSet(s3) = ToSet(s2) \cup ToSet(w3)
  BY <1>4, <1>6, ArgsJoined
<1> HIDE DEF s3
<1>8. Line(s4) /\ ToSet(s4) = ToSet(s3) \cup ToSet(w4)
  BY <1>3, <1>7, ArgsJoined
<1> HIDE DEF s4
<1>9. Line(s5) /\ ToSet(s5) = ToSet(s4) \cup ToSet(w5)
  BY <1>3, <1>8, ArgsJoined
<1> HIDE DEF s5
<1>10. Line(s6) /\ ToSet(s6) = ToSet(s5) \cup ToSet(w6)
  BY <1>3, <1>9, ArgsJoined
<1> HIDE DEF s6
<1>11. Line(s7) /\ ToSet(s7) = ToSet(s6) \cup ToSet(w7)
  BY <1>3, <1>10, ArgsJoined
<1> HIDE DEF s7
<1>12. Line(s8) /\ ToSet(s8) = ToSet(s7) \cup ToSet(w8)
  BY <1>3, <1>11, ArgsJoined
<1> DEFINE A == ToSet(s8)
<1> HIDE DEF s8
<1>13. A = {a1, a2, a3} \cup Maybe(WithIdentity(v), "--ssh-identity", v.identity)
             \cup Maybe(v.script_down # NoText, "--server-script-down", v.script_down)
             \cup Maybe(v.script_up # NoText, "--server-script-up", v.script_up)
             \cup Maybe(v.metadata_port > 0, "--metadata-port", v.metadata_port)
             \cup Maybe(v.maxconns >= 0, "--server-max-connections", v.maxconns)
             \cup Maybe(~v.cleanup, "--server-no-deletes", NoText)
             \cup Maybe(v.preclean, "--server-preclean-publish-point", NoText)
             \cup Maybe(v.verbose, "--verbose", NoText)
  <2>1. A = ToSet(s0) \cup ToSet(w1) \cup ToSet(w2) \cup ToSet(w3) \cup ToSet(w4)
            \cup ToSet(w5) \cup ToSet(w6) \cup ToSet(w7) \cup ToSet(w8)
    BY <1>5, <1>6, <1>7, <1>8, <1>9, <1>10, <1>11, <1>12
  <2> QED BY <1>2, <1>3, <1>4, <2>1
<1> HIDE DEF A
<1>14. \A a \in A : a.key \in ServerKeys
  BY <1>13 DEF Maybe, Arg, ServerKeys
<1>15. /\ One(A, "--server-type", v.type) /\ One(A, "--server-url", v.location)
       /\ One(A, "--credentials-file", CredentialsFilename(v))
  BY <1>13 DEF Maybe, Arg, One
<1>16. /\ Given(A, "--ssh-identity", WithIdentity(v), v.identity)
       /\ Given(A, "--server-script-down", v.script_down # NoText, v.script_down)
       /\ Given(A, "--server-script-up", v.script_up # NoText, v.script_up)
  BY <1>13 DEF Maybe, Arg, One, Lacks, Given
<1>17. /\ Given(A, "--metadata-port", v.metadata_port > 0, v.metadata_port)
       /\ Given(A, "--server-max-connections", v.maxconns >= 0, v.maxconns)
  BY <1>13 DEF Maybe, Arg, One, Lacks, Given
<1>18. /\ Given(A, "--server-no-deletes", ~v.cleanup, NoText)
       /\ Given(A, "--server-preclean-publish-point", v.preclean, NoText)
       /\ Given(A, "--verbose", v.verbose, NoText)
  BY <1>13 DEF Maybe, Arg, One, Lacks, Given
<1> QED BY <1>1, <1>12, <1>14, <1>15, <1>16, <1>17, <1>18 DEF A, ServerOptions

CodecKeys ==
  {"--audio-format", "--audio-samplerate", "--audio-channels", "--audio-bitrate",
   "--audio-quality"}

CodecOptions(A, c) ==
  /\ One(A, "--audio-format", c.type) /\ One(A, "--audio-samplerate", c.rate)
  /\ One(A, "--audio-channels", c.channels)
  /\ Given(A, "--audio-bitrate", c.type \in {"mp2", "mp3", "aacp", "opus"} /\ c.bits # 0,
           c.bits)
  /\ Given(A, "--audio-quality", c.type = "vorbis", 100 * c.bits)

\* ... of the codec dialog
LEMMA CodecGiven ==
  ASSUME NEW c
  PROVE  LET A == ToSet(CodecArgs(c)) IN
         /\ Line(CodecArgs(c)) /\ \A a \in A : a.key \in CodecKeys
         /\ CodecOptions(A, c)
<1> DEFINE a1 == Arg("--audio-format", c.type)
           a2 == Arg("--audio-samplerate", c.rate)
           a3 == Arg("--audio-channels", c.channels)
           s0 == <<a1, a2, a3>>
           w1 == When(c.type \in {"mp2", "mp3", "aacp", "opus"} /\ c.bits # 0,
                      "--audio-bitrate", c.bits)
           w2 == When(c.type = "vorbis", "--audio-quality", 100 * c.bits)
           s1 == s0 \o w1
           s2 == s1 \o w2
<1>1. CodecArgs(c) = s2
  BY DEF CodecArgs
<1>2. Line(s0) /\ ToSet(s0) = {a1, a2, a3}
  <2> HIDE DEF a1, a2, a3
  <2> QED BY DEF Line, ToSet
<1>3. /\ Line(w1) /\ ToSet(w1) = Maybe(c.type \in {"mp2", "mp3", "aacp", "opus"} /\ c.bits # 0,
                                      "--audio-bitrate", c.bits)
      /\ Line(w2) /\ ToSet(w2) = Maybe(c.type = "vorbis", "--audio-quality", 100 * c.bits)
  BY WhenGiven
<1> HIDE DEF s0, w1, w2
<1>4. Line(s1) /\ ToSet(s1) = ToSet(s0) \cup ToSet(w1)
  BY <1>2, <1>3, ArgsJoined
<1> HIDE DEF s1
<1>5. Line(s2) /\ ToSet(s2) = ToSet(s1) \cup ToSet(w2)
  BY <1>3, <1>4, ArgsJoined
<1> DEFINE A == ToSet(s2)
<1> HIDE DEF s2
<1>6. A = {a1, a2, a3}
            \cup Maybe(c.type \in {"mp2", "mp3", "aacp", "opus"} /\ c.bits # 0,
                       "--audio-bitrate", c.bits)
            \cup Maybe(c.type = "vorbis", "--audio-quality", 100 * c.bits)
  BY <1>2, <1>3, <1>4, <1>5
<1> HIDE DEF A
<1>7. \A a \in A : a.key \in CodecKeys
  BY <1>6 DEF Maybe, Arg, CodecKeys
<1>8. /\ One(A, "--audio-format", c.type) /\ One(A, "--audio-samplerate", c.rate)
      /\ One(A, "--audio-channels", c.channels)
  BY <1>6 DEF Maybe, Arg, One
<1>9. /\ Given(A, "--audio-bitrate", c.type \in {"mp2", "mp3", "aacp", "opus"} /\ c.bits # 0,
               c.bits)
      /\ Given(A, "--audio-quality", c.type = "vorbis", 100 * c.bits)
  BY <1>6 DEF Maybe, Arg, One, Lacks, Given
<1> QED BY <1>1, <1>5, <1>7, <1>8, <1>9 DEF A, CodecOptions

StreamKeys ==
  {"--stream-name", "--stream-description", "--stream-url", "--stream-genre", "--stream-icq",
   "--stream-aim", "--stream-irc", "--stream-timestamp-offset"}

StreamOptions(A, m) ==
  LET t == m.texts IN
  /\ Given(A, "--stream-name", t.name # NoText, t.name)
  /\ Given(A, "--stream-description", t.description # NoText, t.description)
  /\ Given(A, "--stream-url", t.url # NoText, t.url)
  /\ Given(A, "--stream-genre", t.genre # NoText, t.genre)
  /\ Given(A, "--stream-icq", t.icq # NoText, t.icq)
  /\ Given(A, "--stream-aim", t.aim # NoText, t.aim)
  /\ Given(A, "--stream-irc", t.irc # NoText, t.irc)
  /\ Given(A, "--stream-timestamp-offset", m.offset # 0, m.offset)

\* ... of the stream dialog
LEMMA StreamGiven ==
  ASSUME NEW m
  PROVE  LET A == ToSet(StreamArgs(m)) IN
         /\ Line(StreamArgs(m)) /\ \A a \in A : a.key \in StreamKeys
         /\ StreamOptions(A, m)
<1> DEFINE t == m.texts
           w1 == TextArg("--stream-name", t.name)
           w2 == TextArg("--stream-description", t.description)
           w3 == TextArg("--stream-url", t.url)
           w4 == TextArg("--stream-genre", t.genre)
           w5 == TextArg("--stream-icq", t.icq)
           w6 == TextArg("--stream-aim", t.aim)
           w7 == TextArg("--stream-irc", t.irc)
           w8 == When(m.offset # 0, "--stream-timestamp-offset", m.offset)
           s2 == w1 \o w2
           s3 == s2 \o w3
           s4 == s3 \o w4
           s5 == s4 \o w5
           s6 == s5 \o w6
           s7 == s6 \o w7
           s8 == s7 \o w8
<1>1. StreamArgs(m) = s8
  BY DEF StreamArgs
<1>2. /\ Line(w1) /\ ToSet(w1) = Maybe(t.name # NoText, "--stream-name", t.name)
      /\ Line(w2) /\ ToSet(w2) = Maybe(t.description # NoText, "--stream-description", t.description)
      /\ Line(w3) /\ ToSet(w3) = Maybe(t.url # NoText, "--stream-url", t.url)
      /\ Line(w4) /\ ToSet(w4) = Maybe(t.genre # NoText, "--stream-genre", t.genre)
      /\ Line(w5) /\ ToSet(w5) = Maybe(t.icq # NoText, "--stream-icq", t.icq)
      /\ Line(w6) /\ ToSet(w6) = Maybe(t.aim # NoText, "--stream-aim", t.aim)
      /\ Line(w7) /\ ToSet(w7) = Maybe(t.irc # NoText, "--stream-irc", t.irc)
  BY TextGiven
<1>3. Line(w8) /\ ToSet(w8) = Maybe(m.offset # 0, "--stream-timestamp-offset", m.offset)
  BY WhenGiven
<1> HIDE DEF w1, w2, w3, w4, w5, w6, w7, w8
<1>4. Line(s2) /\ ToSet(s2) = ToSet(w1) \cup ToSet(w2)
  BY <1>2, ArgsJoined
<1> HIDE DEF s2
<1>5. Line(s3) /\ ToSet(s3) = ToSet(s2) \cup ToSet(w3)
  BY <1>2, <1>4, ArgsJoined
<1> HIDE DEF s3
<1>6. Line(s4) /\ ToSet(s4) = ToSet(s3) \cup ToSet(w4)
  BY <1>2, <1>5, ArgsJoined
<1> HIDE DEF s4
<1>7. Line(s5) /\ ToSet(s5) = ToSet(s4) \cup ToSet(w5)
  BY <1>2, <1>6, ArgsJoined
<1> HIDE DEF s5
<1>8. Line(s6) /\ ToSet(s6) = ToSet(s5) \cup ToSet(w6)
  BY <1>2, <1>7, ArgsJoined
<1> HIDE DEF s6
<1>9. Line(s7) /\ ToSet(s7) = ToSet(s6) \cup ToSet(w7)
  BY <1>2, <1>8, ArgsJoined
<1> HIDE DEF s7
<1>10. Line(s8) /\ ToSet(s8) = ToSet(s7) \cup ToSet(w8)
  BY <1>3, <1>9, ArgsJoined
<1> DEFINE A == ToSet(s8)
<1> HIDE DEF s8
<1>11. A = Maybe(t.name # NoText, "--stream-name", t.name)
           \cup Maybe(t.description # NoText, "--stream-description", t.description)
           \cup Maybe(t.url # NoText, "--stream-url", t.url)
           \cup Maybe(t.genre # NoText, "--stream-genre", t.genre)
           \cup Maybe(t.icq # NoText, "--stream-icq", t.icq)
           \cup Maybe(t.aim # NoText, "--stream-aim", t.aim)
           \cup Maybe(t.irc # NoText, "--stream-irc", t.irc)
           \cup Maybe(m.offset # 0, "--stream-timestamp-offset", m.offset)
  <2>1. A = ToSet(w1) \cup ToSet(w2) \cup ToSet(w3) \cup ToSet(w4) \cup ToSet(w5)
            \cup ToSet(w6) \cup ToSet(w7) \cup ToSet(w8)
    BY <1>4, <1>5, <1>6, <1>7, <1>8, <1>9, <1>10
  <2> QED BY <1>2, <1>3, <2>1
<1> HIDE DEF A
<1>12. \A a \in A : a.key \in StreamKeys
  BY <1>11 DEF Maybe, Arg, StreamKeys
<1>13. /\ Given(A, "--stream-name", t.name # NoText, t.name)
       /\ Given(A, "--stream-description", t.description # NoText, t.description)
       /\ Given(A, "--stream-url", t.url # NoText, t.url)
       /\ Given(A, "--stream-genre", t.genre # NoText, t.genre)
  BY <1>11 DEF Maybe, Arg, One, Lacks, Given
<1>14. /\ Given(A, "--stream-icq", t.icq # NoText, t.icq)
       /\ Given(A, "--stream-aim", t.aim # NoText, t.aim)
       /\ Given(A, "--stream-irc", t.irc # NoText, t.irc)
       /\ Given(A, "--stream-timestamp-offset", m.offset # 0, m.offset)
  BY <1>11 DEF Maybe, Arg, One, Lacks, Given
<1> QED BY <1>1, <1>10, <1>12, <1>13, <1>14 DEF A, StreamOptions

SourceKeys ==
  {"--audio-device", "--alsa-device", "--file-name", "--jack-server-name",
   "--jack-client-name", "--jack-gain"}

FieldOptions(A, u) ==
  /\ Given(A, "--alsa-device", u.type = "alsa" /\ u.alsa_device # NoText, u.alsa_device)
  /\ Given(A, "--file-name", u.type = "file" /\ u.file_name # NoText, u.file_name)
  /\ Given(A, "--jack-server-name", u.type = "jack" /\ u.server_name # NoText, u.server_name)
  /\ Given(A, "--jack-client-name", u.type = "jack" /\ u.client_name # NoText, u.client_name)
  /\ Given(A, "--jack-gain", u.type = "jack", u.gain)

SourceOptions(A, u) == One(A, "--audio-device", u.type) /\ FieldOptions(A, u)

\* ... and of the source dialog
LEMMA SourceGiven ==
  ASSUME NEW u, SourceOK(u)
  PROVE  LET A == ToSet(SourceArgs(u)) IN
         /\ Line(SourceArgs(u)) /\ \A a \in A : a.key \in SourceKeys
         /\ SourceOptions(A, u)
<1> DEFINE a1 == Arg("--audio-device", u.type)
           a2 == Arg("--jack-gain", u.gain)
           s0 == <<a1>>
           g == <<a2>>
           w1 == TextArg("--alsa-device", u.alsa_device)
           w2 == TextArg("--file-name", u.file_name)
           w3 == TextArg("--jack-server-name", u.server_name)
           w4 == TextArg("--jack-client-name", u.client_name)
           j1 == w3 \o w4
           j2 == j1 \o g
           A == ToSet(SourceArgs(u))
<1>1. u.type \in {"alsa", "file", "jack"}
  BY DEF SourceOK, In, SourceBox
<1>2. Line(s0) /\ ToSet(s0) = {a1} /\ Line(g) /\ ToSet(g) = {a2}
  <2>1. \A a : Line(<<a>>) /\ ToSet(<<a>>) = {a}
    BY DEF Line, ToSet
  <2> QED BY <2>1
<1>3. /\ Line(w1) /\ ToSet(w1) = Maybe(u.alsa_device # NoText, "--alsa-device", u.alsa_device)
      /\ Line(w2) /\ ToSet(w2) = Maybe(u.file_name # NoText, "--file-name", u.file_name)
      /\ Line(w3) /\ ToSet(w3) = Maybe(u.server_name # NoText, "--jack-server-name", u.server_name)
      /\ Line(w4) /\ ToSet(w4) = Maybe(u.client_name # NoText, "--jack-client-name", u.client_name)
  BY TextGiven
<1>4. /\ u.type = "alsa" => SourceArgs(u) = s0 \o w1
      /\ u.type = "file" => SourceArgs(u) = s0 \o w2
      /\ u.type = "jack" => SourceArgs(u) = s0 \o j2
  <2> HIDE DEF w1, w2
  <2>1. SourceArgs(u) = s0 \o (CASE u.type = "alsa" -> w1 [] u.type = "file" -> w2
                                [] u.type = "jack" -> j2)
    BY DEF SourceArgs, w1, w2
  <2> HIDE DEF s0, j2
  <2> QED BY <2>1
<1> HIDE DEF s0, g, w1, w2, w3, w4
<1>5. Line(j1) /\ ToSet(j1) = ToSet(w3) \cup ToSet(w4)
  BY <1>3, ArgsJoined
<1> HIDE DEF j1
<1>6. Line(j2) /\ ToSet(j2) = ToSet(j1) \cup ToSet(g)
  BY <1>2, <1>5, ArgsJoined
<1> HIDE DEF j2, A
<1>7. CASE u.type = "alsa"
  <2>1. Line(SourceArgs(u)) /\ A = {a1} \cup Maybe(u.alsa_device # NoText, "--alsa-device", u.alsa_device)
    <3>1. SourceArgs(u) = s0 \o w1
      BY <1>4, <1>7
    <3>2. Line(s0 \o w1) /\ ToSet(s0 \o w1) = ToSet(s0) \cup ToSet(w1)
      BY <1>2, <1>3, ArgsJoined
    <3> QED BY <1>2, <1>3, <3>1, <3>2 DEF A
  <2> QED BY <1>7, <2>1 DEF Maybe, Arg, One, Lacks, Given, SourceKeys, SourceOptions, FieldOptions, A
<1>8. CASE u.type = "file"
  <2>1. Line(SourceArgs(u)) /\ A = {a1} \cup Maybe(u.file_name # NoText, "--file-name", u.file_name)
    <3>1. SourceArgs(u) = s0 \o w2
      BY <1>4, <1>8
    <3>2. Line(s0 \o w2) /\ ToSet(s0 \o w2) = ToSet(s0) \cup ToSet(w2)
      BY <1>2, <1>3, ArgsJoined
    <3> QED BY <1>2, <1>3, <3>1, <3>2 DEF A
  <2> QED BY <1>8, <2>1 DEF Maybe, Arg, One, Lacks, Given, SourceKeys, SourceOptions, FieldOptions, A
<1>9. CASE u.type = "jack"
  <2>1. Line(SourceArgs(u)) /\ A = {a1} \cup ToSet(j2)
    <3>1. SourceArgs(u) = s0 \o j2
      BY <1>4, <1>9
    <3>2. Line(s0 \o j2) /\ ToSet(s0 \o j2) = ToSet(s0) \cup ToSet(j2)
      BY <1>2, <1>6, ArgsJoined
    <3> QED BY <1>2, <3>1, <3>2 DEF A
  <2>2. A = {a1} \cup Maybe(u.server_name # NoText, "--jack-server-name", u.server_name)
            \cup Maybe(u.client_name # NoText, "--jack-client-name", u.client_name) \cup {a2}
    BY <1>2, <1>3, <1>5, <1>6, <2>1
  <2> QED BY <1>9, <2>1, <2>2 DEF Maybe, Arg, One, Lacks, Given, SourceKeys, SourceOptions, FieldOptions, A
<1> QED BY <1>1, <1>7, <1>8, <1>9

LastKeys == {"--meter-data", "--errors-to"}

\* What is in one part of the arguments, and in no other
Part(S, A, keys) == S \subseteq A /\ \A a \in A : a.key \in keys => a \in S

\* An option of that part is given, or lacks, in all as in the part.
LEMMA PartGiven ==
  ASSUME NEW S, NEW A, NEW keys, Part(S, A, keys), NEW key \in keys, NEW value
  PROVE  /\ One(S, key, value) => One(A, key, value)
         /\ Lacks(S, key) => Lacks(A, key)
  BY DEF Part, One, Lacks

(* The arguments of all four forms                                         *)
LEMMA FormsGiven ==
  ASSUME NEW f, FormsOK(f)
  PROVE  LET A == ToSet(MakeArgs(f)) IN
         /\ Line(MakeArgs(f))
         /\ Part(ToSet(ServerArgs(f.server)), A, ServerKeys)
         /\ Part(ToSet(CodecArgs(f.codec)), A, CodecKeys)
         /\ Part(ToSet(StreamArgs(f.stream)), A, StreamKeys)
         /\ Part(ToSet(SourceArgs(f.source)), A, SourceKeys)
         /\ One(A, "--meter-data", NoText) /\ One(A, "--errors-to", "stdout")
         /\ \A a \in A : a.key \in ServerKeys \cup CodecKeys \cup StreamKeys \cup SourceKeys
                                    \cup LastKeys
<1> DEFINE v == ServerArgs(f.server)
           c == CodecArgs(f.codec)
           m == StreamArgs(f.stream)
           u == SourceArgs(f.source)
           a1 == Arg("--meter-data", NoText)
           a2 == Arg("--errors-to", "stdout")
           w == <<a1, a2>>
           s1 == v \o c
           s2 == s1 \o m
           s3 == s2 \o u
           s4 == s3 \o w
<1>1. MakeArgs(f) = s4
  BY DEF MakeArgs
<1>2. Line(w) /\ ToSet(w) = {a1, a2}
  <2> HIDE DEF a1, a2
  <2> QED BY DEF Line, ToSet
<1>3. /\ Line(v) /\ \A a \in ToSet(v) : a.key \in ServerKeys
      /\ Line(c) /\ \A a \in ToSet(c) : a.key \in CodecKeys
      /\ Line(m) /\ \A a \in ToSet(m) : a.key \in StreamKeys
      /\ Line(u) /\ \A a \in ToSet(u) : a.key \in SourceKeys
  BY ServerGiven, CodecGiven, StreamGiven, SourceGiven DEF FormsOK
<1> HIDE DEF v, c, m, u, w
<1>4. Line(s1) /\ ToSet(s1) = ToSet(v) \cup ToSet(c)
  BY <1>3, ArgsJoined
<1> HIDE DEF s1
<1>5. Line(s2) /\ ToSet(s2) = ToSet(s1) \cup ToSet(m)
  BY <1>3, <1>4, ArgsJoined
<1> HIDE DEF s2
<1>6. Line(s3) /\ ToSet(s3) = ToSet(s2) \cup ToSet(u)
  BY <1>3, <1>5, ArgsJoined
<1> HIDE DEF s3
<1>7. Line(s4) /\ ToSet(s4) = ToSet(s3) \cup ToSet(w)
  BY <1>2, <1>6, ArgsJoined
<1> DEFINE A == ToSet(s4)
<1> HIDE DEF s4
<1>8. A = ToSet(v) \cup ToSet(c) \cup ToSet(m) \cup ToSet(u) \cup {a1, a2}
  BY <1>2, <1>4, <1>5, <1>6, <1>7
<1> HIDE DEF A
<1>9. a1.key = "--meter-data" /\ a2.key = "--errors-to"
  BY DEF Arg
<1> HIDE DEF a1, a2
<1>10. /\ ServerKeys \cap (CodecKeys \cup StreamKeys \cup SourceKeys \cup LastKeys) = {}
       /\ CodecKeys \cap (StreamKeys \cup SourceKeys \cup LastKeys) = {}
       /\ StreamKeys \cap (SourceKeys \cup LastKeys) = {} /\ SourceKeys \cap LastKeys = {}
  BY DEF ServerKeys, CodecKeys, StreamKeys, SourceKeys, LastKeys
<1>11. a1.key \in LastKeys /\ a2.key \in LastKeys /\ a1.key # a2.key
  BY <1>9 DEF LastKeys
<1>12. /\ Part(ToSet(v), A, ServerKeys) /\ Part(ToSet(c), A, CodecKeys)
       /\ Part(ToSet(m), A, StreamKeys) /\ Part(ToSet(u), A, SourceKeys)
  BY <1>3, <1>8, <1>10, <1>11 DEF Part
<1>13. One(A, "--meter-data", NoText) /\ One(A, "--errors-to", "stdout")
  BY <1>3, <1>8, <1>9, <1>10, <1>11 DEF One, a1, a2
<1>14. \A a \in A : a.key \in ServerKeys \cup CodecKeys \cup StreamKeys \cup SourceKeys \cup LastKeys
  BY <1>3, <1>8, <1>11
<1> QED BY <1>1, <1>7, <1>12, <1>13, <1>14 DEF A, v, c, m, u

(* What an argument makes of the field it sets, ...                        *)
LEMMA FieldSet ==
  ASSUME NEW args, Line(args), ~ReadOptions(args).exited, NEW key, NEW value,
         One(ToSet(args), key, value), NEW f \in DOMAIN KeyOf, Sets(Arg(key, value), f)
  PROVE  ReadOptions(args)[f] = SetTo(Arg(key, value), f)
<1> DEFINE r == ReadOptions(args)
           A == ToSet(args)
<1>1. \/ \E a \in A : Sets(a, f) /\ r[f] = SetTo(a, f)
      \/ (\A a \in A : ~Sets(a, f)) /\ r[f] = Defaults[f]
  BY SettingsOfArgs
<1>2. Arg(key, value) \in A /\ \A a \in A : a.key = key => a = Arg(key, value)
  BY DEF One
<1>3. Arg(key, value).key = key
  BY DEF Arg
<1> HIDE DEF r, A
<1>4. \A a \in A : Sets(a, f) => a = Arg(key, value)
  BY <1>2, <1>3, OneOption
<1> QED BY <1>1, <1>2, <1>4 DEF r

\* ... when its value is taken, ...
LEMMA ValueSet ==
  ASSUME NEW args, Line(args), ~ReadOptions(args).exited, NEW key, NEW value,
         One(ToSet(args), key, value), NEW f \in DOMAIN KeyOf,
         f \notin {"server_username", "server_password", "server_url", "server_base_url"},
         Option(key).kind \in {"text", "checked"}, Option(key).field = f
  PROVE  ReadOptions(args)[f] = value
<1>1. Arg(key, value).key = key /\ Arg(key, value).value = value
  BY DEF Arg
<1>2. Sets(Arg(key, value), f) /\ SetTo(Arg(key, value), f) = value
  BY <1>1 DEF Sets, SetTo
<1> DEFINE a == Arg(key, value)
<1>3. Sets(a, f)
  BY <1>2
<1>4. ReadOptions(args)[f] = SetTo(a, f)
  BY <1>3, FieldSet
<1> QED BY <1>2, <1>4

\* ... when it is a flag, ...
LEMMA FlagSet ==
  ASSUME NEW args, Line(args), ~ReadOptions(args).exited, NEW key, NEW value,
         One(ToSet(args), key, value), NEW f \in DOMAIN KeyOf,
         Option(key).kind = "flag", Option(key).field = f
  PROVE  ReadOptions(args)[f] = TRUE
<1>1. Arg(key, value).key = key /\ Arg(key, value).value = value
  BY DEF Arg
<1>2. Sets(Arg(key, value), f) /\ SetTo(Arg(key, value), f) = TRUE
  BY <1>1 DEF Sets, SetTo
<1> DEFINE a == Arg(key, value)
<1>3. Sets(a, f)
  BY <1>2
<1>4. ReadOptions(args)[f] = SetTo(a, f)
  BY <1>3, FieldSet
<1> QED BY <1>2, <1>4

\* ... and when there is none.
LEMMA FieldUnset ==
  ASSUME NEW args, Line(args), ~ReadOptions(args).exited, NEW f \in DOMAIN KeyOf,
         Lacks(ToSet(args), KeyOf[f])
  PROVE  ReadOptions(args)[f] = Defaults[f]
<1> DEFINE r == ReadOptions(args)
           A == ToSet(args)
<1>1. \/ \E a \in A : Sets(a, f) /\ r[f] = SetTo(a, f)
      \/ (\A a \in A : ~Sets(a, f)) /\ r[f] = Defaults[f]
  BY SettingsOfArgs
<1>2. \A a \in A : a.key # KeyOf[f]
  BY DEF Lacks
<1> HIDE DEF r, A
<1>3. \A a \in A : ~Sets(a, f)
  BY <1>2, OneOption
<1> QED BY <1>1, <1>3 DEF r

-----------------------------------------------------------------------------
(* The options of the dialogs: what is taken as it is, ...                 *)
Taken ==
  {"server_type", "credentials_file", "ssh_identity", "server_script_down",
   "server_script_up", "metadata_port", "server_max_connections",
   "audio_format", "audio_samplerate", "audio_channels", "audio_bitrate", "audio_quality",
   "stream_name", "stream_description", "stream_url", "stream_genre", "stream_icq",
   "stream_aim", "stream_irc", "stream_timestamp_offset"}

\* ... and the flags.
Flags ==
  {"server_no_deletes", "server_preclean_publish_point", "show_verbose", "meter_data",
   "list_codecs", "list_devices"}

\* They are so in the table.
LEMMA OptionTable ==
  /\ Option("--server-type") = Checked("server_type", ServerTypes)
  /\ Option("--server-script-down") = Text("server_script_down")
  /\ Option("--server-script-up") = Text("server_script_up")
  /\ Option("--server-max-connections") = Checked("server_max_connections", Nat)
  /\ Option("--credentials-file") = Text("credentials_file")
  /\ Option("--ssh-identity") = Text("ssh_identity")
  /\ Option("--metadata-port") = Checked("metadata_port", Ports)
  /\ Option("--audio-format") = Checked("audio_format", Formats)
  /\ Option("--audio-samplerate") = Checked("audio_samplerate", Nat)
  /\ Option("--audio-channels") = Checked("audio_channels", 1 .. MaxAudioChannels)
  /\ Option("--audio-bitrate") = Checked("audio_bitrate", Nat)
  /\ Option("--audio-quality") = Checked("audio_quality", 0 .. 100)
  /\ Option("--stream-name") = Text("stream_name")
  /\ Option("--stream-description") = Text("stream_description")
  /\ Option("--stream-url") = Text("stream_url")
  /\ Option("--stream-genre") = Text("stream_genre")
  /\ Option("--stream-icq") = Text("stream_icq")
  /\ Option("--stream-aim") = Text("stream_aim")
  /\ Option("--stream-irc") = Text("stream_irc")
  /\ Option("--stream-timestamp-offset") = Checked("stream_timestamp_offset", Int)
  /\ Option("--server-no-deletes") = Flag("server_no_deletes")
  /\ Option("--server-preclean-publish-point") = Flag("server_preclean_publish_point")
  /\ Option("--verbose") = Flag("show_verbose")
  /\ Option("--meter-data") = Flag("meter_data")
  /\ Option("--list-codecs") = Flag("list_codecs")
  /\ Option("--list-devices") = Flag("list_devices")
<1>1. /\ Option("--server-type") = Checked("server_type", ServerTypes)
      /\ Option("--server-script-down") = Text("server_script_down")
      /\ Option("--server-script-up") = Text("server_script_up")
      /\ Option("--server-max-connections") = Checked("server_max_connections", Nat)
  BY DEF Option, GeneralOption, ServerOption, StreamOption
<1>2. /\ Option("--credentials-file") = Text("credentials_file")
      /\ Option("--ssh-identity") = Text("ssh_identity")
      /\ Option("--metadata-port") = Checked("metadata_port", Ports)
  BY DEF Option, GeneralOption, ServerOption, StreamOption
<1>3. /\ Option("--audio-format") = Checked("audio_format", Formats)
      /\ Option("--audio-samplerate") = Checked("audio_samplerate", Nat)
      /\ Option("--audio-channels") = Checked("audio_channels", 1 .. MaxAudioChannels)
      /\ Option("--audio-bitrate") = Checked("audio_bitrate", Nat)
      /\ Option("--audio-quality") = Checked("audio_quality", 0 .. 100)
  BY DEF Option, GeneralOption, ServerOption, StreamOption
<1>4. /\ Option("--stream-name") = Text("stream_name")
      /\ Option("--stream-description") = Text("stream_description")
      /\ Option("--stream-url") = Text("stream_url")
      /\ Option("--stream-genre") = Text("stream_genre")
  BY DEF Option, GeneralOption, ServerOption, StreamOption
<1>5. /\ Option("--stream-icq") = Text("stream_icq")
      /\ Option("--stream-aim") = Text("stream_aim")
      /\ Option("--stream-irc") = Text("stream_irc")
      /\ Option("--stream-timestamp-offset") = Checked("stream_timestamp_offset", Int)
  BY DEF Option, GeneralOption, ServerOption, StreamOption
<1>6. /\ Option("--server-no-deletes") = Flag("server_no_deletes")
      /\ Option("--server-preclean-publish-point") = Flag("server_preclean_publish_point")
      /\ Option("--verbose") = Flag("show_verbose")
      /\ Option("--meter-data") = Flag("meter_data")
      /\ Option("--list-codecs") = Flag("list_codecs")
      /\ Option("--list-devices") = Flag("list_devices")
  BY DEF Option, GeneralOption, ServerOption, StreamOption
<1> QED BY <1>1, <1>2, <1>3, <1>4, <1>5, <1>6

\* Each of them sets the field of its name.
LEMMA TakenOptions ==
  /\ Taken \subseteq DOMAIN KeyOf /\ Flags \subseteq DOMAIN KeyOf
  /\ \A f \in Taken : Option(KeyOf[f]).kind \in {"text", "checked"} /\ Option(KeyOf[f]).field = f
  /\ \A f \in Flags : Option(KeyOf[f]).kind = "flag" /\ Option(KeyOf[f]).field = f
<1>1. Taken \subseteq DOMAIN KeyOf /\ Flags \subseteq DOMAIN KeyOf
  BY DEF Taken, Flags, KeyOf
<1>2. /\ \A f, valid : /\ Checked(f, valid).kind = "checked" /\ Checked(f, valid).field = f
                       /\ Text(f).kind = "text" /\ Text(f).field = f
                       /\ Flag(f).kind = "flag" /\ Flag(f).field = f
  BY DEF Checked, Text, Flag
<1>3. ASSUME NEW f \in Taken
      PROVE  Option(KeyOf[f]).kind \in {"text", "checked"} /\ Option(KeyOf[f]).field = f
  BY <1>2, OptionTable DEF Taken, KeyOf
<1>4. ASSUME NEW f \in Flags
      PROVE  Option(KeyOf[f]).kind = "flag" /\ Option(KeyOf[f]).field = f
  BY <1>2, OptionTable DEF Flags, KeyOf
<1> QED BY <1>1, <1>3, <1>4

\* What they leave in the settings
Told(r, A) ==
  /\ \A f \in Taken : /\ \A value : One(A, KeyOf[f], value) => r[f] = value
                      /\ Lacks(A, KeyOf[f]) => r[f] = Defaults[f]
  /\ \A f \in Flags : /\ \A value : One(A, KeyOf[f], value) => r[f] = TRUE
                      /\ Lacks(A, KeyOf[f]) => r[f] = Defaults[f]

\* And so it is, for any command line that is not refused.
LEMMA AllTold ==
  ASSUME NEW args, Line(args), ~ReadOptions(args).exited
  PROVE  Told(ReadOptions(args), ToSet(args))
<1> DEFINE r == ReadOptions(args)
           A == ToSet(args)
<1>1. ASSUME NEW f \in Taken, NEW value, One(A, KeyOf[f], value)
      PROVE  r[f] = value
  <2>1. f \notin {"server_username", "server_password", "server_url", "server_base_url"}
    BY DEF Taken
  <2> DEFINE key == KeyOf[f]
  <2>2. f \in DOMAIN KeyOf /\ Option(key).kind \in {"text", "checked"} /\ Option(key).field = f
    BY TakenOptions
  <2>3. One(A, key, value)
    BY <1>1
  <2> HIDE DEF key
  <2> QED BY <2>1, <2>2, <2>3, ValueSet
<1>2. ASSUME NEW f \in Flags, NEW value, One(A, KeyOf[f], value)
      PROVE  r[f] = TRUE
  <2> DEFINE key == KeyOf[f]
  <2>2. f \in DOMAIN KeyOf /\ Option(key).kind = "flag" /\ Option(key).field = f
    BY TakenOptions
  <2>3. One(A, key, value)
    BY <1>2
  <2> HIDE DEF key
  <2> QED BY <2>2, <2>3, FlagSet
<1>3. ASSUME NEW f \in Taken \cup Flags, Lacks(A, KeyOf[f])
      PROVE  r[f] = Defaults[f]
  <2>1. f \in DOMAIN KeyOf
    BY TakenOptions
  <2> QED BY <1>3, <2>1, FieldUnset
<1> HIDE DEF r, A
<1>4. Told(r, A)
  BY <1>1, <1>2, <1>3 DEF Told
<1> QED BY <1>4 DEF r, A

\* The arguments of a dialog are among all of them.
LEMMA OptionsOfForms ==
  ASSUME NEW f, FormsOK(f)
  PROVE  LET A == ToSet(MakeArgs(f)) IN
         /\ ServerOptions(A, f.server) /\ CodecOptions(A, f.codec)
         /\ StreamOptions(A, f.stream) /\ SourceOptions(A, f.source)
         /\ One(A, "--meter-data", NoText) /\ One(A, "--errors-to", "stdout")
         /\ Lacks(A, "--list-codecs") /\ Lacks(A, "--list-devices")
         /\ Lacks(A, "--delete-credentials")
         /\ \A a \in A : a.key \in ServerKeys \cup CodecKeys \cup StreamKeys \cup SourceKeys
                                    \cup LastKeys
<1> DEFINE A == ToSet(MakeArgs(f))
           v == f.server
           c == f.codec
           m == f.stream
           u == f.source
           SV == ToSet(ServerArgs(v))
           SC == ToSet(CodecArgs(c))
           SM == ToSet(StreamArgs(m))
           SU == ToSet(SourceArgs(u))
<1>1. /\ Part(SV, A, ServerKeys) /\ Part(SC, A, CodecKeys)
      /\ Part(SM, A, StreamKeys) /\ Part(SU, A, SourceKeys)
      /\ One(A, "--meter-data", NoText) /\ One(A, "--errors-to", "stdout")
      /\ \A a \in A : a.key \in ServerKeys \cup CodecKeys \cup StreamKeys \cup SourceKeys
                                 \cup LastKeys
  BY FormsGiven
<1>2. /\ ServerOptions(SV, v) /\ CodecOptions(SC, c)
      /\ StreamOptions(SM, m) /\ SourceOptions(SU, u)
  BY ServerGiven, CodecGiven, StreamGiven, SourceGiven DEF FormsOK
<1> HIDE DEF A, v, c, m, u, SV, SC, SM, SU
<1>3. ServerOptions(A, v)
  <2>1. \A key \in ServerKeys : /\ \A value : One(SV, key, value) => One(A, key, value)
                                /\ Lacks(SV, key) => Lacks(A, key)
    BY <1>1, PartGiven
  <2>2. ASSUME NEW key \in ServerKeys, NEW given, NEW value, Given(SV, key, given, value)
        PROVE  Given(A, key, given, value)
    BY <2>1, <2>2 DEF Given
  <2>3. \A key \in {"--server-type", "--server-url", "--credentials-file",
           "--ssh-identity", "--server-script-down", "--server-script-up",
           "--metadata-port", "--server-max-connections", "--server-no-deletes",
           "--server-preclean-publish-point", "--verbose"} : key \in ServerKeys
    BY DEF ServerKeys
  <2> QED BY <1>2, <2>1, <2>2, <2>3 DEF ServerOptions
<1>4. CodecOptions(A, c)
  <2>1. \A key \in CodecKeys : /\ \A value : One(SC, key, value) => One(A, key, value)
                               /\ Lacks(SC, key) => Lacks(A, key)
    BY <1>1, PartGiven
  <2>2. ASSUME NEW key \in CodecKeys, NEW given, NEW value, Given(SC, key, given, value)
        PROVE  Given(A, key, given, value)
    BY <2>1, <2>2 DEF Given
  <2>3. \A key \in {"--audio-format", "--audio-samplerate", "--audio-channels",
           "--audio-bitrate", "--audio-quality"} : key \in CodecKeys
    BY DEF CodecKeys
  <2> QED BY <1>2, <2>1, <2>2, <2>3 DEF CodecOptions
<1>5. StreamOptions(A, m)
  <2>1. \A key \in StreamKeys : /\ \A value : One(SM, key, value) => One(A, key, value)
                                /\ Lacks(SM, key) => Lacks(A, key)
    BY <1>1, PartGiven
  <2>2. ASSUME NEW key \in StreamKeys, NEW given, NEW value, Given(SM, key, given, value)
        PROVE  Given(A, key, given, value)
    BY <2>1, <2>2 DEF Given
  <2>3. \A key \in {"--stream-name", "--stream-description", "--stream-url",
           "--stream-genre", "--stream-icq", "--stream-aim",
           "--stream-irc", "--stream-timestamp-offset"} : key \in StreamKeys
    BY DEF StreamKeys
  <2> QED BY <1>2, <2>1, <2>2, <2>3 DEF StreamOptions
<1>6. SourceOptions(A, u)
  <2>1. \A key \in SourceKeys : /\ \A value : One(SU, key, value) => One(A, key, value)
                                /\ Lacks(SU, key) => Lacks(A, key)
    BY <1>1, PartGiven
  <2>2. ASSUME NEW key \in SourceKeys, NEW given, NEW value, Given(SU, key, given, value)
        PROVE  Given(A, key, given, value)
    BY <2>1, <2>2 DEF Given
  <2>3. \A key \in {"--audio-device", "--alsa-device", "--file-name",
           "--jack-server-name", "--jack-client-name", "--jack-gain"} : key \in SourceKeys
    BY DEF SourceKeys
  <2> QED BY <1>2, <2>1, <2>2, <2>3 DEF SourceOptions, FieldOptions
<1>7. /\ Lacks(A, "--list-codecs") /\ Lacks(A, "--list-devices")
      /\ Lacks(A, "--delete-credentials")
  BY <1>1 DEF Lacks, ServerKeys, CodecKeys, StreamKeys, SourceKeys, LastKeys
<1> QED BY <1>1, <1>3, <1>4, <1>5, <1>6, <1>7 DEF A, v, c, m, u

\* A value that is given, and one that is not; a flag that is, and one that is not
LEMMA ToldValue ==
  ASSUME NEW r, NEW A, Told(r, A), NEW f \in Taken, NEW key, KeyOf[f] = key, NEW x
  PROVE  /\ One(A, key, x) => r[f] = x
         /\ Lacks(A, key) => r[f] = Defaults[f]
  BY DEF Told

\* A text that is left out when it is empty is read back as it was.
LEMMA ToldText ==
  ASSUME NEW r, NEW A, Told(r, A), NEW f \in Taken, NEW key, KeyOf[f] = key,
         Defaults[f] = NoText, NEW x, Given(A, key, x # NoText, x)
  PROVE  r[f] = x
  BY ToldValue DEF Given

\* A flag
LEMMA ToldFlag ==
  ASSUME NEW r, NEW A, Told(r, A), NEW f \in Flags, NEW key, KeyOf[f] = key
  PROVE  /\ One(A, key, NoText) => r[f] = TRUE
         /\ Lacks(A, key) => r[f] = Defaults[f]
  BY DEF Told

\* What is left of the server form: the URL and its login apart, everything
LEMMA ServerRead ==
  ASSUME NEW r, NEW A, Told(r, A), NEW v, ServerOK(v), ServerOptions(A, v)
  PROVE  /\ r.server_type = v.type /\ r.credentials_file = CredentialsFilename(v)
         /\ r.ssh_identity = IF WithIdentity(v) THEN v.identity ELSE NoText
         /\ r.server_script_down = v.script_down /\ r.server_script_up = v.script_up
         /\ r.metadata_port = v.metadata_port /\ r.server_max_connections = v.maxconns
         /\ r.server_no_deletes = ~v.cleanup
         /\ r.server_preclean_publish_point = v.preclean /\ r.show_verbose = v.verbose
<1>1. /\ "server_type" \in Taken /\ KeyOf["server_type"] = "--server-type"
      /\ "credentials_file" \in Taken /\ KeyOf["credentials_file"] = "--credentials-file"
      /\ "ssh_identity" \in Taken /\ KeyOf["ssh_identity"] = "--ssh-identity"
      /\ "server_script_down" \in Taken /\ KeyOf["server_script_down"] = "--server-script-down"
      /\ "server_script_up" \in Taken /\ KeyOf["server_script_up"] = "--server-script-up"
      /\ "metadata_port" \in Taken /\ KeyOf["metadata_port"] = "--metadata-port"
      /\ "server_max_connections" \in Taken
      /\ KeyOf["server_max_connections"] = "--server-max-connections"
  BY DEF Taken, KeyOf
<1>2. /\ "server_no_deletes" \in Flags /\ KeyOf["server_no_deletes"] = "--server-no-deletes"
      /\ "server_preclean_publish_point" \in Flags
      /\ KeyOf["server_preclean_publish_point"] = "--server-preclean-publish-point"
      /\ "show_verbose" \in Flags /\ KeyOf["show_verbose"] = "--verbose"
  BY DEF Flags, KeyOf
<1>3. /\ Defaults["ssh_identity"] = NoText /\ Defaults["server_script_down"] = NoText
      /\ Defaults["server_script_up"] = NoText /\ Defaults["metadata_port"] = 0
      /\ Defaults["server_max_connections"] = -1 /\ Defaults["server_no_deletes"] = FALSE
      /\ Defaults["server_preclean_publish_point"] = FALSE /\ Defaults["show_verbose"] = FALSE
  BY DEF Defaults
<1>4. r.server_type = v.type /\ r.credentials_file = CredentialsFilename(v)
  <2> DEFINE type == v.type
             name == CredentialsFilename(v)
  <2>1. One(A, "--server-type", type) /\ One(A, "--credentials-file", name)
    BY DEF ServerOptions
  <2> HIDE DEF type, name
  <2>2. r["server_type"] = type
    BY <1>1, <2>1, ToldValue
  <2>3. r["credentials_file"] = name
    BY <1>1, <2>1, ToldValue
  <2> QED BY <2>2, <2>3 DEF type, name
<1>5. r.ssh_identity = IF WithIdentity(v) THEN v.identity ELSE NoText
  BY <1>1, <1>3, ToldValue DEF ServerOptions, Given
<1>6. r.server_script_down = v.script_down /\ r.server_script_up = v.script_up
  BY <1>1, <1>3, ToldValue DEF ServerOptions, Given
<1>7. v.metadata_port \in Nat /\ v.maxconns \in Int /\ v.maxconns >= -1
  <2>1. MaxSpin \in Nat
    BY DEF MaxSpin
  <2>2. v.maxconns \in -1 .. MaxSpin /\ v.metadata_port \in 0 .. MaxSpin
    BY DEF ServerOK
  <2> QED BY <2>1, <2>2
<1>8. r.metadata_port = v.metadata_port /\ r.server_max_connections = v.maxconns
  BY <1>1, <1>3, <1>7, ToldValue DEF ServerOptions, Given
<1>9. v.cleanup \in BOOLEAN /\ v.preclean \in BOOLEAN /\ v.verbose \in BOOLEAN
  BY DEF ServerOK
<1>10. r.server_no_deletes = ~v.cleanup
  <2>1. CASE v.cleanup = TRUE
    BY <1>2, <1>3, <2>1, ToldFlag DEF ServerOptions, Given
  <2>2. CASE v.cleanup = FALSE
    BY <1>2, <1>3, <2>2, ToldFlag DEF ServerOptions, Given
  <2> QED BY <1>9, <2>1, <2>2
<1>11. r.server_preclean_publish_point = v.preclean
  <2>1. CASE v.preclean = TRUE
    BY <1>2, <1>3, <2>1, ToldFlag DEF ServerOptions, Given
  <2>2. CASE v.preclean = FALSE
    BY <1>2, <1>3, <2>2, ToldFlag DEF ServerOptions, Given
  <2> QED BY <1>9, <2>1, <2>2
<1>12. r.show_verbose = v.verbose
  <2>1. CASE v.verbose = TRUE
    BY <1>2, <1>3, <2>1, ToldFlag DEF ServerOptions, Given
  <2>2. CASE v.verbose = FALSE
    BY <1>2, <1>3, <2>2, ToldFlag DEF ServerOptions, Given
  <2> QED BY <1>9, <2>1, <2>2
<1> QED BY <1>4, <1>5, <1>6, <1>8, <1>10, <1>11, <1>12

\* ... of the codec form, ...
LEMMA CodecRead ==
  ASSUME NEW r, NEW A, Told(r, A), NEW c, CodecOptions(A, c)
  PROVE  /\ r.audio_format = c.type /\ r.audio_samplerate = c.rate
         /\ r.audio_channels = c.channels
         /\ r.audio_bitrate = IF c.type \in {"mp2", "mp3", "aacp", "opus"} THEN c.bits ELSE 0
         /\ r.audio_quality = IF c.type = "vorbis" THEN 100 * c.bits ELSE NoQuality
<1>1. /\ "audio_format" \in Taken /\ KeyOf["audio_format"] = "--audio-format"
      /\ "audio_samplerate" \in Taken /\ KeyOf["audio_samplerate"] = "--audio-samplerate"
      /\ "audio_channels" \in Taken /\ KeyOf["audio_channels"] = "--audio-channels"
      /\ "audio_bitrate" \in Taken /\ KeyOf["audio_bitrate"] = "--audio-bitrate"
      /\ "audio_quality" \in Taken /\ KeyOf["audio_quality"] = "--audio-quality"
  BY DEF Taken, KeyOf
<1>2. Defaults["audio_bitrate"] = 0 /\ Defaults["audio_quality"] = NoQuality
  BY DEF Defaults
<1>3. /\ r.audio_format = c.type /\ r.audio_samplerate = c.rate
      /\ r.audio_channels = c.channels
  <2>1. /\ One(A, "--audio-format", c.type) /\ One(A, "--audio-samplerate", c.rate)
        /\ One(A, "--audio-channels", c.channels)
    BY DEF CodecOptions
  <2>2. r["audio_format"] = c.type
    BY <1>1, <2>1, ToldValue
  <2>3. r["audio_samplerate"] = c.rate
    BY <1>1, <2>1, ToldValue
  <2>4. r["audio_channels"] = c.channels
    BY <1>1, <2>1, ToldValue
  <2> QED BY <2>2, <2>3, <2>4
<1>4. r.audio_bitrate = IF c.type \in {"mp2", "mp3", "aacp", "opus"} THEN c.bits ELSE 0
  BY <1>1, <1>2, ToldValue DEF CodecOptions, Given
<1>5. r.audio_quality = IF c.type = "vorbis" THEN 100 * c.bits ELSE NoQuality
  BY <1>1, <1>2, ToldValue DEF CodecOptions, Given
<1> QED BY <1>3, <1>4, <1>5

\* ... of the stream form, ...
LEMMA StreamRead ==
  ASSUME NEW r, NEW A, Told(r, A), NEW m, StreamOptions(A, m)
  PROVE  /\ r.stream_timestamp_offset = m.offset
         /\ \A k \in StreamTexts : r[StreamField[k]] = m.texts[k]
<1>1. /\ "stream_timestamp_offset" \in Taken
      /\ KeyOf["stream_timestamp_offset"] = "--stream-timestamp-offset"
      /\ Defaults["stream_timestamp_offset"] = 0
  BY DEF Taken, KeyOf, Defaults
<1>2. r.stream_timestamp_offset = m.offset
  BY <1>1, ToldValue DEF StreamOptions, Given
<1>3. ASSUME NEW k \in StreamTexts
      PROVE  r[StreamField[k]] = m.texts[k]
  <2> DEFINE t == m.texts
             f == StreamField[k]
             key == KeyOf[f]
             x == t[k]
  <2>1. k \in {"name", "description", "url", "genre", "icq", "aim", "irc"}
    BY DEF StreamTexts, StreamTag
  <2>2. f \in Taken
    BY <2>1 DEF StreamField, Taken
  <2>3. /\ k = "name" => f = "stream_name" /\ key = "--stream-name"
        /\ k = "description" => f = "stream_description" /\ key = "--stream-description"
        /\ k = "url" => f = "stream_url" /\ key = "--stream-url"
        /\ k = "genre" => f = "stream_genre" /\ key = "--stream-genre"
        /\ k = "icq" => f = "stream_icq" /\ key = "--stream-icq"
        /\ k = "aim" => f = "stream_aim" /\ key = "--stream-aim"
        /\ k = "irc" => f = "stream_irc" /\ key = "--stream-irc"
    BY DEF StreamField, KeyOf
  <2>4. Defaults[f] = NoText
    BY <2>1, <2>3 DEF Defaults
  <2>5. Given(A, key, x # NoText, x)
    <3>1. /\ Given(A, "--stream-name", t.name # NoText, t.name)
          /\ Given(A, "--stream-description", t.description # NoText, t.description)
          /\ Given(A, "--stream-url", t.url # NoText, t.url)
          /\ Given(A, "--stream-genre", t.genre # NoText, t.genre)
          /\ Given(A, "--stream-icq", t.icq # NoText, t.icq)
          /\ Given(A, "--stream-aim", t.aim # NoText, t.aim)
          /\ Given(A, "--stream-irc", t.irc # NoText, t.irc)
      BY DEF StreamOptions
    <3> HIDE DEF t, f, key
    <3> QED BY <2>1, <2>3, <3>1
  <2> HIDE DEF f, key, x
  <2>6. r[f] = x
    BY <2>2, <2>4, <2>5, ToldText DEF key
  <2> QED BY <2>6 DEF f, x
<1> QED BY <1>2, <1>3

\* ... and what the window asks for itself.
LEMMA WindowRead ==
  ASSUME NEW r, NEW A, Told(r, A), One(A, "--meter-data", NoText),
         Lacks(A, "--list-codecs"), Lacks(A, "--list-devices")
  PROVE  r.meter_data = TRUE /\ r.list_codecs = FALSE /\ r.list_devices = FALSE
<1>1. /\ "meter_data" \in Flags /\ KeyOf["meter_data"] = "--meter-data"
      /\ "list_codecs" \in Flags /\ KeyOf["list_codecs"] = "--list-codecs"
      /\ "list_devices" \in Flags /\ KeyOf["list_devices"] = "--list-devices"
  BY DEF Flags, KeyOf
<1>2. Defaults["list_codecs"] = FALSE /\ Defaults["list_devices"] = FALSE
  BY DEF Defaults
<1> QED BY <1>1, <1>2, ToldFlag

\* The URL with its port, the audio device, and where the messages go
LEMMA PlacesRead ==
  ASSUME NEW args, Line(args), ~ReadOptions(args).exited, NEW v, NEW u, SourceOK(u),
         ServerOptions(ToSet(args), v), SourceOptions(ToSet(args), u),
         One(ToSet(args), "--errors-to", "stdout")
  PROVE  LET r == ReadOptions(args) IN
         /\ r.server_url = [v.location EXCEPT !.port = IF @ < 0 THEN DefaultPort[v.location.scheme]
                                                       ELSE @]
         /\ r.server_base_url = Front(v.location.path)
         /\ r.audio_device = u.type /\ r.log_to = "stdout"
<1> DEFINE r == ReadOptions(args)
           A == ToSet(args)
<1>1. /\ {"server_url", "server_base_url", "audio_device", "log_to"} \subseteq DOMAIN KeyOf
      /\ Option("--server-url") = [kind |-> "url"]
      /\ Option("--audio-device") = Offered("audio_device", Devices)
      /\ Option("--errors-to") = Offered("log_to", {"stderr", "syslog", "stdout"})
  BY DEF KeyOf, Option, GeneralOption, ServerOption
<1>2. \A key, x : Arg(key, x).key = key /\ Arg(key, x).value = x
  BY DEF Arg
<1>3. /\ One(A, "--server-url", v.location) /\ One(A, "--audio-device", u.type)
      /\ One(A, "--errors-to", "stdout")
  BY DEF ServerOptions, SourceOptions
<1>4. u.type \in Devices
  BY DEF SourceOK, In, SourceBox, Devices
<1> DEFINE a == Arg("--server-url", v.location)
           b == Arg("--audio-device", u.type)
           e == Arg("--errors-to", "stdout")
<1>5. Sets(a, "server_url") /\ Sets(a, "server_base_url")
  BY <1>1, <1>2 DEF Sets
<1>6. Sets(b, "audio_device") /\ Sets(e, "log_to")
  BY <1>1, <1>2, <1>4 DEF Sets, Offered
<1>7. /\ r["server_url"] = SetTo(a, "server_url")
      /\ r["server_base_url"] = SetTo(a, "server_base_url")
  BY <1>1, <1>3, <1>5, FieldSet
<1>8. r["audio_device"] = SetTo(b, "audio_device") /\ r["log_to"] = SetTo(e, "log_to")
  BY <1>1, <1>3, <1>6, FieldSet
<1>9. Option(a.key).kind # "flag" /\ Option(b.key).kind # "flag" /\ Option(e.key).kind # "flag"
  BY <1>1, <1>2 DEF Offered
<1>10. /\ a.value = v.location /\ b.value = u.type /\ e.value = "stdout"
  BY <1>2
<1> HIDE DEF a, b, e, r
<1>11. SetTo(b, "audio_device") = u.type /\ SetTo(e, "log_to") = "stdout"
  BY <1>9, <1>10 DEF SetTo
<1>12. /\ SetTo(a, "server_url") = [a.value EXCEPT !.port = IF @ < 0 THEN DefaultPort[a.value.scheme]
                                                    ELSE @]
       /\ SetTo(a, "server_base_url") = Front(a.value.path)
  BY <1>9 DEF SetTo
<1>13. /\ SetTo(a, "server_url") = [v.location EXCEPT !.port = IF @ < 0 THEN DefaultPort[v.location.scheme]
                                                    ELSE @]
       /\ SetTo(a, "server_base_url") = Front(v.location.path)
  BY <1>10, <1>12
<1> QED BY <1>7, <1>8, <1>11, <1>13 DEF r

-----------------------------------------------------------------------------
(* After the options: the credentials file gives the login, and nothing else ... *)
LEMMA CredentialsRead ==
  ASSUME NEW r, Read0(r), r.exited = FALSE, NEW fs,
         r.credentials_file # << >>, r.credentials_file \in DOMAIN fs
  PROVE  LET c == ReadCredentials(r, fs)
             login == fs[r.credentials_file] IN
         /\ Read0(c) /\ c.exited = FALSE /\ c.device_options = r.device_options
         /\ c.server_username = Trim(login.Username)
         /\ c.server_password = Trim(login.Password)
         /\ \A k \in DOMAIN KeyOf \ {"server_username", "server_password"} : c[k] = r[k]
<1> DEFINE login == fs[r.credentials_file]
           x == Trim(login.Username)
           y == Trim(login.Password)
           s == [r EXCEPT !.server_username = x]
           c == [s EXCEPT !.server_password = y]
           D == DOMAIN Defaults
<1>1. ReadCredentials(r, fs) = c
  BY Zenon DEF ReadCredentials
<1>2. {"server_username", "server_password"} \subseteq DOMAIN KeyOf
  BY DEF KeyOf
<1>3. /\ "exited" \in D /\ "device_options" \in D
      /\ "server_username" \in D /\ "server_password" \in D /\ DOMAIN KeyOf \subseteq D
  BY <1>2, SettingsFields
<1> HIDE DEF login, x, y
<1>4. DOMAIN s = D /\ \A k \in D : s[k] = IF k = "server_username" THEN x ELSE r[k]
  BY DEF Read0
<1>5. /\ DOMAIN c = D /\ c = [k \in D |-> c[k]]
      /\ \A k \in D : c[k] = IF k = "server_password" THEN y ELSE s[k]
  <2> HIDE DEF s
  <2> QED BY <1>4
<1> HIDE DEF s, c, D
<1>6. /\ c.exited = FALSE /\ c.device_options = r.device_options
      /\ c.server_username = x /\ c.server_password = y
  BY <1>3, <1>4, <1>5
<1>7. \A k \in DOMAIN KeyOf \ {"server_username", "server_password"} : c[k] = r[k]
  BY <1>3, <1>4, <1>5
<1>8. Read0(c)
  BY <1>5 DEF Read0, D
<1>9. /\ Read0(c) /\ c.exited = FALSE /\ c.device_options = r.device_options
      /\ c.server_username = Trim(login.Username)
      /\ c.server_password = Trim(login.Password)
      /\ \A k \in DOMAIN KeyOf \ {"server_username", "server_password"} : c[k] = r[k]
  BY <1>6, <1>7, <1>8 DEF x, y
<1> QED BY <1>1, <1>9 DEF login

\* ... and the checks change the bit rate at most, when they refuse nothing.
LEMMA ChecksMade ==
  ASSUME NEW c, Read0(c)
  PROVE  LET s == SanityChecks(c) IN
         /\ Fails(c) => s.exited = TRUE
         /\ ~Fails(c) =>
              /\ s.exited = c.exited /\ s.device_options = c.device_options
              /\ \A k \in DOMAIN KeyOf \ {"audio_bitrate"} : s[k] = c[k]
              /\ s.audio_bitrate = IF c.audio_quality < 0 /\ c.audio_bitrate = 0
                                   THEN DefaultAudioBitrate ELSE c.audio_bitrate
<1> DEFINE s == SanityChecks(c)
           D == DOMAIN Defaults
<1>1. s = IF Fails(c) THEN [c EXCEPT !.exited = TRUE]
          ELSE IF c.audio_quality < 0 /\ c.audio_bitrate = 0
          THEN [c EXCEPT !.audio_bitrate = DefaultAudioBitrate]
          ELSE c
  BY Zenon DEF SanityChecks, Fails
<1>2. "audio_bitrate" \in DOMAIN KeyOf
  BY DEF KeyOf
<1>3. /\ "exited" \in D /\ "device_options" \in D /\ DOMAIN KeyOf \subseteq D
      /\ DOMAIN c = D /\ "audio_bitrate" \in D
      /\ "exited" \notin DOMAIN KeyOf /\ "device_options" \notin DOMAIN KeyOf
  BY <1>2, SettingsFields DEF Read0
<1> HIDE DEF s, D
<1>4. ASSUME Fails(c)
      PROVE  s.exited = TRUE
  BY <1>1, <1>3, <1>4
<1>5. CASE Fails(c)
  BY <1>4, <1>5 DEF s
<1>6. CASE ~Fails(c) /\ c.audio_quality < 0 /\ c.audio_bitrate = 0
  <2>1. s = [c EXCEPT !.audio_bitrate = DefaultAudioBitrate]
    BY <1>1, <1>6
  <2>2. \A k \in D : s[k] = IF k = "audio_bitrate" THEN DefaultAudioBitrate ELSE c[k]
    BY <1>3, <2>1
  <2>3. /\ s.exited = c.exited /\ s.device_options = c.device_options
        /\ \A k \in DOMAIN KeyOf \ {"audio_bitrate"} : s[k] = c[k]
        /\ s.audio_bitrate = DefaultAudioBitrate
    BY <1>3, <2>2
  <2> QED BY <1>6, <2>3 DEF s
<1>7. CASE ~Fails(c) /\ ~(c.audio_quality < 0 /\ c.audio_bitrate = 0)
  <2>1. s = c
    BY <1>1, <1>7
  <2> QED BY <1>7, <2>1 DEF s
<1> QED BY <1>5, <1>6, <1>7

-----------------------------------------------------------------------------
(* What is left to the audio device of the arguments of the dialogs: those *)
(* of the source dialog, but for the one that names the device.            *)
DeviceKeys ==
  {"--alsa-device", "--file-name", "--jack-server-name", "--jack-client-name", "--jack-gain"}

\* The options that glasscoder takes, and those that it leaves to the device
LEMMA KindsOfKeys ==
  /\ \A key \in ServerKeys \cup CodecKeys \cup StreamKeys \cup {"--meter-data"} :
       Option(key).kind \in {"flag", "text", "checked", "url"}
  /\ \A key \in DeviceKeys : Option(key).kind = "unknown"
  /\ Option("--audio-device") = Offered("audio_device", Devices)
  /\ Option("--errors-to") = Offered("log_to", {"stderr", "syslog", "stdout"})
<1>1. \A f, valid : Checked(f, valid).kind = "checked" /\ Text(f).kind = "text" /\ Flag(f).kind = "flag"
  BY DEF Checked, Text, Flag
<1>2. \A key \in ServerKeys : Option(key).kind \in {"flag", "text", "checked", "url"}
  <2>1. Option("--server-url").kind = "url"
    BY DEF Option, GeneralOption, ServerOption
  <2> QED BY <1>1, <2>1, OptionTable DEF ServerKeys
<1>3. \A key \in CodecKeys : Option(key).kind \in {"flag", "text", "checked", "url"}
  BY <1>1, OptionTable DEF CodecKeys
<1>4. \A key \in StreamKeys \cup {"--meter-data"} : Option(key).kind \in {"flag", "text", "checked", "url"}
  BY <1>1, OptionTable DEF StreamKeys
<1>5. ASSUME NEW key \in DeviceKeys
      PROVE  Option(key).kind = "unknown"
  <2> DEFINE general == GeneralOption(key)
             server == ServerOption(key)
  <2>1. StreamOption(key) = Unknown
    BY DEF DeviceKeys, StreamOption
  <2>2. server = StreamOption(key)
    BY DEF DeviceKeys, ServerOption
  <2> HIDE DEF server
  <2>3. general = server
    BY DEF DeviceKeys, GeneralOption, server
  <2> HIDE DEF general
  <2>4. Option(key) = general
    BY DEF DeviceKeys, Option, general
  <2> QED BY <2>1, <2>2, <2>3, <2>4 DEF Unknown
<1>6. /\ Option("--audio-device") = Offered("audio_device", Devices)
      /\ Option("--errors-to") = Offered("log_to", {"stderr", "syslog", "stdout"})
  BY DEF Option, GeneralOption
<1> QED BY <1>2, <1>3, <1>4, <1>5, <1>6

\* Of the arguments of the forms, they are the ones that are left to it.
LEMMA LeftToDevice ==
  ASSUME NEW A, NEW u, SourceOK(u), SourceOptions(A, u), One(A, "--errors-to", "stdout"),
         \A b \in A : b.key \in ServerKeys \cup CodecKeys \cup StreamKeys \cup SourceKeys
                                \cup LastKeys,
         NEW a \in A
  PROVE  ForDev(a) <=> a.key \in DeviceKeys
<1>1. u.type \in Devices
  BY DEF SourceOK, In, SourceBox, Devices
<1>2. \A key, x : Arg(key, x).key = key /\ Arg(key, x).value = x
  BY DEF Arg
<1>3. \/ a.key \in ServerKeys \cup CodecKeys \cup StreamKeys \cup {"--meter-data"}
      \/ a.key \in DeviceKeys \/ a.key = "--audio-device" \/ a.key = "--errors-to"
  BY DEF SourceKeys, LastKeys, DeviceKeys
<1>4. CASE a.key \in ServerKeys \cup CodecKeys \cup StreamKeys \cup {"--meter-data"}
  <2>1. ~ForDev(a)
    BY <1>4, KindsOfKeys DEF ForDev
  <2>2. a.key \notin DeviceKeys
    BY <1>4 DEF ServerKeys, CodecKeys, StreamKeys, DeviceKeys
  <2> QED BY <2>1, <2>2
<1>5. CASE a.key \in DeviceKeys
  BY <1>5, KindsOfKeys DEF ForDev
<1>6. CASE a.key = "--audio-device"
  <2>1. a.value = u.type
    BY <1>2, <1>6 DEF SourceOptions, One
  <2>2. ~ForDev(a)
    BY <1>1, <1>6, <2>1, KindsOfKeys DEF ForDev, Offered
  <2> QED BY <1>6, <2>2 DEF DeviceKeys
<1>7. CASE a.key = "--errors-to"
  <2>1. a.value = "stdout"
    BY <1>2, <1>7 DEF One
  <2>2. ~ForDev(a)
    BY <1>7, <2>1, KindsOfKeys DEF ForDev, Offered
  <2> QED BY <1>7, <2>2 DEF DeviceKeys
<1> QED BY <1>3, <1>4, <1>5, <1>6, <1>7

\* What the options make of the fields of a device that is started
LEMMA DeviceTold ==
  ASSUME NEW device \in Devices, NEW options, Line(options),
         ProcessOptions(device, options) # NotStarted,
         NEW f \in DeviceFields(device), NEW key, DeviceKeyOf[f] = key,
         DevSets(device, Arg(key, NoText), f), NEW x
  PROVE  /\ One(ToSet(options), key, x) => ProcessOptions(device, options)[f] = x
         /\ Lacks(ToSet(options), key) =>
              ProcessOptions(device, options)[f] = DeviceDefaults[device][f]
<1> DEFINE d == ProcessOptions(device, options)
           A == ToSet(options)
<1>1. \/ \E a \in A : DevSets(device, a, f) /\ d[f] = a.value
      \/ (\A a \in A : ~DevSets(device, a, f)) /\ d[f] = DeviceDefaults[device][f]
  BY DeviceOfOptions
<1>2. \A a : DevSets(device, a, f) <=> a.key = key
  <2>1. Arg(key, NoText).key = key
    BY DEF Arg
  <2> QED BY <2>1, DeviceEntries DEF DevSets
<1>3. Arg(key, x).key = key /\ Arg(key, x).value = x
  BY DEF Arg
<1> HIDE DEF d, A
<1>4. One(A, key, x) => d[f] = x
  BY <1>1, <1>2, <1>3 DEF One
<1>5. Lacks(A, key) => d[f] = DeviceDefaults[device][f]
  BY <1>1, <1>2 DEF Lacks
<1> QED BY <1>4, <1>5 DEF d, A

\* The device of a source form: it takes the options that the form gives it, ...
LEMMA DeviceTakes ==
  ASSUME NEW u, SourceOK(u), NEW D, FieldOptions(D, u), \A a \in D : a.key \in DeviceKeys
  PROVE  \A a \in D : OptionDevice(a.key) = u.type /\ ~Refused(u.type, a)
<1> SUFFICES ASSUME NEW a \in D
             PROVE  OptionDevice(a.key) = u.type /\ ~Refused(u.type, a)
  OBVIOUS
<1>1. u.type \in {"alsa", "file", "jack"} /\ u.gain \in Int
  BY Ranges DEF SourceOK, In, SourceBox
<1>2. \A key, x : Arg(key, x).key = key /\ Arg(key, x).value = x
  BY DEF Arg
<1>3. /\ a.key = "--alsa-device" => u.type = "alsa"
      /\ a.key = "--file-name" => u.type = "file"
      /\ a.key \in {"--jack-server-name", "--jack-client-name", "--jack-gain"} => u.type = "jack"
      /\ a.key = "--jack-gain" => a.value = u.gain
  BY <1>2 DEF FieldOptions, Given, One, Lacks
<1>4. a.key \in DeviceKeys
  OBVIOUS
<1>5. OptionDevice(a.key) = u.type
  BY <1>3, <1>4 DEF DeviceKeys, OptionDevice
<1>6. ~Refused(u.type, a)
  <2>1. CASE u.type = "alsa"
    <3>1. a.key = "--alsa-device"
      BY <1>3, <1>4, <2>1 DEF DeviceKeys
    <3> QED BY <2>1, <3>1 DEF Refused, DeviceOption, AlsaOption, Text
  <2>2. CASE u.type = "file"
    <3>1. a.key = "--file-name"
      BY <1>3, <1>4, <2>2 DEF DeviceKeys
    <3> QED BY <2>2, <3>1 DEF Refused, DeviceOption, FileOption, Text
  <2>3. CASE u.type = "jack"
    <3>1. a.key \in {"--jack-server-name", "--jack-client-name", "--jack-gain"}
      BY <1>3, <1>4, <2>3 DEF DeviceKeys
    <3>2. a.key = "--jack-gain" => a.value \in Int
      BY <1>1, <1>3
    <3> QED BY <2>3, <3>1, <3>2 DEF Refused, DeviceOption, JackOption, Text, Checked
  <2> QED BY <1>1, <2>1, <2>2, <2>3
<1> QED BY <1>5, <1>6

\* ... and is what the form says.
LEMMA DeviceOfForm ==
  ASSUME NEW u, SourceOK(u), NEW options, Line(options), FieldOptions(ToSet(options), u),
         \A a \in ToSet(options) : a.key \in DeviceKeys
  PROVE  LET d == ProcessOptions(u.type, options) IN
         d # NotStarted /\ "device" \in DOMAIN d /\ DeviceMatches(d, u)
<1> DEFINE d == ProcessOptions(u.type, options)
           D == ToSet(options)
<1>1. u.type \in {"alsa", "file", "jack"} /\ u.type \in Devices
  BY DEF SourceOK, In, SourceBox, Devices
<1>2. \A a \in D : ~Refused(u.type, a)
  BY DeviceTakes
<1>3. d # NotStarted /\ d.device = u.type /\ "device" \in DOMAIN d
  <2> DEFINE F == {"device"} \cup DeviceFields(u.type)
  <2>1. d # NotStarted
    BY <1>1, <1>2, DeviceOfOptions
  <2>2. d = [k \in F |-> d[k]] /\ d.device = u.type
    BY <1>1, <2>1, DeviceOfOptions
  <2> HIDE DEF d
  <2> QED BY <2>1, <2>2
<1>4. \A key : Arg(key, NoText).key = key
  BY DEF Arg
<1>5. ASSUME NEW f \in DeviceFields(u.type), NEW key, DeviceKeyOf[f] = key,
             DevSets(u.type, Arg(key, NoText), f), NEW x
      PROVE  /\ One(D, key, x) => d[f] = x
             /\ Lacks(D, key) => d[f] = DeviceDefaults[u.type][f]
  BY <1>1, <1>3, <1>5, DeviceTold
<1>6. FieldOptions(D, u)
  OBVIOUS
<1> HIDE DEF d, D
<1>7. CASE u.type = "alsa"
  <2>1. /\ "alsa_device" \in DeviceFields(u.type) /\ DeviceKeyOf["alsa_device"] = "--alsa-device"
        /\ DeviceDefaults[u.type]["alsa_device"] = "hw:0"
    BY <1>7 DEF DeviceFields, DeviceKeyOf, DeviceDefaults, AlsaDefaults
  <2>2. DevSets(u.type, Arg("--alsa-device", NoText), "alsa_device")
    BY <1>4, <1>7 DEF DevSets, DeviceOption, AlsaOption, Text
  <2>3. d.alsa_device = Or(u.alsa_device, "hw:0")
    BY <1>5, <1>6, <1>7, <2>1, <2>2 DEF FieldOptions, Given, Or
  <2> QED BY <1>3, <1>7, <2>3 DEF DeviceMatches, d
<1>8. CASE u.type = "file"
  <2>1. /\ "file_name" \in DeviceFields(u.type) /\ DeviceKeyOf["file_name"] = "--file-name"
        /\ DeviceDefaults[u.type]["file_name"] = NoText
    BY <1>8 DEF DeviceFields, DeviceKeyOf, DeviceDefaults, FileDefaults
  <2>2. DevSets(u.type, Arg("--file-name", NoText), "file_name")
    BY <1>4, <1>8 DEF DevSets, DeviceOption, FileOption, Text
  <2>3. d.file_name = u.file_name
    BY <1>5, <1>6, <1>8, <2>1, <2>2 DEF FieldOptions, Given
  <2> QED BY <1>3, <1>8, <2>3 DEF DeviceMatches, d
<1>9. CASE u.type = "jack"
  <2>1. /\ "jack_server_name" \in DeviceFields(u.type)
        /\ DeviceKeyOf["jack_server_name"] = "--jack-server-name"
        /\ DeviceDefaults[u.type]["jack_server_name"] = NoText
        /\ "jack_client_name" \in DeviceFields(u.type)
        /\ DeviceKeyOf["jack_client_name"] = "--jack-client-name"
        /\ DeviceDefaults[u.type]["jack_client_name"] = "glasscoder"
        /\ "jack_gain" \in DeviceFields(u.type) /\ DeviceKeyOf["jack_gain"] = "--jack-gain"
    BY <1>9 DEF DeviceFields, DeviceKeyOf, DeviceDefaults, JackDefaults
  <2>2. /\ DevSets(u.type, Arg("--jack-server-name", NoText), "jack_server_name")
        /\ DevSets(u.type, Arg("--jack-client-name", NoText), "jack_client_name")
        /\ DevSets(u.type, Arg("--jack-gain", NoText), "jack_gain")
    BY <1>4, <1>9 DEF DevSets, DeviceOption, JackOption, Text, Checked
  <2>3. d.jack_server_name = u.server_name
    BY <1>5, <1>6, <1>9, <2>1, <2>2 DEF FieldOptions, Given
  <2>4. d.jack_client_name = Or(u.client_name, "glasscoder")
    BY <1>5, <1>6, <1>9, <2>1, <2>2 DEF FieldOptions, Given, Or
  <2>5. d.jack_gain = u.gain
    BY <1>5, <1>6, <1>9, <2>1, <2>2 DEF FieldOptions, Given
  <2> QED BY <1>3, <1>9, <2>3, <2>4, <2>5 DEF DeviceMatches, d
<1> QED BY <1>1, <1>7, <1>8, <1>9

-----------------------------------------------------------------------------
(* All that the forms say, the login and the bit rate apart, as settings   *)
FormRead(s, f) ==
  LET v == f.server
      c == f.codec
      m == f.stream IN
  /\ s.server_type = v.type
  /\ s.server_url = [v.location EXCEPT !.port = IF @ < 0 THEN DefaultPort[v.location.scheme]
                                                ELSE @]
  /\ s.ssh_identity = IF WithIdentity(v) THEN v.identity ELSE NoText
  /\ s.server_script_down = v.script_down /\ s.server_script_up = v.script_up
  /\ s.metadata_port = v.metadata_port /\ s.server_max_connections = v.maxconns
  /\ s.server_no_deletes = ~v.cleanup
  /\ s.server_preclean_publish_point = v.preclean /\ s.show_verbose = v.verbose
  /\ s.audio_format = c.type /\ s.audio_samplerate = c.rate /\ s.audio_channels = c.channels
  /\ s.audio_quality = IF c.type = "vorbis" THEN 100 * c.bits ELSE NoQuality
  /\ s.stream_timestamp_offset = m.offset
  /\ \A k \in StreamTexts : s[StreamField[k]] = m.texts[k]
  /\ s.meter_data = TRUE /\ s.list_codecs = FALSE /\ s.list_devices = FALSE
  /\ s.audio_device = f.source.type /\ s.log_to = "stdout"

\* The bit rate that a form gives
FormBitrate(c) == IF c.type \in {"mp2", "mp3", "aacp", "opus"} THEN c.bits ELSE 0

\* and the one that is set when there is neither a bit rate nor a quality
GivenBitrate(c) ==
  IF c.type # "vorbis" /\ FormBitrate(c) = 0 THEN DefaultAudioBitrate ELSE FormBitrate(c)

\* What the device is given of the arguments of the forms
FormDevice(s, f) ==
  LET D == ToSet(s.device_options) IN
  /\ Line(s.device_options) /\ FieldOptions(D, f.source)
  /\ \A a \in D : a.key \in DeviceKeys

\* The options of glasscoder, when none of them ends it, say what the forms say.
LEMMA OptionsOfFormsRead ==
  ASSUME NEW f, FormsOK(f), ~ReadOptions(MakeArgs(f)).exited
  PROVE  LET r == ReadOptions(MakeArgs(f)) IN
         /\ FormRead(r, f) /\ r.audio_bitrate = FormBitrate(f.codec)
         /\ r.credentials_file = CredentialsFilename(f.server)
         /\ FormDevice(r, f)
<1> DEFINE args == MakeArgs(f)
           r == ReadOptions(args)
           A == ToSet(args)
           v == f.server
           c == f.codec
           m == f.stream
           u == f.source
<1>1. Line(args)
  BY FormsGiven
<1>2. /\ ServerOptions(A, v) /\ CodecOptions(A, c)
      /\ StreamOptions(A, m) /\ SourceOptions(A, u)
      /\ One(A, "--meter-data", NoText) /\ One(A, "--errors-to", "stdout")
      /\ Lacks(A, "--list-codecs") /\ Lacks(A, "--list-devices")
      /\ \A a \in A : a.key \in ServerKeys \cup CodecKeys \cup StreamKeys \cup SourceKeys
                                 \cup LastKeys
  BY OptionsOfForms
<1>3. ServerOK(v) /\ SourceOK(u)
  BY DEF FormsOK
<1>4. Told(r, A)
  BY <1>1, AllTold
<1>5. /\ r.server_url = [v.location EXCEPT !.port = IF @ < 0 THEN DefaultPort[v.location.scheme]
                                                    ELSE @]
      /\ r.audio_device = u.type /\ r.log_to = "stdout"
  <2>1. ~ReadOptions(args).exited
    OBVIOUS
  <2> HIDE DEF args, v, u
  <2> QED BY <1>1, <1>2, <1>3, <2>1, PlacesRead
<1>6. ToSet(r.device_options) = {a \in A : ForDev(a)} /\ Line(r.device_options)
  BY <1>1, SettingsOfArgs
<1> HIDE DEF args, r, A, v, c, m, u
<1>7. /\ r.server_type = v.type /\ r.credentials_file = CredentialsFilename(v)
      /\ r.ssh_identity = IF WithIdentity(v) THEN v.identity ELSE NoText
      /\ r.server_script_down = v.script_down /\ r.server_script_up = v.script_up
      /\ r.metadata_port = v.metadata_port /\ r.server_max_connections = v.maxconns
      /\ r.server_no_deletes = ~v.cleanup
      /\ r.server_preclean_publish_point = v.preclean /\ r.show_verbose = v.verbose
  BY <1>2, <1>3, <1>4, ServerRead
<1>8. /\ r.audio_format = c.type /\ r.audio_samplerate = c.rate
      /\ r.audio_channels = c.channels /\ r.audio_bitrate = FormBitrate(c)
      /\ r.audio_quality = IF c.type = "vorbis" THEN 100 * c.bits ELSE NoQuality
  BY <1>2, <1>4, CodecRead DEF FormBitrate
<1>9. /\ r.stream_timestamp_offset = m.offset
      /\ \A k \in StreamTexts : r[StreamField[k]] = m.texts[k]
  BY <1>2, <1>4, StreamRead
<1>10. r.meter_data = TRUE /\ r.list_codecs = FALSE /\ r.list_devices = FALSE
  BY <1>2, <1>4, WindowRead
<1>11. FormRead(r, f)
  BY <1>5, <1>7, <1>8, <1>9, <1>10 DEF FormRead, v, c, m, u
<1> DEFINE D == ToSet(r.device_options)
<1>12. \A a : a \in D <=> a \in A /\ a.key \in DeviceKeys
  <2>1. \A a \in A : ForDev(a) <=> a.key \in DeviceKeys
    BY <1>2, <1>3, LeftToDevice
  <2> QED BY <1>6, <2>1
<1> HIDE DEF D
<1>13. FieldOptions(D, u)
  <2>1. FieldOptions(A, u)
    BY <1>2 DEF SourceOptions
  <2>2. \A key, x : Arg(key, x).key = key
    BY DEF Arg
  <2>3. ASSUME NEW key \in DeviceKeys, NEW given, NEW value, Given(A, key, given, value)
        PROVE  Given(D, key, given, value)
    <3>1. One(A, key, value) => One(D, key, value)
      BY <1>12, <2>2 DEF One
    <3>2. Lacks(A, key) => Lacks(D, key)
      BY <1>12 DEF Lacks
    <3> QED BY <2>3, <3>1, <3>2 DEF Given
  <2>4. {"--alsa-device", "--file-name", "--jack-server-name", "--jack-client-name",
         "--jack-gain"} \subseteq DeviceKeys
    BY DEF DeviceKeys
  <2> QED BY <2>1, <2>3, <2>4 DEF FieldOptions
<1>14. FormDevice(r, f)
  BY <1>6, <1>12, <1>13 DEF FormDevice, D, u
<1> QED BY <1>7, <1>8, <1>11, <1>14 DEF r, args, c, v

\* What is said of the settings stays, when only the others change.
LEMMA FormKept ==
  ASSUME NEW s, NEW f, FormRead(s, f), NEW t,
         \A k \in DOMAIN KeyOf \ {"server_username", "server_password", "audio_bitrate"} :
            t[k] = s[k]
  PROVE  FormRead(t, f)
<1> DEFINE K == DOMAIN KeyOf \ {"server_username", "server_password", "audio_bitrate"}
<1>1. /\ {"server_type", "server_url", "ssh_identity", "server_script_down",
          "server_script_up", "metadata_port", "server_max_connections", "server_no_deletes",
          "server_preclean_publish_point", "show_verbose"} \subseteq K
      /\ {"audio_format", "audio_samplerate", "audio_channels", "audio_quality",
          "stream_timestamp_offset", "meter_data", "list_codecs", "list_devices",
          "audio_device", "log_to"} \subseteq K
  BY DEF KeyOf
<1>2. ASSUME NEW k \in StreamTexts
      PROVE  StreamField[k] \in K
  <2>1. k \in {"name", "description", "url", "genre", "icq", "aim", "irc"}
    BY DEF StreamTexts, StreamTag
  <2> QED BY <2>1 DEF StreamField, KeyOf
<1>3. \A k \in K : t[k] = s[k]
  OBVIOUS
<1> HIDE DEF K
<1>4. \A k \in StreamTexts : t[StreamField[k]] = s[StreamField[k]]
  BY <1>2, <1>3
<1> QED BY <1>1, <1>3, <1>4 DEF FormRead

\* The credentials file of a form that was just written
HasLogin(fs, v) ==
  /\ CredentialsFilename(v) \in DOMAIN fs
  /\ fs[CredentialsFilename(v)] = [Username |-> v.username, Password |-> v.password]

LoginRead(s, v) ==
  s.server_username = Trim(v.username) /\ s.server_password = Trim(v.password)

\* It gives the login of the form, ...
LEMMA LoginOfForms ==
  ASSUME NEW f, FormsOK(f), NEW fs, HasLogin(fs, f.server), ~ReadOptions(MakeArgs(f)).exited
  PROVE  LET c == ReadCredentials(ReadOptions(MakeArgs(f)), fs) IN
         /\ Read0(c) /\ c.exited = FALSE /\ FormRead(c, f) /\ FormDevice(c, f)
         /\ c.audio_bitrate = FormBitrate(f.codec) /\ LoginRead(c, f.server)
<1> DEFINE r == ReadOptions(MakeArgs(f))
           c == ReadCredentials(r, fs)
           v == f.server
           name == CredentialsFilename(v)
           login == fs[name]
<1>1. /\ FormRead(r, f) /\ r.audio_bitrate = FormBitrate(f.codec)
      /\ r.credentials_file = name /\ FormDevice(r, f)
  BY OptionsOfFormsRead
<1>2. Read0(r) /\ r.exited = FALSE
  BY FormsGiven, SettingsOfArgs
<1>3. name # << >> /\ name \in DOMAIN fs
      /\ login = [Username |-> v.username, Password |-> v.password]
  BY DEF HasLogin, CredentialsFilename
<1> HIDE DEF r, v, name
<1>4. /\ Read0(c) /\ c.exited = FALSE /\ c.device_options = r.device_options
      /\ c.server_username = Trim(login.Username)
      /\ c.server_password = Trim(login.Password)
      /\ \A k \in DOMAIN KeyOf \ {"server_username", "server_password"} : c[k] = r[k]
  <2>1. r.credentials_file # << >> /\ r.credentials_file \in DOMAIN fs
    BY <1>1, <1>3
  <2>2. login = fs[r.credentials_file]
    BY <1>1
  <2> HIDE DEF login
  <2>3. /\ Read0(c) /\ c.exited = FALSE /\ c.device_options = r.device_options
        /\ c.server_username = Trim(fs[r.credentials_file].Username)
        /\ c.server_password = Trim(fs[r.credentials_file].Password)
        /\ \A k \in DOMAIN KeyOf \ {"server_username", "server_password"} : c[k] = r[k]
    BY <1>2, <2>1, CredentialsRead
  <2> QED BY <2>2, <2>3
<1>5. login.Username = v.username /\ login.Password = v.password
  BY <1>3
<1> HIDE DEF c, login
<1>6. FormRead(c, f)
  BY <1>1, <1>4, FormKept
<1>7. FormDevice(c, f)
  BY <1>1, <1>4 DEF FormDevice
<1>8. c.audio_bitrate = FormBitrate(f.codec)
  <2>1. "audio_bitrate" \in DOMAIN KeyOf
    BY DEF KeyOf
  <2> QED BY <1>1, <1>4, <2>1
<1>9. LoginRead(c, v)
  BY <1>4, <1>5 DEF LoginRead
<1> QED BY <1>4, <1>6, <1>7, <1>8, <1>9 DEF c, r, v

\* ... and the checks leave all this alone.
LEMMA SettingsOfForms ==
  ASSUME NEW f, FormsOK(f), NEW fs, HasLogin(fs, f.server)
  PROVE  LET r == ReadOptions(MakeArgs(f))
             c == ReadCredentials(r, fs)
             s == Settings(MakeArgs(f), fs) IN
         /\ ~s.exited => ~r.exited
         /\ ~r.exited /\ ~Fails(c) =>
              /\ ~s.exited /\ FormRead(s, f) /\ FormDevice(s, f) /\ LoginRead(s, f.server)
              /\ s.audio_bitrate = GivenBitrate(f.codec)
         /\ ~r.exited /\ ~s.exited => ~Fails(c)
<1> DEFINE r == ReadOptions(MakeArgs(f))
           c == ReadCredentials(r, fs)
           s == SanityChecks(c)
<1>1. Settings(MakeArgs(f), fs) = s
  BY DEF Settings
<1>2. Read0(r)
  BY FormsGiven, SettingsOfArgs
<1>3. CASE r.exited
  <2>1. c = r
    BY <1>3 DEF ReadCredentials
  <2> HIDE DEF c
  <2>2. Fails(c) /\ Read0(c)
    BY <1>2, <1>3, <2>1 DEF Fails
  <2>3. s.exited = TRUE
    BY <2>2, ChecksMade
  <2> QED BY <1>1, <1>3, <2>3 DEF c
<1>4. CASE ~r.exited
  <2>1. /\ Read0(c) /\ c.exited = FALSE /\ FormRead(c, f) /\ FormDevice(c, f)
        /\ c.audio_bitrate = FormBitrate(f.codec) /\ LoginRead(c, f.server)
    BY <1>4, LoginOfForms
  <2> HIDE DEF c, r
  <2>2. /\ Fails(c) => s.exited = TRUE
        /\ ~Fails(c) =>
             /\ s.exited = c.exited /\ s.device_options = c.device_options
             /\ \A k \in DOMAIN KeyOf \ {"audio_bitrate"} : s[k] = c[k]
             /\ s.audio_bitrate = IF c.audio_quality < 0 /\ c.audio_bitrate = 0
                                  THEN DefaultAudioBitrate ELSE c.audio_bitrate
    BY <2>1, ChecksMade
  <2> HIDE DEF s
  <2>3. ASSUME ~Fails(c)
        PROVE  /\ ~s.exited /\ FormRead(s, f) /\ FormDevice(s, f) /\ LoginRead(s, f.server)
               /\ s.audio_bitrate = GivenBitrate(f.codec)
    <3>1. FormRead(s, f)
      BY <2>1, <2>2, <2>3, FormKept
    <3>2. FormDevice(s, f)
      BY <2>1, <2>2, <2>3 DEF FormDevice
    <3>3. LoginRead(s, f.server)
      <4>1. {"server_username", "server_password"} \subseteq DOMAIN KeyOf \ {"audio_bitrate"}
        BY DEF KeyOf
      <4> QED BY <2>1, <2>2, <2>3, <4>1 DEF LoginRead
    <3>4. s.audio_bitrate = GivenBitrate(f.codec)
      <4>1. c.audio_quality < 0 <=> f.codec.type # "vorbis"
        <5>1. f.codec.bits \in Nat
          BY CodecNumbers DEF FormsOK
        <5>2. c.audio_quality = IF f.codec.type = "vorbis" THEN 100 * f.codec.bits ELSE NoQuality
          BY <2>1 DEF FormRead
        <5> QED BY <5>1, <5>2 DEF NoQuality
      <4> QED BY <2>1, <2>2, <2>3, <4>1 DEF GivenBitrate
    <3> QED BY <2>1, <2>2, <2>3, <3>1, <3>2, <3>3, <3>4
  <2> QED BY <1>1, <1>4, <2>2, <2>3 DEF s, c, r
<1> QED BY <1>3, <1>4

-----------------------------------------------------------------------------
(* The parts of the encoder.                                               *)
\* The device is the one of the form; only a file without a name is waited for.
LEMMA DeviceFollows ==
  ASSUME NEW f, FormsOK(f), NEW s, FormRead(s, f), FormDevice(s, f)
  PROVE  /\ StartAudioDevice(s) # NotStarted => DeviceMatches(StartAudioDevice(s), f.source)
         /\ SourceValid(f.source) => StartAudioDevice(s) # NotStarted
<1> DEFINE u == f.source
           d == ProcessOptions(u.type, s.device_options)
<1>1. d # NotStarted /\ DeviceMatches(d, u)
  BY DeviceOfForm DEF FormsOK, FormDevice
<1>2. StartAudioDevice(s) = IF d = FileDefaults THEN NotStarted ELSE d
  BY DEF StartAudioDevice, FormRead
<1>3. d = FileDefaults => ~SourceValid(u)
  <2> HIDE DEF d, u
  <2>1. FileDefaults.device = "file" /\ FileDefaults.file_name = NoText
    BY DEF FileDefaults
  <2>2. d = FileDefaults => u.type = "file" /\ u.file_name = NoText
    BY <1>1, <2>1 DEF DeviceMatches
  <2> QED BY <2>2 DEF SourceValid
<1> HIDE DEF d, u
<1> QED BY <1>1, <1>2, <1>3 DEF u

\* What the codec dialog offers: the formats that need a bit rate have one.
LEMMA CodecOffers ==
  ASSUME NEW c, CodecOK(c)
  PROVE  /\ c.type \in {"aacp", "mp2", "mp3", "vorbis", "pcm16", "opus"}
         /\ c.rate \in Nat /\ c.bits \in Nat /\ c.channels \in 1 .. MaxAudioChannels
         /\ c.type \in {"aacp", "mp2", "mp3"} => c.bits # 0
         /\ c.type = "opus" => c.rate = 48000
<1>1. c.type \in {"aacp", "mp2", "mp3", "vorbis", "pcm16", "opus"}
  BY DEF CodecOK, In, CodecTypes
<1>2. c.rate \in Nat /\ c.bits \in Nat
  BY CodecNumbers
<1>3. c.channels \in 1 .. MaxAudioChannels
  BY DEF CodecOK, In, Channels, MaxAudioChannels
<1>4. c.type = "opus" => c.rate = 48000
  BY DEF CodecOK, In, Samplerates
<1> DEFINE Positive(box) == \A i \in DOMAIN box : box[i] # 0
<1>5. c.type \in {"aacp", "mp2", "mp3"} => Positive(Bitrates(c.type))
  <2>1. Positive(LayerBitrates)
    BY DEF LayerBitrates
  <2>2. Positive(Append(LayerBitrates, 384))
    BY DEF LayerBitrates
  <2>3. Positive(<<16, 24, 32, 40, 48>>)
    OBVIOUS
  <2> HIDE DEF Positive
  <2> QED BY <2>1, <2>2, <2>3 DEF Bitrates
<1>6. c.type \in {"aacp", "mp2", "mp3"} => c.bits # 0
  BY <1>5 DEF CodecOK, In
<1> QED BY <1>1, <1>2, <1>3, <1>4, <1>6

\* The codec starts, and is the one of the form.
LEMMA CodecFollows ==
  ASSUME NEW f, FormsOK(f), NEW s, FormRead(s, f), s.audio_bitrate = GivenBitrate(f.codec)
  PROVE  StartCodec(s) # NotStarted /\ CodecMatches(StartCodec(s), f.codec)
<1> DEFINE c == f.codec
           e == CodecSettings(s)
           k == StartCodec(s)
<1>1. /\ c.type \in {"aacp", "mp2", "mp3", "vorbis", "pcm16", "opus"}
      /\ c.rate \in Nat /\ c.bits \in Nat
      /\ c.type \in {"aacp", "mp2", "mp3"} => c.bits # 0
      /\ c.type = "opus" => c.rate = 48000
  BY CodecOffers DEF FormsOK
<1>2. /\ s.audio_format = c.type /\ s.audio_samplerate = c.rate /\ s.audio_channels = c.channels
      /\ s.audio_quality = IF c.type = "vorbis" THEN 100 * c.bits ELSE NoQuality
      /\ s.audio_bitrate = GivenBitrate(c)
  BY DEF FormRead
<1> HIDE DEF c
<1>3. AudioQuality(s) = IF c.type = "vorbis" THEN 100 * c.bits ELSE NoQuality
  <2> DEFINE b == c.bits
             q == s.audio_quality
  <2>1. CASE c.type = "vorbis"
    <3>1. b \in Nat /\ q = 100 * b
      BY <1>1, <1>2, <2>1
    <3> HIDE DEF b, q
    <3>2. (100 * b) \div 100 = b /\ 100 * b >= 0
      BY <3>1
    <3> QED BY <2>1, <3>1, <3>2 DEF AudioQuality, b, q
  <2>2. CASE c.type # "vorbis"
    BY <1>2, <2>2 DEF AudioQuality, NoQuality
  <2> QED BY <2>1, <2>2
<1>4. e = [started |-> TRUE, format |-> c.type, channels |-> c.channels,
           samplerate |-> c.rate, bitrate |-> GivenBitrate(c),
           quality |-> IF c.type = "vorbis" THEN 100 * c.bits ELSE NoQuality]
  BY <1>2, <1>3 DEF CodecSettings
<1>5. /\ e.format = c.type /\ e.samplerate = c.rate /\ e.bitrate = GivenBitrate(c)
      /\ Vbr(e) <=> GivenBitrate(c) = 0
      /\ c.type = "vorbis" => e.quality = 100 * c.bits
  BY <1>4 DEF Vbr
<1> DEFINE Same(t) == /\ t.started = TRUE /\ t.format = c.type /\ t.samplerate = c.rate
                      /\ t.channels = c.channels
<1>6. \A x : LET t == Variable(e, x) IN
             Same(t) /\ t.quality = x /\ t.bitrate = GivenBitrate(c)
  BY <1>4 DEF Variable
<1>7. Same(Constant(e)) /\ Constant(e).bitrate = GivenBitrate(c)
  BY <1>4 DEF Constant
<1>8. Same(StartPcm16(e))
  BY <1>4 DEF StartPcm16
<1>9. GivenBitrate(c) = IF c.type \in {"mp2", "mp3", "aacp"} THEN c.bits
                        ELSE IF c.type = "vorbis" THEN 0
                        ELSE IF c.type = "opus" /\ c.bits # 0 THEN c.bits ELSE 128
  BY <1>1 DEF GivenBitrate, FormBitrate, DefaultAudioBitrate
<1>10. k = CASE c.type = "aacp"   -> StartFdk(e)
             [] c.type = "mp2"    -> StartMpegL2(e)
             [] c.type = "mp3"    -> StartMpegL3(e)
             [] c.type = "vorbis" -> StartVorbis(e)
             [] c.type = "opus"   -> StartOpus(e)
             [] c.type = "pcm16"  -> StartPcm16(e)
  BY <1>5 DEF StartCodec
<1> HIDE DEF e, k, Same
<1>11. Same(k) /\ (c.type \in {"aacp", "mp2", "mp3"} => k.bitrate = c.bits)
       /\ (c.type = "vorbis" => k.bitrate = 0 /\ k.quality = 100 * c.bits)
  <2>1. CASE c.type = "aacp"
    <3>1. ~Vbr(e)
      BY <1>1, <1>5, <1>9, <2>1
    <3> QED BY <1>7, <1>9, <1>10, <2>1, <3>1 DEF StartFdk
  <2>2. CASE c.type = "mp2"
    <3>1. ~Vbr(e)
      BY <1>1, <1>5, <1>9, <2>2
    <3> QED BY <1>7, <1>9, <1>10, <2>2, <3>1 DEF StartMpegL2
  <2>3. CASE c.type = "mp3"
    <3>1. ~Vbr(e)
      BY <1>1, <1>5, <1>9, <2>3
    <3> QED BY <1>7, <1>9, <1>10, <2>3, <3>1 DEF StartMpegL3
  <2>4. CASE c.type = "vorbis"
    <3>1. Vbr(e) /\ e.quality = 100 * c.bits /\ GivenBitrate(c) = 0
      BY <1>5, <1>9, <2>4
    <3>2. k = Variable(e, 100 * c.bits)
      BY <1>10, <2>4, <3>1 DEF StartVorbis
    <3> QED BY <1>6, <2>4, <3>1, <3>2
  <2>5. CASE c.type = "opus"
    <3>1. ~Vbr(e) /\ e.samplerate = 48000
      BY <1>1, <1>5, <1>9, <2>5
    <3> QED BY <1>7, <1>10, <2>5, <3>1 DEF StartOpus
  <2>6. CASE c.type = "pcm16"
    BY <1>8, <1>10, <2>6
  <2> QED BY <1>1, <2>1, <2>2, <2>3, <2>4, <2>5, <2>6
<1>12. k # NotStarted
  <2>1. NotStarted.started = FALSE
    BY DEF NotStarted
  <2> QED BY <1>11, <2>1 DEF Same
<1>13. CodecMatches(k, c)
  BY <1>11 DEF CodecMatches, Same
<1> QED BY <1>12, <1>13 DEF k, c

\* The connection is the one of the form.
LEMMA ConnectorFollows ==
  ASSUME NEW f, FormsOK(f), NEW s, FormRead(s, f), LoginRead(s, f.server)
  PROVE  ConnectorMatches(StartServerConnection(s), f.server, f.stream)
<1> DEFINE v == f.server
           m == f.stream
           conn == StartServerConnection(s)
<1>1. /\ conn.server_type = v.type /\ conn.ssh_identity = IF WithIdentity(v) THEN v.identity ELSE NoText
      /\ conn.no_deletes = ~v.cleanup /\ conn.preclean = v.preclean
  BY DEF FormRead, StartServerConnection
<1>2. /\ conn.server.username = Trim(v.username) /\ conn.server.password = Trim(v.password)
      /\ conn.server.max_connections = v.maxconns
  BY DEF FormRead, LoginRead, StartServerConnection, ServerSettings
<1>3. conn.scripts.script_up = v.script_up /\ conn.scripts.script_down = v.script_down
  BY DEF FormRead, StartServerConnection, ScriptSettings
<1>4. conn.stream.timestamp_offset = m.offset
  BY DEF FormRead, StartServerConnection, StreamSettings
<1>5. ASSUME NEW k \in StreamTexts, StreamField[k] \in DOMAIN conn.stream.texts
      PROVE  conn.stream.texts[StreamField[k]] = m.texts[k]
  <2>1. conn.stream.texts = [x \in TextsSent(s.server_type) |-> s[x]]
    BY DEF StartServerConnection, StreamSettings
  <2>2. s[StreamField[k]] = m.texts[k]
    BY DEF FormRead
  <2> HIDE DEF conn
  <2> QED BY <1>5, <2>1, <2>2
<1>6. [conn.url EXCEPT !.port = v.location.port] = v.location
  <2> DEFINE l == v.location
             p == IF l.port < 0 THEN DefaultPort[l.scheme] ELSE l.port
  <2>1. conn.url = [l EXCEPT !.port = p]
    BY DEF FormRead, StartServerConnection
  <2>2. l = [scheme |-> l.scheme, port |-> l.port, path |-> l.path]
    BY DEF FormsOK, ServerOK, UrlOK
  <2> HIDE DEF l, p, conn
  <2>3. conn.url = [scheme |-> l.scheme, port |-> p, path |-> l.path]
    BY <2>1, <2>2
  <2> QED BY <2>2, <2>3 DEF l
<1> HIDE DEF conn, v, m
<1>7. ConnectorMatches(conn, v, m)
  BY <1>1, <1>2, <1>3, <1>4, <1>5, <1>6 DEF ConnectorMatches
<1> QED BY <1>7 DEF conn, v, m

-----------------------------------------------------------------------------
(* The encoder.                                                            *)
\* What an encoder that was started from the forms f has to be
Obeys(e, f) ==
  /\ CodecMatches(e.codec, f.codec) /\ ConnectorMatches(e.connector, f.server, f.stream)
  /\ DeviceMatches(e.device, f.source)
  /\ e.metadata_port = f.server.metadata_port /\ e.verbose = f.server.verbose
  /\ e.meters /\ e.log_to = "stdout"

\* It is that, if it starts.
LEMMA FormsAreObeyed ==
  ASSUME NEW f, FormsOK(f), NEW fs, HasLogin(fs, f.server), Start(MakeArgs(f), fs).started
  PROVE  Obeys(Start(MakeArgs(f), fs), f)
<1> DEFINE args == MakeArgs(f)
           s == Settings(args, fs)
           e == Start(args, fs)
           c == ReadCredentials(ReadOptions(args), fs)
           d == StartAudioDevice(s)
           k == StartCodec(s)
           conn == StartServerConnection(s)
<1>1. /\ ~s.exited /\ d # NotStarted /\ k # NotStarted
      /\ e = [started |-> TRUE, device |-> d, codec |-> k, connector |-> conn,
              metadata_port |-> s.metadata_port, verbose |-> s.show_verbose,
              meters |-> s.meter_data, log_to |-> s.log_to]
  <2>1. e = IF s.exited \/ d = NotStarted \/ k = NotStarted THEN NotStarted
            ELSE [started |-> TRUE, device |-> d, codec |-> k, connector |-> conn,
                  metadata_port |-> s.metadata_port, verbose |-> s.show_verbose,
                  meters |-> s.meter_data, log_to |-> s.log_to]
    BY DEF Start
  <2>2. e.started /\ ~NotStarted.started
    BY DEF NotStarted
  <2> HIDE DEF e, s, d, k, conn
  <2> QED BY <2>1, <2>2
<1>2. /\ FormRead(s, f) /\ FormDevice(s, f) /\ LoginRead(s, f.server)
      /\ s.audio_bitrate = GivenBitrate(f.codec)
  BY <1>1, SettingsOfForms
<1> HIDE DEF s
<1>3. DeviceMatches(d, f.source)
  BY <1>1, <1>2, DeviceFollows
<1>4. CodecMatches(k, f.codec)
  BY <1>2, CodecFollows
<1>5. ConnectorMatches(conn, f.server, f.stream)
  BY <1>2, ConnectorFollows
<1>6. /\ s.metadata_port = f.server.metadata_port /\ s.show_verbose = f.server.verbose
      /\ s.meter_data = TRUE /\ s.log_to = "stdout"
  BY <1>2 DEF FormRead
<1> HIDE DEF d, k, conn, e
<1>7. Obeys(e, f)
  <2>1. /\ e.codec = k /\ e.connector = conn /\ e.device = d
        /\ e.metadata_port = s.metadata_port /\ e.verbose = s.show_verbose
        /\ e.meters = s.meter_data /\ e.log_to = s.log_to
    BY <1>1
  <2>2. e.meters
    BY <1>6, <2>1
  <2> QED BY <1>3, <1>4, <1>5, <1>6, <2>1, <2>2 DEF Obeys
<1> QED BY <1>7 DEF e

\* The forms that glasscoder has to start with
Startable(f) ==
  /\ CheckArgs(f)
  /\ ~(f.codec.type = "vorbis" /\ f.codec.bits > 1)
  /\ ~(f.server.location.scheme \notin DOMAIN DefaultPort /\ f.server.location.port < 0)

\* None of their arguments ends it.
LEMMA NoneIsBad ==
  ASSUME NEW f, FormsOK(f), Startable(f), NEW a \in ToSet(MakeArgs(f))
  PROVE  ~Bad(a)
<1> DEFINE A == ToSet(MakeArgs(f))
           v == f.server
           c == f.codec
           m == f.stream
           u == f.source
<1>1. /\ ServerOptions(A, v) /\ CodecOptions(A, c)
      /\ StreamOptions(A, m) /\ SourceOptions(A, u)
      /\ \A b \in A : b.key \in ServerKeys \cup CodecKeys \cup StreamKeys \cup SourceKeys
                                 \cup LastKeys
  BY OptionsOfForms
<1>2. a \in A
  OBVIOUS
<1> DEFINE o == Option(a.key)
<1>3. ServerOK(v) /\ CodecOK(c) /\ StreamOK(m)
  BY DEF FormsOK
<1>4. /\ ~(c.type = "vorbis" /\ c.bits > 1)
      /\ ~(v.location.scheme \notin DOMAIN DefaultPort /\ v.location.port < 0)
  BY DEF Startable
<1> HIDE DEF A, v, c, m, u
<1>5. \A key, x : Arg(key, x).key = key /\ Arg(key, x).value = x
  BY DEF Arg
<1>6. SUFFICES ASSUME \/ o.kind = "checked" /\ a.value \notin o.valid
                      \/ o.kind = "url" /\ a.value.port < 0
                         /\ a.value.scheme \notin DOMAIN DefaultPort
               PROVE  FALSE
  BY DEF Bad
<1>7. \A field, valid : /\ Checked(field, valid).kind = "checked"
                        /\ Checked(field, valid).valid = valid
                        /\ Text(field).kind = "text" /\ Flag(field).kind = "flag"
                        /\ Offered(field, valid).kind = "offered"
  BY DEF Checked, Text, Flag, Offered
<1> DEFINE Valued(key, valid) == a.key = key => a.value \in valid
<1>8. /\ Valued("--server-type", ServerTypes)
      /\ Valued("--server-max-connections", Nat)
      /\ Valued("--metadata-port", Ports)
  <2>1. v.type \in ServerTypes
    BY <1>3 DEF ServerOK, In, ServerBox, ServerTypes
  <2>2. v.maxconns >= 0 => v.maxconns \in Nat
    BY <1>3, Ranges DEF ServerOK
  <2>3. v.metadata_port \in Ports
    <3>1. v.metadata_port \in 0 .. MaxSpin
      BY <1>3 DEF ServerOK
    <3>2. 0 .. MaxSpin = Ports
      BY DEF Ports, MaxSpin
    <3> QED BY <3>1, <3>2
  <2> QED BY <1>1, <1>2, <1>5, <2>1, <2>2, <2>3 DEF ServerOptions, One, Lacks, Given
<1>9. /\ Valued("--audio-format", Formats) /\ Valued("--audio-samplerate", Nat)
      /\ Valued("--audio-channels", 1 .. MaxAudioChannels)
      /\ Valued("--audio-bitrate", Nat) /\ Valued("--audio-quality", 0 .. 100)
  <2>1. /\ c.type \in Formats /\ c.rate \in Nat /\ c.bits \in Nat
        /\ c.channels \in 1 .. MaxAudioChannels
    BY <1>3, CodecOffers DEF Formats
  <2>2. c.type = "vorbis" => 100 * c.bits \in 0 .. 100
    BY <1>4, <2>1
  <2> QED BY <1>1, <1>2, <1>5, <2>1, <2>2 DEF CodecOptions, One, Lacks, Given
<1>10. Valued("--stream-timestamp-offset", Int)
  <2>1. m.offset \in Int
    BY <1>3, Ranges DEF StreamOK
  <2> QED BY <1>1, <1>2, <1>5, <2>1 DEF StreamOptions, One, Lacks, Given
<1>11. a.key = "--server-url" => a.value = v.location
  BY <1>1, <1>2, <1>5 DEF ServerOptions, One
<1>12. Option("--server-url").kind = "url"
  BY DEF Option, GeneralOption, ServerOption
<1>13. a.key \notin ServerKeys
  BY <1>4, <1>6, <1>7, <1>8, <1>11, <1>12, OptionTable DEF ServerKeys
<1>14. a.key \notin CodecKeys
  <2>1. ASSUME NEW key, NEW field, NEW valid, Option(key) = Checked(field, valid),
               Valued(key, valid)
        PROVE  a.key # key
    BY <1>6, <1>7, <2>1
  <2> HIDE DEF Valued
  <2>2. a.key # "--audio-format" /\ a.key # "--audio-samplerate" /\ a.key # "--audio-channels"
    BY <1>9, <2>1, OptionTable
  <2>3. a.key # "--audio-bitrate" /\ a.key # "--audio-quality"
    BY <1>9, <2>1, OptionTable
  <2> QED BY <2>2, <2>3 DEF CodecKeys
<1>15. a.key \notin StreamKeys
  BY <1>6, <1>7, <1>10, OptionTable DEF StreamKeys
<1>16. a.key \notin SourceKeys
  BY <1>6, <1>7, KindsOfKeys DEF SourceKeys, DeviceKeys
<1>17. a.key \notin LastKeys
  BY <1>6, <1>7, KindsOfKeys, OptionTable DEF LastKeys
<1> QED BY <1>1, <1>2, <1>13, <1>14, <1>15, <1>16, <1>17

\* Nor do the checks, ...
LEMMA NoneFails ==
  ASSUME NEW f, FormsOK(f), Startable(f), NEW s, s.exited = FALSE, FormRead(s, f),
         FormDevice(s, f), s.audio_bitrate = FormBitrate(f.codec)
  PROVE  ~Fails(s)
<1> DEFINE l == f.server.location
           c == f.codec
           u == f.source
           options == s.device_options
<1>1. /\ s.list_codecs = FALSE /\ s.list_devices = FALSE /\ s.audio_device = u.type
      /\ s.audio_quality = IF c.type = "vorbis" THEN 100 * c.bits ELSE NoQuality
      /\ s.server_url = [l EXCEPT !.port = IF @ < 0 THEN DefaultPort[l.scheme] ELSE @]
  BY DEF FormRead
<1>2. \A i \in DOMAIN options : OptionDevice(options[i].key) = u.type
  <2>1. \A a \in ToSet(options) : OptionDevice(a.key) = u.type
    BY DeviceTakes DEF FormsOK, FormDevice
  <2> HIDE DEF options
  <2> QED BY <2>1 DEF ToSet
<1>3. s.server_url # NoUrl
  <2> DEFINE p == IF l.port < 0 THEN DefaultPort[l.scheme] ELSE l.port
  <2>1. l = [scheme |-> l.scheme, port |-> l.port, path |-> l.path] /\ l.port \in Int
    BY DEF FormsOK, ServerOK, UrlOK
  <2>2. l.port < 0 => l.scheme \in DOMAIN DefaultPort
    BY DEF Startable
  <2> HIDE DEF l
  <2>3. p # -1
    BY <2>1, <2>2 DEF DefaultPort
  <2>4. s.server_url = [l EXCEPT !.port = p]
    BY <1>1
  <2> HIDE DEF p
  <2>5. s.server_url.port = p
    BY <2>1, <2>4
  <2>6. NoUrl.port = -1
    BY DEF NoUrl
  <2> QED BY <2>3, <2>5, <2>6
<1>4. ~(s.audio_quality >= 0 /\ s.audio_bitrate > 0)
  BY <1>1 DEF FormBitrate, NoQuality
<1> HIDE DEF options
<1> QED BY <1>1, <1>2, <1>3, <1>4 DEF Fails, options

\* ... so that the encoder starts.
LEMMA FormsAreStarted ==
  ASSUME NEW f, FormsOK(f), NEW fs, HasLogin(fs, f.server), Startable(f)
  PROVE  Start(MakeArgs(f), fs).started
<1> DEFINE args == MakeArgs(f)
           r == ReadOptions(args)
           c == ReadCredentials(r, fs)
           s == Settings(args, fs)
<1>1. ~r.exited
  BY FormsGiven, SettingsOfArgs, NoneIsBad
<1>2. ~Fails(c)
  BY <1>1, LoginOfForms, NoneFails
<1>3. /\ ~s.exited /\ FormRead(s, f) /\ FormDevice(s, f)
      /\ s.audio_bitrate = GivenBitrate(f.codec)
  BY <1>1, <1>2, SettingsOfForms
<1> HIDE DEF s
<1>4. StartAudioDevice(s) # NotStarted
  BY <1>3, DeviceFollows DEF Startable, CheckArgs
<1>5. StartCodec(s) # NotStarted
  BY <1>3, CodecFollows
<1> QED BY <1>3, <1>4, <1>5 DEF Start, s

-----------------------------------------------------------------------------
(***************************************************************************)
(* The last start, of the arguments and files that are remembered: when it *)
(* was the button, they are those of the forms.                            *)
(***************************************************************************)
LaunchInv ==
  launch # None =>
    /\ enc = Start(launch.args, launch.files) /\ Line(launch.args)
    /\ launch.forms # None =>
         /\ FormsOK(launch.forms) /\ launch.args = MakeArgs(launch.forms)
         /\ HasLogin(launch.files, launch.forms.server)

StartIInv == SessionIInv /\ LaunchInv

\* The file that is written before a start has the login of the form.
LEMMA LoginWritten ==
  ASSUME NEW v, NEW fs
  PROVE  HasLogin(WriteCredentials(v, fs), v)
  BY DEF HasLogin, WriteCredentials

\* A start, and what it is remembered by
LEMMA LaunchKept ==
  ASSUME NEW args, Line(args), NEW fs, NEW f, Launch(args, fs, f),
         f # None => FormsOK(f) /\ args = MakeArgs(f) /\ HasLogin(fs, f.server)
  PROVE  LaunchInv'
<1>1. launch' = [args |-> args, files |-> fs, forms |-> f] /\ enc' = Start(args, fs)
  BY DEF Launch
<1>2. launch'.args = args /\ launch'.files = fs /\ launch'.forms = f
  BY <1>1
<1> QED BY <1>1, <1>2 DEF LaunchInv

\* Every start is remembered as it was, and forgotten when it ends.
LEMMA StartStepInv == StartIInv /\ [SettingsNext]_settingsVars => StartIInv'
<1> SUFFICES ASSUME StartIInv, [SettingsNext]_settingsVars PROVE LaunchInv'
  BY SessionStepInv DEF StartIInv
<1>1. CASE UNCHANGED <<enc, launch>>
  BY <1>1 DEF StartIInv, LaunchInv
<1>2. CASE launch' = None
  BY <1>2 DEF LaunchInv
<1>3. CASE Edits
  <2>1. \A keep : Edit(keep) => UNCHANGED <<enc, launch>>
    BY DEF Edit
  <2>2. EditCodecType \/ EditSamplerate \/ EditChannels \/ EditBitrate => UNCHANGED <<enc, launch>>
    BY <2>1 DEF EditCodecType, EditSamplerate, EditChannels, EditBitrate
  <2>3. EditServerType \/ EditLocation \/ EditLogin => UNCHANGED <<enc, launch>>
    BY <2>1 DEF EditServerType, EditLocation, EditLogin
  <2>4. EditScript \/ EditCheckBox \/ EditSpinBox => UNCHANGED <<enc, launch>>
    BY <2>1 DEF EditScript, EditCheckBox, EditSpinBox
  <2>5. EditSourceType \/ EditSourceText \/ EditSource \/ EditStream => UNCHANGED <<enc, launch>>
    BY <2>1 DEF EditSourceType, EditSourceText, EditSource, EditStream
  <2> QED BY <1>1, <1>3, <2>2, <2>3, <2>4, <2>5 DEF Edits
<1>4. CASE CloseWindow \/ LoseWindow \/ StopEncoding
  BY <1>2, <1>4 DEF CloseWindow, LoseWindow, StopEncoding
<1>5. CASE OpenWindow
  BY <1>1, <1>5 DEF OpenWindow
<1>6. CASE StartEncoding
  <2> DEFINE fs == WriteCredentials(forms.server, files)
  <2>1. forms # None /\ Launch(MakeArgs(forms), fs, forms)
    BY <1>6 DEF StartEncoding
  <2>2. FormsOK(forms)
    BY <2>1 DEF StartIInv, SessionIInv, FormsInv
  <2>3. Line(MakeArgs(forms))
    BY <2>2, FormsGiven
  <2>4. HasLogin(fs, forms.server)
    BY LoginWritten
  <2> HIDE DEF fs
  <2> QED BY <2>1, <2>2, <2>3, <2>4, LaunchKept
<1>7. CASE StartByHand
  <2>1. PICK args \in HandLines : Launch(args, files, None)
    BY <1>7 DEF StartByHand
  <2>2. Line(args)
    BY HandLinesAssumption DEF Line
  <2> QED BY <2>1, <2>2, LaunchKept
<1>8. CASE UNCHANGED settingsVars
  BY <1>1, <1>8 DEF settingsVars
<1> QED BY <1>3, <1>4, <1>5, <1>6, <1>7, <1>8 DEF SettingsNext, Edits

\* A session begins with no start.
LEMMA StartInitInv == SettingsInit => StartIInv
  BY SessionInitInv DEF SettingsInit, StartIInv, LaunchInv

(***************************************************************************)
(* The order of the options on the command line means nothing, unless one  *)
(* of them is given twice.                                                 *)
(***************************************************************************)
THEOREM OrderIsNothing == SettingsSpec => []OrderDoesNotMatter
<1>1. StartIInv => OrderDoesNotMatter
  <2> SUFFICES ASSUME StartIInv, launch # None, OneValueEach(launch.args)
               PROVE  Start(Reverse(launch.args), launch.files) = Start(launch.args, launch.files)
    BY DEF OrderDoesNotMatter
  <2> DEFINE args == launch.args
             fs == launch.files
  <2>1. Line(args) /\ OneValueEach(args)
    BY DEF StartIInv, LaunchInv
  <2> HIDE DEF args, fs
  <2>2. Line(Reverse(args)) /\ ToSet(Reverse(args)) = ToSet(args)
    BY <2>1, Reversed
  <2>3. Single(ToSet(args))
    BY <2>1 DEF OneValueEach, Single, ToSet
  <2>4. Start(Reverse(args), fs) = Start(args, fs)
    BY <2>1, <2>2, <2>3, AlikeStarts
  <2> QED BY <2>4 DEF args, fs
<1> QED BY <1>1, StartInitInv, StartStepInv, PTL DEF SettingsSpec

(***************************************************************************)
(* An encoder that was started from the forms works as they show.          *)
(***************************************************************************)
THEOREM FormsDecide == SettingsSpec => []EncoderObeysForms
<1>1. StartIInv => EncoderObeysForms
  BY FormsAreObeyed DEF StartIInv, LaunchInv, EncoderObeysForms, Obeys
<1> QED BY <1>1, StartInitInv, StartStepInv, PTL DEF SettingsSpec

(***************************************************************************)
(* An encoder refuses the forms that the dialogs accept only for a quality *)
(* of Vorbis above 1 or for a URL whose scheme it does not know.           *)
(***************************************************************************)
THEOREM FormsStart == SettingsSpec => []ValidFormsStart
<1>1. StartIInv => ValidFormsStart
  BY FormsAreStarted DEF StartIInv, LaunchInv, ValidFormsStart, Startable
<1> QED BY <1>1, StartInitInv, StartStepInv, PTL DEF SettingsSpec
===============================================================================
