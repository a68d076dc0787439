------------------------ MODULE GlassCommander_proofs -------------------------
(***************************************************************************)
(* For any rows and any number of processes, closings and changes: a row   *)
(* never loses sight of an encoder, kills only what it was told to stop,   *)
(* the settings file is what the window shows, and the program does not    *)
(* end by its count before the encoders it waits for have ended.           *)
(***************************************************************************)
EXTENDS GlassCommander, TLAPS, SequenceTheorems, FiniteSetTheorems

\* A QProcess of the table.
Process ==
  [owner : Widgets, q : {"starting", "running", "over"}, os : {"alive", "dead"},
   code : {0, 1}, told : {"no", "stop", "end"}]

Rows == Range(encoders)

TableInv ==
  /\ procs \in Seq(Process)
  /\ \A i \in DOMAIN procs : procs[i].q = "over" => procs[i].os = "dead"
  /\ proc \in [Widgets -> Nat] /\ button \in [Widgets -> {"Start", "Stop"}]
  /\ killTimer \in [Widgets -> BOOLEAN] /\ replaced \subseteq Widgets

\* The pointer of a row is to a process of its own, and the button goes with
\* the pointer; ...
PointerInv ==
  \A w \in Widgets : proc[w] # NULL =>
    /\ proc[w] \in DOMAIN procs /\ procs[proc[w]].owner = w
    /\ button[w] = "Stop" /\ w \in Rows

\* ... there is no other process of that row that is not over.
KnownInv ==
  \A i \in DOMAIN procs :
    procs[i].q # "over" /\ procs[i].owner \notin replaced =>
      proc[procs[i].owner] = i

\* The kill timer runs against the process of the pointer, if anything, and a
\* process told to stop has the timer running against it or is dead.
TimerInv ==
  \A w \in Widgets \ replaced :
    /\ killTimer[w] =>
         /\ proc[w] # NULL
         /\ procs[proc[w]].q = "over" \/ procs[proc[w]].told = "stop"
    /\ proc[w] # NULL /\ ~killTimer[w] =>
         \/ procs[proc[w]].told # "stop" \/ procs[proc[w]].os = "dead"

RowsInv ==
  /\ encoders \in Seq(Widgets)
  /\ mode = "insert" => newName \in Widgets
  /\ autoIndex \in Nat \ {0}

WatchInv == TableInv /\ PointerInv /\ KnownInv /\ TimerInv

\* The processes waited for that have not been seen to end.
Unfinished == {i \in asked : procs[i].q # "over"}

\* After the first confirmed closing: every process that still will be counted
\* is one that was asked to end, and the count is not too low for them.
Waiting ==
  /\ replaced = {}
  /\ asked \subseteq DOMAIN procs
  /\ \A i \in asked : procs[i].q # "starting"
  /\ links \in [Widgets -> {0, 1}]
  /\ \A i \in DOMAIN procs :
       procs[i].q # "over" /\ links[procs[i].owner] = 1 => i \in asked
  /\ Runs => Cardinality(Unfinished) <= stopCount
  /\ phase = "exited" /\ exitCode # 256 => \A i \in asked : procs[i].os = "dead"

CloseInv ==
  /\ stopCount \in Int /\ closes \in Nat /\ restarted \in BOOLEAN
  /\ links \in [Widgets -> Nat]
  /\ closes = 0 => links = [w \in Widgets |-> 0]
  /\ closes = 1 /\ ~restarted => Waiting

IInv == WatchInv /\ RowsInv /\ CloseInv

-----------------------------------------------------------------------------
(* What is done to one process.                                            *)

\* A process whose end has been handled is dead; its row stays.
LEMMA OverFields ==
  ASSUME NEW p \in Process
  PROVE  /\ Over(p) \in Process /\ Over(p).owner = p.owner
         /\ Over(p).q = "over" /\ Over(p).os = "dead"
  BY DEF Over, NewProcess, Process

\* The fields of a new process.
LEMMA NewFields ==
  ASSUME NEW w \in Widgets
  PROVE  /\ NewProcess(w) \in Process /\ NewProcess(w).owner = w
         /\ NewProcess(w).q = "starting" /\ NewProcess(w).told = "no"
  BY DEF NewProcess, Process

\* A kill changes the field os and no other.
LEMMA KilledFields ==
  ASSUME NEW p \in Process
  PROVE  /\ Killed(p) \in Process /\ Killed(p).owner = p.owner
         /\ Killed(p).q = p.q /\ Killed(p).told = p.told /\ Killed(p).os = "dead"
  BY DEF Killed, Process

\* A stop changes the field told and no other.
LEMMA ToldFields ==
  ASSUME NEW p \in Process, NEW how \in {"stop", "end"}
  PROVE  /\ Told(p, how) \in Process /\ Told(p, how).owner = p.owner
         /\ Told(p, how).q = p.q /\ Told(p, how).os = p.os
         /\ Told(p, how).told = how
  BY DEF Told, Process

\* The end of the program tells a process to end, which is not a stop.
LEMMA EndToldFields ==
  ASSUME NEW p \in Process
  PROVE  /\ EndTold(p) \in Process /\ EndTold(p).owner = p.owner
         /\ EndTold(p).q = p.q /\ EndTold(p).os = p.os
         /\ EndTold(p).told = "stop" <=> p.told = "stop"
  BY ToldFields DEF EndTold

\* A process goes on: it may get from one state to the next, and die.
GoesOn(p, r) ==
  /\ r.owner = p.owner
  /\ r.q \in {p.q, "over"} \/ (p.q = "starting" /\ r.q = "running")
  /\ r.q = "over" => r.os = "dead"
  /\ p.os = "dead" => r.os = "dead"

\* ... and its being told to stop is neither new nor forgotten.
NotTold(p, r) == r.q # "over" => (r.told = "stop" <=> p.told = "stop")

\* The same for the table.
TableGoesOn ==
  /\ procs' \in Seq(Process) /\ DOMAIN procs' = DOMAIN procs
  /\ \A i \in DOMAIN procs : GoesOn(procs[i], procs'[i])

\* A changed entry of a sequence leaves its length.
LEMMA SameLength ==
  ASSUME NEW S, NEW s \in Seq(S), NEW t,
         t = [i \in DOMAIN s |-> t[i]], \A i \in DOMAIN s : t[i] \in S
  PROVE  t \in Seq(S) /\ DOMAIN t = DOMAIN s
<1>1. Len(s) \in Nat /\ DOMAIN s = 1 .. Len(s)
  OBVIOUS
<1>2. t \in [1 .. Len(s) -> S]
  BY <1>1
<1> QED BY <1>1, <1>2, SeqDef

(* A handler that changes processes only, none of them told to stop.       *)
LEMMA TableKeeps ==
  ASSUME WatchInv, TableGoesOn,
         \A i \in DOMAIN procs : NotTold(procs[i], procs'[i]),
         UNCHANGED <<proc, button, killTimer, replaced>>, Rows' = Rows
  PROVE  WatchInv'
<1> USE DEF WatchInv
<1>1. \A i \in DOMAIN procs :
        /\ procs[i] \in Process /\ procs'[i] \in Process
        /\ GoesOn(procs[i], procs'[i]) /\ NotTold(procs[i], procs'[i])
        /\ procs[i].q = "over" => procs[i].os = "dead"
  BY DEF TableInv, TableGoesOn
<1>2. TableInv'
  BY <1>1 DEF TableInv, TableGoesOn, GoesOn
<1>3. PointerInv'
  BY <1>1 DEF TableInv, PointerInv, TableGoesOn, GoesOn
<1>4. KnownInv'
  BY <1>1 DEF KnownInv, TableGoesOn, GoesOn
<1>5. TimerInv'
  <2> SUFFICES ASSUME NEW w \in Widgets \ replaced
               PROVE  /\ killTimer[w] =>
                           /\ proc[w] # NULL
                           /\ procs'[proc[w]].q = "over" \/ procs'[proc[w]].told = "stop"
                      /\ proc[w] # NULL /\ ~killTimer[w] =>
                           procs'[proc[w]].told # "stop" \/ procs'[proc[w]].os = "dead"
    BY DEF TimerInv
  <2>1. proc[w] # NULL => proc[w] \in DOMAIN procs
    BY DEF PointerInv
  <2> QED BY <1>1, <2>1 DEF TimerInv, GoesOn, NotTold
<1> QED BY <1>2, <1>3, <1>4, <1>5


(* A start: a row that had a process is in replaced from now on, and one   *)
(* that had none has no other that is not over.                            *)
LEMMA StartKeepsWatch ==
  ASSUME WatchInv, NEW w \in Widgets, w \in Rows, StartEncoding(w), Rows' = Rows
  PROVE  WatchInv'
<1> USE DEF WatchInv
<1>1. CASE UNCHANGED widgetVars
  BY <1>1 DEF widgetVars, TableInv, PointerInv, KnownInv, TimerInv
<1>2. CASE /\ procs' = Append(procs, NewProcess(w))
           /\ proc' = [proc EXCEPT ![w] = Len(procs) + 1]
           /\ button' = [button EXCEPT ![w] = "Stop"]
           /\ replaced' = IF proc[w] # NULL THEN replaced \cup {w} ELSE replaced
           /\ UNCHANGED killTimer
  <2> DEFINE n == Len(procs) + 1
  <2>1. /\ procs \in Seq(Process) /\ Len(procs) \in Nat /\ DOMAIN procs = 1 .. Len(procs)
        /\ \A i \in DOMAIN procs : procs[i] \in Process
    BY DEF TableInv
  <2>2. /\ procs' \in Seq(Process) /\ DOMAIN procs' = 1 .. n
        /\ \A i \in DOMAIN procs : i \in DOMAIN procs' /\ procs'[i] = procs[i]
        /\ procs'[n] = NewProcess(w)
    BY <1>2, <2>1, NewFields, AppendProperties
  <2>3. n \in DOMAIN procs' /\ n # NULL /\ n \in Nat /\ n \notin DOMAIN procs
    BY <2>1, <2>2 DEF NULL
  <2>4. \A i \in DOMAIN procs' : i \in DOMAIN procs \/ i = n
    BY <2>1, <2>2
  <2> HIDE DEF n
  <2>5. /\ procs'[n].owner = w /\ procs'[n].q = "starting" /\ procs'[n].told = "no"
    BY <2>2, NewFields
  <2>6. /\ proc' = [proc EXCEPT ![w] = n] /\ proc \in [Widgets -> Nat]
        /\ proc'[w] = n /\ \A v \in Widgets : v # w => proc'[v] = proc[v]
        /\ button'[w] = "Stop" /\ \A v \in Widgets : v # w => button'[v] = button[v]
    BY <1>2 DEF TableInv, n
  <2>7. TableInv'
    BY <1>2, <2>2, <2>3, <2>4, <2>5, <2>6 DEF TableInv
  <2>8. PointerInv'
    BY <2>2, <2>3, <2>5, <2>6 DEF PointerInv
  <2>9. KnownInv'
    <3> SUFFICES ASSUME NEW i \in DOMAIN procs', procs'[i].q # "over",
                        procs'[i].owner \notin replaced'
                 PROVE  proc'[procs'[i].owner] = i
      BY DEF KnownInv
    <3>1. CASE i = n
      BY <2>5, <2>6, <3>1
    <3>2. CASE i # n
      <4>1. i \in DOMAIN procs /\ procs'[i] = procs[i] /\ procs[i].owner \notin replaced
        BY <1>2, <2>2, <2>4, <3>2
      <4>2. proc[procs[i].owner] = i /\ procs[i].owner \in Widgets /\ i # NULL
        BY <2>1, <4>1 DEF KnownInv, Process, NULL
      <4>3. procs[i].owner # w
        BY <1>2, <4>1, <4>2
      <4> QED BY <2>6, <4>1, <4>2, <4>3
    <3> QED BY <3>1, <3>2
  <2>10. TimerInv'
    <3> SUFFICES ASSUME NEW v \in Widgets \ replaced'
                 PROVE  /\ killTimer[v] =>
                             /\ proc'[v] # NULL
                             /\ procs'[proc'[v]].q = "over" \/ procs'[proc'[v]].told = "stop"
                        /\ proc'[v] # NULL /\ ~killTimer[v] =>
                             procs'[proc'[v]].told # "stop" \/ procs'[proc'[v]].os = "dead"
      BY <1>2 DEF TimerInv
    <3>0. v \in Widgets \ replaced
      BY <1>2
    <3>1. CASE v = w
      <4>1. proc[w] = NULL
        BY <1>2, <3>1
      <4>2. ~killTimer[w]
        BY <3>0, <3>1, <4>1 DEF TimerInv
      <4> QED BY <2>5, <2>6, <3>1, <4>2
    <3>2. CASE v # w
      <4>1. proc[v] # NULL => proc[v] \in DOMAIN procs
        BY DEF PointerInv
      <4> QED BY <2>2, <2>6, <3>0, <3>2, <4>1 DEF TimerInv
    <3> QED BY <3>1, <3>2
  <2> QED BY <2>7, <2>8, <2>9, <2>10
<1> QED BY <1>1, <1>2 DEF StartEncoding

(* One process of the table is replaced by what becomes of it.             *)
LEMMA OneChanges ==
  ASSUME TableInv, NEW i \in DOMAIN procs, NEW r \in Process,
         procs' = [procs EXCEPT ![i] = r]
  PROVE  /\ procs' \in Seq(Process) /\ DOMAIN procs' = DOMAIN procs
         /\ procs[i] \in Process
         /\ procs'[i] = r /\ \A j \in DOMAIN procs : j # i => procs'[j] = procs[j]
<1>1. procs \in Seq(Process)
  BY DEF TableInv
<1> QED BY <1>1, ExceptSeq

(* The button of a row: its process is told to stop, and the timer runs    *)
(* against it.                                                             *)
LEMMA StopKeepsWatch ==
  ASSUME WatchInv, NEW w \in Widgets, proc[w] # NULL, StopEncoding(w), Rows' = Rows
  PROVE  WatchInv' /\ TableGoesOn
<1> USE DEF WatchInv
<1> DEFINE k == proc[w]
           r == Told(procs[k], "stop")
<1>1. k \in DOMAIN procs /\ procs[k].owner = w
  BY DEF PointerInv
<1>2. procs[k] \in Process
  BY <1>1 DEF TableInv
<1>3. /\ r \in Process /\ r.owner = procs[k].owner /\ r.q = procs[k].q
      /\ r.os = procs[k].os /\ r.told = "stop"
  BY <1>2, ToldFields
<1>4. /\ procs' = [procs EXCEPT ![k] = r]
      /\ killTimer' = [killTimer EXCEPT ![w] = TRUE]
      /\ UNCHANGED <<proc, button, replaced>>
  BY DEF StopEncoding
<1> HIDE DEF r
<1>5. /\ procs' \in Seq(Process) /\ DOMAIN procs' = DOMAIN procs
      /\ procs'[k] = r /\ \A j \in DOMAIN procs : j # k => procs'[j] = procs[j]
  BY <1>1, <1>3, <1>4, OneChanges
<1>6. \A i \in DOMAIN procs : procs[i].q = "over" => procs[i].os = "dead"
  BY DEF TableInv
<1>7. TableGoesOn
  BY <1>3, <1>5, <1>6 DEF TableGoesOn, GoesOn
<1>8. TableInv'
  BY <1>3, <1>4, <1>5, <1>6 DEF TableInv
<1>9. PointerInv'
  BY <1>3, <1>4, <1>5 DEF PointerInv
<1>10. KnownInv'
  BY <1>3, <1>4, <1>5 DEF KnownInv
<1>11. TimerInv'
  <2> SUFFICES ASSUME NEW v \in Widgets \ replaced
               PROVE  /\ killTimer'[v] =>
                           /\ proc[v] # NULL
                           /\ procs'[proc[v]].q = "over" \/ procs'[proc[v]].told = "stop"
                      /\ proc[v] # NULL /\ ~killTimer'[v] =>
                           procs'[proc[v]].told # "stop" \/ procs'[proc[v]].os = "dead"
    BY <1>4 DEF TimerInv
  <2>1. CASE v = w
    <3>1. killTimer'[w]
      BY <1>4 DEF TableInv
    <3> QED BY <1>3, <1>5, <2>1, <3>1
  <2>2. CASE v # w
    <3>1. killTimer'[v] = killTimer[v]
      BY <1>4, <2>2 DEF TableInv
    <3>2. proc[v] # NULL => proc[v] \in DOMAIN procs /\ proc[v] # k
      BY <1>1, <2>2 DEF PointerInv
    <3> QED BY <1>5, <3>1, <3>2 DEF TimerInv
  <2> QED BY <2>1, <2>2
<1> QED BY <1>7, <1>8, <1>9, <1>10, <1>11

(* The timer has run out: what the row points at is dead if it runs.       *)
LEMMA KillKeepsWatch ==
  ASSUME WatchInv, NEW w \in Widgets, KillTimeout(w), Rows' = Rows
  PROVE  WatchInv' /\ TableGoesOn
<1> USE DEF WatchInv
<1> DEFINE k == proc[w]
           r == Killed(procs[k])
<1>0. /\ killTimer[w] /\ killTimer' = [killTimer EXCEPT ![w] = FALSE]
      /\ proc[w] # NULL => procs[proc[w]].q # "starting"
      /\ procs' = IF IsActive(w) THEN [procs EXCEPT ![k] = r] ELSE procs
      /\ UNCHANGED <<proc, button, replaced>>
  BY DEF KillTimeout
<1>1. \A v \in Widgets : proc[v] # NULL => proc[v] \in DOMAIN procs /\ procs[proc[v]].owner = v
  BY DEF PointerInv
<1>2. \A i \in DOMAIN procs :
        procs[i] \in Process /\ (procs[i].q = "over" => procs[i].os = "dead")
  BY DEF TableInv
<1>3. /\ procs' \in Seq(Process) /\ DOMAIN procs' = DOMAIN procs
      /\ \A i \in DOMAIN procs :
           /\ procs'[i] \in Process
           /\ procs'[i].owner = procs[i].owner /\ procs'[i].q = procs[i].q
           /\ procs'[i].told = procs[i].told
           /\ procs[i].os = "dead" => procs'[i].os = "dead"
           /\ i = k /\ IsActive(w) => procs'[i].os = "dead"
  <2>1. CASE IsActive(w)
    <3>1. k \in DOMAIN procs
      BY <1>1, <2>1 DEF IsActive
    <3>2. /\ r \in Process /\ r.owner = procs[k].owner /\ r.q = procs[k].q
          /\ r.told = procs[k].told /\ r.os = "dead"
      BY <1>2, <3>1, KilledFields
    <3> HIDE DEF r
    <3>3. /\ procs' \in Seq(Process) /\ DOMAIN procs' = DOMAIN procs
          /\ procs'[k] = r /\ \A j \in DOMAIN procs : j # k => procs'[j] = procs[j]
      BY <1>0, <2>1, <3>1, <3>2, OneChanges
    <3> QED BY <1>2, <3>2, <3>3
  <2>2. CASE ~IsActive(w)
    BY <1>0, <1>2, <2>2 DEF TableInv
  <2> QED BY <2>1, <2>2
<1>4. TableGoesOn
  BY <1>2, <1>3 DEF TableGoesOn, GoesOn
<1>5. TableInv'
  BY <1>0, <1>2, <1>3 DEF TableInv
<1>6. PointerInv'
  BY <1>0, <1>3 DEF PointerInv
<1>7. KnownInv'
  BY <1>0, <1>3 DEF KnownInv
<1>8. TimerInv'
  <2> SUFFICES ASSUME NEW v \in Widgets \ replaced
               PROVE  /\ killTimer'[v] =>
                           /\ proc[v] # NULL
                           /\ procs'[proc[v]].q = "over" \/ procs'[proc[v]].told = "stop"
                      /\ proc[v] # NULL /\ ~killTimer'[v] =>
                           procs'[proc[v]].told # "stop" \/ procs'[proc[v]].os = "dead"
    BY <1>0 DEF TimerInv
  <2>1. CASE v = w
    <3>1. ~killTimer'[w]
      BY <1>0 DEF TableInv
    <3>2. proc[w] # NULL => procs'[k].os = "dead"
      <4>1. CASE proc[w] # NULL /\ procs[k].q = "over"
        BY <1>1, <1>2, <1>3, <4>1
      <4>2. CASE proc[w] # NULL /\ procs[k].q = "running"
        BY <1>1, <1>3, <4>2 DEF IsActive
      <4> QED BY <1>0, <1>1, <1>2, <4>1, <4>2 DEF Process
    <3> QED BY <2>1, <3>1, <3>2
  <2>2. CASE v # w
    <3>1. killTimer'[v] = killTimer[v]
      BY <1>0, <2>2 DEF TableInv
    <3> QED BY <1>1, <1>3, <3>1 DEF TimerInv
  <2> QED BY <2>1, <2>2
<1> QED BY <1>4, <1>5, <1>6, <1>7, <1>8

(* The end of a process is seen: it is over, and so is the one its row     *)
(* points at, which are the same but in a row of replaced.                 *)
LEMMA FinishKeepsWatch ==
  ASSUME WatchInv, NEW i \in DOMAIN procs, ProcessFinished(i), Rows' = Rows
  PROVE  /\ WatchInv' /\ TableGoesOn /\ replaced' = replaced
         /\ procs[i].q # "over" /\ procs'[i].q = "over"
<1> USE DEF WatchInv
<1> DEFINE w == procs[i].owner
           k == proc[w]
           over == [procs EXCEPT ![i] = Over(procs[i])]
<1>1. /\ procs \in Seq(Process)
      /\ \A j \in DOMAIN procs :
           procs[j] \in Process /\ (procs[j].q = "over" => procs[j].os = "dead")
  BY DEF TableInv
<1>2. w \in Widgets /\ procs[i].q = "running"
  BY <1>1 DEF Process, ProcessFinished
<1>3. k # NULL => k \in DOMAIN procs /\ procs[k].owner = w
  BY <1>2 DEF PointerInv
<1>4. /\ over \in Seq(Process) /\ DOMAIN over = DOMAIN procs
      /\ over[i] = Over(procs[i]) /\ \A j \in DOMAIN procs : j # i => over[j] = procs[j]
  <2>1. Over(procs[i]) \in Process
    BY <1>1, OverFields
  <2> QED BY <1>1, <2>1, ExceptSeq
<1>5. /\ procs' = IF k = NULL THEN over ELSE [over EXCEPT ![k] = Over(over[k])]
      /\ proc' = [proc EXCEPT ![w] = NULL]
      /\ killTimer' = [killTimer EXCEPT ![w] = FALSE]
      /\ button' = IF procs[i].code = 0 THEN [button EXCEPT ![w] = "Start"] ELSE button
      /\ replaced' = replaced
  BY DEF ProcessFinished
<1> HIDE DEF over
<1>6. \A j \in DOMAIN procs :
        /\ over[j] \in Process /\ over[j].owner = procs[j].owner
        /\ over[j] = procs[j] \/ (over[j].q = "over" /\ over[j].os = "dead")
  BY <1>1, <1>4, OverFields
<1>7. /\ procs' \in Seq(Process) /\ DOMAIN procs' = DOMAIN procs
      /\ \A j \in DOMAIN procs :
           /\ procs'[j] \in Process /\ procs'[j].owner = procs[j].owner
           /\ procs'[j] = procs[j] \/ (procs'[j].q = "over" /\ procs'[j].os = "dead")
      /\ procs'[i].q = "over"
  <2>1. CASE k = NULL
    <3>1. procs' = over
      BY <1>5, <2>1
    <3> QED BY <1>1, <1>4, <1>6, <3>1, OverFields
  <2>2. CASE k # NULL
    <3> DEFINE r == Over(over[k])
    <3>1. r \in Process /\ r.owner = over[k].owner /\ r.q = "over" /\ r.os = "dead"
      BY <1>3, <1>6, <2>2, OverFields
    <3>2. procs' = [over EXCEPT ![k] = r]
      BY <1>5, <2>2
    <3> HIDE DEF r
    <3>3. /\ procs' \in Seq(Process) /\ DOMAIN procs' = DOMAIN procs
          /\ procs'[k] = r /\ \A j \in DOMAIN procs : j # k => procs'[j] = over[j]
      BY <1>3, <1>4, <2>2, <3>1, <3>2, ExceptSeq
    <3>4. over[i].q = "over"
      BY <1>1, <1>4, OverFields
    <3> QED BY <1>6, <2>2, <3>1, <3>3, <3>4
  <2> QED BY <2>1, <2>2
<1>8. /\ proc'[w] = NULL /\ \A v \in Widgets : v # w => proc'[v] = proc[v]
      /\ proc' \in [Widgets -> Nat] /\ button' \in [Widgets -> {"Start", "Stop"}]
      /\ killTimer' \in [Widgets -> BOOLEAN] /\ ~killTimer'[w]
      /\ \A v \in Widgets : v # w => killTimer'[v] = killTimer[v] /\ button'[v] = button[v]
  BY <1>2, <1>5 DEF TableInv, NULL
<1>9. TableGoesOn
  BY <1>1, <1>7 DEF TableGoesOn, GoesOn
<1>10. TableInv'
  BY <1>1, <1>5, <1>7, <1>8 DEF TableInv
<1> HIDE DEF k, w
<1>11. PointerInv'
  BY <1>7, <1>8 DEF PointerInv
<1>12. KnownInv'
  <2> SUFFICES ASSUME NEW j \in DOMAIN procs, procs'[j].q # "over",
                      procs[j].owner \notin replaced
               PROVE  proc'[procs[j].owner] = j
    BY <1>5, <1>7 DEF KnownInv
  <2>1. procs'[j] = procs[j] /\ j # i
    BY <1>7
  <2>2. proc[procs[j].owner] = j /\ procs[j].owner \in Widgets
    BY <1>1, <2>1 DEF KnownInv, Process
  <2>3. procs[j].owner # w
    <3>1. SUFFICES ASSUME procs[j].owner = w PROVE FALSE
      OBVIOUS
    <3>2. proc[w] = i
      BY <1>2, <3>1 DEF KnownInv, w
    <3> QED BY <2>1, <2>2, <3>1, <3>2
  <2> QED BY <1>8, <2>2, <2>3
<1>13. TimerInv'
  <2> SUFFICES ASSUME NEW v \in Widgets \ replaced
               PROVE  /\ killTimer'[v] =>
                           /\ proc'[v] # NULL
                           /\ procs'[proc'[v]].q = "over" \/ procs'[proc'[v]].told = "stop"
                      /\ proc'[v] # NULL /\ ~killTimer'[v] =>
                           procs'[proc'[v]].told # "stop" \/ procs'[proc'[v]].os = "dead"
    BY <1>5 DEF TimerInv
  <2>1. CASE v = w
    BY <1>8, <2>1
  <2>2. CASE v # w
    <3>1. proc[v] # NULL => proc[v] \in DOMAIN procs
      BY DEF PointerInv
    <3> QED BY <1>7, <1>8, <2>2, <3>1 DEF TimerInv
  <2> QED BY <2>1, <2>2
<1> QED BY <1>2, <1>5, <1>7, <1>9, <1>10, <1>11, <1>12, <1>13

(* A row is removed with its processes.                                    *)
LEMMA DeleteKeepsWatch ==
  ASSUME WatchInv, NEW w \in Widgets, DeleteWidget(w), Rows \ {w} \subseteq Rows'
  PROVE  WatchInv' /\ TableGoesOn
<1> USE DEF WatchInv
<1>1. /\ procs \in Seq(Process)
      /\ \A j \in DOMAIN procs :
           procs[j] \in Process /\ (procs[j].q = "over" => procs[j].os = "dead")
  BY DEF TableInv
<1>2. /\ procs' = [i \in DOMAIN procs |->
                     IF procs[i].owner = w THEN Over(procs[i]) ELSE procs[i]]
      /\ proc' = [proc EXCEPT ![w] = NULL]
      /\ button' = [button EXCEPT ![w] = "Start"]
      /\ killTimer' = [killTimer EXCEPT ![w] = FALSE]
      /\ replaced' = replaced \ {w}
  BY DEF DeleteWidget
<1>3. \A j \in DOMAIN procs :
        /\ procs'[j] \in Process /\ procs'[j].owner = procs[j].owner
        /\ procs[j].owner # w => procs'[j] = procs[j]
        /\ procs[j].owner = w => procs'[j].q = "over" /\ procs'[j].os = "dead"
  BY <1>1, <1>2, OverFields
<1>4. procs' \in Seq(Process) /\ DOMAIN procs' = DOMAIN procs
  <2>1. procs' = [i \in DOMAIN procs |-> procs'[i]]
    BY <1>2
  <2> QED BY <1>1, <1>3, <2>1, SameLength
<1>5. /\ proc'[w] = NULL /\ \A v \in Widgets : v # w => proc'[v] = proc[v]
      /\ proc' \in [Widgets -> Nat] /\ button' \in [Widgets -> {"Start", "Stop"}]
      /\ killTimer' \in [Widgets -> BOOLEAN] /\ ~killTimer'[w]
      /\ \A v \in Widgets : v # w => killTimer'[v] = killTimer[v] /\ button'[v] = button[v]
  BY <1>2 DEF TableInv, NULL
<1>6. TableGoesOn
  BY <1>1, <1>3, <1>4 DEF TableGoesOn, GoesOn
<1>7. TableInv'
  BY <1>1, <1>2, <1>3, <1>4, <1>5 DEF TableInv
<1>8. PointerInv'
  BY <1>3, <1>4, <1>5 DEF PointerInv
<1>9. KnownInv'
  <2> SUFFICES ASSUME NEW j \in DOMAIN procs, procs'[j].q # "over",
                      procs[j].owner \notin replaced'
               PROVE  proc'[procs[j].owner] = j
    BY <1>3, <1>4 DEF KnownInv
  <2>1. procs'[j] = procs[j] /\ procs[j].owner # w
    BY <1>3
  <2>2. procs[j].owner \notin replaced /\ procs[j].owner \in Widgets
    BY <1>1, <1>2, <2>1 DEF Process
  <2>3. proc[procs[j].owner] = j
    BY <2>1, <2>2 DEF KnownInv
  <2> QED BY <1>5, <2>1, <2>2, <2>3
<1>10. TimerInv'
  <2> SUFFICES ASSUME NEW v \in Widgets \ replaced'
               PROVE  /\ killTimer'[v] =>
                           /\ proc'[v] # NULL
                           /\ procs'[proc'[v]].q = "over" \/ procs'[proc'[v]].told = "stop"
                      /\ proc'[v] # NULL /\ ~killTimer'[v] =>
                           procs'[proc'[v]].told # "stop" \/ procs'[proc'[v]].os = "dead"
    BY DEF TimerInv
  <2>1. CASE v = w
    BY <1>5, <2>1
  <2>2. CASE v # w
    <3>1. proc[v] # NULL => proc[v] \in DOMAIN procs /\ procs[proc[v]].owner = v
      BY DEF PointerInv
    <3> QED BY <1>2, <1>3, <1>5, <2>2, <3>1 DEF TimerInv
  <2> QED BY <2>1, <2>2
<1> QED BY <1>6, <1>7, <1>8, <1>9, <1>10

-----------------------------------------------------------------------------
(* The rows.                                                               *)

\* The rows of a settings file, in some order.
LEMMA SequenceOfSet ==
  ASSUME NEW S, IsFiniteSet(S), S \subseteq Widgets
  PROVE  SetToSeq(S) \in Seq(Widgets)
<1> DEFINE n == Cardinality(S)
<1>1. n \in Nat /\ ExistsBijection(1 .. n, S)
  BY FS_CardinalityType
<1>2. PICK f \in [1 .. n -> S] : IsInjective(f)
  BY <1>1 DEF ExistsBijection, Bijection, Injection, IsInjective
<1>3. SetToSeq(S) \in [1 .. n -> S]
  BY <1>2 DEF SetToSeq
<1>4. SetToSeq(S) \in [1 .. n -> Widgets]
  BY <1>3
<1> QED BY <1>1, <1>4, SeqDef

\* A row put in; the others stay.
LEMMA InsertedRow ==
  ASSUME encoders \in Seq(Widgets), NEW k \in 0 .. Len(encoders), NEW e \in Widgets
  PROVE  /\ InsertAt(encoders, k + 1, e) \in Seq(Widgets)
         /\ Rows \subseteq Range(InsertAt(encoders, k + 1, e))
<1> DEFINE s1 == SubSeq(encoders, 1, (k + 1) - 1)
           s2 == SubSeq(encoders, k + 1, Len(encoders))
           s3 == s1 \o <<e>>
           t  == s3 \o s2
<1>1. Len(encoders) \in Nat /\ DOMAIN encoders = 1 .. Len(encoders)
  OBVIOUS
<1>2. /\ s1 \in Seq(Widgets) /\ Len(s1) = k
      /\ \A i \in 1 .. k : s1[i] = encoders[i]
  <2>1. (k + 1) - 1 = k /\ k \in 1 - 1 .. Len(encoders) /\ 1 \in 1 .. Len(encoders) + 1
    BY <1>1
  <2>2. s1 = SubSeq(encoders, 1, k)
    BY <2>1
  <2> QED BY <1>1, <2>1, <2>2, SubSeqProperties
<1>3. /\ s2 \in Seq(Widgets) /\ Len(s2) = Len(encoders) - k
      /\ \A i \in 1 .. Len(encoders) - k : s2[i] = encoders[k + i]
  <2>1. k + 1 \in 1 .. Len(encoders) + 1 /\ Len(encoders) \in k + 1 - 1 .. Len(encoders)
    BY <1>1
  <2>2. /\ s2 \in Seq(Widgets)
        /\ Len(s2) = IF k + 1 <= Len(encoders) THEN Len(encoders) - (k + 1) + 1 ELSE 0
        /\ \A i \in 1 .. Len(encoders) - (k + 1) + 1 : s2[i] = encoders[k + 1 + i - 1]
    BY <2>1, SubSeqProperties
  <2> HIDE DEF s2
  <2>3. Len(s2) = Len(encoders) - k
    <3>1. k = Len(encoders) \/ k + 1 <= Len(encoders)
      <4>1. \A n \in Nat : \A j \in 0 .. n : j = n \/ j + 1 <= n
        OBVIOUS
      <4> QED BY <1>1, <4>1
    <3>2. CASE k = Len(encoders)
      <4>1. Len(s2) = 0
        BY <1>1, <2>2, <3>2
      <4> QED BY <1>1, <3>2, <4>1
    <3>3. CASE k + 1 <= Len(encoders)
      <4>1. Len(s2) = Len(encoders) - (k + 1) + 1
        BY <2>2, <3>3
      <4> QED BY <1>1, <4>1
    <3> QED BY <3>1, <3>2, <3>3
  <2>4. ASSUME NEW i \in 1 .. Len(encoders) - k PROVE s2[i] = encoders[k + i]
    <3>1. i \in 1 .. Len(encoders) - (k + 1) + 1 /\ k + 1 + i - 1 = k + i
      BY <1>1
    <3> QED BY <2>2, <3>1
  <2> QED BY <2>2, <2>3, <2>4
<1>4. InsertAt(encoders, k + 1, e) = t
  BY DEF InsertAt
<1> HIDE DEF s1, s2
<1>5. /\ s3 \in Seq(Widgets) /\ Len(s3) = k + 1
      /\ \A i \in 1 .. k : s3[i] = s1[i]
  BY <1>2
<1> HIDE DEF s3
<1>6. /\ t \in Seq(Widgets) /\ Len(t) = Len(encoders) + 1
      /\ \A i \in 1 .. k : t[i] = encoders[i]
      /\ \A i \in k + 1 .. Len(encoders) : t[i + 1] = encoders[i]
  <2>1. /\ t \in Seq(Widgets) /\ Len(t) = Len(s3) + Len(s2)
        /\ \A i \in 1 .. Len(s3) + Len(s2) :
             t[i] = IF i <= Len(s3) THEN s3[i] ELSE s2[i - Len(s3)]
    BY <1>3, <1>5, ConcatProperties
  <2> HIDE DEF t
  <2>2. ASSUME NEW i \in 1 .. k PROVE t[i] = encoders[i]
    <3>1. i \in 1 .. Len(s3) + Len(s2) /\ i <= Len(s3)
      BY <1>1, <1>3, <1>5
    <3> QED BY <1>2, <1>5, <2>1, <3>1
  <2>3. ASSUME NEW i \in k + 1 .. Len(encoders) PROVE t[i + 1] = encoders[i]
    <3>1. /\ i + 1 \in 1 .. Len(s3) + Len(s2) /\ ~(i + 1 <= Len(s3))
          /\ (i + 1) - Len(s3) = i - k
      BY <1>1, <1>3, <1>5
    <3>4. t[i + 1] = s2[(i + 1) - Len(s3)]
      BY <2>1, <3>1
    <3>2. i - k \in 1 .. Len(encoders) - k /\ k + (i - k) = i
      BY <1>1
    <3>3. s2[i - k] = encoders[k + (i - k)]
      BY <1>3, <3>2
    <3> QED BY <3>1, <3>2, <3>3, <3>4
  <2> QED BY <1>1, <1>3, <1>5, <2>1, <2>2, <2>3
<1> HIDE DEF t
<1>7. \A i \in 1 .. Len(encoders) : \E j \in DOMAIN t : t[j] = encoders[i]
  <2> TAKE i \in 1 .. Len(encoders)
  <2>1. CASE i <= k
    BY <1>1, <1>6, <2>1
  <2>2. CASE i > k
    <3>1. i + 1 \in DOMAIN t /\ t[i + 1] = encoders[i]
      BY <1>1, <1>6, <2>2
    <3> QED BY <3>1
  <2> QED BY <2>1, <2>2
<1> QED BY <1>1, <1>4, <1>6, <1>7 DEF Rows, Range

\* A row taken out; the others stay.
LEMMA ErasedRow ==
  ASSUME encoders \in Seq(Widgets), NEW w, EraseRow(w)
  PROVE  encoders' \in Seq(Widgets) /\ Rows \ {w} \subseteq Rows'
<1>1. PICK k \in DOMAIN encoders : encoders[k] = w /\ encoders' = RemoveAt(encoders, k)
  BY DEF EraseRow
<1> DEFINE s1 == SubSeq(encoders, 1, k - 1)
           s2 == SubSeq(encoders, k + 1, Len(encoders))
           t  == s1 \o s2
<1>2. Len(encoders) \in Nat /\ DOMAIN encoders = 1 .. Len(encoders) /\ k \in 1 .. Len(encoders)
  OBVIOUS
<1>3. /\ s1 \in Seq(Widgets) /\ Len(s1) = k - 1
      /\ \A i \in 1 .. k - 1 : s1[i] = encoders[i]
  BY <1>2, SubSeqProperties
<1>4. /\ s2 \in Seq(Widgets) /\ Len(s2) = Len(encoders) - k
      /\ \A i \in 1 .. Len(encoders) - k : s2[i] = encoders[k + i]
  BY <1>2, SubSeqProperties
<1>5. encoders' = t
  BY <1>1, <1>2 DEF RemoveAt
<1> HIDE DEF s1, s2
<1>6. /\ t \in Seq(Widgets) /\ Len(t) = Len(encoders) - 1
      /\ \A i \in 1 .. k - 1 : t[i] = encoders[i]
      /\ \A i \in k + 1 .. Len(encoders) : t[i - 1] = encoders[i]
  <2>1. /\ t \in Seq(Widgets) /\ Len(t) = Len(s1) + Len(s2)
        /\ \A i \in 1 .. Len(s1) + Len(s2) :
             t[i] = IF i <= Len(s1) THEN s1[i] ELSE s2[i - Len(s1)]
    BY <1>3, <1>4, ConcatProperties
  <2> HIDE DEF t
  <2>2. \A i \in 1 .. k - 1 : t[i] = encoders[i]
    BY <1>2, <1>3, <1>4, <2>1
  <2>3. ASSUME NEW i \in k + 1 .. Len(encoders) PROVE t[i - 1] = encoders[i]
    <3>1. /\ i - 1 \in 1 .. Len(s1) + Len(s2) /\ ~(i - 1 <= Len(s1))
          /\ i - 1 - Len(s1) = i - k /\ i - k \in 1 .. Len(encoders) - k
          /\ k + (i - k) = i
      BY <1>2, <1>3, <1>4
    <3> QED BY <1>4, <2>1, <3>1
  <2> QED BY <1>2, <1>3, <1>4, <2>1, <2>2, <2>3
<1> HIDE DEF t
<1>7. \A i \in 1 .. Len(encoders) : i # k => \E j \in DOMAIN t : t[j] = encoders[i]
  <2> TAKE i \in 1 .. Len(encoders)
  <2>1. CASE i < k
    BY <1>2, <1>6, <2>1
  <2>2. CASE i > k
    <3>1. i - 1 \in DOMAIN t /\ t[i - 1] = encoders[i]
      BY <1>2, <1>6, <2>2
    <3> QED BY <3>1
  <2> QED BY <1>2, <2>1, <2>2
<1> QED BY <1>1, <1>2, <1>5, <1>6, <1>7 DEF Rows, Range

\* The rows that can be active are finitely many.
LEMMA ActiveFinite ==
  ASSUME encoders \in Seq(Widgets)
  PROVE  /\ IsFiniteSet(Active) /\ Cardinality(Active) \in Nat
         /\ Active \subseteq Rows /\ Rows \subseteq Widgets
<1>1. Len(encoders) \in Nat /\ DOMAIN encoders = 1 .. Len(encoders)
      /\ encoders \in [1 .. Len(encoders) -> Widgets]
  OBVIOUS
<1>2. encoders \in Surjection(1 .. Len(encoders), Rows)
  BY <1>1 DEF Surjection, Rows, Range
<1>3. IsFiniteSet(1 .. Len(encoders))
  BY <1>1, FS_Interval
<1>4. IsFiniteSet(Rows)
  BY <1>2, <1>3, FS_Surjection
<1>5. Active \in SUBSET Rows
  BY DEF Active, Rows
<1>6. Rows \subseteq Widgets
  BY <1>1 DEF Rows, Range
<1> QED BY <1>4, <1>5, <1>6, FS_Subset, FS_CardinalityType

-----------------------------------------------------------------------------
(* Waiting for the end.                                                    *)

\* What the table says of each process.
LEMMA TableFacts ==
  ASSUME TableInv
  PROVE  \A i \in DOMAIN procs :
           /\ procs[i] \in Process /\ procs[i].owner \in Widgets
           /\ procs[i].q = "over" => procs[i].os = "dead"
<1>1. \A i \in DOMAIN procs : procs[i] \in Process
  BY DEF TableInv
<1> QED BY <1>1 DEF TableInv, Process

\* Nothing is done to a process.
LEMMA SameTable ==
  ASSUME TableInv, procs' = procs
  PROVE  TableGoesOn
  BY DEF TableInv, TableGoesOn, GoesOn

\* Nothing but rows and widgets that are not about a process.
LEMMA MoreRowsKeepWatch ==
  ASSUME WatchInv, UNCHANGED widgetVars, Rows \subseteq Rows'
  PROVE  WatchInv' /\ TableGoesOn
<1> USE DEF WatchInv, widgetVars
<1>1. TableInv'
  BY DEF TableInv
<1>2. PointerInv'
  BY DEF PointerInv
<1>3. KnownInv'
  BY DEF KnownInv
<1>4. TimerInv'
  BY DEF TimerInv
<1> QED BY <1>1, <1>2, <1>3, <1>4, SameTable

\* The processes that are waited for can be counted.
LEMMA UnfinishedFinite ==
  ASSUME TableInv, asked \subseteq DOMAIN procs
  PROVE  IsFiniteSet(Unfinished) /\ Cardinality(Unfinished) \in Nat
<1>1. DOMAIN procs = 1 .. Len(procs) /\ Len(procs) \in Nat
  BY DEF TableInv
<1>2. IsFiniteSet(DOMAIN procs)
  BY <1>1, FS_Interval
<1>3. Unfinished \in SUBSET DOMAIN procs
  BY DEF Unfinished
<1> QED BY <1>2, <1>3, FS_Subset, FS_CardinalityType

\* Processes go on while the window waits: fewer and fewer are not over.
LEMMA CloseGoesOn ==
  ASSUME WatchInv, CloseInv, Runs, TableGoesOn, replaced' \subseteq replaced,
         links' \in [Widgets -> Nat], \A w \in Widgets : links'[w] \in {0, links[w]},
         UNCHANGED <<stopCount, asked, closes, restarted>>,
         phase' # "exited" \/ exitCode' = 256
  PROVE  CloseInv'
<1>1. /\ DOMAIN procs' = DOMAIN procs
      /\ \A i \in DOMAIN procs :
           /\ procs[i].owner \in Widgets /\ procs'[i].owner = procs[i].owner
           /\ procs[i].q = "over" => procs'[i].q = "over"
           /\ procs[i].q # "starting" => procs'[i].q # "starting"
  BY TableFacts DEF WatchInv, TableGoesOn, GoesOn
<1>2. closes = 0 => links' = [w \in Widgets |-> 0]
  <2> SUFFICES ASSUME closes = 0 PROVE links' = [w \in Widgets |-> 0]
    OBVIOUS
  <2>1. \A w \in Widgets : links'[w] = 0
    BY DEF CloseInv
  <2> QED BY <2>1
<1>3. ASSUME Waiting PROVE Waiting'
  <2>1. asked \subseteq DOMAIN procs /\ IsFiniteSet(Unfinished)
        /\ Cardinality(Unfinished) \in Nat /\ Cardinality(Unfinished) <= stopCount
    BY <1>3, UnfinishedFinite DEF WatchInv, Waiting
  <2>2. Unfinished' \in SUBSET Unfinished
    BY <1>1, <2>1 DEF Unfinished
  <2>3. Cardinality(Unfinished') <= stopCount'
    <3>1. IsFiniteSet(Unfinished') /\ Cardinality(Unfinished') <= Cardinality(Unfinished)
      BY <2>1, <2>2, FS_Subset
    <3>2. Cardinality(Unfinished') \in Nat
      BY <3>1, FS_CardinalityType
    <3> QED BY <2>1, <3>1, <3>2 DEF CloseInv
  <2>4. replaced' = {}
    BY <1>3 DEF Waiting
  <2>5. asked' \subseteq DOMAIN procs' /\ \A i \in asked' : procs'[i].q # "starting"
    BY <1>1, <1>3 DEF Waiting
  <2>6. links' \in [Widgets -> {0, 1}]
    BY <1>3 DEF Waiting
  <2>7. \A i \in DOMAIN procs' :
          procs'[i].q # "over" /\ links'[procs'[i].owner] = 1 => i \in asked'
    BY <1>1, <1>3 DEF Waiting
  <2> QED BY <2>3, <2>4, <2>5, <2>6, <2>7 DEF Waiting
<1> QED BY <1>2, <1>3 DEF CloseInv

\* A start after a closing is the user's affair.
LEMMA CloseAfterStart ==
  ASSUME CloseInv, restarted' = (restarted \/ closes > 0),
         UNCHANGED <<stopCount, links, closes>>
  PROVE  CloseInv'
<1>1. closes \in Nat /\ restarted \in BOOLEAN
  BY DEF CloseInv
<1>2. closes # 0 => closes > 0
  BY <1>1
<1>3. restarted' \in BOOLEAN /\ (closes # 0 => restarted')
  BY <1>1, <1>2, Zenon
<1> QED BY <1>1, <1>3 DEF CloseInv

\* Who was asked to end has ended or is the process of an active row.
LEMMA AskedIsActive ==
  ASSUME WatchInv, Waiting, NEW i \in asked
  PROVE  /\ i \in DOMAIN procs /\ procs[i] \in Process
         /\ procs[i].os = "dead" \/ \E w \in Active : proc[w] = i
<1>1. i \in DOMAIN procs /\ procs[i] \in Process /\ procs[i].q # "starting"
      /\ (procs[i].q = "over" => procs[i].os = "dead")
  BY DEF WatchInv, TableInv, Waiting
<1>2. CASE procs[i].q = "over"
  BY <1>1, <1>2
<1>3. CASE procs[i].q = "running"
  <2> DEFINE w == procs[i].owner
  <2>1. w \in Widgets /\ proc[w] = i /\ i # NULL
    BY <1>1, <1>3, SMTT(30) DEF WatchInv, KnownInv, Waiting, Process, TableInv, NULL
  <2>2. w \in Range(encoders)
    BY <2>1 DEF WatchInv, PointerInv, Rows
  <2>3. w \in Active
    BY <1>3, <2>1, <2>2 DEF Active, IsActive
  <2> QED BY <1>1, <2>1, <2>3
<1> QED BY <1>1, <1>2, <1>3 DEF Process

\* One encoder ends: the count goes down with those that are not over.
LEMMA CloseFinish ==
  ASSUME WatchInv, CloseInv, Runs, NEW i \in DOMAIN procs,
         TableGoesOn, procs[i].q # "over", procs'[i].q = "over",
         replaced' = replaced, TableInv',
         stopCount' = stopCount - links[procs[i].owner],
         IF stopCount \in 1 .. links[procs[i].owner] THEN ExitProgram(0) ELSE Stay,
         UNCHANGED <<links, asked, closes, restarted>>
  PROVE  CloseInv'
<1> DEFINE w == procs[i].owner
<1>1. /\ DOMAIN procs' = DOMAIN procs
      /\ \A j \in DOMAIN procs :
           /\ procs[j].owner \in Widgets /\ procs'[j].owner = procs[j].owner
           /\ procs[j].q = "over" => procs'[j].q = "over"
           /\ procs[j].q # "starting" => procs'[j].q # "starting"
           /\ procs'[j].q = "over" => procs'[j].os = "dead"
  BY TableFacts DEF WatchInv, TableGoesOn, GoesOn
<1>2. w \in Widgets /\ links[w] \in Nat /\ stopCount \in Int
  BY <1>1 DEF CloseInv
<1>3. ASSUME Waiting PROVE Waiting'
  <2>1. asked \subseteq DOMAIN procs /\ IsFiniteSet(Unfinished)
        /\ Cardinality(Unfinished) \in Nat /\ Cardinality(Unfinished) <= stopCount
    BY <1>3, UnfinishedFinite DEF WatchInv, Waiting
  <2>2. Unfinished' \in SUBSET (Unfinished \ {i})
    BY <1>1, <2>1 DEF Unfinished
  <2>3. /\ links[w] \in {0, 1}
        /\ links[w] = 1 => i \in Unfinished
    BY <1>1, <1>3 DEF Waiting, Unfinished
  <2>4. /\ IsFiniteSet(Unfinished \ {i}) /\ Cardinality(Unfinished \ {i}) \in Nat
        /\ Cardinality(Unfinished \ {i}) <= stopCount - links[w]
    <3>1. /\ IsFiniteSet(Unfinished \ {i})
          /\ Cardinality(Unfinished \ {i}) =
               IF i \in Unfinished THEN Cardinality(Unfinished) - 1 ELSE Cardinality(Unfinished)
      BY <2>1, FS_RemoveElement
    <3>2. Cardinality(Unfinished \ {i}) \in Nat
      BY <3>1, FS_CardinalityType
    <3> QED BY <1>2, <2>1, <2>3, <3>1, <3>2
  <2>5. IsFiniteSet(Unfinished') /\ Cardinality(Unfinished') \in Nat
        /\ Cardinality(Unfinished') <= stopCount'
    <3>1. IsFiniteSet(Unfinished') /\ Cardinality(Unfinished') <= Cardinality(Unfinished \ {i})
      BY <2>2, <2>4, FS_Subset
    <3>2. Cardinality(Unfinished') \in Nat
      BY <3>1, FS_CardinalityType
    <3> QED BY <1>2, <2>4, <3>1, <3>2
  <2>6. phase' = "exited" => \A j \in asked' : procs'[j].os = "dead"
    <3> SUFFICES ASSUME phase' = "exited" PROVE \A j \in asked' : procs'[j].os = "dead"
      OBVIOUS
    <3>1. stopCount \in 1 .. links[w]
      BY DEF Runs, Stay
    <3>2. stopCount' = 0
      BY <1>2, <2>3, <3>1
    <3>3. Unfinished' = {}
      BY <2>5, <3>2, FS_EmptySet
    <3> QED BY <1>1, <2>1, <3>3 DEF Unfinished
  <2>7. replaced' = {}
    BY <1>3 DEF Waiting
  <2>8. asked' \subseteq DOMAIN procs' /\ \A j \in asked' : procs'[j].q # "starting"
    BY <1>1, <1>3 DEF Waiting
  <2>9. links' \in [Widgets -> {0, 1}]
    BY <1>3 DEF Waiting
  <2>10. \A j \in DOMAIN procs' :
          procs'[j].q # "over" /\ links'[procs'[j].owner] = 1 => j \in asked'
    BY <1>1, <1>3 DEF Waiting
  <2> QED BY <2>5, <2>6, <2>7, <2>8, <2>9, <2>10 DEF Waiting
<1>4. stopCount' \in Int
  BY <1>2
<1> QED BY <1>3, <1>4 DEF CloseInv

\* The window is closed for the first time: all active rows, and only those,
\* are counted, and their processes are the ones asked to end.
LEMMA CloseBegins ==
  ASSUME WatchInv, CloseInv, Runs, encoders \in Seq(Widgets), TableGoesOn,
         \A i \in DOMAIN procs : procs'[i].q = procs[i].q,
         stopCount' = Cardinality(Active),
         links' = [w \in Widgets |-> IF w \in Active THEN links[w] + 1 ELSE links[w]],
         asked' = {proc[w] : w \in Active}, closes' = closes + 1,
         restarted' = (restarted \/ replaced # {}), replaced' = replaced,
         UNCHANGED phase
  PROVE  CloseInv'
<1>1. /\ DOMAIN procs' = DOMAIN procs
      /\ \A j \in DOMAIN procs : procs[j].owner \in Widgets /\ procs'[j].owner = procs[j].owner
  BY TableFacts DEF WatchInv, TableGoesOn, GoesOn
<1>2. /\ IsFiniteSet(Active) /\ Cardinality(Active) \in Nat
      /\ \A w \in Active : w \in Widgets /\ proc[w] # NULL /\ procs[proc[w]].q = "running"
  BY ActiveFinite DEF Active, IsActive
<1>3. \A w \in Active : proc[w] \in DOMAIN procs
  BY <1>2 DEF WatchInv, PointerInv
<1>4. links \in [Widgets -> Nat] /\ closes \in Nat /\ restarted \in BOOLEAN
  BY DEF CloseInv
<1>5. links' \in [Widgets -> Nat] /\ closes' \in Nat /\ closes' # 0 /\ restarted' \in BOOLEAN
  BY <1>4
<1>6. ASSUME closes' = 1, ~restarted' PROVE Waiting'
  <2>1. closes = 0 /\ \A w \in Widgets : links[w] = 0
    BY <1>4, <1>6 DEF CloseInv
  <2>2. replaced = {} /\ replaced' = {}
    BY <1>6
  <2>3. asked' \subseteq DOMAIN procs' /\ \A i \in asked' : procs'[i].q # "starting"
    BY <1>1, <1>2, <1>3
  <2>4. links' \in [Widgets -> {0, 1}]
    BY <2>1
  <2>5. ASSUME NEW i \in DOMAIN procs, procs'[i].q # "over", links'[procs'[i].owner] = 1
        PROVE  i \in asked'
    <3>1. procs[i].owner \in Active
      BY <1>1, <2>1, <2>5
    <3>2. proc[procs[i].owner] = i
      BY <2>2, <2>5 DEF WatchInv, KnownInv
    <3> QED BY <3>1, <3>2
  <2>6. Cardinality(Unfinished') <= stopCount'
    <3> DEFINE f == [w \in Active |-> proc[w]]
    <3>1. f \in Surjection(Active, asked')
      BY DEF Surjection
    <3>2. IsFiniteSet(asked') /\ Cardinality(asked') <= Cardinality(Active)
      BY <1>2, <3>1, FS_Surjection
    <3>3. Unfinished' \in SUBSET asked'
      BY DEF Unfinished
    <3>4. IsFiniteSet(Unfinished') /\ Cardinality(Unfinished') <= Cardinality(asked')
      BY <3>2, <3>3, FS_Subset
    <3>5. Cardinality(Unfinished') \in Nat /\ Cardinality(asked') \in Nat
      BY <3>2, <3>4, FS_CardinalityType
    <3> QED BY <1>2, <3>2, <3>4, <3>5
  <2>7. phase' # "exited"
    BY DEF Runs
  <2> QED BY <1>1, <2>2, <2>3, <2>4, <2>5, <2>6, <2>7 DEF Waiting
<1>7. stopCount' \in Int
  BY <1>2
<1> QED BY <1>5, <1>6, <1>7 DEF CloseInv

\* The program ends with no encoder active that was asked to end.
LEMMA CloseExit ==
  ASSUME WatchInv, CloseInv, Runs, TableGoesOn, replaced' = replaced,
         phase' = "exited", UNCHANGED <<stopCount, links, asked, closes, restarted>>,
         \A i \in DOMAIN procs :
           /\ procs'[i].q = procs[i].q
           /\ (\E w \in Active : proc[w] = i) => procs'[i].os = "dead"
  PROVE  CloseInv'
<1>1. /\ DOMAIN procs' = DOMAIN procs
      /\ \A j \in DOMAIN procs :
           /\ procs'[j].owner = procs[j].owner
           /\ procs[j].os = "dead" => procs'[j].os = "dead"
  BY DEF TableGoesOn, GoesOn
<1>2. ASSUME Waiting PROVE Waiting'
  <2>1. \A i \in asked : procs'[i].os = "dead"
    BY <1>1, <1>2, AskedIsActive
  <2> QED BY <1>1, <1>2, <2>1 DEF Waiting, Runs
<1> QED BY <1>2 DEF CloseInv

-----------------------------------------------------------------------------
(* The invariant is inductive.                                             *)

\* The invariant at the start.
LEMMA InitIInv ==
  ASSUME Init
  PROVE  IInv
<1> USE DEF Init, WidgetInit
<1>1. encoders \in Seq(Widgets)
  <2>1. PICK S \in InitialRows : encoders = SetToSeq(S)
    BY DEF LoadEncoders
  <2> QED BY <2>1, RowsAssumption, SequenceOfSet
<1>2. RowsInv
  BY <1>1 DEF RowsInv
<1>3. TableInv
  BY DEF TableInv, NULL
<1>4. PointerInv /\ KnownInv /\ TimerInv
  BY DEF PointerInv, KnownInv, TimerInv
<1>5. CloseInv
  <2>1. stopCount = 0 /\ closes = 0 /\ ~restarted /\ links = [w \in Widgets |-> 0]
    OBVIOUS
  <2> HIDE DEF Init
  <2>2. links \in [Widgets -> Nat]
    BY <2>1
  <2>3. stopCount \in Int /\ closes \in Nat /\ closes # 1
    BY <2>1
  <2>4. restarted \in BOOLEAN
    BY DEF Init
  <2> QED BY <2>1, <2>2, <2>3, <2>4 DEF CloseInv
<1> QED BY <1>2, <1>3, <1>4, <1>5 DEF IInv, WatchInv

\* autostartData() starts a row that is there, or none.
LEMMA AutostartKeeps ==
  ASSUME IInv, Runs, NEW all, NEW index \in Nat \ {0}, NEW pending,
         AutostartData(all, index, pending),
         UNCHANGED <<stopCount, links, asked, closes, rowVars>>,
         phase' # "exited"
  PROVE  IInv'
<1>1. Rows' = Rows /\ encoders \in Seq(Widgets)
  BY DEF rowVars, Rows, IInv, RowsInv
<1>2. CASE UNCHANGED widgetVars /\ autoIndex' = index /\ restarted' = restarted
  <2>1. WatchInv' /\ TableGoesOn
    BY <1>1, <1>2, MoreRowsKeepWatch DEF IInv
  <2>2. RowsInv'
    BY <1>2 DEF IInv, RowsInv, rowVars
  <2>3. CloseInv'
    BY <1>2, <2>1, CloseGoesOn DEF IInv, CloseInv, widgetVars
  <2> QED BY <2>1, <2>2, <2>3 DEF IInv
<1>3. CASE \E i \in Due(all, index) :
             /\ StartEncoding(encoders[i]) /\ autoIndex' = i + 1
             /\ restarted' = (restarted \/ closes > 0)
  <2>1. PICK i \in Due(all, index) :
             /\ StartEncoding(encoders[i]) /\ autoIndex' = i + 1
             /\ restarted' = (restarted \/ closes > 0)
    BY <1>3
  <2>2. i \in DOMAIN encoders /\ i \in Nat
    BY <1>1 DEF Due
  <2>3. encoders[i] \in Widgets /\ encoders[i] \in Rows
    BY <1>1, <2>2 DEF Rows, Range
  <2>4. WatchInv'
    BY <1>1, <2>1, <2>3, StartKeepsWatch DEF IInv
  <2>5. RowsInv'
    BY <2>1, <2>2 DEF IInv, RowsInv, rowVars
  <2>6. CloseInv'
    BY <2>1, CloseAfterStart DEF IInv
  <2> QED BY <2>4, <2>5, <2>6 DEF IInv
<1> QED BY <1>2, <1>3 DEF AutostartData

\* A handler that changes processes, none of them told to stop, or none.
LEMMA HandlerKeeps ==
  ASSUME IInv, Runs, TableGoesOn,
         \A i \in DOMAIN procs : NotTold(procs[i], procs'[i]),
         UNCHANGED <<proc, button, killTimer, replaced, startVars, closeVars, rowVars>>,
         phase' # "exited" \/ exitCode' = 256
  PROVE  IInv'
<1>1. Rows' = Rows
  BY DEF rowVars, Rows
<1>2. WatchInv'
  BY <1>1, TableKeeps DEF IInv
<1>3. RowsInv'
  BY DEF IInv, RowsInv, rowVars, startVars
<1>4. CloseInv'
  BY CloseGoesOn DEF IInv, CloseInv, closeVars
<1> QED BY <1>2, <1>3, <1>4 DEF IInv

\* One in which nothing happens to the rows' processes or their number.
LEMMA WindowKeeps ==
  ASSUME IInv, Runs, UNCHANGED <<widgetVars, startVars, closeVars>>,
         encoders' \in Seq(Widgets), Rows \subseteq Rows',
         mode' = "insert" => newName' \in Widgets,
         phase' # "exited" \/ exitCode' = 256
  PROVE  IInv'
<1>1. WatchInv' /\ TableGoesOn
  BY MoreRowsKeepWatch DEF IInv
<1>2. RowsInv'
  BY DEF IInv, RowsInv, startVars
<1>3. CloseInv'
  BY <1>1, CloseGoesOn DEF IInv, CloseInv, closeVars, widgetVars
<1> QED BY <1>1, <1>2, <1>3 DEF IInv

\* Some processes are told to end, none to stop, and none dies.
LEMMA AllToldToEnd ==
  ASSUME TableInv, NEW T,
         procs' = [i \in DOMAIN procs |-> IF i \in T THEN EndTold(procs[i]) ELSE procs[i]]
  PROVE  /\ TableGoesOn
         /\ \A i \in DOMAIN procs : NotTold(procs[i], procs'[i]) /\ procs'[i].q = procs[i].q
<1>1. \A i \in DOMAIN procs :
        /\ procs'[i] \in Process /\ procs'[i].owner = procs[i].owner
        /\ procs'[i].q = procs[i].q /\ procs'[i].os = procs[i].os
        /\ procs'[i].told = "stop" <=> procs[i].told = "stop"
  BY TableFacts, EndToldFields
<1>2. procs' \in Seq(Process) /\ DOMAIN procs' = DOMAIN procs
  <2>1. procs' = [i \in DOMAIN procs |-> procs'[i]]
    OBVIOUS
  <2>2. procs \in Seq(Process)
    BY DEF TableInv
  <2> QED BY <1>1, <2>1, <2>2, SameLength
<1> QED BY <1>1, <1>2, TableFacts DEF TableGoesOn, GoesOn, NotTold

\* Some processes are killed.
LEMMA AllKilled ==
  ASSUME TableInv, NEW T,
         procs' = [i \in DOMAIN procs |-> IF i \in T THEN Killed(procs[i]) ELSE procs[i]]
  PROVE  /\ TableGoesOn
         /\ \A i \in DOMAIN procs : NotTold(procs[i], procs'[i]) /\ procs'[i].q = procs[i].q
         /\ \A i \in DOMAIN procs : i \in T => procs'[i].os = "dead"
<1>1. \A i \in DOMAIN procs :
        /\ procs'[i] \in Process /\ procs'[i].owner = procs[i].owner
        /\ procs'[i].q = procs[i].q /\ procs'[i].told = procs[i].told
        /\ procs[i].os = "dead" => procs'[i].os = "dead"
        /\ i \in T => procs'[i].os = "dead"
  BY TableFacts, KilledFields
<1>2. procs' \in Seq(Process) /\ DOMAIN procs' = DOMAIN procs
  <2>1. procs' = [i \in DOMAIN procs |-> procs'[i]]
    OBVIOUS
  <2>2. procs \in Seq(Process)
    BY DEF TableInv
  <2> QED BY <1>1, <2>1, <2>2, SameLength
<1> QED BY <1>1, <1>2, TableFacts DEF TableGoesOn, GoesOn, NotTold


\* The window is closed, with the question answered.
LEMMA CloseAnsweredKeeps ==
  ASSUME IInv, CloseAnswered
  PROVE  IInv'
<1> USE DEF CloseAnswered
<1>1. Rows' = Rows /\ encoders' = encoders /\ encoders \in Seq(Widgets)
  BY DEF rowVars, Rows, IInv, RowsInv
<1>2. CASE UNCHANGED <<widgetVars, closeVars>>
  BY <1>1, <1>2, WindowKeeps DEF Stay, Runs, rowVars, IInv, RowsInv
<1>3. CASE /\ procs' = [i \in DOMAIN procs |->
                          IF \E w \in Active: proc[w] = i THEN EndTold(procs[i])
                          ELSE procs[i]]
           /\ stopCount' = Cardinality(Active)
           /\ links' = [w \in Widgets |-> IF w \in Active THEN links[w] + 1 ELSE links[w]]
           /\ asked' = {proc[w]: w \in Active}
           /\ closes' = closes + 1
           /\ restarted' = (restarted \/ replaced # {})
           /\ UNCHANGED <<proc, button, killTimer, replaced>>
  <2> DEFINE T == {proc[w] : w \in Active}
  <2>1. procs' = [i \in DOMAIN procs |-> IF i \in T THEN EndTold(procs[i]) ELSE procs[i]]
    BY <1>3
  <2>2. TableInv
    BY DEF IInv, WatchInv
  <2>3. /\ TableGoesOn
        /\ \A i \in DOMAIN procs : NotTold(procs[i], procs'[i]) /\ procs'[i].q = procs[i].q
    BY <2>1, <2>2, AllToldToEnd
  <2>4. WatchInv'
    BY <1>1, <1>3, <2>3, TableKeeps DEF IInv
  <2>5. RowsInv'
    BY <1>1 DEF IInv, RowsInv, rowVars, startVars
  <2>6. CloseInv'
    BY <1>1, <1>3, <2>3, CloseBegins DEF IInv, Stay
  <2> QED BY <2>4, <2>5, <2>6 DEF IInv
<1> QED BY <1>2, <1>3

\* The timer of the window has run out: the program ends at once.
LEMMA StopTimeoutKeeps ==
  ASSUME IInv, StopTimeout
  PROVE  IInv'
<1> USE DEF StopTimeout
<1>1. Rows' = Rows
  BY DEF rowVars, Rows
<1> DEFINE T == {proc[w] : w \in Active}
<1>2. procs' = [i \in DOMAIN procs |-> IF i \in T THEN Killed(procs[i]) ELSE procs[i]]
  OBVIOUS
<1>3. /\ TableGoesOn
      /\ \A i \in DOMAIN procs : NotTold(procs[i], procs'[i]) /\ procs'[i].q = procs[i].q
      /\ \A i \in DOMAIN procs : i \in T => procs'[i].os = "dead"
  <2>1. TableInv
    BY DEF IInv, WatchInv
  <2> QED BY <1>2, <2>1, AllKilled
<1>4. WatchInv'
  BY <1>1, <1>3, TableKeeps DEF IInv
<1>5. RowsInv'
  BY DEF IInv, RowsInv, rowVars, startVars
<1>6. CloseInv'
  BY <1>3, CloseExit DEF IInv, ExitProgram
<1> QED BY <1>4, <1>5, <1>6 DEF IInv

\* Between the steps of one process.
LEMMA ProcessEventKeeps ==
  ASSUME IInv, NEW i \in DOMAIN procs, ProcessEvent(i)
  PROVE  IInv'
<1>1. /\ Runs /\ UNCHANGED <<proc, button, killTimer, replaced, startVars, closeVars, rowVars>>
      /\ phase' # "exited"
  BY DEF ProcessEvent, Stay, Runs, Started, FailedToStart, EncoderEnds
<1>2. TableInv /\ procs[i] \in Process /\ procs[i].owner \in Widgets
  BY TableFacts DEF IInv, WatchInv
<1>3. \E r \in Process : /\ procs' = [procs EXCEPT ![i] = r]
                         /\ GoesOn(procs[i], r) /\ NotTold(procs[i], r)
  <2>1. CASE Started(i)
    <3> DEFINE r == [procs[i] EXCEPT !.q = "running"]
    <3>1. r \in Process /\ GoesOn(procs[i], r) /\ NotTold(procs[i], r)
      BY <1>2, <2>1 DEF Started, Process, GoesOn, NotTold
    <3> QED BY <2>1, <3>1 DEF Started
  <2>2. CASE FailedToStart(i)
    <3>1. /\ Over(procs[i]) \in Process /\ GoesOn(procs[i], Over(procs[i]))
          /\ NotTold(procs[i], Over(procs[i]))
      BY <1>2, OverFields DEF GoesOn, NotTold
    <3> QED BY <2>2, <3>1 DEF FailedToStart
  <2>3. CASE EncoderEnds(i)
    <3>1. PICK c \in {0, 1} : procs' = [procs EXCEPT ![i].os = "dead", ![i].code = c]
      BY <2>3 DEF EncoderEnds
    <3> DEFINE r == [procs[i] EXCEPT !.os = "dead", !.code = c]
    <3>2. r \in Process /\ GoesOn(procs[i], r) /\ NotTold(procs[i], r)
      BY <1>2, <2>3 DEF Process, GoesOn, NotTold
    <3>3. procs' = [procs EXCEPT ![i] = r]
      BY <3>1
    <3> QED BY <3>2, <3>3
  <2> QED BY <2>1, <2>2, <2>3 DEF ProcessEvent
<1>4. PICK r \in Process : /\ procs' = [procs EXCEPT ![i] = r]
                           /\ GoesOn(procs[i], r) /\ NotTold(procs[i], r)
  BY <1>3
<1>5. /\ procs' \in Seq(Process) /\ DOMAIN procs' = DOMAIN procs
      /\ procs'[i] = r /\ \A j \in DOMAIN procs : j # i => procs'[j] = procs[j]
  BY <1>2, <1>4, OneChanges
<1>6. TableGoesOn /\ \A j \in DOMAIN procs : NotTold(procs[j], procs'[j])
  BY <1>2, <1>4, <1>5, TableFacts DEF TableGoesOn, GoesOn, NotTold
<1> QED BY <1>1, <1>6, HandlerKeeps


\* The rest of what a row does to its process.
LEMMA RowStepKeeps ==
  ASSUME IInv, Runs, WatchInv', TableGoesOn, UNCHANGED replaced,
         UNCHANGED <<startVars, closeVars, rowVars>>, phase' # "exited"
  PROVE  IInv'
<1>1. RowsInv'
  BY DEF IInv, RowsInv, rowVars, startVars
<1>2. CloseInv'
  BY CloseGoesOn DEF IInv, CloseInv, closeVars
<1> QED BY <1>1, <1>2 DEF IInv

\* Every step keeps the invariant.
LEMMA NextIInv ==
  ASSUME IInv, [Next]_vars
  PROVE  IInv'
<1>0. /\ encoders \in Seq(Widgets) /\ autoIndex \in Nat \ {0}
      /\ Rows \subseteq Widgets
      /\ mode = "insert" => newName \in Widgets
      /\ links \in [Widgets -> Nat]
  BY ActiveFinite DEF IInv, RowsInv, CloseInv
<1>1. CASE ListsRead
  <2>1. CASE /\ phase' = "ready"
             /\ AutostartData(startingAll, autoIndex, autoTimer)
             /\ UNCHANGED <<exitCode, stopCount, stopTimer, links, asked, closes,
                            rowVars, dialog>>
    <3>1. Runs /\ UNCHANGED <<stopCount, links, asked, closes, rowVars>> /\ phase' # "exited"
      BY <1>1, <2>1 DEF ListsRead
    <3> QED BY <1>0, <2>1, <3>1, AutostartKeeps
  <2>2. CASE /\ ExitProgram(256)
             /\ UNCHANGED <<widgetVars, startVars, closeVars, rowVars, dialog>>
    BY <1>0, <1>1, <2>2, WindowKeeps DEF ListsRead, ExitProgram, rowVars, Rows
  <2> QED BY <1>1, <2>1, <2>2 DEF ListsRead
<1>2. CASE AutostartTimeout
  <2>1. /\ Runs /\ UNCHANGED <<stopCount, links, asked, closes, rowVars>> /\ phase' # "exited"
        /\ AutostartData(startingAll, autoIndex, FALSE)
    BY <1>2 DEF AutostartTimeout, Stay, Runs
  <2> QED BY <1>0, <2>1, AutostartKeeps
<1>3. CASE StartAllData
  <2>1. /\ Runs /\ UNCHANGED <<stopCount, links, asked, closes, rowVars>> /\ phase' # "exited"
        /\ AutostartData(TRUE, 1, autoTimer)
    BY <1>3 DEF StartAllData, Free, Stay, Runs
  <2>2. 1 \in Nat \ {0}
    OBVIOUS
  <2> QED BY <2>1, <2>2, AutostartKeeps, Zenon
<1>4. CASE StopAllData
  <2> DEFINE T == {i \in DOMAIN procs : \E w \in Range(encoders): IsActive(w) /\ proc[w] = i}
  <2>1. procs' = [i \in DOMAIN procs |-> IF i \in T THEN EndTold(procs[i]) ELSE procs[i]]
    BY <1>4 DEF StopAllData
  <2>2. /\ TableGoesOn
        /\ \A i \in DOMAIN procs : NotTold(procs[i], procs'[i])
    BY <2>1, AllToldToEnd DEF IInv, WatchInv
  <2> QED BY <1>4, <2>2, HandlerKeeps DEF StopAllData, Free, Stay, Runs
<1>5. ASSUME NEW w \in Widgets, ClickStart(w) PROVE IInv'
  <2>1. /\ w \in Rows /\ Rows' = Rows /\ StartEncoding(w)
        /\ restarted' = (restarted \/ closes > 0)
        /\ UNCHANGED <<startVars, stopCount, links, closes, rowVars>>
    BY <1>5 DEF ClickStart, Rows, rowVars
  <2>2. WatchInv'
    BY <2>1, StartKeepsWatch DEF IInv
  <2>3. RowsInv'
    BY <2>1 DEF IInv, RowsInv, rowVars, startVars
  <2>4. CloseInv'
    BY <2>1, CloseAfterStart DEF IInv
  <2> QED BY <2>2, <2>3, <2>4 DEF IInv
<1>6. ASSUME NEW w \in Widgets, ClickStop(w) PROVE IInv'
  <2>1. Rows' = Rows /\ Runs /\ UNCHANGED <<startVars, closeVars, rowVars>>
    BY <1>6 DEF ClickStop, Free, Rows, rowVars
  <2>2. CASE proc[w] # NULL /\ StopEncoding(w) /\ Stay
    <3>1. WatchInv' /\ TableGoesOn /\ UNCHANGED replaced
      BY <2>1, <2>2, StopKeepsWatch DEF IInv, StopEncoding
    <3> QED BY <2>1, <2>2, <3>1, RowStepKeeps DEF Stay, Runs
  <2>3. CASE phase' = "crashed" /\ UNCHANGED <<widgetVars, exitCode>>
    BY <1>0, <2>1, <2>3, WindowKeeps DEF rowVars
  <2> QED BY <1>6, <2>2, <2>3 DEF ClickStop
<1>7. ASSUME NEW w \in Widgets, RowEvent(w) PROVE IInv'
  <2>1. Rows' = Rows /\ Runs /\ KillTimeout(w) /\ UNCHANGED <<startVars, closeVars, rowVars>>
        /\ phase' # "exited" /\ UNCHANGED replaced
    BY <1>7 DEF RowEvent, Rows, rowVars, Stay, Runs, KillTimeout
  <2>2. WatchInv' /\ TableGoesOn
    BY <2>1, KillKeepsWatch DEF IInv
  <2> QED BY <2>1, <2>2, RowStepKeeps
<1>8. ASSUME NEW i \in DOMAIN procs, ProcessEvent(i) PROVE IInv'
  BY <1>8, ProcessEventKeeps
<1>9. ASSUME NEW i \in DOMAIN procs, EncoderFinished(i) PROVE IInv'
  <2>1. /\ Rows' = Rows /\ Runs /\ ProcessFinished(i)
        /\ stopCount' = stopCount - links[procs[i].owner]
        /\ IF stopCount \in 1 .. links[procs[i].owner] THEN ExitProgram(0) ELSE Stay
        /\ UNCHANGED <<startVars, links, asked, closes, restarted, rowVars>>
    BY <1>9 DEF EncoderFinished, Rows, rowVars
  <2>2. /\ WatchInv' /\ TableGoesOn /\ replaced' = replaced
        /\ procs[i].q # "over" /\ procs'[i].q = "over"
    BY <2>1, FinishKeepsWatch DEF IInv
  <2>3. RowsInv'
    BY <2>1 DEF IInv, RowsInv, rowVars, startVars
  <2>4. CloseInv'
    BY <2>1, <2>2, CloseFinish DEF IInv, WatchInv
  <2> QED BY <2>2, <2>3, <2>4 DEF IInv
<1>10. ASSUME NEW w \in Widgets, Configure(w) PROVE IInv'
  BY <1>0, <1>10, WindowKeeps DEF Configure, Free, Stay, Runs, Rows
<1>11. CASE AddInstanceData
  <2>1. newName' \in Widgets
    BY <1>11 DEF AddInstanceData
  <2> QED BY <1>0, <1>11, <2>1, WindowKeeps DEF AddInstanceData, Free, Stay, Runs, Rows
<1>12. CASE RemoveInstanceData
  BY <1>0, <1>12, WindowKeeps DEF RemoveInstanceData, Free, Stay, Runs, Rows
<1>13. CASE AbandonInstanceData
  BY <1>0, <1>13, WindowKeeps DEF AbandonInstanceData, NormalMode, Free, Stay, Runs, Rows
<1>14. ASSUME NEW k \in 0 .. Len(encoders), InsertClickedData(k) PROVE IInv'
  <2>1. /\ newName \in Widgets /\ encoders' = InsertAt(encoders, k + 1, newName)
        /\ Runs /\ phase' # "exited" /\ mode' = "normal"
        /\ links' = [links EXCEPT ![newName] = 0]
        /\ UNCHANGED <<widgetVars, startVars, stopCount, asked, closes, restarted>>
    BY <1>0, <1>14 DEF InsertClickedData, NormalMode, Free, Stay, Runs
  <2>2. encoders' \in Seq(Widgets) /\ Rows \subseteq Rows'
    BY <1>0, <2>1, InsertedRow DEF Rows
  <2>3. WatchInv' /\ TableGoesOn
    BY <2>1, <2>2, MoreRowsKeepWatch DEF IInv
  <2>4. RowsInv'
    BY <2>1, <2>2 DEF IInv, RowsInv, startVars
  <2>5. links' \in [Widgets -> Nat] /\ \A w \in Widgets : links'[w] \in {0, links[w]}
    BY <1>0, <2>1
  <2>6. CloseInv'
    BY <2>1, <2>3, <2>5, CloseGoesOn DEF IInv, widgetVars
  <2> QED BY <2>3, <2>4, <2>6 DEF IInv
<1>15. ASSUME NEW w \in Widgets, RemoveClicked(w) PROVE IInv'
  BY <1>0, <1>15, WindowKeeps DEF RemoveClicked, Free, Stay, Runs, Rows, rowVars
<1>16. CASE RemoveAnswered
  <2>1. CASE UNCHANGED <<widgetVars, startVars, closeVars, rowVars>>
    BY <1>0, <1>16, <2>1, WindowKeeps DEF RemoveAnswered, Stay, Runs, Rows, rowVars
  <2>2. CASE /\ DeleteWidget(dialog) /\ Removed(dialog)
             /\ links' = [links EXCEPT ![dialog] = 0]
             /\ UNCHANGED <<startVars, stopCount, stopTimer, asked, closes, restarted>>
    <3>1. dialog \in Widgets /\ Runs /\ phase' # "exited" /\ EraseRow(dialog)
          /\ mode' = "normal"
      BY <1>16, <2>2 DEF RemoveAnswered, Stay, Runs, Removed, NormalMode
    <3>2. encoders' \in Seq(Widgets) /\ Rows \ {dialog} \subseteq Rows'
      BY <1>0, <3>1, ErasedRow
    <3>3. WatchInv' /\ TableGoesOn
      BY <2>2, <3>1, <3>2, DeleteKeepsWatch DEF IInv
    <3>4. RowsInv'
      BY <2>2, <3>1, <3>2 DEF IInv, RowsInv, startVars
    <3>5. /\ links' \in [Widgets -> Nat] /\ \A w \in Widgets : links'[w] \in {0, links[w]}
          /\ replaced' \subseteq replaced
      BY <1>0, <2>2, <3>1 DEF DeleteWidget
    <3>6. CloseInv'
      BY <2>2, <3>1, <3>3, <3>5, CloseGoesOn DEF IInv
    <3> QED BY <3>3, <3>4, <3>6 DEF IInv
  <2> QED BY <1>16, <2>1, <2>2 DEF RemoveAnswered
<1>17. CASE CloseEvent
  <2>1. /\ Runs /\ UNCHANGED <<widgetVars, startVars, closeVars, rowVars>> /\ Rows' = Rows
    BY <1>17 DEF CloseEvent, Free, rowVars, Rows
  <2>2. CASE Active = {} /\ ExitProgram(0)
    <3>1. WatchInv' /\ TableGoesOn
      BY <2>1, MoreRowsKeepWatch DEF IInv
    <3>2. RowsInv'
      BY <2>1 DEF IInv, RowsInv, rowVars, startVars
    <3>3. CloseInv'
      BY <2>1, <2>2, <3>1, CloseExit DEF IInv, ExitProgram, closeVars, widgetVars
    <3> QED BY <3>1, <3>2, <3>3 DEF IInv
  <2>3. CASE Stay
    BY <1>0, <2>1, <2>3, WindowKeeps DEF Stay, Runs, rowVars
  <2> QED BY <1>17, <2>2, <2>3 DEF CloseEvent
<1>18. CASE CloseAnswered
  BY <1>18, CloseAnsweredKeeps
<1>19. CASE StopTimeout
  BY <1>19, StopTimeoutKeeps
<1>20. CASE UNCHANGED vars
  <2>1. UNCHANGED <<widgetVars, startVars, closeVars, rowVars, phase, exitCode>>
    BY <1>20 DEF vars
  <2>2. WatchInv'
    BY <2>1, MoreRowsKeepWatch DEF IInv, rowVars, Rows
  <2>3. RowsInv'
    BY <2>1 DEF IInv, RowsInv, rowVars, startVars
  <2>4. CloseInv'
    BY <2>1 DEF IInv, CloseInv, Waiting, Unfinished, Runs, closeVars, widgetVars
  <2> QED BY <2>2, <2>3, <2>4 DEF IInv
<1> QED BY <1>1, <1>2, <1>3, <1>4, <1>5, <1>6, <1>7, <1>8, <1>9, <1>10, <1>11, <1>12,
           <1>13, <1>14, <1>15, <1>16, <1>17, <1>18, <1>19, <1>20
        DEF Next, Timers, Processes, User


\* The invariant holds.
LEMMA Invariance == Spec => []IInv
<1>1. Init => IInv
  BY InitIInv
<1>2. IInv /\ [Next]_vars => IInv'
  BY NextIInv
<1> QED BY <1>1, <1>2, PTL DEF Spec

-----------------------------------------------------------------------------
(* The properties.                                                         *)

(***************************************************************************)
(* A row points at its encoder and offers to stop it as long as the        *)
(* encoder runs, in whatever order starts, stops, timers and the ends of   *)
(* processes come, if no start came while it held one that was starting.   *)
(***************************************************************************)
THEOREM NeverLosesSight == Spec => []NoneLostSight
<1>1. ASSUME IInv PROVE NoneLostSight
  <2> SUFFICES ASSUME NEW i \in DOMAIN procs, procs[i].os = "alive",
                      procs[i].owner \notin replaced
               PROVE  proc[procs[i].owner] = i /\ button[procs[i].owner] = "Stop"
    BY DEF NoneLostSight
  <2>1. procs[i].owner \in Widgets /\ procs[i].q # "over" /\ i # NULL
    BY <1>1, TableFacts DEF IInv, WatchInv, TableInv, NULL
  <2>2. proc[procs[i].owner] = i
    BY <1>1, <2>1 DEF IInv, WatchInv, KnownInv
  <2> QED BY <1>1, <2>1, <2>2 DEF IInv, WatchInv, PointerInv
<1> QED BY <1>1, Invariance, PTL

(***************************************************************************)
(* The kill timer of such a row runs only against an encoder that was told *)
(* to stop, and an encoder told to stop is dead once it has run out.       *)
(***************************************************************************)
THEOREM KillsOnlyTheStopped == Spec => []KillsWhatWasStopped
<1>1. ASSUME IInv PROVE KillsWhatWasStopped
  BY <1>1 DEF IInv, WatchInv, TimerInv, KillsWhatWasStopped, IsActive
<1> QED BY <1>1, Invariance, PTL

(***************************************************************************)
(* The settings file lists the rows of the window with their flags after   *)
(* every step: whatever changes either writes both.                        *)
(***************************************************************************)
THEOREM SavedIsCurrent == Spec => []SavedListIsCurrent
<1>1. Init => SavedListIsCurrent
  BY DEF Init, SavedListIsCurrent
<1>2. ASSUME SavedListIsCurrent, [Next]_vars PROVE SavedListIsCurrent'
  <2>1. UNCHANGED <<encoders, auto, saved>> \/ saved' = Saved(encoders', auto')
    <3>1. CASE Timers \/ Processes
      BY <3>1 DEF Timers, Processes, AutostartTimeout, StopTimeout, RowEvent, ListsRead,
                  ProcessEvent, EncoderFinished, rowVars
    <3>2. ASSUME NEW w \in Widgets,
                 ClickStart(w) \/ ClickStop(w) \/ Configure(w) \/ RemoveClicked(w)
          PROVE  UNCHANGED <<encoders, auto, saved>> \/ saved' = Saved(encoders', auto')
      BY <3>2 DEF ClickStart, ClickStop, Configure, RemoveClicked, rowVars
    <3>3. CASE \/ StartAllData \/ StopAllData
               \/ AddInstanceData \/ RemoveInstanceData \/ AbandonInstanceData
               \/ RemoveAnswered \/ CloseEvent \/ CloseAnswered
      BY <3>3 DEF StartAllData, StopAllData, AddInstanceData, RemoveInstanceData,
                  AbandonInstanceData, RemoveAnswered, Removed, CloseEvent,
                  CloseAnswered, rowVars
    <3>4. ASSUME NEW k \in 0 .. Len(encoders), InsertClickedData(k)
          PROVE  saved' = Saved(encoders', auto')
      BY <3>4 DEF InsertClickedData
    <3>5. CASE UNCHANGED vars
      BY <3>5 DEF vars, rowVars
    <3> QED BY <1>2, <3>1, <3>2, <3>3, <3>4, <3>5 DEF Next, User
  <2> QED BY <1>2, <2>1 DEF SavedListIsCurrent
<1> QED BY <1>1, <1>2, PTL DEF Spec

(***************************************************************************)
(* After one closing that was confirmed, with no start since and no row    *)
(* that had a second process then, the program does not end, but by its    *)
(* time limit, before every encoder it told to end is dead.                *)
(***************************************************************************)
THEOREM ClosingWaits == Spec => []CloseWaitsForAll
<1>1. ASSUME IInv PROVE CloseWaitsForAll
  BY <1>1 DEF IInv, CloseInv, Waiting, CloseWaitsForAll
<1> QED BY <1>1, Invariance, PTL

===============================================================================
