----------------------------- MODULE NetConveyor -----------------------------
(***************************************************************************)
(* The upload queue of the HLS output: a spool directory that glasscoder   *)
(* fills (src/glasscoder/netconveyor.cpp) and its child process glassconv  *)
(* empties (src/glasscoder/glassconv.cpp), and the publishing point that   *)
(* glassconv writes to.                                                    *)
(*                                                                         *)
(* A spool entry is a file whose name starts with the time it was made, so *)
(* the listing of the directory is the sequence in which the entries were  *)
(* pushed.  (The model has a clock that is never set back.)  glassconv     *)
(* lists the directory once a second and treats the entries of the listing *)
(* in that order: transfer, then unlink.  It may crash between any two     *)
(* system calls; glasscoder starts it again a second later.                *)
(*                                                                         *)
(* This module has the state and the actions; the component that pushes    *)
(* and stops composes them.                                                *)
(***************************************************************************)
EXTENDS Naturals, SequencesExt

CONSTANTS
  Playlist,      \* name of the playlist; segments are named by numbers
  NoDeletes,     \* --server-no-deletes
  Preclean,      \* --server-preclean-publish-point, on an S3 server
  MaxCrashes,    \* bound: crashes and early exits of glassconv
  MaxFaults      \* bound: transfers the publishing point refuses

ASSUME ConveyorAssumption ==
  /\ Playlist \notin Nat
  /\ NoDeletes \in BOOLEAN /\ Preclean \in BOOLEAN
  /\ MaxCrashes \in Nat /\ MaxFaults \in Nat

VARIABLES
  spool,       \* the spool directory: sequence of events
  spoolExists, \* the directory itself
  putted,      \* conv_putted_files: names to delete when the stream stops
  proc,        \* what the glassconv process is doing
  left,        \* entries of its listing not yet done: the first of the spool
  pub,         \* the publishing point: name -> content of the files there
  coder,       \* glasscoder: "running", or the exit it made
  crashes, faults,
  log,         \* ghost: every event ever pushed
  applied      \* ghost: the indices of log that were transferred

conveyorVars ==
  <<spool, spoolExists, putted, proc, left, pub, coder, crashes, faults, log, applied>>

\* States of the glassconv process.
ProcStates ==
  {"waiting",   \* not running; conv_restart_timer is armed
   "booting",   \* started, credentials not read yet
   "idle",      \* between two scans
   "transfer",  \* in ProcessFile() of the first entry
   "unlink",    \* after the transfer of that entry
   "cleanup",   \* at the STOP entry, removing the files of the spool
   "rmdir",     \* about to remove the directory
   "exiting",   \* about to exit normally
   "crashed", "exited"}

Event(op, name, content) == [op |-> op, name |-> name, content |-> content]

\* What a transfer makes of the files p of the publishing point.
Without(p, name) == [n \in DOMAIN p \ {name} |-> p[n]]
Effect(p, e) ==
  CASE e.op = "PUT"    -> [n \in DOMAIN p \cup {e.name} |->
                             IF n = e.name THEN e.content ELSE p[n]]
    [] e.op = "DELETE" -> Without(p, e.name)
    [] OTHER           -> p

ConveyorInit ==
  /\ spool = <<>> /\ spoolExists = TRUE
  /\ putted = <<>>
  /\ proc = "waiting" /\ left = 0
  /\ pub = [n \in {} |-> {}]
  /\ coder = "running"
  /\ crashes = 0 /\ faults = 0
  /\ log = <<>> /\ applied = {}

(***************************************************************************)
(* glasscoder's side.                                                      *)
(***************************************************************************)

\* The list of the files to delete at the end, after the push of e.  It has no
\* file twice, so removeAll() removes at most one.
PuttedAfter(e) ==
  CASE e.op = "PUT"    -> IF NoDeletes \/ \E i \in DOMAIN putted : putted[i] = e.name
                            THEN putted
                            ELSE Append(putted, e.name)
    [] e.op = "DELETE" -> RemoveFirst(putted, e.name)
    [] OTHER           -> putted

\* A new entry has the latest time stamp, so it is listed last.
WrongSpoolAfter(e) == <<e>> \o spool
SpoolAfter(e)      == Append(spool, e)

\* push(): a hard link to the file (PUT) or an empty file.  Once the
\* directory is gone neither can be made, and nothing is remembered.
Push(e) ==
  IF spoolExists
    THEN /\ spool' = SpoolAfter(e)
         /\ log' = Append(log, e)
         /\ putted' = PuttedAfter(e)
    ELSE UNCHANGED <<spool, log, putted>>

\* What stop() pushes.
FinalDeletes == [i \in DOMAIN putted |-> Event("DELETE", putted[i], {})]
WrongStopEvents == <<Event("STOP", Playlist, {})>> \o FinalDeletes
StopEvents      == FinalDeletes \o <<Event("STOP", Playlist, {})>>

\* The restart timer: the credentials file cannot be written when the
\* directory is gone, and that ends the program.
StartConveyorProcess ==
  /\ coder = "running" /\ proc = "waiting"
  /\ IF spoolExists THEN proc' = "booting" /\ UNCHANGED coder
                    ELSE coder' = "failed" /\ UNCHANGED proc
  /\ UNCHANGED <<spool, spoolExists, putted, left, pub, crashes, faults, log, applied>>

\* The process states processFinishedData() answers by arming the timer.
WrongRestarts == {}
Restarts      == {"crashed"}

\* processFinishedData(): anything but a normal exit arms the restart timer;
\* stopped() ends the program.
ProcessFinished ==
  /\ coder = "running"
  /\ \/ proc \in Restarts /\ proc' = "waiting" /\ UNCHANGED coder
     \/ proc = "exited" /\ coder' = "stopped" /\ UNCHANGED proc
  /\ UNCHANGED <<spool, spoolExists, putted, left, pub, crashes, faults, log, applied>>

(***************************************************************************)
(* glassconv's side.                                                       *)
(***************************************************************************)
Boot ==
  /\ proc = "booting"
  /\ proc' = "idle"
  /\ pub' = IF Preclean THEN [n \in {} |-> {}] ELSE pub
  /\ UNCHANGED <<spool, spoolExists, putted, left, coder, crashes, faults, log, applied>>

\* scanData(): the listing of the directory at this moment.
NextEntry(n) ==
  IF n = 0 THEN "idle" ELSE "transfer"

Scan ==
  /\ proc = "idle"
  /\ left' = Len(spool)
  /\ proc' = NextEntry(Len(spool))
  /\ UNCHANGED <<spool, spoolExists, putted, pub, coder, crashes, faults, log, applied>>

\* Index in log of the entry that is being treated.
Current == Len(log) - Len(spool) + 1

Transfer ==
  /\ proc = "transfer" /\ Head(spool).op # "STOP"
  /\ proc' = "unlink"
  /\ \/ /\ pub' = Effect(pub, Head(spool))
        /\ applied' = applied \cup {Current}
        /\ UNCHANGED faults
     \/ /\ faults < MaxFaults
        /\ faults' = faults + 1
        /\ UNCHANGED <<pub, applied>>
  /\ UNCHANGED <<spool, spoolExists, putted, left, coder, crashes, log>>

Unlink ==
  /\ proc = "unlink"
  /\ spool' = Tail(spool)
  /\ left' = left - 1
  /\ proc' = NextEntry(left - 1)
  /\ UNCHANGED <<spoolExists, putted, pub, coder, crashes, faults, log, applied>>

\* The STOP entry: a new listing, whose files, the STOP entry the first of
\* them, are unlinked one after the other.
StopEntry ==
  /\ proc = "transfer" /\ Head(spool).op = "STOP"
  /\ proc' = "cleanup"
  /\ left' = Len(spool)
  /\ UNCHANGED <<spool, spoolExists, putted, pub, coder, crashes, faults, log, applied>>

CleanupFile ==
  /\ proc = "cleanup"
  /\ IF left = 0 THEN proc' = "rmdir" /\ UNCHANGED <<spool, left>>
                 ELSE spool' = Tail(spool) /\ left' = left - 1 /\ UNCHANGED proc
  /\ UNCHANGED <<spoolExists, putted, pub, coder, crashes, faults, log, applied>>

\* rmdir() fails when an entry was pushed since the listing.
RemoveDir ==
  /\ proc = "rmdir"
  /\ proc' = "exiting"
  /\ spoolExists' = (spool # <<>>)
  /\ UNCHANGED <<spool, putted, left, pub, coder, crashes, faults, log, applied>>

CleanExit ==
  /\ proc = "exiting"
  /\ proc' = "exited"
  /\ UNCHANGED <<spool, spoolExists, putted, left, pub, coder, crashes, faults, log, applied>>

\* A crash, or the early exits with ExitRetry, which have the same effect.
Crash ==
  /\ proc \notin {"waiting", "crashed", "exited"}
  /\ crashes < MaxCrashes
  /\ crashes' = crashes + 1
  /\ proc' = "crashed"
  /\ left' = 0
  /\ UNCHANGED <<spool, spoolExists, putted, pub, coder, faults, log, applied>>

Conveyor ==
  \/ StartConveyorProcess \/ ProcessFinished
  \/ Boot \/ Scan \/ Transfer \/ Unlink
  \/ StopEntry \/ CleanupFile \/ RemoveDir \/ CleanExit

=============================================================================
