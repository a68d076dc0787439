--------------------------- MODULE FileConnectors ---------------------------
(***************************************************************************)
(* The connectors that write to the machine glasscoder runs on: FILE,       *)
(* FILEARCHIVE (a file for every hour) and ICEOUT (standard output).        *)
(*                                                                          *)
(* Hours are counted from the start.  The code compares the hour of the     *)
(* day, so this is for clocks that go forward and for less than a day       *)
(* between two turns of the rotate timer; rotateFile() reads the date and   *)
(* the time one after the other and may at midnight name a file after the  *)
(* day before, which makes no difference here.  A reader that closes the pipe    *)
(* of ICEOUT ends the program and is left out.                              *)
(***************************************************************************)
EXTENDS Naturals, Sequences, SequencesExt, FiniteSetsExt

CONSTANT MaxHour   \* bound: hours the clock advances

ASSUME HourAssumption == MaxHour \in Nat

None == MaxHour + 1   \* no file open, or no hour archived yet
Hours == 0..MaxHour

VARIABLES
  server,       \* --server-type
  hour,         \* the clock
  connected,    \* conn_connected
  handle,       \* the file open: {file,archive}_{fd,snd}
  archiveHour,  \* archive_hour
  rotateTimer,  \* archive_rotate_timer runs
  files         \* what was written to the file of an hour (all but
                \* FILEARCHIVE use the first)

archiveVars == <<connected, handle, archiveHour, rotateTimer, files>>
serverVars == <<server, archiveVars>>

ConnectorInit ==
  /\ server \in {"file", "filearchive", "iceout"}
  /\ hour = 0
  /\ connected = FALSE /\ handle = None
  /\ archiveHour = None /\ rotateTimer = FALSE
  /\ files = [h \in Hours |-> <<>>]

OpenQuietly(h) ==
  \/ /\ handle' = h /\ connected' = TRUE
     /\ files' = [files EXCEPT ![h] = <<>>]
  \/ /\ handle' = None
     /\ UNCHANGED <<connected, files>>

\* open() with O_TRUNC, or sf_open(): the file of hour h is empty again.
Open(h) ==
  \/ /\ handle' = h /\ connected' = TRUE
     /\ files' = [files EXCEPT ![h] = <<>>]
  \/ /\ handle' = None /\ connected' = FALSE
     /\ UNCHANGED files

FileConnect ==
  /\ server = "file"
  /\ Open(0)
  /\ UNCHANGED <<archiveHour, rotateTimer>>

IceOutConnect ==
  /\ server = "iceout"
  /\ handle' = 0 /\ connected' = TRUE
  /\ UNCHANGED <<archiveHour, rotateTimer, files>>

AlwaysAdvanced == TRUE
DidHourAdvance == hour # archiveHour

RotateUntilFailure ==
  /\ IF DidHourAdvance
       THEN archiveHour' = hour /\ Open(hour)
       ELSE UNCHANGED <<archiveHour, connected, handle, files>>
  /\ rotateTimer' = connected'

\* rotateFile(): the timer is armed again for the end of the hour, or, when it
\* came too early, in 100 ms.
RotateFile ==
  /\ rotateTimer' = TRUE
  /\ IF DidHourAdvance
       THEN /\ archiveHour' = hour
            /\ Open(hour)
       ELSE UNCHANGED <<archiveHour, connected, handle, files>>

\* A place that cannot be written to ends the program instead (glasscoder's
\* exit(256)); see Pipeline.
ArchiveConnect ==
  /\ server = "filearchive"
  /\ RotateFile

RotateTimer ==
  /\ rotateTimer
  /\ RotateFile

\* writeDataConnector(), for each of some writes: how much of it the disk or the
\* pipe takes; without a file, nothing.  Nobody looks at what it returns, so
\* one that fails does not keep the next from being made.
Writable(writes) ==
  IF handle = None
    THEN {[w \in DOMAIN writes |-> 0]}
    ELSE {n \in [DOMAIN writes -> 0..Max({Len(writes[w]) : w \in DOMAIN writes})] :
            \A w \in DOMAIN writes : n[w] \in 0..Len(writes[w])}

Taken(writes, n) == FlattenSeq([w \in DOMAIN writes |-> SubSeq(writes[w], 1, n[w])])
Dropped(writes, n) ==
  UNION {ToSet(SubSeq(writes[w], n[w] + 1, Len(writes[w]))) : w \in DOMAIN writes}

WriteData(writes, n) ==
  files' = IF handle = None
             THEN files ELSE [files EXCEPT ![handle] = @ \o Taken(writes, n)]
=============================================================================
