------------------------------ MODULE Pipeline ------------------------------
(***************************************************************************)
(* The way of the audio through a glasscoder that writes files: a device,   *)
(* the ring buffers, a codec, a connector; and MainObject, which starts     *)
(* them in this order and ends the program.                                 *)
(***************************************************************************)
EXTENDS AudioDevice, Codec, FileConnectors

VARIABLES
  phase,    \* what MainObject does: starts the "device", the "codec", the
            \* "connector"; "running"; "stopping"; "exited", or "failed" and
            \* "crashed"
  exiting   \* glasscoder_exiting

vars == <<deviceVars, audioVars, lost, codecVars, hour, serverVars, phase, exiting>>

Init ==
  /\ DeviceInit /\ CodecInit /\ ConnectorInit
  /\ phase = "device" /\ exiting = FALSE

Dead == phase \in {"exited", "failed", "crashed"}
InEventLoop == phase \in {"running", "stopping"}

-------------------------------------------------------------------------------
(* MainObject::MainObject() *)

Started(ok, next) == phase' = IF ok THEN next ELSE "failed"

StartAudioDevice ==
  /\ phase = "device"
  /\ \E ok \in BOOLEAN :
       \/ (FileStart(ok) \/ AlsaStart(ok) \/ AsiHpiStart(ok)) /\ Started(ok, "codec")
       \/ JackJoin(ok) /\ Started(ok, "device")
  /\ UNCHANGED <<audioVars, lost, codecVars, hour, serverVars, exiting>>

JackStarted ==
  /\ phase = "device"
  /\ JackRegisterPorts
  /\ phase' = "codec"
  /\ UNCHANGED <<audioVars, lost, codecVars, hour, serverVars, exiting>>

\* A library that is missing, or of the wrong kind, ends the program as well.
StartCodec ==
  /\ phase = "codec"
  /\ \E vbr, found \in BOOLEAN : Started(CanStart(vbr) /\ found, "connector")
  /\ UNCHANGED <<deviceVars, audioVars, lost, codecVars, hour, serverVars, exiting>>

\* The archive first tries to write to the place it was given.
StartServerConnection ==
  /\ phase = "connector"
  /\ \/ FileConnect /\ phase' = "running"
     \/ IceOutConnect /\ phase' = "running"
     \/ ArchiveConnect /\ phase' = "running"
     \/ server = "filearchive" /\ phase' = "failed" /\ UNCHANGED archiveVars
  /\ UNCHANGED <<deviceVars, audioVars, lost, codecVars, hour, server, exiting>>

-------------------------------------------------------------------------------
(* The device *)

\* Threads of their own deliver audio from the start of the device on; timers
\* need the event loop.
DeviceDelivers ==
  /\ ~Dead
  /\ AlsaPeriod \/ JackCallback \/ (InEventLoop /\ (FileRead \/ AsiHpiRead))
  /\ UNCHANGED <<codecVars, hour, serverVars, phase, exiting>>

\* AlsaCallback() takes an error for a number of frames if the card still runs:
\* unsigned, it is beyond every buffer and ends the program.
AlsaErrorAsCount ==
  /\ ~Dead
  /\ device = "alsa" /\ deviceOn = "on"
  /\ phase' = "crashed"
  /\ UNCHANGED <<deviceVars, audioVars, lost, codecVars, hour, serverVars, exiting>>

\* JackProcess() with the port pointers not yet set.
JackCallbackEarly ==
  /\ phase = "device" /\ deviceOn = "joining"
  /\ \/ phase' = "crashed" /\ UNCHANGED <<deviceVars, audioVars, lost>>
     \/ (\E n \in Readable : Deliver(n)) /\ UNCHANGED phase
  /\ UNCHANGED <<codecVars, hour, serverVars, exiting>>

\* audioDeviceStoppedData(), SIGINT and SIGTERM; the file says so again on every
\* later turn of its timer.
RequestExit ==
  /\ InEventLoop /\ ~exiting
  /\ exiting' = TRUE
  /\ UNCHANGED <<deviceVars, audioVars, lost, codecVars, hour, serverVars, phase>>

FileEnds == FileAtEnd /\ RequestExit
SignalHandler == RequestExit

-------------------------------------------------------------------------------
(* encode(), called by the data timer of the connector *)

\* Hand the whole blocks of a ring to the library, and what it is done with to
\* the connector, write by write; dropped is what the converter lost before.
EncodeBlocks(ring, size, dropped) ==
  \E blocks \in {Blocks(ring, size)} :
    \E e \in Encodings(blocks) :
      \E writes \in {Output(blocks, e)} :
        \E n \in Writable(writes) :
          /\ held' = Kept(blocks, e)
          /\ prologueSent' = PrologueSent(blocks)
          /\ WriteData(writes, n)
          /\ lost' = lost \cup dropped
                          \cup (UNION {ToSet(blocks[b]) : b \in DOMAIN blocks \ e.good})
                          \cup (Dropped(writes, n) \ {Prologue})
          /\ phase' \in {phase} \cup IF MayGiveUp(blocks, e) THEN {"failed"} ELSE {}

Encode ==
  IF ownRate
    THEN \E good \in SUBSET DOMAIN Blocks(ring1, SourceBlock) :
           \E ring \in {Converted(ring1, good)} :
             /\ ring1' = Remainder(ring1, SourceBlock)
             /\ ring2' = Remainder(ring, StreamBlock)
             /\ EncodeBlocks(ring, StreamBlock,
                             UNION {ToSet(Blocks(ring1, SourceBlock)[b]) :
                                    b \in DOMAIN Blocks(ring1, SourceBlock) \ good})
    ELSE /\ ring1' = Remainder(ring1, SourceBlock)
         /\ EncodeBlocks(ring1, SourceBlock, {})
         /\ UNCHANGED ring2

DataTimer ==
  /\ InEventLoop
  /\ Encode
  /\ UNCHANGED <<deviceVars, captured, codec, hour, server, connected, handle,
                 archiveHour, rotateTimer, exiting>>

-------------------------------------------------------------------------------
(* The clock and the end *)

\* The rotate timer is late by minutes at most: by the next hour it has run.
ClockTicks ==
  /\ ~Dead /\ hour < MaxHour
  /\ archiveHour # None => archiveHour = hour
  /\ hour' = hour + 1
  /\ UNCHANGED <<deviceVars, audioVars, lost, codecVars, serverVars, phase, exiting>>

ArchiveRotates ==
  /\ InEventLoop
  /\ RotateTimer
  /\ UNCHANGED <<deviceVars, audioVars, lost, codecVars, hour, server, phase, exiting>>

\* exitTimerData() and stop(): ICEOUT is stopped at once, the others by a timer
\* (Connector says how the program counts).  The encoder is not drained.
ExitTimer ==
  /\ phase = "running" /\ exiting
  /\ connected' = FALSE
  /\ phase' = IF server = "iceout" THEN "exited" ELSE "stopping"
  /\ UNCHANGED <<deviceVars, audioVars, lost, codecVars, hour, server, handle,
                 archiveHour, rotateTimer, files, exiting>>

\* connectorStoppedData(): the connector's destructor closes the file.
StopTimeout ==
  /\ phase = "stopping"
  /\ phase' = "exited" /\ handle' = None
  /\ UNCHANGED <<deviceVars, audioVars, lost, codecVars, hour, server, connected,
                 archiveHour, rotateTimer, files, exiting>>

Next ==
  \/ StartAudioDevice \/ JackStarted \/ StartCodec \/ StartServerConnection
  \/ DeviceDelivers \/ AlsaErrorAsCount \/ JackCallbackEarly \/ DataTimer
  \/ FileEnds \/ SignalHandler \/ ExitTimer \/ StopTimeout
  \/ ClockTicks \/ ArchiveRotates

Spec == Init /\ [][Next]_vars /\ WF_vars(ArchiveRotates)

-------------------------------------------------------------------------------
(* Properties *)

\* Where audio is, the oldest first: in the files of the hours, in the encoder
\* and in the two ring buffers.
Parts ==
  [p \in 0..(MaxHour + 3) |-> CASE p \in Hours      -> files[p]
                                [] p = MaxHour + 1  -> held
                                [] p = MaxHour + 2  -> ring2
                                [] OTHER            -> ring1]

\* Whatever turns the rotation, the resampler, the encoder and the disk take,
\* a unit of audio is lost only to an overrun, a block that a library refused,
\* or a write that failed.  All the others are in one of the parts, once each
\* and in order: the rotation empties no file that holds audio (rotateFile()),
\* and blocks and remainders fit together (Codec::encode()).
NothingElseLost ==
  /\ \A p, q \in DOMAIN Parts : \A i \in DOMAIN Parts[p], j \in DOMAIN Parts[q] :
       /\ p < q \/ (p = q /\ i < j)
       /\ Parts[q][j] # Prologue
       => Parts[p][i] < Parts[q][j]
  /\ (UNION {ToSet(Parts[p]) : p \in DOMAIN Parts}) \ {Prologue} = 1..captured \ lost

\* The connection status is what operators see of an archive that cannot be
\* written: while the program runs it is on exactly when a file is open
\* (connectToHostConnector(), rotateFile()).
StatusTellsTheTruth == phase = "running" => (connected <=> handle # None)

\* Every hour that begins while an archive is running gets its own attempt to
\* open a file, also after hours whose file could not be opened
\* (rotateFile()).
EveryHourIsTried ==
  \A h \in Hours :
    server = "filearchive" /\ InEventLoop /\ hour = h ~> archiveHour \in h..MaxHour \/ Dead
=============================================================================
