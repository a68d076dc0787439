# Verification of GlassCoder in TLA+

GlassCoder is a family of audio streaming programs. `glasscoder` takes PCM audio
from a sound card, JACK or a file, encodes it, and sends it to an Icecast or
Shoutcast server, publishes it as HLS, serves it itself to players, or writes it to
files; `glassconv` is the uploader it starts for HLS; `glasscommander` and
`glassgui` are desktop programs that start and stop encoders. This directory has
TLA+ models of the parts that carry the program's logic, TLC configurations that
check them on small instances, and TLAPS proofs of the facts that matter for every
size. All source paths below are relative to `src/` of the repository.

Status: every part of the program with state that order, failure or time could spoil
is modelled and checked: the way of the audio, all outputs, the metadata server, the
two desktop programs and the settings they hand to the encoder. Every safety property
that a run checks on the buffer, the HLS output, the built-in server, the Icecast
client, the metadata server, the files and the two desktop programs is also a theorem,
with a machine-checked proof for every value of the constants. Section 4 has the
arguments, section 6 what is left to prove.

## 1. Inventory

`glasscoder` is an event-loop program (Qt). With one exception every handler runs in
the main thread from beginning to end, so the interleavings that matter are those of
*events*: timers, socket readiness, ends of child processes, signals. The exception
is the capture thread (ALSA) or process callback (JACK), which shares the PCM ring
buffer with the main thread without a lock.

```
capture thread --write()--> ring buffer --read()--> Codec::encode() --writeData()--> connector(s)
                                                                                       |
   Icecast/Shoutcast client: TCP socket + GET queue (curl) + watchdog <----------------+
   HLS: segments -> spool directory -> glassconv (child) -> publishing point <---------+
   IceStreamer: listening TCP port and pipe -> players <-------------------------------+
   files: FILE, FILEARCHIVE, ICEOUT <--------------------------------------------------+
metadata server (HTTP) --MetadataEvent--> connector(s)
glasscommander / glassgui --start, SIGTERM, SIGKILL--> glasscoder --stdout--> feedback
```

| Component | State it keeps | Operations | Hard behaviour | What makes it correct |
|---|---|---|---|---|
| PCM ring buffer (`src/common/ringbuffer.cpp`) | two pointers, the bytes | `write`, `read`, the space functions | two threads, no lock; wrap in two copies; partial writes | the reader gets the accepted bytes, in order, each once |
| Codec (`src/common/codec.cpp`, one file per encoder) | second ring after resampling, frame counters | `encode`, `encodeData` | reads whole blocks only; ignored results of write | what was accepted is encoded |
| Audio devices | device handle, meters | start, capture callback, stop | see ring buffer; end of file | block sizes handed to the ring |
| HLS output (`src/glasscoder/hlsconnector.cpp`) | segment numbers, durations, kill times | `writeData`, `RotateMediaFile`, `stop` | listeners hold old playlists | the published playlist resolves, the window is right, tables stay bounded |
| Upload conveyor, glassconv (`netconveyor.cpp`, `glassconv.cpp`) | spool directory, list of names to delete, process state | `push`, `stop`, restart; scan, transfer, unlink, clean up | crash between any two system calls, retries, refused transfers, STOP | published in the order of the pushes; nothing is skipped; taken down at the end |
| IceStreamer server (`icestreamconnector.cpp`) | vector of streams with reused slots, title, garbage timer | accept (port, pipe), read, time out, disconnect, collect, write, stop | requests cut anywhere, timers against closures, slot reuse | every player hears an unbroken stream with metadata where it was announced; the maximum holds; the program ends only when nobody is left |
| Connector base, program exit (`connector.cpp`, `glasscoder.cpp`) | status, two command processes, watchdog, stop timer | `setConnected`, command ends, watchdog, exit timer | late ends of commands, exit at any moment | every script-up is answered by a script-down; a request to exit ends the program |
| Icecast client (`iceconnector.cpp`) | socket, receive buffer | connect, answer, loss, title updates | answers in parts, refusals, late results | it never stops trying |
| Title queue (`getconveyor.cpp`) | queue, one curl process | `push`, process end, collection | a push between the end and the pop | order, one process at a time, no update forgotten |
| Shoutcast client (`icyconnector.cpp`) | one socket for all connections, receive buffer, login flag | connect, login, answer, loss, title updates | leftovers of an old answer; a refused connection stays open | a login ends with its connection; a server in order is reached |
| FILE, FILEARCHIVE, ICEOUT | a descriptor, the hour of the open file | write, hourly rotation | failing open at a rotation, late timer, partial writes | no audio is lost at a rotation, no hour is skipped, the status is true |
| Metadata server (`metaserver.cpp`, `httpserver.cpp`, `httpconnection.cpp`) | connections in reused slots, parser state | accept, read, answer, close, collect | segments cut anywhere, slot reuse, pipelined text | one answer and one event per valid request, however it is cut |
| GlassCommander (`src/glasscommander/`) | a `QProcess`, button and kill timer per row, the list of rows | start, stop, all, autostart, add, remove, close | end of processes against timers, clicks and modal questions | no process is forgotten; the end waits for all |
| GlassGui (`src/glassgui/`) | one `QProcess` after the other, feedback text, forms, timers | list, start, stop, feedback, edit, close | the same, and lines cut anywhere | the one process is known, forms show what runs |
| Settings (four dialogs, `config.cpp`, `glasscoder.cpp`) | form values, settings file, credentials files, options | edit, save, load, start | values pass through five representations | the encoder does what the forms say |
| Text helpers (`connector.cpp`) | none | URL coding, base64, mount points, ID3 sizes | boundaries | agreement with the encodings they name |
| Logging, widgets, meters | values shown | layout, output | none of order or time | not a subject for a model checker |

`PROJECT.json` has the same list with the modules of each part, and under `hazards`
what is hard to test in this code, at the line where it bites.

## 2. Modules

### Audio buffer: `ByteFifo`, `Ringbuffer`, `Ringbuffer_proofs`

`ByteFifo` is the abstract specification: a bounded pipe of bytes, free of pointers.
`Ringbuffer` is `glass_ringbuffer_write()`, `glass_ringbuffer_read()` and the space
functions with both threads interleaved: the load of the pointers
(`BeginWrite`, `CheckSpace`, `BeginRead`), every byte of each `memcpy()` in any order
(`StoreByte`, `LoadByte`), and the pointer store after each of the two copies of a
wrapped call (`PublishWrite`, `PublishRead`). A byte is its position in the accepted
stream, so reading a stale or torn byte shows as a pair `<<place, byte>>` whose
members differ. The reader is the loop of `Codec::encode()`: it looks at the space,
and computes it again in `read()`. The constant `StoresInOrder` says whether pointer
and data accesses take effect in program order (x86) or not (`volatile` gives no
such order elsewhere).

### HLS: `NetConveyor`, `HlsPublisher`, `HlsPublisher_proofs`

`NetConveyor` has the spool directory, the child process and the publishing point.
`proc` is the program counter of glassconv: a scan lists the directory, then each
entry is transferred and unlinked, two system calls with a possible `Crash` in
between; the STOP entry empties the directory and removes it. `StartConveyorProcess`
and `ProcessFinished` are glasscoder's restart timer and its handler of the end of
the process. `log` and `applied` are ghosts. `HlsPublisher` composes it with the
segmenter: `WriteData` is `writeDataConnector()` with the whole of
`RotateMediaFile()`, whose pushes are taken one at a time (`PushNext`) because
glassconv runs concurrently and may list the directory between two of them; the rest
of the handler is one step. After `stop()` the audio goes on until the program ends,
as in the code.

### Built-in server: `IceStreamConnector`, `IceStreamConnector_proofs`

One action per slot of the class: `NewConnection`, `NewPipeConnection`, `ReadyRead`
(any number of lines at once: `ProcessLines` is `ProcessHeader` over all of them), `Timeout`,
`Disconnected`, `CollectGarbage`, `StartStopping`, `WriteData`; `Signal` is the
request to exit. `slots` is the vector `iceserv_streams`, a client or `NULL` in each
element. What a client was sent is kept in `out` as a sequence of the response
header, numbered audio bytes and metadata blocks. A connection is made once; a new
one is a new member of `Clients`.

### Source clients: `Connector`, `GetConveyor`, `IceConnector`, `IcyConnector`, `SourceClients_proofs`

`Connector` is the base class and the exit logic of the program: `SetConnected` with
the commands it runs, the watchdog flag, `ExitTimer` and `StopTimeout`. `GetConveyor`
is the queue of curl requests. Both are modules of state and actions that
`IceConnector` and `IcyConnector` extend and compose with their socket. `SetConnected`
is called from every handler that calls it in the code, that of the title updates
included. The two clients differ where the code does: Icecast deletes its socket for
each connection, Shoutcast keeps one, logs in with a bare password and does not hang
up on a refusal. In `IcyConnector` the ghost `mood` says
whether the server is in order from now on, which the liveness property needs.

### Files: `AudioDevice`, `Codec`, `FileConnectors`, `Pipeline`, `Pipeline_proofs`

`Pipeline` is `MainObject` around three modules. `AudioDevice` has the start of each
device, which may fail at each of its steps, and what it delivers or misses; for JACK
the step between joining the graph and registering the ports is of its own, because
the process callback runs in another thread. `Codec` is `Codec::encode()` in units of
audio: whole blocks leave the first ring, are resampled (a block may be refused), enter
the second ring, leave it in whole blocks of the stream, and the encoder gives out what
is complete (frames, Ogg pages with a prologue), each block and the prologue with a
write of its own (`Output`). `FileConnectors` opens, rotates and writes; every write
takes what the disk takes, whatever became of the one before (`Writable`). Two paths of
the code end the program in the middle of this: an ALSA error taken for a count
(`AlsaErrorAsCount`), and Vorbis out of memory (`MayGiveUp`). `lost` is a ghost of what was dropped for a reason the code knows. The bytes
of the ring are the subject of `Ringbuffer`; here a ring is a sequence.

### Metadata server: `MetaServer`, `MCMetaServer`, `MetaServer_proofs`

`conns` is the vector `http_connections`, `mapped` the slot that the signal mappers
hold for a socket. A request is a sequence of pieces (a line, or half of a body);
`ReadyReadData` delivers any number of them at once and runs one parser state with all
it calls, as the code does. A POST of the JSON object `{}` ends the program
(`ReadyReadDataEnds`), see *Observations*. `MCMetaServer` has the requests: proper ones
of every kind, `{}` among them, and malformed, unsupported and pipelined ones for the
error paths.

### Desktop programs: `GlassWidget`, `GlassCommander`, `GlassGui`, `GlassCommander_proofs`, `GlassGui_proofs`

`GlassWidget` is a row: its process as the operating system has it (`os`) and as
`QProcess` knows it (`q`), which lags behind; button and kill timer. `GlassCommander`
composes rows with the window: the questions it asks are event loops of their own, so
processes and timers go on while one is open and the window takes no input.
`GlassGui` is the window around one encoder, including the reading of its output:
pieces of lines, cut by reads of any length (`TakePieces`). A call through a null pointer is a state
of the models (`phase = "crashed"`), since the code can get there.

### Settings: `Config`, `MainObject`, `Dialogs`, `GlassSettings`, `MCGlassSettings`, `GlassGui_proofs`

`Dialogs` is the four forms (what widgets hold, enable, limit, save, load and turn into
arguments), `Config` the parser of the command line with its defaults and checks,
`MainObject` what the program makes of them. `GlassSettings` composes them: a user
edits forms, closes or loses the window, opens it again, starts encoders from it or by
hand. While an encoder runs the codec, stream and source forms are locked; the server
form is not, since `LockControls()` (`glassgui.cpp:589`) leaves it out. The credentials
file is removed only by an encoder whose options are all good (`FilesLeft`). `MCGlassSettings` has the URLs, old settings files and command lines.

Definitions named `Wrong...`, `Hasty...`, `Eager...` and the like next to a definition
are that definition with a plausible mistake in it; each property is checked to fail
when the mistake takes the place of the original.

## 3. Checks

Every run ends within three minutes with two workers, most of them in seconds. The
"violation" run checks a sentence of the documentation that the code does not keep.

| Run | Shows | Bounds, and why they are enough |
|---|---|---|
| `ringbuffer` | with both threads interleaved byte by byte: no stale byte is read, no slot is in both hands, the ring refines `ByteFifo`, accepted audio is encoded | ring of 8 bytes, frames of 2, writes of up to 3 frames, 28 bytes offered: the pointers go round more than three times, every position of a wrap, a full ring and a partial write occur |
| `hls` | order of publishing, resolution of the playlist, one generation kept, take-down, termination, no segment forgotten | one crash and one refused transfer at any point, segments 0 to 3 with a playlist of 2: segments enter, leave, are deleted one generation later, and the stream is stopped at any moment; without preclean (see *Observations*) |
| `icestream` | unbroken audio, metadata exactly at the interval | two TCP clients and one pipe client; interval 3 and blocks of 2, so that metadata falls inside a block, at its end and not at all, and the remainder is carried over; 6 bytes encoded, two intervals; `MaxConnections` = 9 is no limit |
| `icestream_slots` | slots, maximum, exit on last (which throws out no client that was connected before), end of handshakes | four clients for three slots, without audio, so that refusal, reuse of a freed slot and the last leaving all occur; kept apart from `icestream` to keep both small |
| `ice` | always retrying, commands consistent at exit unless one was skipped, titles treated, exit completes | two title updates (one in the process, one waiting); nothing else needs a bound |
| `shoutcast` | a login never outlives its connection; a server that is in order again is reached | one title update, whose result disturbs the status; connections and answers are unbounded |
| `pipeline` | nothing is lost without a reason, the status tells whether a file is open, every hour is tried | 5 units of audio, resampler blocks of 2 and stream blocks of 3, so that both leave remainders and one conversion spans blocks of the other; reads of up to 3; three hours, so that a failed hour lies between two others; every device, codec and output |
| `metadata` | one answer and one update per proper request however it is cut, signals reach the owner of the socket, dead connections are freed | two clients with any of 14 requests each, two connections per client, so that a slot is reused while another is live |
| `commander` | no encoder is forgotten, kill timers hit what was stopped, the end waits for all, the settings file is current | two rows, two processes per run, one confirmed closing, one row added or removed |
| `gui` | one known process or none, forms show what runs, the last report is shown | two encoders of two lines, reads of up to 3 pieces (a line is two), one closing, two edits |
| `options` | the encoder obeys the forms, accepted forms start, load returns what was saved, order of options is free | two edits and two openings; two values per kind of text (empty, and one with a blank in front); every codec, rate, bit rate and quality the forms offer is reached by edits |
| `options_quality` (violation) | the quality given to a Vorbis encoder is not in effect | command lines by hand only |

`CHECK_DEADLOCK FALSE` is used everywhere because every one of these systems may
legitimately stop: the audio may end, the peers may stay silent, the program exits.

### Fairness

- The timers of a running event loop fire: encode timer (`Reader`), garbage, time-out
  and exit timers, watchdog, stop timer, the scan timer of glassconv.
- A call that has begun is finished (`StoreByte`, `PublishWrite`, `PushNext`).
- glassconv makes progress between crashes, and crashes are finite in number.
- curl ends. No time limit is set in the code (`getconveyor.cpp:165`), so this is an
  assumption about curl.
- `shoutcast`: the watchdog fires; a server that is in order (`mood = "good"`)
  accepts, answers, and ends connections that never send headers. Before that it may
  do anything or nothing. Nothing is assumed to make it come into order.
- `pipeline`: only the rotate timer (`ArchiveRotates`) is fair. The clock does not run
  away from it: `ClockTicks` waits until the timer has seen the hour, that is, the
  timer is never late by an hour. The clock is not set back.
- `metadata`: the garbage timer fires, and a waiting connection is accepted.

Nothing else is assumed of peers: clients may send nothing, servers may never answer, the
device may stop delivering, and nobody need ever stop the program.

### Finding

*Quality of Vorbis* (run `options_quality`): the manual (`docs/glasscoder.xml.in:274`)
gives `--audio-quality` a range from 0.0 to 1.0, but `Config::audioQuality()`
(`config.cpp:443`) returns the value as an unsigned number: every quality below 1.0
reaches the codec as 0.

### Observations

Met while reading the code for the models. Most are in the models, as an exception named in a property
or a behaviour no property excludes; the others lie below their level of detail. None has a
run of its own.

*Buffer and audio*
- On processors that reorder stores the ring is not safe (`ringbuffer.cpp:281`):
  `ReadsWhatWasWritten` fails with `StoresInOrder = FALSE`.
- A ring for "at least sz bytes" holds one less when sz is a power of two; that is no
  multiple of a frame, so a write into a nearly full ring can keep part of a frame.
- JACK may call back before the ports are registered (`jackdevice.cpp:204`).
- An error of `snd_pcm_readi()` while the card still runs is taken for a number of
  frames (`alsadevice.cpp:38`); unsigned, it makes the thread read far beyond its
  buffers. The model lets the program end; that the encoder may get some garbage in
  the moment before is left out.
- Vorbis counts frames twice and Opus only per page, so the durations of HLS segments
  are wrong; the Opus flag for the prologue is not initialised; the later hours of an
  Ogg archive have no headers; encoders are not flushed at the end.
- A restart within the hour truncates the file of the archive; results of `write()`
  are ignored by the file output, so a full disk is silent.

*Outputs*
- A restart of glassconv repeats preclean, which empties the publishing point of a
  running stream (`netconveyor.cpp:235`): `PublishedInOrder` fails with
  `Preclean = TRUE`, though the manual (`docs/glasscoder.xml.in:543`) speaks of the
  start.
- `StopCompletes` has an exception, `StopLost`: if glassconv crashes after it
  unlinked the STOP entry, nothing tells the next one to end, and glasscoder waits for
  ever.
- `--server-max-connections` is compared with the size of a vector that never shrinks
  (`icestreamconnector.cpp:207`): after the peak nobody is accepted. The transport
  starts only if that size is exactly the wanted one at the end of a request (532).
- With `--server-exit-on-last` any connection that closes, a title update too, ends
  the program when no other stream is left; the manual (`docs/glasscoder.xml.in:487`)
  speaks of the last player. A client that is accepted between the SIGTERM
  (`icestreamconnector.cpp:294`) and `startStopping()` is thrown out:
  `NeverLeavesAClient` is about those that were connected before.
- A failed title update sets the status of the stream and runs script-down
  (`iceconnector.cpp:201`); a successful one sets it to connected.
- Shoutcast: an "OK2" left over from a broken answer makes the next refusal look like
  an acceptance; the text "invalid password" stays in the buffer and costs the next
  attempt; the audio is written before the login is answered; `at(length-3)` is
  evaluated with a length of 2.

*Metadata server*
- It announces `Connection: close`, does not close, and goes on parsing.
- A POST to `/json_pad` whose body is `{}` makes `obj.keys().at(0)`
  (`metaserver.cpp:102`) ask an empty list for its first element, which ends the
  program. `CutsDoNotMatter` and its theorem except this request.

*Desktop programs*
- Commander: closing twice counts each end twice and ends early; an encoder started
  after closing was confirmed is left running; encoders that end while the question
  is open make it wait for the time limit and exit with 1; Start All while a row is
  starting starts it twice and loses the first; an encoder that ends with an error
  leaves "Stop" with no process; rejecting the question for a row leaves Abandon
  disabled; removing a row shifts the index of the autostart.
- Gui: Send, the answer Yes to the closing question, and the kill timer can each meet
  a process that is gone (`glassgui.cpp:394`, 275, 583); closing while codecs are
  being listed saves default forms; the accumulator of lines outlives the encoder.

*Settings*
- The quality of Opus is passed as a bit rate; the form for Vorbis goes to 10, the
  option to 1.0; user and password lose blanks around them and a second ":"; http and
  https locations share a credentials file; the Icecast client never sends
  `--stream-url`; the HPI source is not restored; the range check of the HPI gain
  refuses nothing; HLS tells the codec about complete frames after it has started.

## 4. Proofs

Each proof module EXTENDS the module it is about; `SourceClients_proofs` is about
`IceConnector` and `IcyConnector`, `GlassGui_proofs` about `GlassGui` and
`GlassSettings`. The argument is the same everywhere:
an inductive invariant is stated in named parts, each part with one lemma per kind of
change, then one step per action, and the theorem follows from the last lemma.

| Module | Theorem | States |
|---|---|---|
| `Ringbuffer_proofs` | `TypeCorrect`, `NotOverfull` | `TypeOK`, `NeverOverfull` |
| | `NoStaleByte`, `NoRace` | `ReadsWhatWasWritten`, `NoSlotInBothHands` |
| | `IsAFifo` | `ImplementsFifo`: `Ringbuffer` implements `ByteFifo` |
| `HlsPublisher_proofs` | `TypeCorrect` | `TypeOK` |
| | `NothingOvertakes`, `ListenersFindSegments` | `PublishedInOrder`, `PlaylistResolves` |
| | `DeletesLagBehind`, `NothingIsLeft` | `KeepsOneGeneration`, `TakenDown` |
| `IceStreamConnector_proofs` | `TypeCorrect` | `TypeOK` |
| | `SlotsAreKept`, `MaximumHolds`, `ClientsAreNotLeft` | `OneSlotEach`, `WithinMaxConnections`, `NeverLeavesAClient` |
| | `EveryByteIsHeard`, `TitlesAreInPlace` | `HearsEveryByte`, `MetadataEveryInterval` |
| `SourceClients_proofs` | `TypeCorrect`, `NeverGivesUp`, `DownFollowsUp` | `TypeOK`, `AlwaysRetries`, `EveryUpHasItsDown` |
| | `LoginsEndWithTheConnection` | `LoginIsOfThisConnection` of `IcyConnector` |
| `MetaServer_proofs` | `ReachTheirOwner`, `EachRequestAnswered` | `SignalsReachTheirOwner`, `CutsDoNotMatter` |
| `Pipeline_proofs` | `OnlyFailuresLoseAudio`, `StatusIsTrue` | `NothingElseLost`, `StatusTellsTheTruth` |
| `GlassCommander_proofs` | `NeverLosesSight`, `KillsOnlyTheStopped` | `NoneLostSight`, `KillsWhatWasStopped` |
| | `SavedIsCurrent`, `ClosingWaits` | `SavedListIsCurrent`, `CloseWaitsForAll` |
| `GlassGui_proofs` | `NoEncoderIsLost`, `FormsAreTrue` | `NothingLeftRunning`, `FormsShowWhatRuns` |
| | `StatusIsLastReported` | `ShowsLastReport` |
| | `NothingIsForgotten` | `LoadReturnsWhatWasSaved` of `GlassSettings` |
| | `FormsDecide`, `FormsStart` | `EncoderObeysForms`, `ValidFormsStart` of `GlassSettings` |
| | `OrderIsNothing` | `OrderDoesNotMatter` of `GlassSettings` |

### Ring buffer

For every size, frame, block and call size, assuming `StoresInOrder`.
`ReadsWhatWasWritten` is far from inductive: it says nothing of bytes not yet read. The
inductive invariant `IInv` adds `ContentInv` (the bytes between the pointers are the
accepted ones not yet taken, and the write pointer is the masked sum), `WriterInv` (the
call in progress fits the space that was free when it looked, because the reader can
only enlarge it; what is still to be stored lies at and beyond the write pointer) and
`ReaderInv` (what is being read is below the write pointer). The lemmas `MaskValue`,
`Parts` and `Spaces` carry the pointer arithmetic, so that the step proofs contain none.

The refinement needs to know besides what the codec has been given (`OutInv`): every
byte of the finished copies, and of the copy in progress each byte is still to be loaded
or is out, in its place. Then a `PublishWrite` is an append to the abstract queue, a
`PublishRead` a removal from it, and every other step of either thread a stutter.

### HLS output

For any segment sizes, any length of the playlist, any number of segments, crashes and
refused transfers. `QueueInv` is about the conveyor: the spool is the end of the log
(`SpoolInv`); what is at the publishing point was put there by the last treated event of
its name (`LastInv`); and the publishing point is the fold of the treated events
(`FoldInv`), which is a function over the log, and in which treating an event twice
after a crash counts once (`EffectTwice`). `EndInv` is about the segmenter: while the
stream runs every segment was pushed before the playlist that lists it, and a delete
after a playlist that begins two segments later (`StreamInv`); what was put is
remembered until its delete is pushed (`PuttedInv`); once it is stopping there is one
STOP entry, behind the deletes, and the clean-up comes after all before it was treated.
The handlers' loops over the segments to delete are taken apart in `CutFacts`.

The four theorems about the publishing point assume `~Preclean`: with it they are false,
since a restart of glassconv repeats the cleaning (see *Observations*).

### Built-in server

For any set of connections, any maximum and any audio. *Slots*: `SlotInv` adds to
`OneSlotEach` that a client in a slot has a socket that is up or down (so a new
connection has none yet) and that the vector never outgrows the maximum. `FreeSlotIsFree`
shows that the `CHOOSE` of `GetFreeStreamId()` is defined, and `PlacedKeepsOthers` that
placing a client disturbs nobody; then one lemma for each thing a handler can do to the
slots (`SocketChange`, `Refusal`, `Acceptance`, `CollectedSlots`). The maximum follows
by an injection of the connected clients into the slots.

*Streams*: the properties quantify over what was sent; the invariant `HearInv` says it
in closed form. With metadata, item *b* of the body is a title exactly when *b* is a
multiple of interval + 1 (`Rest`), and otherwise audio byte *a* + *b* less the titles so
far (`Whole`), where *a* is the byte at which the player was answered; the bytes since
the last title are `Rest` of the length. `DueContinues` and `PlainContinues` show that a
block with and without a title in it keeps the form; `LinesRead` that reading the lines
of a request sends at most the header.

### Source clients

Icecast, for any number of title updates. `AlwaysRetries` is inductive with the type invariant,
which `StatusType` and its companions divide as the handlers do: status and commands,
exit, queue, socket. `CommandInv` carries `EveryUpHasItsDown`: the command for an
established connection is the last one only while the connection is established and its
loss will be seen, that is, the program is neither stopping nor over.

Shoutcast: the property needs `LoginInv`. What the server was told in an earlier
connection is forgotten when the socket is closed, by the handler of the error or of the
end of the connection, and not when the watchdog connects anew: the watchdog is armed
only while the socket is closed.

### Metadata server

For any clients and scripts. *Slots*: `ConnsInv` and `SlotInv` say that a socket is in
exactly the slot its mapper holds from its acceptance to its collection; the handlers
keep the socket of the connection they work on (`SameSocket`, one lemma each), and a new
connection takes a slot that was free (`NewSlot`).

*Requests*: `RequestInv` says how far an open connection is with a proper script of which
it has read *w* pieces (`At`), the request of `{}` excepted: nothing is left unread between two segments; up to the
empty line the fields are what the lines so far say (`HeadersRead`), after it the body is
the pieces since (`BodyPartRead`), and the answer is there when *w* is the whole script
(for `{}` there is no such state: the program does not outlive the last piece).
`ProperShape` unfolds what a proper script is; `RequestAnswered`, `BodyTreated`,
`EndTreated`, `HeadersTreated` and `MethodTreated` each show one function of the parser
to advance from *w* to any later piece *v*, so that one read may cover several of them.

### Files

For any block and read sizes, any audio and any number of hours. `AudioInv` says that
the audio in the files, in the encoder, in the second and in the first ring follow each
other in this order, and that together they are what was captured and not lost. The
codec's recursive functions over blocks are treated by lemmas on sequences in parts
(`Concatenated`, `Pieces`, `Flattened`, `BlocksAreAudio`, `JoinedIsAudio`). The writes
of one `encode()` are in order (`OutputInOrder`), and so is what is taken of each of
them, however much that is (`TakenAndDropped`). `TargetInv`
is what the rotation needs: the files of hours after the last one opened are empty, so
that opening one truncates nothing. `RateInv`: no second ring without resampling.
`StatusInv` adds to `StatusTellsTheTruth` that the status is off before the start.

### Desktop programs

`GlassCommander`, for any rows and any number of processes: `WatchInv` consists of the
types (`TableInv`); that the pointer of a row leads to a process of its own and the
button goes with it (`PointerInv`); that no other process of the row is not over
(`KnownInv`), and that the kill timer runs against the process of the pointer
(`TimerInv`). All but the first except rows that were started while starting
(`replaced`), which lose a process in the code. `CloseInv` counts: after the first
confirmed closing every process whose end will be counted was asked to end, and the
count is not below the number of those not over (`Waiting`). The proof found a case the
runs are too small for: a row whose earlier process is not over yet has two that will be
counted, and the count can then be too low. `CloseWaitsForAll` excepts it, as the run
does.

`GlassGui`, for any lengths of reads: `GuiInv` has the types, that a process whose end
was treated has ended, that the garbage timer runs only for an encoder that ended well
and was not followed by another (`CleanupInv`), and the last warning (`FatalInv`); with
it `NothingLeftRunning` and `FormsShowWhatRuns` are inductive. `ShowsLastReport` needs
`FeedbackInv`: the output that waits is whole lines but for a cut first one (`Lined`), and
the accumulator is in step with it (`InStep`); a read takes pieces one after the other.

### Settings

`GlassSettings`, for any texts, numbers, old settings files, command lines and edits.

*Loading undoes saving* (`NothingIsForgotten`; `FormsReturn`), although a dialog loads
tag by tag into boxes that are already filled, and a new type resets the rate, the
channels and the bit rate: `CodecReturns` follows that order. It holds for forms in which
every box shows one of its items (`FormsOK`), since a box ignores a value it has no item
for; new forms are such, loading keeps it whatever the file holds (`CodecLoadedOK`), and
so does every edit. `TagsOfDialogs`: no dialog writes a tag of another. `FormsInv` adds
that the file has what was last saved.

*The order of options* (`OrderIsNothing`). The table of options is read once (`Entries`):
every option sets a field that no other option sets (`OneOption`), is left to the audio
device, or ends the program. From it `SettingsOfArgs`: whatever the number of arguments,
the program ends at the options if and only if one of them is bad, and otherwise each
field has the value of an argument that sets it, or its default; the device has the
others. `DeviceOfOptions` says the same of the options of a device. Both are about sets
of arguments, so two command lines with the same arguments, none given twice with two
values, leave settings that differ only in the order of what is left to the device
(`SameArgs`), through the credentials file and the checks (`AlikeCredentials`,
`AlikeChecks`), and start the same encoder (`AlikeStarts`).

*The encoder obeys the forms* (`FormsDecide`). `FormsGiven` says which options the four
dialogs give, each once (`One`) or not at all (`Lacks`), with what value; `AllTold` what
each of them leaves; together `OptionsOfFormsRead`, then `LoginOfForms` and
`SettingsOfForms` for the credentials file and the checks. Device, codec and connection
follow one by one (`DeviceFollows`, `CodecFollows`, `ConnectorFollows`). *It starts*
(`FormsStart`) since no option of such forms is bad (`NoneIsBad`) and no check fails
(`NoneFails`). The inductive invariant `StartIInv` adds to the one above that the encoder
is what the remembered arguments and files start, and that those of the Start button are
the ones of forms in which every box shows one of its items, with their login just
written (`LaunchInv`).

### Induction over data

The library's induction theorems take an operator as a parameter and cannot be used
with the provers at hand. Where a proof needs induction over numbers or sequences
(blocks of the codec, pieces of a read, entries of the log), it takes the least
counterexample: `LeastElement` gives it from the well-foundedness of finite sets by
inclusion. Recursion in these modules is by recursive functions, whose equations are
proved where they are used.

### Assumptions

The proofs use the `ASSUME`s of the modules and nothing else but the hypotheses named
above (`StoresInOrder`, `~Preclean`): the buffer has a size above 1, `NULL` is no client,
`MaxConnections` is a number other than 0, the playlist's name is no segment number,
block sizes are positive, `ReadMax` is a number, `Scripts` are sequences of pieces,
the location in a settings file and those a user types are URLs, a command line is a
sequence, and so on. TLC evaluates them in every run.

### Only model-checked

- Liveness (`AcceptedIsEncoded`, `StopCompletes`, `EverySegmentTreated`,
  `HandshakeEnds`, `ExitsAfterLast`, `MetadataTreated`, `ExitCompletes`,
  `DeadConnectionsFreed`, `EveryHourIsTried`, `GetsInAtLast`): fairness and `ENABLED`
  are out of the proof system's reach.

## 5. What the models leave out

- *Ring buffer*: `peek`, `dump`, `reset`, the vector functions and `mlock` are called
  nowhere in the program.
- *HLS*: the bytes of segments, ID3 tags and time stamps; a real-time clock that is
  set back (spool names are stamps, so the order would break); a `link()` that fails
  (the segment is then lost, and listed); curl and the S3 library, which are
  succeed-or-fail transfers here. A run with `--server-no-deletes` would be unbounded.
- *IceStreamer*: the text of answers; text after the blank line that ends a request
  (a second blank line in the same segment sends the header again); codec blocks
  longer than the metadata interval of 16000 bytes; memory, such as refused sockets
  that are never deleted.
- *Icecast client*: header text beyond the status; both commands are configured; a
  command's exit code has no effect in the code.
- *Shoutcast client*: the audio, header texts, and a second block of headers from the
  server.
- *Exit*: connectors that stop synchronously (IceStreamer, ICEOUT) end the program
  inside `exitTimerData()`, before its last lines; `Connector` has the exit of those
  that stop by the timer, `Pipeline` that of ICEOUT.
- *Files*: sample formats, gains, meters, bytes below a unit of audio; the libraries
  are what they give out and keep. Clocks set back; a timer late by an hour or more;
  that `rotateFile()` reads the date and the time separately
  (`filearchiveconnector.cpp:66`), so that at midnight a file can be named after the
  day before. The second ring never fills.
- *Metadata server*: web sockets, CGI, static files and users, none of which this
  program registers; the texts of answers.
- *Desktop programs*: `gw_process->deleteLater()` on a null pointer
  (`glasswidget.cpp:348`, in a row started while starting), which Qt answers with a
  warning; meters, texts; warnings after which a window goes on; message
  boxes other than the questions.
- *Settings*: hardware browsing in the source dialog, layout, the syntax of numbers.

### Not modelled

- *Local socket server* (`socketserver.cpp`): a listening UNIX socket; its connections
  are the pipe clients of `IceStreamConnector`.
- *Text helpers* of `connector.cpp` (URL coding, base64, mount points, ID3 sizes):
  pure functions over text without state. One deviation is known: the multipliers of
  the ID3 size (line 1501) are 127 where a synchsafe integer has 128.
- *Widgets, meters, small dialogs, logging*: presentation only.
- *Test drivers and the PyPAD plugin*: not part of the program. The vendored encoders
  and drivers are external.

## 6. Plan

Modelled: `Ringbuffer` with `ByteFifo`; `NetConveyor` and `HlsPublisher`;
`IceStreamConnector`; `Connector`, `GetConveyor`, `IceConnector` and `IcyConnector`;
`MetaServer`; `GlassWidget`, `GlassCommander` and `GlassGui`; `Config`, `Dialogs`,
`MainObject` and `GlassSettings`; `AudioDevice`, `Codec`, `FileConnectors` and
`Pipeline`. Proved: every invariant and action property that a passing run
checks, and that `Ringbuffer` implements `ByteFifo`. Left to prove:

1. The type invariants of `MetaServer`, `GlassCommander` and `Pipeline` as theorems of
   their own; the inductive invariants have what they need.
2. An abstract specification of `HlsPublisher` (a listener's view: an ordered window of
   segments that only moves forward) and the refinement.
