---------------------------- MODULE GlassSettings ----------------------------
(***************************************************************************)
(* The settings of one encoder, from the dialogs to the encoder: a user     *)
(* edits the forms of GlassGui, closes the window (which saves them) or     *)
(* loses it, opens it again (which loads them), and starts encoders, with   *)
(* the Start button or by hand.  How the encoder process is supervised is   *)
(* in GlassGui.tla; here a start is one step, with everything that          *)
(* glasscoder decides before it opens its connection.                       *)
(***************************************************************************)
EXTENDS Dialogs, MainObject

CONSTANTS
  None,          \* no forms, no launch
  MaxEdits,      \* bound on the edits of the forms
  MaxOpens,      \* bound on the openings of the window
  Locations,     \* the URLs that a user types
  TextValues,    \* the texts that a user types
  EditedTexts,   \* the text fields of the server form that a user fills in
  EditedStream,  \* the stream fields that a user fills in
  EditedRates,   \* the sample rates, the bit rates and qualities, ...
  EditedBits,
  EditedNumbers, \* ... the port and the number of connections, ...
  EditedGains,   \* ... the gains and the offsets that a user chooses
  EditedOffsets,
  OldFiles,      \* the settings files that a session begins with
  HandLines      \* the command lines typed by hand

Urls == [scheme : STRING, port : Int, path : Seq(STRING)]

ASSUME LocationsAssumption == Locations \subseteq Urls

\* in a file that has one, the location is a URL
ASSUME OldFilesAssumption ==
  \A f \in OldFiles : "ServerLocation" \in DOMAIN f => f["ServerLocation"] \in Urls

\* a command line is a sequence, of any arguments
ASSUME HandLinesAssumption == \A args \in HandLines : args \in Seq(ToSet(args))

VARIABLES
  forms,         \* what the widgets of the open window hold, None without one
  can_start,     \* the Start button is enabled
  file,          \* the settings file
  files,         \* the credentials files
  enc,           \* the encoder
  saved,         \* ghost: the forms that were last saved, None before that
  fresh,         \* ghost: the forms have just been loaded
  launch,        \* ghost: the arguments, files and forms of the last start
  edits, opens   \* counts

settingsVars == <<forms, can_start, file, files, enc, saved, fresh, launch, edits, opens>>

SettingsInit ==
  /\ file \in OldFiles
  /\ forms = Load(NewForms, file) /\ can_start = CheckArgs(forms)
  /\ files = << >> /\ enc = NotStarted
  /\ saved = None /\ fresh = TRUE /\ launch = None /\ edits = 0 /\ opens = 1

(***************************************************************************)
(* Edits.  While an encoder runs, LockControls() makes the widgets of the   *)
(* codec, stream and source dialogs read-only; the server dialog it leaves  *)
(* as it is.                                                                *)
(***************************************************************************)
Edit(locked) ==
  /\ forms # None /\ edits < MaxEdits /\ (locked => ~enc.started)
  /\ edits' = edits + 1 /\ fresh' = FALSE
  /\ UNCHANGED <<file, files, enc, saved, launch, opens>>

\* a widget whose change has checkArgs() called
Validated(f) == forms' = f /\ can_start' = CheckArgs(f)
\* and one whose change has not
Unchecked(f) == forms' = f /\ UNCHANGED can_start

EditCodecType == Edit(TRUE) /\ \E t \in ToSet(CodecTypes) :
  Unchecked([forms EXCEPT !.codec = CodecTypeChanged([@ EXCEPT !.type = t])])

EditSamplerate == Edit(TRUE) /\ \E r \in EditedRates \cap ToSet(Samplerates(forms.codec.type)) :
  Unchecked([forms EXCEPT !.codec = CodecSamplerateChanged([@ EXCEPT !.rate = r])])

EditChannels == Edit(TRUE) /\ \E n \in ToSet(Channels) :
  Unchecked([forms EXCEPT !.codec.channels = n])

EditBitrate == Edit(TRUE) /\ \E b \in EditedBits \cap ToSet(Bitrates(forms.codec.type)) :
  Unchecked([forms EXCEPT !.codec.bits = b])

EditServerType == Edit(FALSE) /\ \E t \in ToSet(ServerBox) :
  Unchecked([forms EXCEPT !.server.type = t])

EditLocation == Edit(FALSE) /\ \E l \in Locations :
  Validated([forms EXCEPT !.server.location = l])

EditLogin == Edit(FALSE) /\ \E f \in {"username", "password", "identity"} \cap EditedTexts, t \in TextValues :
  Unchecked([forms EXCEPT !.server[f] = t])

EditScript == Edit(FALSE) /\ \E f \in {"script_up", "script_down"} \cap EditedTexts, t \in TextValues :
  Unchecked([forms EXCEPT !.server[f] = t])

EditCheckBox == Edit(FALSE) /\ \E f \in {"use_identity", "cleanup", "preclean", "verbose"} :
  Unchecked([forms EXCEPT !.server[f] = ~@])

EditSpinBox == Edit(FALSE) /\
  \/ \E n \in EditedNumbers \cap 0 .. MaxSpin : Unchecked([forms EXCEPT !.server.metadata_port = n])
  \/ \E n \in EditedNumbers \cap -1 .. MaxSpin : Unchecked([forms EXCEPT !.server.maxconns = n])

EditSourceType == Edit(TRUE) /\ \E t \in ToSet(SourceBox) :
  Unchecked([forms EXCEPT !.source.type = t])

EditSourceText == Edit(TRUE) /\ \E f \in {"alsa_device", "file_name"}, t \in TextValues :
  Validated([forms EXCEPT !.source[f] = t])

\* the file chosen in a file dialog, and the fields of a JACK source
EditSource == Edit(TRUE) /\
  \/ \E t \in TextValues \ {NoText} : Unchecked([forms EXCEPT !.source.file_name = t])
  \/ \E t \in TextValues : Unchecked([forms EXCEPT !.source.client_name = t])
  \/ \E n \in EditedGains \cap -100 .. 100 : Unchecked([forms EXCEPT !.source.gain = n])

EditStream == Edit(TRUE) /\
  \/ \E f \in EditedStream \cap StreamEnabled(forms.server.type), t \in TextValues :
        Unchecked([forms EXCEPT !.stream.texts[f] = t])
  \/ /\ forms.server.type = "hls"
     /\ \E n \in EditedOffsets \cap -300 .. 300 : Unchecked([forms EXCEPT !.stream.offset = n])

(***************************************************************************)
(* The window: closing it saves the forms (a file of its own, renamed over  *)
(* the old one), a crash does not; opening it loads them into new dialogs.  *)
(* Both end the encoder.                                                    *)
(***************************************************************************)
CloseWindow ==
  /\ forms # None
  /\ file' = Save(forms) /\ saved' = forms
  /\ forms' = None /\ can_start' = FALSE /\ fresh' = FALSE
  /\ enc' = NotStarted /\ launch' = None
  /\ UNCHANGED <<files, edits, opens>>

\* the process of the window crashes or is killed
LoseWindow ==
  /\ forms # None
  /\ forms' = None /\ can_start' = FALSE /\ fresh' = FALSE
  /\ enc' = NotStarted /\ launch' = None
  /\ UNCHANGED <<file, files, saved, edits, opens>>

OpenWindow ==
  /\ forms = None /\ opens < MaxOpens
  /\ forms' = Load(NewForms, file) /\ can_start' = CheckArgs(forms')
  /\ fresh' = TRUE /\ opens' = opens + 1
  /\ UNCHANGED <<file, files, enc, saved, launch, edits>>

(***************************************************************************)
(* Starts.                                                                  *)
(***************************************************************************)
Launch(args, fs, f) ==
  /\ enc' = Start(args, fs)
  /\ files' = FilesLeft(ReadOptions(args), fs)
  /\ launch' = [args |-> args, files |-> fs, forms |-> f]
  /\ fresh' = FALSE
  /\ UNCHANGED <<forms, can_start, file, saved, edits, opens>>

StartEncoding ==
  /\ forms # None /\ can_start /\ ~enc.started
  /\ Launch(MakeArgs(forms), WriteCredentials(forms.server, files), forms)

\* The encoder ends: stopped with the button or from a shell, or by itself.
StopEncoding ==
  /\ enc.started
  /\ enc' = NotStarted /\ launch' = None
  /\ UNCHANGED <<forms, can_start, file, files, saved, fresh, edits, opens>>

\* glasscoder started from a shell, with no window open (and, a bound, when
\* no form was edited)
StartByHand ==
  /\ forms = None /\ ~enc.started /\ edits = 0
  /\ \E args \in HandLines : Launch(args, files, None)

SettingsNext ==
  \/ EditCodecType \/ EditSamplerate \/ EditChannels \/ EditBitrate
  \/ EditServerType \/ EditLocation \/ EditLogin \/ EditScript \/ EditCheckBox \/ EditSpinBox
  \/ EditSourceType \/ EditSourceText \/ EditSource \/ EditStream
  \/ CloseWindow \/ LoseWindow \/ OpenWindow
  \/ StartEncoding \/ StopEncoding \/ StartByHand

SettingsSpec == SettingsInit /\ [][SettingsNext]_settingsVars

(***************************************************************************)
(* Properties.                                                              *)
(***************************************************************************)
Or(text, default) == IF text = NoText THEN default ELSE text

CodecMatches(codec, c) ==
  /\ codec.format = c.type /\ codec.samplerate = c.rate /\ codec.channels = c.channels
  /\ c.type \in {"aacp", "mp2", "mp3"} => codec.bitrate = c.bits
  /\ c.type = "vorbis" => codec.bitrate = 0 /\ codec.quality = 100 * c.bits

StreamField ==
  [name |-> "stream_name", description |-> "stream_description", url |-> "stream_url",
   genre |-> "stream_genre", icq |-> "stream_icq", aim |-> "stream_aim", irc |-> "stream_irc"]

ConnectorMatches(conn, v, m) ==
  /\ conn.server_type = v.type
  /\ [conn.url EXCEPT !.port = v.location.port] = v.location
  /\ conn.server.username = Trim(v.username) /\ conn.server.password = Trim(v.password)
  /\ conn.ssh_identity = IF WithIdentity(v) THEN v.identity ELSE NoText
  /\ conn.server.max_connections = v.maxconns
  /\ conn.no_deletes = ~v.cleanup /\ conn.preclean = v.preclean
  /\ conn.scripts.script_up = v.script_up /\ conn.scripts.script_down = v.script_down
  /\ conn.stream.timestamp_offset = m.offset
  /\ \A f \in StreamTexts : StreamField[f] \in DOMAIN conn.stream.texts =>
                              conn.stream.texts[StreamField[f]] = m.texts[f]

DeviceMatches(d, u) ==
  /\ d.device = u.type
  /\ u.type = "alsa" => d.alsa_device = Or(u.alsa_device, "hw:0")
  /\ u.type = "file" => d.file_name = u.file_name
  /\ u.type = "jack" => /\ d.jack_server_name = u.server_name
                        /\ d.jack_client_name = Or(u.client_name, "glasscoder")
                        /\ d.jack_gain = u.gain

\* An encoder started from the forms works as they show: every field, through
\* the arguments, the credentials file and the options of glasscoder, ends up
\* as the setting it stands for (the Quality of Opus apart, which is given as
\* a bit rate, and the blanks around user and password, which the credentials
\* file loses).
EncoderObeysForms ==
  (launch # None /\ enc.started) =>
    (launch.forms # None =>
       /\ CodecMatches(enc.codec, launch.forms.codec)
       /\ ConnectorMatches(enc.connector, launch.forms.server, launch.forms.stream)
       /\ DeviceMatches(enc.device, launch.forms.source)
       /\ enc.metadata_port = launch.forms.server.metadata_port
       /\ enc.verbose = launch.forms.server.verbose
       /\ enc.meters /\ enc.log_to = "stdout")

\* An encoder refuses the forms that the dialogs accept only for a quality of
\* Vorbis above 1 (the form goes to 10, the option to 1.0) or for a URL whose
\* scheme it does not know.
ValidFormsStart ==
  launch # None =>
    (launch.forms # None =>
       \/ ~CheckArgs(launch.forms)
       \/ launch.forms.codec.type = "vorbis" /\ launch.forms.codec.bits > 1
       \/ /\ launch.forms.server.location.scheme \notin DOMAIN DefaultPort
          /\ launch.forms.server.location.port < 0
       \/ Start(launch.args, launch.files).started)

\* Texts lose the blanks around them, except user and password.
TrimServer(v) ==
  [v EXCEPT !.identity = Trim(@), !.script_up = Trim(@), !.script_down = Trim(@)]
TrimSource(u) ==
  [u EXCEPT !.alsa_device = Trim(@), !.file_name = Trim(@), !.server_name = Trim(@),
            !.client_name = Trim(@)]
TrimStream(m) == [m EXCEPT !.texts = [t \in StreamTexts |-> Trim(@[t])]]
TrimAll(f) ==
  [codec |-> f.codec, server |-> TrimServer(f.server), source |-> TrimSource(f.source),
   stream |-> TrimStream(f.stream)]

\* A window that opens shows what the last window that closed had shown, but for
\* the blanks that are lost, a window lost since then or not.
LoadReturnsWhatWasSaved == (forms # None /\ fresh /\ saved # None) => forms = TrimAll(saved)

OneValueEach(args) ==
  \A i, j \in DOMAIN args : args[i].key = args[j].key => args[i] = args[j]

\* The order of the options on the command line means nothing, but for an
\* option that is given twice: the same options in the opposite order start
\* the same encoder, or none.
OrderDoesNotMatter ==
  (launch # None /\ OneValueEach(launch.args)) =>
    Start(Reverse(launch.args), launch.files) = Start(launch.args, launch.files)

\* A Vorbis encoder started with --audio-quality works at that quality
\* (glasscoder.xml.in:274: "qual can be in the range 0.0 (lowest quality) to
\* 1.0 (highest)").
QualityIsInEffect ==
  (launch # None /\ enc.started) =>
    \A i \in DOMAIN launch.args :
      launch.args[i].key = "--audio-quality" => enc.codec.quality = launch.args[i].value
=============================================================================
