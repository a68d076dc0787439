----------------------------- MODULE MainObject -----------------------------
(***************************************************************************)
(* What glasscoder makes of its settings when it starts (MainObject in      *)
(* glasscoder.cpp): the audio device, the codec and the server connection,  *)
(* each as the record of the values it is given, and the texts the server   *)
(* is told.  An encoder that does not start is NotStarted.                  *)
(***************************************************************************)
EXTENDS Config

NotStarted == [started |-> FALSE]

(***************************************************************************)
(* Audio devices: processOptions() of each.                                 *)
(***************************************************************************)
AlsaDefaults == [device |-> "alsa", alsa_device |-> "hw:0"]
FileDefaults == [device |-> "file", file_name |-> NoText]
\* gains are in dB; at -100 dB or less the input is muted
JackDefaults ==
  [device |-> "jack", jack_server_name |-> NoText, jack_client_name |-> "glasscoder",
   jack_gain |-> 0]
AsiHpiDefaults ==
  [device |-> "asihpi", adapter |-> 1, input |-> 1, gain |-> 0, mode |-> "normal",
   source |-> "LINEIN", type |-> "LINEIN"]

DeviceDefaults ==
  [alsa |-> AlsaDefaults, file |-> FileDefaults, jack |-> JackDefaults,
   asihpi |-> AsiHpiDefaults]

AlsaOption(key) == IF key = "--alsa-device" THEN Text("alsa_device") ELSE Unknown

FileOption(key) == IF key = "--file-name" THEN Text("file_name") ELSE Unknown

JackOption(key) ==
  CASE key = "--jack-server-name" -> Text("jack_server_name")
    [] key = "--jack-client-name" -> Text("jack_client_name")
    [] key = "--jack-gain" -> Checked("jack_gain", Int)
    [] OTHER -> Unknown

\* the range of the gain is tested with && and refuses nothing
AsiHpiOption(key) ==
  CASE key = "--asihpi-adapter-index" -> Checked("adapter", 1 .. 20)
    [] key = "--asihpi-input-index" -> Checked("input", 1 .. 17)
    [] key = "--asihpi-input-gain" -> Checked("gain", Int)
    [] key = "--asihpi-channel-mode" -> Checked("mode", {"normal", "swap", "left", "right"})
    [] key = "--asihpi-input-source" -> Checked("source", {"LINEIN", "AESEBU", "TUNER"})
    [] key = "--asihpi-input-type" -> Checked("type", {"LINEIN", "AESEBU", "TUNER"})
    [] OTHER -> Unknown

DeviceOption(device, key) ==
  CASE device = "alsa"   -> AlsaOption(key)
    [] device = "file"   -> FileOption(key)
    [] device = "jack"   -> JackOption(key)
    [] device = "asihpi" -> AsiHpiOption(key)

\* one option of a device: NotStarted when it is unknown or not valid
ReadDeviceOption(d, a) ==
  IF d = NotStarted THEN NotStarted
  ELSE LET o == DeviceOption(d.device, a.key) IN
       IF o.kind = "unknown" \/ (o.kind = "checked" /\ a.value \notin o.valid)
       THEN NotStarted
       ELSE [d EXCEPT ![o.field] = a.value]

ProcessOptions(device, options) ==
  LET d[i \in 0 .. Len(options)] ==
        IF i = 0 THEN DeviceDefaults[device] ELSE ReadDeviceOption(d[i - 1], options[i])
  IN  d[Len(options)]

\* a file device without a name waits for one at the keyboard, and nothing starts
StartAudioDevice(s) ==
  LET d == ProcessOptions(s.audio_device, s.device_options)
  IN  IF d = FileDefaults THEN NotStarted ELSE d

(***************************************************************************)
(* The codec: what it is given, and what each encoder library is set to.    *)
(* With no bit rate the libraries work at a variable one, as the quality    *)
(* says on a scale of their own; the Fraunhofer encoder cannot, and that of *)
(* Opus takes five sample rates only.                                       *)
(***************************************************************************)
CodecSettings(s) ==
  [started |-> TRUE, format |-> s.audio_format, channels |-> s.audio_channels,
   samplerate |-> s.audio_samplerate, bitrate |-> s.audio_bitrate, quality |-> AudioQuality(s)]

Vbr(c) == c.bitrate = 0
Variable(c, quality) == [c EXCEPT !.quality = quality]
Constant(c) == [c EXCEPT !.quality = NoQuality]

StartFdk(c) == IF Vbr(c) THEN NotStarted ELSE Constant(c)
StartMpegL2(c) == IF Vbr(c) THEN Variable(c, (c.quality \div 5) - 10) ELSE Constant(c)
StartMpegL3(c) == IF Vbr(c) THEN Variable(c, (9 * (100 - c.quality)) \div 100) ELSE Constant(c)
StartVorbis(c) == IF Vbr(c) THEN Variable(c, c.quality) ELSE Constant(c)
StartOpus(c) ==
  IF c.samplerate \notin {8000, 12000, 16000, 24000, 48000} THEN NotStarted
  ELSE IF Vbr(c) THEN Variable(c, c.quality \div 10) ELSE Constant(c)
StartPcm16(c) == [c EXCEPT !.bitrate = 0, !.quality = NoQuality]

StartCodec(s) ==
  LET c == CodecSettings(s) IN
  CASE c.format = "aacp"   -> StartFdk(c)
    [] c.format = "mp2"    -> StartMpegL2(c)
    [] c.format = "mp3"    -> StartMpegL3(c)
    [] c.format = "vorbis" -> StartVorbis(c)
    [] c.format = "opus"   -> StartOpus(c)
    [] c.format = "pcm16"  -> StartPcm16(c)

(***************************************************************************)
(* The connection to the server, and the texts about the stream that the    *)
(* protocol of that server carries.                                         *)
(***************************************************************************)
IcyTexts(type) ==
  {"stream_name", "stream_genre", "stream_irc", "stream_icq", "stream_aim"}
  \cup (IF type = "shout1" THEN {"stream_url"} ELSE {})
IceTexts == {"stream_name", "stream_description", "stream_genre"}
ServerTexts == {"stream_name", "stream_description", "stream_genre", "stream_url"}

TextsSent(type) ==
  CASE type \in {"shout1", "shout2"} -> IcyTexts(type)
    [] type = "icecast2" -> IceTexts
    [] type \in {"icestreamer", "iceout"} -> ServerTexts
    [] OTHER -> {}

ServerSettings(s) ==
  [exit_on_last |-> s.server_exit_on_last, max_connections |-> s.server_max_connections,
   user_agent |-> s.server_user_agent, username |-> s.server_username,
   password |-> s.server_password, mountpoint |-> s.server_url.path,
   pipe |-> s.server_pipe, start_connections |-> s.server_start_connections]

StreamSettings(s) ==
  [timestamp_offset |-> s.stream_timestamp_offset,
   texts |-> [f \in TextsSent(s.server_type) |-> s[f]]]

ScriptSettings(s) == [script_up |-> s.server_script_up, script_down |-> s.server_script_down]

\* the rest is read from the Config object by the connector itself
StartServerConnection(s) ==
  [server |-> ServerSettings(s), stream |-> StreamSettings(s), scripts |-> ScriptSettings(s),
   server_type |-> s.server_type, url |-> s.server_url, base_url |-> s.server_base_url,
   ssh_identity |-> s.ssh_identity, no_deletes |-> s.server_no_deletes,
   preclean |-> s.server_preclean_publish_point]

\* the MainObject constructor: any part that does not start ends the program
Start(args, files) ==
  LET s == Settings(args, files) IN
  IF s.exited \/ StartAudioDevice(s) = NotStarted \/ StartCodec(s) = NotStarted THEN NotStarted
  ELSE [started |-> TRUE, device |-> StartAudioDevice(s), codec |-> StartCodec(s),
        connector |-> StartServerConnection(s), metadata_port |-> s.metadata_port,
        verbose |-> s.show_verbose, meters |-> s.meter_data, log_to |-> s.log_to]
=============================================================================
