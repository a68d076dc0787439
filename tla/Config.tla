------------------------------- MODULE Config -------------------------------
(***************************************************************************)
(* The command line of glasscoder (config.cpp): the Config constructor as a *)
(* fold over the arguments, which are [key, value] records already split at *)
(* the first "=" (cmdswitch.cpp).  Numbers are integers, or NaN when the    *)
(* text is not one; a quality is in hundredths; a URL is a record of its    *)
(* scheme, its port (-1 when the text has none) and the parts between its   *)
(* slashes; a credentials file is named by such parts too.  The file system *)
(* is a function from the names of the credentials files that exist to what *)
(* they hold.                                                               *)
(***************************************************************************)
EXTENDS Integers, SequencesExt, TLC

CONSTANT NaN                 \* the value of a text that is not a number

Arg(key, value) == [key |-> key, value |-> value]

\* enum Codec::Type, Connector::ServerType, AudioDevice::DeviceType by keyword
Formats == {"aacp", "mp2", "mp3", "vorbis", "pcm16", "opus"}
ServerTypes == {"hls", "icecast2", "shout1", "shout2", "file", "filearchive",
                "icestreamer", "iceout"}
Devices == {"alsa", "asihpi", "file", "jack"}

MaxAudioChannels == 2
Ports == 0 .. 65535
DefaultAudioBitrate == 128
NoQuality == -100
NoText == ""
NoUrl == [scheme |-> NoText, port |-> -1, path |-> << >>]

Defaults ==
  [exited |-> FALSE, audio_atomic_frames |-> FALSE, audio_bitrate |-> 0,
   audio_channels |-> MaxAudioChannels, audio_device |-> "jack",
   audio_format |-> "vorbis", audio_quality |-> NoQuality, audio_samplerate |-> 44100,
   server_exit_on_last |-> FALSE, server_max_connections |-> -1,
   server_username |-> NoText, server_password |-> NoText, credentials_file |-> << >>,
   delete_credentials |-> FALSE, ssh_identity |-> NoText, server_type |-> "icecast2",
   server_script_down |-> NoText, server_script_up |-> NoText, server_start_connections |-> 0,
   server_pipe |-> NoText, server_preclean_publish_point |-> FALSE, server_no_deletes |-> FALSE,
   server_url |-> NoUrl, server_base_url |-> << >>, server_user_agent |-> "GlassCoder",
   stream_aim |-> NoText, stream_genre |-> NoText, stream_icq |-> NoText, stream_irc |-> NoText,
   stream_name |-> NoText, stream_description |-> NoText, stream_url |-> NoText,
   stream_timestamp_offset |-> 0, list_codecs |-> FALSE, list_devices |-> FALSE,
   metadata_port |-> 0, log_string |-> NoText, log_to |-> "stderr", meter_data |-> FALSE,
   dump_headers |-> FALSE, show_verbose |-> FALSE, device_options |-> << >>]

(***************************************************************************)
(* The options.  A flag has no value; a text is taken as it is; a value     *)
(* that is not valid ends the program for a checked option, and leaves the  *)
(* option to the audio device for an offered one.                           *)
(***************************************************************************)
Flag(field) == [kind |-> "flag", field |-> field]
Text(field) == [kind |-> "text", field |-> field]
Checked(field, valid) == [kind |-> "checked", field |-> field, valid |-> valid]
Offered(field, valid) == [kind |-> "offered", field |-> field, valid |-> valid]
Unknown == [kind |-> "unknown"]

StreamOption(key) ==
  CASE key = "--stream-description" -> Text("stream_description")
    [] key = "--stream-genre" -> Text("stream_genre")
    [] key = "--stream-name" -> Text("stream_name")
    [] key = "--stream-url" -> Text("stream_url")
    [] key = "--stream-irc" -> Text("stream_irc")
    [] key = "--stream-icq" -> Text("stream_icq")
    [] key = "--stream-aim" -> Text("stream_aim")
    [] key = "--stream-timestamp-offset" -> Checked("stream_timestamp_offset", Int)
    [] key = "--verbose" -> Flag("show_verbose")
    [] OTHER -> Unknown

ServerOption(key) ==
  CASE key = "--server-exit-on-last" -> Flag("server_exit_on_last")
    [] key = "--server-max-connections" -> Checked("server_max_connections", Nat)
    [] key = "--server-preclean-publish-point" -> Flag("server_preclean_publish_point")
    [] key = "--server-url" -> [kind |-> "url"]
    [] key = "--server-user-agent" -> Text("server_user_agent")
    [] key = "--server-script-down" -> Text("server_script_down")
    [] key = "--server-script-up" -> Text("server_script_up")
    [] key = "--server-start-connections" -> Checked("server_start_connections", Nat)
    [] key = "--server-type" -> Checked("server_type", ServerTypes)
    [] key = "--server-pipe" -> Text("server_pipe")
    [] key = "--server-no-deletes" -> Flag("server_no_deletes")
    [] OTHER -> StreamOption(key)

GeneralOption(key) ==
  CASE key = "--credentials-file" -> Text("credentials_file")
    [] key = "--delete-credentials" -> Flag("delete_credentials")
    [] key = "--ssh-identity" -> Text("ssh_identity")
    [] key = "--dump-headers" -> Flag("dump_headers")
    [] key = "--errors-string" -> Text("log_string")
    [] key = "--errors-to" -> Offered("log_to", {"stderr", "syslog", "stdout"})
    [] key = "--list-codecs" -> Flag("list_codecs")
    [] key = "--list-devices" -> Flag("list_devices")
    [] key = "--metadata-port" -> Checked("metadata_port", Ports)
    [] key = "--meter-data" -> Flag("meter_data")
    [] key = "--server-auth" -> [kind |-> "auth"]
    [] OTHER -> ServerOption(key)

Option(key) ==
  CASE key = "--audio-atomic-frames" -> Flag("audio_atomic_frames")
    [] key = "--audio-bitrate" -> Checked("audio_bitrate", Nat)
    [] key = "--audio-channels" -> Checked("audio_channels", 1 .. MaxAudioChannels)
    [] key = "--audio-device" -> Offered("audio_device", Devices)
    [] key = "--audio-format" -> Checked("audio_format", Formats)
    [] key = "--audio-quality" -> Checked("audio_quality", 0 .. 100)
    [] key = "--audio-samplerate" -> Checked("audio_samplerate", Nat)
    [] OTHER -> GeneralOption(key)

\* --server-auth: the value is split at its colons; two parts are a user and
\* a password, and of any other number only the first is taken
ServerAuth(s, parts) ==
  IF Len(parts) = 2
  THEN [s EXCEPT !.server_username = parts[1], !.server_password = parts[2]]
  ELSE [s EXCEPT !.server_username = parts[1]]

\* --server-url: a scheme that is known gives the port that the text leaves
\* out; the base URL is the text up to its last slash
DefaultPort == [file |-> 0, http |-> 80, https |-> 443, sftp |-> 22, s3 |-> 0]

ServerUrl(s, url) ==
  IF url.port < 0 /\ url.scheme \notin DOMAIN DefaultPort
  THEN [s EXCEPT !.exited = TRUE]
  ELSE [s EXCEPT !.server_url =
                    [url EXCEPT !.port = IF @ < 0 THEN DefaultPort[url.scheme] ELSE @],
                 !.server_base_url = Front(url.path)]

\* (mutant: the option is checked against the device chosen so far)
ToDeviceChecked(s, a) ==
  IF a.key = "--file-name" /\ s.audio_device # "file"
  THEN [s EXCEPT !.exited = TRUE]
  ELSE [s EXCEPT !.device_options = Append(@, a)]

\* what is not taken here is left to the audio device
ToDevice(s, a) == [s EXCEPT !.device_options = Append(@, a)]

ReadOption(s, a) ==
  LET o == Option(a.key) IN
  IF s.exited THEN s
  ELSE CASE o.kind = "unknown" -> ToDevice(s, a)
         [] o.kind = "flag"    -> [s EXCEPT ![o.field] = TRUE]
         [] o.kind = "text"    -> [s EXCEPT ![o.field] = a.value]
         [] o.kind = "checked" -> IF a.value \in o.valid THEN [s EXCEPT ![o.field] = a.value]
                                  ELSE [s EXCEPT !.exited = TRUE]
         [] o.kind = "offered" -> IF a.value \in o.valid THEN [s EXCEPT ![o.field] = a.value]
                                  ELSE ToDevice(s, a)
         [] o.kind = "auth"    -> ServerAuth(s, a.value)
         [] o.kind = "url"     -> ServerUrl(s, a.value)

\* one after the other
ReadOptions(args) ==
  LET s[i \in 0 .. Len(args)] == IF i = 0 THEN Defaults ELSE ReadOption(s[i - 1], args[i])
  IN  s[Len(args)]

(***************************************************************************)
(* After the options: the credentials file, and the checks.                 *)
(***************************************************************************)
\* Profile strips the blanks around what it reads
Trim(text) == IF text = " text" THEN "text" ELSE text

ReadCredentials(s, files) ==
  IF s.exited \/ s.credentials_file = << >> THEN s
  ELSE IF s.credentials_file \notin DOMAIN files THEN [s EXCEPT !.exited = TRUE]
  ELSE LET c == files[s.credentials_file] IN
       [s EXCEPT !.server_username = Trim(c.Username), !.server_password = Trim(c.Password)]

\* The file is unlinked when it has been read, which is after all the options
\* and before the checks: an option that ends the program leaves it there.
FilesLeft(s, files) ==
  IF s.delete_credentials /\ ~s.exited
  THEN [f \in DOMAIN files \ {s.credentials_file} |-> files[f]]
  ELSE files

\* the device an option is for: what stands between its first two dashes
OptionDevice(key) ==
  CASE key = "--alsa-device" -> "alsa"
    [] key = "--file-name" -> "file"
    [] key \in {"--jack-server-name", "--jack-client-name", "--jack-gain"} -> "jack"
    [] key \in {"--asihpi-adapter-index", "--asihpi-input-index", "--asihpi-input-gain",
               "--asihpi-channel-mode", "--asihpi-input-source", "--asihpi-input-type"}
         -> "asihpi"
    [] OTHER -> "none"

RequiresServerUrl(type) == type \notin {"icestreamer", "iceout"}

SanityChecks(s) ==
  IF \/ s.exited
     \/ \E i \in DOMAIN s.device_options :
           OptionDevice(s.device_options[i].key) # s.audio_device
     \/ s.list_codecs \/ s.list_devices
     \/ RequiresServerUrl(s.server_type) /\ s.server_url = NoUrl
     \/ s.audio_quality >= 0 /\ s.audio_bitrate > 0
  THEN [s EXCEPT !.exited = TRUE]
  ELSE IF s.audio_quality < 0 /\ s.audio_bitrate = 0
  THEN [s EXCEPT !.audio_bitrate = DefaultAudioBitrate]
  ELSE s

\* the settings that a command line leaves, with these files
Settings(args, files) ==
  SanityChecks(ReadCredentials(ReadOptions(args), files))

\* Config::audioQuality() returns an unsigned: the fraction is cut off (and a
\* quality that was not given becomes a huge number, used by no codec)
AudioQuality(s) == IF s.audio_quality < 0 THEN NoQuality ELSE 100 * (s.audio_quality \div 100)
=============================================================================
