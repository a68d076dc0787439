------------------------------- MODULE Dialogs -------------------------------
(***************************************************************************)
(* The four settings dialogs of GlassGui: what their widgets hold, how a    *)
(* change of one widget changes the others, the arguments they give to      *)
(* glasscoder (makeArgs), and how they are saved to and loaded from the     *)
(* settings file.  A combo box holds the value of its current item; its     *)
(* items are listed in the order in which they are inserted, and the first  *)
(* one inserted is current until another is chosen.  The settings file is a *)
(* function from the tags it has to their values, empty when there is none. *)
(***************************************************************************)
EXTENDS Config

NoFile == << >>

\* ComboBox::setCurrentItemData(): a value that the box lacks changes nothing
SetCurrentItemData(items, current, value) ==
  IF value \in ToSet(items) THEN value ELSE current

\* Profile::stringValue() and intValue()
StringValue(file, tag) == IF tag \in DOMAIN file THEN Trim(file[tag]) ELSE NoText
IntValue(file, tag, default) ==
  IF tag \in DOMAIN file /\ file[tag] \in Int THEN file[tag] ELSE default

\* QSpinBox::setValue(): the nearest value in the range of the box
SpinValue(low, high, value) ==
  IF value < low THEN low ELSE IF value > high THEN high ELSE value

\* one argument, when it is given
When(given, key, value) == IF given THEN <<Arg(key, value)>> ELSE << >>
TextArg(key, text) == When(text # NoText, key, text)

(***************************************************************************)
(* CodecDialog.                                                             *)
(***************************************************************************)
CodecTypes == <<"aacp", "mp2", "mp3", "vorbis", "pcm16", "opus">>
Channels == <<1, 2>>
Samplerates(type) ==
  IF type = "opus" THEN <<48000>> ELSE <<16000, 22050, 24000, 32000, 44100, 48000>>
LayerBitrates == <<8, 16, 24, 32, 40, 48, 56, 64, 80, 96, 112, 128, 144, 160, 192, 224, 256, 320>>
Bitrates(type) ==
  CASE type = "aacp" -> <<16, 24, 32, 40, 48>>
    [] type = "mp2"  -> Append(LayerBitrates, 384)
    [] type = "mp3"  -> LayerBitrates
    [] type \in {"vorbis", "opus"} -> <<0, 1, 2, 3, 4, 5, 6, 7, 8, 9, 10>>
    [] type = "pcm16" -> <<0>>

\* the box "Bit Rate(s)" or "Quality" is filled anew
CodecSamplerateChanged(c) == [c EXCEPT !.bits = Head(Bitrates(c.type))]
\* all the boxes are
CodecTypeChanged(c) ==
  CodecSamplerateChanged([c EXCEPT !.rate = Head(Samplerates(c.type)), !.channels = Head(Channels)])

CodecNew == CodecTypeChanged([type |-> Head(CodecTypes), rate |-> 0, channels |-> 0, bits |-> 0])

\* (mutant: the bit rate is given to every codec)
CodecArgsBoth(c) ==
  <<Arg("--audio-format", c.type), Arg("--audio-samplerate", c.rate),
    Arg("--audio-channels", c.channels)>>
  \o When(c.bits # 0, "--audio-bitrate", c.bits)
  \o When(c.type = "vorbis", "--audio-quality", 100 * c.bits)

CodecArgs(c) ==
  <<Arg("--audio-format", c.type), Arg("--audio-samplerate", c.rate),
    Arg("--audio-channels", c.channels)>>
  \o When(c.type \in {"mp2", "mp3", "aacp", "opus"} /\ c.bits # 0, "--audio-bitrate", c.bits)
  \o When(c.type = "vorbis", "--audio-quality", 100 * c.bits)

\* (mutant: the bit rate is chosen before the sample rate, whose change resets it)
CodecLoadHasty(c, file) ==
  LET type == CodecTypeChanged([c EXCEPT !.type =
                SetCurrentItemData(CodecTypes, @, StringValue(file, "AudioFormat"))])
      bits == [type EXCEPT
                !.channels = SetCurrentItemData(Channels, @, IntValue(file, "AudioChannels", 0)),
                !.bits = SetCurrentItemData(Bitrates(type.type), @, IntValue(file, "AudioBitrate1", 0))]
  IN CodecSamplerateChanged([bits EXCEPT !.rate =
                SetCurrentItemData(Samplerates(type.type), @, IntValue(file, "AudioSamplerate", 0))])

CodecLoad(c, file) ==
  LET type == CodecTypeChanged([c EXCEPT !.type =
                SetCurrentItemData(CodecTypes, @, StringValue(file, "AudioFormat"))])
      rate == CodecSamplerateChanged([type EXCEPT !.rate =
                SetCurrentItemData(Samplerates(type.type), @, IntValue(file, "AudioSamplerate", 0))])
  IN [rate EXCEPT
        !.channels = SetCurrentItemData(Channels, @, IntValue(file, "AudioChannels", 0)),
        !.bits = SetCurrentItemData(Bitrates(type.type), @, IntValue(file, "AudioBitrate1", 0))]

CodecSave(c) ==
  [AudioFormat |-> c.type, AudioSamplerate |-> c.rate, AudioChannels |-> c.channels,
   AudioBitrate1 |-> c.bits]

(***************************************************************************)
(* ServerDialog.                                                            *)
(***************************************************************************)
ServerBox == <<"hls", "icecast2", "shout1", "shout2", "file", "filearchive", "icestreamer", "iceout">>

MaxSpin == 65535

ServerNew ==
  [type |-> Head(ServerBox), location |-> NoUrl, username |-> NoText, password |-> NoText,
   use_identity |-> FALSE, identity |-> NoText, script_down |-> NoText, script_up |-> NoText,
   metadata_port |-> 0, maxconns |-> -1, cleanup |-> FALSE, preclean |-> FALSE,
   verbose |-> FALSE]

WithIdentity(v) == v.use_identity /\ v.location.scheme = "sftp"

\* the name leaves out the scheme
CredentialsFilename(v) == <<"creds", v.location.path>>

ServerValid(v) == v.location # NoUrl
ServerArgs(v) ==
  <<Arg("--server-type", v.type), Arg("--server-url", v.location),
    Arg("--credentials-file", CredentialsFilename(v))>>
  \o When(WithIdentity(v), "--ssh-identity", v.identity)
  \o TextArg("--server-script-down", v.script_down)
  \o TextArg("--server-script-up", v.script_up)
  \o When(v.metadata_port > 0, "--metadata-port", v.metadata_port)
  \o When(v.maxconns >= 0, "--server-max-connections", v.maxconns)
  \o When(~v.cleanup, "--server-no-deletes", NoText)
  \o When(v.preclean, "--server-preclean-publish-point", NoText)
  \o When(v.verbose, "--verbose", NoText)

\* (mutant: an existing file is added to, and its first lines count)
WriteCredentialsAppending(v, files) ==
  [name \in DOMAIN files \cup {CredentialsFilename(v)} |->
     IF name \in DOMAIN files THEN files[name]
     ELSE [Username |-> v.username, Password |-> v.password]]

WriteCredentials(v, files) ==
  [name \in DOMAIN files \cup {CredentialsFilename(v)} |->
     IF name = CredentialsFilename(v)
     THEN [Username |-> v.username, Password |-> v.password]
     ELSE files[name]]

\* user and password are kept in base 64, which has no blanks to strip; an
\* older file has them as they are
ToBase64(text) == <<text>>
FromBase64(code) == code[1]
Secret(file, tag, old) ==
  IF tag \in DOMAIN file THEN FromBase64(file[tag]) ELSE StringValue(file, old)

ServerLoad(v, file) ==
  [type |-> SetCurrentItemData(ServerBox, v.type, StringValue(file, "ServerType")),
   location |-> IF "ServerLocation" \in DOMAIN file THEN file["ServerLocation"] ELSE NoUrl,
   username |-> Secret(file, "ServerUsernameSecret", "ServerUsername"),
   password |-> Secret(file, "ServerPasswordSecret", "ServerPassword"),
   use_identity |-> IntValue(file, "ServerUseIdentity", 0) # 0,
   identity |-> StringValue(file, "ServerSshIdentity"),
   script_down |-> StringValue(file, "ServerScriptDown"),
   script_up |-> StringValue(file, "ServerScriptUp"),
   maxconns |-> SpinValue(-1, MaxSpin, IntValue(file, "ServerMaxConnections", -1)),
   cleanup |-> IntValue(file, "ServerNoDeletes", 1) # 0,
   preclean |-> IntValue(file, "ServerPrecleanPublishPoint", 1) # 0,
   verbose |-> IntValue(file, "VerboseLogging", 0) # 0,
   metadata_port |-> SpinValue(0, MaxSpin, IntValue(file, "MetadataPort", -1))]

Bit(b) == IF b THEN 1 ELSE 0

ServerSave(v) ==
  [ServerType |-> v.type, ServerLocation |-> v.location,
   ServerUsernameSecret |-> ToBase64(v.username),
   ServerPasswordSecret |-> ToBase64(v.password),
   ServerUseIdentity |-> Bit(v.use_identity), ServerSshIdentity |-> v.identity,
   ServerScriptDown |-> v.script_down, ServerScriptUp |-> v.script_up,
   ServerMaxConnections |-> v.maxconns, ServerNoDeletes |-> Bit(v.cleanup),
   ServerPrecleanPublishPoint |-> Bit(v.preclean), MetadataPort |-> v.metadata_port,
   VerboseLogging |-> Bit(v.verbose)]

(***************************************************************************)
(* SourceDialog, as it is built without ASIHPI: that device has no fields.  *)
(***************************************************************************)
SourceBox == <<"alsa", "file", "jack">>

SourceNew ==
  [type |-> Head(SourceBox), alsa_device |-> NoText, file_name |-> NoText, server_name |-> NoText,
   client_name |-> NoText, gain |-> 0]

SourceValid(u) == ~(u.type = "file" /\ u.file_name = NoText)
SourceArgs(u) ==
  <<Arg("--audio-device", u.type)>>
  \o (CASE u.type = "alsa" -> TextArg("--alsa-device", u.alsa_device)
        [] u.type = "file" -> TextArg("--file-name", u.file_name)
        [] u.type = "jack" -> TextArg("--jack-server-name", u.server_name)
                              \o TextArg("--jack-client-name", u.client_name)
                              \o <<Arg("--jack-gain", u.gain)>>)

SourceLoad(u, file) ==
  [type |-> SetCurrentItemData(SourceBox, u.type, StringValue(file, "AudioDevice")),
   alsa_device |-> StringValue(file, "AlsaDevice"), file_name |-> StringValue(file, "FileName"),
   server_name |-> StringValue(file, "JackServerName"),
   client_name |-> StringValue(file, "JackClientName"),
   gain |-> SpinValue(-100, 100, IntValue(file, "JackGain", 0))]

SourceSave(u) ==
  [AudioDevice |-> u.type, AlsaDevice |-> u.alsa_device, FileName |-> u.file_name,
   JackServerName |-> u.server_name, JackClientName |-> u.client_name, JackGain |-> u.gain]

(***************************************************************************)
(* StreamDialog: seven texts and the offset of the HLS clock.               *)
(***************************************************************************)
StreamTag ==
  [name |-> "StreamName", description |-> "StreamDescription", url |-> "StreamUrl",
   genre |-> "StreamGenre", icq |-> "StreamIcq", aim |-> "StreamAim", irc |-> "StreamIrc"]
StreamTexts == DOMAIN StreamTag

StreamNew == [texts |-> [f \in StreamTexts |-> NoText], offset |-> 0]

StreamArgs(m) ==
  TextArg("--stream-name", m.texts.name)
  \o TextArg("--stream-description", m.texts.description)
  \o TextArg("--stream-url", m.texts.url)
  \o TextArg("--stream-genre", m.texts.genre)
  \o TextArg("--stream-icq", m.texts.icq)
  \o TextArg("--stream-aim", m.texts.aim)
  \o TextArg("--stream-irc", m.texts.irc)
  \o When(m.offset # 0, "--stream-timestamp-offset", m.offset)

\* the fields that can be filled in for a type of server
StreamEnabled(type) ==
  CASE type \in {"hls", "file", "filearchive"} -> {}
    [] type = "shout1" -> StreamTexts \ {"description"}
    [] type = "shout2" -> StreamTexts \ {"description", "url"}
    [] type \in {"icecast2", "iceout", "icestreamer"} -> {"name", "description", "url", "genre"}

StreamLoad(m, file) ==
  [texts |-> [f \in StreamTexts |-> StringValue(file, StreamTag[f])],
   offset |-> SpinValue(-300, 300, IntValue(file, "StreamTimestampOffset", 0))]

StreamSave(m) ==
  [StreamName |-> m.texts.name, StreamDescription |-> m.texts.description,
   StreamUrl |-> m.texts.url, StreamGenre |-> m.texts.genre, StreamIcq |-> m.texts.icq,
   StreamAim |-> m.texts.aim, StreamIrc |-> m.texts.irc,
   StreamTimestampOffset |-> m.offset]

(***************************************************************************)
(* All four (MainWidget in glassgui.cpp).                                   *)
(***************************************************************************)
NewForms == [codec |-> CodecNew, server |-> ServerNew, source |-> SourceNew, stream |-> StreamNew]

CheckArgs(f) == ServerValid(f.server) /\ SourceValid(f.source)

MakeArgs(f) ==
  ServerArgs(f.server) \o CodecArgs(f.codec) \o StreamArgs(f.stream) \o SourceArgs(f.source)
  \o <<Arg("--meter-data", NoText), Arg("--errors-to", "stdout")>>

Load(f, file) ==
  [codec |-> CodecLoad(f.codec, file), server |-> ServerLoad(f.server, file),
   source |-> SourceLoad(f.source, file), stream |-> StreamLoad(f.stream, file)]

\* the four sections, which have no tag in common, in one file
Save(f) ==
  LET Sections == {ServerSave(f.server), CodecSave(f.codec), SourceSave(f.source),
                   StreamSave(f.stream)}
  IN  [tag \in UNION {DOMAIN s : s \in Sections} |->
         (CHOOSE s \in Sections : tag \in DOMAIN s)[tag]]
=============================================================================
