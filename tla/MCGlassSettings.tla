--------------------------- MODULE MCGlassSettings ---------------------------
EXTENDS GlassSettings

Url(scheme, port) == [scheme |-> scheme, port |-> port, path |-> <<"host", "live">>]

MCLocations == {NoUrl, Url("http", -1), Url("sftp", -1), Url("gopher", -1), Url("gopher", 70)}

MCGains == {-100}
MCOffsets == {-5}

\* no file, and one of a version that kept the user as it is
MCOldFiles ==
  {NoFile, "ServerUsername" :> " text" @@ "AudioFormat" :> "mp3" @@ "ServerNoDeletes" :> 0 @@
           "ServerLocation" :> Url("http", 8000)}

Server == <<Arg("--server-url", Url("http", -1))>>

MCHandLines ==
  {Server \o <<Arg("--audio-quality", 50)>>,
   Server \o <<Arg("--audio-quality", 100), Arg("--audio-bitrate", 64)>>,
   Server \o <<Arg("--audio-bitrate", NaN)>>,
   Server \o <<Arg("--audio-device", "tape")>>,
   Server \o <<Arg("--server-auth", <<"user", "pass">>), Arg("--delete-credentials", ""),
               Arg("--credentials-file", <<"creds", <<"host", "live">>>>)>>,
   Server \o <<Arg("--server-auth", <<"user", "pa", "ss">>), Arg("--list-codecs", "")>>,
   Server \o <<Arg("--audio-format", "aacp"), Arg("--audio-quality", 100)>>,
   <<Arg("--server-type", "iceout"), Arg("--asihpi-input-gain", 900), Arg("--audio-device", "asihpi")>>,
   <<Arg("--file-name", "text")>>,
   Server \o <<Arg("--audio-bitrate", 64), Arg("--audio-bitrate", 96)>>}
=============================================================================
