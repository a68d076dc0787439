---------------------------- MODULE MCMetaServer ----------------------------
(* Clients for the metadata server: proper requests of every kind, and the   *)
(* malformed, unsupported and pipelined ones its error paths answer.         *)
EXTENDS MetaServer

Cgi(pass, mode) == Uri("/admin.cgi", pass, mode)
Get(uri, minor) == Request("GET", uri, 1, minor, TRUE)
Post(path)      == Request("POST", Uri(path, FALSE, FALSE), 1, 1, TRUE)
Json(of)        == <<Half(of), Half(of)>>
JsonPost(of)    == <<Post("/json_pad"), Host(TRUE), Length(2), Blank>> \o Json(of)

ProperScripts == {
  <<Get(Cgi(TRUE, TRUE), 0), Blank>>,
  <<Get(Cgi(FALSE, TRUE), 1), Host(TRUE), Blank>>,
  <<Get(Uri("/admin/metadata", FALSE, TRUE), 1), Other, Host(TRUE), Blank>>,
  <<Get(Uri("/other", FALSE, TRUE), 1), Host(TRUE), Blank>>,
  JsonPost("update"),
  JsonPost("other"),
  JsonPost("empty"),
  <<Request("HEAD", Cgi(TRUE, TRUE), 1, 0, TRUE), Blank>>}

OtherScripts == {
  JsonPost("update") \o JsonPost("update"),
  <<Get(Cgi(TRUE, TRUE), 1), Host(FALSE), Blank>>,
  <<Request("GET", Cgi(TRUE, TRUE), 2, 0, TRUE),
    Request("BREW", Cgi(TRUE, TRUE), 1, 0, TRUE), Blank>>,
  <<Request("BREW", Cgi(TRUE, TRUE), 1, 0, TRUE), Host(TRUE), Blank>>,
  <<Request("GET", Cgi(TRUE, TRUE), -1, 0, TRUE), Blank>>,
  <<Post("/json_pad"), Length(-1), Host(TRUE), Blank>> \o Json("update")}

MCScripts == ProperScripts \cup OtherScripts
=============================================================================
