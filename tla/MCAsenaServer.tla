---------------------------- MODULE MCAsenaServer -----------------------------
(* Constants for model checking AsenaServer.  tls_files stands for both      *)
(* paths; the built-in ones lead elsewhere, for no files are there.          *)
EXTENDS AsenaServer

CONSTANT unset, malformed

MCOrder == <<"enable_https", "port", "tls_files">>
Settings(https, port, where) ==
  [s \in Range(MCOrder) |->
     CASE s = "enable_https" -> https [] s = "port" -> port [] s = "tls_files" -> where]
Opts(https, http_port, https_port, where) ==
  [o \in {"enable_https", "http_port", "https_port", "tls_files"} |->
     CASE o = "enable_https" -> https
       [] o = "http_port" -> http_port
       [] o = "https_port" -> https_port
       [] o = "tls_files" -> where]

MCDefault == Opts("off", "80", "443", "elsewhere")
MCSaves == {Settings("on", "8080", "files"), Settings("on", unset, unset),
            Settings(unset, "8080", "nowhere"), Settings("on", unset, "nowhere")}
MCFlags == {Opts(unset, unset, unset, unset), Opts(unset, "8000", unset, "files")}

===============================================================================
