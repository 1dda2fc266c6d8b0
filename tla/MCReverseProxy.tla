---------------------------- MODULE MCReverseProxy ----------------------------
(* Constants for model checking ReverseProxy: three servers, of which the    *)
(* second has a url that does not parse and the third none; two requests name *)
(* a host themselves.                                                        *)
EXTENDS ReverseProxy

CONSTANTS r1, r2, r3, r4

MCRequests == {r1, r2, r3, r4}
MCNullServers == {3}
MCBadUrlServers == {2}
MCAbsoluteForm == {r1, r2}
MCNone == {}

===============================================================================
