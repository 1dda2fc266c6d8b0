---------------------------- MODULE StickySession -----------------------------
(***************************************************************************)
(* The sticky-session balancer, internal/proxy/balancer/stickysession.go:  *)
(* a cookie with the hash of a url leads back to the server of that url,   *)
(* and everyone else takes a turn.                                         *)
(***************************************************************************)
EXTENDS RoundRobin, FiniteSetsExt

CONSTANTS
  UrlHash,      \* hashServerURL: the 64-bit FNV-1a hash of each url
  NoCookie      \* no sticky cookie

ASSUME StickySessionAssumption ==
  \A url \in DOMAIN UrlHash : UrlHash[url] # NoCookie /\ url # NoUrl

\* Of entries with the same hash the map keeps the last.  The constructor asks
\* every entry for its url, so none may be null: Panics of ClientAffinity.tla.
ByHash(servers) ==
  LET Holders(h) == {s \in DOMAIN servers :
                       servers[s].url # NoUrl /\ UrlHash[servers[s].url] = h}
      urls == {servers[s].url : s \in DOMAIN servers} \ {NoUrl}
  IN [h \in {UrlHash[url] : url \in urls} |-> Max(Holders(h))]

NewStickySession(servers) ==
  [algorithm |-> "sticky-session", servers |-> servers, counter |-> 0,
   byHash |-> ByHash(servers)]

NextStickySession(balancer, cookie) ==
  IF cookie \in DOMAIN balancer.byHash
  THEN Choice(balancer.byHash[cookie], balancer)
  ELSE NextRoundRobin(balancer)

\* SetStickyCookie: the cookie for a server, NoCookie when none is set.
StickyCookie(balancer, server) ==
  IF server = NoServer \/ balancer.servers[server].url = NoUrl
  THEN NoCookie
  ELSE UrlHash[balancer.servers[server].url]

==============================================================================
