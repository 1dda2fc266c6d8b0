---------------------------- MODULE ClientAffinity ----------------------------
(***************************************************************************)
(* Which server a client comes back to: the four balancers that do not     *)
(* look at load, behind the hooks of internal/proxy/manager.go and across  *)
(* reloads.  A reload makes a new balancer for every service and leaves    *)
(* the old ones to the requests that are already under way, so requests    *)
(* and answers of several generations are mixed.  A null entry in a list   *)
(* of servers panics in two of the constructors and so ends the process    *)
(* with all that it had; what the browsers have outlives it.               *)
(*                                                                         *)
(* The clients are browsers (external): they keep one sticky cookie for    *)
(* each host, for its name and path are always the same, send it with      *)
(* every request to the host, and drop it when it expires.  An answer is   *)
(* one step from ModifyResponse to the browser's jar: nothing but the jar  *)
(* depends on it, so the order in which answers arrive is the order that   *)
(* matters.                                                                *)
(***************************************************************************)
EXTENDS ConsistentHash, StickySession

CONSTANTS
  Services,     \* service names
  HostOf,       \* HostOf[service]: the host that is routed to the service
  Clients,      \* the browsers
  AddressOf,    \* AddressOf[c]: the address of client c
  Requests,     \* the requests
  Owner,        \* Owner[r]: the client that sends request r
  Configs,      \* the configurations: a load balancer for each service
  MaxReloads    \* bound on the configurations that come into force

LoadBalancer ==
  [algorithm : {"round-robin", "ip-hash", "sticky-session", "consistent-hash"},
   servers : Seq([url : DOMAIN UrlHash \cup {NoUrl}] \cup {NullServer})]

\* Every url has its hashes, and so has every address but the empty one.
ASSUME ClientAffinityAssumption ==
  /\ Services # {}
  /\ Owner \in [Requests -> Clients]
  /\ AddressOf \in [Clients -> DOMAIN AddressHash \cup {NoAddress}]
  /\ DOMAIN PointHash = DOMAIN UrlHash
  /\ Configs \subseteq [Services -> LoadBalancer]
  /\ \A config \in Configs, service \in Services :
       /\ config[service].servers # <<>>
       /\ Len(config[service].servers) <= CounterModulus
  /\ MaxReloads \in Nat

VARIABLES
  balancers,    \* balancers[g][service]: the balancer made by reload g
  inForce,      \* the last reload of this process, 0 before its first one
  jar,          \* jar[c][host]: the sticky cookie client c has for the host
  req,          \* req[r]: how far request r is, and what it carries
  turns,        \* turns[g][service][s]: how often server s had its turn since
                \*   the counter was last zero (not in the code)
  pinned        \* pinned[c][service]: the url that last answered client c for
                \*   a sticky service, until the cookie expires (not in the code)

caVars == <<balancers, inForce, jar, req, turns, pinned>>

Hosts == {HostOf[service] : service \in Services}

-------------------------------------------------------------------------------

\* The constructors that dereference every entry of the list.
Panics(lb) ==
  /\ lb.algorithm \in {"sticky-session", "consistent-hash"}
  /\ \E s \in DOMAIN lb.servers : lb.servers[s] = NullServer

\* balancer.New: the balancers it may make, if it does not panic.
New(lb) ==
  CASE lb.algorithm = "ip-hash" -> {NewIPHash(lb.servers)}
    [] lb.algorithm = "sticky-session" -> {NewStickySession(lb.servers)}
    [] lb.algorithm = "consistent-hash" -> NewConsistentHash(lb.servers)
    [] OTHER -> {NewRoundRobin(lb.servers)}

\* Balancer.Next for a request with this address and cookie.
Next(balancer, address, cookie) ==
  CASE balancer.algorithm = "ip-hash" -> NextIPHash(balancer, address)
    [] balancer.algorithm = "sticky-session" -> NextStickySession(balancer, cookie)
    [] balancer.algorithm = "consistent-hash" -> NextConsistentHash(balancer, address)
    [] OTHER -> NextRoundRobin(balancer)

\* The balancer that request r was given to.
BalancerOf(r) == balancers[req[r].gen][req[r].service]

\* The url of the server chosen for r, NoUrl when there is none.
UrlOf(r) ==
  IF req[r].server = NoServer THEN NoUrl ELSE UrlAt(BalancerOf(r).servers, req[r].server)

(* BuildReverseProxy, as far as balancers go.                               *)
Reload ==
  /\ Len(balancers) < MaxReloads
  /\ \E config \in Configs :
       /\ \A service \in Services : ~Panics(config[service])
       /\ \E made \in [Services -> UNION {New(config[service]) : service \in Services}] :
            /\ \A service \in Services : made[service] \in New(config[service])
            /\ balancers' = Append(balancers, made)
       /\ turns' = Append(turns, [service \in Services |->
                                    [s \in DOMAIN config[service].servers |-> 0]])
  /\ inForce' = Len(balancers')
  /\ UNCHANGED <<jar, req, pinned>>

(* BuildReverseProxy, where a constructor panics: nothing in the goroutine  *)
(* recovers, so the process ends, and its requests get no answer.  The      *)
(* next process starts without a configuration.                             *)
Panic ==
  /\ \E config \in Configs, service \in Services : Panics(config[service])
  /\ inForce' = 0
  /\ req' = [r \in Requests |->
               IF req[r].at \in {"sent", "admitted", "waiting"}
               THEN [req[r] EXCEPT !.at = "lost", !.gen = 0, !.server = NoServer]
               ELSE req[r]]
  /\ UNCHANGED <<balancers, jar, turns, pinned>>

(* The browser sends r with the cookie it has.                              *)
Send(r, service) ==
  /\ req[r].at = "new"
  /\ req' = [req EXCEPT ![r].at = "sent",
                        ![r].service = service,
                        ![r].cookie = jar[Owner[r]][HostOf[service]],
                        ![r].pinned = pinned[Owner[r]][service]]
  /\ UNCHANGED <<balancers, inForce, jar, turns, pinned>>

(* GetProxy: the proxy, and so the balancer, of the last reload.  Before    *)
(* the first one of a process the answer is 404 (Manager.tla).              *)
ServeProxy(r) ==
  /\ req[r].at = "sent" /\ inForce # 0
  /\ req' = [req EXCEPT ![r].at = "admitted", ![r].gen = inForce]
  /\ UNCHANGED <<balancers, inForce, jar, turns, pinned>>

(* A turn of server s by the counter; the round ends when it wraps.         *)
CountTurn(count, s, counter) ==
  [t \in DOMAIN count |-> (IF counter = 0 THEN 0 ELSE count[t])
                            + (IF t = s THEN 1 ELSE 0)]

(* Rewrite calls Next and notes the server.                                 *)
Rewrite(r) ==
  /\ req[r].at = "admitted"
  /\ LET g == req[r].gen
         service == req[r].service
         choice == Next(BalancerOf(r), AddressOf[Owner[r]], req[r].cookie)
     IN /\ req' = [req EXCEPT ![r].at = "waiting", ![r].server = choice.server]
        /\ balancers' = [balancers EXCEPT ![g][service] = choice.balancer]
        /\ turns' = IF choice.balancer = BalancerOf(r)
                    THEN turns
                    ELSE [turns EXCEPT ![g][service] =
                            CountTurn(@, choice.server, choice.balancer.counter)]
  /\ UNCHANGED <<inForce, jar, pinned>>

(* Mutant: the cookie is made by the balancer that is in force now.         *)
CookieFor_Latest(r) ==
  LET latest == balancers[Len(balancers)][req[r].service]
  IN IF latest.algorithm = "sticky-session" /\ req[r].server \in DOMAIN latest.servers
     THEN StickyCookie(latest, req[r].server)
     ELSE NoCookie

(* applyStickyCookie: only a sticky-session balancer is a                   *)
(* StickyCookieSetter, and it is the one that chose the server.             *)
CookieFor(r) ==
  IF BalancerOf(r).algorithm = "sticky-session"
  THEN StickyCookie(BalancerOf(r), req[r].server)
  ELSE NoCookie

(* ModifyResponse, and the answer in the browser.  A request in absolute    *)
(* form may have an answer also when its server has no url, for it brings a *)
(* target of its own; such an answer has no cookie.                         *)
ModifyResponse(r) ==
  /\ req[r].at = "waiting"
  /\ req' = [req EXCEPT ![r].at = "answered"]
  /\ IF CookieFor(r) = NoCookie
     THEN UNCHANGED <<jar, pinned>>
     ELSE /\ jar' = [jar EXCEPT ![Owner[r]][HostOf[req[r].service]] = CookieFor(r)]
          /\ pinned' = [pinned EXCEPT ![Owner[r]][req[r].service] = UrlOf(r)]
  /\ UNCHANGED <<balancers, inForce, turns>>

(* ErrorHandler sets no cookie.                                             *)
ErrorHandler(r) ==
  /\ req[r].at = "waiting"
  /\ req' = [req EXCEPT ![r].at = "failed"]
  /\ UNCHANGED <<balancers, inForce, jar, turns, pinned>>

(* MaxAge, an hour after the last answer that set the cookie.               *)
Expire(c, host) ==
  /\ jar[c][host] # NoCookie
  /\ jar' = [jar EXCEPT ![c][host] = NoCookie]
  /\ pinned' = [pinned EXCEPT ![c] = [service \in Services |->
                  IF HostOf[service] = host THEN NoUrl ELSE @[service]]]
  /\ UNCHANGED <<balancers, inForce, req, turns>>

-------------------------------------------------------------------------------

CAInit ==
  /\ balancers = <<>>
  /\ inForce = 0
  /\ turns = <<>>
  /\ jar = [c \in Clients |-> [host \in Hosts |-> NoCookie]]
  /\ pinned = [c \in Clients |-> [service \in Services |-> NoUrl]]
  /\ req = [r \in Requests |->
             [at |-> "new", service |-> CHOOSE service \in Services : TRUE,
              cookie |-> NoCookie, pinned |-> NoUrl, gen |-> 0, server |-> NoServer]]

CANext ==
  \/ Reload \/ Panic
  \/ \E r \in Requests :
       \/ \E service \in Services : Send(r, service)
       \/ ServeProxy(r) \/ Rewrite(r) \/ ModifyResponse(r) \/ ErrorHandler(r)
  \/ \E c \in Clients, host \in Hosts : Expire(c, host)

CASpec == CAInit /\ [][CANext]_caVars

-------------------------------------------------------------------------------

Urls(servers) == {UrlAt(servers, s) : s \in DOMAIN servers} \ {NoUrl}

\* The variables range over the values the code gives them; in particular the
\* counters stay below their modulus and a choice is a server of the list.
CATypeOK ==
  /\ \A g \in DOMAIN balancers, service \in Services :
       balancers[g][service].counter \in 0 .. CounterModulus - 1
  /\ inForce \in {0, Len(balancers)}
  /\ jar \in [Clients -> [Hosts -> {UrlHash[url] : url \in DOMAIN UrlHash} \cup {NoCookie}]]
  /\ pinned \in [Clients -> [Services -> DOMAIN UrlHash \cup {NoUrl}]]
  /\ \A r \in Requests :
       /\ req[r].at \in {"new", "sent", "admitted", "waiting", "answered", "failed", "lost"}
       /\ req[r].gen \in 0 .. Len(balancers)
       /\ req[r].server \in IF req[r].gen = 0
                            THEN {NoServer}
                            ELSE {NoServer} \cup DOMAIN BalancerOf(r).servers

Chosen(r) == req[r].at \in {"waiting", "answered", "failed"}
ChosenBy(r, algorithm) == Chosen(r) /\ BalancerOf(r).algorithm = algorithm

\* stickysession.go:17: a client is pinned to the same server across requests.
\* The server that last answered a client gets its next request, if the
\* configuration that serves the request still has a server of that url,
\* whatever reloads, restarts, other clients and late answers came in between.
\* Two services behind one host share the cookie and break this.
PinsToServer ==
  \A r \in Requests :
    /\ ChosenBy(r, "sticky-session")
    /\ req[r].pinned \in Urls(BalancerOf(r).servers)
    => UrlOf(r) = req[r].pinned

\* roundrobin.go:24-25 and stickysession.go:30-33: turns go round the list, so
\* between two wraps of the counter no server of a balancer is two turns ahead
\* of another; a reload starts the count afresh without touching the old one.
TurnsAreEven ==
  \A g \in DOMAIN turns, service \in Services :
    \A s, t \in DOMAIN turns[g][service] :
      turns[g][service][s] <= turns[g][service][t] + 1

\* The point of r's ring that decides belongs to more than one url.
Contested(r) ==
  LET servers == BalancerOf(r).servers
      point == PointFor(DOMAIN BalancerOf(r).ring, AddressHash[AddressOf[Owner[r]]])
  IN \E s, t \in WithUrl(servers) :
       /\ servers[s].url # servers[t].url
       /\ point \in PointsOf(servers, s) \cap PointsOf(servers, t)

\* Two requests of one client with an address for one service, in whatever
\* order and however many reloads apart.
OfOneClient(q, r, algorithm) ==
  /\ Owner[q] = Owner[r] /\ req[q].service = req[r].service
  /\ AddressOf[Owner[r]] # NoAddress
  /\ ChosenBy(q, algorithm) /\ ChosenBy(r, algorithm)

\* iphash.go:13 and consistenthash.go:35-39: a client stays where it is for as
\* long as the algorithm promises.  By ip-hash that is while the list keeps its
\* length.  By consistent-hash a client moves only because the server it had
\* is gone or because the one it gets is new; every other client keeps its
\* server, wherever that stands in the list.  A client whose ring point is that
\* of two servers is excepted: which of them is found is not determined.
SameClientSameServer ==
  \A q, r \in Requests :
    /\ /\ OfOneClient(q, r, "ip-hash")
       /\ Len(BalancerOf(q).servers) = Len(BalancerOf(r).servers)
       => req[q].server = req[r].server
    /\ /\ OfOneClient(q, r, "consistent-hash")
       /\ UrlOf(q) \in Urls(BalancerOf(r).servers)
       /\ UrlOf(r) \in Urls(BalancerOf(q).servers)
       => UrlOf(q) = UrlOf(r) \/ Contested(q)

===============================================================================
