------------------------------- MODULE Manager -------------------------------
(***************************************************************************)
(* The hot swap of routes and proxies: internal/proxy/manager.go           *)
(* (BuildReverseProxy, GetProxy, ServeProxy), route.go (compileRoutes),    *)
(* matchroutes.go (MatchRouter) and the handler of internal/handler.       *)
(*                                                                         *)
(* BuildReverseProxy is called by one goroutine.  It stores the proxies    *)
(* and then the routes; pm.mu is held around both stores, but requests     *)
(* load the two holders without it, routes first and proxies later.        *)
(*                                                                         *)
(* A rule is given by the requests it matches and its specificity; router  *)
(* names are numbered in their string order.  A proxy is known by the      *)
(* generation of its configuration and the name of its service.            *)
(***************************************************************************)
EXTENDS Integers, Sequences, SequencesExt

CONSTANTS
  Services,     \* service names
  Requests,     \* the requests, each handled by a goroutine
  Configs,      \* the HTTPCfg values that reach BuildReverseProxy
  NoRoute,      \* no service name: nothing matched
  MaxBuilds     \* bound on the calls of BuildReverseProxy

\* A router without rule or service, or with a rule that does not parse, is
\* not usable.
Router == [usable : BOOLEAN, matches : SUBSET Requests, specificity : Nat,
           service : Services]

\* An HTTPCfg: its services and its routers by name, two maps of Go.  Routers
\* are not null (DynamicConfig.tla has what happens then).
IsConfig(config) ==
  /\ config.services \subseteq Services
  /\ DOMAIN config.routers \subseteq Nat /\ IsFiniteSet(DOMAIN config.routers)
  /\ \A name \in DOMAIN config.routers : config.routers[name] \in Router

ASSUME ManagerAssumption ==
  /\ \A config \in Configs : IsConfig(config)
  /\ NoRoute \notin Services
  /\ MaxBuilds \in Nat

VARIABLES
  proxyHolder,  \* ProxyHolder: the generation and the names of the proxies
  routerHolder, \* RouterHolder: the generation and the sorted routes
  builder,      \* how far BuildReverseProxy is
  build,        \* newProxies and newRouters of its last call
  history,      \* history[g]: the configuration of generation g (not in the
                \*   code: it says what the generations stand for)
  pc,           \* pc[r]: how far request r is
  since,        \* since[r]: the generation of the routes when r arrived
  route,        \* route[r]: what MatchRouter gave r: generation and service
  proxy         \* proxy[r]: the generation of the proxies r looked into

requestVars == <<pc, since, route, proxy>>
builderVars == <<builder, build, history>>
managerVars == <<proxyHolder, routerHolder, builderVars, requestVars>>

-------------------------------------------------------------------------------
(* compileRoutes                                                            *)

Usable(config) == {n \in DOMAIN config.routers : config.routers[n].usable}

(* Mutant: the least specific rule comes first.                             *)
Before_Ascending(config, m, n) ==
  LET first == config.routers[m]
      second == config.routers[n]
  IN \/ first.specificity < second.specificity
     \/ first.specificity = second.specificity /\ m < n

\* The less function of the sort.
Before(config, m, n) ==
  LET first == config.routers[m]
      second == config.routers[n]
  IN \/ first.specificity > second.specificity
     \/ first.specificity = second.specificity /\ m < n

\* The names in the order of the sort, of which there is one: names differ.
Sorted(config) ==
  CHOOSE names \in SetToSeqs(Usable(config)) :
    \A i, j \in 1 .. Len(names) : i < j => Before(config, names[i], names[j])

compileRoutes(config) ==
  LET names == Sorted(config)
  IN [i \in 1 .. Len(names) |-> config.routers[names[i]]]

-------------------------------------------------------------------------------
(* BuildReverseProxy, by the consumer goroutine.  Nothing that requests can *)
(* see happens between the call and the first store.  newReverseProxy never *)
(* fails, so every service gets a proxy.                                    *)

(* Mutant: the proxies in place are used again and no new ones are made.    *)
BuildReverseProxy_KeepsProxies ==
  /\ builder = "idle" /\ Len(history) < MaxBuilds
  /\ builder' = "built"
  /\ \E config \in Configs :
       /\ history' = Append(history, config)
       /\ build' = [gen      |-> Len(history) + 1,
                    services |-> IF history = <<>>
                                 THEN config.services
                                 ELSE config.services \cap proxyHolder.services,
                    routes   |-> compileRoutes(config)]
  /\ UNCHANGED <<proxyHolder, routerHolder, requestVars>>

BuildReverseProxy ==
  /\ builder = "idle" /\ Len(history) < MaxBuilds
  /\ builder' = "built"
  /\ \E config \in Configs :
       /\ history' = Append(history, config)
       /\ build' = [gen      |-> Len(history) + 1,
                    services |-> config.services,
                    routes   |-> compileRoutes(config)]
  /\ UNCHANGED <<proxyHolder, routerHolder, requestVars>>

(* Mutant: proxies for the services that are there already are not stored.  *)
StoreProxies_OnlyOtherServices ==
  /\ builder = "built"
  /\ builder' = "storing"
  /\ proxyHolder' = IF build.services = proxyHolder.services
                    THEN proxyHolder
                    ELSE [gen |-> build.gen, services |-> build.services]
  /\ UNCHANGED <<routerHolder, build, history, requestVars>>

StoreProxies ==
  /\ builder = "built"
  /\ builder' = "storing"
  /\ proxyHolder' = [gen |-> build.gen, services |-> build.services]
  /\ UNCHANGED <<routerHolder, build, history, requestVars>>

StoreRoutes ==
  /\ builder = "storing"
  /\ builder' = "idle"
  /\ routerHolder' = [gen |-> build.gen, routes |-> build.routes]
  /\ UNCHANGED <<proxyHolder, build, history, requestVars>>

-------------------------------------------------------------------------------
(* A request, through handler.RegisterRoutes.                               *)

Arrive(r) ==
  /\ pc[r] = "new"
  /\ pc' = [pc EXCEPT ![r] = "arrived"]
  /\ since' = [since EXCEPT ![r] = routerHolder.gen]
  /\ UNCHANGED <<proxyHolder, routerHolder, builderVars, route, proxy>>

(* Mutant: the position of the route instead of its service.                *)
FirstMatch_Position(routes, r) ==
  LET Matches(rt) == r \in rt.matches
  IN SelectInSeq(routes, Matches)

(* The service of the first route whose rule matches.                       *)
FirstMatch(routes, r) ==
  LET Matches(rt) == r \in rt.matches
      first == SelectInSeq(routes, Matches)
  IN IF first = 0 THEN NoRoute ELSE routes[first].service

(* Mutant: the routes are those of the time the request came in.            *)
MatchRouter_AsArrived(r) ==
  /\ pc[r] = "arrived"
  /\ LET routes == IF since[r] = 0 THEN <<>> ELSE compileRoutes(history[since[r]])
         service == FirstMatch(routes, r)
     IN /\ route' = [route EXCEPT ![r] = [gen |-> since[r], service |-> service]]
        /\ pc' = [pc EXCEPT ![r] = IF service = NoRoute
                                   THEN "notfound"
                                   ELSE "matched"]
  /\ UNCHANGED <<proxyHolder, routerHolder, builderVars, since, proxy>>

(* RouterHolder is loaded once; without a match the answer is 404.          *)
MatchRouter(r) ==
  /\ pc[r] = "arrived"
  /\ LET service == FirstMatch(routerHolder.routes, r)
     IN /\ route' = [route EXCEPT ![r] = [gen |-> routerHolder.gen,
                                          service |-> service]]
        /\ pc' = [pc EXCEPT ![r] = IF service = NoRoute
                                   THEN "notfound"
                                   ELSE "matched"]
  /\ UNCHANGED <<proxyHolder, routerHolder, builderVars, since, proxy>>

(* GetProxy loads ProxyHolder; a name that is not there is answered by 404. *)
ServeProxy(r) ==
  /\ pc[r] = "matched"
  /\ proxy' = [proxy EXCEPT ![r] = proxyHolder.gen]
  /\ pc' = [pc EXCEPT ![r] = IF route[r].service \in proxyHolder.services
                             THEN "served"
                             ELSE "noservice"]
  /\ UNCHANGED <<proxyHolder, routerHolder, builderVars, since, route>>

-------------------------------------------------------------------------------

ManagerInit ==
  /\ proxyHolder = [gen |-> 0, services |-> {}]
  /\ routerHolder = [gen |-> 0, routes |-> <<>>]
  /\ builder = "idle"
  /\ build = [gen |-> 0, services |-> {}, routes |-> <<>>]
  /\ history = <<>>
  /\ pc = [r \in Requests |-> "new"]
  /\ since = [r \in Requests |-> 0]
  /\ route = [r \in Requests |-> [gen |-> 0, service |-> NoRoute]]
  /\ proxy = [r \in Requests |-> 0]

ManagerNext ==
  \/ BuildReverseProxy \/ StoreProxies \/ StoreRoutes
  \/ \E r \in Requests : Arrive(r) \/ MatchRouter(r) \/ ServeProxy(r)

ManagerSpec == ManagerInit /\ [][ManagerNext]_managerVars

-------------------------------------------------------------------------------

RequestState == {"new", "arrived", "matched", "notfound", "served", "noservice"}

\* The variables range over the values the code gives them.
ManagerTypeOK ==
  /\ proxyHolder \in [gen : Nat, services : SUBSET Services]
  /\ routerHolder \in [gen : Nat, routes : Seq(Router)]
  /\ builder \in {"idle", "built", "storing"}
  /\ build \in [gen : Nat, services : SUBSET Services, routes : Seq(Router)]
  /\ history \in Seq(Configs)
  /\ pc \in [Requests -> RequestState]
  /\ since \in [Requests -> Nat]
  /\ route \in [Requests -> [gen : Nat, service : Services \cup {NoRoute}]]
  /\ proxy \in [Requests -> Nat]

Routed(r) == pc[r] \in {"matched", "notfound", "served", "noservice"}
LookedUp(r) == pc[r] \in {"served", "noservice"}

\* ADR-0007, decisions 3 and 4: a request that arrives after a swap is matched
\* by the new routes or newer ones, and a swap in the middle of a request
\* takes it forward only: its proxy is never older than the routes that chose
\* its service.
RequestsGoForward ==
  \A r \in Requests :
    /\ Routed(r) => since[r] <= route[r].gen
    /\ LookedUp(r) => route[r].gen <= proxy[r]

\* A service that a request was routed to is missing only if the configuration
\* of its routes names a service it does not define, or if a newer
\* configuration took it away in between.  A router and a service that come
\* with the same configuration are never seen the wrong way round.
MissingOnlyIfRemoved ==
  \A r \in Requests : pc[r] = "noservice" =>
    \/ route[r].service \notin history[route[r].gen].services
    \/ /\ route[r].gen < proxy[r]
       /\ route[r].service \notin history[proxy[r]].services

\* The routers of a configuration that match r and can be used, and among them
\* the one that must win: the most specific, by name in a tie.
Candidates(config, r) == {n \in Usable(config) : r \in config.routers[n].matches}
Winner(config, r) ==
  LET Specificity(n) == config.routers[n].specificity
  IN CHOOSE n \in Candidates(config, r) :
       \A m \in Candidates(config, r) :
         /\ Specificity(m) <= Specificity(n)
         /\ Specificity(m) = Specificity(n) => n <= m

\* docs/DYNAMIC_CONFIG.md:49: the most specific matching rule wins; and a
\* router that cannot be used takes nothing away from the others.  What
\* MatchRouter finds in its sorted list is what a search of the configuration
\* itself finds.
MostSpecificWins ==
  \A r \in Requests : Routed(r) /\ route[r].gen > 0 =>
    LET config == history[route[r].gen]
    IN route[r].service =
         IF Candidates(config, r) = {}
         THEN NoRoute
         ELSE config.routers[Winner(config, r)].service

\* What a request gets that is handled by one configuration alone.
Resolved(config, r) ==
  Candidates(config, r) # {}
    /\ config.routers[Winner(config, r)].service \in config.services

\* ADR-0007:14 and 24: the new maps replace the old ones in one step, and no
\* request is dropped during a reload: a request is not refused for want of a
\* service that every configuration in force during its life would have found.
\* The code does not do this: proxies and routes are loaded one by one.
NoRequestDropped ==
  \A r \in Requests : pc[r] = "noservice" =>
    \E g \in since[r] .. proxy[r] : g = 0 \/ ~Resolved(history[g], r)

===============================================================================
