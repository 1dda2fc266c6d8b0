-------------------------------- MODULE Asena ---------------------------------
(***************************************************************************)
(* The running program, cmd/startasena.go: the dynamic configuration       *)
(* service, the consumer that builds routes and proxies from what it       *)
(* sends, the server with its requests, and the graceful shutdown.  It     *)
(* puts DynamicConfig and Manager together: what was one step of the       *)
(* consumer there, FinishBuild, is the three steps of BuildReverseProxy    *)
(* here, and what was any configuration for the manager comes from the     *)
(* file.                                                                   *)
(***************************************************************************)
EXTENDS DynamicConfig, Manager

CONSTANT HttpOf         \* HttpOf[content]: the HTTPCfg in a content

ASSUME AsenaAssumption ==
  /\ HttpOf \in [Contents -> Configs]
  /\ MaxBuilds > MaxEdits + 1   \* so that it stops no build

VARIABLES
  server,       \* http.Server: "off", "listening", "failed" to listen, "closed"
  reply,        \* reply[r]: "none" yet, "sent", or "stalled" with the upstream
  late,         \* the 5 seconds of the shutdown are over
  written,      \* written[v]: the content of version v of the file (not in the
                \*   code)
  source        \* source[g]: the configuration generation g was built from
                \*   (not in the code)

serverVars == <<server, reply, late>>
asenaVars  == <<dcVars, managerVars, serverVars, written, source>>

-------------------------------------------------------------------------------
(* The dynamic configuration service and its surroundings.                  *)

Deliver ==
  /\ \/ \E l \in Loader : Reload(l) \/ Fire(l)
     \/ StartWatch \/ HandleEvent \/ StopWatch \/ Signal
  /\ UNCHANGED <<managerVars, serverVars, written, source>>

ChangeFile ==
  /\ EditInPlace \/ Replace
  /\ written' = Append(written, disk'.content)
  /\ UNCHANGED <<managerVars, serverVars, source>>

-------------------------------------------------------------------------------
(* The consumer.                                                            *)

TakeUpdate == Take /\ UNCHANGED <<managerVars, serverVars, written, source>>

(* BuildReverseProxy up to its stores, or the panic on the way.             *)
Build ==
  /\ proc = "up" /\ building # NoConfig /\ builder = "idle"
  /\ \/ /\ building.content \in NullRouter
        /\ FinishBuild
        /\ UNCHANGED <<managerVars, source>>
     \/ /\ building.content \notin NullRouter
        /\ BuildReverseProxy
        /\ history' = Append(history, HttpOf[building.content])
        /\ source' = Append(source, building)
        /\ UNCHANGED dcVars
  /\ UNCHANGED <<serverVars, written>>

SwapProxies ==
  /\ proc = "up" /\ StoreProxies
  /\ UNCHANGED <<dcVars, serverVars, written, source>>

(* With the second store the call is over, and the consumer goes back to    *)
(* the channel.                                                             *)
SwapRoutes ==
  /\ StoreRoutes /\ FinishBuild
  /\ UNCHANGED <<serverVars, written, source>>

Consume == TakeUpdate \/ Build \/ SwapProxies \/ SwapRoutes

-------------------------------------------------------------------------------
(* The server.  ServeHTTPS returns before its goroutine listens; a failure  *)
(* to listen is only logged.                                                *)

Listen ==
  /\ proc = "up" /\ watch # "off" /\ server = "off"
  /\ server' \in {"listening", "failed"}
  /\ UNCHANGED <<dcVars, managerVars, reply, late, written, source>>

Accept(r) ==
  /\ proc = "up" /\ server = "listening"
  /\ Arrive(r)
  /\ UNCHANGED <<dcVars, serverVars, written, source>>

Handle(r) ==
  /\ proc = "up"
  /\ MatchRouter(r) \/ ServeProxy(r)
  /\ UNCHANGED <<dcVars, serverVars, written, source>>

(* The upstream answers, or keeps the request longer than any deadline; a   *)
(* request without route or proxy is answered by 404.                       *)
Answer(r) ==
  /\ proc = "up" /\ pc[r] \in {"served", "notfound", "noservice"}
  /\ reply[r] = "none"
  /\ \E outcome \in {"sent"} \cup (IF pc[r] = "served" THEN {"stalled"} ELSE {}) :
       reply' = [reply EXCEPT ![r] = outcome]
  /\ UNCHANGED <<dcVars, managerVars, server, late, written, source>>

-------------------------------------------------------------------------------
(* The end of main.                                                         *)

(* srv.Shutdown closes the listener, also of a server that does not listen  *)
(* yet, and then waits.                                                     *)
Shutdown ==
  /\ proc = "up" /\ watch # "off" /\ signalled /\ server # "closed"
  /\ server' = "closed"
  /\ UNCHANGED <<dcVars, managerVars, reply, late, written, source>>

(* The timeout of shutDownCtx.                                              *)
Expire ==
  /\ proc = "up" /\ server = "closed" /\ ~late
  /\ late' = TRUE
  /\ UNCHANGED <<dcVars, managerVars, server, reply, written, source>>

\* The requests whose connections are active.
Open == {r \in Requests : pc[r] # "new" /\ reply[r] # "sent"}

(* Mutant: main does not wait for srv.Shutdown.                             *)
Quit_AtOnce ==
  /\ server = "closed"
  /\ Exit
  /\ UNCHANGED <<managerVars, serverVars, written, source>>

(* Mutant: srv.Shutdown has no deadline.                                    *)
Quit_NoDeadline ==
  /\ server = "closed" /\ Open = {}
  /\ Exit
  /\ UNCHANGED <<managerVars, serverVars, written, source>>

(* main returns when Shutdown does, and cuts the requests that are left.    *)
Quit ==
  /\ server = "closed" /\ (Open = {} \/ late)
  /\ Exit
  /\ UNCHANGED <<managerVars, serverVars, written, source>>

-------------------------------------------------------------------------------

AsenaInit ==
  /\ DCInit /\ ManagerInit
  /\ server = "off"
  /\ reply = [r \in Requests |-> "none"]
  /\ late = FALSE
  /\ written = <<FirstContent>>
  /\ source = <<>>

AsenaNext ==
  \/ Deliver \/ ChangeFile
  \/ Consume
  \/ Listen \/ \E r \in Requests : Accept(r) \/ Handle(r) \/ Answer(r)
  \/ Shutdown \/ Expire \/ Quit

AsenaSpec == AsenaInit /\ [][AsenaNext]_asenaVars

(* Every goroutine that can go on does, and armed timers expire.  Whether a *)
(* request comes and whether the file changes is not up to the program.     *)
AsenaFairness ==
  /\ \A l \in Loader : WF_asenaVars(Deliver /\ Reload(l))
  /\ WF_asenaVars(Deliver /\ \E l \in Loader : Fire(l))
  /\ WF_asenaVars(Deliver /\ (StartWatch \/ HandleEvent \/ StopWatch))
  /\ WF_asenaVars(Consume)
  /\ WF_asenaVars(Listen)
  /\ \A r \in Requests : WF_asenaVars(Handle(r) \/ Answer(r))
  /\ WF_asenaVars(Shutdown \/ Quit)
  /\ WF_asenaVars(Expire)

AsenaFairSpec == AsenaSpec /\ AsenaFairness

-------------------------------------------------------------------------------

\* The state of the file the routes in use were built from.
Live == IF routerHolder.gen = 0 THEN NoConfig ELSE source[routerHolder.gen]

\* The state of the file a request was routed by.
LiveFor(r) ==
  IF ~Routed(r) THEN -1
  ELSE IF route[r].gen = 0 THEN 0 ELSE Ver(source[route[r].gen])

LC == INSTANCE LiveConfig WITH
        Good     <- {content \in Contents : Loads(content)},
        past     <- written,
        inForce  <- Ver(Live),
        routedBy <- [r \in Requests |-> LiveFor(r)]

\* docs/DYNAMIC_CONFIG.md:6-7, 155 and ADR-0007, decisions 3 and 4: seen from
\* outside, the routes in force are those of one state of the file that loads,
\* they only ever move on to a later one, and a request is routed by those in
\* force at that moment.  This needs reloads not to overlap.
FollowsFile == LC!LiveSpec

\* docs/DYNAMIC_CONFIG.md:6-7, 179: the routes in force catch up with the file
\* once it is left alone, through debounce, channel and both stores, unless a
\* send met a full channel.
RoutesCatchUp ==
  NothingDropped =>
    (FileSettles => <>[](Live # NoConfig /\ Live.content = disk.content))

\* cmd/startasena.go:91-102, the graceful shutdown: once main serves, a signal
\* ends the process however long an upstream takes; and a request that was
\* accepted is answered, unless its upstream stalls, the process panics or the
\* shutdown runs into its timeout.
GracefulShutdown ==
  /\ (signalled ~> proc # "up")
  /\ \A r \in Requests :
       (pc[r] # "new") ~> (reply[r] # "none" \/ proc = "crashed" \/ late)

===============================================================================
