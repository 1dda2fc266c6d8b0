----------------------------- MODULE Asena_proof ------------------------------
(***************************************************************************)
(* Proofs about the hot swap and about the whole program.  First Manager:  *)
(* whatever configurations arrive and however loads and stores of the two  *)
(* holders interleave, a swap takes a request forward only.  Then Asena,   *)
(* which runs the dynamic configuration service and the hot swap as their  *)
(* own modules have them, so what is proved of these holds of it; and it   *)
(* implements LiveConfig.                                                  *)
(***************************************************************************)
EXTENDS Asena, DynamicConfig_proof, FiniteSetTheorems, FunctionTheorems

-------------------------------------------------------------------------------
(* The hot swap of Manager.                                                 *)

\* The types the proofs need: generations are numbers, and the variables of
\* the requests are functions on Requests.
GenTypeOK ==
  /\ routerHolder.gen \in Nat /\ proxyHolder.gen \in Nat /\ build.gen \in Nat
  /\ history \in Seq(Configs)
  /\ pc \in [Requests -> RequestState]
  /\ since \in [Requests -> Nat]
  /\ proxy \in [Requests -> Nat]
  /\ \A r \in Requests : route[r].gen \in Nat

RouteIsFunction == route = [r \in Requests |-> route[r]]

\* Where the builder is in its two stores says how the holders stand to each
\* other and to the configurations that arrived: the proxies are stored first
\* and are at most one generation ahead of the routes.
HoldersInStep ==
  /\ builder = "idle" =>
       /\ routerHolder.gen = Len(history)
       /\ proxyHolder.gen = Len(history)
  /\ builder = "built" =>
       /\ Len(history) > 0
       /\ routerHolder.gen = Len(history) - 1
       /\ proxyHolder.gen = Len(history) - 1
       /\ build.gen = Len(history)
       /\ build.services = history[build.gen].services
  /\ builder = "storing" =>
       /\ Len(history) > 0
       /\ routerHolder.gen = Len(history) - 1
       /\ proxyHolder.gen = Len(history)
       /\ build.gen = Len(history)
  /\ builder \in {"idle", "built", "storing"}

\* The proxies are those of their generation, and before the first one there
\* are neither proxies nor routes.
HoldersAreOfTheirGeneration ==
  /\ proxyHolder.gen > 0 =>
       proxyHolder.services = history[proxyHolder.gen].services
  /\ routerHolder.gen = 0 => routerHolder.routes = <<>>

\* What a request has seen so far is not newer than what is there now.
SeenSoFar(r) ==
  /\ pc[r] # "new" => since[r] <= routerHolder.gen
  /\ Routed(r) => since[r] <= route[r].gen /\ route[r].gen <= routerHolder.gen
  /\ pc[r] \in {"matched", "served", "noservice"} => route[r].gen > 0
  /\ LookedUp(r) => route[r].gen <= proxy[r] /\ proxy[r] <= proxyHolder.gen
  /\ pc[r] = "noservice" => route[r].service \notin history[proxy[r]].services

\* The inductive invariant.
ManagerInv ==
  /\ GenTypeOK
  /\ RouteIsFunction
  /\ HoldersInStep
  /\ HoldersAreOfTheirGeneration
  /\ \A r \in Requests : SeenSoFar(r)

LEMMA ManagerInvInit == ManagerInit => ManagerInv
  BY DEF ManagerInit, ManagerInv, GenTypeOK, RouteIsFunction, HoldersInStep,
         HoldersAreOfTheirGeneration, SeenSoFar, Routed, LookedUp, RequestState

\* The routes are never ahead of the proxies, and both belong to
\* configurations that arrived.
LEMMA ProxiesLead ==
  ASSUME ManagerInv
  PROVE  routerHolder.gen <= proxyHolder.gen /\ proxyHolder.gen <= Len(history)
  BY DEF ManagerInv, GenTypeOK, HoldersInStep

\* What the invariant says of one request, as numbers that can be compared.
LEMMA SeenByRequest ==
  ASSUME ManagerInv, NEW r \in Requests
  PROVE  /\ SeenSoFar(r)
         /\ since[r] \in Nat /\ route[r].gen \in Nat /\ proxy[r] \in Nat
         /\ routerHolder.gen \in Nat /\ proxyHolder.gen \in Nat
  BY DEF ManagerInv, GenTypeOK

-------------------------------------------------------------------------------
(* The builder.                                                             *)

LEMMA BuildKeepsInv ==
  ASSUME ManagerInv, BuildReverseProxy
  PROVE  ManagerInv'
<1>1. PICK config \in Configs :
        /\ history' = Append(history, config)
        /\ build'.gen = Len(history) + 1
        /\ build'.services = config.services
  BY DEF BuildReverseProxy
<1>2. /\ history' \in Seq(Configs)
      /\ Len(history) \in Nat
      /\ Len(history') = Len(history) + 1
      /\ \A g \in 1 .. Len(history) : history'[g] = history[g]
      /\ history'[Len(history) + 1] = config
  BY <1>1 DEF ManagerInv, GenTypeOK
<1>3. GenTypeOK' /\ RouteIsFunction'
  BY <1>1, <1>2 DEF ManagerInv, GenTypeOK, RouteIsFunction, BuildReverseProxy,
                    requestVars
<1>4. HoldersInStep'
  BY <1>1, <1>2 DEF ManagerInv, GenTypeOK, HoldersInStep, BuildReverseProxy
<1>5. HoldersAreOfTheirGeneration'
  BY <1>2 DEF ManagerInv, GenTypeOK, HoldersInStep,
              HoldersAreOfTheirGeneration, BuildReverseProxy
<1>6. ASSUME NEW r \in Requests PROVE SeenSoFar(r)'
  <2>1. pc[r] = "noservice" => proxy[r] \in 1 .. Len(history)
    BY ProxiesLead, SeenByRequest, <1>2 DEF SeenSoFar, LookedUp
  <2>2. /\ UNCHANGED <<routerHolder, proxyHolder>>
        /\ UNCHANGED <<pc, since, route, proxy>>
    BY DEF BuildReverseProxy, requestVars
  <2> QED
    BY <2>1, <2>2, <1>2, SeenByRequest DEF SeenSoFar, Routed, LookedUp
<1> QED
  BY <1>3, <1>4, <1>5, <1>6 DEF ManagerInv

LEMMA StoreProxiesKeepsInv ==
  ASSUME ManagerInv, StoreProxies
  PROVE  ManagerInv'
<1>1. proxyHolder'.gen = build.gen /\ proxyHolder'.services = build.services
  BY DEF StoreProxies
<1>2. GenTypeOK' /\ RouteIsFunction'
  BY <1>1 DEF ManagerInv, GenTypeOK, RouteIsFunction, StoreProxies, requestVars
<1>3. HoldersInStep'
  BY <1>1 DEF ManagerInv, HoldersInStep, StoreProxies
<1>4. HoldersAreOfTheirGeneration'
  BY <1>1 DEF ManagerInv, HoldersInStep, HoldersAreOfTheirGeneration, StoreProxies
<1>5. ASSUME NEW r \in Requests PROVE SeenSoFar(r)'
  <2>1. proxyHolder.gen <= proxyHolder'.gen
    BY <1>1 DEF ManagerInv, GenTypeOK, HoldersInStep, StoreProxies
  <2>2. /\ proxyHolder'.gen \in Nat
        /\ UNCHANGED <<routerHolder, history, pc, since, route, proxy>>
    BY <1>2 DEF GenTypeOK, StoreProxies, requestVars
  <2> QED
    BY <2>1, <2>2, SeenByRequest DEF SeenSoFar, Routed, LookedUp
<1> QED
  BY <1>2, <1>3, <1>4, <1>5 DEF ManagerInv

LEMMA StoreRoutesKeepsInv ==
  ASSUME ManagerInv, StoreRoutes
  PROVE  ManagerInv'
<1>1. routerHolder'.gen = build.gen
  BY DEF StoreRoutes
<1>2. GenTypeOK' /\ RouteIsFunction'
  BY <1>1 DEF ManagerInv, GenTypeOK, RouteIsFunction, StoreRoutes, requestVars
<1>3. HoldersInStep'
  BY <1>1 DEF ManagerInv, HoldersInStep, StoreRoutes
<1>4. HoldersAreOfTheirGeneration'
  BY <1>1 DEF ManagerInv, HoldersInStep, HoldersAreOfTheirGeneration, StoreRoutes
<1>5. ASSUME NEW r \in Requests PROVE SeenSoFar(r)'
  <2>1. routerHolder.gen <= routerHolder'.gen
    BY <1>1 DEF ManagerInv, GenTypeOK, HoldersInStep, StoreRoutes
  <2>2. /\ routerHolder'.gen \in Nat
        /\ UNCHANGED <<proxyHolder, history, pc, since, route, proxy>>
    BY <1>2 DEF GenTypeOK, StoreRoutes, requestVars
  <2> QED
    BY <2>1, <2>2, SeenByRequest DEF SeenSoFar, Routed, LookedUp
<1> QED
  BY <1>2, <1>3, <1>4, <1>5 DEF ManagerInv

-------------------------------------------------------------------------------
(* The requests.                                                            *)

\* With no routes nothing matches.
LEMMA NothingMatchesNoRoutes ==
  ASSUME NEW r
  PROVE  FirstMatch(<<>>, r) = NoRoute
  BY DEF FirstMatch, SelectInSeq

\* A step of one request leaves the holders alone, and the others' state.
LEMMA RequestStepKeepsHolders ==
  ASSUME ManagerInv, UNCHANGED <<proxyHolder, routerHolder, builderVars>>
  PROVE  /\ HoldersInStep'
         /\ HoldersAreOfTheirGeneration'
  BY DEF ManagerInv, HoldersInStep, HoldersAreOfTheirGeneration, builderVars

LEMMA ArriveKeepsInv ==
  ASSUME ManagerInv, NEW r \in Requests, Arrive(r)
  PROVE  ManagerInv'
<1>1. GenTypeOK' /\ RouteIsFunction'
  BY DEF ManagerInv, GenTypeOK, RouteIsFunction, Arrive, RequestState, builderVars
<1>2. ASSUME NEW q \in Requests PROVE SeenSoFar(q)'
  <2>1. /\ UNCHANGED <<routerHolder, proxyHolder, history, route, proxy>>
        /\ q # r => pc'[q] = pc[q] /\ since'[q] = since[q]
        /\ pc'[r] = "arrived" /\ since'[r] = routerHolder.gen
    BY DEF ManagerInv, GenTypeOK, Arrive, builderVars
  <2> QED
    BY <2>1, SeenByRequest DEF SeenSoFar, Routed, LookedUp
<1> QED
  BY <1>1, <1>2, RequestStepKeepsHolders DEF ManagerInv, Arrive

LEMMA MatchRouterKeepsInv ==
  ASSUME ManagerInv, NEW r \in Requests, MatchRouter(r)
  PROVE  ManagerInv'
<1> DEFINE service == FirstMatch(routerHolder.routes, r)
<1>1. /\ route' = [route EXCEPT ![r] = [gen |-> routerHolder.gen,
                                        service |-> service]]
      /\ pc' = [pc EXCEPT ![r] = IF service = NoRoute
                                 THEN "notfound"
                                 ELSE "matched"]
  BY DEF MatchRouter
<1>2. service # NoRoute => routerHolder.gen > 0
  BY NothingMatchesNoRoutes
  DEF ManagerInv, GenTypeOK, HoldersAreOfTheirGeneration
<1> HIDE DEF service
<1>3. RouteIsFunction' /\ \A q \in Requests \ {r} : route'[q] = route[q]
  BY <1>1 DEF ManagerInv, RouteIsFunction
<1>4. route'[r] = [gen |-> routerHolder.gen, service |-> service]
  BY <1>1 DEF ManagerInv, RouteIsFunction
<1>5. GenTypeOK'
  <2>1. ASSUME NEW q \in Requests PROVE route'[q].gen \in Nat
    <3>1. CASE q = r
      <4>1. route'[r].gen = routerHolder.gen
        BY <1>4
      <4> QED
        BY <3>1, <4>1, SeenByRequest
    <3>2. CASE q # r
      BY <3>2, <1>3, SeenByRequest
    <3> QED
      BY <3>1, <3>2
  <2>2. pc' \in [Requests -> RequestState]
    BY <1>1 DEF ManagerInv, GenTypeOK, RequestState
  <2>3. UNCHANGED <<routerHolder, proxyHolder, build, history, since, proxy>>
    BY DEF MatchRouter, builderVars
  <2> QED
    BY <2>1, <2>2, <2>3 DEF ManagerInv, GenTypeOK
<1>6. ASSUME NEW q \in Requests PROVE SeenSoFar(q)'
  <2>1. /\ UNCHANGED <<routerHolder, proxyHolder, history, since, proxy>>
        /\ q # r => pc'[q] = pc[q]
        /\ pc[r] = "arrived"
        /\ pc'[r] = (IF service = NoRoute THEN "notfound" ELSE "matched")
    BY <1>1 DEF ManagerInv, GenTypeOK, MatchRouter, builderVars
  <2> QED
    BY <2>1, <1>2, <1>3, <1>4, SeenByRequest DEF SeenSoFar, Routed, LookedUp
<1> QED
  BY <1>3, <1>5, <1>6, RequestStepKeepsHolders DEF ManagerInv, MatchRouter

LEMMA ServeProxyKeepsInv ==
  ASSUME ManagerInv, NEW r \in Requests, ServeProxy(r)
  PROVE  ManagerInv'
<1>1. GenTypeOK' /\ RouteIsFunction'
  BY DEF ManagerInv, GenTypeOK, RouteIsFunction, ServeProxy, RequestState,
         builderVars
<1>2. ASSUME NEW q \in Requests PROVE SeenSoFar(q)'
  <2>1. CASE q # r
    <3>1. /\ UNCHANGED <<routerHolder, proxyHolder, history, since, route>>
          /\ pc'[q] = pc[q] /\ proxy'[q] = proxy[q]
      BY <2>1 DEF ManagerInv, GenTypeOK, ServeProxy, builderVars
    <3> QED
      BY <3>1, SeenByRequest DEF SeenSoFar, Routed, LookedUp
  <2>2. CASE q = r
    <3>1. /\ route[r].gen > 0
          /\ since[r] <= route[r].gen
          /\ route[r].gen <= routerHolder.gen
      BY DEF ManagerInv, SeenSoFar, Routed, ServeProxy
    <3>2. route[r].gen <= proxyHolder.gen /\ proxyHolder.gen > 0
      BY <3>1, ProxiesLead DEF ManagerInv, GenTypeOK
    <3>3. proxyHolder.services = history[proxyHolder.gen].services
      BY <3>2 DEF ManagerInv, HoldersAreOfTheirGeneration
    <3>4. /\ pc'[r] \in {"served", "noservice"}
          /\ pc'[r] = "noservice" => route[r].service \notin proxyHolder.services
          /\ proxy'[r] = proxyHolder.gen
      BY DEF ManagerInv, GenTypeOK, ServeProxy
    <3>5. UNCHANGED <<proxyHolder, routerHolder, history, since, route>>
      BY DEF ServeProxy, builderVars
    <3> QED
      BY <2>2, <3>1, <3>2, <3>3, <3>4, <3>5, SeenByRequest
      DEF SeenSoFar, Routed, LookedUp
  <2> QED
    BY <2>1, <2>2
<1> QED
  BY <1>1, <1>2, RequestStepKeepsHolders DEF ManagerInv, ServeProxy

-------------------------------------------------------------------------------

LEMMA ManagerInvStep == ManagerInv /\ [ManagerNext]_managerVars => ManagerInv'
<1>1. ManagerInv /\ UNCHANGED managerVars => ManagerInv'
  BY DEF ManagerInv, GenTypeOK, RouteIsFunction, HoldersInStep,
         HoldersAreOfTheirGeneration, SeenSoFar, Routed, LookedUp, managerVars, builderVars, requestVars
<1> QED
  BY <1>1, BuildKeepsInv, StoreProxiesKeepsInv, StoreRoutesKeepsInv,
     ArriveKeepsInv, MatchRouterKeepsInv, ServeProxyKeepsInv
  DEF ManagerNext

\* In every state of every execution the holders and the requests are as
\* ManagerInv says.
THEOREM ManagerInvariant == ManagerSpec => []ManagerInv
  BY ManagerInvInit, ManagerInvStep, PTL DEF ManagerSpec

\* For any configurations and any requests: a request that arrives after a
\* swap is matched by the new routes or newer ones, and its proxy is never
\* older than the routes that chose its service.
THEOREM RequestsAlwaysGoForward == ManagerSpec => []RequestsGoForward
<1>1. ManagerInv => RequestsGoForward
  BY DEF ManagerInv, SeenSoFar, RequestsGoForward
<1> QED
  BY <1>1, ManagerInvariant, PTL

\* For any configurations and any requests: a request that was routed to a
\* service and does not find it was routed by a configuration that does not
\* define it, or a newer configuration removed it in between.
THEOREM ServicesMissingOnlyIfRemoved == ManagerSpec => []MissingOnlyIfRemoved
<1>1. ManagerInv => MissingOnlyIfRemoved
  <2> SUFFICES ASSUME ManagerInv, NEW r \in Requests, pc[r] = "noservice",
                      route[r].service \in history[route[r].gen].services
               PROVE  /\ route[r].gen < proxy[r]
                      /\ route[r].service \notin history[proxy[r]].services
    BY DEF MissingOnlyIfRemoved
  <2>1. /\ route[r].gen <= proxy[r]
        /\ route[r].service \notin history[proxy[r]].services
    BY SeenByRequest DEF SeenSoFar, LookedUp
  <2>2. route[r].gen # proxy[r]
    BY <2>1
  <2> QED
    BY <2>1, <2>2, SeenByRequest
<1> QED
  BY <1>1, ManagerInvariant, PTL

-------------------------------------------------------------------------------
(* The sort of compileRoutes.                                               *)

\* The less function orders the usable routers of a configuration: names differ.
LEMMA BeforeIsStrictOrder ==
  ASSUME NEW config, IsConfig(config)
  PROVE  /\ \A n \in Usable(config) : ~Before(config, n, n)
         /\ \A m, n \in Usable(config) :
              m # n => Before(config, m, n) \/ Before(config, n, m)
         /\ \A l, m, n \in Usable(config) :
              Before(config, l, m) /\ Before(config, m, n) => Before(config, l, n)
<1>1. \A n \in Usable(config) : n \in Nat /\ config.routers[n].specificity \in Nat
  BY DEF IsConfig, Usable, Router
<1> QED
  BY <1>1 DEF Before

\* The routers that come before n, and n: there are as many as the number of
\* its place in the sorted list.
UpTo(config, n) == {m \in Usable(config) : m = n \/ Before(config, m, n)}
Place(config) == [n \in Usable(config) |-> Cardinality(UpTo(config, n))]

LEMMA UsableIsFinite ==
  ASSUME NEW config, IsConfig(config)
  PROVE  IsFiniteSet(Usable(config)) /\ Cardinality(Usable(config)) \in Nat
<1>1. Usable(config) \in SUBSET DOMAIN config.routers
  BY DEF Usable
<1> QED
  BY <1>1, FS_Subset, FS_CardinalityType DEF IsConfig

LEMMA PlaceRespectsBefore ==
  ASSUME NEW config, IsConfig(config),
         NEW m \in Usable(config), NEW n \in Usable(config), Before(config, m, n)
  PROVE  Place(config)[m] < Place(config)[n]
<1>1. UpTo(config, m) \subseteq UpTo(config, n) /\ n \notin UpTo(config, m)
  BY BeforeIsStrictOrder DEF UpTo
<1>2. UpTo(config, n) \in SUBSET Usable(config)
  BY DEF UpTo
<1>3. IsFiniteSet(UpTo(config, n))
  BY <1>2, UsableIsFinite, FS_Subset
<1>4. /\ IsFiniteSet(UpTo(config, m))
      /\ Cardinality(UpTo(config, m)) <= Cardinality(UpTo(config, n))
      /\ Cardinality(UpTo(config, m)) # Cardinality(UpTo(config, n))
  BY <1>1, <1>3, FS_Subset DEF UpTo
<1>5. Cardinality(UpTo(config, m)) \in Nat /\ Cardinality(UpTo(config, n)) \in Nat
  BY <1>3, <1>4, FS_CardinalityType
<1> QED
  BY <1>4, <1>5 DEF Place

LEMMA PlaceIsBijection ==
  ASSUME NEW config, IsConfig(config)
  PROVE  Place(config) \in Bijection(Usable(config), 1 .. Cardinality(Usable(config)))
<1> DEFINE N == Cardinality(Usable(config))
<1>1. ASSUME NEW n \in Usable(config) PROVE Place(config)[n] \in 1 .. N
  <2>1. UpTo(config, n) \in SUBSET Usable(config) /\ n \in UpTo(config, n)
    BY DEF UpTo
  <2>2. IsFiniteSet(UpTo(config, n)) /\ Cardinality(UpTo(config, n)) <= N
    BY <2>1, UsableIsFinite, FS_Subset
  <2>3. Cardinality(UpTo(config, n)) \in Nat /\ Cardinality(UpTo(config, n)) # 0
    BY <2>1, <2>2, FS_EmptySet, FS_CardinalityType
  <2> QED
    BY <2>2, <2>3, UsableIsFinite DEF Place
<1>2. Place(config) \in [Usable(config) -> 1 .. N]
  BY <1>1 DEF Place
<1>3. ASSUME NEW m \in Usable(config), NEW n \in Usable(config),
             Place(config)[m] = Place(config)[n]
      PROVE  m = n
  <2>1. ~Before(config, m, n) /\ ~Before(config, n, m)
    BY <1>1, <1>3, PlaceRespectsBefore
  <2> QED
    BY <2>1, BeforeIsStrictOrder
<1>4. Place(config) \in Injection(Usable(config), 1 .. N)
  BY <1>2, <1>3, Fun_IsInj
<1>5. IsFiniteSet(1 .. N) /\ Cardinality(1 .. N) = N
  BY UsableIsFinite, FS_Interval
<1>6. Place(config) \in Surjection(Usable(config), 1 .. N)
  BY <1>4, <1>5, FS_Injection
<1> QED
  BY <1>4, <1>6, Fun_IsBij

\* What the sort returns: every usable router once, each before those that its
\* less function puts after it.
LEMMA SortedIsSorted ==
  ASSUME NEW config, IsConfig(config)
  PROVE  /\ Sorted(config) \in Seq(Usable(config))
         /\ \A n \in Usable(config) :
              \E i \in 1 .. Len(Sorted(config)) : Sorted(config)[i] = n
         /\ \A i, j \in 1 .. Len(Sorted(config)) :
              i < j => Before(config, Sorted(config)[i], Sorted(config)[j])
<1> DEFINE N == Cardinality(Usable(config))
           Ordered(names) == \A i, j \in 1 .. Len(names) :
                                i < j => Before(config, names[i], names[j])
           atPlace == [i \in 1 .. N |->
                         CHOOSE n \in Usable(config) : Place(config)[n] = i]
<1>1. /\ Place(config) \in [Usable(config) -> 1 .. N]
      /\ \A i \in 1 .. N : \E n \in Usable(config) : Place(config)[n] = i
  BY PlaceIsBijection DEF Bijection, Surjection
<1>2. \A i \in 1 .. N : atPlace[i] \in Usable(config) /\ Place(config)[atPlace[i]] = i
  BY <1>1
<1>3. N \in Nat
  BY UsableIsFinite
<1> HIDE DEF atPlace, N
<1>4. DOMAIN atPlace = 1 .. N /\ atPlace \in [1 .. N -> Usable(config)]
  BY <1>2 DEF atPlace
<1>5. Len(atPlace) = N
  BY <1>3, <1>4
<1>6. Ordered(atPlace)
  <2> SUFFICES ASSUME NEW i \in 1 .. N, NEW j \in 1 .. N, i < j
               PROVE  Before(config, atPlace[i], atPlace[j])
    BY <1>5
  <2>1. atPlace[i] # atPlace[j]
    BY <1>2
  <2>2. ~Before(config, atPlace[j], atPlace[i])
    BY <1>2, PlaceRespectsBefore
  <2> QED
    BY <1>2, <2>1, <2>2, BeforeIsStrictOrder
<1>7. atPlace \in SetToSeqs(Usable(config))
  BY <1>2, <1>4 DEF SetToSeqs, N
<1>8. Sorted(config) \in SetToSeqs(Usable(config)) /\ Ordered(Sorted(config))
  BY <1>6, <1>7 DEF Sorted
<1>9. /\ Sorted(config) \in [1 .. N -> Usable(config)]
      /\ \A i, j \in 1 .. N : i # j => Sorted(config)[i] # Sorted(config)[j]
  BY <1>8 DEF SetToSeqs, N
<1>10. Sorted(config) \in Seq(Usable(config)) /\ Len(Sorted(config)) = N
  BY <1>3, <1>9
<1>11. Sorted(config) \in Injection(1 .. N, Usable(config))
  BY <1>9, Fun_IsInj
<1>12. Sorted(config) \in Surjection(1 .. N, Usable(config))
  BY <1>3, <1>11, UsableIsFinite, FS_Injection, FS_Interval DEF N
<1>13. \A n \in Usable(config) : \E i \in 1 .. N : Sorted(config)[i] = n
  BY <1>12 DEF Surjection
<1> QED
  BY <1>8, <1>10, <1>13
-------------------------------------------------------------------------------
(* The search of MatchRouter.                                               *)

\* The positions of a list that satisfy a condition have a first one.
LEMMA FirstPosition ==
  ASSUME NEW I \in SUBSET Nat, I # {}
  PROVE  Min(I) \in I /\ \A i \in I : Min(I) <= i
<1> DEFINE R == {p \in Nat \X Nat : p[1] < p[2]}
<1>1. IsWellFoundedOn(R, Nat)
  BY NatLessThanWellFounded, Zenon DEF OpToRel
<1>2. \E x \in I : \A y \in I : <<y, x>> \notin R
  <2> HIDE DEF R
  <2> QED
    BY <1>1, WFMin
<1>3. \A x, y \in I : <<y, x>> \notin R => x <= y
  OBVIOUS
<1>4. \E x \in I : \A y \in I : x <= y
  <2> HIDE DEF R
  <2> QED
    BY <1>2, <1>3
<1> QED
  BY <1>4 DEF Min

\* What MatchRouter finds in a list: the first route that matches.
LEMMA FirstMatchIs ==
  ASSUME NEW routes \in Seq(Router), NEW r
  PROVE  \/ /\ \A i \in 1 .. Len(routes) : r \notin routes[i].matches
            /\ FirstMatch(routes, r) = NoRoute
         \/ \E i \in 1 .. Len(routes) :
              /\ r \in routes[i].matches
              /\ \A j \in 1 .. (i - 1) : r \notin routes[j].matches
              /\ FirstMatch(routes, r) = routes[i].service
<1> DEFINE I == {i \in 1 .. Len(routes) : r \in routes[i].matches}
           first == IF I # {} THEN Min(I) ELSE 0
<1>1. FirstMatch(routes, r) = IF first = 0 THEN NoRoute ELSE routes[first].service
  BY DEF FirstMatch, SelectInSeq
<1>2. CASE I = {}
  BY <1>1, <1>2
<1>3. CASE I # {}
  <2>1. I \in SUBSET Nat
    OBVIOUS
  <2>2. Min(I) \in I /\ \A i \in I : Min(I) <= i
    BY <1>3, <2>1, FirstPosition
  <2>3. Min(I) # 0 /\ FirstMatch(routes, r) = routes[Min(I)].service
    BY <1>1, <1>3, <2>2
  <2>4. \A j \in 1 .. (Min(I) - 1) : r \notin routes[j].matches
    BY <2>2
  <2> QED
    BY <2>2, <2>3, <2>4
<1> QED
  BY <1>2, <1>3

\* The compiled routes are routers, in the order of the names.
LEMMA CompiledRoutes ==
  ASSUME NEW config, IsConfig(config)
  PROVE  /\ compileRoutes(config) \in Seq(Router)
         /\ Len(compileRoutes(config)) = Len(Sorted(config))
         /\ \A i \in 1 .. Len(Sorted(config)) :
              compileRoutes(config)[i] = config.routers[Sorted(config)[i]]
<1>1. Sorted(config) \in Seq(Usable(config)) /\ Len(Sorted(config)) \in Nat
  BY SortedIsSorted
<1>2. \A i \in 1 .. Len(Sorted(config)) : config.routers[Sorted(config)[i]] \in Router
  BY <1>1 DEF IsConfig, Usable
<1> QED
  BY <1>1, <1>2 DEF compileRoutes

\* The first match in a list of routers that is sorted by the less function of
\* compileRoutes is the one that must win.
THEOREM FirstMatchWins ==
  ASSUME NEW config, IsConfig(config), NEW r \in Requests,
         NEW names \in Seq(Usable(config)),
         \A n \in Usable(config) : \E i \in 1 .. Len(names) : names[i] = n,
         \A i, j \in 1 .. Len(names) : i < j => Before(config, names[i], names[j]),
         NEW i \in 1 .. Len(names),
         r \in config.routers[names[i]].matches,
         \A j \in 1 .. (i - 1) : r \notin config.routers[names[j]].matches
  PROVE  /\ names[i] \in Candidates(config, r)
         /\ \A m \in Candidates(config, r) \ {names[i]} : Before(config, names[i], m)
<1>1. names[i] \in Candidates(config, r)
  BY DEF Candidates
<1>2. ASSUME NEW m \in Candidates(config, r) \ {names[i]}
      PROVE  Before(config, names[i], m)
  <2>1. PICK j \in 1 .. Len(names) : names[j] = m
    BY DEF Candidates
  <2>2. j # i /\ ~(j \in 1 .. (i - 1))
    BY <2>1 DEF Candidates
  <2>3. i < j
    BY <2>2
  <2> QED
    BY <2>1, <2>3
<1> QED
  BY <1>1, <1>2

\* A candidate that comes before all others is the winner, of which there is one.
LEMMA WinnerIsFirst ==
  ASSUME NEW config, IsConfig(config), NEW r \in Requests,
         NEW n \in Candidates(config, r),
         \A m \in Candidates(config, r) \ {n} : Before(config, n, m)
  PROVE  Winner(config, r) = n
<1> DEFINE Wins(k) == \A m \in Candidates(config, r) :
             /\ config.routers[m].specificity <= config.routers[k].specificity
             /\ config.routers[m].specificity = config.routers[k].specificity => k <= m
<1>1. \A m \in Candidates(config, r) : m \in Nat /\ config.routers[m].specificity \in Nat
  BY DEF Candidates, IsConfig, Usable, Router
<1>2. Wins(n)
  BY <1>1 DEF Before
<1>3. ASSUME NEW k \in Candidates(config, r), Wins(k) PROVE k = n
  BY <1>1, <1>2, <1>3
<1>4. Winner(config, r) = CHOOSE k \in Candidates(config, r) : Wins(k)
  BY DEF Winner
<1> HIDE DEF Wins
<1> QED
  BY <1>2, <1>3, <1>4

\* The service that a configuration gives a request: that of the winner.
ServiceOf(config, r) ==
  IF Candidates(config, r) = {}
  THEN NoRoute
  ELSE config.routers[Winner(config, r)].service

\* Searching the sorted list finds what a search of the configuration finds.
LEMMA CompiledRoutesDecide ==
  ASSUME NEW config, IsConfig(config), NEW r \in Requests
  PROVE  FirstMatch(compileRoutes(config), r) = ServiceOf(config, r)
<1> DEFINE names == Sorted(config)
           routes == compileRoutes(config)
<1>1. /\ names \in Seq(Usable(config))
      /\ \A n \in Usable(config) : \E i \in 1 .. Len(names) : names[i] = n
      /\ \A i, j \in 1 .. Len(names) : i < j => Before(config, names[i], names[j])
  BY SortedIsSorted
<1>2. /\ routes \in Seq(Router) /\ Len(routes) = Len(names)
      /\ \A i \in 1 .. Len(names) : routes[i] = config.routers[names[i]]
  BY CompiledRoutes
<1> HIDE DEF names, routes
<1>3. CASE /\ \A i \in 1 .. Len(routes) : r \notin routes[i].matches
           /\ FirstMatch(routes, r) = NoRoute
  <2>1. Candidates(config, r) = {}
    BY <1>1, <1>2, <1>3 DEF Candidates
  <2> QED
    BY <1>3, <2>1 DEF ServiceOf, routes
<1>4. ASSUME NEW i \in 1 .. Len(routes),
             r \in routes[i].matches,
             \A j \in 1 .. (i - 1) : r \notin routes[j].matches,
             FirstMatch(routes, r) = routes[i].service
      PROVE  FirstMatch(routes, r) = ServiceOf(config, r)
  <2>1. \A j \in 1 .. (i - 1) : r \notin config.routers[names[j]].matches
    BY <1>1, <1>2, <1>4
  <2>2. /\ names[i] \in Candidates(config, r)
        /\ \A m \in Candidates(config, r) \ {names[i]} : Before(config, names[i], m)
    BY <1>1, <1>2, <1>4, <2>1, FirstMatchWins
  <2>3. Winner(config, r) = names[i]
    BY <2>2, WinnerIsFirst
  <2> QED
    BY <1>2, <1>4, <2>2, <2>3 DEF ServiceOf
<1> QED
  BY <1>2, <1>3, <1>4, FirstMatchIs DEF routes
-------------------------------------------------------------------------------
(* The routes.                                                              *)

\* The routes that are about to be stored, and those that are in place, are
\* those of their generation.
RoutesAreOfTheirGeneration ==
  /\ builder # "idle" => build.routes = compileRoutes(history[build.gen])
  /\ routerHolder.gen > 0 =>
       routerHolder.routes = compileRoutes(history[routerHolder.gen])

\* The service of a request was found in the routes of its generation.
FoundInItsRoutes(r) ==
  Routed(r) /\ route[r].gen > 0 =>
    route[r].service = FirstMatch(compileRoutes(history[route[r].gen]), r)

\* With ManagerInv, an inductive invariant.
RoutesInv ==
  /\ ManagerTypeOK
  /\ RoutesAreOfTheirGeneration
  /\ \A r \in Requests : FoundInItsRoutes(r)

LEMMA RoutesInvInit == ManagerInit => RoutesInv
<1> SUFFICES ASSUME ManagerInit PROVE RoutesInv
  OBVIOUS
<1>1. ManagerTypeOK
  BY DEF ManagerInit, ManagerTypeOK, RequestState
<1> QED
  BY <1>1 DEF ManagerInit, RoutesInv, RoutesAreOfTheirGeneration, FoundInItsRoutes,
              Routed

\* Whatever the routes, the search gives a service or none.
LEMMA FirstMatchType ==
  ASSUME NEW routes \in Seq(Router), NEW r
  PROVE  FirstMatch(routes, r) \in Services \cup {NoRoute}
<1>1. \A i \in 1 .. Len(routes) : routes[i] \in Router
  OBVIOUS
<1>2. \A i \in 1 .. Len(routes) : routes[i].service \in Services
  BY <1>1 DEF Router
<1> QED
  BY <1>2, FirstMatchIs

LEMMA BuildKeepsRoutesInv ==
  ASSUME ManagerInv, RoutesInv, BuildReverseProxy
  PROVE  RoutesInv'
<1>1. PICK config \in Configs :
        /\ history' = Append(history, config)
        /\ build' = [gen      |-> Len(history) + 1,
                     services |-> config.services,
                     routes   |-> compileRoutes(config)]
  BY DEF BuildReverseProxy
<1>2. /\ builder' = "built"
      /\ UNCHANGED <<proxyHolder, routerHolder, pc, since, route, proxy>>
  BY DEF BuildReverseProxy, requestVars
<1>3. /\ history' \in Seq(Configs)
      /\ Len(history) \in Nat
      /\ \A g \in 1 .. Len(history) : history'[g] = history[g]
      /\ history'[Len(history) + 1] = config
  BY <1>1 DEF RoutesInv, ManagerTypeOK
<1>4. IsConfig(config)
  BY ManagerAssumption
<1>5. build' \in [gen : Nat, services : SUBSET Services, routes : Seq(Router)]
  <2>1. compileRoutes(config) \in Seq(Router) /\ config.services \in SUBSET Services
    BY <1>4, CompiledRoutes DEF IsConfig
  <2> QED
    BY <1>1, <1>3, <2>1
<1>6. ManagerTypeOK'
  BY <1>2, <1>3, <1>5 DEF RoutesInv, ManagerTypeOK
<1>7. RoutesAreOfTheirGeneration'
  <2>1. build'.gen = Len(history) + 1 /\ build'.routes = compileRoutes(config)
    BY <1>1
  <2>2. routerHolder.gen \in Nat /\ routerHolder.gen <= Len(history)
    BY ProxiesLead DEF ManagerInv, GenTypeOK
  <2> QED
    BY <1>2, <1>3, <2>1, <2>2 DEF RoutesInv, RoutesAreOfTheirGeneration
<1>8. ASSUME NEW r \in Requests PROVE FoundInItsRoutes(r)'
  <2>1. Routed(r) => route[r].gen <= Len(history)
    BY SeenByRequest, ProxiesLead, <1>3 DEF SeenSoFar
  <2>2. route[r].gen \in Nat
    BY SeenByRequest
  <2> QED
    BY <1>2, <1>3, <2>1, <2>2 DEF RoutesInv, FoundInItsRoutes, Routed
<1> QED
  BY <1>6, <1>7, <1>8 DEF RoutesInv

LEMMA StoresKeepRoutesInv ==
  ASSUME ManagerInv, RoutesInv, StoreProxies \/ StoreRoutes
  PROVE  RoutesInv'
<1>1. ManagerTypeOK'
  BY DEF RoutesInv, ManagerTypeOK, StoreProxies, StoreRoutes, requestVars
<1>2. RoutesAreOfTheirGeneration'
  <2>1. CASE StoreProxies
    BY <2>1 DEF RoutesInv, RoutesAreOfTheirGeneration, StoreProxies
  <2>2. CASE StoreRoutes
    <3>1. /\ routerHolder'.gen = build.gen /\ routerHolder'.routes = build.routes
          /\ builder = "storing" /\ builder' = "idle" /\ UNCHANGED history
      BY <2>2 DEF StoreRoutes
    <3> QED
      BY <3>1 DEF RoutesInv, RoutesAreOfTheirGeneration
  <2> QED
    BY <2>1, <2>2
<1>3. ASSUME NEW r \in Requests PROVE FoundInItsRoutes(r)'
  BY DEF RoutesInv, FoundInItsRoutes, Routed, StoreProxies, StoreRoutes, requestVars
<1> QED
  BY <1>1, <1>2, <1>3 DEF RoutesInv

LEMMA RequestsKeepRoutesInv ==
  ASSUME ManagerInv, RoutesInv, NEW r \in Requests,
         Arrive(r) \/ MatchRouter(r) \/ ServeProxy(r)
  PROVE  RoutesInv'
<1>1. UNCHANGED <<proxyHolder, routerHolder, builder, build, history>>
  BY DEF Arrive, MatchRouter, ServeProxy, builderVars
<1>2. RoutesAreOfTheirGeneration'
  BY <1>1 DEF RoutesInv, RoutesAreOfTheirGeneration
<1>3. CASE Arrive(r) \/ ServeProxy(r)
  <2>1. ManagerTypeOK'
    BY <1>1, <1>3 DEF RoutesInv, ManagerTypeOK, RequestState, Arrive, ServeProxy
  <2>2. ASSUME NEW q \in Requests PROVE FoundInItsRoutes(q)'
    <3>1. Routed(q)' => Routed(q)
      BY <1>3 DEF RoutesInv, ManagerTypeOK, Routed, Arrive, ServeProxy
    <3>2. UNCHANGED <<history, route>>
      BY <1>1, <1>3 DEF Arrive, ServeProxy
    <3> QED
      BY <3>1, <3>2 DEF RoutesInv, FoundInItsRoutes
  <2> QED
    BY <1>2, <2>1, <2>2 DEF RoutesInv
<1>4. CASE MatchRouter(r)
  <2> DEFINE service == FirstMatch(routerHolder.routes, r)
  <2>1. service \in Services \cup {NoRoute}
    BY FirstMatchType DEF RoutesInv, ManagerTypeOK
  <2>2. /\ route' = [route EXCEPT ![r] = [gen |-> routerHolder.gen, service |-> service]]
        /\ pc' = [pc EXCEPT ![r] = IF service = NoRoute THEN "notfound" ELSE "matched"]
        /\ UNCHANGED <<since, proxy>>
    BY <1>4 DEF MatchRouter
  <2>3. routerHolder.gen > 0 =>
          service = FirstMatch(compileRoutes(history[routerHolder.gen]), r)
    BY DEF RoutesInv, RoutesAreOfTheirGeneration
  <2> HIDE DEF service
  <2>4. ManagerTypeOK'
    <3>1. [gen |-> routerHolder.gen, service |-> service]
            \in [gen : Nat, service : Services \cup {NoRoute}]
      BY <2>1 DEF RoutesInv, ManagerTypeOK
    <3>2. route' \in [Requests -> [gen : Nat, service : Services \cup {NoRoute}]]
      BY <2>2, <3>1 DEF RoutesInv, ManagerTypeOK
    <3>3. pc' \in [Requests -> RequestState]
      BY <2>2 DEF RoutesInv, ManagerTypeOK, RequestState
    <3> QED
      BY <1>1, <2>2, <3>2, <3>3 DEF RoutesInv, ManagerTypeOK
  <2>5. ASSUME NEW q \in Requests PROVE FoundInItsRoutes(q)'
    <3>1. CASE q = r
      <4>1. route'[q].gen = routerHolder.gen /\ route'[q].service = service
        BY <2>2, <3>1 DEF RoutesInv, ManagerTypeOK
      <4> QED
        BY <1>1, <2>3, <3>1, <4>1 DEF FoundInItsRoutes
    <3>2. CASE q # r
      <4>1. route'[q] = route[q] /\ pc'[q] = pc[q]
        BY <2>2, <3>2 DEF RoutesInv, ManagerTypeOK
      <4> QED
        BY <1>1, <4>1 DEF RoutesInv, FoundInItsRoutes, Routed
    <3> QED
      BY <3>1, <3>2
  <2> QED
    BY <1>2, <2>4, <2>5 DEF RoutesInv
<1> QED
  BY <1>3, <1>4

LEMMA RoutesInvStep ==
  ManagerInv /\ RoutesInv /\ [ManagerNext]_managerVars => RoutesInv'
<1>1. RoutesInv /\ UNCHANGED managerVars => RoutesInv'
  BY DEF RoutesInv, ManagerTypeOK, RoutesAreOfTheirGeneration, FoundInItsRoutes, Routed,
         managerVars, builderVars, requestVars
<1> QED
  BY <1>1, BuildKeepsRoutesInv, StoresKeepRoutesInv, RequestsKeepRoutesInv
  DEF ManagerNext

THEOREM RoutesInvariant == ManagerSpec => []RoutesInv
  BY RoutesInvInit, RoutesInvStep, ManagerInvariant, PTL DEF ManagerSpec

\* For any configurations and requests the variables have their types.
THEOREM ManagerTypeCorrect == ManagerSpec => []ManagerTypeOK
<1>1. RoutesInv => ManagerTypeOK
  BY DEF RoutesInv
<1> QED
  BY <1>1, RoutesInvariant, PTL

\* For any configurations, with any number of routers, and any requests: what
\* MatchRouter finds in the sorted list is the most specific rule that matches,
\* by name in a tie, of the configuration the list was made from.
THEOREM MostSpecificAlwaysWins == ManagerSpec => []MostSpecificWins
<1>1. ManagerInv /\ RoutesInv => MostSpecificWins
  <2> SUFFICES ASSUME ManagerInv, RoutesInv, NEW r \in Requests,
                      Routed(r), route[r].gen > 0
               PROVE  route[r].service = ServiceOf(history[route[r].gen], r)
    BY DEF MostSpecificWins, ServiceOf
  <2>1. route[r].gen \in 1 .. Len(history)
    BY SeenByRequest, ProxiesLead DEF SeenSoFar, ManagerInv, GenTypeOK
  <2>2. IsConfig(history[route[r].gen])
    BY <2>1, ManagerAssumption DEF ManagerInv, GenTypeOK
  <2>3. route[r].service = FirstMatch(compileRoutes(history[route[r].gen]), r)
    BY DEF RoutesInv, FoundInItsRoutes
  <2> QED
    BY <2>2, <2>3, CompiledRoutesDecide
<1> QED
  BY <1>1, ManagerInvariant, RoutesInvariant, PTL

-------------------------------------------------------------------------------
(* The parts.                                                               *)

LEMMA StepOfService == [AsenaNext]_asenaVars => [DCNext]_dcVars
  BY DEF AsenaNext, asenaVars, Deliver, ChangeFile, Consume, TakeUpdate, Build,
         SwapProxies, SwapRoutes, Listen, Accept, Handle, Answer, Shutdown, Expire,
         Quit, DCNext, System

LEMMA StepOfManager == [AsenaNext]_asenaVars => [ManagerNext]_managerVars
  BY DEF AsenaNext, asenaVars, Deliver, ChangeFile, Consume, TakeUpdate, Build,
         SwapProxies, SwapRoutes, Listen, Accept, Handle, Answer, Shutdown, Expire,
         Quit, ManagerNext

\* The whole program runs the dynamic configuration service of DynamicConfig:
\* every theorem about DCSpec holds of it.
THEOREM RunsTheService == AsenaSpec => DCSpec
<1>1. AsenaInit => DCInit
  BY DEF AsenaInit
<1> QED
  BY <1>1, StepOfService, PTL DEF AsenaSpec, DCSpec

\* The whole program swaps routes and proxies as Manager does: every theorem
\* about ManagerSpec holds of it.
THEOREM RunsTheManager == AsenaSpec => ManagerSpec
<1>1. AsenaInit => ManagerInit
  BY DEF AsenaInit
<1> QED
  BY <1>1, StepOfManager, PTL DEF AsenaSpec, ManagerSpec

-------------------------------------------------------------------------------
(* Where the configurations and the generations come from.                  *)

\* c is a state the file has been in.
FromFile(c) == c # NoConfig => c.ver \in 1 .. Len(written) /\ written[c.ver] = c.content

WrittenIsHistory ==
  /\ written \in Seq(Contents)
  /\ disk.ver > 0 /\ Len(written) = disk.ver
  /\ written[disk.ver] = disk.content

\* Whatever is on its way from the file to the proxies.
PipelineFromFile ==
  /\ FromFile(cfg) /\ FromFile(updates) /\ FromFile(building)
  /\ \A l \in Loader : FromFile(seen[l])

\* A generation is built from the configuration the consumer took, which has
\* no null router; the routes in use are from the one that was built last.
SourcesInStep ==
  /\ source \in Seq(FileState)
  /\ Len(source) = Len(history)
  /\ builder # "idle" =>
       /\ building # NoConfig
       /\ building.content \notin NullRouter
       /\ source[Len(source)] = building
  /\ Live = applied

ProgramInv == WrittenIsHistory /\ PipelineFromFile /\ SourcesInStep

LEMMA ProgramInvInit == AsenaInit => ProgramInv
<1> SUFFICES ASSUME AsenaInit PROVE ProgramInv
  OBVIOUS
<1>1. WrittenIsHistory
  BY DynamicConfigAssumption DEF AsenaInit, DCInit, WrittenIsHistory
<1>2. PipelineFromFile
  BY DEF AsenaInit, DCInit, PipelineFromFile, FromFile
<1>3. SourcesInStep
  BY DEF AsenaInit, DCInit, ManagerInit, SourcesInStep, Live
<1> QED
  BY <1>1, <1>2, <1>3 DEF ProgramInv

\* Steps of the service that leave the file alone only pass configurations on.
LEMMA DeliverKeepsPipeline ==
  ASSUME LoadInv, ProgramInv, Deliver
  PROVE  WrittenIsHistory' /\ PipelineFromFile'
<1>1. UNCHANGED <<disk, written>>
  BY DEF Deliver, Reload, ReadFile, CompareHash, Store, Send, Fire, StartWatch,
         HandleEvent, StopWatch, Signal
<1>2. WrittenIsHistory'
  BY <1>1 DEF ProgramInv, WrittenIsHistory
<1>3. FromFile(disk)
  BY DEF ProgramInv, WrittenIsHistory, FromFile, LoadInv, DCTypeOK, FileState
<1>4. building' = building
  BY DEF Deliver, Reload, ReadFile, CompareHash, Store, Send, Fire, StartWatch,
         HandleEvent, StopWatch, Signal, consumerVars
<1>5. /\ cfg' = cfg \/ \E l \in Loader : cfg' = seen[l]
      /\ updates' = updates \/ \E l \in Loader : updates' = seen[l]
  BY DEF Deliver, Reload, ReadFile, CompareHash, Store, Send, Fire, StartWatch,
         HandleEvent, StopWatch, Signal, serviceVars
<1>6. \A m \in Loader : seen'[m] = seen[m] \/ seen'[m] = disk
  <2>1. UNCHANGED seen \/ \E l \in Loader : seen' = [seen EXCEPT ![l] = disk]
    BY DEF Deliver, Reload, ReadFile, CompareHash, Store, Send, Fire, StartWatch,
           HandleEvent, StopWatch, Signal, reloadVars
  <2> QED
    BY <2>1 DEF LoadInv, DCTypeOK
<1>7. PipelineFromFile'
  BY <1>1, <1>3, <1>4, <1>5, <1>6 DEF ProgramInv, PipelineFromFile, FromFile
<1> QED
  BY <1>2, <1>7

LEMMA ChangeFileKeepsPipeline ==
  ASSUME LoadInv, ProgramInv, ChangeFile
  PROVE  WrittenIsHistory' /\ PipelineFromFile'
<1>1. PICK content \in Contents :
        /\ disk' = [ver |-> disk.ver + 1, content |-> content]
        /\ written' = Append(written, content)
        /\ UNCHANGED <<seen, cfg, updates, building>>
  BY DEF ChangeFile, EditInPlace, Replace, Change, reloadVars, serviceVars,
         consumerVars
<1>2. /\ written' \in Seq(Contents)
      /\ Len(written') = Len(written) + 1
      /\ \A v \in 1 .. Len(written) : written'[v] = written[v]
      /\ written'[Len(written) + 1] = content
  BY <1>1 DEF ProgramInv, WrittenIsHistory
<1>3. disk.ver \in Nat
  BY DEF LoadInv, DCTypeOK, FileState
<1>4. WrittenIsHistory'
  BY <1>1, <1>2, <1>3 DEF ProgramInv, WrittenIsHistory
<1>5. PipelineFromFile'
  <2>1. ASSUME NEW c, FromFile(c) PROVE FromFile(c)'
    BY <1>2, <1>3, <2>1 DEF FromFile, ProgramInv, WrittenIsHistory
  <2> QED
    BY <1>1, <2>1 DEF ProgramInv, PipelineFromFile
<1> QED
  BY <1>4, <1>5

LEMMA OthersKeepPipeline ==
  ASSUME ProgramInv, UNCHANGED <<disk, written, seen, cfg>>,
         updates' \in {updates, NoConfig},
         building' \in {building, updates, NoConfig}
  PROVE  WrittenIsHistory' /\ PipelineFromFile'
  BY DEF ProgramInv, WrittenIsHistory, PipelineFromFile, FromFile

-------------------------------------------------------------------------------

LEMMA BuildKeepsSources ==
  ASSUME LoadInv, ManagerInv, ProgramInv, Build, building.content \notin NullRouter
  PROVE  SourcesInStep' /\ UNCHANGED dcVars
<1>1. /\ builder = "idle" /\ building # NoConfig
      /\ source' = Append(source, building)
      /\ history' = Append(history, HttpOf[building.content])
      /\ UNCHANGED <<routerHolder, dcVars>>
  BY DEF Build, BuildReverseProxy, FinishBuild
<1>2. UNCHANGED <<building, applied>>
  BY <1>1 DEF dcVars, consumerVars
<1>3. building \in FileState
  BY <1>1 DEF LoadInv, DCTypeOK, Config
<1>4. /\ source \in Seq(FileState) /\ Len(source) = Len(history)
      /\ history \in Seq(Configs)
      /\ routerHolder.gen = Len(history)
  BY <1>1 DEF ProgramInv, SourcesInStep, ManagerInv, GenTypeOK, HoldersInStep
<1>5. /\ source' \in Seq(FileState) /\ Len(source') = Len(source) + 1
      /\ source'[Len(source')] = building
      /\ \A g \in 1 .. Len(source) : source'[g] = source[g]
  BY <1>1, <1>3, <1>4
<1>6. Len(history') = Len(history) + 1
  BY <1>1, <1>4
<1>7. Live' = Live
  BY <1>1, <1>4, <1>5 DEF Live
<1> QED
  BY <1>1, <1>2, <1>4, <1>5, <1>6, <1>7 DEF ProgramInv, SourcesInStep

LEMMA SwapRoutesKeepsSources ==
  ASSUME ManagerInv, ProgramInv, SwapRoutes
  PROVE  /\ SourcesInStep'
         /\ building # NoConfig /\ applied' = building /\ building' = NoConfig
         /\ UNCHANGED <<disk, written, seen, cfg, updates>>
<1>1. /\ builder = "storing" /\ builder' = "idle"
      /\ routerHolder'.gen = build.gen
      /\ UNCHANGED <<source, history, written>>
  BY DEF SwapRoutes, StoreRoutes
<1>2. /\ building # NoConfig /\ building.content \notin NullRouter
      /\ source[Len(source)] = building
      /\ Len(source) = Len(history)
  BY <1>1 DEF ProgramInv, SourcesInStep
<1>3. build.gen = Len(history) /\ Len(history) > 0
  BY <1>1 DEF ManagerInv, HoldersInStep
<1>4. /\ applied' = building /\ building' = NoConfig
      /\ UNCHANGED <<disk, seen, cfg, updates>>
  BY <1>2 DEF SwapRoutes, FinishBuild, reloadVars, serviceVars
<1>5. Live' = building
  BY <1>1, <1>2, <1>3 DEF Live
<1> QED
  BY <1>1, <1>2, <1>4, <1>5 DEF ProgramInv, SourcesInStep

\* Steps that neither build nor store leave the sources in step.
LEMMA OthersKeepSources ==
  ASSUME ProgramInv, UNCHANGED <<source, history, routerHolder, applied>>,
         builder' = builder \/ (builder # "idle" /\ builder' # "idle"),
         builder # "idle" => building' = building
  PROVE  SourcesInStep'
  BY DEF ProgramInv, SourcesInStep, Live

LEMMA ProgramInvStep ==
  ASSUME LoadInv, ManagerInv, ProgramInv, [AsenaNext]_asenaVars
  PROVE  ProgramInv'
<1>1. CASE Deliver
  <2>1. UNCHANGED <<source, managerVars, building, applied>>
    BY <1>1 DEF Deliver, Reload, ReadFile, CompareHash, Store, Send, Fire,
                StartWatch, HandleEvent, StopWatch, Signal, consumerVars
  <2> QED
    BY <1>1, <2>1, DeliverKeepsPipeline, OthersKeepSources
    DEF ProgramInv, managerVars, builderVars
<1>2. CASE ChangeFile
  <2>1. UNCHANGED <<source, managerVars, building, applied>>
    BY <1>2 DEF ChangeFile, EditInPlace, Replace, Change, consumerVars
  <2> QED
    BY <1>2, <2>1, ChangeFileKeepsPipeline, OthersKeepSources
    DEF ProgramInv, managerVars, builderVars
<1>3. CASE TakeUpdate
  <2>1. /\ UNCHANGED <<source, managerVars, applied, disk, written, seen, cfg>>
        /\ building = NoConfig /\ building' = updates /\ updates' = NoConfig
    BY <1>3 DEF TakeUpdate, Take, reloadVars
  <2>2. builder = "idle"
    BY <2>1 DEF ProgramInv, SourcesInStep
  <2> QED
    BY <2>1, <2>2, OthersKeepPipeline, OthersKeepSources
    DEF ProgramInv, managerVars, builderVars
<1>4. CASE Build
  <2>1. CASE building.content \in NullRouter
    <3>1. UNCHANGED <<source, managerVars, consumerVars, disk, written, seen, cfg,
                      updates>>
      BY <1>4, <2>1 DEF Build, FinishBuild, reloadVars, serviceVars
    <3> QED
      BY <3>1, OthersKeepPipeline, OthersKeepSources
      DEF ProgramInv, managerVars, builderVars, consumerVars
  <2>2. CASE building.content \notin NullRouter
    <3>1. SourcesInStep' /\ UNCHANGED dcVars /\ UNCHANGED written
      BY <1>4, <2>2, BuildKeepsSources DEF Build
    <3> QED
      BY <3>1, OthersKeepPipeline
      DEF ProgramInv, dcVars, reloadVars, serviceVars, consumerVars
  <2> QED
    BY <2>1, <2>2
<1>5. CASE SwapProxies
  <2>1. /\ UNCHANGED <<dcVars, written, source, history, routerHolder>>
        /\ builder # "idle" /\ builder' # "idle"
    BY <1>5 DEF SwapProxies, StoreProxies
  <2> QED
    BY <2>1, OthersKeepPipeline, OthersKeepSources
    DEF ProgramInv, dcVars, reloadVars, serviceVars, consumerVars
<1>6. CASE SwapRoutes
  BY <1>6, SwapRoutesKeepsSources, OthersKeepPipeline DEF ProgramInv
<1>7. CASE \/ Listen \/ Shutdown \/ Expire \/ Quit \/ UNCHANGED asenaVars
           \/ \E r \in Requests : Accept(r) \/ Handle(r) \/ Answer(r)
  <2>1. UNCHANGED <<source, history, routerHolder, builder, consumerVars, disk,
                    written, seen, cfg, updates>>
    BY <1>7 DEF Listen, Shutdown, Expire, Quit, Exit, Accept, Arrive, Handle,
                MatchRouter, ServeProxy, Answer, asenaVars, managerVars, builderVars,
                dcVars, reloadVars, serviceVars
  <2> QED
    BY <2>1, OthersKeepPipeline, OthersKeepSources DEF ProgramInv, consumerVars
<1> QED
  BY <1>1, <1>2, <1>3, <1>4, <1>5, <1>6, <1>7 DEF AsenaNext, Consume

-------------------------------------------------------------------------------
(* The program implements LiveConfig.                                       *)

LEMMA InitIsLive == AsenaInit => LC!LiveInit
<1> SUFFICES ASSUME AsenaInit PROVE LC!LiveInit
  OBVIOUS
<1>1. Ver(Live) = 0 /\ \A r \in Requests : LiveFor(r) = -1
  BY DEF AsenaInit, ManagerInit, Live, LiveFor, Routed, Ver
<1> QED
  BY <1>1 DEF AsenaInit, LC!LiveInit, LC!NotRouted

\* What routed the requests stays as it is while routes that were handed out
\* keep their generations, and generations their sources.
LEMMA RoutedStay ==
  ASSUME ManagerInv, ProgramInv, NEW r \in Requests,
         UNCHANGED route,
         pc'[r] = pc[r] \/ Routed(r)' = Routed(r),
         \A g \in 1 .. Len(source) : source'[g] = source[g]
  PROVE  LiveFor(r)' = LiveFor(r)
<1>1. Routed(r)' = Routed(r)
  BY DEF Routed
<1>2. Routed(r) /\ route[r].gen # 0 => route[r].gen \in 1 .. Len(source)
  BY SeenByRequest, ProxiesLead
  DEF SeenSoFar, ProgramInv, SourcesInStep, ManagerInv, GenTypeOK
<1> QED
  BY <1>1, <1>2 DEF LiveFor, Ver

\* A step that leaves the file, the routes in use and the routing alone.
LEMMA StutterIsLive ==
  ASSUME written' = written, Live' = Live,
         \A r \in Requests : LiveFor(r)' = LiveFor(r)
  PROVE  UNCHANGED LC!liveVars
<1>1. Ver(Live)' = Ver(Live)
  BY DEF Ver
<1> QED
  BY <1>1 DEF LC!liveVars

\* As before, from the variables: sources may be added, and requests may go on
\* as long as they are not routed.
LEMMA QuietIsLive ==
  ASSUME ManagerInv, ProgramInv,
         written' = written, routerHolder' = routerHolder, route' = route,
         \A g \in 1 .. Len(source) : source'[g] = source[g],
         \A r \in Requests : pc'[r] = pc[r] \/ Routed(r)' = Routed(r)
  PROVE  UNCHANGED LC!liveVars
<1>1. \A r \in Requests : LiveFor(r)' = LiveFor(r)
  BY RoutedStay
<1>2. routerHolder.gen # 0 => routerHolder.gen \in 1 .. Len(source)
  BY ProxiesLead DEF ManagerInv, GenTypeOK, ProgramInv, SourcesInStep
<1>3. Live' = Live
  BY <1>2 DEF Live
<1> QED
  BY <1>1, <1>3, StutterIsLive

LEMMA ChangeFileIsEdit ==
  ASSUME LoadInv, ManagerInv, ProgramInv, ChangeFile
  PROVE  LC!Edit
<1>1. /\ \E content \in Contents : written' = Append(written, content)
      /\ UNCHANGED <<managerVars, source>>
  BY DEF ChangeFile, EditInPlace, Replace, Change
<1>2. \A r \in Requests : LiveFor(r)' = LiveFor(r)
  BY <1>1, RoutedStay DEF managerVars, requestVars
<1>3. Ver(Live)' = Ver(Live)
  BY <1>1 DEF Live, Ver, managerVars
<1> QED
  BY <1>1, <1>2, <1>3 DEF LC!Edit

LEMMA SwapRoutesIsApply ==
  ASSUME LoadInv, OrderInv, ManagerInv, ProgramInv, SwapRoutes
  PROVE  LC!Apply
<1>1. /\ SourcesInStep'
      /\ building # NoConfig /\ applied' = building
      /\ UNCHANGED written
  BY SwapRoutesKeepsSources
<1>2. Live = applied /\ Live' = building
  BY <1>1 DEF ProgramInv, SourcesInStep
<1>3. /\ Ver(applied) < building.ver
      /\ Ver(Live)' = building.ver
  BY <1>1, <1>2 DEF OrderInv, TravelInOrder, Ver
<1>4. /\ building.ver \in 1 .. Len(written)
      /\ written[building.ver] = building.content
      /\ Loads(building.content)
      /\ building.content \in Contents
  BY <1>1 DEF ProgramInv, PipelineFromFile, FromFile, LoadInv, OnlyAcceptedConfigs,
              Accepted, DCTypeOK, Config, FileState
<1>5. Ver(Live) \in Nat
  BY <1>2, VersionsAreNumbers DEF LoadInv, DCTypeOK
<1>6. building.ver \in (Ver(Live) + 1) .. Len(written)
  BY <1>2, <1>3, <1>4, <1>5 DEF ProgramInv, WrittenIsHistory
<1>7. \A r \in Requests : LiveFor(r)' = LiveFor(r)
  <2>1. UNCHANGED <<route, pc, source>>
    BY DEF SwapRoutes, StoreRoutes, requestVars
  <2> QED
    BY <2>1, RoutedStay
<1> QED
  BY <1>1, <1>3, <1>4, <1>6, <1>7 DEF LC!Apply

LEMMA MatchRouterIsRoute ==
  ASSUME ManagerInv, ProgramInv, NEW r \in Requests, MatchRouter(r),
         UNCHANGED <<written, source>>
  PROVE  LC!Route(r)
<1> DEFINE routed == [q \in Requests |-> LiveFor(q)]
<1>1. /\ ~Routed(r) /\ Routed(r)'
      /\ route'[r].gen = routerHolder.gen
      /\ \A q \in Requests \ {r} : pc'[q] = pc[q] /\ route'[q] = route[q]
      /\ UNCHANGED routerHolder
  <2>1. pc \in [Requests -> RequestState] /\ route = [q \in Requests |-> route[q]]
    BY DEF ManagerInv, GenTypeOK, RouteIsFunction
  <2>2. /\ pc[r] = "arrived" /\ UNCHANGED routerHolder
        /\ \E q \in {"notfound", "matched"} : pc' = [pc EXCEPT ![r] = q]
        /\ \E service : route' = [route EXCEPT ![r] = [gen |-> routerHolder.gen,
                                                       service |-> service]]
    BY DEF MatchRouter
  <2> QED
    BY <2>1, <2>2 DEF Routed
<1>2. Live' = Live
  BY <1>1 DEF Live
<1>3. LiveFor(r) = -1 /\ LiveFor(r)' = Ver(Live)
  BY <1>1 DEF LiveFor, Live, Ver
<1>4. \A q \in Requests \ {r} : LiveFor(q)' = LiveFor(q)
  BY <1>1 DEF LiveFor, Routed, Ver
<1>5. routed' = [routed EXCEPT ![r] = Ver(Live)]
  BY <1>3, <1>4
<1>6. Ver(Live)' = Ver(Live)
  BY <1>2 DEF Ver
<1> QED
  BY <1>3, <1>5, <1>6 DEF LC!Route, LC!NotRouted

LEMMA StepIsLive ==
  ASSUME LoadInv, OrderInv, ManagerInv, ProgramInv, [AsenaNext]_asenaVars
  PROVE  [LC!LiveNext]_LC!liveVars
<1>1. CASE ChangeFile
  BY <1>1, ChangeFileIsEdit DEF LC!LiveNext
<1>2. CASE SwapRoutes
  BY <1>2, SwapRoutesIsApply DEF LC!LiveNext
<1>3. ASSUME NEW r \in Requests, Handle(r), MatchRouter(r)
      PROVE  LC!LiveNext
  BY <1>3, MatchRouterIsRoute DEF LC!LiveNext, Handle
<1>4. CASE Build
  <2>1. /\ UNCHANGED <<written, routerHolder, route, pc>>
        /\ source' = source \/ source' = Append(source, building)
    BY <1>4 DEF Build, BuildReverseProxy, managerVars, requestVars
  <2>2. \A g \in 1 .. Len(source) : source'[g] = source[g]
    BY <2>1 DEF ProgramInv, SourcesInStep
  <2> QED
    BY <2>1, <2>2, QuietIsLive
<1>5. ASSUME NEW r \in Requests, Accept(r) \/ (Handle(r) /\ ServeProxy(r))
      PROVE  UNCHANGED LC!liveVars
  <2>1. /\ UNCHANGED <<written, source, routerHolder, route>>
        /\ \A q \in Requests \ {r} : pc'[q] = pc[q]
        /\ Routed(r)' = Routed(r)
    BY <1>5 DEF Accept, Arrive, Handle, ServeProxy, Routed, ManagerInv, GenTypeOK,
                builderVars
  <2> QED
    BY <2>1, QuietIsLive
<1>6. CASE \/ Deliver \/ TakeUpdate \/ SwapProxies \/ Listen \/ Shutdown \/ Expire
           \/ Quit \/ UNCHANGED asenaVars \/ \E r \in Requests : Answer(r)
  <2>1. UNCHANGED <<written, source, routerHolder, route, pc>>
    BY <1>6 DEF Deliver, TakeUpdate, SwapProxies, StoreProxies, Listen, Shutdown,
                Expire, Quit, Answer, asenaVars, managerVars, requestVars
  <2> QED
    BY <2>1, QuietIsLive
<1> QED
  BY <1>1, <1>2, <1>3, <1>4, <1>5, <1>6 DEF AsenaNext, Consume, Handle

\* For any contents, configurations and requests, with reloads that do not
\* overlap: the routes in force are those of one state of the file that loads,
\* they only move on to later ones, and a request is routed by those in force
\* at that moment.
THEOREM ProgramFollowsFile ==
  ASSUME SingleReloader
  PROVE  AsenaSpec => FollowsFile
<1>1. AsenaInit => LoadInv /\ OrderInv /\ ManagerInv /\ ProgramInv
  BY LoadInvInit, OrderInvInit, ManagerInvInit, ProgramInvInit DEF AsenaInit
<1>2. /\ LoadInv /\ OrderInv /\ ManagerInv /\ ProgramInv
      /\ [AsenaNext]_asenaVars
      => (LoadInv /\ OrderInv /\ ManagerInv /\ ProgramInv)'
  BY SingleReloader, StepOfService, StepOfManager, LoadInvStep, OrderInvStep,
     ManagerInvStep, ProgramInvStep
<1>3. /\ LoadInv /\ OrderInv /\ ManagerInv /\ ProgramInv
      /\ [AsenaNext]_asenaVars
      => [LC!LiveNext]_LC!liveVars
  BY StepIsLive
<1> QED
  BY <1>1, <1>2, <1>3, InitIsLive, PTL DEF AsenaSpec, FollowsFile, LC!LiveSpec

-------------------------------------------------------------------------------
(* The program at rest: the safety half of RoutesCatchUp.                   *)

RoutedAtRest ==
  ReloadsDone /\ BuildsDone /\ Loads(disk.content) =>
    Live # NoConfig /\ Live.content = disk.content

\* With reloads that do not overlap, a file that is changed in place once it is
\* watched, and no send that meets a full channel: whenever nothing is on its
\* way from the file to the holders, requests are routed by what the file says.
THEOREM RoutesAreThoseOfTheFile ==
  ASSUME SingleReloader, OrderlyFile
  PROVE  AsenaSpec /\ NothingDropped => []RoutedAtRest
<1>1. AsenaInit => LoadInv /\ OrderInv /\ ManagerInv /\ ProgramInv
  BY LoadInvInit, OrderInvInit, ManagerInvInit, ProgramInvInit DEF AsenaInit
<1>2. /\ LoadInv /\ OrderInv /\ ManagerInv /\ ProgramInv
      /\ [AsenaNext]_asenaVars
      => (LoadInv /\ OrderInv /\ ManagerInv /\ ProgramInv)'
  BY SingleReloader, StepOfService, StepOfManager, LoadInvStep, OrderInvStep,
     ManagerInvStep, ProgramInvStep
<1>3. DCSpec /\ NothingDropped => []AppliedAtRest
  BY SingleReloader, OrderlyFile, NoUpdateIsLost
<1>4. ProgramInv /\ AppliedAtRest => RoutedAtRest
  BY DEF ProgramInv, SourcesInStep, AppliedAtRest, RoutedAtRest
<1> QED
  BY <1>1, <1>2, <1>3, <1>4, RunsTheService, PTL DEF AsenaSpec

-------------------------------------------------------------------------------
(* The program at its end: the safety half of GracefulShutdown.             *)

\* When main has returned after serving, every request that was accepted is
\* answered, or the shutdown ran into its timeout.
NobodyCutShort == proc = "exited" /\ watch # "off" => Open = {} \/ late

LEMMA NobodyCutShortStep ==
  ASSUME LoadInv, NobodyCutShort, [AsenaNext]_asenaVars
  PROVE  NobodyCutShort'
<1>1. CASE proc = "exited"
  <2>1. UNCHANGED <<watch, pc, reply, late>>
    BY <1>1 DEF AsenaNext, asenaVars, Deliver, ChangeFile, Consume, TakeUpdate,
       Build, SwapProxies, SwapRoutes, Listen, Accept, Handle, Answer, Shutdown,
       Expire, Quit, Exit, Reload, ReadFile, CompareHash, Store, Send, Fire,
       StartWatch, HandleEvent, StopWatch, Signal, EditInPlace, Replace, Change,
       Take, FinishBuild, dcVars, watchVars, managerVars, requestVars, serverVars
  <2> QED
    BY <1>1, <2>1 DEF NobodyCutShort, Open
<1>2. CASE proc # "exited" /\ proc' = "exited"
  <2>1. \/ \E l \in Loader : ReadFile(l) /\ l = Main
        \/ Quit
    BY <1>2 DEF AsenaNext, asenaVars, Deliver, ChangeFile, Consume, TakeUpdate,
       Build, SwapProxies, SwapRoutes, Listen, Accept, Handle, Answer, Shutdown,
       Expire, Reload, ReadFile, CompareHash, Store, Send, Fire,
       StartWatch, HandleEvent, StopWatch, Signal, EditInPlace, Replace, Change,
       Take, FinishBuild, dcVars
  <2>2. ASSUME NEW l \in Loader, ReadFile(l), l = Main
        PROVE  watch' = "off"
    BY <2>2 DEF ReadFile, watchVars, LoadInv, MainLoadsFirst
  <2>3. CASE Quit
    BY <2>3 DEF Quit, NobodyCutShort, Open, managerVars, requestVars, serverVars
  <2> QED
    BY <2>1, <2>2, <2>3 DEF NobodyCutShort
<1>3. CASE proc' # "exited"
  BY <1>3 DEF NobodyCutShort
<1> QED
  BY <1>1, <1>2, <1>3

\* Whatever is in flight when the signal comes, and however the steps of the
\* shutdown mix with requests, reloads and builds: nobody is cut short before
\* the timeout.
THEOREM ShutdownIsGraceful == AsenaSpec => []NobodyCutShort
<1>1. AsenaInit => NobodyCutShort
  BY DEF AsenaInit, DCInit, NobodyCutShort
<1>2. LoadInv /\ NobodyCutShort /\ [AsenaNext]_asenaVars => NobodyCutShort'
  BY NobodyCutShortStep
<1> QED
  BY <1>1, <1>2, RunsTheService, LoadInvariant, PTL DEF AsenaSpec

===============================================================================
