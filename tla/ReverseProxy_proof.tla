-------------------------- MODULE ReverseProxy_proof --------------------------
(***************************************************************************)
(* Proofs about ReverseProxy and the LeastConnections balancer under it.   *)
(* First the balancer by itself: its counters are the numbers of requests  *)
(* in flight, for every number of servers and every finite set of          *)
(* requests, and it implements LeastBusy.  Then the hooks are shown to be  *)
(* a correct client of it: every step is a call of Next, a call of Done    *)
(* with the server Next returned, or neither, so that what was shown of    *)
(* the balancer holds for the requests of the proxy.                       *)
(***************************************************************************)
EXTENDS ReverseProxy, FiniteSetTheorems, TLAPS

-------------------------------------------------------------------------------
(* The balancer.                                                            *)

\* The requests in flight to a server are finitely many, so their number is
\* a natural number.
LEMMA InFlightFinite ==
  ASSUME NEW s
  PROVE  IsFiniteSet(InFlight(s)) /\ Cardinality(InFlight(s)) \in Nat
<1>1. InFlight(s) \subseteq Requests
  BY DEF InFlight
<1>2. IsFiniteSet(Requests)
  BY LeastConnectionsAssumption
<1>3. IsFiniteSet(InFlight(s))
  BY <1>1, <1>2, FS_Subset
<1> QED
  BY <1>3, FS_CardinalityType

\* A request that takes server s joins the requests in flight to s and leaves
\* those of the other servers as they were.
LEMMA TakeServer ==
  ASSUME NEW r \in Requests, NEW s \in Server, LCTypeOK, held[r] = NoServer,
         held' = [held EXCEPT ![r] = s]
  PROVE  /\ Cardinality(InFlight(s)') = Cardinality(InFlight(s)) + 1
         /\ \A t \in Server \ {s} : InFlight(t)' = InFlight(t)
<1>1. NoServer # s
  BY LeastConnectionsAssumption DEF Server
<1>2. /\ InFlight(s)' = InFlight(s) \cup {r}
      /\ r \notin InFlight(s)
  BY <1>1 DEF InFlight, LCTypeOK
<1>3. Cardinality(InFlight(s) \cup {r}) = Cardinality(InFlight(s)) + 1
  BY <1>2, InFlightFinite, FS_AddElement
<1>4. ASSUME NEW t \in Server \ {s}
      PROVE  InFlight(t)' = InFlight(t)
  <2>1. NoServer # t
    BY LeastConnectionsAssumption DEF Server
  <2> QED
    BY <2>1 DEF InFlight, LCTypeOK
<1> QED
  BY <1>2, <1>3, <1>4

\* A request that gives server s back leaves the requests in flight to s, and
\* those of the other servers stay as they were.
LEMMA GiveServerBack ==
  ASSUME NEW r \in Requests, NEW s \in Server, LCTypeOK, held[r] = s,
         held' = [held EXCEPT ![r] = NoServer]
  PROVE  /\ Cardinality(InFlight(s)) > 0
         /\ Cardinality(InFlight(s)') = Cardinality(InFlight(s)) - 1
         /\ \A t \in Server \ {s} : InFlight(t)' = InFlight(t)
<1>1. NoServer # s
  BY LeastConnectionsAssumption DEF Server
<1>2. /\ InFlight(s)' = InFlight(s) \ {r}
      /\ r \in InFlight(s)
  BY <1>1 DEF InFlight, LCTypeOK
<1>3. /\ Cardinality(InFlight(s) \ {r}) = Cardinality(InFlight(s)) - 1
      /\ IsFiniteSet(InFlight(s) \ {r})
  BY <1>2, InFlightFinite, FS_RemoveElement
<1>4. Cardinality(InFlight(s) \ {r}) \in Nat
  BY <1>3, FS_CardinalityType
<1>5. ASSUME NEW t \in Server \ {s}
      PROVE  InFlight(t)' = InFlight(t)
  <2>1. NoServer # t
    BY LeastConnectionsAssumption DEF Server
  <2> QED
    BY <2>1 DEF InFlight, LCTypeOK
<1> QED
  BY <1>2, <1>3, <1>4, <1>5, InFlightFinite

-------------------------------------------------------------------------------

\* The two facts the counters rest on: neither is inductive without the other,
\* because only a counter equal to the number of holders is known to be
\* positive when a holder reports back.
LCInv == LCTypeOK /\ ActiveIsInFlight

LEMMA LCInvInit == LCInit => LCInv
<1> SUFFICES ASSUME LCInit PROVE LCInv
  OBVIOUS
<1>1. LCTypeOK
  BY DEF LCInit, LCTypeOK
<1>2. ASSUME NEW s \in Server PROVE active[s] = Cardinality(InFlight(s))
  <2>1. InFlight(s) = {}
    BY LeastConnectionsAssumption DEF LCInit, InFlight, Server
  <2> QED
    BY <2>1, FS_EmptySet DEF LCInit
<1> QED
  BY <1>1, <1>2 DEF LCInv, ActiveIsInFlight

\* Next and Done keep the counters equal to the requests in flight.
LEMMA NextServerKeepsInv ==
  ASSUME NEW r \in Requests, LCInv, NextServer(r)
  PROVE  LCInv'
<1>1. PICK s \in Server :
        /\ active' = [active EXCEPT ![s] = @ + 1]
        /\ held' = [held EXCEPT ![r] = s]
  BY DEF NextServer
<1>2. /\ Cardinality(InFlight(s)') = Cardinality(InFlight(s)) + 1
      /\ \A t \in Server \ {s} : InFlight(t)' = InFlight(t)
  BY <1>1, TakeServer DEF NextServer, LCInv
<1>3. LCTypeOK'
  BY <1>1 DEF LCInv, LCTypeOK
<1>4. ASSUME NEW t \in Server PROVE active'[t] = Cardinality(InFlight(t)')
  <2>1. CASE t = s
    BY <2>1, <1>1, <1>2 DEF LCInv, LCTypeOK, ActiveIsInFlight
  <2>2. CASE t # s
    BY <2>2, <1>1, <1>2 DEF LCInv, LCTypeOK, ActiveIsInFlight
  <2> QED
    BY <2>1, <2>2
<1> QED
  BY <1>3, <1>4 DEF LCInv, ActiveIsInFlight

LEMMA DoneKeepsInv ==
  ASSUME NEW r \in Requests, LCInv, Done(r)
  PROVE  LCInv'
<1>1. PICK s \in Server : held[r] = s
  BY DEF LCInv, LCTypeOK, Done
<1>2. /\ Cardinality(InFlight(s)) > 0
      /\ Cardinality(InFlight(s)') = Cardinality(InFlight(s)) - 1
      /\ \A t \in Server \ {s} : InFlight(t)' = InFlight(t)
  BY <1>1, GiveServerBack DEF Done, LCInv
<1>3. active' = [active EXCEPT ![s] = @ - 1]
  BY <1>1, <1>2 DEF Done, DoneEffect, LCInv, ActiveIsInFlight
<1>4. LCTypeOK'
  <2>1. active[s] - 1 \in Nat
    BY <1>1, <1>2 DEF LCInv, LCTypeOK, ActiveIsInFlight
  <2> QED
    BY <1>3, <2>1 DEF LCInv, LCTypeOK, Done
<1>5. ASSUME NEW t \in Server PROVE active'[t] = Cardinality(InFlight(t)')
  <2>1. CASE t = s
    BY <2>1, <1>3, <1>2 DEF LCInv, LCTypeOK, ActiveIsInFlight
  <2>2. CASE t # s
    BY <2>2, <1>3, <1>2 DEF LCInv, LCTypeOK, ActiveIsInFlight
  <2> QED
    BY <2>1, <2>2
<1> QED
  BY <1>4, <1>5 DEF LCInv, ActiveIsInFlight

LEMMA LCStutterKeepsInv == LCInv /\ UNCHANGED lcVars => LCInv'
  BY DEF LCInv, LCTypeOK, ActiveIsInFlight, InFlight, lcVars

\* In every state of every execution the counters are those of LCInv.
THEOREM LCInvariant == LCSpec => []LCInv
<1>1. LCInv /\ [LCNext]_lcVars => LCInv'
  BY NextServerKeepsInv, DoneKeepsInv, LCStutterKeepsInv DEF LCNext
<1> QED
  BY <1>1, LCInvInit, PTL DEF LCSpec

\* For every number of servers and every finite set of requests: the counters
\* of leastconnections.go never go below zero, and every server that is held
\* is one of the list.
THEOREM LCTypeCorrect == LCSpec => []LCTypeOK
<1>1. LCInv => LCTypeOK
  BY DEF LCInv
<1> QED
  BY <1>1, LCInvariant, PTL

\* For every number of servers and every finite set of requests: the counter
\* of a server is the number of requests that were given it by Next and have
\* not called Done.
THEOREM CountersAreInFlight == LCSpec => []ActiveIsInFlight
<1>1. LCInv => ActiveIsInFlight
  BY DEF LCInv
<1> QED
  BY <1>1, LCInvariant, PTL

-------------------------------------------------------------------------------

\* The server FirstLeastActive chooses is a least busy one, and the first.
LEMMA FirstLeastActiveIsLeastBusy ==
  ASSUME ActiveIsInFlight, NEW s \in Server, FirstLeastActive(s)
  PROVE  /\ \A t \in Server : LB!Load(s) <= LB!Load(t)
         /\ \A t \in 1 .. (s - 1) : LB!Load(s) < LB!Load(t)
<1>1. \A t \in Server : active[t] = LB!Load(t)
  BY DEF ActiveIsInFlight, InFlight, LB!Load, LB!InFlight,
         Cardinality, LB!Cardinality
<1>2. 1 .. (s - 1) \subseteq Server
  BY LeastConnectionsAssumption DEF Server
<1> QED
  BY <1>1, <1>2 DEF FirstLeastActive

\* Every execution of the counters is one LeastBusy allows: each call of Next
\* that returns a server dispatches its request to a least busy one, the
\* first in list order.
THEOREM LCImplementsLeastBusy == LCSpec => ImplementsLeastBusy
<1>1. LCInit => LB!Init
  BY DEF LCInit, LB!Init
<1>2. ASSUME LCInv, [LCNext]_lcVars
      PROVE  [LB!Next]_held
  <2>1. ASSUME NEW r \in Requests, NextServer(r)
        PROVE  LB!Dispatch(r)
    BY <2>1, <1>2, FirstLeastActiveIsLeastBusy
    DEF NextServer, LB!Dispatch, LCInv, Server, LB!Server
  <2>2. ASSUME NEW r \in Requests, Done(r)
        PROVE  LB!Release(r)
    BY <2>2 DEF Done, LB!Release
  <2>3. CASE UNCHANGED lcVars
    BY <2>3 DEF lcVars
  <2> QED
    BY <1>2, <2>1, <2>2, <2>3 DEF LCNext, LB!Next
<1> QED
  BY <1>1, <1>2, LCInvariant, PTL DEF LCSpec, ImplementsLeastBusy, LB!Spec

-------------------------------------------------------------------------------
(* The hooks.                                                               *)

\* Before Rewrite a request holds nothing and its box is empty.  Without this
\* the box of a request could fill twice, and BoxNamesTheSlot would not be
\* inductive.
NothingBeforeRewrite ==
  \A r \in Requests :
    pc[r] \in {"new", "boxed"} => held[r] = NoServer /\ box[r] = NoServer

\* The box of a request that failed is as it was while the request waited.
FailedKeepsBox ==
  \A r \in Requests :
    pc[r] = "failed" =>
      /\ held[r] \in Server
      /\ box[r] = IF held[r] \in NullServers THEN NoServer ELSE held[r]

\* A request that was answered keeps a slot only at an entry without url,
\* where its box is empty.
AnsweredKeepsNullOnly ==
  \A r \in Requests :
    pc[r] \in Answered \cup {"done", "aborted", "broken"} =>
      held[r] \in NullServers \cup {NoServer}

RequestTypeOK ==
  /\ held \in [Requests -> Server \cup {NoServer}]
  /\ pc \in [Requests -> RequestState]
  /\ box \in [Requests -> Server \cup {NoServer}]

\* The inductive invariant: what a request holds and what its box says, by
\* how far it is.  The counters have no part in it.
BoxInv ==
  /\ RequestTypeOK
  /\ NothingBeforeRewrite
  /\ BoxNamesTheSlot
  /\ FailedKeepsBox
  /\ AnsweredKeepsNullOnly

\* The state of a request that does not move is as the invariant says: the
\* steps below change held, pc and box at one request only.
LEMMA BoxInvElsewhere ==
  ASSUME BoxInv, RequestTypeOK',
         NEW r \in Requests,
         \A q \in Requests \ {r} :
           held'[q] = held[q] /\ pc'[q] = pc[q] /\ box'[q] = box[q],
         pc'[r] \in {"new", "boxed"} => held'[r] = NoServer /\ box'[r] = NoServer,
         pc'[r] \in Waiting \cup {"failed"} =>
           /\ held'[r] \in Server
           /\ box'[r] = IF held'[r] \in NullServers THEN NoServer ELSE held'[r],
         pc'[r] \in Answered \cup {"done", "aborted", "broken"} =>
           held'[r] \in NullServers \cup {NoServer}
  PROVE  BoxInv'
<1>1. NothingBeforeRewrite'
  BY DEF BoxInv, NothingBeforeRewrite
<1>2. BoxNamesTheSlot'
  BY DEF BoxInv, BoxNamesTheSlot, Waiting
<1>3. FailedKeepsBox'
  BY DEF BoxInv, FailedKeepsBox
<1>4. AnsweredKeepsNullOnly'
  BY DEF BoxInv, AnsweredKeepsNullOnly, Answered
<1> QED
  BY <1>1, <1>2, <1>3, <1>4 DEF BoxInv

LEMMA BoxInvInit == RPInit => BoxInv
  BY DEF RPInit, LCInit, BoxInv, RequestTypeOK, NothingBeforeRewrite,
         BoxNamesTheSlot, FailedKeepsBox, AnsweredKeepsNullOnly, RequestState,
         Waiting, Answered

LEMMA ServeProxyKeepsBoxInv ==
  ASSUME BoxInv, NEW r \in Requests, ServeProxy(r)
  PROVE  BoxInv'
<1>1. RequestTypeOK'
  BY DEF BoxInv, RequestTypeOK, ServeProxy, Goto, RequestState, lcVars
<1> QED
  BY <1>1, BoxInvElsewhere
  DEF BoxInv, RequestTypeOK, NothingBeforeRewrite, ServeProxy, Goto,
      RequestState, Waiting, Answered, lcVars

LEMMA RewriteKeepsBoxInv ==
  ASSUME BoxInv, NEW r \in Requests, Rewrite(r)
  PROVE  BoxInv'
<1>1. PICK s \in Server : held' = [held EXCEPT ![r] = s]
  BY DEF Rewrite, NextServer
<1>2. held'[r] = s
  BY <1>1 DEF BoxInv, RequestTypeOK
<1>3. /\ box[r] = NoServer
      /\ box' = [box EXCEPT ![r] = IF s \in NullServers THEN NoServer ELSE s]
  <2>1. pc[r] = "boxed"
    BY DEF Rewrite, Goto
  <2>2. box[r] = NoServer
    BY <2>1 DEF BoxInv, NothingBeforeRewrite
  <2>3. box = [box EXCEPT ![r] = NoServer]
    BY <2>2 DEF BoxInv, RequestTypeOK
  <2> QED
    BY <1>2, <2>2, <2>3 DEF Rewrite
<1>4. \E to \in Waiting : pc' = [pc EXCEPT ![r] = to]
  BY <1>2 DEF Rewrite, Goto, Waiting
<1>5. RequestTypeOK'
  BY <1>1, <1>3, <1>4 DEF BoxInv, RequestTypeOK, RequestState, Waiting
<1> QED
  BY <1>1, <1>3, <1>4, <1>5, BoxInvElsewhere
  DEF BoxInv, RequestTypeOK, Waiting, Answered

\* What ModifyResponse finds: a box that names the slot and will be freed, or
\* an empty one and a slot at an entry without url that stays taken.
LEMMA ModifyResponseReports ==
  ASSUME BoxInv, NEW r \in Requests, ModifyResponse(r)
  PROVE  \/ /\ held[r] # NoServer
            /\ box[r] = held[r]
            /\ held' = [held EXCEPT ![r] = NoServer]
            /\ DoneEffect(held[r])
         \/ held[r] \in NullServers /\ UNCHANGED lcVars
<1>1. pc[r] \in Waiting
  BY DEF ModifyResponse, Answerable, Waiting
<1>2. /\ held[r] \in Server
      /\ box[r] = IF held[r] \in NullServers THEN NoServer ELSE held[r]
  BY <1>1 DEF BoxInv, BoxNamesTheSlot
<1>3. held[r] # NoServer
  BY <1>2, LeastConnectionsAssumption DEF Server
<1> QED
  BY <1>2, <1>3 DEF ModifyResponse, ReportDone

LEMMA ModifyResponseKeepsBoxInv ==
  ASSUME BoxInv, NEW r \in Requests, ModifyResponse(r)
  PROVE  BoxInv'
<1>1. /\ \E to \in {"streaming", "switching"} : pc' = [pc EXCEPT ![r] = to]
      /\ box' = box
  BY DEF ModifyResponse, Goto
<1>2. \/ held' = [held EXCEPT ![r] = NoServer]
      \/ held[r] \in NullServers /\ held' = held
  BY ModifyResponseReports DEF lcVars
<1>3. RequestTypeOK'
  BY <1>1, <1>2 DEF BoxInv, RequestTypeOK, RequestState, Answered
<1> QED
  BY <1>1, <1>2, <1>3, BoxInvElsewhere
  DEF BoxInv, RequestTypeOK, Waiting, Answered

\* The steps that only move a request on, after Rewrite and not to an answer.
LEMMA MoveKeepsBoxInv ==
  ASSUME BoxInv, NEW r \in Requests, NEW from, NEW to,
         Goto(r, from, to), UNCHANGED <<active, held, box>>,
         \/ from \in Waiting /\ to = "failed"
         \/ from \in Answered /\ to \in {"tunnel", "done", "aborted", "broken"}
  PROVE  BoxInv'
<1>1. RequestTypeOK'
  BY DEF BoxInv, RequestTypeOK, Goto, RequestState, Waiting, Answered, Finished
<1>2. CASE from \in Waiting /\ to = "failed"
  BY <1>1, <1>2, BoxInvElsewhere
  DEF BoxInv, RequestTypeOK, BoxNamesTheSlot, Goto, Waiting, Answered
<1>3. CASE from \in Answered /\ to \in {"tunnel", "done", "aborted", "broken"}
  BY <1>1, <1>3, BoxInvElsewhere
  DEF BoxInv, RequestTypeOK, AnsweredKeepsNullOnly, Goto, Waiting, Answered
<1> QED
  BY <1>2, <1>3

LEMMA BoxInvStep == BoxInv /\ [RPNext]_rpVars => BoxInv'
<1> SUFFICES ASSUME BoxInv, [RPNext]_rpVars PROVE BoxInv'
  OBVIOUS
<1>1. CASE UNCHANGED rpVars
  BY <1>1 DEF rpVars, BoxInv, RequestTypeOK, NothingBeforeRewrite,
              BoxNamesTheSlot, FailedKeepsBox, AnsweredKeepsNullOnly
<1>2. ASSUME NEW r \in Requests, RoundTripFails(r)
      PROVE  BoxInv'
  BY <1>2, MoveKeepsBoxInv DEF RoundTripFails, ErrorHandler
<1>3. ASSUME NEW r \in Requests, BodyEnds(r)
      PROVE  BoxInv'
  BY <1>3, MoveKeepsBoxInv DEF BodyEnds, Answered
<1>4. ASSUME NEW r \in Requests, Upgrade(r)
      PROVE  BoxInv'
  BY <1>4, MoveKeepsBoxInv DEF Upgrade, ErrorHandler, Answered
<1>5. ASSUME NEW r \in Requests, TunnelEnds(r)
      PROVE  BoxInv'
  BY <1>5, MoveKeepsBoxInv DEF TunnelEnds, Answered
<1> QED
  BY <1>1, <1>2, <1>3, <1>4, <1>5, ServeProxyKeepsBoxInv, RewriteKeepsBoxInv,
     ModifyResponseKeepsBoxInv
  DEF RPNext

\* In every state of every execution the requests are as BoxInv says.
THEOREM BoxInvariant == RPSpec => []BoxInv
  BY BoxInvInit, BoxInvStep, PTL DEF RPSpec

-------------------------------------------------------------------------------

\* reportDone frees the slot its request holds or does nothing: seen from the
\* balancer, ModifyResponse is a call of Done by a request that Next counted,
\* or no call.
LEMMA ModifyResponseIsDone ==
  ASSUME BoxInv, NEW r \in Requests, ModifyResponse(r)
  PROVE  Done(r) \/ UNCHANGED lcVars
  BY ModifyResponseReports DEF Done

\* For any servers, with null entries and bad urls among them, and any
\* requests: the hooks of newReverseProxy call Next and Done as the balancer
\* expects them, Done at most once per request and with the server of its
\* box, although ErrorHandler may run after ModifyResponse.
THEOREM HooksKeepBalancerProtocol == RPSpec => KeepsBalancerProtocol
<1>1. RPInit => LCInit
  BY DEF RPInit
<1>2. BoxInv /\ [RPNext]_rpVars => [LCNext]_lcVars
  <2> SUFFICES ASSUME BoxInv, [RPNext]_rpVars PROVE [LCNext]_lcVars
    OBVIOUS
  <2>1. ASSUME NEW r \in Requests, Rewrite(r)
        PROVE  LCNext
    BY <2>1 DEF Rewrite, LCNext
  <2>2. ASSUME NEW r \in Requests, ModifyResponse(r)
        PROVE  LCNext \/ UNCHANGED lcVars
    BY <2>2, ModifyResponseIsDone DEF LCNext
  <2>3. ASSUME NEW r \in Requests,
               \/ ServeProxy(r) \/ RoundTripFails(r) \/ BodyEnds(r)
               \/ Upgrade(r) \/ TunnelEnds(r)
        PROVE  UNCHANGED lcVars
    BY <2>3 DEF ServeProxy, RoundTripFails, BodyEnds, Upgrade, TunnelEnds,
                ErrorHandler, lcVars
  <2>4. CASE UNCHANGED rpVars
    BY <2>4 DEF rpVars, lcVars
  <2> QED
    BY <2>1, <2>2, <2>3, <2>4 DEF RPNext
<1> QED
  BY <1>1, <1>2, BoxInvariant, PTL DEF RPSpec, LCSpec, KeepsBalancerProtocol

\* The variables of the proxy have the values the code gives them.
THEOREM RPTypeCorrect == RPSpec => []RPTypeOK
<1>1. LCTypeOK /\ BoxInv => RPTypeOK
  BY DEF RPTypeOK, BoxInv, RequestTypeOK
<1> QED
  BY <1>1, LCTypeCorrect, HooksKeepBalancerProtocol, BoxInvariant, PTL
  DEF KeepsBalancerProtocol

\* However requests of the proxy end, the counter of a server is the number of
\* requests that Next gave it and that have not reported.
THEOREM ProxyCountersAreInFlight == RPSpec => []ActiveIsInFlight
  BY CountersAreInFlight, HooksKeepBalancerProtocol, PTL
  DEF KeepsBalancerProtocol

\* The requests in flight, as the balancer sees it, to a server with a url are
\* those that have not been answered.
LEMMA InFlightIsUnanswered ==
  ASSUME BoxInv, NEW s \in Server \ NullServers
  PROVE  InFlight(s) = Unanswered(s)
<1>0. s # NoServer
  BY LeastConnectionsAssumption DEF Server
<1>1. ASSUME NEW r \in Requests, held[r] = s
      PROVE  box[r] = s /\ pc[r] \in Waiting \cup {"failed"}
  <2>1. pc[r] \in RequestState
    BY DEF BoxInv, RequestTypeOK
  <2>2. pc[r] \notin {"new", "boxed"}
    BY <1>0, <1>1 DEF BoxInv, NothingBeforeRewrite
  <2>3. pc[r] \notin Answered \cup {"done", "aborted", "broken"}
    BY <1>0, <1>1 DEF BoxInv, AnsweredKeepsNullOnly
  <2>4. pc[r] \in Waiting \cup {"failed"}
    BY <2>1, <2>2, <2>3 DEF RequestState, Finished
  <2> QED
    BY <1>1, <2>4 DEF BoxInv, BoxNamesTheSlot, FailedKeepsBox
<1>2. ASSUME NEW r \in Requests, box[r] = s, pc[r] \in Waiting \cup {"failed"}
      PROVE  held[r] = s
  BY <1>0, <1>2 DEF BoxInv, BoxNamesTheSlot, FailedKeepsBox
<1> QED
  BY <1>1, <1>2 DEF InFlight, Unanswered

\* For any number of requests, in any order of their hooks: the counter of a
\* server with a url is the number of requests that got no response header,
\* be it that they wait or that they failed.
THEOREM CountersAreUnanswered == RPSpec => []CountsUnanswered
<1>1. ActiveIsInFlight /\ BoxInv => CountsUnanswered
  BY InFlightIsUnanswered DEF ActiveIsInFlight, CountsUnanswered
<1> QED
  BY <1>1, ProxyCountersAreInFlight, BoxInvariant, PTL

\* While a request waits for a response header, its box names the slot it
\* takes, and is empty for an entry without url.
THEOREM TheBoxNamesTheSlot == RPSpec => []BoxNamesTheSlot
<1>1. BoxInv => BoxNamesTheSlot
  BY DEF BoxInv
<1> QED
  BY <1>1, BoxInvariant, PTL

\* The proxy sends each request to a least busy server of its balancer, the
\* first in list order, where busy means given by Next and not reported.
THEOREM ProxyDispatchesToLeastBusy == RPSpec => ImplementsLeastBusy
  BY LCImplementsLeastBusy, HooksKeepBalancerProtocol, PTL
  DEF KeepsBalancerProtocol

===============================================================================
