----------------------------- MODULE ReverseProxy -----------------------------
(***************************************************************************)
(* The life of the requests of one service behind the least-connections    *)
(* balancer: internal/proxy/manager.go, ServeProxy and the three hooks     *)
(* newReverseProxy gives to httputil.ReverseProxy (Rewrite,                *)
(* ModifyResponse, ErrorHandler).  Each request is a goroutine; the hooks  *)
(* touch shared state only through the balancer's Next and Done, so a hook *)
(* is one step.  The order in which the hooks run is that of               *)
(* httputil.ReverseProxy.ServeHTTP (external): Rewrite, the round trip,    *)
(* then either ErrorHandler, or ModifyResponse and only after it the copy  *)
(* of the body; a 101 response is handed over after ModifyResponse, and a  *)
(* failure of that hand-over calls ErrorHandler as well.                   *)
(***************************************************************************)
EXTENDS LeastConnections

CONSTANTS
  NullServers,      \* entries of the list that are null or have no url
  BadUrlServers,    \* entries whose url does not parse
  AbsoluteForm      \* requests whose own request line names a host, as those to
                    \*   a forward proxy do: they have a target without Rewrite

\* validateServiceCfg accepts no empty server list, and looks at no entry.
ASSUME ReverseProxyAssumption ==
  /\ NumServers > 0
  /\ NullServers \subseteq 1 .. NumServers
  /\ BadUrlServers \subseteq 1 .. NumServers
  /\ AbsoluteForm \subseteq Requests

VARIABLES
  pc,   \* pc[r]: how far request r is
  box   \* box[r]: balancerResult.server, the server Rewrite noted, or NoServer

rpVars == <<active, held, pc, box>>

(* "new"         not received yet                                           *)
(* "boxed"       ServeProxy made the result box, Rewrite has not run        *)
(* "untargeted"  Rewrite returned without setting the target URL            *)
(* "roundtrip"   sent to the chosen server, no response header yet          *)
(* "streaming"   header received and reported, body being copied            *)
(* "switching"   101 received and reported, connection not taken over yet   *)
(* "tunnel"      the upgraded connection (a websocket) is open              *)
(* "failed"      ErrorHandler answered 502, no header came                  *)
(* "broken"      ErrorHandler called after a 101 was reported               *)
(* "done", "aborted"  body or tunnel ended; the copy of the body failed     *)
Waiting  == {"untargeted", "roundtrip"}
Answered == {"streaming", "switching", "tunnel"}
Finished == {"failed", "broken", "done", "aborted"}
RequestState == {"new", "boxed"} \cup Waiting \cup Answered \cup Finished

Goto(r, from, to) ==
  /\ pc[r] = from
  /\ pc' = [pc EXCEPT ![r] = to]

-------------------------------------------------------------------------------

(* ServeProxy: an empty box in the request's context, then ServeHTTP.       *)
ServeProxy(r) ==
  /\ Goto(r, "new", "boxed")
  /\ box' = [box EXCEPT ![r] = NoServer]
  /\ UNCHANGED lcVars

(* Mutant: the chosen server is never noted.                                *)
Rewrite_EmptyBox(r) ==
  /\ NextServer(r)
  /\ Goto(r, "boxed", IF held'[r] \in NullServers \cup BadUrlServers
                      THEN "untargeted"
                      ELSE "roundtrip")
  /\ UNCHANGED box

(* Rewrite: Next has already counted the request when the hook looks at the *)
(* server it got.  For a server that is nil or has no url it returns before *)
(* the box is filled, for a url that does not parse just after; both leave  *)
(* the request with the URL it came with, which is a target only for an     *)
(* absolute-form request.                                                   *)
Rewrite(r) ==
  /\ NextServer(r)
  /\ box' = IF held'[r] \in NullServers
            THEN box
            ELSE [box EXCEPT ![r] = held'[r]]
  /\ Goto(r, "boxed", IF held'[r] \in NullServers \cup BadUrlServers
                      THEN "untargeted"
                      ELSE "roundtrip")

(* reportDone: nothing when the box is empty.  The box keeps its server.    *)
ReportDone(r) ==
  IF box[r] = NoServer
  THEN UNCHANGED lcVars
  ELSE /\ DoneEffect(box[r])
       /\ held' = [held EXCEPT ![r] = NoServer]

(* A response header can come to a request that has a target: the server    *)
(* Rewrite set, or the host of its own request line.                        *)
Answerable(r) ==
  \/ pc[r] = "roundtrip"
  \/ pc[r] = "untargeted" /\ r \in AbsoluteForm

(* Mutant: an upgraded connection is not reported at its start.             *)
ModifyResponse_NotUpgrades(r) ==
  /\ Answerable(r)
  /\ \/ Goto(r, pc[r], "streaming") /\ ReportDone(r)
     \/ Goto(r, pc[r], "switching") /\ UNCHANGED lcVars
  /\ UNCHANGED box

(* ModifyResponse: reportDone, then (sticky cookie, headers, log) nothing   *)
(* that least-connections has a part in.  It never returns an error.        *)
ModifyResponse(r) ==
  /\ Answerable(r)
  /\ \E to \in {"streaming", "switching"} : Goto(r, pc[r], to)
  /\ ReportDone(r)
  /\ UNCHANGED box

(* Mutant: ErrorHandler reports too, on a box that is still filled after    *)
(* ModifyResponse reported.                                                 *)
ErrorHandler_Reports(r) == ReportDone(r) /\ UNCHANGED box

(* ErrorHandler writes a 502 and calls nothing else.                        *)
ErrorHandler(r) == UNCHANGED <<active, held, box>>

(* The transport gives up: backend unreachable, connection cut before a     *)
(* header, client gone, or no host to send the request to.                  *)
RoundTripFails(r) ==
  /\ \E state \in Waiting : Goto(r, state, "failed")
  /\ ErrorHandler(r)

(* The rest of ServeHTTP, after ModifyResponse.                             *)
BodyEnds(r) ==
  /\ \/ Goto(r, "streaming", "done")
     \/ Goto(r, "streaming", "aborted")
  /\ UNCHANGED <<active, held, box>>

Upgrade(r) ==
  \/ /\ Goto(r, "switching", "tunnel")
     /\ UNCHANGED <<active, held, box>>
  \/ /\ Goto(r, "switching", "broken")
     /\ ErrorHandler(r)

(* Mutant: the end of an upgraded connection is reported as well.           *)
TunnelEnds_Reports(r) ==
  /\ Goto(r, "tunnel", "done")
  /\ ReportDone(r)
  /\ UNCHANGED box

TunnelEnds(r) ==
  /\ Goto(r, "tunnel", "done")
  /\ UNCHANGED <<active, held, box>>

-------------------------------------------------------------------------------

RPInit ==
  /\ LCInit
  /\ pc = [r \in Requests |-> "new"]
  /\ box = [r \in Requests |-> NoServer]

RPNext ==
  \E r \in Requests :
    \/ ServeProxy(r)
    \/ Rewrite(r)
    \/ ModifyResponse(r)
    \/ RoundTripFails(r)
    \/ BodyEnds(r)
    \/ Upgrade(r)
    \/ TunnelEnds(r)

RPSpec == RPInit /\ [][RPNext]_rpVars

-------------------------------------------------------------------------------

\* The variables range over the values the code gives them.
RPTypeOK ==
  /\ LCTypeOK
  /\ pc \in [Requests -> RequestState]
  /\ box \in [Requests -> Server \cup {NoServer}]

\* While a request waits for a response header, the box the hooks share names
\* exactly the server whose slot the request takes, so that the report to come
\* frees the right one; for an entry without url it is empty, and no report
\* will.
BoxNamesTheSlot ==
  \A r \in Requests :
    pc[r] \in Waiting =>
      /\ held[r] \in Server
      /\ box[r] = IF held[r] \in NullServers THEN NoServer ELSE held[r]

\* The requests that were sent to server s and did not get a response header:
\* those that still wait for it and those that failed, however long ago.
Unanswered(s) ==
  {r \in Requests : box[r] = s /\ pc[r] \in Waiting \cup {"failed"}}

\* What the counter of a server with a url is worth: it is the number of
\* requests that have not been answered, whatever else goes on.  A response
\* that is being sent, a websocket, a hand-over that breaks count nothing, and
\* a failure counts for ever.
CountsUnanswered ==
  \A s \in Server \ NullServers : active[s] = Cardinality(Unanswered(s))

\* The hooks keep the balancer's protocol: as far as the balancer can tell,
\* requests call Next and then Done at most once, with the server they were
\* given.  (ErrorHandler may run after ModifyResponse, on a box that is still
\* filled.)
KeepsBalancerProtocol == LCSpec

\* reportDone's comment, manager.go:154-157, also ADR-0009: every request
\* reports exactly once, no matter how it ends.  The code does not do this:
\* ErrorHandler does not report.
EveryRequestReports ==
  \A r \in Requests : pc[r] \in Finished => held[r] = NoServer

\* The requests that server s is still busy with: sent there and not ended.
BusyWith(s) ==
  {r \in Requests : box[r] = s /\ pc[r] \in {"roundtrip"} \cup Answered}

\* leastconnections.go:11-12 and docs/DYNAMIC_CONFIG.md:87: a counter is the
\* number of requests currently in flight to its server.  The code does not do
\* this for a response whose body is still being sent, or a websocket.
CountsRequestsInFlight ==
  \A s \in Server : active[s] >= Cardinality(BusyWith(s))

===============================================================================
