------------------------------ MODULE LeastBusy ------------------------------
(***************************************************************************)
(* What the least-connections algorithm promises, with no counter in       *)
(* sight: every request goes to a server that, at that moment, serves the  *)
(* fewest requests, and the earliest such server of the list wins a tie.   *)
(* LeastConnections.tla implements this with one integer per server.       *)
(***************************************************************************)
EXTENDS Integers, FiniteSets

CONSTANTS
  NumServers,   \* length of the server list of the service
  Requests,     \* the requests (goroutines) that use the balancer
  NoServer      \* no server is held

VARIABLE held   \* held[r]: the server request r occupies, or NoServer

Server == 1 .. NumServers

\* The requests that occupy server s.
InFlight(s) == {r \in Requests : held[r] = s}

Load(s) == Cardinality(InFlight(s))

(* Request r is sent to the least busy server, the first of them in a tie. *)
Dispatch(r) ==
  /\ held[r] = NoServer
  /\ \E s \in Server :
       /\ \A t \in Server : Load(s) <= Load(t)
       /\ \A t \in 1 .. (s - 1) : Load(s) < Load(t)
       /\ held' = [held EXCEPT ![r] = s]

(* Request r gives its server back. *)
Release(r) ==
  /\ held[r] # NoServer
  /\ held' = [held EXCEPT ![r] = NoServer]

Init == held = [r \in Requests |-> NoServer]

Next == \E r \in Requests : Dispatch(r) \/ Release(r)

Spec == Init /\ [][Next]_held

==============================================================================
