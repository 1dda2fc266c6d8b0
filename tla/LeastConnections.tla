--------------------------- MODULE LeastConnections ---------------------------
(***************************************************************************)
(* The least-connections balancer, internal/proxy/balancer/                *)
(* leastconnections.go.  Its methods Next and Done each run wholly under   *)
(* lc.mu, so each is one step here.  A server is its position in           *)
(* lc.servers; byServer is then the identity on Server, and a server       *)
(* pointer that byServer does not know is a value outside Server.          *)
(***************************************************************************)
EXTENDS Integers, FiniteSets

CONSTANTS
  NumServers,   \* len(lc.servers)
  Requests,     \* the request goroutines that call Next and Done
  NoServer      \* the nil *ServerCfg

ASSUME LeastConnectionsAssumption ==
  /\ NumServers \in Nat
  /\ IsFiniteSet(Requests)
  /\ NoServer \notin 1 .. NumServers

VARIABLES
  active,       \* active[s]: the counter of connServer s
  held          \* held[r]: the server Next returned to r and r has not
                \*   given to Done yet (kept by the callers), or NoServer

lcVars == <<active, held>>

Server == 1 .. NumServers

-------------------------------------------------------------------------------

(* Mutant: the scan moves on to a counter that is equal.                    *)
FirstLeastActive_LastOfTies(s) ==
  /\ \A t \in Server : active[s] <= active[t]
  /\ \A t \in (s + 1) .. NumServers : active[s] < active[t]

(* The scan of Next: it starts at the first server and moves on only to a   *)
(* strictly smaller counter, so it ends at the first of the smallest.       *)
FirstLeastActive(s) ==
  /\ \A t \in Server : active[s] <= active[t]
  /\ \A t \in 1 .. (s - 1) : active[s] < active[t]

(* Mutant: Next returns the server after the one it counts.                 *)
NextServer_OffByOne(r) ==
  /\ held[r] = NoServer
  /\ \E s \in Server :
       /\ FirstLeastActive(s)
       /\ active' = [active EXCEPT ![s] = @ + 1]
       /\ held' = [held EXCEPT ![r] = s + 1]

(* Next, called by r.  With no server it returns nil and changes nothing.   *)
NextServer(r) ==
  /\ held[r] = NoServer
  /\ \E s \in Server :
       /\ FirstLeastActive(s)
       /\ active' = [active EXCEPT ![s] = @ + 1]
       /\ held' = [held EXCEPT ![r] = s]

(* What Done(s) does to the counters: nothing for a server the balancer     *)
(* does not know or whose counter is not positive.                          *)
DoneEffect(s) ==
  active' = IF s \in Server /\ active[s] > 0
            THEN [active EXCEPT ![s] = @ - 1]
            ELSE active

(* Done, called by r with the server it was given.                          *)
Done(r) ==
  /\ held[r] # NoServer
  /\ DoneEffect(held[r])
  /\ held' = [held EXCEPT ![r] = NoServer]

-------------------------------------------------------------------------------

LCInit ==
  /\ active = [s \in Server |-> 0]
  /\ held = [r \in Requests |-> NoServer]

LCNext == \E r \in Requests : NextServer(r) \/ Done(r)

LCSpec == LCInit /\ [][LCNext]_lcVars

-------------------------------------------------------------------------------

\* The variables range over the values the code gives them; in particular
\* the int64 counters never go below zero.
LCTypeOK ==
  /\ active \in [Server -> Nat]
  /\ held \in [Requests -> Server \cup {NoServer}]

\* The requests that were given server s and have not reported back.
InFlight(s) == {r \in Requests : held[r] = s}

\* connServer.active is what leastconnections.go says it is: the number of
\* requests currently in flight to the server, whatever the interleaving of
\* Next and Done calls.
ActiveIsInFlight == \A s \in Server : active[s] = Cardinality(InFlight(s))

LB == INSTANCE LeastBusy WITH
        NumServers <- NumServers, Requests <- Requests, NoServer <- NoServer,
        held       <- held

\* The counters implement the promise of the algorithm: each pick is a least
\* busy server of that moment and the list order breaks ties, although Next
\* never looks at the requests themselves.
ImplementsLeastBusy == LB!Spec

===============================================================================
