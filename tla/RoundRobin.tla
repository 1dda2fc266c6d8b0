------------------------------ MODULE RoundRobin ------------------------------
(***************************************************************************)
(* The round-robin balancer, internal/proxy/balancer/roundrobin.go.  A     *)
(* balancer is a value here and Next gives the chosen position and the     *)
(* balancer after the call: the one atomic addition is all that calls      *)
(* share.  ClientAffinity.tla keeps the values and makes the calls.        *)
(*                                                                         *)
(* A server is a record with its url; a choice is its position, from 1.    *)
(* An entry of the list may itself be null: validation lets it pass.       *)
(***************************************************************************)
EXTENDS Integers, Sequences

CONSTANTS
  CounterModulus,   \* 2^64
  NoUrl,            \* the nil URL of an entry without url
  NullServer        \* the nil *ServerCfg of a null entry

ASSUME RoundRobinAssumption == CounterModulus \in Nat \ {0}

\* The nil *ServerCfg, where it comes from no entry.
NoServer == 0

\* The url of the server at a position: for Rewrite a null entry is as good as
\* one without url.
UrlAt(servers, s) == IF servers[s] = NullServer THEN NoUrl ELSE servers[s].url

NewRoundRobin(servers) ==
  [algorithm |-> "round-robin", servers |-> servers, counter |-> 0]

Choice(server, balancer) == [server |-> server, balancer |-> balancer]

(* Mutant: an entry without url hands its turn to the one after it.         *)
Rotate_SkipsNoUrl(balancer) ==
  LET pos == (balancer.counter + 1) % CounterModulus
      l == Len(balancer.servers)
  IN Choice(IF UrlAt(balancer.servers, (pos % l) + 1) = NoUrl
            THEN ((pos + 1) % l) + 1
            ELSE (pos % l) + 1,
            [balancer EXCEPT !.counter = pos])

(* Mutant: the counter does not wrap.                                       *)
Rotate_Unbounded(balancer) ==
  LET pos == balancer.counter + 1
  IN Choice((pos % Len(balancer.servers)) + 1, [balancer EXCEPT !.counter = pos])

(* atomic.AddUint64 and the index it gives: the first call gets the second  *)
(* server of the list.                                                      *)
Rotate(balancer) ==
  LET pos == (balancer.counter + 1) % CounterModulus
  IN Choice((pos % Len(balancer.servers)) + 1, [balancer EXCEPT !.counter = pos])

NextRoundRobin(balancer) ==
  IF balancer.servers = <<>> THEN Choice(NoServer, balancer) ELSE Rotate(balancer)

==============================================================================
