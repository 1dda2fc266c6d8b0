-------------------------------- MODULE IPHash --------------------------------
(***************************************************************************)
(* The IP-hash balancer, internal/proxy/balancer/iphash.go: a function of  *)
(* the address and the length of the list, except for a request without    *)
(* an address, which takes its turn by a counter.                          *)
(***************************************************************************)
EXTENDS RoundRobin

CONSTANTS
  AddressHash,  \* the 32-bit FNV-1a hash of each client address
  NoAddress     \* the empty string: no client IP

ASSUME IPHashAssumption ==
  \A a \in DOMAIN AddressHash : AddressHash[a] \in Nat /\ a # NoAddress

NewIPHash(servers) ==
  [algorithm |-> "ip-hash", servers |-> servers, counter |-> 0]

(* Mutant: the hash moves the shared counter instead of choosing by itself. *)
NextIPHash_Counts(balancer, address) ==
  IF balancer.servers = <<>>
  THEN Choice(NoServer, balancer)
  ELSE Rotate([balancer EXCEPT !.counter = @ + AddressHash[address]])

NextIPHash(balancer, address) ==
  CASE balancer.servers = <<>> -> Choice(NoServer, balancer)
    [] balancer.servers # <<>> /\ address = NoAddress -> Rotate(balancer)
    [] OTHER -> Choice((AddressHash[address] % Len(balancer.servers)) + 1, balancer)

==============================================================================
