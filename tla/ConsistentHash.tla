---------------------------- MODULE ConsistentHash ----------------------------
(***************************************************************************)
(* The consistent-hash balancer, internal/proxy/balancer/consistenthash.go.*)
(* The search stops at the first point whose hash is not below the key, so *)
(* of points with equal hashes only the first in the sorted slice is ever  *)
(* found.  sort.Slice does not promise which one that is.  A ring is       *)
(* therefore a function from hashes to a server that has a point there,    *)
(* and the constructor may make any such ring.                             *)
(***************************************************************************)
EXTENDS IPHash, FiniteSetsExt

CONSTANTS
  Replicas,     \* consistentHashReplicas
  PointHash     \* PointHash[url][i]: the 32-bit FNV-1a hash of url # i

ASSUME ConsistentHashAssumption ==
  /\ Replicas \in Nat
  /\ \A url \in DOMAIN PointHash : PointHash[url] \in [0 .. Replicas - 1 -> Nat]

(* Mutant: the points are hashed from the position in the list.             *)
PointsOf_ByPosition(servers, s) ==
  {2 * s + 4 * i : i \in 0 .. Replicas - 1}

PointsOf(servers, s) == {PointHash[servers[s].url][i] : i \in 0 .. Replicas - 1}

\* The constructor asks every entry for its url, so none may be null: Panics of
\* ClientAffinity.tla.
WithUrl(servers) == {s \in DOMAIN servers : servers[s].url # NoUrl}

Rings(servers) ==
  LET hashes == UNION {PointsOf(servers, s) : s \in WithUrl(servers)}
  IN {ring \in [hashes -> WithUrl(servers)] :
        \A h \in hashes : h \in PointsOf(servers, ring[h])}

NewConsistentHash(servers) ==
  {[algorithm |-> "consistent-hash", servers |-> servers, counter |-> 0,
    ring |-> ring] : ring \in Rings(servers)}

\* The hash of the point a key is sent to: the search goes up and, past the
\* last point, starts again at the first.
PointFor(hashes, key) ==
  LET above == {h \in hashes : h >= key}
  IN IF above = {} THEN Min(hashes) ELSE Min(above)

NextConsistentHash(balancer, address) ==
  CASE DOMAIN balancer.ring = {} -> Choice(NoServer, balancer)
    [] DOMAIN balancer.ring # {} /\ address = NoAddress -> Rotate(balancer)
    [] OTHER -> Choice(balancer.ring[PointFor(DOMAIN balancer.ring, AddressHash[address])],
                       balancer)

==============================================================================
