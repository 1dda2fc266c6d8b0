--------------------------- MODULE MCClientAffinity ---------------------------
(* Constants for model checking ClientAffinity: two browsers with two        *)
(* requests each, and a reload from any algorithm to any algorithm,          *)
(* with servers added, removed, moved in the list, null or without url, and  *)
(* with two urls whose ring points collide.                                  *)
EXTENDS ClientAffinity, TLC

CONSTANTS web, api, c1, c2, r1, r2, r3, r4, u1, u2, u3, addr1, addr2

MCServices == {web, api}
OneService == {web}
OwnHosts == [s \in {web, api} |-> s]
OneHost == [s \in {web, api} |-> web]

MCClients == {c1, c2}
MCAddressOf == c1 :> addr1 @@ c2 :> addr2
MCRequests == {r1, r2, r3, r4}
MCOwner == [r \in MCRequests |-> IF r \in {r1, r2} THEN c1 ELSE c2]
AllOfOne == [r \in MCRequests |-> c1]
MCSymmetry == Permutations({r1, r2}) \cup Permutations({r3, r4})

\* On a ring of ten, addr1 meets the point that u1 and u3 share and addr2
\* goes past the last point to the first.
MCAddressHash == addr1 :> 2 @@ addr2 :> 9
MCPointHash == u1 :> (0 :> 3 @@ 1 :> 6) @@ u2 :> (0 :> 0 @@ 1 :> 5)
                 @@ u3 :> (0 :> 3 @@ 1 :> 8)
MCUrlHash == u1 :> 11 @@ u2 :> 22 @@ u3 :> 33

List(urls) ==
  [s \in DOMAIN urls |-> IF urls[s] = NullServer THEN NullServer ELSE [url |-> urls[s]]]
LB(algorithm, urls) == [algorithm |-> algorithm, servers |-> List(urls)]

MCWebs ==
  { LB("round-robin", <<u1, NullServer, u3>>), LB("sticky-session", <<u1, NullServer>>),
    LB("sticky-session", <<u1, u2>>), LB("sticky-session", <<u3, NoUrl, u1>>),
    LB("ip-hash", <<u1, u2, u3>>), LB("ip-hash", <<u2, u1, u1>>),
    LB("consistent-hash", <<u1, u2>>), LB("consistent-hash", <<u2, NoUrl, u3, u1>>) }

MCConfigs == {web :> lb : lb \in MCWebs}
BothSticky == {[s \in {web, api} |-> LB("sticky-session", <<u1, u2>>)]}

===============================================================================
