------------------------------ MODULE MCManager ------------------------------
(* Constants for model checking Manager: three configurations over two       *)
(* services and three router names.                                          *)
EXTENDS Manager

CONSTANTS users, orders, r1, r2

MCServices == {users, orders}
MCRequests == {r1, r2}

RouterOf(matches, specificity, service) ==
  [usable |-> TRUE, matches |-> matches, specificity |-> specificity,
   service |-> service]

\* A broad rule for all requests and a narrower one for r1.
Both == [services |-> {users, orders},
         routers  |-> (1 :> RouterOf({r1, r2}, 15, users)
                    @@ 2 :> RouterOf({r1}, 30, orders))]

\* Two rules of the same specificity; the narrowest rule is not usable.
Tied == [services |-> {users, orders},
         routers  |-> (1 :> [RouterOf({r1}, 40, users) EXCEPT !.usable = FALSE]
                    @@ 2 :> RouterOf({r1, r2}, 20, orders)
                    @@ 3 :> RouterOf({r1}, 20, users))]

\* One service is gone and all requests go to the other.
Merged == [services |-> {users}, routers |-> (2 :> RouterOf({r1, r2}, 15, users))]

\* A router names a service that is not defined, and r2 has no router.
Dangling == [services |-> {users}, routers |-> (1 :> RouterOf({r1}, 30, orders))]

MCConfigs == {Both, Tied, Merged, Dangling}

===============================================================================
