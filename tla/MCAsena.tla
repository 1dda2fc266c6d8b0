------------------------------- MODULE MCAsena --------------------------------
(* Constants for model checking Asena: the file has content a, b or one with *)
(* a null router; a routes r1 to users, b drops users and routes all to      *)
(* orders.                                                                   *)
EXTENDS Asena

CONSTANTS a, b, nullrouter, timer1, users, orders, r1

MCContents == {a, b, nullrouter}
NoContents == {}
MCNullRouter == {nullrouter}
OneReloader == {timer1}
SlowBuildAndSignal == {"slow_build", "signal"}
MCServices == {users, orders}
MCRequests == {r1}

RouterTo(service) ==
  [usable |-> TRUE, matches |-> Requests, specificity |-> 15, service |-> service]

A == [services |-> {users, orders}, routers |-> (1 :> RouterTo(users))]
B == [services |-> {orders}, routers |-> (1 :> RouterTo(orders))]

MCConfigs == {A, B}
MCHttpOf == [content \in MCContents |-> IF content = b THEN B ELSE A]

===============================================================================
