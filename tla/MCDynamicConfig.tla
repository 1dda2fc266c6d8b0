--------------------------- MODULE MCDynamicConfig ---------------------------
(* Constants for model checking DynamicConfig: contents a and b load, broken *)
(* is malformed, nullservice and nullrouter are what their names say, mixed  *)
(* has a null service and a bad one.                                         *)
EXTENDS DynamicConfig

CONSTANTS a, b, broken, mixed, nullservice, nullrouter, timer1, timer2

NoContents == {}
MCContents == {a, b, broken}
MCMalformed == {broken}
MCAllContents == {a, b, broken, mixed, nullservice, nullrouter}
MCBadService == {mixed}
MCNullService == {mixed, nullservice}
MCNullRouter == {nullrouter}
OneReloader == {timer1}
TwoReloaders == {timer1, timer2}

Orderly == {}
AnySurroundings == Surrounding
SlowBuild == {"slow_build"}
Replaced == {"replace"}

===============================================================================
