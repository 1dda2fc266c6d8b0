------------------------- MODULE MCWeightedRoundRobin -------------------------
(* Constants for model checking WeightedRoundRobin: every setting of four    *)
(* servers with no weight, zero, up to four, seven, a weight of which an int *)
(* has no room for two, or one beyond an int.                                *)
EXTENDS WeightedRoundRobin

Huge == IntMax - 40
TooLarge == IntMax + 1

MCSettings == [Server -> (0 .. 4) \cup {7, Huge, NoWeight, TooLarge}]

===============================================================================
