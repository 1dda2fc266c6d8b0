----------------------------- MODULE MCLeastTime ------------------------------
(* Constants for model checking LeastTime: three servers, four requests at   *)
(* once, and responses that count once or, as errors, five times.            *)
EXTENDS LeastTime, TLC

CONSTANTS r1, r2, r3, r4

MCRequests == {r1, r2, r3, r4}
MCSymmetry == Permutations(MCRequests)

===============================================================================
