-------------------------- MODULE WeightedRoundRobin --------------------------
(***************************************************************************)
(* The weighted round-robin balancer, internal/proxy/balancer/             *)
(* weightedroundrobin.go.  Next runs wholly under wrr.mu, so it is one     *)
(* step, whichever request calls it; Done does nothing.  A server is its   *)
(* position in wrr.servers.  No entry of the list is null: the constructor *)
(* panics on one (line 40), as those in Panics of ClientAffinity do.       *)
(*                                                                         *)
(* Arithmetic is that of Go's int, which wraps around: nothing in the code *)
(* keeps the weights of a configuration from adding up to more than one.   *)
(* ExactWithinRoom says which weights are safe from it.                    *)
(***************************************************************************)
EXTENDS Integers

CONSTANTS
  NumServers,   \* len(wrr.servers)
  Settings,     \* the weights a configuration may give the servers
  NoWeight,     \* the nil *uint
  IntMax,       \* math.MaxInt
  MaxCalls      \* bound on the calls of Next

Server == 1 .. NumServers

\* A weight is a uint: it may be too large for an int.
ASSUME WeightAssumption ==
  /\ NumServers \in Nat
  /\ IntMax \in Nat \ {0}
  /\ NoWeight \notin Nat
  /\ MaxCalls \in Nat
  /\ Settings \subseteq [Server -> (0 .. 2 * IntMax + 1) \cup {NoWeight}]

VARIABLES
  weight,       \* weight[s]: weightedServer.weight, set by the constructor
  total,        \* wrr.total
  current,      \* current[s]: weightedServer.currentWeight
  calls,        \* how often Next was called (not in the code)
  picks         \* picks[s]: how often it returned s (not in the code)

wrrVars == <<weight, total, current, calls, picks>>

-------------------------------------------------------------------------------

IntMin == -IntMax - 1

\* What an int makes of a number: a uint of the upper half becomes negative,
\* and a sum out of range comes in again at the other end.
Wrapped(x) == ((x - IntMin) % (2 * IntMax + 2)) + IntMin

\* Mutant: a weight of zero is kept.
EffectiveWeight_KeepsZero(w) ==
  IF w # NoWeight /\ Wrapped(w) >= 0 THEN Wrapped(w) ELSE 1

\* The weight the constructor settles for.
EffectiveWeight(w) == IF w # NoWeight /\ Wrapped(w) > 0 THEN Wrapped(w) ELSE 1

\* The sums of the first n values of f, and of all.
PrefixSum(f) ==
  LET sum[n \in 0 .. NumServers] == IF n = 0 THEN 0 ELSE sum[n - 1] + f[n]
  IN sum

Sum(f) == PrefixSum(f)[NumServers]

\* NewWeightedRoundRobin.  The total is added up one weight at a time; where
\* it wraps around makes no difference to the result.
NewWeightedRoundRobin ==
  \E setting \in Settings :
    /\ weight = [s \in Server |-> EffectiveWeight(setting[s])]
    /\ total = Wrapped(Sum(weight))
    /\ current = [s \in Server |-> 0]

-------------------------------------------------------------------------------

\* What the loop of Next makes of every server's current weight.
Raised == [s \in Server |-> Wrapped(current[s] + weight[s])]

\* The loop moves on only to a strictly greater weight.
Heaviest(s) ==
  /\ \A t \in Server : Raised[t] <= Raised[s]
  /\ \A t \in 1 .. (s - 1) : Raised[t] < Raised[s]

(* Mutant: the picked server is docked by its own weight only.              *)
Next_DocksOwnWeight ==
  /\ calls < MaxCalls
  /\ \E s \in Server :
       /\ Heaviest(s)
       /\ current' = [Raised EXCEPT ![s] = Wrapped(@ - weight[s])]
       /\ picks' = [picks EXCEPT ![s] = @ + 1]
  /\ calls' = calls + 1
  /\ UNCHANGED <<weight, total>>

(* Mutant: the picked server is not docked.                                 *)
Next_NotDocked ==
  /\ calls < MaxCalls
  /\ \E s \in Server :
       /\ Heaviest(s)
       /\ current' = Raised
       /\ picks' = [picks EXCEPT ![s] = @ + 1]
  /\ calls' = calls + 1
  /\ UNCHANGED <<weight, total>>

(* Next.  With no server it returns nil and changes nothing.                *)
Next ==
  /\ calls < MaxCalls
  /\ \E s \in Server :
       /\ Heaviest(s)
       /\ current' = [Raised EXCEPT ![s] = Wrapped(@ - total)]
       /\ picks' = [picks EXCEPT ![s] = @ + 1]
  /\ calls' = calls + 1
  /\ UNCHANGED <<weight, total>>

WRRInit ==
  /\ NewWeightedRoundRobin
  /\ calls = 0
  /\ picks = [s \in Server |-> 0]

WRRSpec == WRRInit /\ [][Next]_wrrVars

-------------------------------------------------------------------------------

\* The variables range over the values the code gives them, an int being an
\* int, also when it wraps around.
WRRTypeOK ==
  /\ weight \in [Server -> 1 .. IntMax]
  /\ total \in IntMin .. IntMax
  /\ current \in [Server -> IntMin .. IntMax]
  /\ calls \in Nat
  /\ picks \in [Server -> Nat]

\* The weights leave room for what Next adds up on the way.
Fits(w) == (NumServers + 1) * Sum(w) <= IntMax

\* Where the weights leave room, wrapping around plays no part, however long
\* the balancer is in use: a server may save up the turns it was passed over,
\* and the picked one owes the total, but within bounds that grow with neither
\* the calls nor the picks.
ExactWithinRoom ==
  Fits(weight) =>
    /\ total = Sum(weight)
    /\ \A s \in Server :
         /\ current[s] + weight[s] \in IntMin .. IntMax
         /\ current[s] + weight[s] - total \in IntMin .. IntMax

\* No server is ever a whole pick ahead of its share of the calls.
EvenlySpread ==
  \A s \in Server : Sum(weight) * picks[s] < calls * weight[s] + Sum(weight)

\* weightedroundrobin.go:19-22: after any number of calls, not only after full
\* rounds, the picks are spread evenly, for weights that leave room.
NeverAhead == Fits(weight) => EvenlySpread

\* After each round of as many calls as the weights add up to, every server
\* was picked exactly in proportion to its weight, for weights that leave room.
RoundsAreProportional ==
  Fits(weight) =>
    \A k \in 0 .. calls :
      calls = k * Sum(weight) => \A s \in Server : picks[s] = k * weight[s]

===============================================================================
