----------------------- MODULE WeightedRoundRobin_proof -----------------------
(***************************************************************************)
(* Proofs about WeightedRoundRobin, for any servers, settings of their     *)
(* weights and number of calls.                                            *)
(*                                                                         *)
(* The argument rests on two sums: the weights add up to the total, and so *)
(* the current weights add up to zero before every call.  Hence after the  *)
(* raise some server is above zero, the one that is picked stays above     *)
(* minus the total, and none can be far above zero: where the weights      *)
(* leave room for that, no addition wraps around, and the sums stay those  *)
(* of the integers.                                                        *)
(***************************************************************************)
EXTENDS WeightedRoundRobin, WellFoundedInduction, TLAPS

-------------------------------------------------------------------------------
(* Induction over the natural numbers in a form without an operator as      *)
(* parameter: what is to be shown of every number is given by the set of    *)
(* the numbers it holds for.                                                *)

\* A set of natural numbers that is not empty has a smallest element.
LEMMA SmallestNumber ==
  ASSUME NEW T \in SUBSET Nat, T # {}
  PROVE  \E x \in T : \A y \in T : x <= y
<1> DEFINE R == {p \in Nat \X Nat : p[1] < p[2]}
<1>1. IsWellFoundedOn(R, Nat)
  BY NatLessThanWellFounded, Zenon DEF OpToRel
<1>2. \E x \in T : \A y \in T : <<y, x>> \notin R
  <2> HIDE DEF R
  <2> QED
    BY <1>1, WFMin
<1>3. \A x, y \in T : <<y, x>> \notin R => x <= y
  OBVIOUS
<1> QED
  BY <1>2, <1>3

\* Induction up to n: a set that has 0 and, with every number below n, the
\* next one, has all numbers up to n.
THEOREM InductionUpTo ==
  ASSUME NEW n \in Nat, NEW S,
         0 \in S,
         \A i \in 0 .. (n - 1) : i \in S => i + 1 \in S
  PROVE  0 .. n \subseteq S
<1> SUFFICES ASSUME (0 .. n) \ S # {}
             PROVE  FALSE
  OBVIOUS
<1> DEFINE Missing == (0 .. n) \ S
<1>0. Missing \in SUBSET Nat /\ Missing # {}
  OBVIOUS
<1>1. PICK x \in Missing : \A y \in Missing : x <= y
  <2> HIDE DEF Missing
  <2> QED
    BY <1>0, SmallestNumber
<1>2. x - 1 \in 0 .. (n - 1)
  BY <1>1
<1>3. x - 1 \in S
  BY <1>1, <1>2
<1>4. (x - 1) + 1 \in S
  BY <1>2, <1>3
<1> QED
  BY <1>1, <1>4

-------------------------------------------------------------------------------
(* Sums.                                                                    *)

IsPrefixSum(sum, f, n) ==
  /\ sum \in [0 .. n -> Int]
  /\ sum[0] = 0
  /\ \A i \in 1 .. n : sum[i] = sum[i - 1] + f[i]

\* The recursive definition of the prefix sums has a solution.
LEMMA PrefixSumExists ==
  ASSUME NEW f \in [Server -> Int]
  PROVE  \E sum : IsPrefixSum(sum, f, NumServers)
<1> DEFINE Upto == {n \in 0 .. NumServers : \E sum : IsPrefixSum(sum, f, n)}
<1>1. 0 \in Upto
  <2>1. IsPrefixSum([i \in 0 .. 0 |-> 0], f, 0)
    BY DEF IsPrefixSum
  <2> QED
    BY <2>1, WeightAssumption
<1>2. ASSUME NEW n \in 0 .. (NumServers - 1), n \in Upto
      PROVE  n + 1 \in Upto
  <2>1. PICK sum : IsPrefixSum(sum, f, n)
    BY <1>2
  <2> DEFINE next == [i \in 0 .. (n + 1) |-> IF i = n + 1 THEN sum[n] + f[n + 1]
                                                         ELSE sum[i]]
  <2>2. n \in Nat /\ n + 1 \in Server /\ f[n + 1] \in Int
    BY WeightAssumption DEF Server
  <2>3. next \in [0 .. (n + 1) -> Int]
    BY <2>1, <2>2 DEF IsPrefixSum
  <2>4. next[0] = 0
    BY <2>1, <2>2 DEF IsPrefixSum
  <2>5. ASSUME NEW i \in 1 .. (n + 1)
        PROVE  next[i] = next[i - 1] + f[i]
    BY <2>1, <2>2 DEF IsPrefixSum
  <2>6. IsPrefixSum(next, f, n + 1)
    BY <2>3, <2>4, <2>5 DEF IsPrefixSum
  <2> QED
    BY <2>6, <2>2, WeightAssumption
<1>3. 0 .. NumServers \subseteq Upto
  <2> HIDE DEF Upto
  <2> QED
    BY <1>1, <1>2, WeightAssumption, InductionUpTo
<1> QED
  BY <1>3, WeightAssumption

(* The right-hand side of the recursive definition.                         *)
Unfold(p, f) == [n \in 0 .. NumServers |-> IF n = 0 THEN 0 ELSE p[n - 1] + f[n]]

LEMMA SolutionIsPrefixSum ==
  ASSUME NEW f \in [Server -> Int], NEW p, p = Unfold(p, f)
  PROVE  IsPrefixSum(p, f, NumServers)
<1>1. /\ p[0] = 0
      /\ \A n \in 1 .. NumServers : p[n] = p[n - 1] + f[n]
  <2>1. \A n \in 0 .. NumServers : Unfold(p, f)[n] = IF n = 0 THEN 0 ELSE p[n - 1] + f[n]
    BY DEF Unfold
  <2>2. \A n \in 0 .. NumServers : p[n] = IF n = 0 THEN 0 ELSE p[n - 1] + f[n]
    BY <2>1
  <2> QED
    BY <2>2, WeightAssumption
<1> DEFINE Typed == {n \in 0 .. NumServers : p[n] \in Int}
<1>2. 0 .. NumServers \subseteq Typed
  <2>1. 0 \in Typed
    BY <1>1, WeightAssumption
  <2>2. ASSUME NEW n \in 0 .. (NumServers - 1), n \in Typed
        PROVE  n + 1 \in Typed
    <3>1. n + 1 \in 1 .. NumServers /\ (n + 1) - 1 = n /\ f[n + 1] \in Int
      BY WeightAssumption DEF Server
    <3>2. p[n + 1] = p[n] + f[n + 1]
      BY <1>1, <3>1
    <3> QED
      BY <2>2, <3>1, <3>2
  <2> HIDE DEF Typed
  <2> QED
    BY <2>1, <2>2, WeightAssumption, InductionUpTo
<1>3. p \in [0 .. NumServers -> Int]
  <2>1. \A n \in 0 .. NumServers : Unfold(p, f)[n] \in Int
    BY <1>2
  <2>2. Unfold(p, f) \in [0 .. NumServers -> Int]
    BY <2>1 DEF Unfold
  <2> QED
    BY <2>2
<1> QED
  BY <1>1, <1>3 DEF IsPrefixSum

\* What the operator PrefixSum returns.
LEMMA PrefixSumIs ==
  ASSUME NEW f \in [Server -> Int]
  PROVE  IsPrefixSum(PrefixSum(f), f, NumServers)
<1>1. PICK sum : IsPrefixSum(sum, f, NumServers)
  BY PrefixSumExists
<1>2. sum = Unfold(sum, f)
  BY <1>1, WeightAssumption DEF IsPrefixSum, Unfold
<1>3. PrefixSum(f) = CHOOSE p : p = Unfold(p, f)
  BY DEF PrefixSum, Unfold
<1>4. PrefixSum(f) = Unfold(PrefixSum(f), f)
  BY <1>2, <1>3
<1> QED
  BY <1>4, SolutionIsPrefixSum

\* The sum of two functions.
LEMMA SumAdds ==
  ASSUME NEW f \in [Server -> Int], NEW g \in [Server -> Int], NEW h \in [Server -> Int],
         \A s \in Server : h[s] = f[s] + g[s]
  PROVE  Sum(h) = Sum(f) + Sum(g)
<1> DEFINE F == PrefixSum(f)
           G == PrefixSum(g)
           H == PrefixSum(h)
           Good == {n \in 0 .. NumServers : H[n] = F[n] + G[n]}
<1>1. /\ IsPrefixSum(F, f, NumServers)
      /\ IsPrefixSum(G, g, NumServers)
      /\ IsPrefixSum(H, h, NumServers)
  BY PrefixSumIs
<1> HIDE DEF F, G, H
<1>2. 0 \in Good
  BY <1>1, WeightAssumption DEF IsPrefixSum
<1>3. ASSUME NEW n \in 0 .. (NumServers - 1), n \in Good
      PROVE  n + 1 \in Good
  <2>1. n + 1 \in 1 .. NumServers /\ n + 1 \in Server /\ (n + 1) - 1 = n
    BY WeightAssumption DEF Server
  <2>2. /\ F[n + 1] = F[n] + f[n + 1]
        /\ G[n + 1] = G[n] + g[n + 1]
        /\ H[n + 1] = H[n] + h[n + 1]
    BY <1>1, <2>1 DEF IsPrefixSum
  <2>3. F[n] \in Int /\ G[n] \in Int /\ H[n] \in Int
    BY <1>1, WeightAssumption DEF IsPrefixSum
  <2> QED
    BY <1>3, <2>1, <2>2, <2>3
<1>4. 0 .. NumServers \subseteq Good
  <2> HIDE DEF Good
  <2> QED
    BY <1>2, <1>3, WeightAssumption, InductionUpTo
<1> QED
  BY <1>4, WeightAssumption DEF Sum, F, G, H

LEMMA SumType ==
  ASSUME NEW f \in [Server -> Int]
  PROVE  Sum(f) \in Int
BY PrefixSumIs, WeightAssumption DEF Sum, IsPrefixSum

\* A sum of values from c on is at least as many times c.
LEMMA SumAtLeast ==
  ASSUME NEW f \in [Server -> Int], NEW c \in Int, \A s \in Server : c <= f[s]
  PROVE  NumServers * c <= Sum(f)
<1> DEFINE F == PrefixSum(f)
           Good == {n \in 0 .. NumServers : n * c <= F[n]}
<1>1. IsPrefixSum(F, f, NumServers)
  BY PrefixSumIs
<1> HIDE DEF F
<1>2. 0 \in Good
  BY <1>1, WeightAssumption DEF IsPrefixSum
<1>3. ASSUME NEW n \in 0 .. (NumServers - 1), n \in Good
      PROVE  n + 1 \in Good
  <2>1. n + 1 \in 1 .. NumServers /\ n + 1 \in Server /\ (n + 1) - 1 = n
    BY WeightAssumption DEF Server
  <2>2. F[n + 1] = F[n] + f[n + 1] /\ F[n] \in Int /\ F[n + 1] \in Int
    BY <1>1, <2>1, WeightAssumption DEF IsPrefixSum
  <2>3. (n + 1) * c = n * c + c
    BY <2>1
  <2>4. n * c <= F[n] /\ c <= f[n + 1] /\ n * c \in Int /\ f[n + 1] \in Int
    BY <1>3, <2>1
  <2>5. (n + 1) * c <= F[n + 1]
    BY <2>2, <2>3, <2>4
  <2> QED
    BY <2>1, <2>5
<1>4. 0 .. NumServers \subseteq Good
  <2> HIDE DEF Good
  <2> QED
    BY <1>2, <1>3, WeightAssumption, InductionUpTo
<1> QED
  BY <1>4, WeightAssumption DEF Sum, F

\* The value of a function that is zero but at one place.
LEMMA SumOfPoint ==
  ASSUME NEW f \in [Server -> Int], NEW s \in Server,
         \A t \in Server \ {s} : f[t] = 0
  PROVE  Sum(f) = f[s]
<1> DEFINE F == PrefixSum(f)
           Good == {n \in 0 .. NumServers : F[n] = IF n < s THEN 0 ELSE f[s]}
<1>1. IsPrefixSum(F, f, NumServers)
  BY PrefixSumIs
<1> HIDE DEF F
<1>2. 0 \in Good
  BY <1>1, WeightAssumption DEF IsPrefixSum, Server
<1>3. ASSUME NEW n \in 0 .. (NumServers - 1), n \in Good
      PROVE  n + 1 \in Good
  <2>1. n + 1 \in 1 .. NumServers /\ n + 1 \in Server /\ (n + 1) - 1 = n
    BY WeightAssumption DEF Server
  <2>2. F[n + 1] = F[n] + f[n + 1] /\ F[n] \in Int
    BY <1>1, <2>1, WeightAssumption DEF IsPrefixSum
  <2>3. CASE n + 1 = s
    BY <1>3, <2>1, <2>2, <2>3 DEF Server
  <2>4. CASE n + 1 # s
    BY <1>3, <2>1, <2>2, <2>4, WeightAssumption DEF Server
  <2> QED
    BY <2>3, <2>4
<1>4. 0 .. NumServers \subseteq Good
  <2> HIDE DEF Good
  <2> QED
    BY <1>2, <1>3, WeightAssumption, InductionUpTo
<1>5. ~(NumServers < s)
  BY WeightAssumption DEF Server
<1> QED
  BY <1>4, <1>5, WeightAssumption DEF Sum, F

\* A change of one value changes the sum by as much.
LEMMA SumOfChange ==
  ASSUME NEW f \in [Server -> Int], NEW s \in Server, NEW d \in Int
  PROVE  Sum([f EXCEPT ![s] = @ + d]) = Sum(f) + d
<1> DEFINE point == [t \in Server |-> IF t = s THEN d ELSE 0]
           changed == [f EXCEPT ![s] = @ + d]
<1>1. point \in [Server -> Int] /\ changed \in [Server -> Int]
  OBVIOUS
<1>2. Sum(point) = d
  BY <1>1, SumOfPoint
<1>3. \A t \in Server : changed[t] = f[t] + point[t]
  OBVIOUS
<1> HIDE DEF point, changed
<1>4. Sum(changed) = Sum(f) + Sum(point)
  BY <1>1, <1>3, SumAdds
<1> QED
  BY <1>2, <1>4 DEF changed

\* One value is what the sum leaves to it, if no other is below minus c.
LEMMA ValueBound ==
  ASSUME NEW f \in [Server -> Int], NEW s \in Server, NEW c \in Nat,
         \A t \in Server : -c <= f[t]
  PROVE  f[s] <= Sum(f) + NumServers * c
<1> DEFINE others == [f EXCEPT ![s] = @ + (-f[s])]
<1>1. others \in [Server -> Int] /\ -f[s] \in Int
  OBVIOUS
<1>2. Sum(others) = Sum(f) + (-f[s])
  BY <1>1, SumOfChange
<1>3. \A t \in Server : -c <= others[t]
  OBVIOUS
<1>4. NumServers * (-c) <= Sum(others)
  <2>1. -c \in Int
    OBVIOUS
  <2> HIDE DEF others
  <2> QED
    BY <1>1, <1>3, <2>1, SumAtLeast
<1>5. NumServers * (-c) = -(NumServers * c) /\ NumServers * c \in Int
  BY WeightAssumption
<1> QED
  BY <1>1, <1>2, <1>4, <1>5, SumType

-------------------------------------------------------------------------------
(* What an int makes of a number.                                           *)

LEMMA Remainder ==
  ASSUME NEW y \in Int, NEW m \in Nat \ {0}
  PROVE  y % m \in 0 .. (m - 1) /\ (y \in 0 .. (m - 1) => y % m = y)
OBVIOUS

\* It is an int, and the number itself if that is one.
LEMMA WrappedIs ==
  ASSUME NEW x \in Int
  PROVE  /\ Wrapped(x) \in IntMin .. IntMax
         /\ x \in IntMin .. IntMax => Wrapped(x) = x
<1>1. x - IntMin \in Int /\ 2 * IntMax + 2 \in Nat \ {0} /\ IntMin \in Int
  BY WeightAssumption DEF IntMin
<1>2. (x - IntMin) % (2 * IntMax + 2) \in 0 .. ((2 * IntMax + 2) - 1)
  BY <1>1, Remainder
<1>3. x \in IntMin .. IntMax =>
        (x - IntMin) % (2 * IntMax + 2) = x - IntMin
  <2>1. x \in IntMin .. IntMax => x - IntMin \in 0 .. ((2 * IntMax + 2) - 1)
    BY WeightAssumption DEF IntMin
  <2> QED
    BY <1>1, <2>1, Remainder
<1> QED
  BY <1>1, <1>2, <1>3, WeightAssumption DEF Wrapped, IntMin

-------------------------------------------------------------------------------
(* The invariant.                                                           *)

\* What each server has is what it was given for the calls less what its picks
\* cost.
Account ==
  \A s \in Server : current[s] = calls * weight[s] - total * picks[s]

\* What holds where the weights leave room.
ExactInv ==
  /\ total = Sum(weight)
  /\ Sum(current) = 0
  /\ Account
  /\ \A s \in Server : -total < current[s]

WRRInv == WRRTypeOK /\ (Fits(weight) => ExactInv)

\* A weight is at most the total.
LEMMA WeightBound ==
  ASSUME NEW w \in [Server -> Nat \ {0}], NEW s \in Server
  PROVE  w[s] <= Sum(w) /\ Sum(w) \in Nat
<1>1. w \in [Server -> Int] /\ \A t \in Server : -0 <= w[t]
  OBVIOUS
<1>2. w[s] <= Sum(w) + NumServers * 0
  BY <1>1, ValueBound
<1>3. NumServers * 0 = 0 /\ Sum(w) \in Int
  BY <1>1, SumType, WeightAssumption
<1> QED
  BY <1>2, <1>3

LEMMA SumOfZeros ==
  ASSUME NEW f \in [Server -> Int], \A s \in Server : f[s] = 0
  PROVE  Sum(f) = 0
<1>1. Sum(f) = Sum(f) + Sum(f)
  BY SumAdds
<1> QED
  BY <1>1, SumType

LEMMA WeightsArePositive ==
  ASSUME NEW w, w \in [Server -> (0 .. 2 * IntMax + 1) \cup {NoWeight}]
  PROVE  [s \in Server |-> EffectiveWeight(w[s])] \in [Server -> 1 .. IntMax]
<1> SUFFICES ASSUME NEW s \in Server
             PROVE  EffectiveWeight(w[s]) \in 1 .. IntMax
  OBVIOUS
<1>1. CASE w[s] = NoWeight
  <2>1. 1 \in 1 .. IntMax
    BY WeightAssumption
  <2> QED
    BY <1>1, <2>1 DEF EffectiveWeight
<1>2. CASE w[s] # NoWeight
  <2>1. Wrapped(w[s]) \in IntMin .. IntMax
    BY <1>2, WrappedIs, WeightAssumption
  <2> QED
    BY <1>2, <2>1, WeightAssumption DEF EffectiveWeight, IntMin
<1> QED
  BY <1>1, <1>2

\* A total that leaves room is the sum of the weights.
LEMMA TotalIsSum ==
  ASSUME NEW w \in [Server -> 1 .. IntMax], Fits(w)
  PROVE  /\ Wrapped(Sum(w)) = Sum(w)
         /\ Sum(w) \in 0 .. IntMax
<1>1. w \in [Server -> Int] /\ \A s \in Server : 0 <= w[s]
  BY WeightAssumption
<1>2. NumServers * 0 <= Sum(w) /\ Sum(w) \in Int
  BY <1>1, SumAtLeast, SumType
<1>3. Sum(w) \in Nat
  BY <1>2, WeightAssumption
<1>4. (NumServers + 1) * Sum(w) = NumServers * Sum(w) + Sum(w)
      /\ NumServers * Sum(w) \in Nat
  BY <1>3, WeightAssumption
<1>5. Sum(w) <= IntMax
  BY <1>3, <1>4, WeightAssumption DEF Fits
<1>6. Sum(w) \in IntMin .. IntMax
  BY <1>3, <1>5, WeightAssumption DEF IntMin
<1> QED
  BY <1>3, <1>5, <1>6, WrappedIs, WeightAssumption

LEMMA WRRInitInv == WRRInit => WRRInv
<1> SUFFICES ASSUME WRRInit
             PROVE  WRRInv
  OBVIOUS
<1> USE DEF WRRInit
<1>1. /\ weight \in [Server -> 1 .. IntMax]
      /\ total = Wrapped(Sum(weight))
      /\ current = [s \in Server |-> 0]
  <2>1. PICK setting \in Settings :
          /\ weight = [s \in Server |-> EffectiveWeight(setting[s])]
          /\ total = Wrapped(Sum(weight))
          /\ current = [s \in Server |-> 0]
    BY DEF NewWeightedRoundRobin
  <2>2. setting \in [Server -> (0 .. 2 * IntMax + 1) \cup {NoWeight}]
    BY WeightAssumption
  <2> QED
    BY <2>1, <2>2, WeightsArePositive
<1>2. /\ weight \in [Server -> Int] /\ weight \in [Server -> Nat \ {0}]
      /\ current \in [Server -> Int]
  BY <1>1, WeightAssumption
<1>3. WRRTypeOK
  <2>1. total \in IntMin .. IntMax
    BY <1>1, <1>2, SumType, WrappedIs
  <2>2. 0 \in IntMin .. IntMax
    BY WeightAssumption DEF IntMin
  <2> QED
    BY <1>1, <2>1, <2>2 DEF WRRTypeOK
<1>4. ASSUME Fits(weight)
      PROVE  ExactInv
  <2>1. total = Sum(weight) /\ total \in Nat
    BY <1>1, <1>4, TotalIsSum, WeightAssumption
  <2>2. Sum(current) = 0
    BY <1>1, <1>2, SumOfZeros
  <2>3. \A s \in Server : -total < current[s]
    <3> SUFFICES ASSUME NEW s \in Server
                 PROVE  -total < current[s]
      OBVIOUS
    <3>1. weight[s] <= Sum(weight) /\ weight[s] \in Nat \ {0}
      BY <1>2, WeightBound
    <3> QED
      BY <1>1, <2>1, <3>1
  <2>4. Account
    BY <1>1, <1>2, <2>1 DEF Account
  <2> QED
    BY <2>1, <2>2, <2>3, <2>4 DEF ExactInv
<1> QED
  BY <1>3, <1>4 DEF WRRInv

\* Where the weights leave room, what Next computes is what it would be in the
\* integers: none is above what all the others can owe.
LEMMA RoomForNext ==
  ASSUME WRRTypeOK, ExactInv, Fits(weight), NEW s \in Server
  PROVE  /\ current[s] + weight[s] \in IntMin .. IntMax
         /\ current[s] + weight[s] - total \in IntMin .. IntMax
<1>1. /\ weight \in [Server -> Nat \ {0}]
      /\ current \in [Server -> Int] /\ current[s] \in Int /\ weight[s] \in Nat
  BY WeightAssumption DEF WRRTypeOK, IntMin
<1>2. /\ total = Sum(weight) /\ total \in Nat
      /\ (NumServers + 1) * total <= IntMax
  BY TotalIsSum DEF ExactInv, Fits, WRRTypeOK
<1>3. (NumServers + 1) * total = NumServers * total + total /\ NumServers * total \in Nat
  BY <1>2, WeightAssumption
<1>4. current[s] <= 0 + NumServers * total
  <2>1. \A t \in Server : -total <= current[t]
    BY <1>1, <1>2 DEF ExactInv
  <2> QED
    BY <1>1, <1>2, <2>1, ValueBound DEF ExactInv
<1>5. weight[s] <= total
  BY <1>1, <1>2, WeightBound
<1>6. -total < current[s]
  BY DEF ExactInv
<1>7. total <= NumServers * total
  <2>1. NumServers - 1 \in Nat
    BY WeightAssumption DEF Server
  <2>2. (NumServers - 1) * total \in Nat
    BY <1>2, <2>1
  <2>3. (NumServers - 1) * total = NumServers * total - total
    BY <1>2, WeightAssumption
  <2> QED
    BY <1>2, <1>3, <2>2, <2>3
<1>8. NumServers * total + total <= IntMax /\ IntMax \in Nat
  BY <1>2, <1>3, WeightAssumption
<1>9. /\ current[s] + weight[s] <= NumServers * total + total
      /\ -(NumServers * total + total) <= current[s] + weight[s] - total
      /\ -(NumServers * total + total) <= current[s] + weight[s]
      /\ current[s] + weight[s] - total <= NumServers * total + total
  <2> DEFINE m == NumServers * total
  <2>1. m \in Nat /\ current[s] <= m /\ total <= m
    BY <1>3, <1>4, <1>7
  <2> HIDE DEF m
  <2>2. /\ current[s] + weight[s] <= m + total
        /\ -(m + total) <= current[s] + weight[s] - total
        /\ -(m + total) <= current[s] + weight[s]
        /\ current[s] + weight[s] - total <= m + total
    BY <1>1, <1>2, <1>5, <1>6, <2>1
  <2> QED
    BY <2>2 DEF m
<1> QED
  <2> DEFINE m == NumServers * total + total
  <2>1. m \in Nat /\ m <= IntMax
    BY <1>2, <1>3, <1>8
  <2> HIDE DEF m
  <2>2. /\ current[s] + weight[s] <= m
        /\ -m <= current[s] + weight[s] - total
        /\ -m <= current[s] + weight[s]
        /\ current[s] + weight[s] - total <= m
    BY <1>9 DEF m
  <2> QED
    BY <1>1, <1>2, <2>1, <2>2, WeightAssumption DEF IntMin

LEMMA TypeKept ==
  ASSUME WRRTypeOK, Next
  PROVE  WRRTypeOK'
<1>1. PICK s \in Server :
        /\ current' = [Raised EXCEPT ![s] = Wrapped(@ - total)]
        /\ picks' = [picks EXCEPT ![s] = @ + 1]
        /\ calls' = calls + 1
        /\ weight' = weight /\ total' = total
  BY DEF Next
<1>2. Raised \in [Server -> IntMin .. IntMax]
  <2> SUFFICES ASSUME NEW t \in Server
               PROVE  Wrapped(current[t] + weight[t]) \in IntMin .. IntMax
    BY DEF Raised
  <2>1. current[t] + weight[t] \in Int
    BY DEF WRRTypeOK, IntMin
  <2> QED
    BY <2>1, WrappedIs
<1>3. Wrapped(Raised[s] - total) \in IntMin .. IntMax
  <2>1. Raised[s] - total \in Int
    BY <1>2, WeightAssumption DEF WRRTypeOK, IntMin
  <2> QED
    BY <2>1, WrappedIs
<1>4. current' \in [Server -> IntMin .. IntMax]
  BY <1>1, <1>2, <1>3
<1> QED
  BY <1>1, <1>4 DEF WRRTypeOK

LEMMA WRRStepInv == WRRInv /\ [Next]_wrrVars => WRRInv'
<1> SUFFICES ASSUME WRRInv, [Next]_wrrVars
             PROVE  WRRInv'
  OBVIOUS
<1>1. CASE UNCHANGED wrrVars
  BY <1>1 DEF wrrVars, WRRInv, ExactInv, WRRTypeOK, Account, Fits, Sum, PrefixSum
<1>2. CASE Next
  <2>0. WRRTypeOK' /\ weight' = weight /\ (Fits(weight)' <=> Fits(weight))
    <3>1. weight' = weight
      BY <1>2 DEF Next
    <3>2. Fits(weight)' <=> Fits(weight)
      BY <3>1 DEF Fits, Sum, PrefixSum
    <3>3. WRRTypeOK'
      BY <1>2, TypeKept DEF WRRInv
    <3> QED
      BY <3>1, <3>2, <3>3
  <2> SUFFICES ASSUME Fits(weight)
               PROVE  ExactInv'
    BY <2>0 DEF WRRInv
  <2> USE DEF WRRInv
  <2>2. /\ WRRTypeOK /\ ExactInv
        /\ weight \in [Server -> Int] /\ weight \in [Server -> Nat \ {0}]
        /\ current \in [Server -> Int] /\ total \in Nat /\ calls \in Nat
        /\ \A t \in Server : weight[t] \in Nat \ {0} /\ picks[t] \in Nat
    BY TotalIsSum, WeightAssumption DEF WRRTypeOK, ExactInv, IntMin
  <2>3. /\ \A t \in Server : Raised[t] = current[t] + weight[t]
        /\ \A t \in Server : Wrapped(Raised[t] - total) = Raised[t] - total
        /\ Raised \in [Server -> Int]
    <3> SUFFICES ASSUME NEW t \in Server
                 PROVE  /\ Raised[t] = current[t] + weight[t]
                        /\ Wrapped(Raised[t] - total) = Raised[t] - total
                        /\ Raised[t] \in Int
      BY DEF Raised
    <3>1. /\ current[t] + weight[t] \in IntMin .. IntMax
          /\ current[t] + weight[t] - total \in IntMin .. IntMax
      BY <2>2, RoomForNext
    <3>2. current[t] + weight[t] \in Int /\ current[t] + weight[t] - total \in Int
      BY <2>2
    <3>3. Wrapped(current[t] + weight[t]) = current[t] + weight[t]
      BY <3>1, <3>2, WrappedIs
    <3>4. Raised[t] = Wrapped(current[t] + weight[t])
      BY DEF Raised
    <3>5. Raised[t] = current[t] + weight[t]
      BY <3>3, <3>4, Zenon
    <3>6. Wrapped(Raised[t] - total) = Raised[t] - total
      <4> DEFINE raised == current[t] + weight[t]
      <4>1. /\ raised \in Int /\ total \in Int
            /\ raised - total \in IntMin .. IntMax
        BY <2>2, <3>1, <3>2
      <4>2. Raised[t] = raised
        BY <3>5
      <4> HIDE DEF raised
      <4>3. Wrapped(raised - total) = raised - total
        BY <4>1, WrappedIs
      <4> QED
        BY <4>2, <4>3
    <3>7. Raised[t] \in Int
      BY <3>2, <3>5, Zenon
    <3> QED
      BY <3>5, <3>6, <3>7
  <2>1. PICK s \in Server :
          /\ Heaviest(s)
          /\ current' = [Raised EXCEPT ![s] = @ - total]
          /\ picks' = [picks EXCEPT ![s] = @ + 1]
          /\ calls' = calls + 1
          /\ weight' = weight /\ total' = total
    BY <1>2, <2>3 DEF Next
  <2>4. (total = Sum(weight))'
    BY <2>1 DEF ExactInv, Sum, PrefixSum
  <2>5. Sum(Raised) = total
    <3>1. \A t \in Server : Raised[t] = current[t] + weight[t]
      BY <2>3
    <3>2. Sum(Raised) = Sum(current) + Sum(weight)
      BY <2>2, <2>3, <3>1, SumAdds
    <3> QED
      BY <2>2, <3>2 DEF ExactInv
  <2>6. Sum(current) = 0 /\ Sum(current') = 0
    <3>1. current' = [Raised EXCEPT ![s] = @ + (-total)] /\ -total \in Int
      <4>1. Raised[s] - total = Raised[s] + (-total) /\ -total \in Int
        BY <2>2, <2>3
      <4> QED
        BY <2>1, <4>1
    <3>2. Sum([Raised EXCEPT ![s] = @ + (-total)]) = Sum(Raised) + (-total)
      BY <2>2, <2>3, <3>1, SumOfChange
    <3> QED
      BY <2>2, <2>5, <3>1, <3>2 DEF ExactInv
  <2>7. Account'
    <3> SUFFICES ASSUME NEW t \in Server
                 PROVE  current'[t] = calls' * weight'[t] - total' * picks'[t]
      BY DEF Account
    <3>1. (calls + 1) * weight[t] = calls * weight[t] + weight[t]
      BY <2>2
    <3>2. total * (picks[t] + 1) = total * picks[t] + total
      BY <2>2
    <3>3. current[t] = calls * weight[t] - total * picks[t]
      BY <2>2 DEF ExactInv, Account
    <3>4. calls * weight[t] \in Int /\ total * picks[t] \in Int
      BY <2>2
    <3>5. CASE t = s
      BY <2>1, <2>2, <2>3, <3>1, <3>2, <3>3, <3>4, <3>5 DEF WRRTypeOK
    <3>6. CASE t # s
      BY <2>1, <2>2, <2>3, <3>1, <3>3, <3>4, <3>6 DEF WRRTypeOK
    <3> QED
      BY <3>5, <3>6
  <2>8. 0 < Raised[s]
    <3> SUFFICES ASSUME Raised[s] <= 0
                 PROVE  FALSE
      BY <2>2, <2>3
    <3> DEFINE opposite == [t \in Server |-> -Raised[t]]
    <3>1. opposite \in [Server -> Int] /\ \A t \in Server : 0 <= opposite[t]
      BY <2>1, <2>2, <2>3 DEF Heaviest
    <3>2. NumServers * 0 <= Sum(opposite)
      <4> HIDE DEF opposite
      <4> QED
        BY <3>1, SumAtLeast
    <3>3. Sum(opposite) + Sum(Raised) = 0
      <4> DEFINE zero == [t \in Server |-> 0]
      <4>1. zero \in [Server -> Int] /\ \A t \in Server : zero[t] = 0
        OBVIOUS
      <4>2. \A t \in Server : zero[t] = opposite[t] + Raised[t]
        BY <2>2, <2>3
      <4> HIDE DEF opposite, zero
      <4>3. Sum(zero) = 0
        BY <4>1, SumOfZeros
      <4>4. opposite \in [Server -> Int] /\ Raised \in [Server -> Int]
        BY <2>3, <3>1
      <4>5. Sum(zero) = Sum(opposite) + Sum(Raised)
        BY <4>1, <4>2, <4>4, SumAdds
      <4> QED
        BY <4>3, <4>5
    <3>4. 0 < total
      <4>1. weight[s] <= Sum(weight)
        BY <2>2, WeightBound
      <4> QED
        BY <2>2, <4>1 DEF ExactInv
    <3> QED
      BY <2>2, <2>3, <2>5, <3>1, <3>2, <3>3, <3>4, SumType, WeightAssumption
  <2>9. \A t \in Server : -total' < current'[t]
    <3> SUFFICES ASSUME NEW t \in Server
                 PROVE  -total < current'[t]
      BY <2>1
    <3>1. CASE t = s
      BY <2>1, <2>2, <2>3, <2>8, <3>1
    <3>2. CASE t # s
      <4>1. -total < current[t]
        BY <2>2 DEF ExactInv
      <4> QED
        BY <2>1, <2>2, <2>3, <3>2, <4>1
    <3> QED
      BY <3>1, <3>2
  <2> QED
    BY <2>4, <2>6, <2>7, <2>9 DEF ExactInv
<1> QED
  BY <1>1, <1>2

\* The weights, the account and the bound below hold throughout.
THEOREM WRRInvariant == WRRSpec => []WRRInv
BY WRRInitInv, WRRStepInv, PTL DEF WRRSpec

\* The invariant, where the weights leave room, in the integers.
LEMMA ExactTypes ==
  ASSUME WRRInv, Fits(weight)
  PROVE  /\ ExactInv
         /\ weight \in [Server -> Nat \ {0}]
         /\ current \in [Server -> Int]
         /\ total \in Nat /\ calls \in Nat
         /\ \A s \in Server : picks[s] \in Nat
BY TotalIsSum, WeightAssumption DEF WRRInv, WRRTypeOK, ExactInv, IntMin

\* For any weights that leave room: no server is ever a whole pick ahead of
\* its share.
THEOREM NoServerRunsAhead == WRRSpec => []NeverAhead
<1>1. WRRInv => NeverAhead
  <2> SUFFICES ASSUME WRRInv, Fits(weight), NEW s \in Server
               PROVE  total * picks[s] < calls * weight[s] + total
    BY ExactTypes DEF NeverAhead, EvenlySpread, ExactInv
  <2>1. -total < current[s] /\ current[s] = calls * weight[s] - total * picks[s]
    BY ExactTypes DEF ExactInv, Account
  <2>2. calls * weight[s] \in Int /\ total * picks[s] \in Int /\ total \in Int
    BY ExactTypes
  <2> QED
    BY <2>1, <2>2
<1> QED
  BY <1>1, WRRInvariant, PTL

LEMMA Multiple ==
  ASSUME NEW k \in Nat, NEW t \in Nat, NEW w \in Nat, NEW p \in Nat
  PROVE  /\ k * w - p \in Int
         /\ (k * t) * w - t * p = t * (k * w - p)
<1> DEFINE d == k * w
<1>1. d \in Nat /\ (k * t) * w = t * d
  OBVIOUS
<1> HIDE DEF d
<1>2. t * (d - p) = t * d - t * p
  BY <1>1
<1> QED
  BY <1>1, <1>2 DEF d

\* For any weights that leave room: a full round leaves every server with
\* exactly its share.
\* The current weights are then multiples of the total, none of them below
\* zero, and they add up to zero.
THEOREM FullRoundsAreProportional == WRRSpec => []RoundsAreProportional
<1>1. WRRInv => RoundsAreProportional
  <2> SUFFICES ASSUME WRRInv, Fits(weight),
                      NEW k \in 0 .. calls, calls = k * total, NEW s \in Server
               PROVE  picks[s] = k * weight[s]
    BY ExactTypes DEF RoundsAreProportional, ExactInv
  <2>1. /\ total \in Nat /\ k \in Nat /\ calls \in Nat
        /\ current \in [Server -> Int]
        /\ \A t \in Server : weight[t] \in Nat /\ picks[t] \in Nat /\ current[t] \in Int
    BY ExactTypes
  <2>2. 0 < total
    <3>1. weight[s] <= total /\ weight[s] \in Nat \ {0}
      BY ExactTypes, WeightBound DEF ExactInv
    <3> QED
      BY <2>1, <3>1
  <2> DEFINE due(t) == k * weight[t] - picks[t]
  <2>3. \A t \in Server : due(t) \in Int /\ current[t] = total * due(t)
    <3> SUFFICES ASSUME NEW t \in Server
                 PROVE  due(t) \in Int /\ current[t] = total * due(t)
      OBVIOUS
    <3>1. current[t] = (k * total) * weight[t] - total * picks[t]
      BY ExactTypes DEF ExactInv, Account
    <3>2. /\ due(t) \in Int
          /\ (k * total) * weight[t] - total * picks[t] = total * due(t)
      BY <2>1, Multiple
    <3> QED
      BY <3>1, <3>2
  <2>4. \A t \in Server : 0 <= current[t]
    <3> SUFFICES ASSUME NEW t \in Server
                 PROVE  0 <= current[t]
      OBVIOUS
    <3>1. -total < total * due(t)
      BY <2>3, ExactTypes DEF ExactInv
    <3> DEFINE d == due(t)
    <3>2. d \in Int /\ -total < total * d /\ current[t] = total * d
      BY <2>3, <3>1
    <3> HIDE DEF d
    <3>3. 0 <= d
      <4> SUFFICES ASSUME d <= -1
                   PROVE  FALSE
        BY <3>2
      <4>1. total * d <= total * (-1)
        BY <2>1, <3>2
      <4> QED
        BY <2>1, <3>2, <4>1
    <3> QED
      BY <2>1, <3>2, <3>3
  <2>5. current[s] <= 0
    <3>1. current[s] <= Sum(current) + NumServers * 0
      <4>1. \A t \in Server : -0 <= current[t]
        BY <2>4
      <4> QED
        BY <2>1, <4>1, ValueBound
    <3> QED
      BY <2>1, <3>1, ExactTypes, WeightAssumption DEF ExactInv
  <2>6. total * due(s) = 0 /\ due(s) \in Int
    BY <2>1, <2>3, <2>4, <2>5
  <2>7. due(s) = 0
    <3> HIDE DEF due
    <3> QED
      BY <2>1, <2>2, <2>6
  <2>8. k * weight[s] \in Int /\ picks[s] \in Int
    BY <2>1
  <2> QED
    BY <2>7, <2>8
<1> QED
  BY <1>1, WRRInvariant, PTL

\* For any weights, numbers of servers and of calls: where the weights leave
\* room, nothing that Next computes is out of the range of an int.
THEOREM NextIsExact == WRRSpec => []ExactWithinRoom
<1>1. WRRInv => ExactWithinRoom
  BY RoomForNext DEF WRRInv, ExactInv, ExactWithinRoom
<1> QED
  BY <1>1, WRRInvariant, PTL

\* For any weights, also those that wrap around: the variables keep their types.
THEOREM WRRTypeCorrect == WRRSpec => []WRRTypeOK
BY WRRInvariant, PTL DEF WRRInv

===============================================================================
