--------------------------- MODULE LeastTime_proof ----------------------------
(***************************************************************************)
(* Proofs about LeastTime, for every number of servers, every finite set   *)
(* of requests, every unit and all positive response times: its counters   *)
(* are the requests in flight, its averages stay among the samples, and no *)
(* server is chosen twice before all were chosen.                          *)
(***************************************************************************)
EXTENDS LeastTime, FiniteSetTheorems, TLAPS

-------------------------------------------------------------------------------

\* A blend of two values lies between them, rounded down or not.
LEMMA BlendIsBetween ==
  ASSUME NEW a \in Nat, NEW b \in Nat
  PROVE  /\ (a + 4 * b) \div 5 \in Nat
         /\ a <= b => a <= (a + 4 * b) \div 5 /\ (a + 4 * b) \div 5 <= b
         /\ b <= a => b <= (a + 4 * b) \div 5 /\ (a + 4 * b) \div 5 <= a
  OBVIOUS

\* A request in flight weighs something.
LEMMA ActiveWeighs ==
  ASSUME NEW n \in Nat
  PROVE  n * Unit \in Nat /\ (n > 0 => n * Unit > 0) /\ (n = 0 => n * Unit = 0)
<1>1. Unit \in Nat /\ Unit > 0
  BY LeastTimeAssumption
<1> QED
  BY <1>1

-------------------------------------------------------------------------------

\* The requests in flight to a server are finitely many.
LEMMA InFlightFinite ==
  ASSUME NEW s
  PROVE  IsFiniteSet(InFlight(s)) /\ Cardinality(InFlight(s)) \in Nat
<1>1. InFlight(s) \subseteq Requests
  BY DEF InFlight
<1>2. IsFiniteSet(Requests)
  BY LeastTimeAssumption
<1> QED
  BY <1>1, <1>2, FS_Subset, FS_CardinalityType

\* Next: one request more in flight to s, the others as before.
LEMMA TakeServer ==
  ASSUME NEW r \in Requests, NEW s \in Server, LTTypeOK, held[r] = NoServer,
         held' = [held EXCEPT ![r] = s]
  PROVE  /\ Cardinality(InFlight(s)') = Cardinality(InFlight(s)) + 1
         /\ \A t \in Server \ {s} : InFlight(t)' = InFlight(t)
<1>1. \A t \in Server : NoServer # t
  BY LeastTimeAssumption DEF Server
<1>2. /\ InFlight(s)' = InFlight(s) \cup {r}
      /\ r \notin InFlight(s)
  BY <1>1 DEF InFlight, LTTypeOK
<1>3. Cardinality(InFlight(s) \cup {r}) = Cardinality(InFlight(s)) + 1
  BY <1>2, InFlightFinite, FS_AddElement
<1>4. \A t \in Server \ {s} : InFlight(t)' = InFlight(t)
  BY <1>1 DEF InFlight, LTTypeOK
<1> QED
  BY <1>2, <1>3, <1>4

\* Done: one request less in flight to s, the others as before.
LEMMA GiveServerBack ==
  ASSUME NEW r \in Requests, NEW s \in Server, LTTypeOK, held[r] = s,
         held' = [held EXCEPT ![r] = NoServer]
  PROVE  /\ Cardinality(InFlight(s)) > 0
         /\ Cardinality(InFlight(s)') = Cardinality(InFlight(s)) - 1
         /\ \A t \in Server \ {s} : InFlight(t)' = InFlight(t)
<1>1. \A t \in Server : NoServer # t
  BY LeastTimeAssumption DEF Server
<1>2. /\ InFlight(s)' = InFlight(s) \ {r}
      /\ r \in InFlight(s)
  BY <1>1 DEF InFlight, LTTypeOK
<1>3. /\ Cardinality(InFlight(s) \ {r}) = Cardinality(InFlight(s)) - 1
      /\ IsFiniteSet(InFlight(s) \ {r})
  BY <1>2, InFlightFinite, FS_RemoveElement
<1>4. Cardinality(InFlight(s) \ {r}) \in Nat
  BY <1>3, FS_CardinalityType
<1>5. \A t \in Server \ {s} : InFlight(t)' = InFlight(t)
  BY <1>1 DEF InFlight, LTTypeOK
<1> QED
  BY <1>2, <1>3, <1>4, <1>5, InFlightFinite

-------------------------------------------------------------------------------

\* A server that was never chosen scores nothing, and one that was chosen is
\* busy or has an average.  EveryServerGetsTried rests on this: the scan takes
\* a server that scores nothing before any other.
Untried(s) == picks[s] = 0 => active[s] = 0 /\ ~hasSample[s]
Tried(s) == picks[s] > 0 => active[s] > 0 \/ hasSample[s]

\* Every time that was folded into an average is positive, and there is one as
\* soon as there is an average.
SamplesPositive == \A s \in Server : \A ms \in samples[s] : ms > 0

LTInv ==
  /\ LTTypeOK
  /\ CountsInFlight
  /\ AverageWithinSamples
  /\ SamplesPositive
  /\ \A s \in Server : Untried(s) /\ Tried(s)
  /\ EveryServerGetsTried

LEMMA LTInvInit == LTInit => LTInv
<1> SUFFICES ASSUME LTInit PROVE LTInv
  OBVIOUS
<1>1. LTTypeOK
  BY DEF LTInit, LTTypeOK
<1>2. ASSUME NEW s \in Server PROVE active[s] = Cardinality(InFlight(s))
  <2>1. InFlight(s) = {}
    BY LeastTimeAssumption DEF LTInit, InFlight, Server
  <2> QED
    BY <2>1, FS_EmptySet DEF LTInit
<1>3. AverageWithinSamples /\ SamplesPositive
  BY DEF LTInit, AverageWithinSamples, SamplesPositive
<1>4. \A s \in Server : Untried(s) /\ Tried(s)
  BY DEF LTInit, Untried, Tried
<1>5. EveryServerGetsTried
  BY DEF LTInit, EveryServerGetsTried
<1> QED
  BY <1>1, <1>2, <1>3, <1>4, <1>5 DEF LTInv, CountsInFlight

\* Servers that were never chosen score zero and the others more.
LEMMA ScoreTellsTried ==
  ASSUME LTInv, NEW s \in Server
  PROVE  /\ Score(s) \in Nat
         /\ picks[s] = 0 => Score(s) = 0
         /\ picks[s] > 0 => Score(s) > 0
<1>1. /\ active[s] \in Nat /\ avgMillis[s] \in Nat /\ hasSample[s] \in BOOLEAN
      /\ picks[s] \in 0 .. 2 /\ samples[s] \in SUBSET Nat
  BY DEF LTInv, LTTypeOK
<1>2. /\ active[s] * Unit \in Nat
      /\ active[s] > 0 => active[s] * Unit > 0
      /\ active[s] = 0 => active[s] * Unit = 0
  BY <1>1, ActiveWeighs
<1>3. hasSample[s] => avgMillis[s] > 0
  BY <1>1 DEF LTInv, AverageWithinSamples, SamplesPositive
<1>4. ~hasSample[s] => avgMillis[s] = 0
  BY DEF LTInv, AverageWithinSamples
<1>5. Untried(s) /\ Tried(s)
  BY DEF LTInv
<1> QED
  BY <1>1, <1>2, <1>3, <1>4, <1>5 DEF Score, Untried, Tried

LEMMA NextServerKeepsInv ==
  ASSUME NEW r \in Requests, LTInv, NextServer(r)
  PROVE  LTInv'
<1>1. PICK s \in Server :
        /\ FirstLeastScore(s)
        /\ active' = [active EXCEPT ![s] = @ + 1]
        /\ held' = [held EXCEPT ![r] = s]
        /\ picks' = [picks EXCEPT ![s] = IF @ = 2 THEN 2 ELSE @ + 1]
  BY DEF NextServer
<1>2. UNCHANGED <<avgMillis, hasSample, samples>>
  BY DEF NextServer
<1>3. LTTypeOK /\ LTTypeOK'
  BY <1>1, <1>2 DEF LTInv, LTTypeOK
<1>4. CountsInFlight'
  <2>1. /\ Cardinality(InFlight(s)') = Cardinality(InFlight(s)) + 1
        /\ \A t \in Server \ {s} : InFlight(t)' = InFlight(t)
    BY <1>1, <1>3, TakeServer DEF NextServer
  <2>2. ASSUME NEW t \in Server PROVE active'[t] = Cardinality(InFlight(t)')
    <3>1. CASE t = s
      BY <3>1, <2>1, <1>1, <1>3 DEF LTInv, LTTypeOK, CountsInFlight
    <3>2. CASE t # s
      BY <3>2, <2>1, <1>1, <1>3 DEF LTInv, LTTypeOK, CountsInFlight
    <3> QED
      BY <3>1, <3>2
  <2> QED
    BY <2>2 DEF CountsInFlight
<1>5. AverageWithinSamples' /\ SamplesPositive'
  BY <1>2 DEF LTInv, AverageWithinSamples, SamplesPositive
<1>6. ASSUME NEW t \in Server PROVE Untried(t)' /\ Tried(t)'
  <2>1. Untried(t) /\ Tried(t)
    BY DEF LTInv
  <2> QED
    BY <2>1, <1>1, <1>2, <1>3 DEF LTTypeOK, Untried, Tried
<1>7. EveryServerGetsTried'
  <2>1. CASE picks[s] = 0
    BY <2>1, <1>1, <1>3 DEF LTInv, LTTypeOK, EveryServerGetsTried
  <2>2. CASE picks[s] > 0
    <3>1. \A t \in Server : picks[t] > 0
      BY <2>2, <1>1, <1>3, ScoreTellsTried DEF FirstLeastScore, LTTypeOK
    <3> QED
      BY <3>1, <1>1, <1>3 DEF LTTypeOK, EveryServerGetsTried
  <2> QED
    BY <2>1, <2>2, <1>3 DEF LTTypeOK
<1> QED
  BY <1>3, <1>4, <1>5, <1>6, <1>7 DEF LTInv

\* A new average lies among the samples it is made of.
LEMMA FoldStaysWithin ==
  ASSUME LTInv, NEW s \in Server, NEW ms \in Nat
  PROVE  /\ Fold(s, ms) \in Nat
         /\ \E m \in samples[s] \cup {ms} : m <= Fold(s, ms)
         /\ \E m \in samples[s] \cup {ms} : Fold(s, ms) <= m
<1>1. avgMillis[s] \in Nat /\ samples[s] \in SUBSET Nat
  BY DEF LTInv, LTTypeOK
<1>2. CASE ~hasSample[s]
  BY <1>2 DEF Fold
<1>3. CASE hasSample[s]
  <2>1. PICK low \in samples[s], high \in samples[s] :
          low <= avgMillis[s] /\ avgMillis[s] <= high
    BY <1>3 DEF LTInv, AverageWithinSamples
  <2>2. Fold(s, ms) = (ms + 4 * avgMillis[s]) \div 5
    BY <1>3 DEF Fold
  <2> DEFINE new == Fold(s, ms)
  <2>3. /\ new \in Nat
        /\ ms <= avgMillis[s] => ms <= new /\ new <= avgMillis[s]
        /\ avgMillis[s] <= ms => avgMillis[s] <= new /\ new <= ms
    BY <2>2, <1>1, BlendIsBetween
  <2> HIDE DEF new
  <2>4. low \in Nat /\ high \in Nat
    BY <1>1
  <2>5. CASE ms <= avgMillis[s]
    <3>1. ms <= new /\ new <= high
      BY <2>5, <2>1, <2>3, <2>4, <1>1
    <3> QED
      BY <3>1, <2>3 DEF new
  <2>6. CASE avgMillis[s] <= ms
    <3>1. low <= new /\ new <= ms
      BY <2>6, <2>1, <2>3, <2>4, <1>1
    <3> QED
      BY <3>1, <2>3 DEF new
  <2> QED
    BY <2>5, <2>6, <1>1
<1> QED
  BY <1>2, <1>3

LEMMA DoneKeepsInv ==
  ASSUME NEW r \in Requests, NEW duration \in Durations, NEW err \in Errors,
         LTInv, Done(r, duration, err)
  PROVE  LTInv'
<1>1. PICK s \in Server : held[r] = s
  BY DEF LTInv, LTTypeOK, Done
<1> DEFINE ms == Sample(duration, err)
           new == Fold(s, ms)
<1>2. ms \in Nat /\ ms > 0
  BY LeastTimeAssumption DEF Sample
<1>3. /\ active' = [active EXCEPT ![s] = Released(s, err)]
      /\ avgMillis' = [avgMillis EXCEPT ![s] = new]
      /\ hasSample' = [hasSample EXCEPT ![s] = TRUE]
      /\ samples' = [samples EXCEPT ![s] = @ \cup {ms}]
      /\ held' = [held EXCEPT ![r] = NoServer]
      /\ picks' = picks
  BY <1>1 DEF Done
<1>4. /\ new \in Nat
      /\ \E m \in samples[s] \cup {ms} : m <= new
      /\ \E m \in samples[s] \cup {ms} : new <= m
  BY <1>1, <1>2, FoldStaysWithin
<1> HIDE DEF ms, new
<1>5. /\ Cardinality(InFlight(s)) > 0
      /\ Cardinality(InFlight(s)') = Cardinality(InFlight(s)) - 1
      /\ \A t \in Server \ {s} : InFlight(t)' = InFlight(t)
  BY <1>1, <1>3, GiveServerBack DEF LTInv
<1>6. active[s] > 0 /\ active' = [active EXCEPT ![s] = @ - 1]
  BY <1>1, <1>3, <1>5 DEF LTInv, CountsInFlight, Released
<1>7. LTTypeOK /\ LTTypeOK'
  <2>1. active[s] - 1 \in Nat
    BY <1>1, <1>6 DEF LTInv, LTTypeOK
  <2>2. active' \in [Server -> Nat] /\ avgMillis' \in [Server -> Nat]
    BY <2>1, <1>3, <1>4, <1>6 DEF LTInv, LTTypeOK
  <2>3. hasSample' \in [Server -> BOOLEAN] /\ picks' \in [Server -> 0 .. 2]
    BY <1>3 DEF LTInv, LTTypeOK
  <2>4. held' \in [Requests -> Server \cup {NoServer}]
    BY <1>3 DEF LTInv, LTTypeOK
  <2>5. samples' \in [Server -> SUBSET Nat]
    BY <1>2, <1>3 DEF LTInv, LTTypeOK
  <2> QED
    BY <2>2, <2>3, <2>4, <2>5 DEF LTInv, LTTypeOK
<1>8. CountsInFlight'
  <2>1. ASSUME NEW t \in Server PROVE active'[t] = Cardinality(InFlight(t)')
    <3>1. CASE t = s
      BY <3>1, <1>1, <1>5, <1>6, <1>7 DEF LTInv, LTTypeOK, CountsInFlight
    <3>2. CASE t # s
      BY <3>2, <1>1, <1>5, <1>6, <1>7 DEF LTInv, LTTypeOK, CountsInFlight
    <3> QED
      BY <3>1, <3>2
  <2> QED
    BY <2>1 DEF CountsInFlight
<1>9. AverageWithinSamples' /\ SamplesPositive'
  <2>1. ASSUME NEW t \in Server \ {s}
        PROVE  /\ avgMillis'[t] = avgMillis[t]
               /\ hasSample'[t] = hasSample[t]
               /\ samples'[t] = samples[t]
    BY <1>3, <1>7 DEF LTTypeOK
  <2>2. /\ avgMillis'[s] = new
        /\ hasSample'[s] = TRUE
        /\ samples'[s] = samples[s] \cup {ms}
    BY <1>1, <1>3, <1>7 DEF LTTypeOK
  <2>3. AverageWithinSamples'
    BY <2>1, <2>2, <1>4 DEF LTInv, AverageWithinSamples
  <2>4. SamplesPositive'
    BY <2>1, <2>2, <1>2 DEF LTInv, SamplesPositive
  <2> QED
    BY <2>3, <2>4
<1>10. ASSUME NEW t \in Server PROVE Untried(t)' /\ Tried(t)'
  <2>1. Untried(t) /\ Tried(t)
    BY DEF LTInv
  <2>2. CASE t = s
    BY <2>1, <2>2, <1>1, <1>3, <1>6, <1>7 DEF LTTypeOK, Untried, Tried
  <2>3. CASE t # s
    BY <2>1, <2>3, <1>1, <1>3, <1>6, <1>7 DEF LTTypeOK, Untried, Tried
  <2> QED
    BY <2>2, <2>3
<1>11. EveryServerGetsTried'
  BY <1>3 DEF LTInv, EveryServerGetsTried
<1> QED
  BY <1>7, <1>8, <1>9, <1>10, <1>11 DEF LTInv

LEMMA LTStutterKeepsInv == LTInv /\ UNCHANGED ltVars => LTInv'
  BY DEF LTInv, LTTypeOK, CountsInFlight, InFlight, AverageWithinSamples,
         SamplesPositive, Untried, Tried, EveryServerGetsTried, ltVars

THEOREM LTInvariant == LTSpec => []LTInv
<1>1. LTInv /\ [LTNext]_ltVars => LTInv'
  BY NextServerKeepsInv, DoneKeepsInv, LTStutterKeepsInv DEF LTNext
<1> QED
  BY <1>1, LTInvInit, PTL DEF LTSpec

\* For every number of servers and every finite set of requests: the counters
\* of leasttime.go never go below zero and averages are never negative.
THEOREM LTTypeCorrect == LTSpec => []LTTypeOK
<1>1. LTInv => LTTypeOK
  BY DEF LTInv
<1> QED
  BY <1>1, LTInvariant, PTL

\* timeServer.active is the number of requests in flight to the server,
\* whether responses succeed or fail.
THEOREM LTCountersAreInFlight == LTSpec => []CountsInFlight
<1>1. LTInv => CountsInFlight
  BY DEF LTInv
<1> QED
  BY <1>1, LTInvariant, PTL

\* For all response times and any history of them: the moving average stays
\* between the best and the worst sample.
THEOREM AveragesStayWithin == LTSpec => []AverageWithinSamples
<1>1. LTInv => AverageWithinSamples
  BY DEF LTInv
<1> QED
  BY <1>1, LTInvariant, PTL

\* For every number of servers: all of them are chosen once before any of them
\* is chosen twice.
THEOREM AllServersAreTried == LTSpec => []EveryServerGetsTried
<1>1. LTInv => EveryServerGetsTried
  BY DEF LTInv
<1> QED
  BY <1>1, LTInvariant, PTL

===============================================================================
