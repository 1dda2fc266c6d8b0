------------------------------ MODULE LeastTime ------------------------------
(***************************************************************************)
(* The least-time balancer, internal/proxy/balancer/leasttime.go.  Next    *)
(* and Done each run wholly under lt.mu, so each is one step.              *)
(*                                                                         *)
(* Times are whole units, Unit of them to a millisecond, and the average   *)
(* is rounded down to one: any rounding that stays between the two values  *)
(* that are blended would do for what follows, that of float64 included.   *)
(***************************************************************************)
EXTENDS Integers, FiniteSets

CONSTANTS
  NumServers,   \* len(lt.servers)
  Requests,     \* the request goroutines that call Next and Done
  NoServer,     \* the nil *ServerCfg
  Unit,         \* units of time in a millisecond
  Durations,    \* how long a response may take; some time always passes
  Errors        \* whether the err that Done is given may be nil (FALSE in the
                \*   set) and may be an error (TRUE in the set)

ASSUME LeastTimeAssumption ==
  /\ NumServers \in Nat
  /\ IsFiniteSet(Requests)
  /\ NoServer \notin 1 .. NumServers
  /\ Unit \in Nat \ {0}
  /\ Durations \subseteq Nat \ {0}
  /\ Errors \subseteq BOOLEAN

VARIABLES
  active,       \* active[s]: the requests counted on server s
  avgMillis,    \* avgMillis[s]: its moving average, in units
  hasSample,    \* hasSample[s]: Done was called for s
  held,         \* held[r]: the server r got from Next and has not given to
                \*   Done yet (kept by the callers), or NoServer
  picks,        \* picks[s]: how often Next chose s, up to 2 (not in the code)
  samples       \* samples[s]: the times Done folded into the average of s
                \*   (not in the code)

ltVars == <<active, avgMillis, hasSample, held, picks, samples>>

Server == 1 .. NumServers

-------------------------------------------------------------------------------

(* Mutant: the average alone decides.                                       *)
Score_AverageOnly(s) == avgMillis[s]

Score(s) == active[s] * Unit + avgMillis[s]

(* The scan of Next ends at the first of the smallest scores.               *)
FirstLeastScore(s) ==
  /\ \A t \in Server : Score(s) <= Score(t)
  /\ \A t \in 1 .. (s - 1) : Score(s) < Score(t)

(* Next, called by r.  With no server it returns nil and changes nothing.   *)
NextServer(r) ==
  /\ held[r] = NoServer
  /\ \E s \in Server :
       /\ FirstLeastScore(s)
       /\ active' = [active EXCEPT ![s] = @ + 1]
       /\ held' = [held EXCEPT ![r] = s]
       /\ picks' = [picks EXCEPT ![s] = IF @ = 2 THEN 2 ELSE @ + 1]
  /\ UNCHANGED <<avgMillis, hasSample, samples>>

(* errorPenaltyMultiplier is 5.                                             *)
Sample(duration, err) == IF err THEN 5 * duration ELSE duration

(* Mutant: the first sample is blended with the average of no samples.      *)
Fold_FirstBlended(s, ms) == (ms + 4 * avgMillis[s]) \div 5

(* Mutant: the new sample and the old average change weights and the sum is *)
(* not one.                                                                 *)
Fold_WeightsOff(s, ms) ==
  IF hasSample[s] THEN (2 * ms + 4 * avgMillis[s]) \div 5 ELSE ms

(* The first sample is the average; a later one moves it by a fifth of the  *)
(* way (alpha is 0.2).                                                      *)
Fold(s, ms) == IF hasSample[s] THEN (ms + 4 * avgMillis[s]) \div 5 ELSE ms

(* Mutant: a response that failed gives no slot back.                       *)
Released_UnlessError(s, err) ==
  IF active[s] > 0 /\ ~err THEN active[s] - 1 ELSE active[s]

(* Mutant: a response that failed gives two slots back.                     *)
Released_Twice(s, err) == IF err THEN active[s] - 2 ELSE active[s] - 1

(* The slot is given back for an error as well.                             *)
Released(s, err) == IF active[s] > 0 THEN active[s] - 1 ELSE active[s]

(* Done, called by r with the server it was given.                          *)
Done(r, duration, err) ==
  /\ held[r] # NoServer
  /\ LET s == held[r]
         ms == Sample(duration, err)
     IN /\ active' = [active EXCEPT ![s] = Released(s, err)]
        /\ avgMillis' = [avgMillis EXCEPT ![s] = Fold(s, ms)]
        /\ hasSample' = [hasSample EXCEPT ![s] = TRUE]
        /\ samples' = [samples EXCEPT ![s] = @ \cup {ms}]
  /\ held' = [held EXCEPT ![r] = NoServer]
  /\ UNCHANGED picks

-------------------------------------------------------------------------------

LTInit ==
  /\ active = [s \in Server |-> 0]
  /\ avgMillis = [s \in Server |-> 0]
  /\ hasSample = [s \in Server |-> FALSE]
  /\ held = [r \in Requests |-> NoServer]
  /\ picks = [s \in Server |-> 0]
  /\ samples = [s \in Server |-> {}]

LTNext ==
  \E r \in Requests :
    \/ NextServer(r)
    \/ \E duration \in Durations, err \in Errors : Done(r, duration, err)

LTSpec == LTInit /\ [][LTNext]_ltVars

-------------------------------------------------------------------------------

\* The variables range over the values the code gives them; in particular no
\* counter is ever below zero.
LTTypeOK ==
  /\ active \in [Server -> Nat]
  /\ avgMillis \in [Server -> Nat]
  /\ hasSample \in [Server -> BOOLEAN]
  /\ held \in [Requests -> Server \cup {NoServer}]
  /\ picks \in [Server -> 0 .. 2]
  /\ samples \in [Server -> SUBSET Nat]

InFlight(s) == {r \in Requests : held[r] = s}

\* leasttime.go:21-22: active is the number of requests in flight to the server.
CountsInFlight == \A s \in Server : active[s] = Cardinality(InFlight(s))

\* leasttime.go:112-114: an average is never better than the best response or
\* worse than the worst one, from the first response on; the zero it starts
\* from leaves no trace.
AverageWithinSamples ==
  \A s \in Server :
    IF hasSample[s]
    THEN /\ \E ms \in samples[s] : ms <= avgMillis[s]
         /\ \E ms \in samples[s] : avgMillis[s] <= ms
    ELSE avgMillis[s] = 0

\* leasttime.go:38-42: reputation does not come before trial, and a burst
\* spreads over the servers not tried yet: none is chosen a second time before
\* each was chosen once, however the calls of Next and Done interleave.
EveryServerGetsTried ==
  (\E s \in Server : picks[s] = 2) => \A t \in Server : picks[t] > 0

===============================================================================
