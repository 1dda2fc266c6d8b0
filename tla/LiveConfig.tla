------------------------------ MODULE LiveConfig ------------------------------
(***************************************************************************)
(* What the dynamic configuration promises to someone who writes the file  *)
(* and sends requests, and knows nothing of timers, hashes, channels and   *)
(* holders: requests are routed by one state of the file at a time, a      *)
(* state that loads, and the state in force is only ever replaced by a     *)
(* later one.  Asena.tla implements it.                                    *)
(***************************************************************************)
EXTENDS Integers, Sequences

CONSTANTS
  Contents,     \* what the file may contain
  Good,         \* the contents that load, a subset
  FirstContent, \* the content at the start
  Requests

NotRouted == -1

VARIABLES
  past,         \* past[v]: the content of the v-th state of the file
  inForce,      \* the state of the file whose routes are in use, 0 for none
  routedBy      \* routedBy[r]: the state of the file that routed r

liveVars == <<past, inForce, routedBy>>

LiveInit ==
  /\ past = <<FirstContent>>
  /\ inForce = 0
  /\ routedBy = [r \in Requests |-> NotRouted]

Edit ==
  /\ \E content \in Contents : past' = Append(past, content)
  /\ UNCHANGED <<inForce, routedBy>>

Apply ==
  /\ \E v \in (inForce + 1) .. Len(past) : past[v] \in Good /\ inForce' = v
  /\ UNCHANGED <<past, routedBy>>

Route(r) ==
  /\ routedBy[r] = NotRouted
  /\ routedBy' = [routedBy EXCEPT ![r] = inForce]
  /\ UNCHANGED <<past, inForce>>

LiveNext == Edit \/ Apply \/ \E r \in Requests : Route(r)

LiveSpec == LiveInit /\ [][LiveNext]_liveVars

===============================================================================
