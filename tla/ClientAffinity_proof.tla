------------------------- MODULE ClientAffinity_proof -------------------------
(***************************************************************************)
(* Proofs about ClientAffinity, for any services, lists of servers,        *)
(* clients, requests, hash functions and number of reloads.                *)
(*                                                                         *)
(* A balancer never changes but for its counter.  Where a client goes by   *)
(* its address or its cookie is therefore settled when the balancer is     *)
(* made (Decided), and what requests of different generations got can be   *)
(* compared; and where it goes by turns, the counter says how the turns    *)
(* stand (GoesRound).                                                      *)
(***************************************************************************)
EXTENDS ClientAffinity, WellFoundedInduction, TLAPS

-------------------------------------------------------------------------------
(* Numbers.                                                                 *)

\* The smallest of some natural numbers.
LEMMA MinIsSmallest ==
  ASSUME NEW T \in SUBSET Nat, T # {}
  PROVE  Min(T) \in T /\ \A y \in T : Min(T) <= y
<1> DEFINE R == {p \in Nat \X Nat : p[1] < p[2]}
<1>1. IsWellFoundedOn(R, Nat)
  BY NatLessThanWellFounded, Zenon DEF OpToRel
<1>2. \E x \in T : \A y \in T : <<y, x>> \notin R
  <2> HIDE DEF R
  <2> QED
    BY <1>1, WFMin
<1>3. \A x, y \in T : <<y, x>> \notin R => x <= y
  OBVIOUS
<1> QED
  BY <1>2, <1>3 DEF Min

\* Some numbers up to n have a largest one.
LEMMA MaxIsOneOfThem ==
  ASSUME NEW n \in Nat, NEW T \in SUBSET (1 .. n), T # {}
  PROVE  Max(T) \in T
<1> DEFINE Below == {n - x : x \in T}
<1>1. Below \in SUBSET Nat /\ Below # {}
  <2>1. \A x \in T : x \in 1 .. n
    OBVIOUS
  <2>2. \A x \in T : n - x \in Nat
    BY <2>1
  <2> QED
    BY <2>2
<1>2. Min(Below) \in Below /\ \A y \in Below : Min(Below) <= y
  BY <1>1, MinIsSmallest
<1>3. PICK x \in T : Min(Below) = n - x
  BY <1>2
<1>4. \A y \in T : x >= y
  <2> SUFFICES ASSUME NEW y \in T PROVE x >= y
    OBVIOUS
  <2>1. n - x <= n - y
    BY <1>2, <1>3
  <2> QED
    BY <2>1
<1> QED
  BY <1>4 DEF Max

\* How the remainder goes on.
LEMMA NextRemainder ==
  ASSUME NEW c \in Nat, NEW l \in Nat \ {0}
  PROVE  /\ 0 % l = 0
         /\ c % l \in 0 .. (l - 1)
         /\ (c + 1) % l = IF c % l = l - 1 THEN 0 ELSE (c % l) + 1
<1> DEFINE q == c \div l
           m == c % l
<1>1. q \in Nat /\ m \in 0 .. (l - 1) /\ c = l * q + m
  OBVIOUS
<1>2. ASSUME NEW a \in Nat, NEW k \in Nat, NEW n \in 0 .. (l - 1), a = l * k + n
      PROVE  a % l = n
  BY <1>2
<1>0. 0 % l = 0
  <2>1. 0 = l * 0 + 0
    OBVIOUS
  <2> QED
    BY <1>2, <2>1
<1> HIDE DEF q, m
<1>3. CASE m = l - 1
  <2>1. c + 1 = l * (q + 1) + 0
    BY <1>1, <1>3
  <2>2. (c + 1) % l = 0
    BY <1>1, <1>2, <2>1
  <2> QED
    BY <1>0, <1>1, <1>3, <2>2 DEF m
<1>4. CASE m # l - 1
  <2>1. c + 1 = l * q + (m + 1) /\ m + 1 \in 0 .. (l - 1)
    BY <1>1, <1>4
  <2>2. (c + 1) % l = m + 1
    BY <1>1, <1>2, <2>1
  <2> QED
    BY <1>0, <1>1, <1>4, <2>2 DEF m
<1> QED
  BY <1>0, <1>3, <1>4

-------------------------------------------------------------------------------
(* Balancers.                                                               *)

Counters == 0 .. CounterModulus - 1
Url == DOMAIN UrlHash
Entry == [url : Url \cup {NoUrl}]
Listed == {lb \in LoadBalancer : lb.servers # <<>> /\ ~Panics(lb)}

\* No entry is null.
Solid(servers) == servers \in Seq(Entry) /\ \A s \in DOMAIN servers : servers[s] # NullServer

LEMMA SolidEntries ==
  ASSUME NEW servers \in Seq(Entry \cup {NullServer}),
         \A s \in DOMAIN servers : servers[s] # NullServer
  PROVE  Solid(servers)
<1>1. \A s \in 1 .. Len(servers) : servers[s] \in Entry
  OBVIOUS
<1>2. servers \in [1 .. Len(servers) -> Entry] /\ Len(servers) \in Nat
  BY <1>1
<1>3. servers \in Seq(Entry)
  BY <1>2
<1> QED
  BY <1>3 DEF Solid

\* What New makes, with any value of the counter.
BalancersOf(lb) == {[made EXCEPT !.counter = c] : made \in New(lb), c \in Counters}
Balancer == UNION {BalancersOf(lb) : lb \in Listed}

\* The fields of a balancer, and that a call of Next, which can change nothing
\* but the counter, leaves a balancer of the same kind.
LEMMA BalancerFields ==
  ASSUME NEW b \in Balancer
  PROVE  /\ b.servers \in Seq(Entry \cup {NullServer}) /\ b.servers # <<>>
         /\ b.algorithm \in {"sticky-session", "consistent-hash"} => Solid(b.servers)
         /\ b.algorithm \in {"round-robin", "ip-hash", "sticky-session", "consistent-hash"}
         /\ b.counter \in Counters
         /\ b.algorithm = "sticky-session" => b.byHash = ByHash(b.servers)
         /\ b.algorithm = "consistent-hash" => b.ring \in Rings(b.servers)
         /\ \A c \in Counters : LET next == [b EXCEPT !.counter = c]
                                IN  /\ next \in Balancer
                                    /\ next.servers = b.servers
                                    /\ next.algorithm = b.algorithm
                                    /\ next.counter = c
                                    /\ b.algorithm = "sticky-session" =>
                                         next.byHash = b.byHash
                                    /\ b.algorithm = "consistent-hash" =>
                                         next.ring = b.ring
<1>1. PICK lb \in Listed : \E made \in New(lb), c \in Counters :
        b = [made EXCEPT !.counter = c]
  BY DEF Balancer, BalancersOf
<1>2. PICK made \in New(lb), d \in Counters : b = [made EXCEPT !.counter = d]
  BY <1>1
<1>3. /\ lb.servers \in Seq(Entry \cup {NullServer}) /\ lb.servers # <<>>
      /\ lb.algorithm \in {"round-robin", "ip-hash", "sticky-session", "consistent-hash"}
      /\ lb.algorithm \in {"sticky-session", "consistent-hash"} => Solid(lb.servers)
  <2>1. /\ lb.servers \in Seq(Entry \cup {NullServer}) /\ lb.servers # <<>> /\ ~Panics(lb)
        /\ lb.algorithm \in {"round-robin", "ip-hash", "sticky-session", "consistent-hash"}
    BY DEF Listed, LoadBalancer, Url, Entry
  <2> QED
    BY <2>1, SolidEntries DEF Panics
<1>4. \A c \in Counters : [b EXCEPT !.counter = c] = [made EXCEPT !.counter = c]
  BY <1>2
<1>5. \A c \in Counters : [b EXCEPT !.counter = c] \in Balancer
  BY <1>4 DEF Balancer, BalancersOf
<1>6. CASE lb.algorithm = "round-robin"
  <2>1. made = [algorithm |-> "round-robin", servers |-> lb.servers, counter |-> 0]
    BY <1>6 DEF New, NewRoundRobin
  <2> QED
    BY <2>1, <1>2, <1>3, <1>4, <1>5
<1>7. CASE lb.algorithm = "ip-hash"
  <2>1. made = [algorithm |-> "ip-hash", servers |-> lb.servers, counter |-> 0]
    BY <1>7 DEF New, NewIPHash
  <2> QED
    BY <2>1, <1>2, <1>3, <1>4, <1>5
<1>8. CASE lb.algorithm = "sticky-session"
  <2>1. made = [algorithm |-> "sticky-session", servers |-> lb.servers, counter |-> 0,
                byHash |-> ByHash(lb.servers)]
    BY <1>8 DEF New, NewStickySession
  <2>2. /\ b.servers = lb.servers /\ b.algorithm = lb.algorithm /\ b.counter = d
        /\ b.byHash = ByHash(lb.servers)
    BY <2>1, <1>2, <1>8
  <2>3. ASSUME NEW c \in Counters
        PROVE  LET next == [b EXCEPT !.counter = c]
               IN  /\ next.servers = b.servers /\ next.algorithm = b.algorithm
                   /\ next.counter = c /\ next.byHash = b.byHash
    BY <2>1, <1>2
  <2> QED
    BY <2>2, <2>3, <1>3, <1>5, <1>8
<1>9. CASE lb.algorithm = "consistent-hash"
  <2>1. PICK ring \in Rings(lb.servers) :
          made = [algorithm |-> "consistent-hash", servers |-> lb.servers, counter |-> 0,
                  ring |-> ring]
    BY <1>9 DEF New, NewConsistentHash
  <2>2. /\ b.servers = lb.servers /\ b.algorithm = lb.algorithm /\ b.counter = d
        /\ b.ring = ring
    BY <2>1, <1>2, <1>9
  <2>3. ASSUME NEW c \in Counters
        PROVE  LET next == [b EXCEPT !.counter = c]
               IN  /\ next.servers = b.servers /\ next.algorithm = b.algorithm
                   /\ next.counter = c /\ next.ring = b.ring
    BY <2>1, <1>2
  <2> QED
    BY <2>2, <2>3, <1>3, <1>5, <1>9
<1> QED
  BY <1>3, <1>6, <1>7, <1>8, <1>9

\* The ring has its points at natural numbers, and the server of each has an
\* url that has the point.
LEMMA RingFields ==
  ASSUME NEW b \in Balancer, b.algorithm = "consistent-hash"
  PROVE  /\ DOMAIN b.ring \in SUBSET Nat
         /\ DOMAIN b.ring = UNION {PointsOf(b.servers, s) : s \in WithUrl(b.servers)}
         /\ \A h \in DOMAIN b.ring : /\ b.ring[h] \in WithUrl(b.servers)
                                     /\ h \in PointsOf(b.servers, b.ring[h])
<1>1. b.ring \in Rings(b.servers) /\ b.servers \in Seq(Entry)
  BY BalancerFields DEF Solid
<1>2. ASSUME NEW s \in WithUrl(b.servers) PROVE PointsOf(b.servers, s) \subseteq Nat
  <2>1. b.servers[s].url \in DOMAIN PointHash
    <3>1. s \in 1 .. Len(b.servers) /\ b.servers[s].url # NoUrl
      BY <1>1 DEF WithUrl
    <3>2. b.servers[s] \in Entry
      BY <1>1, <3>1
    <3> QED
      BY <3>1, <3>2, ClientAffinityAssumption DEF Url, Entry
  <2> QED
    BY <2>1, ConsistentHashAssumption DEF PointsOf
<1> QED
  BY <1>1, <1>2 DEF Rings

\* The point for a key is one of the points.
LEMMA PointForIsAPoint ==
  ASSUME NEW hashes \in SUBSET Nat, hashes # {}, NEW key \in Nat
  PROVE  PointFor(hashes, key) \in hashes
<1> DEFINE above == {h \in hashes : h >= key}
<1>1. above \in SUBSET Nat
  OBVIOUS
<1>2. Min(hashes) \in hashes
  BY MinIsSmallest
<1>3. above # {} => Min(above) \in above
  BY <1>1, MinIsSmallest
<1> QED
  BY <1>2, <1>3 DEF PointFor

\* If the points for a key in two rings are in both rings, they are the same.
LEMMA SamePoint ==
  ASSUME NEW A \in SUBSET Nat, NEW B \in SUBSET Nat, NEW key \in Nat,
         PointFor(A, key) \in A \cap B, PointFor(B, key) \in A \cap B
  PROVE  PointFor(A, key) = PointFor(B, key)
<1> DEFINE Above(T) == {h \in T : h >= key}
<1>1. ASSUME NEW T \in SUBSET Nat, T # {}
      PROVE  \/ Above(T) # {} /\ PointFor(T, key) \in Above(T)
                /\ \A h \in Above(T) : PointFor(T, key) <= h
             \/ Above(T) = {} /\ \A h \in T : PointFor(T, key) <= h
  <2>1. Above(T) \in SUBSET Nat
    OBVIOUS
  <2>2. CASE Above(T) # {}
    BY <2>1, <2>2, MinIsSmallest DEF PointFor
  <2>3. CASE Above(T) = {}
    BY <1>1, <2>3, MinIsSmallest DEF PointFor
  <2> QED
    BY <2>2, <2>3
<1> DEFINE a == PointFor(A, key)
           b == PointFor(B, key)
<1>2. a \in A /\ a \in B /\ b \in A /\ b \in B /\ a \in Nat /\ b \in Nat
  OBVIOUS
<1>3. \/ a >= key /\ \A h \in A : h >= key => a <= h
      \/ (\A h \in A : ~(h >= key)) /\ \A h \in A : a <= h
  BY <1>1, <1>2
<1>4. \/ b >= key /\ \A h \in B : h >= key => b <= h
      \/ (\A h \in B : ~(h >= key)) /\ \A h \in B : b <= h
  BY <1>1, <1>2
<1> HIDE DEF a, b
<1>5. a <= b /\ b <= a
  BY <1>2, <1>3, <1>4
<1> QED
  BY <1>2, <1>5 DEF a, b

\* The cookie of an url in the list leads to a server of that hash.
LEMMA CookieLeadsBack ==
  ASSUME NEW servers, Solid(servers)
  PROVE  /\ DOMAIN ByHash(servers) = {UrlHash[url] : url \in Urls(servers)}
         /\ \A h \in DOMAIN ByHash(servers) :
              /\ ByHash(servers)[h] \in DOMAIN servers
              /\ servers[ByHash(servers)[h]].url # NoUrl
              /\ UrlHash[servers[ByHash(servers)[h]].url] = h
<1> DEFINE Holders(h) == {s \in DOMAIN servers :
                            servers[s].url # NoUrl /\ UrlHash[servers[s].url] = h}
           hashes == {UrlHash[url] : url \in Urls(servers)}
<1>0. servers \in Seq(Entry) /\ Urls(servers) = {servers[s].url : s \in DOMAIN servers} \ {NoUrl}
  BY DEF Solid, Urls, UrlAt
<1>1. ByHash(servers) = [h \in hashes |-> Max(Holders(h))]
  BY <1>0 DEF ByHash
<1>2. ASSUME NEW h \in hashes PROVE Max(Holders(h)) \in Holders(h)
  <2>1. Holders(h) # {}
    BY <1>0
  <2>2. Holders(h) \in SUBSET (1 .. Len(servers)) /\ Len(servers) \in Nat
    BY <1>0
  <2> HIDE DEF Holders
  <2> QED
    BY <2>1, <2>2, MaxIsOneOfThem
<1> QED
  BY <1>1, <1>2

-------------------------------------------------------------------------------
(* Next.                                                                    *)

\* What address and cookie decide, whatever the counter says.
Decided(b, address, cookie, server) ==
  /\ b.algorithm = "ip-hash" /\ address # NoAddress =>
       server = (AddressHash[address] % Len(b.servers)) + 1
  /\ b.algorithm = "consistent-hash" /\ DOMAIN b.ring = {} => server = NoServer
  /\ b.algorithm = "consistent-hash" /\ DOMAIN b.ring # {} /\ address # NoAddress =>
       server = b.ring[PointFor(DOMAIN b.ring, AddressHash[address])]
  /\ b.algorithm = "sticky-session" /\ cookie \in DOMAIN b.byHash =>
       server = b.byHash[cookie]

\* The counter after a turn.
Turn(b) == (b.counter + 1) % CounterModulus

LEMMA RotateTurns ==
  ASSUME NEW b \in Balancer
  PROVE  /\ Turn(b) \in Counters
         /\ Rotate(b).server = (Turn(b) % Len(b.servers)) + 1
         /\ Rotate(b).server \in DOMAIN b.servers
         /\ Rotate(b).balancer = [b EXCEPT !.counter = Turn(b)]
<1>1. b.counter \in Nat /\ b.servers \in Seq(Entry \cup {NullServer}) /\ b.servers # <<>>
  BY BalancerFields DEF Counters
<1>2. Len(b.servers) \in Nat \ {0} /\ DOMAIN b.servers = 1 .. Len(b.servers)
  BY <1>1
<1>3. Turn(b) \in Counters
  <2>1. b.counter + 1 \in Nat /\ CounterModulus \in Nat \ {0}
    BY <1>1, RoundRobinAssumption
  <2> QED
    BY <2>1, NextRemainder DEF Turn, Counters
<1>4. (Turn(b) % Len(b.servers)) \in 0 .. (Len(b.servers) - 1)
  <2>1. Turn(b) \in Nat
    BY <1>3 DEF Counters
  <2> QED
    BY <1>2, <2>1, NextRemainder
<1> QED
  BY <1>2, <1>3, <1>4 DEF Rotate, Choice, Turn

\* What a call of Next may return: a server of the list or none, by what is
\* decided, and the balancer as it was or after the turn of that server.
IsChoice(choice, b, address, cookie) ==
  /\ choice.server \in {NoServer} \cup DOMAIN b.servers
  /\ Decided(b, address, cookie, choice.server)
  /\ \/ choice.balancer = b
     \/ /\ choice.balancer = [b EXCEPT !.counter = Turn(b)]
        /\ choice.server = (Turn(b) % Len(b.servers)) + 1

LEMMA NextIs ==
  ASSUME NEW b \in Balancer, NEW address \in DOMAIN AddressHash \cup {NoAddress},
         NEW cookie
  PROVE  IsChoice(Next(b, address, cookie), b, address, cookie)
<1> DEFINE choice == Next(b, address, cookie)
<1>1. /\ b.servers \in Seq(Entry \cup {NullServer}) /\ b.servers # <<>>
      /\ b.algorithm \in {"round-robin", "ip-hash", "sticky-session", "consistent-hash"}
      /\ Len(b.servers) \in Nat \ {0} /\ DOMAIN b.servers = 1 .. Len(b.servers)
  BY BalancerFields
<1>2. address # NoAddress => AddressHash[address] \in Nat
  BY IPHashAssumption
<1>3. CASE b.algorithm = "round-robin"
  <2>1. choice = Rotate(b)
    BY <1>1, <1>3 DEF Next, NextRoundRobin
  <2> QED
    BY <1>3, <2>1, RotateTurns DEF IsChoice, Decided
<1>4. CASE b.algorithm = "ip-hash"
  <2>1. CASE address = NoAddress
    <3>1. choice = Rotate(b)
      BY <1>1, <1>4, <2>1 DEF Next, NextIPHash
    <3> QED
      BY <1>4, <2>1, <3>1, RotateTurns DEF IsChoice, Decided
  <2>2. CASE address # NoAddress
    <3>1. choice = Choice((AddressHash[address] % Len(b.servers)) + 1, b)
      BY <1>1, <1>4, <2>2 DEF Next, NextIPHash
    <3>2. (AddressHash[address] % Len(b.servers)) \in 0 .. (Len(b.servers) - 1)
      BY <1>1, <1>2, <2>2, NextRemainder
    <3> QED
      BY <1>1, <1>4, <3>1, <3>2 DEF IsChoice, Decided, Choice
  <2> QED
    BY <2>1, <2>2
<1>5. CASE b.algorithm = "sticky-session"
  <2>1. CASE cookie \in DOMAIN b.byHash
    <3>1. choice = Choice(b.byHash[cookie], b)
      BY <1>5, <2>1 DEF Next, NextStickySession
    <3>2. b.byHash[cookie] \in DOMAIN b.servers
      BY <1>1, <1>5, <2>1, BalancerFields, CookieLeadsBack
    <3> QED
      BY <1>5, <3>1, <3>2 DEF IsChoice, Decided, Choice
  <2>2. CASE cookie \notin DOMAIN b.byHash
    <3>1. choice = Rotate(b)
      BY <1>1, <1>5, <2>2 DEF Next, NextStickySession, NextRoundRobin
    <3> QED
      BY <1>5, <2>2, <3>1, RotateTurns DEF IsChoice, Decided
  <2> QED
    BY <2>1, <2>2
<1>6. CASE b.algorithm = "consistent-hash"
  <2>1. CASE DOMAIN b.ring = {}
    <3>1. choice = Choice(NoServer, b)
      BY <1>6, <2>1 DEF Next, NextConsistentHash
    <3> QED
      BY <1>6, <2>1, <3>1 DEF IsChoice, Decided, Choice
  <2>2. CASE DOMAIN b.ring # {} /\ address = NoAddress
    <3>1. choice = Rotate(b)
      BY <1>6, <2>2 DEF Next, NextConsistentHash
    <3> QED
      BY <1>6, <2>2, <3>1, RotateTurns DEF IsChoice, Decided
  <2>3. CASE DOMAIN b.ring # {} /\ address # NoAddress
    <3> DEFINE point == PointFor(DOMAIN b.ring, AddressHash[address])
    <3>1. choice = Choice(b.ring[point], b)
      BY <1>6, <2>3 DEF Next, NextConsistentHash
    <3>2. point \in DOMAIN b.ring
      BY <1>2, <1>6, <2>3, RingFields, PointForIsAPoint
    <3>3. b.ring[point] \in DOMAIN b.servers
      BY <1>6, <3>2, RingFields DEF WithUrl
    <3> QED
      BY <1>6, <2>3, <3>1, <3>3 DEF IsChoice, Decided, Choice
  <2> QED
    BY <2>1, <2>2, <2>3
<1> QED
  BY <1>1, <1>3, <1>4, <1>5, <1>6

-------------------------------------------------------------------------------
(* Turns.                                                                   *)

\* Turns of l servers since the counter was last zero, when it stands at m in
\* its round: whole rounds, one more for the servers up to m, and one less for
\* the first server as long as the counter has not wrapped, for the first call
\* leaves it out.
Standing(count, l, m, rounds, missed) ==
  \A s \in 1 .. l :
    count[s] = rounds + (IF s - 1 <= m THEN 1 ELSE 0) - (IF s = 1 THEN missed ELSE 0)

GoesRound(b, count) ==
  /\ count \in [DOMAIN b.servers -> Nat]
  /\ \E rounds \in Nat, missed \in {0, 1} :
       Standing(count, Len(b.servers), b.counter % Len(b.servers), rounds, missed)

\* One turn of the server at n, and where the counter goes from m.
TurnAt(count, after, l, n) ==
  \A t \in 1 .. l : after[t] = count[t] + (IF t = n + 1 THEN 1 ELSE 0)

Following(l, m) == IF m = l - 1 THEN 0 ELSE m + 1

\* A turn of the next server.
LEMMA StandingAfterTurn ==
  ASSUME NEW l \in Nat \ {0}, NEW m \in 0 .. (l - 1), NEW rounds \in Nat,
         NEW missed \in {0, 1}, NEW count \in [1 .. l -> Nat],
         Standing(count, l, m, rounds, missed),
         NEW after, TurnAt(count, after, l, Following(l, m))
  PROVE  \E q \in Nat : Standing(after, l, Following(l, m), q, missed)
<1> DEFINE n == Following(l, m)
<1>1. \A t \in 1 .. l :
        /\ count[t] = rounds + (IF t - 1 <= m THEN 1 ELSE 0) - (IF t = 1 THEN missed ELSE 0)
        /\ after[t] = count[t] + (IF t = n + 1 THEN 1 ELSE 0)
  BY DEF Standing, TurnAt
<1>0. n = IF m = l - 1 THEN 0 ELSE m + 1
  BY DEF Following
<1> HIDE DEF n
<1>2. CASE m = l - 1
  <2>1. ASSUME NEW t \in 1 .. l
        PROVE  after[t] = (rounds + 1) + (IF t - 1 <= n THEN 1 ELSE 0)
                                       - (IF t = 1 THEN missed ELSE 0)
    <3>1. n = 0 /\ t - 1 <= m /\ (t - 1 <= n <=> t = 1) /\ (t = n + 1 <=> t = 1)
      BY <1>0, <1>2
    <3>2. count[t] = rounds + 1 - (IF t = 1 THEN missed ELSE 0)
      BY <1>1, <3>1
    <3> QED
      BY <1>1, <3>1, <3>2
  <2>2. rounds + 1 \in Nat
    OBVIOUS
  <2> QED
    BY <2>1, <2>2 DEF Standing, n
<1>3. CASE m # l - 1
  <2>1. ASSUME NEW t \in 1 .. l
        PROVE  after[t] = rounds + (IF t - 1 <= n THEN 1 ELSE 0)
                                 - (IF t = 1 THEN missed ELSE 0)
    <3>1. n = m + 1 /\ n \in Nat
      BY <1>0, <1>3
    <3>2. CASE t = n + 1
      BY <1>1, <3>1, <3>2
    <3>3. CASE t # n + 1
      <4>1. t - 1 <= m <=> t - 1 <= n
        BY <3>1, <3>3
      <4> QED
        BY <1>1, <3>3, <4>1
    <3> QED
      BY <3>2, <3>3
  <2> QED
    BY <2>1 DEF Standing, n
<1> QED
  BY <1>2, <1>3

LEMMA TurnGoesRound ==
  ASSUME NEW b \in Balancer, NEW count, GoesRound(b, count),
         NEW next, next = [b EXCEPT !.counter = Turn(b)],
         NEW s, s = (Turn(b) % Len(b.servers)) + 1
  PROVE  GoesRound(next, CountTurn(count, s, next.counter))
<1>1. PICK l \in Nat \ {0} : l = Len(b.servers) /\ DOMAIN b.servers = 1 .. l
  BY BalancerFields
<1>2. PICK c \in Nat : c = b.counter /\ c < CounterModulus
  BY BalancerFields, RoundRobinAssumption DEF Counters
<1>3. next.servers = b.servers /\ next.counter = Turn(b) /\ Turn(b) \in Nat
  BY BalancerFields, RotateTurns DEF Counters
<1>4. /\ count \in [1 .. l -> Nat]
      /\ \E rounds \in Nat, missed \in {0, 1} : Standing(count, l, c % l, rounds, missed)
  BY <1>1, <1>2 DEF GoesRound
<1>5. PICK rounds \in Nat, missed \in {0, 1} : Standing(count, l, c % l, rounds, missed)
  BY <1>4
<1>6. /\ c % l \in 0 .. (l - 1) /\ 0 % l = 0
      /\ (c + 1) % l = IF c % l = l - 1 THEN 0 ELSE (c % l) + 1
  BY NextRemainder
<1>7. Turn(b) = 0 \/ Turn(b) = c + 1
  <2>1. CounterModulus \in Nat \ {0} /\ c % CounterModulus = c
    BY <1>2, RoundRobinAssumption
  <2> QED
    BY <1>2, <2>1, NextRemainder DEF Turn
<1>8. CountTurn(count, s, next.counter) =
        [t \in 1 .. l |-> (IF Turn(b) = 0 THEN 0 ELSE count[t]) + (IF t = s THEN 1 ELSE 0)]
  BY <1>3, <1>4 DEF CountTurn
<1>9. CountTurn(count, s, next.counter) \in [1 .. l -> Nat]
  BY <1>4, <1>8
<1>10. \E q \in Nat, f \in {0, 1} :
         Standing(CountTurn(count, s, next.counter), l, Turn(b) % l, q, f)
  <2>1. CASE Turn(b) = 0
    <3>0. Turn(b) % l = 0
      BY <1>6, <2>1
    <3>1. s = 1
      BY <1>1, <3>0
    <3>2. CountTurn(count, s, next.counter) = [t \in 1 .. l |-> 0 + (IF t = 1 THEN 1 ELSE 0)]
      BY <1>8, <2>1, <3>1
    <3>3. Standing([t \in 1 .. l |-> 0 + (IF t = 1 THEN 1 ELSE 0)], l, 0, 0, 0)
      BY DEF Standing
    <3> QED
      BY <3>0, <3>2, <3>3
  <2>2. CASE Turn(b) = c + 1
    <3> DEFINE m == c % l
               after == CountTurn(count, s, next.counter)
    <3>1. Turn(b) % l = Following(l, m)
      BY <1>6, <2>2 DEF Following
    <3>2. TurnAt(count, after, l, Following(l, m))
      <4>1. s = Following(l, m) + 1 /\ Turn(b) # 0
        BY <1>1, <2>2, <3>1
      <4> QED
        BY <1>8, <4>1 DEF TurnAt
    <3>3. /\ m \in 0 .. (l - 1) /\ count \in [1 .. l -> Nat]
          /\ Standing(count, l, m, rounds, missed)
      BY <1>4, <1>5, <1>6
    <3> HIDE DEF m, after
    <3>4. \E q \in Nat : Standing(after, l, Following(l, m), q, missed)
      BY <3>2, <3>3, StandingAfterTurn
    <3> QED
      BY <3>1, <3>4 DEF after
  <2> QED
    BY <1>7, <2>1, <2>2
<1> QED
  BY <1>1, <1>3, <1>9, <1>10 DEF GoesRound

\* Turns that go round are even.
LEMMA RoundsAreEven ==
  ASSUME NEW b \in Balancer, NEW count, GoesRound(b, count),
         NEW s \in DOMAIN count, NEW t \in DOMAIN count
  PROVE  count[s] <= count[t] + 1
<1>1. PICK l \in Nat \ {0} : l = Len(b.servers) /\ DOMAIN b.servers = 1 .. l
  BY BalancerFields
<1>2. b.counter % l \in 0 .. (l - 1)
  <2>1. b.counter \in Nat
    BY BalancerFields, RoundRobinAssumption DEF Counters
  <2> QED
    BY <2>1, NextRemainder
<1>3. count \in [1 .. l -> Nat] /\ s \in 1 .. l /\ t \in 1 .. l
  BY <1>1 DEF GoesRound
<1>4. PICK rounds \in Nat, missed \in {0, 1} :
        Standing(count, l, b.counter % l, rounds, missed)
  BY <1>1 DEF GoesRound
<1>5. \A u \in 1 .. l :
        count[u] = rounds + (IF u - 1 <= b.counter % l THEN 1 ELSE 0)
                          - (IF u = 1 THEN missed ELSE 0)
  BY <1>4 DEF Standing
<1>6. \A u \in 1 .. l : rounds <= count[u] /\ count[u] <= rounds + 1
  BY <1>2, <1>5
<1> QED
  BY <1>3, <1>6

-------------------------------------------------------------------------------
(* The balancers of all generations, and what requests got from them.       *)

Cookie == {UrlHash[url] : url \in Url} \cup {NoCookie}
Count == UNION {[1 .. n -> Nat] : n \in Nat}
RequestRecord ==
  [at : {"new", "sent", "admitted", "waiting", "answered", "failed", "lost"},
   service : Services, cookie : Cookie, pinned : Url \cup {NoUrl}, gen : Nat, server : Nat]

BalancersOK ==
  /\ balancers \in Seq([Services -> Balancer])
  /\ turns \in Seq([Services -> Count])
  /\ Len(turns) = Len(balancers)
  /\ inForce \in {0, Len(balancers)}
  /\ \A g \in 1 .. Len(balancers), service \in Services :
       GoesRound(balancers[g][service], turns[g][service])

ClientsOK ==
  /\ jar \in [Clients -> [Hosts -> Cookie]]
  /\ pinned \in [Clients -> [Services -> Url \cup {NoUrl}]]

\* A request that was admitted has a balancer; one that has its server has
\* what its balancer decided for its address and its cookie.
RequestOK(r) ==
  /\ req[r].at \in {"new", "sent", "lost"} => req[r].gen = 0
  /\ req[r].at \notin {"new", "sent", "lost"} => req[r].gen \in 1 .. Len(balancers)
  /\ ~Chosen(r) => req[r].server = NoServer
  /\ Chosen(r) =>
       /\ req[r].server \in {NoServer} \cup DOMAIN BalancerOf(r).servers
       /\ Decided(BalancerOf(r), AddressOf[Owner[r]], req[r].cookie, req[r].server)

CAInv ==
  /\ BalancersOK
  /\ ClientsOK
  /\ req \in [Requests -> RequestRecord]
  /\ \A r \in Requests : RequestOK(r)

\* What changes about the balancers there are is at most their counters.
Continue ==
  /\ Len(balancers') \in Nat /\ Len(balancers) <= Len(balancers')
  /\ \A g \in 1 .. Len(balancers), service \in Services :
       \/ balancers'[g][service] = balancers[g][service]
       \/ \E c \in Counters :
            balancers'[g][service] = [balancers[g][service] EXCEPT !.counter = c]

LEMMA BalancerOfIsBalancer ==
  ASSUME CAInv, NEW r \in Requests, req[r].at \notin {"new", "sent", "lost"}
  PROVE  /\ req[r].gen \in 1 .. Len(balancers) /\ req[r].service \in Services
         /\ BalancerOf(r) \in Balancer
<1>1. req[r].gen \in 1 .. Len(balancers) /\ req[r].service \in Services
  BY DEF CAInv, RequestOK, RequestRecord
<1>2. balancers[req[r].gen] \in [Services -> Balancer]
  BY <1>1 DEF CAInv, BalancersOK
<1> QED
  BY <1>1, <1>2 DEF BalancerOf

\* The counter decides nothing of what is decided.
LEMMA CounterDecidesNothing ==
  ASSUME NEW b \in Balancer, NEW c \in Counters, NEW address, NEW cookie, NEW server,
         Decided(b, address, cookie, server)
  PROVE  Decided([b EXCEPT !.counter = c], address, cookie, server)
<1> DEFINE next == [b EXCEPT !.counter = c]
<1>1. /\ next.servers = b.servers /\ next.algorithm = b.algorithm
      /\ b.algorithm = "sticky-session" => next.byHash = b.byHash
      /\ b.algorithm = "consistent-hash" => next.ring = b.ring
  BY BalancerFields
<1> HIDE DEF next
<1> QED
  BY <1>1 DEF Decided, next

LEMMA RequestStays ==
  ASSUME CAInv, Continue, NEW r \in Requests, req'[r] = req[r]
  PROVE  RequestOK(r)'
<1>1. RequestOK(r)
  BY DEF CAInv
<1>2. CASE ~Chosen(r)
  BY <1>1, <1>2 DEF RequestOK, Chosen, Continue, CAInv, RequestRecord, BalancersOK
<1>3. CASE Chosen(r)
  <2>1. /\ req[r].gen \in 1 .. Len(balancers) /\ req[r].service \in Services
        /\ BalancerOf(r) \in Balancer
    BY <1>3, BalancerOfIsBalancer DEF Chosen
  <2>2. \/ BalancerOf(r)' = BalancerOf(r)
        \/ \E c \in Counters : BalancerOf(r)' = [BalancerOf(r) EXCEPT !.counter = c]
    <3> DEFINE g == req[r].gen
               service == req[r].service
    <3>1. BalancerOf(r) = balancers[g][service] /\ BalancerOf(r)' = balancers'[g][service]
      BY DEF BalancerOf
    <3>2. g \in 1 .. Len(balancers) /\ service \in Services
      BY <2>1
    <3> HIDE DEF g, service
    <3>3. \/ balancers'[g][service] = balancers[g][service]
          \/ \E c \in Counters :
               balancers'[g][service] = [balancers[g][service] EXCEPT !.counter = c]
      BY <3>2 DEF Continue
    <3> QED
      BY <3>1, <3>3
  <2>3. /\ BalancerOf(r)'.servers = BalancerOf(r).servers
        /\ Decided(BalancerOf(r)', AddressOf[Owner[r]], req[r].cookie, req[r].server)
    <3> DEFINE b == BalancerOf(r)
    <3>1. Decided(b, AddressOf[Owner[r]], req[r].cookie, req[r].server) /\ b \in Balancer
      BY <1>1, <1>3, <2>1 DEF RequestOK
    <3>2. CASE BalancerOf(r)' = b
      BY <3>1, <3>2
    <3>3. ASSUME NEW c \in Counters, BalancerOf(r)' = [b EXCEPT !.counter = c]
          PROVE  /\ BalancerOf(r)'.servers = b.servers
                 /\ Decided(BalancerOf(r)', AddressOf[Owner[r]], req[r].cookie, req[r].server)
      <4>1. [b EXCEPT !.counter = c].servers = b.servers
        BY <3>1, BalancerFields
      <4>2. Decided([b EXCEPT !.counter = c], AddressOf[Owner[r]], req[r].cookie,
                    req[r].server)
        BY <3>1, CounterDecidesNothing
      <4> QED
        BY <3>3, <4>1, <4>2
    <3> QED
      BY <2>2, <3>2, <3>3
  <2>4. Len(balancers) \in Nat /\ Len(balancers') \in Nat /\ Len(balancers) <= Len(balancers')
    BY DEF Continue, CAInv, BalancersOK
  <2> QED
    BY <1>1, <1>3, <2>1, <2>3, <2>4 DEF RequestOK, Chosen
<1> QED
  BY <1>2, <1>3

\* A balancer that is made has a counter of zero.
LEMMA NewIsBalancer ==
  ASSUME NEW lb \in Listed, NEW made \in New(lb)
  PROVE  made \in Balancer /\ made.counter = 0 /\ made.servers = lb.servers
<1>1. lb.algorithm \in {"round-robin", "ip-hash", "sticky-session", "consistent-hash"}
  BY DEF Listed, LoadBalancer
<1>2. /\ made.counter = 0 /\ made.servers = lb.servers
      /\ made = [made EXCEPT !.counter = 0]
  <2>1. CASE lb.algorithm = "round-robin"
    BY <2>1 DEF New, NewRoundRobin
  <2>2. CASE lb.algorithm = "ip-hash"
    BY <2>2 DEF New, NewIPHash
  <2>3. CASE lb.algorithm = "sticky-session"
    BY <2>3 DEF New, NewStickySession
  <2>4. CASE lb.algorithm = "consistent-hash"
    BY <2>4 DEF New, NewConsistentHash
  <2> QED
    BY <1>1, <2>1, <2>2, <2>3, <2>4
<1>3. 0 \in Counters
  BY RoundRobinAssumption DEF Counters
<1> QED
  BY <1>2, <1>3 DEF Balancer, BalancersOf

-------------------------------------------------------------------------------
(* Every step keeps the invariant.                                          *)

LEMMA CAInvInit == CAInit => CAInv
<1> SUFFICES ASSUME CAInit PROVE CAInv
  OBVIOUS
<1>1. (CHOOSE service \in Services : TRUE) \in Services
  BY ClientAffinityAssumption
<1>2. req \in [Requests -> RequestRecord]
  BY <1>1 DEF CAInit, RequestRecord, Cookie, NoServer
<1>3. \A r \in Requests : RequestOK(r)
  BY DEF CAInit, RequestOK, Chosen
<1>4. BalancersOK /\ ClientsOK
  BY DEF CAInit, BalancersOK, ClientsOK, Cookie
<1> QED
  BY <1>2, <1>3, <1>4 DEF CAInv

LEMMA ReloadKeepsCAInv ==
  ASSUME CAInv, Reload
  PROVE  CAInv'
<1>1. PICK config \in Configs :
        /\ \A service \in Services : ~Panics(config[service])
        /\ \E made \in [Services -> UNION {New(config[service]) : service \in Services}] :
             /\ \A service \in Services : made[service] \in New(config[service])
             /\ balancers' = Append(balancers, made)
        /\ turns' = Append(turns, [service \in Services |->
                                    [s \in DOMAIN config[service].servers |-> 0]])
  BY DEF Reload
<1>2. PICK made \in [Services -> UNION {New(config[service]) : service \in Services}] :
        /\ \A service \in Services : made[service] \in New(config[service])
        /\ balancers' = Append(balancers, made)
  BY <1>1
<1>3. UNCHANGED <<jar, req, pinned>> /\ inForce' = Len(balancers')
  BY DEF Reload
<1> DEFINE zero == [service \in Services |-> [s \in DOMAIN config[service].servers |-> 0]]
           n == Len(balancers)
<1>4. ASSUME NEW service \in Services
      PROVE  /\ made[service] \in Balancer /\ zero[service] \in Count
             /\ GoesRound(made[service], zero[service])
  <2>1. config[service] \in Listed
    BY <1>1, ClientAffinityAssumption DEF Listed
  <2>2. /\ made[service] \in Balancer /\ made[service].counter = 0
        /\ made[service].servers = config[service].servers
    BY <1>2, <2>1, NewIsBalancer
  <2>3. PICK l \in Nat \ {0} : /\ l = Len(made[service].servers)
                               /\ DOMAIN made[service].servers = 1 .. l
    BY <2>2, BalancerFields
  <2>4. zero[service] = [s \in 1 .. l |-> 0]
    BY <2>2, <2>3
  <2>5. 0 % l = 0
    BY NextRemainder
  <2>6. Standing(zero[service], l, 0, 0, 1)
    BY <2>4 DEF Standing
  <2>7. zero[service] \in [1 .. l -> Nat] /\ zero[service] \in Count
    BY <2>4 DEF Count
  <2> HIDE DEF zero
  <2>8. GoesRound(made[service], zero[service])
    <3> DEFINE b == made[service]
               count == zero[service]
    <3>1. Len(b.servers) = l /\ b.counter % l = 0
      BY <2>2, <2>3, <2>5
    <3>2. count \in [DOMAIN b.servers -> Nat]
      BY <2>3, <2>7
    <3>3. Standing(count, Len(b.servers), b.counter % Len(b.servers), 0, 1)
      BY <2>6, <3>1
    <3> HIDE DEF b, count
    <3> QED
      BY <3>2, <3>3 DEF GoesRound, b, count
  <2> QED
    BY <2>2, <2>7, <2>8
<1>5. made \in [Services -> Balancer] /\ zero \in [Services -> Count]
  BY <1>2, <1>4
<1>6. balancers' = Append(balancers, made) /\ turns' = Append(turns, zero)
  BY <1>1, <1>2
<1> HIDE DEF zero
<1>7. /\ n \in Nat /\ Len(turns) = n /\ Len(balancers') = n + 1 /\ Len(turns') = n + 1
      /\ balancers' \in Seq([Services -> Balancer]) /\ turns' \in Seq([Services -> Count])
      /\ \A g \in 1 .. n : balancers'[g] = balancers[g] /\ turns'[g] = turns[g]
      /\ balancers'[n + 1] = made /\ turns'[n + 1] = zero
  BY <1>5, <1>6 DEF CAInv, BalancersOK
<1>8. BalancersOK'
  <2>1. ASSUME NEW g \in 1 .. (n + 1), NEW service \in Services
        PROVE  GoesRound(balancers'[g][service], turns'[g][service])
    <3>1. CASE g \in 1 .. n
      BY <1>7, <3>1 DEF CAInv, BalancersOK
    <3>2. CASE g = n + 1
      BY <1>4, <1>7, <3>2
    <3> QED
      BY <1>7, <3>1, <3>2
  <2> QED
    BY <1>3, <1>7, <2>1 DEF BalancersOK
<1>9. Continue
  BY <1>7 DEF Continue
<1>10. \A r \in Requests : RequestOK(r)'
  BY <1>3, <1>9, RequestStays
<1> QED
  BY <1>3, <1>8, <1>10 DEF CAInv, ClientsOK

LEMMA PanicKeepsCAInv ==
  ASSUME CAInv, Panic
  PROVE  CAInv'
<1>1. /\ UNCHANGED <<balancers, jar, turns, pinned>> /\ inForce' = 0
      /\ req' = [r \in Requests |->
                   IF req[r].at \in {"sent", "admitted", "waiting"}
                   THEN [req[r] EXCEPT !.at = "lost", !.gen = 0, !.server = NoServer]
                   ELSE req[r]]
  BY DEF Panic
<1>2. BalancersOK' /\ ClientsOK' /\ Continue
  <2>1. BalancersOK /\ ClientsOK
    BY DEF CAInv
  <2>2. BalancersOK'
    BY <1>1, <2>1 DEF BalancersOK
  <2>3. ClientsOK'
    BY <1>1, <2>1 DEF ClientsOK
  <2>4. Continue
    <3>1. Len(balancers) \in Nat
      BY <2>1 DEF BalancersOK
    <3>2. balancers' = balancers
      BY <1>1
    <3>3. Len(balancers') \in Nat /\ Len(balancers) <= Len(balancers')
      BY <3>1, <3>2
    <3> QED
      BY <3>2, <3>3 DEF Continue
  <2> QED
    BY <2>2, <2>3, <2>4
<1>3. ASSUME NEW r \in Requests
      PROVE  req'[r] \in RequestRecord /\ RequestOK(r)'
  <2>1. req[r] \in RequestRecord
    BY DEF CAInv
  <2>2. CASE req[r].at \in {"sent", "admitted", "waiting"}
    <3>1. PICK record : /\ record = [req[r] EXCEPT !.at = "lost", !.gen = 0, !.server = 0]
                        /\ req'[r] = record
      BY <1>1, <2>2 DEF NoServer
    <3>2. req'[r].at = "lost" /\ req'[r].gen = 0 /\ req'[r].server = NoServer
      BY <2>1, <3>1 DEF RequestRecord, NoServer
    <3>3. record \in RequestRecord
      <4>1. [req[r] EXCEPT !.at = "lost"] \in RequestRecord
        BY <2>1 DEF RequestRecord
      <4>2. [req[r] EXCEPT !.at = "lost", !.gen = 0] \in RequestRecord
        BY <2>1, <4>1 DEF RequestRecord
      <4> QED
        BY <2>1, <3>1, <4>2 DEF RequestRecord
    <3> QED
      BY <3>1, <3>2, <3>3 DEF RequestOK, Chosen
  <2>3. CASE req[r].at \notin {"sent", "admitted", "waiting"}
    <3>1. req'[r] = req[r]
      BY <1>1, <2>3
    <3> QED
      BY <1>2, <2>1, <3>1, RequestStays
  <2> QED
    BY <2>2, <2>3
<1>4. req' \in [Requests -> RequestRecord]
  BY <1>1, <1>3
<1> QED
  BY <1>2, <1>3, <1>4 DEF CAInv

LEMMA RewriteKeepsCAInv ==
  ASSUME CAInv, NEW r \in Requests, Rewrite(r)
  PROVE  CAInv'
<1> DEFINE g == req[r].gen
           service == req[r].service
           b == BalancerOf(r)
           address == AddressOf[Owner[r]]
           cookie == req[r].cookie
           choice == Next(b, address, cookie)
           n == Len(balancers)
<1>1. /\ req[r].at = "admitted"
      /\ req' = [req EXCEPT ![r].at = "waiting", ![r].server = choice.server]
      /\ balancers' = [balancers EXCEPT ![g][service] = choice.balancer]
      /\ turns' = IF choice.balancer = b
                  THEN turns
                  ELSE [turns EXCEPT ![g][service] =
                          CountTurn(@, choice.server, choice.balancer.counter)]
      /\ UNCHANGED <<jar, pinned, inForce>>
  BY DEF Rewrite
<1>2. g \in 1 .. n /\ service \in Services /\ b \in Balancer /\ b = balancers[g][service]
  BY <1>1, BalancerOfIsBalancer DEF BalancerOf
<1>3. address \in DOMAIN AddressHash \cup {NoAddress}
  BY ClientAffinityAssumption
<1>4. IsChoice(choice, b, address, cookie)
  BY <1>2, <1>3, NextIs
<1>5. /\ n \in Nat /\ balancers \in [1 .. n -> [Services -> Balancer]]
      /\ turns \in [1 .. n -> [Services -> Count]] /\ Len(turns) = n
      /\ inForce \in {0, n}
      /\ GoesRound(b, turns[g][service])
  BY <1>2 DEF CAInv, BalancersOK
<1>6. req \in [Requests -> RequestRecord] /\ req[r] \in RequestRecord
  BY DEF CAInv
<1> HIDE DEF b, choice, g, service, n, address, cookie
<1>7. /\ choice.balancer \in Balancer
      /\ choice.balancer.servers = b.servers /\ choice.balancer.algorithm = b.algorithm
      /\ \/ choice.balancer = b
         \/ \E c \in Counters : choice.balancer = [b EXCEPT !.counter = c]
  <2>1. CASE choice.balancer = b
    BY <1>2, <2>1
  <2>2. CASE choice.balancer = [b EXCEPT !.counter = Turn(b)]
    <3>1. Turn(b) \in Counters
      BY <1>2, RotateTurns
    <3> QED
      BY <1>2, <2>2, <3>1, BalancerFields
  <2> QED
    BY <1>4, <2>1, <2>2 DEF IsChoice
<1>8. /\ balancers' \in [1 .. n -> [Services -> Balancer]]
      /\ balancers'[g][service] = choice.balancer
      /\ \A h \in 1 .. n, other \in Services :
           h # g \/ other # service => balancers'[h][other] = balancers[h][other]
  BY <1>1, <1>2, <1>5, <1>7
<1>9. PICK count : /\ count = turns'[g][service] /\ GoesRound(choice.balancer, count)
                   /\ count \in Count
                   /\ turns' \in [1 .. n -> [Services -> Count]]
                   /\ \A h \in 1 .. n, other \in Services :
                        h # g \/ other # service => turns'[h][other] = turns[h][other]
  <2>1. CASE choice.balancer = b
    BY <1>1, <1>2, <1>5, <2>1
  <2>2. CASE choice.balancer # b
    <3> DEFINE after == CountTurn(turns[g][service], choice.server, choice.balancer.counter)
    <3>1. GoesRound(choice.balancer, after)
      BY <1>2, <1>4, <1>5, <2>2, TurnGoesRound DEF IsChoice
    <3>2. after \in Count
      <4>1. DOMAIN choice.balancer.servers = 1 .. Len(choice.balancer.servers)
            /\ Len(choice.balancer.servers) \in Nat
        BY <1>7, BalancerFields
      <4> QED
        BY <3>1, <4>1 DEF GoesRound, Count
    <3>3. turns' = [turns EXCEPT ![g][service] = after]
      BY <1>1, <2>2
    <3> HIDE DEF after
    <3> QED
      BY <1>2, <1>5, <3>1, <3>2, <3>3
  <2> QED
    BY <2>1, <2>2
<1>10. Len(balancers') = n /\ Len(turns') = n
       /\ balancers' \in Seq([Services -> Balancer]) /\ turns' \in Seq([Services -> Count])
  BY <1>5, <1>8, <1>9
<1>11. BalancersOK'
  <2>1. ASSUME NEW h \in 1 .. n, NEW other \in Services
        PROVE  GoesRound(balancers'[h][other], turns'[h][other])
    <3>1. GoesRound(balancers[h][other], turns[h][other])
      BY DEF CAInv, BalancersOK, n
    <3> QED
      BY <1>8, <1>9, <3>1
  <2> QED
    BY <1>1, <1>5, <1>10, <2>1 DEF BalancersOK
<1>12. Continue
  <2>1. ASSUME NEW h \in 1 .. n, NEW other \in Services
        PROVE  \/ balancers'[h][other] = balancers[h][other]
               \/ \E c \in Counters :
                    balancers'[h][other] = [balancers[h][other] EXCEPT !.counter = c]
    BY <1>2, <1>7, <1>8
  <2> QED
    BY <1>5, <1>10, <2>1 DEF Continue, n
<1>13. /\ req' \in [Requests -> RequestRecord]
       /\ \A q \in Requests \ {r} : req'[q] = req[q]
       /\ req'[r] = [req[r] EXCEPT !.at = "waiting", !.server = choice.server]
  <2>1. choice.server \in Nat
    BY <1>2, <1>4, BalancerFields DEF IsChoice, NoServer
  <2> QED
    BY <1>1, <1>6, <2>1 DEF RequestRecord
<1>14. RequestOK(r)'
  <2>1. /\ req'[r].at = "waiting" /\ req'[r].server = choice.server /\ req'[r].gen = g
        /\ req'[r].service = service /\ req'[r].cookie = cookie
    BY <1>6, <1>13 DEF RequestRecord, g, service, cookie
  <2>2. BalancerOf(r)' = choice.balancer
    BY <1>8, <2>1 DEF BalancerOf
  <2>3. Decided(choice.balancer, address, cookie, choice.server)
    <3>1. Decided(b, address, cookie, choice.server)
      BY <1>4 DEF IsChoice
    <3>2. ASSUME NEW c \in Counters, choice.balancer = [b EXCEPT !.counter = c]
          PROVE  Decided(choice.balancer, address, cookie, choice.server)
      BY <1>2, <3>1, <3>2, CounterDecidesNothing
    <3> QED
      BY <1>7, <3>1, <3>2
  <2> QED
    BY <1>2, <1>4, <1>7, <1>10, <2>1, <2>2, <2>3 DEF IsChoice, RequestOK, Chosen, address
<1>15. \A q \in Requests : RequestOK(q)'
  BY <1>12, <1>13, <1>14, RequestStays
<1> QED
  BY <1>1, <1>11, <1>13, <1>15 DEF CAInv, ClientsOK

\* A cookie that is set is the hash of the url that answers.
LEMMA CookieIsOfUrl ==
  ASSUME CAInv, NEW r \in Requests, req[r].at = "waiting", CookieFor(r) # NoCookie
  PROVE  UrlOf(r) \in Url /\ CookieFor(r) = UrlHash[UrlOf(r)]
<1> DEFINE b == BalancerOf(r)
           s == req[r].server
<1>1. b \in Balancer /\ Solid(b.servers)
  BY BalancerOfIsBalancer, BalancerFields DEF CookieFor
<1>2. s \in {NoServer} \cup DOMAIN b.servers
  BY DEF CAInv, RequestOK, Chosen
<1>3. /\ s # NoServer /\ b.servers[s].url # NoUrl
      /\ CookieFor(r) = UrlHash[b.servers[s].url]
  BY DEF CookieFor, StickyCookie
<1>4. UrlOf(r) = b.servers[s].url
  BY <1>1, <1>2, <1>3 DEF UrlOf, UrlAt, Solid
<1>5. b.servers[s] \in Entry
  BY <1>1, <1>2, <1>3 DEF Solid
<1> QED
  BY <1>3, <1>4, <1>5 DEF Entry

\* Where neither the balancers nor the turns change, it is enough to look at
\* the clients and the request that moves.
LEMMA RequestMoves ==
  ASSUME CAInv, UNCHANGED <<balancers, inForce, turns>>, ClientsOK',
         NEW r \in Requests, NEW record \in RequestRecord,
         req' = [req EXCEPT ![r] = record], RequestOK(r)'
  PROVE  CAInv'
<1>1. Continue
  BY DEF Continue, CAInv, BalancersOK
<1>2. req' \in [Requests -> RequestRecord] /\ \A q \in Requests \ {r} : req'[q] = req[q]
  BY DEF CAInv
<1>3. \A q \in Requests : RequestOK(q)'
  BY <1>1, <1>2, RequestStays
<1> QED
  BY <1>2, <1>3 DEF CAInv, BalancersOK

LEMMA SendKeepsCAInv ==
  ASSUME CAInv, NEW r \in Requests, NEW service \in Services, Send(r, service)
  PROVE  CAInv'
<1>0. Owner[r] \in Clients /\ HostOf[service] \in Hosts
  BY ClientAffinityAssumption DEF Hosts
<1>1. req[r] \in RequestRecord /\ req \in [Requests -> RequestRecord] /\ RequestOK(r)
  BY DEF CAInv
<1>2. PICK record : /\ record = [req[r] EXCEPT !.at = "sent", !.service = service,
                                   !.cookie = jar[Owner[r]][HostOf[service]],
                                   !.pinned = pinned[Owner[r]][service]]
                    /\ req' = [req EXCEPT ![r] = record]
  BY <1>1 DEF Send
<1>3. jar[Owner[r]][HostOf[service]] \in Cookie /\ pinned[Owner[r]][service] \in Url \cup {NoUrl}
  BY <1>0 DEF CAInv, ClientsOK
<1>4. record \in RequestRecord
  BY <1>1, <1>2, <1>3 DEF RequestRecord
<1>5. /\ req[r].at = "new" /\ req'[r].at = "sent" /\ req'[r].gen = req[r].gen
      /\ req'[r].server = req[r].server
  BY <1>1, <1>2 DEF RequestRecord, Send
<1>6. RequestOK(r)'
  BY <1>1, <1>5 DEF RequestOK, Chosen
<1>7. UNCHANGED <<balancers, inForce, turns, jar, pinned>>
  BY DEF Send
<1> QED
  BY <1>2, <1>4, <1>6, <1>7, RequestMoves DEF CAInv, ClientsOK

LEMMA ServeProxyKeepsCAInv ==
  ASSUME CAInv, NEW r \in Requests, ServeProxy(r)
  PROVE  CAInv'
<1>1. req[r] \in RequestRecord /\ req \in [Requests -> RequestRecord] /\ RequestOK(r)
  BY DEF CAInv
<1>2. PICK record : /\ record = [req[r] EXCEPT !.at = "admitted", !.gen = inForce]
                    /\ req' = [req EXCEPT ![r] = record]
  BY <1>1 DEF ServeProxy
<1>3. Len(balancers) \in Nat /\ inForce = Len(balancers) /\ Len(balancers) # 0
  BY DEF CAInv, BalancersOK, ServeProxy
<1>4. record \in RequestRecord
  BY <1>1, <1>2, <1>3 DEF RequestRecord
<1>5. /\ req[r].at = "sent" /\ req'[r].at = "admitted" /\ req'[r].gen = Len(balancers)
      /\ req'[r].server = req[r].server
  BY <1>1, <1>2, <1>3 DEF RequestRecord, ServeProxy
<1>6. UNCHANGED <<balancers, inForce, turns, jar, pinned>>
  BY DEF ServeProxy
<1>7. RequestOK(r)'
  BY <1>1, <1>3, <1>5, <1>6 DEF RequestOK, Chosen
<1> QED
  BY <1>2, <1>4, <1>6, <1>7, RequestMoves DEF CAInv, ClientsOK

LEMMA AnswerKeepsCAInv ==
  ASSUME CAInv, NEW r \in Requests, ModifyResponse(r) \/ ErrorHandler(r)
  PROVE  CAInv'
<1>1. req[r] \in RequestRecord /\ req \in [Requests -> RequestRecord] /\ RequestOK(r)
  BY DEF CAInv
<1>2. req[r].at = "waiting" /\ UNCHANGED <<balancers, inForce, turns>>
  BY DEF ModifyResponse, ErrorHandler
<1>3. PICK at \in {"answered", "failed"} : req' = [req EXCEPT ![r].at = at]
  BY DEF ModifyResponse, ErrorHandler
<1>4. PICK record : record = [req[r] EXCEPT !.at = at] /\ req' = [req EXCEPT ![r] = record]
  BY <1>1, <1>3
<1>5. record \in RequestRecord
  BY <1>1, <1>4 DEF RequestRecord
<1>6. /\ req'[r].at \in {"answered", "failed"} /\ req'[r].gen = req[r].gen
      /\ req'[r].server = req[r].server /\ req'[r].cookie = req[r].cookie
      /\ req'[r].service = req[r].service
  BY <1>1, <1>4 DEF RequestRecord
<1>7. RequestOK(r)'
  BY <1>1, <1>2, <1>6 DEF RequestOK, Chosen, BalancerOf
<1>8. ClientsOK'
  <2>1. CASE UNCHANGED <<jar, pinned>>
    BY <2>1 DEF CAInv, ClientsOK
  <2>2. CASE ~UNCHANGED <<jar, pinned>>
    <3> DEFINE c == Owner[r]
               service == req[r].service
               host == HostOf[service]
    <3>1. /\ CookieFor(r) # NoCookie
          /\ jar' = [jar EXCEPT ![c][host] = CookieFor(r)]
          /\ pinned' = [pinned EXCEPT ![c][service] = UrlOf(r)]
      BY <2>2 DEF ModifyResponse, ErrorHandler
    <3>2. c \in Clients /\ service \in Services /\ host \in Hosts
      BY <1>1, ClientAffinityAssumption DEF RequestRecord, Hosts
    <3>3. CookieFor(r) \in Cookie /\ UrlOf(r) \in Url
      BY <1>2, <3>1, CookieIsOfUrl DEF Cookie
    <3> QED
      BY <3>1, <3>2, <3>3 DEF CAInv, ClientsOK
  <2> QED
    BY <2>1, <2>2
<1> QED
  BY <1>2, <1>4, <1>5, <1>7, <1>8, RequestMoves

LEMMA ExpireKeepsCAInv ==
  ASSUME CAInv, NEW c \in Clients, NEW host \in Hosts, Expire(c, host)
  PROVE  CAInv'
<1>1. UNCHANGED <<balancers, inForce, turns, req>>
  BY DEF Expire
<1>2. Continue
  BY <1>1 DEF Continue, CAInv, BalancersOK
<1>3. ClientsOK'
  BY DEF Expire, CAInv, ClientsOK, Cookie
<1>4. \A r \in Requests : RequestOK(r)'
  BY <1>1, <1>2, RequestStays
<1> QED
  BY <1>1, <1>3, <1>4 DEF CAInv, BalancersOK

LEMMA CAInvStep ==
  ASSUME CAInv, [CANext]_caVars
  PROVE  CAInv'
<1>1. CASE UNCHANGED caVars
  <2>1. Continue
    BY <1>1 DEF caVars, Continue, CAInv, BalancersOK
  <2>2. \A r \in Requests : RequestOK(r)'
    BY <1>1, <2>1, RequestStays DEF caVars
  <2> QED
    BY <1>1, <2>2 DEF caVars, CAInv, BalancersOK, ClientsOK
<1> QED
  BY <1>1, ReloadKeepsCAInv, PanicKeepsCAInv, RewriteKeepsCAInv, SendKeepsCAInv, ServeProxyKeepsCAInv,
     AnswerKeepsCAInv, ExpireKeepsCAInv
  DEF CANext

\* In every state of every execution the balancers and the requests are those
\* of CAInv.
THEOREM CAInvariant == CASpec => []CAInv
<1>1. CAInv /\ [CANext]_caVars => CAInv'
  BY CAInvStep
<1> QED
  BY <1>1, CAInvInit, PTL DEF CASpec

-------------------------------------------------------------------------------
(* What follows.                                                            *)

\* For any lists of servers, hash functions and reloads the variables have
\* their types: counters stay below their modulus, and whatever Next returns is
\* nil or a server of the list.
THEOREM CATypeCorrect == CASpec => []CATypeOK
<1>1. CAInv => CATypeOK
  <2> SUFFICES ASSUME CAInv PROVE CATypeOK
    OBVIOUS
  <2>1. ASSUME NEW g \in DOMAIN balancers, NEW service \in Services
        PROVE  balancers[g][service].counter \in 0 .. CounterModulus - 1
    <3>1. balancers[g][service] \in Balancer
      BY DEF CAInv, BalancersOK
    <3> QED
      BY <3>1, BalancerFields DEF Counters
  <2>2. /\ jar \in [Clients -> [Hosts -> {UrlHash[url] : url \in DOMAIN UrlHash}
                                           \cup {NoCookie}]]
        /\ pinned \in [Clients -> [Services -> DOMAIN UrlHash \cup {NoUrl}]]
    BY DEF CAInv, ClientsOK, Cookie, Url
  <2>0. inForce \in {0, Len(balancers)}
    BY DEF CAInv, BalancersOK
  <2>3. ASSUME NEW r \in Requests
        PROVE  /\ req[r].at \in {"new", "sent", "admitted", "waiting", "answered", "failed",
                                "lost"}
               /\ req[r].gen \in 0 .. Len(balancers)
               /\ req[r].server \in IF req[r].gen = 0
                                    THEN {NoServer}
                                    ELSE {NoServer} \cup DOMAIN BalancerOf(r).servers
    <3>1. req[r] \in RequestRecord /\ RequestOK(r) /\ Len(balancers) \in Nat
      BY DEF CAInv, BalancersOK
    <3> QED
      BY <3>1 DEF RequestRecord, RequestOK, Chosen
  <2> QED
    BY <2>0, <2>1, <2>2, <2>3 DEF CATypeOK
<1> QED
  BY <1>1, CAInvariant, PTL

\* For any number of servers, calls and generations: while the counter has not
\* wrapped no server of a balancer is two turns ahead of another.
THEOREM TurnsAreAlwaysEven == CASpec => []TurnsAreEven
<1>1. CAInv => TurnsAreEven
  <2> SUFFICES ASSUME CAInv, NEW g \in DOMAIN turns, NEW service \in Services,
                      NEW s \in DOMAIN turns[g][service], NEW t \in DOMAIN turns[g][service]
               PROVE  turns[g][service][s] <= turns[g][service][t] + 1
    BY DEF TurnsAreEven
  <2>1. /\ balancers[g][service] \in Balancer
        /\ GoesRound(balancers[g][service], turns[g][service])
    BY DEF CAInv, BalancersOK
  <2> QED
    BY <2>1, RoundsAreEven
<1> QED
  BY <1>1, CAInvariant, PTL

\* The url a consistent-hash balancer sends a request to, and the point where
\* it was found.
LEMMA UrlHasThePoint ==
  ASSUME CAInv, NEW r \in Requests, ChosenBy(r, "consistent-hash"),
         AddressOf[Owner[r]] # NoAddress, UrlOf(r) # NoUrl
  PROVE  LET b == BalancerOf(r)
             s == req[r].server
             point == PointFor(DOMAIN b.ring, AddressHash[AddressOf[Owner[r]]])
         IN  /\ b \in Balancer /\ s \in WithUrl(b.servers) /\ UrlOf(r) = b.servers[s].url
             /\ DOMAIN b.ring \in SUBSET Nat
             /\ point \in DOMAIN b.ring /\ point \in PointsOf(b.servers, s)
<1> DEFINE b == BalancerOf(r)
           s == req[r].server
           key == AddressHash[AddressOf[Owner[r]]]
<1>1. /\ b \in Balancer /\ b.algorithm = "consistent-hash"
      /\ Decided(b, AddressOf[Owner[r]], req[r].cookie, s)
  BY BalancerOfIsBalancer DEF ChosenBy, Chosen, CAInv, RequestOK
<1>2. s # NoServer
  BY DEF UrlOf
<1>3. DOMAIN b.ring # {} /\ s = b.ring[PointFor(DOMAIN b.ring, key)]
  BY <1>1, <1>2 DEF Decided
<1>4. DOMAIN b.ring \in SUBSET Nat /\ key \in Nat
  BY <1>1, RingFields, ClientAffinityAssumption, IPHashAssumption
<1>5. PointFor(DOMAIN b.ring, key) \in DOMAIN b.ring
  BY <1>3, <1>4, PointForIsAPoint
<1>6. s \in WithUrl(b.servers) /\ s \in DOMAIN b.servers
  BY <1>1, <1>3, <1>5, RingFields DEF WithUrl
<1>7. UrlOf(r) = b.servers[s].url
  BY <1>1, <1>2, <1>6, BalancerFields DEF UrlOf, UrlAt, Solid
<1> QED
  BY <1>1, <1>3, <1>4, <1>5, <1>6, <1>7, RingFields

\* A server of the list with this url puts the points of the url on the ring.
LEMMA UrlOnTheRing ==
  ASSUME NEW b \in Balancer, b.algorithm = "consistent-hash",
         NEW url \in Urls(b.servers)
  PROVE  \E s \in WithUrl(b.servers) :
           /\ b.servers[s].url = url
           /\ PointsOf(b.servers, s) \subseteq DOMAIN b.ring
<1>1. PICK s \in WithUrl(b.servers) : b.servers[s].url = url
  BY BalancerFields DEF Urls, UrlAt, Solid, WithUrl
<1>2. PointsOf(b.servers, s) \subseteq DOMAIN b.ring
  BY RingFields
<1> QED
  BY <1>1, <1>2

\* For any two generations: if the url each chose for the client is in the list
\* of the other, the points they were found at are the same; so either the urls
\* are the same or they share that point.
LEMMA SameUrlOrContested ==
  ASSUME CAInv, NEW q \in Requests, NEW r \in Requests,
         OfOneClient(q, r, "consistent-hash"),
         UrlOf(q) \in Urls(BalancerOf(r).servers),
         UrlOf(r) \in Urls(BalancerOf(q).servers),
         UrlOf(q) # UrlOf(r)
  PROVE  Contested(q)
<1> DEFINE a == BalancerOf(q)
           b == BalancerOf(r)
           key == AddressHash[AddressOf[Owner[r]]]
           s == req[q].server
           t == req[r].server
<1>1. /\ Owner[q] = Owner[r] /\ AddressOf[Owner[r]] # NoAddress
      /\ ChosenBy(q, "consistent-hash") /\ ChosenBy(r, "consistent-hash")
      /\ a.algorithm = "consistent-hash" /\ b.algorithm = "consistent-hash"
      /\ UrlOf(q) # NoUrl /\ UrlOf(r) # NoUrl
  BY DEF OfOneClient, ChosenBy, Urls
<1>2. /\ a \in Balancer /\ s \in WithUrl(a.servers) /\ UrlOf(q) = a.servers[s].url
      /\ DOMAIN a.ring \in SUBSET Nat
      /\ PointFor(DOMAIN a.ring, key) \in DOMAIN a.ring
      /\ PointFor(DOMAIN a.ring, key) \in PointsOf(a.servers, s)
  BY <1>1, UrlHasThePoint
<1>3. /\ b \in Balancer /\ t \in WithUrl(b.servers) /\ UrlOf(r) = b.servers[t].url
      /\ DOMAIN b.ring \in SUBSET Nat
      /\ PointFor(DOMAIN b.ring, key) \in DOMAIN b.ring
      /\ PointFor(DOMAIN b.ring, key) \in PointsOf(b.servers, t)
  BY <1>1, UrlHasThePoint
<1>4. key \in Nat
  BY <1>1, ClientAffinityAssumption, IPHashAssumption
<1>5. PICK u \in WithUrl(b.servers) : /\ b.servers[u].url = UrlOf(q)
                                      /\ PointsOf(b.servers, u) \subseteq DOMAIN b.ring
  BY <1>1, <1>3, UrlOnTheRing
<1>6. PICK v \in WithUrl(a.servers) : /\ a.servers[v].url = UrlOf(r)
                                      /\ PointsOf(a.servers, v) \subseteq DOMAIN a.ring
  BY <1>1, <1>2, UrlOnTheRing
<1>7. /\ PointsOf(b.servers, u) = PointsOf(a.servers, s)
      /\ PointsOf(a.servers, v) = PointsOf(b.servers, t)
  BY <1>2, <1>3, <1>5, <1>6 DEF PointsOf
<1> HIDE DEF a, b, key, s, t
<1>8. PointFor(DOMAIN a.ring, key) = PointFor(DOMAIN b.ring, key)
  BY <1>2, <1>3, <1>4, <1>5, <1>6, <1>7, SamePoint
<1>9. PointFor(DOMAIN a.ring, key) \in PointsOf(a.servers, s) \cap PointsOf(a.servers, v)
  BY <1>2, <1>3, <1>7, <1>8
<1> QED
  BY <1>1, <1>2, <1>6, <1>9 DEF Contested, a, key

\* For any lists of servers, hashes and reloads: by ip-hash a client keeps its
\* server while the list keeps its length; by consistent-hash it moves only
\* because its server is gone or the one it gets is new, unless its point is
\* that of two servers.
THEOREM ClientsKeepTheirServer == CASpec => []SameClientSameServer
<1>1. CAInv => SameClientSameServer
  <2> SUFFICES ASSUME CAInv, NEW q \in Requests, NEW r \in Requests
               PROVE  /\ /\ OfOneClient(q, r, "ip-hash")
                         /\ Len(BalancerOf(q).servers) = Len(BalancerOf(r).servers)
                         => req[q].server = req[r].server
                      /\ /\ OfOneClient(q, r, "consistent-hash")
                         /\ UrlOf(q) \in Urls(BalancerOf(r).servers)
                         /\ UrlOf(r) \in Urls(BalancerOf(q).servers)
                         => UrlOf(q) = UrlOf(r) \/ Contested(q)
    BY DEF SameClientSameServer
  <2>1. ASSUME OfOneClient(q, r, "ip-hash"),
               Len(BalancerOf(q).servers) = Len(BalancerOf(r).servers)
        PROVE  req[q].server = req[r].server
    <3>1. /\ Decided(BalancerOf(q), AddressOf[Owner[q]], req[q].cookie, req[q].server)
          /\ Decided(BalancerOf(r), AddressOf[Owner[r]], req[r].cookie, req[r].server)
      BY <2>1 DEF OfOneClient, ChosenBy, CAInv, RequestOK
    <3> QED
      BY <2>1, <3>1 DEF OfOneClient, ChosenBy, Decided
  <2> QED
    BY <2>1, SameUrlOrContested
<1> QED
  BY <1>1, CAInvariant, PTL

-------------------------------------------------------------------------------
(* Cookies.                                                                 *)

\* No two services are behind one host, and no two urls have the same hash.
OwnHosts == \A s, t \in Services : HostOf[s] = HostOf[t] => s = t
NoHashCollision == \A u, v \in Url : UrlHash[u] = UrlHash[v] => u = v

\* The cookie a client has for the host of a service, and the one a request
\* carries, is that of the url that answered last.
CookieOfPinned ==
  /\ \A c \in Clients, service \in Services :
       pinned[c][service] # NoUrl =>
         jar[c][HostOf[service]] = UrlHash[pinned[c][service]]
  /\ \A r \in Requests :
       req[r].pinned # NoUrl => req[r].cookie = UrlHash[req[r].pinned]

LEMMA CookieOfPinnedInit == CAInit => CookieOfPinned
  BY DEF CAInit, CookieOfPinned

LEMMA SendKeepsCookieOfPinned ==
  ASSUME CAInv, CookieOfPinned, NEW r \in Requests, NEW service \in Services,
         Send(r, service)
  PROVE  CookieOfPinned'
<1>1. req \in [Requests -> RequestRecord]
  BY DEF CAInv
<1>2. UNCHANGED <<jar, pinned>>
  BY DEF Send
<1>3. ASSUME NEW q \in Requests, q # r
      PROVE  req'[q] = req[q]
  BY <1>1, <1>3 DEF Send
<1>4. /\ req'[r].cookie = jar[Owner[r]][HostOf[service]]
      /\ req'[r].pinned = pinned[Owner[r]][service]
  BY <1>1 DEF Send, RequestRecord
<1>5. Owner[r] \in Clients
  BY ClientAffinityAssumption
<1> QED
  BY <1>2, <1>3, <1>4, <1>5 DEF CookieOfPinned

LEMMA AnswerKeepsCookieOfPinned ==
  ASSUME OwnHosts, CAInv, CookieOfPinned, NEW r \in Requests, ModifyResponse(r)
  PROVE  CookieOfPinned'
<1>1. \A q \in Requests : req'[q].pinned = req[q].pinned /\ req'[q].cookie = req[q].cookie
  BY DEF ModifyResponse, CAInv, RequestRecord
<1>2. CASE UNCHANGED <<jar, pinned>>
  BY <1>1, <1>2 DEF CookieOfPinned
<1>3. CASE ~UNCHANGED <<jar, pinned>>
  <2> DEFINE c == Owner[r]
             service == req[r].service
             host == HostOf[service]
  <2>1. /\ req[r].at = "waiting" /\ CookieFor(r) # NoCookie
        /\ jar' = [jar EXCEPT ![c][host] = CookieFor(r)]
        /\ pinned' = [pinned EXCEPT ![c][service] = UrlOf(r)]
    BY <1>3 DEF ModifyResponse
  <2>2. c \in Clients /\ service \in Services /\ host \in Hosts
    BY ClientAffinityAssumption DEF CAInv, RequestRecord, Hosts
  <2>3. CookieFor(r) = UrlHash[UrlOf(r)]
    BY <2>1, CookieIsOfUrl
  <2>4. ASSUME NEW d \in Clients, NEW other \in Services, pinned'[d][other] # NoUrl
        PROVE  jar'[d][HostOf[other]] = UrlHash[pinned'[d][other]]
    <3>1. CASE d = c /\ other = service
      BY <2>1, <2>2, <2>3, <3>1 DEF CAInv, ClientsOK
    <3>2. CASE d # c \/ other # service
      <4>1. HostOf[other] \in Hosts /\ (other # service => HostOf[other] # host)
        BY <2>2 DEF Hosts, OwnHosts
      <4>2. /\ pinned'[d][other] = pinned[d][other]
            /\ jar'[d][HostOf[other]] = jar[d][HostOf[other]]
        BY <2>1, <2>2, <3>2, <4>1 DEF CAInv, ClientsOK
      <4> QED
        BY <2>4, <4>2 DEF CookieOfPinned
    <3> QED
      BY <3>1, <3>2
  <2> QED
    BY <1>1, <2>4 DEF CookieOfPinned
<1> QED
  BY <1>2, <1>3

LEMMA ExpireKeepsCookieOfPinned ==
  ASSUME CAInv, CookieOfPinned, NEW c \in Clients, NEW host \in Hosts, Expire(c, host)
  PROVE  CookieOfPinned'
<1>1. ASSUME NEW d \in Clients, NEW service \in Services, pinned'[d][service] # NoUrl
      PROVE  jar'[d][HostOf[service]] = UrlHash[pinned'[d][service]]
  <2>1. /\ pinned'[d][service] = pinned[d][service]
        /\ d # c \/ HostOf[service] # host
    BY <1>1 DEF Expire, CAInv, ClientsOK
  <2>2. jar'[d][HostOf[service]] = jar[d][HostOf[service]]
    <3>1. HostOf[service] \in Hosts
      BY DEF Hosts
    <3> QED
      BY <2>1, <3>1 DEF Expire, CAInv, ClientsOK
  <2> QED
    BY <1>1, <2>1, <2>2 DEF CookieOfPinned
<1> QED
  BY <1>1 DEF Expire, CookieOfPinned

LEMMA CookieOfPinnedStep ==
  ASSUME OwnHosts, CAInv, CookieOfPinned, [CANext]_caVars
  PROVE  CookieOfPinned'
<1>1. CASE UNCHANGED <<jar, pinned>> /\ \A r \in Requests :
             req'[r].pinned = req[r].pinned /\ req'[r].cookie = req[r].cookie
  BY <1>1 DEF CookieOfPinned
<1>2. CASE Reload \/ UNCHANGED caVars
  BY <1>1, <1>2 DEF Reload, caVars
<1>4. CASE Panic
  <2>1. ASSUME NEW r \in Requests
        PROVE  req'[r].pinned = req[r].pinned /\ req'[r].cookie = req[r].cookie
    <3>1. req[r] \in RequestRecord
      BY DEF CAInv
    <3>2. \/ req'[r] = req[r]
          \/ req'[r] = [req[r] EXCEPT !.at = "lost", !.gen = 0, !.server = NoServer]
      BY <1>4 DEF Panic
    <3> QED
      BY <3>1, <3>2 DEF RequestRecord
  <2> QED
    BY <1>1, <1>4, <2>1 DEF Panic
<1>3. ASSUME NEW r \in Requests, ServeProxy(r) \/ Rewrite(r) \/ ErrorHandler(r)
      PROVE  CookieOfPinned'
  <2>1. \A q \in Requests : req'[q].pinned = req[q].pinned /\ req'[q].cookie = req[q].cookie
    BY <1>3 DEF ServeProxy, Rewrite, ErrorHandler, CAInv, RequestRecord
  <2> QED
    BY <1>1, <1>3, <2>1 DEF ServeProxy, Rewrite, ErrorHandler
<1> QED
  BY <1>2, <1>3, <1>4, SendKeepsCookieOfPinned, AnswerKeepsCookieOfPinned,
     ExpireKeepsCookieOfPinned
  DEF CANext

\* Where every service has its own host and urls do not collide: the server
\* that last answered a client gets its next request, as long as the
\* configuration has a server of its url, whatever reloads, restarts, other
\* clients and late answers come in between.  Without the first condition it does not hold,
\* as the run pins_to_server shows.
THEOREM ClientsStayPinned ==
  ASSUME OwnHosts, NoHashCollision
  PROVE  CASpec => []PinsToServer
<1>1. CAInv /\ CookieOfPinned => PinsToServer
  <2> SUFFICES ASSUME CAInv, CookieOfPinned, NEW r \in Requests,
                      ChosenBy(r, "sticky-session"),
                      req[r].pinned \in Urls(BalancerOf(r).servers)
               PROVE  UrlOf(r) = req[r].pinned
    BY DEF PinsToServer
  <2> DEFINE b == BalancerOf(r)
             h == UrlHash[req[r].pinned]
  <2>1. /\ b \in Balancer /\ b.algorithm = "sticky-session"
        /\ Decided(b, AddressOf[Owner[r]], req[r].cookie, req[r].server)
    BY BalancerOfIsBalancer DEF ChosenBy, Chosen, CAInv, RequestOK
  <2>2. Solid(b.servers) /\ b.byHash = ByHash(b.servers)
    BY <2>1, BalancerFields
  <2>3. req[r].cookie = h /\ req[r].pinned \in Url
    BY DEF CookieOfPinned, Urls, CAInv, RequestRecord
  <2> DEFINE servers == b.servers
             server == req[r].server
  <2>4. req[r].pinned \in Urls(servers)
    OBVIOUS
  <2> HIDE DEF b, servers
  <2>5. /\ Solid(servers) /\ b.byHash = ByHash(servers)
        /\ h \in {UrlHash[url] : url \in Urls(servers)}
    BY <2>2, <2>4 DEF servers
  <2>6. /\ h \in DOMAIN b.byHash /\ b.byHash[h] \in DOMAIN servers
        /\ servers[b.byHash[h]].url # NoUrl
        /\ UrlHash[servers[b.byHash[h]].url] = h
    <3> DEFINE byHash == ByHash(servers)
    <3>1. /\ DOMAIN byHash = {UrlHash[url] : url \in Urls(servers)}
          /\ \A k \in DOMAIN byHash :
               /\ byHash[k] \in DOMAIN servers /\ servers[byHash[k]].url # NoUrl
               /\ UrlHash[servers[byHash[k]].url] = k
      BY <2>5, CookieLeadsBack
    <3>2. b.byHash = byHash /\ h \in DOMAIN byHash
      BY <2>5, <3>1
    <3> HIDE DEF byHash, h
    <3> QED
      BY <3>1, <3>2
  <2>7. server = b.byHash[h]
    BY <2>1, <2>3, <2>6 DEF Decided
  <2>8. servers[server] \in Entry /\ server # NoServer
    BY <2>5, <2>6, <2>7 DEF NoServer, Solid
  <2>9. servers[server].url \in Url
    BY <2>6, <2>7, <2>8 DEF Entry
  <2>10. servers[server].url = req[r].pinned
    BY <2>3, <2>6, <2>7, <2>9 DEF NoHashCollision
  <2> QED
    BY <2>5, <2>6, <2>7, <2>8, <2>10 DEF UrlOf, UrlAt, Solid, servers, b
<1>2. CAInv /\ CookieOfPinned /\ [CANext]_caVars => CookieOfPinned'
  BY CookieOfPinnedStep
<1> QED
  BY <1>1, <1>2, CookieOfPinnedInit, CAInvariant, PTL DEF CASpec

===============================================================================
