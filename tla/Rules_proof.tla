----------------------------- MODULE Rules_proof -----------------------------
(***************************************************************************)
(* Proofs about Rules, for any calls, stray texts, requests, addresses and *)
(* length of a rule.                                                       *)
(*                                                                         *)
(* 1. The parser.  It reads from the left and splits a chain at its first  *)
(*    operator; the meaning splits at the last one that binds loosest.     *)
(*    They agree on all tokens: what the parser reads from a position on   *)
(*    means the tree it makes of it, by induction on the tokens that are   *)
(*    left, and it reads whatever has a meaning, by induction on ranges.   *)
(* 2. The lexer.  Wherever the text of a piece stands, Lex makes one token *)
(*    of it and goes on behind it; of a stray text it makes none that has  *)
(*    a meaning.  parseArgs finds the values of a call as they were        *)
(*    written, so that the node of the token is the node of the call.      *)
(* 3. So the tree is what the rule means, if the parentheses in its values *)
(*    are balanced: ReadAsWritten.                                         *)
(* 4. Two rules that differ in their last call mean the same everywhere    *)
(*    but there, and of two calls for the same thing the narrower has the  *)
(*    higher score: NarrowerWins.                                          *)
(* 5. A rule with one more condition at its end.  The values need not be   *)
(*    balanced: what has a meaning is lexed the same whatever comes after  *)
(*    it, and an unbalanced call at the end would be an error or no call:  *)
(*    ConditionsActAsWritten.                                              *)
(***************************************************************************)
EXTENDS Rules, WellFoundedInduction, FiniteSetTheorems, SequenceTheorems, TLAPS

-------------------------------------------------------------------------------
(* Numbers.                                                                 *)

\* Every set of numbers that is not empty has a smallest one.
LEMMA SmallestNumber ==
  ASSUME NEW T \in SUBSET Nat, T # {}
  PROVE  \E x \in T : \A y \in T : x <= y
<1> DEFINE R == {p \in Nat \X Nat : p[1] < p[2]}
<1>1. IsWellFoundedOn(R, Nat)
  BY NatLessThanWellFounded, Zenon DEF OpToRel
<1>2. \E x \in T : \A y \in T : <<y, x>> \notin R
  <2> HIDE DEF R
  <2> QED
    BY <1>1, WFMin
<1>3. \A x, y \in T : <<y, x>> \notin R => x <= y
  OBVIOUS
<1> QED
  BY <1>2, <1>3

\* Upwards: a set that has 0 and, with every number below n, the next one, has all
\* numbers up to n.
LEMMA InductionUpTo ==
  ASSUME NEW n \in Nat, NEW S,
         0 \in S,
         \A i \in 0 .. (n - 1) : i \in S => i + 1 \in S
  PROVE  0 .. n \subseteq S
<1> SUFFICES ASSUME (0 .. n) \ S # {}
             PROVE  FALSE
  OBVIOUS
<1> DEFINE Missing == (0 .. n) \ S
<1>0. Missing \in SUBSET Nat /\ Missing # {}
  OBVIOUS
<1>1. PICK x \in Missing : \A y \in Missing : x <= y
  <2> HIDE DEF Missing
  <2> QED
    BY <1>0, SmallestNumber
<1>2. x - 1 \in 0 .. (n - 1)
  BY <1>1
<1>3. x - 1 \in S
  BY <1>1, <1>2
<1>4. (x - 1) + 1 \in S
  BY <1>2, <1>3
<1> QED
  BY <1>1, <1>4

\* Downwards: a set that has n + 1 and, with every number from 2 on, the one
\* before, has all numbers from 1 to n + 1.
LEMMA InductionDown ==
  ASSUME NEW n \in Nat, NEW S,
         n + 1 \in S,
         \A i \in 1 .. n : i + 1 \in S => i \in S
  PROVE  1 .. (n + 1) \subseteq S
<1> DEFINE D == {d \in 0 .. n : (n + 1) - d \in S}
<1>1. 0 \in D
  OBVIOUS
<1>2. \A d \in 0 .. (n - 1) : d \in D => d + 1 \in D
  <2> SUFFICES ASSUME NEW d \in 0 .. (n - 1), d \in D
               PROVE  d + 1 \in D
    OBVIOUS
  <2>1. (n + 1) - (d + 1) \in 1 .. n /\ ((n + 1) - (d + 1)) + 1 = (n + 1) - d
    OBVIOUS
  <2>2. (n + 1) - (d + 1) \in S
    BY <2>1
  <2> QED
    BY <2>2
<1>3. 0 .. n \subseteq D
  <2> HIDE DEF D
  <2> QED
    BY <1>1, <1>2, InductionUpTo
<1> SUFFICES ASSUME NEW i \in 1 .. (n + 1)
             PROVE  i \in S
  OBVIOUS
<1>4. (n + 1) - i \in D /\ (n + 1) - ((n + 1) - i) = i
  BY <1>3
<1> QED
  BY <1>4

-------------------------------------------------------------------------------
(* The parser: what it has read from every position on.                     *)

Levels == {"NOT", "AND", "OR"}

Ahead(tokens, result, pos) ==
  result = Failed \/ result.pos \in (pos + 1) .. (Len(tokens) + 1)

AllAhead(tokens, read, from) ==
  \A pos \in from .. (Len(tokens) + 1), level \in Levels :
    Ahead(tokens, read[pos][level], pos)

\* Where Peek finds a token there is one.
LEMMA PeekWithin ==
  ASSUME NEW T, NEW tokens \in Seq(T), NEW pos \in Nat,
         Peek(tokens, pos) # "END"
  PROVE  pos <= Len(tokens)
BY DEF Peek

\* What Parsed and Joined return, and that it is no failure.
LEMMA FailedIsNot ==
  /\ Failed.pos = 0
  /\ \A ops, pos : Parsed(ops, pos).pos = pos /\ Parsed(ops, pos).operands = ops
  /\ \A type, parsed : parsed # Failed => Joined(type, parsed).pos = parsed.pos
  /\ \A type : Joined(type, Failed) = Failed
  /\ \A ops, pos : pos # 0 => Parsed(ops, pos) # Failed
BY DEF Failed, Parsed, Joined

\* The round of the parser at m needs no more than its results further on, and what it
\* reads is further on.
LEMMA ParseLooksAhead ==
  ASSUME NEW T, NEW tokens \in Seq(T),
         NEW m \in 1 .. (Len(tokens) + 1), NEW p, NEW q,
         AllAhead(tokens, p, m + 1),
         \A pos \in (m + 1) .. (Len(tokens) + 1) : q[pos] = p[pos]
  PROVE  /\ parseFrom(tokens, q, m) = parseFrom(tokens, p, m)
         /\ \A level \in Levels : Ahead(tokens, parseFrom(tokens, p, m)[level], m)
<1> DEFINE n == Len(tokens)
<1>0. n \in Nat
  OBVIOUS
<1>1. m <= n => /\ q[m + 1] = p[m + 1]
                /\ \A level \in Levels : Ahead(tokens, p[m + 1][level], m + 1)
  BY <1>0 DEF AllAhead
<1>2. /\ parsePrimary(tokens, q, m) = parsePrimary(tokens, p, m)
      /\ Ahead(tokens, parsePrimary(tokens, p, m), m)
  <2>1. CASE Peek(tokens, m) = "FUNC"
    BY <2>1, <1>0, FailedIsNot, PeekWithin DEF parsePrimary, Ahead
  <2>2. CASE Peek(tokens, m) = "LPAREN"
    <3>1. m <= n
      BY <2>2, PeekWithin
    <3> DEFINE group == Joined("OR", p[m + 1]["OR"])
    <3>2. parsePrimary(tokens, q, m) = parsePrimary(tokens, p, m)
      BY <3>1, <1>1, <2>2 DEF parsePrimary
    <3>3. parsePrimary(tokens, p, m) =
            IF group = Failed \/ Peek(tokens, group.pos) # "RPAREN"
            THEN Failed ELSE Parsed(group.operands, group.pos + 1)
      BY <2>2 DEF parsePrimary
    <3>4. CASE group = Failed \/ Peek(tokens, group.pos) # "RPAREN"
      BY <3>2, <3>3, <3>4 DEF Ahead
    <3>5. CASE group # Failed /\ Peek(tokens, group.pos) = "RPAREN"
      <4>1. p[m + 1]["OR"] # Failed /\ group.pos = p[m + 1]["OR"].pos
        BY <3>5, FailedIsNot
      <4>2. group.pos \in (m + 2) .. (n + 1)
        BY <4>1, <3>1, <1>1, <1>0 DEF Ahead, Levels
      <4>3. group.pos <= n
        BY <4>2, <3>5, PeekWithin
      <4> HIDE DEF group
      <4> QED
        BY <3>2, <3>3, <3>5, <4>2, <4>3, FailedIsNot DEF Ahead
    <3> QED
      BY <3>4, <3>5
  <2>3. CASE Peek(tokens, m) \notin {"FUNC", "LPAREN"}
    BY <2>3 DEF parsePrimary, Ahead
  <2> QED
    BY <2>1, <2>2, <2>3
<1>3. /\ parseUnary(tokens, q, m) = parseUnary(tokens, p, m)
      /\ Ahead(tokens, parseUnary(tokens, p, m), m)
  <2>1. CASE Peek(tokens, m) # "NOT"
    BY <2>1, <1>2 DEF parseUnary
  <2>2. CASE Peek(tokens, m) = "NOT"
    <3>1. m <= n
      BY <2>2, PeekWithin
    <3>2. Ahead(tokens, p[m + 1]["NOT"], m + 1)
      BY <3>1, <1>1 DEF Levels
    <3> QED
      BY <3>1, <3>2, <1>1, <2>2, <1>0, FailedIsNot DEF parseUnary, Ahead
  <2> QED
    BY <2>1, <2>2
<1>4. ASSUME NEW type \in {"AND", "OR"}, NEW first, Ahead(tokens, first, m)
      PROVE  /\ parseLoop(tokens, q, type, first) = parseLoop(tokens, p, type, first)
             /\ Ahead(tokens, parseLoop(tokens, p, type, first), m)
  <2>1. CASE first = Failed \/ Peek(tokens, first.pos) # type
    BY <1>4, <2>1 DEF parseLoop
  <2>2. CASE first # Failed /\ Peek(tokens, first.pos) = type
    <3>1. first.pos \in (m + 1) .. (n + 1)
      BY <2>2, <1>4 DEF Ahead
    <3>2. first.pos <= n
      BY <3>1, <2>2, PeekWithin
    <3>3. first.pos + 1 \in (m + 1) .. (n + 1)
      BY <3>1, <3>2, <1>0
    <3>4. /\ q[first.pos + 1] = p[first.pos + 1]
          /\ Ahead(tokens, p[first.pos + 1][type], first.pos + 1)
      BY <3>3 DEF AllAhead, Levels
    <3>5. parseLoop(tokens, q, type, first) = parseLoop(tokens, p, type, first)
      BY <3>4, <2>2 DEF parseLoop
    <3> DEFINE rest == p[first.pos + 1][type]
    <3>6. parseLoop(tokens, p, type, first) =
            IF rest = Failed THEN Failed
            ELSE Parsed(first.operands \o rest.operands, rest.pos)
      BY <2>2 DEF parseLoop
    <3>7. rest = Failed \/ rest.pos \in (m + 1) .. (n + 1)
      BY <3>4, <3>3, <1>0 DEF Ahead
    <3> QED
      BY <3>5, <3>6, <3>7, FailedIsNot DEF Ahead
  <2> QED
    BY <2>1, <2>2
<1> DEFINE unary == parseUnary(tokens, p, m)
           and == parseLoop(tokens, p, "AND", unary)
           or == parseLoop(tokens, p, "OR", Joined("AND", and))
<1>5. /\ parseLoop(tokens, q, "AND", unary) = and
      /\ Ahead(tokens, and, m)
  BY <1>3, <1>4
<1>6. Ahead(tokens, Joined("AND", and), m)
  BY <1>5, FailedIsNot DEF Ahead
<1>7. /\ parseLoop(tokens, q, "OR", Joined("AND", and)) = or
      /\ Ahead(tokens, or, m)
  BY <1>6, <1>4
<1>8. parseFrom(tokens, q, m) = parseFrom(tokens, p, m)
  BY <1>3, <1>5, <1>7 DEF parseFrom
<1>9. \A level \in Levels :
        parseFrom(tokens, p, m)[level]
          = IF level = "NOT" THEN unary ELSE IF level = "AND" THEN and ELSE or
  BY DEF parseFrom, Levels
<1> QED
  BY <1>8, <1>9, <1>3, <1>5, <1>7 DEF Levels

(* read is what the parser has from position m on.                          *)
ParsesFrom(tokens, read, m) ==
  /\ read = [pos \in m .. (Len(tokens) + 1) |-> parseFrom(tokens, read, pos)]
  /\ AllAhead(tokens, read, m)

\* There is a table of what the parser reads from every position on: it is made from
\* the last token backwards, as the recursion of the code returns.
LEMMA ParserExists ==
  ASSUME NEW T, NEW tokens \in Seq(T)
  PROVE  \E read : ParsesFrom(tokens, read, 1)
<1> DEFINE n == Len(tokens)
           From == {m \in 1 .. (n + 1) : \E read : ParsesFrom(tokens, read, m)}
<1>0. n \in Nat
  OBVIOUS
<1>1. ASSUME NEW m \in 1 .. (n + 1), NEW p, AllAhead(tokens, p, m + 1),
             \A pos \in (m + 1) .. (n + 1) : p[pos] = parseFrom(tokens, p, pos)
      PROVE  m \in From
  <2> DEFINE q == [pos \in m .. (n + 1) |->
                     IF pos = m THEN parseFrom(tokens, p, m) ELSE p[pos]]
  <2>1. \A pos \in (m + 1) .. (n + 1) : q[pos] = p[pos]
    BY <1>0
  <2>2. \A pos \in m .. (n + 1) :
          /\ parseFrom(tokens, q, pos) = parseFrom(tokens, p, pos)
          /\ \A level \in Levels : Ahead(tokens, parseFrom(tokens, p, pos)[level], pos)
    <3> SUFFICES ASSUME NEW pos \in m .. (n + 1)
                 PROVE  /\ parseFrom(tokens, q, pos) = parseFrom(tokens, p, pos)
                        /\ \A level \in Levels :
                             Ahead(tokens, parseFrom(tokens, p, pos)[level], pos)
      OBVIOUS
    <3>1. pos \in 1 .. (n + 1) /\ AllAhead(tokens, p, pos + 1)
      BY <1>0, <1>1 DEF AllAhead
    <3>2. \A k \in (pos + 1) .. (n + 1) : q[k] = p[k]
      BY <2>1, <1>0
    <3> HIDE DEF q
    <3> QED
      BY <3>1, <3>2, ParseLooksAhead
  <2>3. \A pos \in m .. (n + 1) : q[pos] = parseFrom(tokens, p, pos)
    BY <1>1, <1>0
  <2>4. q = [pos \in m .. (n + 1) |-> parseFrom(tokens, q, pos)]
    <3>1. q = [pos \in m .. (n + 1) |-> q[pos]]
      OBVIOUS
    <3> HIDE DEF q
    <3> QED
      BY <3>1, <2>2, <2>3
  <2>5. AllAhead(tokens, q, m)
    <3> HIDE DEF q
    <3> QED
      BY <2>2, <2>3 DEF AllAhead
  <2> HIDE DEF q
  <2> QED
    BY <2>4, <2>5 DEF ParsesFrom
<1>2. n + 1 \in From
  <2>1. AllAhead(tokens, <<>>, (n + 1) + 1)
    BY <1>0 DEF AllAhead
  <2> QED
    BY <2>1, <1>1, <1>0
<1>3. ASSUME NEW m \in 1 .. n, m + 1 \in From
      PROVE  m \in From
  <2>1. PICK p : ParsesFrom(tokens, p, m + 1)
    BY <1>3
  <2>2. \A pos \in (m + 1) .. (n + 1) : p[pos] = parseFrom(tokens, p, pos)
    BY <2>1 DEF ParsesFrom
  <2> QED
    BY <2>1, <2>2, <1>1, <1>0 DEF ParsesFrom
<1>4. 1 .. (n + 1) \subseteq From
  <2> HIDE DEF From
  <2> QED
    BY <1>2, <1>3, <1>0, InductionDown
<1>5. 1 \in From
  <2> HIDE DEF From
  <2> QED
    BY <1>4, <1>0
<1> QED
  BY <1>5

\* What the recursive definition in Parse stands for.
LEMMA ParseIs ==
  ASSUME NEW T, NEW tokens \in Seq(T)
  PROVE  \E read : /\ ParsesFrom(tokens, read, 1)
                   /\ Parse(tokens) = read[1]["OR"]
<1> DEFINE n == Len(tokens)
           Solves(p) == p = [pos \in 1 .. (n + 1) |-> parseFrom(tokens, p, pos)]
           parse == CHOOSE p : Solves(p)
<1>0. n \in Nat
  OBVIOUS
<1>1. Solves(parse)
  <2>1. \E p : Solves(p)
    BY ParserExists DEF ParsesFrom
  <2> HIDE DEF Solves
  <2> QED
    BY <2>1
<1>2. Parse(tokens) = parse[1]["OR"]
  BY DEF Parse
<1> HIDE DEF parse
<1>3. \A pos \in 1 .. (n + 1) : parse[pos] = parseFrom(tokens, parse, pos)
  BY <1>1
<1> DEFINE Fine == {pos \in 1 .. (n + 1) : AllAhead(tokens, parse, pos)}
<1>4. ASSUME NEW m \in 1 .. (n + 1), AllAhead(tokens, parse, m + 1)
      PROVE  m \in Fine
  <2>1. \A level \in Levels : Ahead(tokens, parseFrom(tokens, parse, m)[level], m)
    BY <1>4, ParseLooksAhead
  <2> QED
    BY <2>1, <1>3, <1>4 DEF AllAhead
<1>5. n + 1 \in Fine
  <2>1. AllAhead(tokens, parse, (n + 1) + 1)
    BY DEF AllAhead
  <2> QED
    BY <2>1, <1>4
<1>6. \A m \in 1 .. n : m + 1 \in Fine => m \in Fine
  BY <1>4
<1>7. 1 .. (n + 1) \subseteq Fine
  <2> HIDE DEF Fine
  <2> QED
    BY <1>0, <1>5, <1>6, InductionDown
<1>8. AllAhead(tokens, parse, 1)
  <2>1. 1 \in Fine
    <3>1. 1 \in 1 .. (n + 1)
      OBVIOUS
    <3> HIDE DEF Fine
    <3> QED
      BY <3>1, <1>7
  <2> QED
    BY <2>1
<1> QED
  BY <1>1, <1>2, <1>8 DEF ParsesFrom

-------------------------------------------------------------------------------
(* What ranges of symbols mean.                                             *)

\* Max returns the largest number of a set.
LEMMA LargestNumber ==
  ASSUME NEW n \in Nat, NEW T \in SUBSET (0 .. n), T # {}
  PROVE  /\ Max(T) \in T
         /\ \A y \in T : y <= Max(T)
<1> DEFINE D == {n - y : y \in T}
<1>1. D \in SUBSET Nat /\ D # {}
  OBVIOUS
<1>2. PICK x \in D : \A y \in D : x <= y
  <2> HIDE DEF D
  <2> QED
    BY <1>1, SmallestNumber
<1>3. \E x1 \in T : \A y \in T : x1 >= y
  <2>1. n - x \in T /\ \A y \in T : n - y \in D
    BY <1>2
  <2>2. \A y \in T : y \in Nat /\ x <= n - y
    BY <1>2, <2>1
  <2>3. x \in Nat
    BY <1>1, <1>2
  <2>4. \A y \in T : n - x >= y
    BY <2>2, <2>3
  <2> QED
    BY <2>1, <2>4
<1>4. Max(T) \in T /\ \A y \in T : Max(T) >= y
  BY <1>3 DEF Max
<1> QED
  BY <1>4

(* reading is a table of what the ranges of up to d symbols mean.           *)
ReadsUpTo(symbols, reading, d) ==
  \A i \in 1 .. (Len(symbols) + 1), j \in 0 .. Len(symbols) :
    j - i + 1 <= d => reading[i][j] = Read(symbols, reading, i, j)

\* The last operator outside of parentheses is one of these.
LEMMA OuterIsIn ==
  ASSUME NEW T, NEW symbols \in Seq(T),
         NEW i \in 1 .. (Len(symbols) + 1), NEW j \in 0 .. Len(symbols), NEW type,
         Outer(symbols, i, j, type) # {}
  PROVE  /\ Max(Outer(symbols, i, j, type)) \in Outer(symbols, i, j, type)
         /\ Max(Outer(symbols, i, j, type)) \in i .. j
         /\ \A k \in Outer(symbols, i, j, type) : k <= Max(Outer(symbols, i, j, type))
<1>1. /\ Outer(symbols, i, j, type) \in SUBSET (i .. j)
      /\ Outer(symbols, i, j, type) \in SUBSET (0 .. Len(symbols))
  BY DEF Outer
<1>2. Len(symbols) \in Nat
  OBVIOUS
<1> QED
  BY <1>1, <1>2, LargestNumber

\* The meaning of a range needs no more than the meanings of shorter ones.
LEMMA ReadLooksWithin ==
  ASSUME NEW T, NEW symbols \in Seq(T),
         NEW i \in 1 .. (Len(symbols) + 1), NEW j \in 0 .. Len(symbols),
         NEW p, NEW q,
         \A k \in 1 .. (Len(symbols) + 1), l \in 0 .. Len(symbols) :
           l - k < j - i => p[k][l] = q[k][l]
  PROVE  Read(symbols, p, i, j) = Read(symbols, q, i, j)
<1>0. Len(symbols) \in Nat
  OBVIOUS
<1>1. CASE i > j
  <2>1. Outer(symbols, i, j, "OR") = {} /\ Outer(symbols, i, j, "AND") = {}
    BY <1>1, <1>0 DEF Outer
  <2> QED
    BY <1>1, <2>1, <1>0 DEF Read
<1>2. CASE i <= j /\ Outer(symbols, i, j, "OR") # {}
  <2> DEFINE k == Max(Outer(symbols, i, j, "OR"))
  <2>1. k \in i .. j
    BY <1>2, OuterIsIn
  <2> HIDE DEF k
  <2>2. /\ k - 1 \in 0 .. Len(symbols) /\ (k - 1) - i < j - i
        /\ k + 1 \in 1 .. (Len(symbols) + 1) /\ j - (k + 1) < j - i
    BY <2>1, <1>0
  <2>3. p[i][k - 1] = q[i][k - 1] /\ p[k + 1][j] = q[k + 1][j]
    BY <2>2
  <2>4. Split(p, "OR", i, k, j) = Split(q, "OR", i, k, j)
    BY <2>3 DEF Split
  <2> QED
    BY <1>2, <2>4 DEF Read, k
<1>3. CASE /\ i <= j /\ Outer(symbols, i, j, "OR") = {}
           /\ Outer(symbols, i, j, "AND") # {}
  <2> DEFINE k == Max(Outer(symbols, i, j, "AND"))
  <2>1. k \in i .. j
    BY <1>3, OuterIsIn
  <2> HIDE DEF k
  <2>2. /\ k - 1 \in 0 .. Len(symbols) /\ (k - 1) - i < j - i
        /\ k + 1 \in 1 .. (Len(symbols) + 1) /\ j - (k + 1) < j - i
    BY <2>1, <1>0
  <2>3. p[i][k - 1] = q[i][k - 1] /\ p[k + 1][j] = q[k + 1][j]
    BY <2>2
  <2>4. Split(p, "AND", i, k, j) = Split(q, "AND", i, k, j)
    BY <2>3 DEF Split
  <2> QED
    BY <1>3, <2>4 DEF Read, k
<1>4. CASE /\ i <= j /\ Outer(symbols, i, j, "OR") = {}
           /\ Outer(symbols, i, j, "AND") = {}
  <2>1. p[i + 1][j] = q[i + 1][j]
    BY <1>0, <1>4
  <2>2. p[i + 1][j - 1] = q[i + 1][j - 1]
    BY <1>0, <1>4
  <2>3. Unsplit(symbols, p, i, j) = Unsplit(symbols, q, i, j)
    BY <2>1, <2>2 DEF Unsplit
  <2> QED
    BY <1>4, <2>3 DEF Read
<1> QED
  BY <1>1, <1>2, <1>3, <1>4, <1>0

\* There is a table of what the ranges mean.
LEMMA ReadingExists ==
  ASSUME NEW T, NEW symbols \in Seq(T)
  PROVE  \E p : p = [i \in 1 .. (Len(symbols) + 1) |->
                       [j \in 0 .. Len(symbols) |-> Read(symbols, p, i, j)]]
<1> DEFINE n == Len(symbols)
           D == {d \in 0 .. n : \E p : ReadsUpTo(symbols, p, d)}
<1>0. n \in Nat
  OBVIOUS
<1>1. ASSUME NEW d \in Int, NEW p, ReadsUpTo(symbols, p, d)
      PROVE  \E q : ReadsUpTo(symbols, q, d + 1)
  <2> DEFINE q == [i \in 1 .. (n + 1) |-> [j \in 0 .. n |->
                     IF j - i = d THEN Read(symbols, p, i, j) ELSE p[i][j]]]
  <2>1. \A i \in 1 .. (n + 1), j \in 0 .. n :
          q[i][j] = IF j - i = d THEN Read(symbols, p, i, j) ELSE p[i][j]
    OBVIOUS
  <2> HIDE DEF q
  <2>2. ASSUME NEW i \in 1 .. (n + 1), NEW j \in 0 .. n, j - i + 1 <= d + 1
        PROVE  q[i][j] = Read(symbols, q, i, j)
    <3>1. \A k \in 1 .. (n + 1), l \in 0 .. n : l - k < j - i => p[k][l] = q[k][l]
      BY <2>1, <2>2, <1>0, SMTT(30)
    <3>2. Read(symbols, p, i, j) = Read(symbols, q, i, j)
      BY <3>1, ReadLooksWithin
    <3>3. q[i][j] = Read(symbols, p, i, j)
      BY <2>1, <2>2, <1>1, <1>0 DEF ReadsUpTo
    <3> QED
      BY <3>2, <3>3
  <2> QED
    BY <2>2 DEF ReadsUpTo
<1>2. 0 \in D
  <2> DEFINE p == [i \in 1 .. (n + 1) |-> [j \in 0 .. n |-> Invalid]]
  <2>1. ASSUME NEW i \in 1 .. (n + 1), NEW j \in 0 .. n, j - i + 1 <= 0
        PROVE  p[i][j] = Read(symbols, p, i, j)
    <3>1. Outer(symbols, i, j, "OR") = {} /\ Outer(symbols, i, j, "AND") = {}
      BY <2>1, <1>0 DEF Outer
    <3>2. p[i][j] = Invalid
      OBVIOUS
    <3> HIDE DEF p
    <3> QED
      BY <3>1, <3>2, <2>1, <1>0 DEF Read
  <2>2. ReadsUpTo(symbols, p, 0)
    <3> HIDE DEF p
    <3> QED
      BY <2>1 DEF ReadsUpTo
  <2> QED
    BY <2>2, <1>0
<1>3. ASSUME NEW d \in 0 .. (n - 1), d \in D
      PROVE  d + 1 \in D
  <2>1. PICK p : ReadsUpTo(symbols, p, d)
    BY <1>3
  <2>2. d \in Int /\ d + 1 \in 0 .. n
    BY <1>0
  <2>3. \E q : ReadsUpTo(symbols, q, d + 1)
    BY <2>1, <2>2, <1>1
  <2> QED
    BY <2>2, <2>3
<1>4. 0 .. n \subseteq D
  <2> HIDE DEF D
  <2> QED
    BY <1>2, <1>3, <1>0, InductionUpTo
<1>5. PICK p : ReadsUpTo(symbols, p, n)
  BY <1>4, <1>0
<1> DEFINE q == [i \in 1 .. (n + 1) |-> [j \in 0 .. n |-> p[i][j]]]
<1>6. \A i \in 1 .. (n + 1), j \in 0 .. n : q[i][j] = p[i][j]
  OBVIOUS
<1>7. \A i \in 1 .. (n + 1), j \in 0 .. n : p[i][j] = Read(symbols, q, i, j)
  <2> SUFFICES ASSUME NEW i \in 1 .. (n + 1), NEW j \in 0 .. n
               PROVE  p[i][j] = Read(symbols, q, i, j)
    OBVIOUS
  <2>1. p[i][j] = Read(symbols, p, i, j)
    BY <1>5, <1>0 DEF ReadsUpTo
  <2> HIDE DEF q
  <2>2. Read(symbols, p, i, j) = Read(symbols, q, i, j)
    BY <1>6, ReadLooksWithin
  <2> QED
    BY <2>1, <2>2
<1>8. q = [i \in 1 .. (n + 1) |-> [j \in 0 .. n |-> Read(symbols, q, i, j)]]
  BY <1>7
<1> QED
  BY <1>8

(* reading is a table of what each range of symbols means.                  *)
IsReading(symbols, reading) ==
  \A i \in 1 .. (Len(symbols) + 1), j \in 0 .. Len(symbols) :
    reading[i][j] = Read(symbols, reading, i, j)

\* Reading takes its result from such a table.
LEMMA ReadingIs ==
  ASSUME NEW T, NEW symbols \in Seq(T)
  PROVE  \E p : IsReading(symbols, p) /\ Reading(symbols) = p[1][Len(symbols)]
<1> DEFINE n == Len(symbols)
           Solves(p) == p = [i \in 1 .. (n + 1) |->
                               [j \in 0 .. n |-> Read(symbols, p, i, j)]]
           reading == CHOOSE p : Solves(p)
<1>1. Solves(reading)
  <2>1. \E p : Solves(p)
    BY ReadingExists
  <2> HIDE DEF Solves
  <2> QED
    BY <2>1
<1>2. Reading(symbols) = reading[1][n]
  BY DEF Reading
<1> HIDE DEF reading
<1>3. ASSUME NEW i \in 1 .. (n + 1), NEW j \in 0 .. n
      PROVE  reading[i][j] = Read(symbols, reading, i, j)
  <2>1. reading[i] = [k \in 0 .. n |-> Read(symbols, reading, i, k)]
    BY <1>1
  <2> QED
    BY <2>1
<1> QED
  BY <1>2, <1>3 DEF IsReading

-------------------------------------------------------------------------------
(* chain[k] is the tree of the first k operands.                            *)
IsChain(type, operands, chain) ==
  /\ chain[1] = operands[1]
  /\ \A k \in 2 .. Len(operands) : chain[k] = Binary(type, chain[k - 1], operands[k])

\* The operands of a chain are put together from the left.
LEMMA ChainIs ==
  ASSUME NEW T, NEW operands \in Seq(T), operands # <<>>, NEW type
  PROVE  \E chain : /\ IsChain(type, operands, chain)
                    /\ Chain(type, operands) = chain[Len(operands)]
<1> DEFINE n == Len(operands)
           At(c, k) == IF k = 1 THEN operands[1] ELSE Binary(type, c[k - 1], operands[k])
           Solves(c, m) == c = [k \in 1 .. m |-> At(c, k)]
           Upto == {m \in 0 .. n : \E c : Solves(c, m)}
<1>0. n \in Nat /\ n # 0
  OBVIOUS
<1>1. 0 \in Upto
  <2>1. Solves([k \in 1 .. 0 |-> operands[1]], 0)
    OBVIOUS
  <2> HIDE DEF Solves
  <2> QED
    BY <2>1, <1>0
<1>2. ASSUME NEW m \in 0 .. (n - 1), m \in Upto
      PROVE  m + 1 \in Upto
  <2>1. PICK c : Solves(c, m)
    BY <1>2
  <2> DEFINE d == [k \in 1 .. (m + 1) |-> IF k = m + 1 THEN At(c, k) ELSE c[k]]
  <2>2. \A k \in 1 .. m : d[k] = c[k] /\ c[k] = At(c, k)
    BY <2>1
  <2>3. \A k \in 1 .. (m + 1) : d[k] = At(d, k)
    <3> SUFFICES ASSUME NEW k \in 1 .. (m + 1)
                 PROVE  d[k] = At(d, k)
      OBVIOUS
    <3>1. k # 1 => k - 1 \in 1 .. m
      OBVIOUS
    <3>2. k # 1 => d[k - 1] = c[k - 1]
      BY <3>1, <2>2
    <3>3. d[k] = At(c, k)
      <4>1. k # m + 1 => k \in 1 .. m
        OBVIOUS
      <4> QED
        BY <4>1, <2>2
    <3> HIDE DEF d
    <3> QED
      BY <3>2, <3>3
  <2>4. Solves(d, m + 1)
    <3>1. d = [k \in 1 .. (m + 1) |-> d[k]]
      OBVIOUS
    <3> HIDE DEF d, At
    <3> QED
      BY <3>1, <2>3
  <2>5. m + 1 \in 0 .. n
    BY <1>0
  <2> HIDE DEF Solves, d
  <2> QED
    BY <2>4, <2>5
<1>3. n \in Upto
  <2>1. 0 .. n \subseteq Upto
    <3> HIDE DEF Upto
    <3> QED
      BY <1>0, <1>1, <1>2, InductionUpTo
  <2> QED
    BY <2>1, <1>0
<1> DEFINE chain == CHOOSE c : Solves(c, n)
<1>4. Solves(chain, n)
  <2>1. \E c : Solves(c, n)
    BY <1>3
  <2> HIDE DEF Solves
  <2> QED
    BY <2>1
<1>5. Chain(type, operands) = chain[n]
  BY DEF Chain
<1> HIDE DEF chain
<1>6. IsChain(type, operands, chain)
  <2>1. \A k \in 1 .. n : chain[k] = At(chain, k)
    BY <1>4
  <2> QED
    BY <2>1, <1>0 DEF IsChain
<1> QED
  BY <1>5, <1>6

-------------------------------------------------------------------------------
(* Parentheses.                                                             *)

Parens(symbols, i, k, type) == {m \in i .. (k - 1) : symbols[m].type = type}

\* Parentheses can be counted.
LEMMA ParensFinite ==
  ASSUME NEW symbols, NEW i \in Int, NEW k \in Int, NEW type
  PROVE  /\ IsFiniteSet(Parens(symbols, i, k, type))
         /\ Cardinality(Parens(symbols, i, k, type)) \in Nat
<1>1. IsFiniteSet(i .. (k - 1))
  BY FS_Interval
<1>2. Parens(symbols, i, k, type) \subseteq i .. (k - 1)
  BY DEF Parens
<1> QED
  BY <1>1, <1>2, FS_Subset, FS_CardinalityType

\* The parentheses of a range are those of its two parts.
LEMMA ParensSplit ==
  ASSUME NEW symbols, NEW i \in Int, NEW m \in Int, NEW k \in Int,
         i <= m, m <= k, NEW type
  PROVE  Cardinality(Parens(symbols, i, k, type))
           = Cardinality(Parens(symbols, i, m, type))
               + Cardinality(Parens(symbols, m, k, type))
<1> DEFINE A == Parens(symbols, i, m, type)
           B == Parens(symbols, m, k, type)
<1>1. IsFiniteSet(A) /\ IsFiniteSet(B)
  BY ParensFinite
<1>2. A \cap B = {} /\ A \cup B = Parens(symbols, i, k, type)
  BY DEF Parens
<1>3. Cardinality(A \cup B)
        = Cardinality(A) + Cardinality(B) - Cardinality(A \cap B)
  <2> HIDE DEF A, B
  <2> QED
    BY <1>1, FS_Union
<1>4. Cardinality(A \cap B) = 0
  BY <1>2, FS_EmptySet
<1>5. Cardinality(A) \in Nat /\ Cardinality(B) \in Nat
  BY ParensFinite
<1> HIDE DEF A, B
<1>6. Cardinality(A \cup B) = Cardinality(A) + Cardinality(B)
  BY <1>3, <1>4, <1>5
<1> QED
  BY <1>6, <1>2 DEF A, B

\* The level is the number of parentheses opened less those closed, a whole number.
LEMMA LevelIs ==
  ASSUME NEW symbols, NEW i \in Int, NEW k \in Int
  PROVE  /\ Level(symbols, i, k) = Cardinality(Parens(symbols, i, k, "LPAREN"))
                                     - Cardinality(Parens(symbols, i, k, "RPAREN"))
         /\ Level(symbols, i, k) \in Int
<1>1. Level(symbols, i, k) = Cardinality(Parens(symbols, i, k, "LPAREN"))
                               - Cardinality(Parens(symbols, i, k, "RPAREN"))
  BY DEF Level, Parens
<1> QED
  BY <1>1, ParensFinite

\* Levels add up.
LEMMA LevelSplit ==
  ASSUME NEW symbols, NEW i \in Int, NEW m \in Int, NEW k \in Int, i <= m, m <= k
  PROVE  Level(symbols, i, k) = Level(symbols, i, m) + Level(symbols, m, k)
<1>1. \A type :
        Cardinality(Parens(symbols, i, k, type))
          = Cardinality(Parens(symbols, i, m, type))
              + Cardinality(Parens(symbols, m, k, type))
  BY ParensSplit
<1>2. \A type : /\ Cardinality(Parens(symbols, i, m, type)) \in Nat
                /\ Cardinality(Parens(symbols, m, k, type)) \in Nat
  BY ParensFinite
<1> QED
  BY <1>1, <1>2, LevelIs

Delta(symbol) ==
  IF symbol.type = "LPAREN" THEN 1 ELSE IF symbol.type = "RPAREN" THEN -1 ELSE 0

\* One symbol changes the level by what it opens or closes.
LEMMA LevelStep ==
  ASSUME NEW symbols, NEW i \in Int
  PROVE  /\ Level(symbols, i, i) = 0
         /\ Level(symbols, i, i + 1) = Delta(symbols[i])
<1>1. ASSUME NEW type
      PROVE  /\ Cardinality(Parens(symbols, i, i, type)) = 0
             /\ Cardinality(Parens(symbols, i, i + 1, type))
                  = IF symbols[i].type = type THEN 1 ELSE 0
  <2>1. Parens(symbols, i, i, type) = {}
    BY DEF Parens
  <2>2. Parens(symbols, i, i + 1, type) = IF symbols[i].type = type THEN {i} ELSE {}
    BY DEF Parens
  <2>3. Cardinality({i}) = 1 /\ Cardinality({}) = 0
    BY FS_Singleton, FS_EmptySet
  <2> QED
    BY <2>1, <2>2, <2>3
<1> QED
  BY <1>1, LevelIs DEF Delta

-------------------------------------------------------------------------------
(* The symbols i to j are an operand: they mean tree, and close the         *)
(* parentheses that they open.                                              *)
Operand(symbols, reading, i, j, tr) ==
  /\ i <= j
  /\ reading[i][j] = tr /\ tr # Invalid
  /\ Level(symbols, i, j + 1) = 0
  /\ \A k \in i .. (j + 1) : Level(symbols, i, k) >= 0

\* What the parser puts together is a tree.
LEMMA NodesAreValid ==
  /\ \A type, l, r : Binary(type, l, r) # Invalid
  /\ \A c : NotNode(c) # Invalid
BY DEF Binary, AndNode, OrNode, NotNode, Invalid

\* A number of a set that no other one exceeds is what Max returns.
LEMMA MaxIs ==
  ASSUME NEW S \in SUBSET Int, NEW c \in S, \A k \in S : k <= c
  PROVE  Max(S) = c
<1>1. Max(S) \in S /\ \A k \in S : Max(S) >= k
  <2>1. \E x \in S : \A k \in S : x >= k
    OBVIOUS
  <2> QED
    BY <2>1 DEF Max
<1>2. \A x \in S : x >= c => x = c
  OBVIOUS
<1> QED
  BY <1>1, <1>2

\* Two operands with an operator between them.
LEMMA JoinOperands ==
  ASSUME NEW T, NEW symbols \in Seq(T), NEW reading, IsReading(symbols, reading),
         NEW i \in 1 .. Len(symbols), NEW e \in 1 .. Len(symbols),
         NEW c \in (i + 1) .. (e - 1), NEW type \in {"AND", "OR"},
         symbols[c].type = type,
         NEW l, Operand(symbols, reading, i, c - 1, l),
         NEW r, Operand(symbols, reading, c + 1, e, r),
         Outer(symbols, c + 1, e, type) = {},
         type = "AND" => /\ Outer(symbols, i, c - 1, "OR") = {}
                         /\ Outer(symbols, c + 1, e, "OR") = {}
  PROVE  /\ Operand(symbols, reading, i, e, Binary(type, l, r))
         /\ type = "AND" => Outer(symbols, i, e, "OR") = {}
<1>0. Len(symbols) \in Nat
  OBVIOUS
<1>1. Level(symbols, i, c) = 0 /\ \A k \in i .. c : Level(symbols, i, k) >= 0
  BY <1>0 DEF Operand
<1>2. Level(symbols, i, c + 1) = 0
  <2>1. Level(symbols, c, c + 1) = 0
    BY LevelStep DEF Delta
  <2> QED
    BY <1>1, <2>1, LevelSplit
<1>3. \A k \in (c + 1) .. (e + 1) :
        /\ Level(symbols, i, k) = Level(symbols, c + 1, k)
        /\ Level(symbols, c + 1, k) >= 0
  <2> SUFFICES ASSUME NEW k \in (c + 1) .. (e + 1)
               PROVE  /\ Level(symbols, i, k) = Level(symbols, c + 1, k)
                      /\ Level(symbols, c + 1, k) >= 0
    OBVIOUS
  <2>1. Level(symbols, i, k) = Level(symbols, i, c + 1) + Level(symbols, c + 1, k)
    BY LevelSplit
  <2>2. Level(symbols, c + 1, k) >= 0 /\ Level(symbols, c + 1, k) \in Int
    BY LevelIs DEF Operand
  <2> QED
    BY <2>1, <2>2, <1>2
<1>4. c \in Outer(symbols, i, e, type)
  BY <1>1 DEF Outer
<1>5. \A t : \A k \in i .. e : k \in Outer(symbols, i, e, t) =>
        \/ k = c
        \/ k \in Outer(symbols, i, c - 1, t)
        \/ k \in Outer(symbols, c + 1, e, t)
  BY <1>3 DEF Outer
<1>6. \A k \in Outer(symbols, i, e, type) : k <= c
  BY <1>5, SMTT(30) DEF Outer
<1>7. Max(Outer(symbols, i, e, type)) = c
  <2>1. Outer(symbols, i, e, type) \in SUBSET Int
    BY DEF Outer
  <2> QED
    BY <1>4, <1>6, <2>1, MaxIs
<1>8. type = "AND" => Outer(symbols, i, e, "OR") = {}
  BY <1>5 DEF Outer
<1>9. reading[i][e] = Split(reading, type, i, c, e)
  <2>1. reading[i][e] = Read(symbols, reading, i, e)
    BY <1>0 DEF IsReading
  <2>2. i <= e /\ Outer(symbols, i, e, type) # {}
    BY <1>4
  <2>3. CASE type = "OR"
    BY <2>1, <2>2, <2>3, <1>7 DEF Read
  <2>4. CASE type = "AND"
    BY <2>1, <2>2, <2>4, <1>7, <1>8 DEF Read
  <2> QED
    BY <2>3, <2>4
<1>10. reading[i][e] = Binary(type, l, r)
  BY <1>9 DEF Split, Operand
<1>11. \A k \in i .. (e + 1) : Level(symbols, i, k) >= 0
  BY <1>1, <1>3
<1>12. Level(symbols, i, e + 1) = 0
  BY <1>3 DEF Operand
<1> QED
  BY <1>8, <1>10, <1>11, <1>12, NodesAreValid DEF Operand

\* What has a meaning is an operand.
LEMMA ValidIsOperand ==
  ASSUME NEW T, NEW symbols \in Seq(T), NEW reading, IsReading(symbols, reading)
  PROVE  \A i \in 1 .. (Len(symbols) + 1), j \in 0 .. Len(symbols) :
           reading[i][j] # Invalid =>
             Operand(symbols, reading, i, j, reading[i][j])
<1> DEFINE n == Len(symbols)
           Fine(i, j) == reading[i][j] # Invalid =>
                           Operand(symbols, reading, i, j, reading[i][j])
           D == {d \in 0 .. n : \A i \in 1 .. (n + 1), j \in 0 .. n :
                                  j - i + 1 <= d => Fine(i, j)}
<1>0. n \in Nat
  OBVIOUS
<1>1. ASSUME NEW i \in 1 .. (n + 1), NEW j \in 0 .. n, i > j
      PROVE  reading[i][j] = Invalid
  <2>1. Outer(symbols, i, j, "OR") = {} /\ Outer(symbols, i, j, "AND") = {}
    BY <1>1, <1>0 DEF Outer
  <2> QED
    BY <1>1, <2>1, <1>0 DEF IsReading, Read
<1>2. 0 \in D
  BY <1>1, <1>0
<1>3. ASSUME NEW i \in 1 .. (n + 1), NEW j \in 0 .. n, i <= j,
             reading[i][j] # Invalid,
             \A k \in 1 .. (n + 1), m \in 0 .. n : m - k < j - i => Fine(k, m)
      PROVE  Operand(symbols, reading, i, j, reading[i][j])
  <2>0. reading[i][j] = Read(symbols, reading, i, j)
    BY DEF IsReading
  <2>1. ASSUME NEW type \in {"AND", "OR"}, Outer(symbols, i, j, type) # {},
               reading[i][j] = Split(reading, type, i, Max(Outer(symbols, i, j, type)), j)
        PROVE  Operand(symbols, reading, i, j, reading[i][j])
    <3> DEFINE c == Max(Outer(symbols, i, j, type))
    <3>1. c \in i .. j /\ symbols[c].type = type /\ Level(symbols, i, c) = 0
      <4>1. c \in Outer(symbols, i, j, type) /\ c \in i .. j
        BY <2>1, OuterIsIn
      <4> QED
        BY <4>1 DEF Outer
    <3> HIDE DEF c
    <3>2. reading[i][c - 1] # Invalid /\ reading[c + 1][j] # Invalid
      BY <2>1, <1>3 DEF Split, c
    <3>3. /\ c - 1 \in 0 .. n /\ (c - 1) - i < j - i
          /\ c + 1 \in 1 .. (n + 1) /\ j - (c + 1) < j - i
      BY <3>1, <1>0
    <3>4. /\ Operand(symbols, reading, i, c - 1, reading[i][c - 1])
          /\ Operand(symbols, reading, c + 1, j, reading[c + 1][j])
      BY <3>2, <3>3, <1>3
    <3>5. Level(symbols, i, c + 1) = 0
      <4>1. Level(symbols, c, c + 1) = 0
        BY <3>1, LevelStep, SMTT(30) DEF Delta
      <4> QED
        BY <3>1, <4>1, LevelSplit
    <3>6. \A k \in i .. c : Level(symbols, i, k) >= 0
      BY <3>4, <3>1 DEF Operand
    <3>7. \A k \in (c + 1) .. (j + 1) :
            /\ Level(symbols, i, k) = Level(symbols, c + 1, k)
            /\ Level(symbols, c + 1, k) >= 0
      <4> SUFFICES ASSUME NEW k \in (c + 1) .. (j + 1)
                   PROVE  /\ Level(symbols, i, k) = Level(symbols, c + 1, k)
                          /\ Level(symbols, c + 1, k) >= 0
        OBVIOUS
      <4>1. Level(symbols, i, k) = Level(symbols, i, c + 1) + Level(symbols, c + 1, k)
        BY LevelSplit, <3>1
      <4>2. Level(symbols, c + 1, k) >= 0 /\ Level(symbols, c + 1, k) \in Int
        BY LevelIs, <3>4, <3>1 DEF Operand
      <4> QED
        BY <4>1, <4>2, <3>5
    <3>8. \A k \in i .. (j + 1) : Level(symbols, i, k) >= 0
      BY <3>6, <3>7, <3>1
    <3>9. Level(symbols, i, j + 1) = 0
      BY <3>4, <3>7, <3>1 DEF Operand
    <3> QED
      BY <3>8, <3>9, <1>3 DEF Operand
  <2>2. ASSUME reading[i][j] = Unsplit(symbols, reading, i, j)
        PROVE  Operand(symbols, reading, i, j, reading[i][j])
    <3>1. /\ Level(symbols, i, i) = 0
          /\ Level(symbols, i, i + 1) = Delta(symbols[i])
          /\ Level(symbols, j, j + 1) = Delta(symbols[j])
      BY LevelStep
    <3>2. \A k \in (i + 1) .. (j + 1) :
            /\ Level(symbols, i, k) = Delta(symbols[i]) + Level(symbols, i + 1, k)
            /\ Level(symbols, i + 1, k) \in Int
      <4> SUFFICES ASSUME NEW k \in (i + 1) .. (j + 1)
                   PROVE  /\ Level(symbols, i, k) = Delta(symbols[i]) + Level(symbols, i + 1, k)
                          /\ Level(symbols, i + 1, k) \in Int
        OBVIOUS
      <4>1. Level(symbols, i, k) = Level(symbols, i, i + 1) + Level(symbols, i + 1, k)
        BY LevelSplit
      <4> QED
        BY <4>1, <3>1, LevelIs
    <3>3. CASE symbols[i].type = "NOT"
      <4>1. reading[i + 1][j] # Invalid
        BY <3>3, <2>2, <1>3 DEF Unsplit
      <4>2. Operand(symbols, reading, i + 1, j, reading[i + 1][j])
        BY <4>1, <1>3, <1>0
      <4>3. Delta(symbols[i]) = 0
        BY <3>3 DEF Delta
      <4>4. \A k \in (i + 1) .. (j + 1) : Level(symbols, i + 1, k) >= 0
        BY <4>2 DEF Operand
      <4>5. Level(symbols, i + 1, j + 1) = 0
        BY <4>2 DEF Operand
      <4>6. \A k \in i .. (j + 1) : Level(symbols, i, k) >= 0
        BY <4>3, <4>4, <3>1, <3>2
      <4>7. Level(symbols, i, j + 1) = 0
        BY <4>3, <4>5, <3>2, <1>3
      <4> QED
        BY <4>6, <4>7, <1>3 DEF Operand
    <3>4. CASE symbols[i].type = "LPAREN" /\ symbols[j].type = "RPAREN"
      <4>1. reading[i + 1][j - 1] # Invalid /\ i # j
        BY <3>4, <2>2, <1>3 DEF Unsplit
      <4>2. Operand(symbols, reading, i + 1, j - 1, reading[i + 1][j - 1])
        BY <4>1, <1>3, <1>0, SMTT(30)
      <4>3. Delta(symbols[i]) = 1 /\ Delta(symbols[j]) = -1
        BY <3>4 DEF Delta
      <4>4. \A k \in (i + 1) .. j : Level(symbols, i + 1, k) >= 0
        BY <4>2, <4>1 DEF Operand
      <4>5. Level(symbols, i + 1, j) = 0
        BY <4>2 DEF Operand
      <4>6. Level(symbols, i, j) = 1
        BY <4>3, <4>5, <4>1, <3>2, <1>3, SMTT(30)
      <4>7. Level(symbols, i, j + 1) = 0
        <5>1. Level(symbols, i, j + 1) = Level(symbols, i, j) + Level(symbols, j, j + 1)
          BY LevelSplit, <1>3
        <5> QED
          BY <5>1, <4>6, <4>3, <3>1
      <4>8. \A k \in i .. (j + 1) : Level(symbols, i, k) >= 0
        <5>1. \A k \in (i + 1) .. j : Level(symbols, i, k) = 1 + Level(symbols, i + 1, k)
          BY <4>3, <3>2
        <5>2. \A k \in (i + 1) .. j : Level(symbols, i, k) >= 0
          BY <5>1, <4>4, <3>2
        <5>3. \A k \in i .. (j + 1) : k = i \/ k = j + 1 \/ k \in (i + 1) .. j
          OBVIOUS
        <5> QED
          BY <5>2, <5>3, <4>7, <3>1
      <4> QED
        BY <4>7, <4>8, <1>3 DEF Operand
    <3>5. CASE symbols[i].type = "LEAF" /\ i = j
      <4>1. Delta(symbols[i]) = 0
        BY <3>5 DEF Delta
      <4>2. \A k \in i .. (j + 1) : k = i \/ k = i + 1
        BY <3>5
      <4> QED
        BY <4>1, <4>2, <3>1, <3>5, <1>3 DEF Operand
    <3> QED
      BY <3>3, <3>4, <3>5, <2>2, <1>3 DEF Unsplit
  <2> QED
    BY <2>0, <2>1, <2>2, <1>3 DEF Read
<1>4. ASSUME NEW d \in 0 .. (n - 1), d \in D
      PROVE  d + 1 \in D
  <2> SUFFICES ASSUME NEW i \in 1 .. (n + 1), NEW j \in 0 .. n,
                      j - i + 1 <= d + 1, reading[i][j] # Invalid
               PROVE  Operand(symbols, reading, i, j, reading[i][j])
    BY <1>0
  <2>1. \A k \in 1 .. (n + 1), m \in 0 .. n : m - k < j - i => Fine(k, m)
    <3>1. \A k \in 1 .. (n + 1), m \in 0 .. n : m - k < j - i => m - k + 1 <= d
      BY <1>0
    <3>2. \A k \in 1 .. (n + 1), m \in 0 .. n : m - k + 1 <= d => Fine(k, m)
      BY <1>4
    <3> HIDE DEF Fine
    <3> QED
      BY <3>1, <3>2
  <2>2. i <= j
    BY <1>1, <1>0
  <2> HIDE DEF Fine
  <2> QED
    BY <2>1, <2>2, <1>3
<1>5. 0 .. n \subseteq D
  <2> HIDE DEF D
  <2> QED
    BY <1>0, <1>2, <1>4, InductionUpTo
<1>6. n \in D
  <2> HIDE DEF D
  <2> QED
    BY <1>5, <1>0
<1>7. \A i \in 1 .. (n + 1), j \in 0 .. n : j - i + 1 <= n
  BY <1>0
<1> QED
  BY <1>6, <1>7

-------------------------------------------------------------------------------
(* The symbols i to j are operands with operators of this type between      *)
(* them: cuts are the positions of the operators, with i - 1 before and     *)
(* j + 1 after all.                                                         *)

\* No operator of this type, or of one that binds looser, splits i to j.
Holds(symbols, i, j, type) ==
  /\ Outer(symbols, i, j, type) = {}
  /\ type = "AND" => Outer(symbols, i, j, "OR") = {}

Cuts(symbols, reading, type, i, j, operands, cuts) ==
  /\ cuts \in [0 .. Len(operands) -> 0 .. (Len(symbols) + 1)]
  /\ cuts[0] = i - 1 /\ cuts[Len(operands)] = j + 1
  /\ \A m \in 1 .. Len(operands) :
       /\ Operand(symbols, reading, cuts[m - 1] + 1, cuts[m] - 1, operands[m])
       /\ Holds(symbols, cuts[m - 1] + 1, cuts[m] - 1, type)
  /\ \A m \in 1 .. (Len(operands) - 1) : symbols[cuts[m]].type = type

IsSequence(s) == \E T : s \in Seq(T)

\* Sequences with one more element in front, whatever is in them.
LEMMA SequenceFacts ==
  /\ \A s : IsSequence(s) => Len(s) \in Nat
  /\ \A x : IsSequence(<<x>>) /\ Len(<<x>>) = 1
  /\ \A x, s : IsSequence(s) =>
       /\ IsSequence(<<x>> \o s)
       /\ Len(<<x>> \o s) = Len(s) + 1
       /\ (<<x>> \o s)[1] = x
       /\ \A m \in 2 .. (Len(s) + 1) : (<<x>> \o s)[m] = s[m - 1]
<1>1. \A s : IsSequence(s) => Len(s) \in Nat
  BY DEF IsSequence
<1>2. \A x : IsSequence(<<x>>) /\ Len(<<x>>) = 1
  <2>1. \A x : <<x>> \in Seq({x})
    OBVIOUS
  <2> QED
    BY <2>1 DEF IsSequence
<1>3. ASSUME NEW x, NEW s, IsSequence(s)
      PROVE  /\ IsSequence(<<x>> \o s)
             /\ Len(<<x>> \o s) = Len(s) + 1
             /\ (<<x>> \o s)[1] = x
             /\ \A m \in 2 .. (Len(s) + 1) : (<<x>> \o s)[m] = s[m - 1]
  <2>1. PICK T : s \in Seq(T)
    BY <1>3 DEF IsSequence
  <2>2. s \in Seq(T \cup {x}) /\ <<x>> \in Seq(T \cup {x})
    BY <2>1
  <2>3. <<x>> \o s \in Seq(T \cup {x})
    BY <2>2
  <2>4. IsSequence(<<x>> \o s)
    BY <2>3 DEF IsSequence
  <2> QED
    BY <2>2, <2>4
<1> QED
  BY <1>1, <1>2, <1>3

\* A chain of operands means the tree that Chain makes of it.
LEMMA CutsMean ==
  ASSUME NEW T, NEW symbols \in Seq(T), NEW reading, IsReading(symbols, reading),
         NEW i \in 1 .. Len(symbols), NEW j \in 1 .. Len(symbols),
         NEW type \in {"AND", "OR"}, NEW operands, IsSequence(operands), Len(operands) # 0,
         NEW cuts, Cuts(symbols, reading, type, i, j, operands, cuts)
  PROVE  /\ Operand(symbols, reading, i, j, Chain(type, operands))
         /\ type = "AND" => Outer(symbols, i, j, "OR") = {}
<1> DEFINE n == Len(operands)
<1>0. n \in Nat /\ n # 0 /\ Len(symbols) \in Nat
  BY SequenceFacts
<1>1. PICK chain : /\ IsChain(type, operands, chain)
                   /\ Chain(type, operands) = chain[n]
  <2>1. PICK S : operands \in Seq(S)
    BY DEF IsSequence
  <2>2. operands # <<>>
    BY <2>1, <1>0
  <2> QED
    BY <2>1, <2>2, ChainIs
<1> DEFINE Fine(m) == /\ Operand(symbols, reading, i, cuts[m] - 1, chain[m])
                      /\ type = "AND" => Outer(symbols, i, cuts[m] - 1, "OR") = {}
           D == {m \in 0 .. n : m = 0 \/ Fine(m)}
<1>2. /\ cuts[0] = i - 1 /\ cuts[n] = j + 1
      /\ \A m \in 0 .. n : cuts[m] \in 0 .. (Len(symbols) + 1)
      /\ \A m \in 1 .. n :
           /\ Operand(symbols, reading, cuts[m - 1] + 1, cuts[m] - 1, operands[m])
           /\ Holds(symbols, cuts[m - 1] + 1, cuts[m] - 1, type)
      /\ \A m \in 1 .. (n - 1) : symbols[cuts[m]].type = type
  BY DEF Cuts
<1>3. 0 \in D
  BY <1>0
<1>4. Fine(1)
  <2>1. cuts[0] + 1 = i /\ 1 \in 1 .. n /\ 1 - 1 = 0
    BY <1>0, <1>2
  <2>2. /\ Operand(symbols, reading, i, cuts[1] - 1, operands[1])
        /\ Holds(symbols, i, cuts[1] - 1, type)
    BY <2>1, <1>2
  <2> QED
    BY <2>2, <1>1 DEF IsChain, Holds
<1>5. ASSUME NEW m \in 1 .. (n - 1), Fine(m)
      PROVE  Fine(m + 1)
  <2> DEFINE c == cuts[m]
             e == cuts[m + 1] - 1
  <2>1. /\ m + 1 \in 1 .. n /\ (m + 1) - 1 = m /\ m \in 0 .. n /\ m + 1 \in 0 .. n
        /\ m + 1 \in 2 .. n
    BY <1>0
  <2>2. c \in 0 .. (Len(symbols) + 1) /\ e + 1 \in 0 .. (Len(symbols) + 1) /\ e \in Int
    BY <2>1, <1>2, SMTT(30)
  <2>3. /\ Operand(symbols, reading, c + 1, e, operands[m + 1])
        /\ Holds(symbols, c + 1, e, type)
    BY <2>1, <1>2
  <2>4. symbols[c].type = type
    BY <1>2
  <2>5. /\ Operand(symbols, reading, i, c - 1, chain[m])
        /\ type = "AND" => Outer(symbols, i, c - 1, "OR") = {}
    BY <1>5
  <2> HIDE DEF c, e
  <2>6. i <= c - 1 /\ c + 1 <= e
    BY <2>3, <2>5 DEF Operand
  <2>7. e \in 1 .. Len(symbols) /\ c \in (i + 1) .. (e - 1)
    BY <2>2, <2>6, <1>0
  <2>8. /\ Operand(symbols, reading, i, e, Binary(type, chain[m], operands[m + 1]))
        /\ type = "AND" => Outer(symbols, i, e, "OR") = {}
    BY <2>3, <2>4, <2>5, <2>7, JoinOperands DEF Holds
  <2>9. chain[m + 1] = Binary(type, chain[m], operands[m + 1])
    BY <2>1, <1>1 DEF IsChain
  <2> QED
    BY <2>8, <2>9 DEF e
<1>6. ASSUME NEW m \in 0 .. (n - 1), m \in D
      PROVE  m + 1 \in D
  <2>1. m + 1 \in 0 .. n
    BY <1>0
  <2>2. CASE m = 0
    BY <2>1, <2>2, <1>4
  <2>3. CASE m # 0
    <3>1. m \in 1 .. (n - 1) /\ Fine(m)
      BY <2>3, <1>6
    <3>2. Fine(m + 1)
      <4> HIDE DEF Fine
      <4> QED
        BY <3>1, <1>5
    <3> QED
      BY <3>2, <2>1
  <2> QED
    BY <2>2, <2>3
<1>7. 0 .. n \subseteq D
  <2> HIDE DEF D
  <2> QED
    BY <1>0, <1>3, <1>6, InductionUpTo
<1>8. Fine(n)
  <2>1. n \in D
    <3> HIDE DEF D
    <3> QED
      BY <1>7, <1>0
  <2> QED
    BY <2>1, <1>0
<1>9. cuts[n] - 1 = j
  BY <1>2
<1> QED
  BY <1>1, <1>8, <1>9

-------------------------------------------------------------------------------
(* The tokens as symbols.                                                   *)
TokenTypes == Operators \cup {"FUNC", "ERROR"}

TokenSymbol(token) ==
  IF token.type = "FUNC" THEN [type |-> "LEAF", node |-> buildLeaf(token.value)]
                         ELSE token

Symbols(tokens) == [i \in DOMAIN tokens |-> TokenSymbol(tokens[i])]

\* The symbols of tokens, one for each.
LEMMA SymbolsAre ==
  ASSUME NEW T, NEW tokens \in Seq(T),
         \A k \in 1 .. Len(tokens) : tokens[k].type \in TokenTypes
  PROVE  /\ \E S : Symbols(tokens) \in Seq(S)
         /\ Len(Symbols(tokens)) = Len(tokens)
         /\ \A k \in 1 .. Len(tokens) :
              /\ Symbols(tokens)[k] = TokenSymbol(tokens[k])
              /\ Peek(tokens, k) = tokens[k].type
              /\ \A type \in Operators :
                   Symbols(tokens)[k].type = type <=> Peek(tokens, k) = type
              /\ Symbols(tokens)[k].type = "LEAF" <=> Peek(tokens, k) = "FUNC"
              /\ Peek(tokens, k) = "FUNC" =>
                   Symbols(tokens)[k].node = buildLeaf(tokens[k].value)
<1>1. Symbols(tokens) \in Seq({TokenSymbol(t) : t \in T})
  BY DEF Symbols
<1>2. Len(Symbols(tokens)) = Len(tokens)
  BY DEF Symbols
<1>3. ASSUME NEW k \in 1 .. Len(tokens)
      PROVE  /\ Symbols(tokens)[k] = TokenSymbol(tokens[k])
             /\ Peek(tokens, k) = tokens[k].type
             /\ \A type \in Operators :
                  Symbols(tokens)[k].type = type <=> Peek(tokens, k) = type
             /\ Symbols(tokens)[k].type = "LEAF" <=> Peek(tokens, k) = "FUNC"
             /\ Peek(tokens, k) = "FUNC" =>
                  Symbols(tokens)[k].node = buildLeaf(tokens[k].value)
  <2>1. Symbols(tokens)[k] = TokenSymbol(tokens[k])
    BY DEF Symbols
  <2>2. Peek(tokens, k) = tokens[k].type
    BY DEF Peek
  <2>3. tokens[k].type \in TokenTypes
    OBVIOUS
  <2> QED
    BY <2>1, <2>2, <2>3 DEF TokenSymbol, TokenTypes, Operators
<1> QED
  BY <1>1, <1>2, <1>3

\* What the parser has read from pos on is a part of the rule as it is meant.
Sound(symbols, reading, level, pos, result) ==
  /\ result.pos \in (pos + 1) .. (Len(symbols) + 1)
  /\ IsSequence(result.operands) /\ Len(result.operands) # 0
  /\ IF level = "NOT"
     THEN /\ Len(result.operands) = 1
          /\ Operand(symbols, reading, pos, result.pos - 1, result.operands[1])
          /\ Holds(symbols, pos, result.pos - 1, "AND")
     ELSE \E cuts : Cuts(symbols, reading, level, pos, result.pos - 1,
                         result.operands, cuts)

AllSound(symbols, reading, read, from) ==
  \A pos \in from .. (Len(symbols) + 1), level \in Levels :
    read[pos][level] # Failed => Sound(symbols, reading, level, pos, read[pos][level])

\* What the parser joins to one operand means what it read.
LEMMA JoinedIsSound ==
  ASSUME NEW T, NEW symbols \in Seq(T), NEW reading, IsReading(symbols, reading),
         NEW type \in {"AND", "OR"}, NEW pos \in 1 .. Len(symbols),
         NEW result, Sound(symbols, reading, type, pos, result)
  PROVE  LET tr == Chain(type, result.operands)
         IN  /\ Operand(symbols, reading, pos, result.pos - 1, tr)
             /\ type = "AND" => Outer(symbols, pos, result.pos - 1, "OR") = {}
             /\ result # Failed =>
                  Joined(type, result) = Parsed(<<tr>>, result.pos)
<1>1. PICK cuts : Cuts(symbols, reading, type, pos, result.pos - 1, result.operands, cuts)
  BY DEF Sound
<1>2. result.pos - 1 \in 1 .. Len(symbols)
  BY DEF Sound
<1>3. IsSequence(result.operands) /\ Len(result.operands) # 0
  BY DEF Sound
<1> QED
  BY <1>1, <1>2, <1>3, CutsMean DEF Joined

\* A chain of one operand means this operand.
LEMMA OneOperandIsSound ==
  ASSUME NEW T, NEW symbols \in Seq(T), NEW reading, NEW type \in {"AND", "OR"},
         NEW pos \in 1 .. Len(symbols), NEW end \in (pos + 1) .. (Len(symbols) + 1),
         NEW tr, Operand(symbols, reading, pos, end - 1, tr),
         Holds(symbols, pos, end - 1, type)
  PROVE  Sound(symbols, reading, type, pos, Parsed(<<tr>>, end))
<1> DEFINE cuts == [m \in 0 .. 1 |-> IF m = 0 THEN pos - 1 ELSE end]
           ops == <<tr>>
<1>0. Len(symbols) \in Nat
  OBVIOUS
<1>1. /\ cuts \in [0 .. 1 -> 0 .. (Len(symbols) + 1)]
      /\ cuts[0] = pos - 1 /\ cuts[1] = end
  BY <1>0
<1>2. Len(ops) = 1 /\ ops[1] = tr /\ IsSequence(ops)
  BY SequenceFacts
<1>3. /\ (pos - 1) + 1 = pos /\ end = (end - 1) + 1
      /\ \A m \in 1 .. 1 : m = 1 /\ m - 1 = 0
      /\ 1 .. (1 - 1) = {}
  BY <1>0
<1> HIDE DEF cuts, ops
<1>4. Cuts(symbols, reading, type, pos, end - 1, ops, cuts)
  BY <1>1, <1>2, <1>3 DEF Cuts
<1> DEFINE r == Parsed(ops, end)
<1>5. r.operands = ops /\ r.pos = end
  BY FailedIsNot
<1> HIDE DEF r
<1>6. /\ Cuts(symbols, reading, type, pos, r.pos - 1, r.operands, cuts)
      /\ r.pos \in (pos + 1) .. (Len(symbols) + 1)
      /\ IsSequence(r.operands) /\ Len(r.operands) # 0
  <2>1. r.pos \in (pos + 1) .. (Len(symbols) + 1)
    BY <1>5
  <2>2. IsSequence(r.operands) /\ Len(r.operands) # 0
    <3>1. Len(ops) # 0
      BY <1>2
    <3> QED
      BY <1>2, <1>5, <3>1, Zenon
  <2> QED
    BY <2>1, <2>2, <1>4, <1>5, Zenon
<1>7. Sound(symbols, reading, type, pos, r)
  BY <1>6 DEF Sound
<1> QED
  BY <1>7 DEF r, ops

\* One more operand in front of a chain, as the loops of parseAnd and parseOr read it.
LEMMA LoopIsSound ==
  ASSUME NEW T, NEW symbols \in Seq(T), NEW reading, NEW type \in {"AND", "OR"},
         NEW pos \in 1 .. Len(symbols), NEW c \in (pos + 1) .. Len(symbols),
         symbols[c].type = type,
         NEW tr, Operand(symbols, reading, pos, c - 1, tr),
         Holds(symbols, pos, c - 1, type),
         NEW rest, Sound(symbols, reading, type, c + 1, rest)
  PROVE  Sound(symbols, reading, type, pos, Parsed(<<tr>> \o rest.operands, rest.pos))
<1> DEFINE n == Len(rest.operands)
           ops == <<tr>> \o rest.operands
<1>0. Len(symbols) \in Nat /\ n \in Nat /\ n # 0
  BY SequenceFacts DEF Sound
<1>1. PICK old : Cuts(symbols, reading, type, c + 1, rest.pos - 1, rest.operands, old)
  BY DEF Sound
<1> DEFINE cuts == [m \in 0 .. (n + 1) |-> IF m = 0 THEN pos - 1 ELSE old[m - 1]]
<1>2. /\ IsSequence(ops) /\ Len(ops) = n + 1 /\ ops[1] = tr
      /\ \A m \in 2 .. (n + 1) : ops[m] = rest.operands[m - 1]
  BY SequenceFacts DEF Sound
<1>3. /\ old \in [0 .. n -> 0 .. (Len(symbols) + 1)]
      /\ old[0] = c /\ old[n] = (rest.pos - 1) + 1
      /\ \A m \in 1 .. n :
           /\ Operand(symbols, reading, old[m - 1] + 1, old[m] - 1, rest.operands[m])
           /\ Holds(symbols, old[m - 1] + 1, old[m] - 1, type)
      /\ \A m \in 1 .. (n - 1) : symbols[old[m]].type = type
  BY <1>1 DEF Cuts
<1>4. \A m \in 1 .. (n + 1) : m - 1 \in 0 .. n /\ cuts[m] = old[m - 1]
  BY <1>0
<1>5. cuts[0] = pos - 1
  BY <1>0
<1>6. cuts \in [0 .. (n + 1) -> 0 .. (Len(symbols) + 1)]
  BY <1>0, <1>3
<1> HIDE DEF cuts, ops
<1>7. cuts[n + 1] = (rest.pos - 1) + 1
  <2>1. n + 1 \in 1 .. (n + 1) /\ (n + 1) - 1 = n
    BY <1>0
  <2>2. cuts[n + 1] = old[(n + 1) - 1]
    BY <2>1, <1>4
  <2> QED
    BY <2>1, <2>2, <1>3
<1>8. ASSUME NEW m \in 1 .. (n + 1)
      PROVE  /\ Operand(symbols, reading, cuts[m - 1] + 1, cuts[m] - 1, ops[m])
             /\ Holds(symbols, cuts[m - 1] + 1, cuts[m] - 1, type)
  <2>1. CASE m = 1
    <3>1. m - 1 = 0 /\ cuts[m - 1] + 1 = pos /\ cuts[m] = c /\ ops[m] = tr
      BY <2>1, <1>2, <1>3, <1>4, <1>5
    <3> QED
      BY <3>1
  <2>2. CASE m # 1
    <3>1. m - 1 \in 1 .. n /\ m \in 2 .. (n + 1) /\ m - 1 \in 1 .. (n + 1)
      BY <2>2, <1>0
    <3>2. cuts[m] = old[m - 1] /\ cuts[m - 1] = old[(m - 1) - 1] /\ ops[m] = rest.operands[m - 1]
      BY <3>1, <1>2, <1>4
    <3> QED
      BY <3>1, <3>2, <1>3
  <2> QED
    BY <2>1, <2>2
<1>9. ASSUME NEW m \in 1 .. n
      PROVE  symbols[cuts[m]].type = type
  <2>1. cuts[m] = old[m - 1]
    BY <1>4, <1>0
  <2>2. CASE m = 1
    BY <2>1, <2>2, <1>3
  <2>3. CASE m # 1
    <3>1. m - 1 \in 1 .. (n - 1)
      BY <2>3, <1>0
    <3> QED
      BY <3>1, <2>1, <1>3
  <2> QED
    BY <2>2, <2>3
<1>10. Cuts(symbols, reading, type, pos, rest.pos - 1, ops, cuts)
  <2>1. (n + 1) - 1 = n
    BY <1>0
  <2> QED
    BY <1>2, <1>5, <1>6, <1>7, <1>8, <1>9, <2>1 DEF Cuts
<1>11. rest.pos \in (pos + 1) .. (Len(symbols) + 1)
  BY <1>0 DEF Sound
<1> DEFINE r == Parsed(ops, rest.pos)
<1>12. r.operands = ops /\ r.pos = rest.pos
  BY FailedIsNot
<1> HIDE DEF r
<1>13. Sound(symbols, reading, type, pos, r)
  BY <1>0, <1>2, <1>10, <1>11, <1>12 DEF Sound
<1> QED
  BY <1>13 DEF r, ops

\* What parseFrom makes is sound if what is further on is.
LEMMA ParseFromIsSound ==
  ASSUME NEW T, NEW tokens \in Seq(T),
         \A k \in 1 .. Len(tokens) : tokens[k].type \in TokenTypes,
         NEW reading, IsReading(Symbols(tokens), reading),
         NEW pos \in 1 .. (Len(tokens) + 1),
         NEW read, AllSound(Symbols(tokens), reading, read, pos + 1)
  PROVE  \A level \in Levels :
           LET result == parseFrom(tokens, read, pos)[level]
           IN  result # Failed =>
                 Sound(Symbols(tokens), reading, level, pos, result)
<1> DEFINE symbols == Symbols(tokens)
           n == Len(tokens)
<1>1. PICK S : symbols \in Seq(S)
  BY SymbolsAre
<1>2. n \in Nat /\ Len(symbols) = n
  BY SymbolsAre
<1>3. \A k \in 1 .. n :
        /\ \A type \in Operators : symbols[k].type = type <=> Peek(tokens, k) = type
        /\ symbols[k].type = "LEAF" <=> Peek(tokens, k) = "FUNC"
        /\ Peek(tokens, k) = "FUNC" => symbols[k].node = buildLeaf(tokens[k].value)
  BY SymbolsAre
<1>4. IsReading(symbols, reading)
  OBVIOUS
<1>5. \A k \in (pos + 1) .. (n + 1), level \in Levels :
        read[k][level] # Failed => Sound(symbols, reading, level, k, read[k][level])
  BY <1>2 DEF AllSound
<1> HIDE DEF symbols
<1>6. \A k : k \in Nat /\ Peek(tokens, k) # "END" => k <= n
  BY PeekWithin
<1>7. ASSUME pos <= n
      PROVE  /\ Level(symbols, pos, pos) = 0
             /\ \A k \in (pos + 1) .. (n + 1) :
                  /\ Level(symbols, pos, k)
                       = Delta(symbols[pos]) + Level(symbols, pos + 1, k)
                  /\ Level(symbols, pos + 1, k) \in Int
  <2>1. Level(symbols, pos, pos) = 0 /\ Level(symbols, pos, pos + 1) = Delta(symbols[pos])
    BY LevelStep
  <2> SUFFICES ASSUME NEW k \in (pos + 1) .. (n + 1)
               PROVE  /\ Level(symbols, pos, k)
                           = Delta(symbols[pos]) + Level(symbols, pos + 1, k)
                      /\ Level(symbols, pos + 1, k) \in Int
    BY <2>1
  <2>2. Level(symbols, pos, k) = Level(symbols, pos, pos + 1) + Level(symbols, pos + 1, k)
    BY LevelSplit
  <2> QED
    BY <2>1, <2>2, LevelIs
<1> DEFINE unary == parseUnary(tokens, read, pos)
<1>8. ASSUME NEW tr, NEW end \in (pos + 1) .. (n + 1), pos <= n,
             Operand(symbols, reading, pos, end - 1, tr),
             Holds(symbols, pos, end - 1, "AND")
      PROVE  Sound(symbols, reading, "NOT", pos, Parsed(<<tr>>, end))
  <2> DEFINE r == Parsed(<<tr>>, end)
  <2>1. r.operands = <<tr>> /\ r.pos = end
    BY FailedIsNot
  <2>2. IsSequence(<<tr>>) /\ Len(<<tr>>) = 1 /\ <<tr>>[1] = tr
    BY SequenceFacts
  <2> HIDE DEF r
  <2>3. Sound(symbols, reading, "NOT", pos, r)
    BY <1>8, <2>1, <2>2, <1>2 DEF Sound
  <2> QED
    BY <2>3 DEF r
<1>9. unary # Failed => Sound(symbols, reading, "NOT", pos, unary)
  <2> SUFFICES ASSUME unary # Failed
               PROVE  Sound(symbols, reading, "NOT", pos, unary)
    OBVIOUS
  <2>0. pos <= n
    BY <1>6 DEF parseUnary, parsePrimary
  <2>1. CASE Peek(tokens, pos) = "NOT"
    <3> DEFINE child == read[pos + 1]["NOT"]
               tr == NotNode(child.operands[1])
    <3>1. child # Failed /\ unary = Parsed(<<tr>>, child.pos)
      BY <2>1 DEF parseUnary
    <3>2. Sound(symbols, reading, "NOT", pos + 1, child)
      BY <3>1, <2>0, <1>2, <1>5 DEF Levels
    <3> HIDE DEF child
    <3>3. /\ child.pos \in (pos + 2) .. (n + 1)
          /\ Operand(symbols, reading, pos + 1, child.pos - 1, child.operands[1])
          /\ Holds(symbols, pos + 1, child.pos - 1, "AND")
      BY <3>2, <1>2 DEF Sound
    <3> DEFINE j == child.pos - 1
    <3>4. j \in (pos + 1) .. n /\ j + 1 = child.pos
      BY <3>3, <1>2
    <3> HIDE DEF j
    <3>5. symbols[pos].type = "NOT" /\ Delta(symbols[pos]) = 0
      BY <2>0, <2>1, <1>3 DEF Operators, Delta
    <3>6. \A k \in (pos + 1) .. (j + 1) : Level(symbols, pos, k) = Level(symbols, pos + 1, k)
      BY <3>4, <3>5, <1>7, <2>0, <1>2, SMTT(30)
    <3>7. /\ Outer(symbols, pos + 1, j, "OR") = {} /\ Outer(symbols, pos + 1, j, "AND") = {}
          /\ Operand(symbols, reading, pos + 1, j, child.operands[1])
      BY <3>3 DEF Holds, j
    <3>8. Outer(symbols, pos, j, "OR") = {} /\ Outer(symbols, pos, j, "AND") = {}
      <4>1. \A k \in pos .. j : k = pos \/ k \in (pos + 1) .. (j + 1)
        BY <3>4
      <4> QED
        BY <4>1, <3>5, <3>6, <3>7 DEF Outer
    <3>9. reading[pos][j] = tr
      <4>1. reading[pos][j] = Read(symbols, reading, pos, j)
        BY <1>4, <1>2, <3>4, <2>0 DEF IsReading
      <4>2. reading[pos][j] = Unsplit(symbols, reading, pos, j)
        BY <4>1, <3>4, <3>8 DEF Read
      <4> QED
        BY <4>2, <3>5, <3>7 DEF Unsplit, Operand
    <3>10. \A k \in pos .. (j + 1) : Level(symbols, pos, k) >= 0
      BY <3>6, <3>7, <3>4, <1>7, <2>0 DEF Operand
    <3>11. Level(symbols, pos, j + 1) = 0
      BY <3>6, <3>7, <3>4 DEF Operand
    <3>12. Operand(symbols, reading, pos, j, tr)
      BY <3>9, <3>10, <3>11, <3>4, NodesAreValid DEF Operand
    <3>13. Holds(symbols, pos, j, "AND")
      BY <3>8 DEF Holds
    <3> HIDE DEF tr, unary
    <3> QED
      BY <3>1, <3>3, <3>12, <3>13, <1>8, <2>0, <1>2 DEF j
  <2>2. CASE Peek(tokens, pos) = "FUNC"
    <3> DEFINE tr == buildLeaf(tokens[pos].value)
    <3>1. tr # Invalid /\ unary = Parsed(<<tr>>, pos + 1)
      BY <2>2 DEF parseUnary, parsePrimary
    <3>2. symbols[pos].type = "LEAF" /\ symbols[pos].node = tr /\ Delta(symbols[pos]) = 0
      BY <2>0, <2>2, <1>3 DEF Delta
    <3> HIDE DEF tr, unary
    <3>3. Outer(symbols, pos, pos, "OR") = {} /\ Outer(symbols, pos, pos, "AND") = {}
      BY <3>2 DEF Outer
    <3>4. reading[pos][pos] = tr
      <4>1. reading[pos][pos] = Read(symbols, reading, pos, pos)
        BY <1>4, <1>2, <2>0 DEF IsReading
      <4>2. reading[pos][pos] = Unsplit(symbols, reading, pos, pos)
        BY <4>1, <3>3 DEF Read
      <4> QED
        BY <4>2, <3>2 DEF Unsplit
    <3>5. Level(symbols, pos, pos) = 0 /\ Level(symbols, pos, pos + 1) = 0
      BY <3>2, LevelStep
    <3>6. \A k \in pos .. (pos + 1) : k = pos \/ k = pos + 1
      OBVIOUS
    <3>7. Operand(symbols, reading, pos, pos, tr)
      BY <3>1, <3>4, <3>5, <3>6 DEF Operand
    <3>8. Holds(symbols, pos, pos, "AND") /\ (pos + 1) - 1 = pos
      BY <3>3 DEF Holds
    <3> QED
      BY <3>1, <3>7, <3>8, <1>8, <2>0, <1>2
  <2>3. CASE Peek(tokens, pos) = "LPAREN"
    <3> DEFINE inner == read[pos + 1]["OR"]
               group == Joined("OR", inner)
               tr == Chain("OR", inner.operands)
    <3>1. /\ inner # Failed /\ Peek(tokens, group.pos) = "RPAREN"
          /\ unary = Parsed(group.operands, group.pos + 1)
      BY <2>3, FailedIsNot DEF parseUnary, parsePrimary
    <3>2. Sound(symbols, reading, "OR", pos + 1, inner)
      BY <3>1, <2>0, <1>2, <1>5 DEF Levels
    <3> DEFINE c == inner.pos
    <3>3. group = Parsed(<<tr>>, c)
      BY <3>1 DEF Joined
    <3>4. group.pos = c /\ group.operands = <<tr>>
      BY <3>3, FailedIsNot
    <3> HIDE DEF inner, group, unary
    <3>5. c \in (pos + 2) .. (n + 1)
      BY <3>2, <1>2 DEF Sound
    <3>6. c \in (pos + 2) .. n
      BY <3>1, <3>4, <3>5, <1>6, <1>2
    <3>7. Operand(symbols, reading, pos + 1, c - 1, tr)
      <4>1. pos + 1 \in 1 .. Len(symbols)
        BY <3>6, <1>2
      <4> QED
        BY <4>1, <3>2, <1>1, <1>4, JoinedIsSound
    <3> HIDE DEF tr, c
    <3>8. /\ symbols[pos].type = "LPAREN" /\ Delta(symbols[pos]) = 1
          /\ symbols[c].type = "RPAREN" /\ Delta(symbols[c]) = -1
      BY <2>0, <2>3, <3>1, <3>4, <3>6, <1>3 DEF Operators, Delta
    <3>9. \A k \in (pos + 1) .. c : Level(symbols, pos, k) >= 1
      <4>1. \A k \in (pos + 1) .. c : Level(symbols, pos + 1, k) >= 0
        BY <3>7, <3>6 DEF Operand
      <4> QED
        BY <4>1, <3>6, <3>8, <1>7, <2>0, <1>2
    <3>10. Level(symbols, pos, c + 1) = 0
      <4>1. Level(symbols, pos + 1, c) = 0
        BY <3>7, <3>6 DEF Operand
      <4>2. Level(symbols, pos, c) = 1
        BY <4>1, <3>8, <3>6, <1>7, <2>0, <1>2, SMTT(30)
      <4>3. Level(symbols, c, c + 1) = -1
        BY <3>8, <3>6, LevelStep
      <4> QED
        BY <4>2, <4>3, <3>6, LevelSplit
    <3>11. Outer(symbols, pos, c, "OR") = {} /\ Outer(symbols, pos, c, "AND") = {}
      <4>1. \A k \in pos .. c : k = pos \/ k \in (pos + 1) .. c
        BY <3>6
      <4>2. \A k \in (pos + 1) .. c : Level(symbols, pos, k) # 0
        BY <3>9
      <4> QED
        BY <4>1, <4>2, <3>8 DEF Outer
    <3>12. reading[pos][c] = tr
      <4>1. reading[pos][c] = Read(symbols, reading, pos, c)
        BY <1>4, <1>2, <3>6, <2>0 DEF IsReading
      <4>2. reading[pos][c] = Unsplit(symbols, reading, pos, c)
        BY <4>1, <3>6, <3>11 DEF Read
      <4> QED
        BY <4>2, <3>7, <3>8 DEF Unsplit, Operand
    <3>13. \A k \in pos .. (c + 1) : Level(symbols, pos, k) >= 0
      <4>1. \A k \in pos .. (c + 1) : k = pos \/ k = c + 1 \/ k \in (pos + 1) .. c
        BY <3>6
      <4>2. \A k \in (pos + 1) .. c : Level(symbols, pos, k) \in Int
        BY LevelIs
      <4> QED
        BY <4>1, <4>2, <3>9, <3>10, <1>7, <2>0
    <3>14. Operand(symbols, reading, pos, c, tr)
      BY <3>7, <3>10, <3>12, <3>13, <3>6 DEF Operand
    <3>15. Holds(symbols, pos, c, "AND") /\ (c + 1) - 1 = c /\ c + 1 \in (pos + 1) .. (n + 1)
      BY <3>11, <3>6 DEF Holds
    <3> QED
      BY <3>1, <3>4, <3>14, <3>15, <1>8, <2>0
  <2> QED
    BY <2>1, <2>2, <2>3 DEF parseUnary, parsePrimary
<1> HIDE DEF unary
<1> DEFINE and == parseLoop(tokens, read, "AND", unary)
           operand == Joined("AND", and)
           or == parseLoop(tokens, read, "OR", operand)
<1>10. ASSUME NEW type \in {"AND", "OR"}, NEW tr, NEW end \in (pos + 1) .. (n + 1),
              pos <= n,
              Operand(symbols, reading, pos, end - 1, tr),
              Holds(symbols, pos, end - 1, type),
              parseLoop(tokens, read, type, Parsed(<<tr>>, end)) # Failed
       PROVE  Sound(symbols, reading, type, pos,
                    parseLoop(tokens, read, type, Parsed(<<tr>>, end)))
  <2> DEFINE first == Parsed(<<tr>>, end)
  <2>1. first # Failed /\ first.operands = <<tr>> /\ first.pos = end
    BY FailedIsNot
  <2>2. CASE Peek(tokens, end) # type
    <3>1. parseLoop(tokens, read, type, first) = first
      BY <2>1, <2>2 DEF parseLoop
    <3>2. pos \in 1 .. Len(symbols) /\ end \in (pos + 1) .. (Len(symbols) + 1)
      BY <1>2, <1>10
    <3>3. Sound(symbols, reading, type, pos, first)
      BY <3>2, <1>10, <1>1, OneOperandIsSound
    <3> QED
      BY <3>1, <3>3
  <2>3. CASE Peek(tokens, end) = type
    <3> DEFINE rest == read[end + 1][type]
    <3> HIDE DEF first
    <3>1. /\ rest # Failed
          /\ parseLoop(tokens, read, type, first) = Parsed(<<tr>> \o rest.operands, rest.pos)
      BY <2>1, <2>3, <1>10 DEF parseLoop, first
    <3>2. end <= n
      BY <2>3, <1>6
    <3>3. Sound(symbols, reading, type, end + 1, rest)
      BY <3>1, <3>2, <1>5 DEF Levels
    <3>4. symbols[end].type = type
      BY <2>3, <3>2, <1>3 DEF Operators
    <3> HIDE DEF rest
    <3>5. Sound(symbols, reading, type, pos, Parsed(<<tr>> \o rest.operands, rest.pos))
      <4>1. pos \in 1 .. Len(symbols) /\ end \in (pos + 1) .. Len(symbols)
        BY <3>2, <1>2, <1>10
      <4> QED
        BY <4>1, <3>3, <3>4, <1>10, <1>1, LoopIsSound
    <3> QED
      BY <3>1, <3>5 DEF first
  <2> QED
    BY <2>2, <2>3
<1>11. and # Failed => /\ unary # Failed /\ pos <= n
                       /\ Sound(symbols, reading, "AND", pos, and)
  <2> SUFFICES ASSUME and # Failed
               PROVE  /\ unary # Failed /\ pos <= n
                      /\ Sound(symbols, reading, "AND", pos, and)
    OBVIOUS
  <2>1. unary # Failed
    BY DEF parseLoop
  <2>2. Sound(symbols, reading, "NOT", pos, unary)
    BY <2>1, <1>9
  <2>3. unary.pos \in (pos + 1) .. (n + 1) /\ pos <= n
    BY <2>2, <1>2 DEF Sound
  <2>4. PICK tr : unary = Parsed(<<tr>>, unary.pos) /\ tr = unary.operands[1]
    <3>1. PICK tr, end : unary = Parsed(<<tr>>, end)
      <4>1. CASE Peek(tokens, pos) = "NOT"
        BY <4>1, <2>1 DEF unary, parseUnary
      <4>2. CASE Peek(tokens, pos) = "FUNC"
        BY <4>2, <2>1 DEF unary, parseUnary, parsePrimary
      <4>3. CASE Peek(tokens, pos) = "LPAREN"
        <5> DEFINE inner == read[pos + 1]["OR"]
                   group == Joined("OR", inner)
        <5>1. group # Failed /\ unary = Parsed(group.operands, group.pos + 1)
          BY <4>3, <2>1 DEF unary, parseUnary, parsePrimary
        <5>2. group = Parsed(<<Chain("OR", inner.operands)>>, inner.pos)
          BY <5>1 DEF Joined
        <5>3. group.operands = <<Chain("OR", inner.operands)>>
          BY <5>2, FailedIsNot
        <5> QED
          BY <5>1, <5>3
      <4> QED
        BY <4>1, <4>2, <4>3, <2>1 DEF unary, parseUnary, parsePrimary
    <3>2. unary.pos = end /\ unary.operands = <<tr>>
      <4>1. Parsed(<<tr>>, end).pos = end /\ Parsed(<<tr>>, end).operands = <<tr>>
        BY FailedIsNot
      <4> QED
        BY <3>1, <4>1
    <3>3. <<tr>>[1] = tr
      OBVIOUS
    <3> QED
      BY <3>1, <3>2, <3>3
  <2>5. /\ Operand(symbols, reading, pos, unary.pos - 1, tr)
        /\ Holds(symbols, pos, unary.pos - 1, "AND")
    BY <2>2, <2>4 DEF Sound
  <2> QED
    BY <2>1, <2>3, <2>4, <2>5, <1>10
<1>12. or # Failed => Sound(symbols, reading, "OR", pos, or)
  <2> SUFFICES ASSUME or # Failed
               PROVE  Sound(symbols, reading, "OR", pos, or)
    BY Zenon
  <2>1. and # Failed
    BY Zenon DEF parseLoop, Joined
  <2>2. Sound(symbols, reading, "AND", pos, and) /\ pos <= n
    BY <2>1, <1>11
  <2> DEFINE tr == Chain("AND", and.operands)
  <2> HIDE DEF and
  <2>3. /\ Operand(symbols, reading, pos, and.pos - 1, tr)
        /\ Outer(symbols, pos, and.pos - 1, "OR") = {}
        /\ operand = Parsed(<<tr>>, and.pos)
    <3>1. pos \in 1 .. Len(symbols)
      BY <2>2, <1>2
    <3> QED
      BY <3>1, <2>1, <2>2, <1>1, <1>4, JoinedIsSound DEF tr
  <2>4. and.pos \in (pos + 1) .. (n + 1)
    BY <2>2, <1>2 DEF Sound
  <2>5. Holds(symbols, pos, and.pos - 1, "OR")
    BY <2>3 DEF Holds
  <2> HIDE DEF tr, operand
  <2> QED
    BY <2>2, <2>3, <2>4, <2>5, <1>10
<1>13. \A level \in Levels :
        parseFrom(tokens, read, pos)[level]
          = IF level = "NOT" THEN unary ELSE IF level = "AND" THEN and ELSE or
  BY DEF parseFrom, Levels, unary
<1> QED
  BY <1>13, <1>9, <1>11, <1>12 DEF Levels, symbols

\* What the parser reads, at every position and level, means the tree it makes of it.
LEMMA ParserIsSound ==
  ASSUME NEW T, NEW tokens \in Seq(T),
         \A k \in 1 .. Len(tokens) : tokens[k].type \in TokenTypes,
         NEW reading, IsReading(Symbols(tokens), reading),
         NEW read, ParsesFrom(tokens, read, 1)
  PROVE  AllSound(Symbols(tokens), reading, read, 1)
<1> DEFINE n == Len(tokens)
           Fine == {pos \in 1 .. (n + 1) : AllSound(Symbols(tokens), reading, read, pos)}
<1>0. n \in Nat /\ Len(Symbols(tokens)) = n
  BY SymbolsAre
<1>1. \A pos \in 1 .. (n + 1) : read[pos] = parseFrom(tokens, read, pos)
  BY DEF ParsesFrom
<1>2. ASSUME NEW pos \in 1 .. (n + 1), AllSound(Symbols(tokens), reading, read, pos + 1)
      PROVE  pos \in Fine
  <2>1. \A level \in Levels :
          read[pos][level] # Failed =>
            Sound(Symbols(tokens), reading, level, pos, read[pos][level])
    BY <1>1, <1>2, ParseFromIsSound
  <2>2. AllSound(Symbols(tokens), reading, read, pos)
    <3>1. \A k \in pos .. (n + 1) : k = pos \/ k \in (pos + 1) .. (n + 1)
      OBVIOUS
    <3> QED
      BY <2>1, <3>1, <1>0, <1>2 DEF AllSound
  <2> QED
    BY <2>2
<1>3. n + 1 \in Fine
  <2>1. AllSound(Symbols(tokens), reading, read, (n + 1) + 1)
    BY <1>0 DEF AllSound
  <2> QED
    BY <2>1, <1>2, <1>0
<1>4. \A pos \in 1 .. n : pos + 1 \in Fine => pos \in Fine
  BY <1>2, <1>0
<1>5. 1 \in Fine
  <2>1. 1 .. (n + 1) \subseteq Fine
    <3> HIDE DEF Fine
    <3> QED
      BY <1>0, <1>3, <1>4, InductionDown
  <2> HIDE DEF Fine
  <2> QED
    BY <2>1, <1>0
<1> QED
  BY <1>5

-------------------------------------------------------------------------------
(* Splitting at the first operator.                                         *)

\* The operators of a range are those of its two parts, where the level is 0.
LEMMA OuterParts ==
  ASSUME NEW symbols, NEW i \in Int, NEW j \in Int, NEW c \in i .. j,
         Level(symbols, i, c + 1) = 0, NEW type
  PROVE  /\ Outer(symbols, i, c - 1, type)
              = {k \in Outer(symbols, i, j, type) : k < c}
         /\ Outer(symbols, c + 1, j, type)
              = {k \in Outer(symbols, i, j, type) : k > c}
<1>1. \A k \in (c + 1) .. j : Level(symbols, i, k) = Level(symbols, c + 1, k)
  <2> SUFFICES ASSUME NEW k \in (c + 1) .. j
               PROVE  Level(symbols, i, k) = Level(symbols, c + 1, k)
    OBVIOUS
  <2>1. Level(symbols, i, k) = Level(symbols, i, c + 1) + Level(symbols, c + 1, k)
    BY LevelSplit
  <2> QED
    BY <2>1, LevelIs
<1>2. \A k : k \in i .. (c - 1) <=> k \in i .. j /\ k < c
  OBVIOUS
<1>3. \A k : k \in (c + 1) .. j <=> k \in i .. j /\ k > c
  OBVIOUS
<1> QED
  BY <1>1, <1>2, <1>3 DEF Outer

\* An operator that stands outside of parentheses leaves none open.
LEMMA OuterClosed ==
  ASSUME NEW symbols, NEW i \in Int, NEW j \in Int, NEW type \in {"AND", "OR"},
         NEW c \in Outer(symbols, i, j, type)
  PROVE  c \in i .. j /\ symbols[c].type = type /\ Level(symbols, i, c + 1) = 0
<1>1. c \in i .. j /\ symbols[c].type = type /\ Level(symbols, i, c) = 0
  BY DEF Outer
<1>2. Level(symbols, c, c + 1) = 0
  BY <1>1, LevelStep DEF Delta
<1> QED
  BY <1>1, <1>2, LevelSplit

\* What can be read by its last operator can be read by its first as well.
FirstSplit(symbols, reading, type, i, c, j) ==
  /\ c \in Outer(symbols, i, j, type)
  /\ reading[i][c - 1] # Invalid
  /\ Holds(symbols, i, c - 1, type)
  /\ reading[c + 1][j] # Invalid
  /\ type = "AND" => Outer(symbols, c + 1, j, "OR") = {}

\* What has a meaning and an operator is an operand, the first operator of its kind,
\* and the rest: the code splits at the first, the meaning at the last.
LEMMA SplitAtFirst ==
  ASSUME NEW T, NEW symbols \in Seq(T), NEW reading, IsReading(symbols, reading),
         NEW i \in 1 .. (Len(symbols) + 1), NEW type \in {"AND", "OR"}
  PROVE  \A j \in 0 .. Len(symbols) :
           /\ reading[i][j] # Invalid
           /\ Outer(symbols, i, j, type) # {}
           /\ type = "AND" => Outer(symbols, i, j, "OR") = {}
           => \E c \in i .. j : FirstSplit(symbols, reading, type, i, c, j)
<1> DEFINE n == Len(symbols)
           P(j) == /\ reading[i][j] # Invalid
                   /\ Outer(symbols, i, j, type) # {}
                   /\ type = "AND" => Outer(symbols, i, j, "OR") = {}
                   => \E c \in i .. j : FirstSplit(symbols, reading, type, i, c, j)
           D == {j \in 0 .. n : \A k \in 0 .. j : P(k)}
<1>0. n \in Nat
  OBVIOUS
<1>1. ASSUME NEW j \in 0 .. n, \A k \in 0 .. (j - 1) : P(k),
             reading[i][j] # Invalid, Outer(symbols, i, j, type) # {},
             type = "AND" => Outer(symbols, i, j, "OR") = {}
      PROVE  \E c \in i .. j : FirstSplit(symbols, reading, type, i, c, j)
  <2> DEFINE m == Max(Outer(symbols, i, j, type))
  <2>1. /\ m \in Outer(symbols, i, j, type) /\ m \in i .. j
        /\ \A k \in Outer(symbols, i, j, type) : k <= m
    BY <1>1, OuterIsIn
  <2>2. reading[i][j] = Split(reading, type, i, m, j)
    <3>1. reading[i][j] = Read(symbols, reading, i, j)
      BY DEF IsReading
    <3>2. i <= j
      BY <2>1
    <3>3. CASE type = "OR"
      BY <3>1, <3>2, <3>3, <1>1 DEF Read
    <3>4. CASE type = "AND"
      BY <3>1, <3>2, <3>4, <1>1 DEF Read
    <3> QED
      BY <3>3, <3>4
  <2> HIDE DEF m
  <2>3. /\ reading[i][m - 1] # Invalid /\ reading[m + 1][j] # Invalid
    BY <2>2, <1>1 DEF Split
  <2>4. Level(symbols, i, m + 1) = 0 /\ symbols[m].type = type
    BY <2>1, OuterClosed
  <2>5. \A t : /\ Outer(symbols, i, m - 1, t) = {k \in Outer(symbols, i, j, t) : k < m}
               /\ Outer(symbols, m + 1, j, t) = {k \in Outer(symbols, i, j, t) : k > m}
    BY <2>1, <2>4, OuterParts
  <2>6. \A k \in Outer(symbols, i, j, type) : k \in Int
    BY DEF Outer
  <2>7. /\ Outer(symbols, m + 1, j, type) = {}
        /\ type = "AND" => /\ Outer(symbols, i, m - 1, "OR") = {}
                           /\ Outer(symbols, m + 1, j, "OR") = {}
    BY <2>1, <2>5, <2>6, <1>1
  <2>8. CASE Outer(symbols, i, m - 1, type) = {}
    <3>1. FirstSplit(symbols, reading, type, i, m, j)
      BY <2>1, <2>3, <2>7, <2>8 DEF FirstSplit, Holds
    <3> QED
      BY <3>1, <2>1
  <2>9. CASE Outer(symbols, i, m - 1, type) # {}
    <3>1. m - 1 \in 0 .. (j - 1) /\ m - 1 \in 0 .. n
      BY <2>1, <1>0
    <3>2. P(m - 1)
      BY <3>1, <1>1
    <3>3. PICK c \in i .. (m - 1) : FirstSplit(symbols, reading, type, i, c, m - 1)
      BY <3>2, <2>3, <2>7, <2>9
    <3>4. c \in Outer(symbols, i, j, type) /\ c \in i .. j /\ c < m
      <4>1. c \in Outer(symbols, i, m - 1, type)
        BY <3>3 DEF FirstSplit
      <4> QED
        BY <4>1, <2>5, <2>1
    <3>5. Level(symbols, i, c + 1) = 0
      BY <3>4, OuterClosed
    <3>6. reading[c + 1][m - 1] # Invalid
      BY <3>3 DEF FirstSplit
    <3>7. /\ c + 1 \in 1 .. (n + 1) /\ m + 1 \in 1 .. (n + 1)
          /\ Operand(symbols, reading, c + 1, m - 1, reading[c + 1][m - 1])
          /\ Operand(symbols, reading, m + 1, j, reading[m + 1][j])
      BY <3>1, <3>4, <3>6, <2>1, <2>3, <1>0, ValidIsOperand
    <3>8. type = "AND" => /\ Outer(symbols, c + 1, m - 1, "OR") = {}
                          /\ Outer(symbols, c + 1, j, "OR") = {}
      <4>1. Outer(symbols, c + 1, j, "OR") = {k \in Outer(symbols, i, j, "OR") : k > c}
        BY <3>4, <3>5, OuterParts
      <4> QED
        BY <4>1, <1>1, <3>3 DEF FirstSplit
    <3>9. c + 1 <= m - 1 /\ m + 1 <= j
      BY <3>7 DEF Operand
    <3>10. Operand(symbols, reading, c + 1, j,
                   Binary(type, reading[c + 1][m - 1], reading[m + 1][j]))
      <4>1. c + 1 \in 1 .. n /\ j \in 1 .. n /\ m \in ((c + 1) + 1) .. (j - 1)
        BY <3>9, <2>1, <3>4, <1>0
      <4> QED
        BY <4>1, <3>7, <3>8, <2>4, <2>7, JoinOperands
    <3>11. reading[c + 1][j] # Invalid
      BY <3>10 DEF Operand
    <3>12. FirstSplit(symbols, reading, type, i, c, j)
      BY <3>3, <3>4, <3>8, <3>11 DEF FirstSplit
    <3> QED
      BY <3>4, <3>12
  <2> QED
    BY <2>8, <2>9
<1>2. ASSUME NEW j \in 0 .. n, \A k \in 0 .. (j - 1) : P(k)
      PROVE  P(j)
  BY <1>1, <1>2
<1>3. 0 \in D
  <2>1. P(0)
    <3>1. \A k \in 0 .. (0 - 1) : P(k)
      OBVIOUS
    <3> HIDE DEF P
    <3> QED
      BY <3>1, <1>2, <1>0
  <2> HIDE DEF P
  <2> QED
    BY <2>1, <1>0
<1>4. ASSUME NEW j \in 0 .. (n - 1), j \in D
      PROVE  j + 1 \in D
  <2> HIDE DEF P
  <2>1. \A k \in 0 .. ((j + 1) - 1) : P(k)
    BY <1>4
  <2>2. P(j + 1) /\ j + 1 \in 0 .. n
    BY <2>1, <1>2, <1>0
  <2>3. \A k \in 0 .. (j + 1) : k = j + 1 \/ k \in 0 .. j
    OBVIOUS
  <2> QED
    BY <2>2, <2>3, <1>4
<1>5. 0 .. n \subseteq D
  <2> HIDE DEF D
  <2> QED
    BY <1>0, <1>3, <1>4, InductionUpTo
<1>6. \A j \in 0 .. n : P(j)
  <2> HIDE DEF P
  <2> QED
    BY <1>5, <1>0
<1> QED
  BY <1>6

-------------------------------------------------------------------------------
(* The parser reads whatever has a meaning.                                 *)

Reads(read, level, i, j) == read[i][level] # Failed /\ read[i][level].pos = j + 1

\* What the symbols i to j mean is read at each level that they can be read at.
IsRead(tokens, read, i, j) ==
  LET symbols == Symbols(tokens)
  IN  /\ Holds(symbols, i, j, "AND") => Reads(read, "NOT", i, j)
      /\ Outer(symbols, i, j, "OR") = {} /\ Peek(tokens, j + 1) # "AND"
           => Reads(read, "AND", i, j)
      /\ Peek(tokens, j + 1) \notin {"AND", "OR"} => Reads(read, "OR", i, j)

\* The parser reads whatever has a meaning, if it does so with all shorter ranges.
LEMMA ParserReads ==
  ASSUME NEW T, NEW tokens \in Seq(T),
         \A k \in 1 .. Len(tokens) : tokens[k].type \in TokenTypes,
         NEW reading, IsReading(Symbols(tokens), reading),
         NEW read, ParsesFrom(tokens, read, 1),
         NEW i \in 1 .. (Len(tokens) + 1), NEW j \in 0 .. Len(tokens),
         reading[i][j] # Invalid,
         \A k \in 1 .. (Len(tokens) + 1), m \in 0 .. Len(tokens) :
           m - k < j - i /\ reading[k][m] # Invalid => IsRead(tokens, read, k, m)
  PROVE  IsRead(tokens, read, i, j)
<1> DEFINE symbols == Symbols(tokens)
           n == Len(tokens)
<1>1. PICK S : symbols \in Seq(S)
  BY SymbolsAre
<1>2. n \in Nat /\ Len(symbols) = n
  BY SymbolsAre
<1>3. \A k \in 1 .. n :
        /\ \A type \in Operators : symbols[k].type = type <=> Peek(tokens, k) = type
        /\ symbols[k].type = "LEAF" <=> Peek(tokens, k) = "FUNC"
        /\ Peek(tokens, k) = "FUNC" => symbols[k].node = buildLeaf(tokens[k].value)
  BY SymbolsAre
<1>4. IsReading(symbols, reading)
  OBVIOUS
<1>5. ASSUME NEW k \in 1 .. (n + 1), NEW m \in 0 .. n, m - k < j - i,
             reading[k][m] # Invalid
      PROVE  /\ Holds(symbols, k, m, "AND") => Reads(read, "NOT", k, m)
             /\ Outer(symbols, k, m, "OR") = {} /\ Peek(tokens, m + 1) # "AND"
                  => Reads(read, "AND", k, m)
             /\ Peek(tokens, m + 1) \notin {"AND", "OR"} => Reads(read, "OR", k, m)
  <2>1. IsRead(tokens, read, k, m)
    BY <1>5
  <2> QED
    BY <2>1 DEF IsRead
<1> HIDE DEF symbols
<1>6. i <= j /\ i \in 1 .. n /\ j \in 1 .. n
  <2>1. Operand(symbols, reading, i, j, reading[i][j])
    BY <1>1, <1>2, <1>4, ValidIsOperand
  <2> QED
    BY <2>1, <1>2 DEF Operand
<1>7. read[i] = parseFrom(tokens, read, i)
  BY <1>6, <1>2 DEF ParsesFrom
<1> DEFINE unary == parseUnary(tokens, read, i)
           and == parseLoop(tokens, read, "AND", unary)
           operand == Joined("AND", and)
           or == parseLoop(tokens, read, "OR", operand)
<1>8. read[i]["NOT"] = unary /\ read[i]["AND"] = and /\ read[i]["OR"] = or
  BY <1>7 DEF parseFrom
<1>9. ASSUME Holds(symbols, i, j, "AND")
      PROVE  unary # Failed /\ unary.pos = j + 1
  <2>1. reading[i][j] = Unsplit(symbols, reading, i, j)
    <3>1. reading[i][j] = Read(symbols, reading, i, j)
      BY <1>2, <1>4, <1>6 DEF IsReading
    <3> QED
      BY <3>1, <1>6, <1>9 DEF Read, Holds
  <2>2. CASE symbols[i].type = "NOT"
    <3>1. Peek(tokens, i) = "NOT"
      BY <2>2, <1>3, <1>6 DEF Operators
    <3>2. reading[i + 1][j] # Invalid
      BY <2>1, <2>2 DEF Unsplit
    <3>3. Holds(symbols, i + 1, j, "AND")
      <4>1. Level(symbols, i, i + 1) = 0
        BY <2>2, LevelStep DEF Delta
      <4>2. \A t : Outer(symbols, i + 1, j, t) = {k \in Outer(symbols, i, j, t) : k > i}
        BY <4>1, <1>6, OuterParts
      <4> QED
        BY <4>2, <1>9 DEF Holds
    <3>4. Reads(read, "NOT", i + 1, j)
      BY <3>2, <3>3, <1>2, <1>5, <1>6
    <3>5. unary = Parsed(<<NotNode(read[i + 1]["NOT"].operands[1])>>, j + 1)
      BY <3>1, <3>4 DEF parseUnary, Reads
    <3> HIDE DEF unary
    <3> QED
      BY <3>5, <1>6, FailedIsNot
  <2>3. CASE symbols[i].type = "LPAREN" /\ symbols[j].type = "RPAREN"
    <3>1. Peek(tokens, i) = "LPAREN" /\ Peek(tokens, j) = "RPAREN"
      BY <2>3, <1>3, <1>6 DEF Operators
    <3>2. reading[i + 1][j - 1] # Invalid
      BY <2>1, <2>3 DEF Unsplit
    <3>3. Reads(read, "OR", i + 1, j - 1)
      <4>1. i + 1 \in 1 .. (n + 1) /\ j - 1 \in 0 .. n /\ (j - 1) + 1 = j
            /\ (j - 1) - (i + 1) < j - i
        BY <1>2, <1>6
      <4> QED
        BY <4>1, <3>1, <3>2, <1>5
    <3> DEFINE group == Joined("OR", read[i + 1]["OR"])
    <3>4. group.pos = j /\ group # Failed
      <4>1. read[i + 1]["OR"] # Failed /\ read[i + 1]["OR"].pos = j
        BY <3>3, <1>6 DEF Reads
      <4>2. group.pos = j
        BY <4>1, FailedIsNot
      <4> QED
        BY <4>2, <1>6, FailedIsNot
    <3>5. unary = Parsed(group.operands, j + 1)
      BY <3>1, <3>4 DEF parseUnary, parsePrimary
    <3> HIDE DEF unary
    <3> QED
      BY <3>5, <1>6, FailedIsNot
  <2>4. CASE symbols[i].type = "LEAF" /\ i = j
    <3>1. Peek(tokens, i) = "FUNC" /\ symbols[i].node = buildLeaf(tokens[i].value)
      BY <2>4, <1>3, <1>6
    <3>2. buildLeaf(tokens[i].value) # Invalid
      BY <3>1, <2>1, <2>4 DEF Unsplit
    <3>3. unary = Parsed(<<buildLeaf(tokens[i].value)>>, j + 1)
      BY <3>1, <3>2, <2>4 DEF parseUnary, parsePrimary
    <3> HIDE DEF unary
    <3> QED
      BY <3>3, <1>6, FailedIsNot
  <2> QED
    BY <2>1, <2>2, <2>3, <2>4 DEF Unsplit
<1> HIDE DEF unary
<1>10. ASSUME NEW type \in {"AND", "OR"}, NEW first, Peek(tokens, j + 1) # type,
              type = "AND" => Outer(symbols, i, j, "OR") = {},
              Outer(symbols, i, j, type) = {} => first # Failed /\ first.pos = j + 1,
              \A c \in i .. j : FirstSplit(symbols, reading, type, i, c, j) =>
                /\ first # Failed /\ first.pos = c
                /\ Reads(read, type, c + 1, j)
       PROVE  /\ parseLoop(tokens, read, type, first) # Failed
              /\ parseLoop(tokens, read, type, first).pos = j + 1
  <2>1. CASE Outer(symbols, i, j, type) = {}
    BY <2>1, <1>10 DEF parseLoop
  <2>2. CASE Outer(symbols, i, j, type) # {}
    <3>1. PICK c \in i .. j : FirstSplit(symbols, reading, type, i, c, j)
      <4>1. i \in 1 .. (Len(symbols) + 1) /\ j \in 0 .. Len(symbols)
        BY <1>2
      <4> QED
        BY <4>1, <2>2, <1>10, <1>1, <1>4, SplitAtFirst
    <3>2. first # Failed /\ first.pos = c /\ Reads(read, type, c + 1, j)
      BY <3>1, <1>10
    <3>3. symbols[c].type = type
      BY <3>1 DEF FirstSplit, Outer
    <3>4. Peek(tokens, c) = type
      BY <3>3, <1>3, <1>6 DEF Operators
    <3>5. parseLoop(tokens, read, type, first)
            = Parsed(first.operands \o read[c + 1][type].operands, j + 1)
      BY <3>2, <3>4 DEF parseLoop, Reads
    <3> QED
      BY <3>5, <1>6, FailedIsNot
  <2> QED
    BY <2>1, <2>2
<1>11. ASSUME Outer(symbols, i, j, "OR") = {}, Peek(tokens, j + 1) # "AND"
       PROVE  and # Failed /\ and.pos = j + 1
  <2>1. Outer(symbols, i, j, "AND") = {} => unary # Failed /\ unary.pos = j + 1
    BY <1>9, <1>11 DEF Holds
  <2>2. ASSUME NEW c \in i .. j, FirstSplit(symbols, reading, "AND", i, c, j)
        PROVE  /\ unary # Failed /\ unary.pos = c
               /\ Reads(read, "AND", c + 1, j)
    <3>0. c \in 1 .. n /\ c \in i .. j
      BY <1>2, <1>6
    <3>1. /\ c - 1 \in 0 .. n /\ (c - 1) - i < j - i /\ (c - 1) + 1 = c
          /\ c + 1 \in 1 .. (n + 1) /\ j - (c + 1) < j - i
      BY <1>2, <1>6, <3>0
    <3>2. Reads(read, "NOT", i, c - 1)
      BY <3>1, <2>2, <1>5 DEF FirstSplit
    <3>3. Reads(read, "AND", c + 1, j)
      BY <3>1, <2>2, <1>5, <1>11 DEF FirstSplit
    <3> QED
      BY <3>1, <3>2, <3>3, <1>8 DEF Reads
  <2> QED
    BY <2>1, <2>2, <1>10, <1>11
<1> HIDE DEF and
<1>12. ASSUME Peek(tokens, j + 1) \notin {"AND", "OR"}
       PROVE  or # Failed /\ or.pos = j + 1
  <2>0. \A m \in Nat : and # Failed /\ and.pos = m + 1 =>
                         operand # Failed /\ operand.pos = m + 1
    <3>1. \A m \in Nat : m + 1 # 0
      OBVIOUS
    <3> QED
      BY <3>1, FailedIsNot
  <2> HIDE DEF operand
  <2>1. Outer(symbols, i, j, "OR") = {} => operand # Failed /\ operand.pos = j + 1
    BY <2>0, <1>11, <1>12
  <2>2. ASSUME NEW c \in i .. j, FirstSplit(symbols, reading, "OR", i, c, j)
        PROVE  /\ operand # Failed /\ operand.pos = c
               /\ Reads(read, "OR", c + 1, j)
    <3>1. /\ c - 1 \in 0 .. n /\ (c - 1) - i < j - i /\ (c - 1) + 1 = c
          /\ c + 1 \in 1 .. (n + 1) /\ j - (c + 1) < j - i /\ c \in 1 .. n
      BY <1>2, <1>6
    <3>2. symbols[c].type = "OR"
      BY <2>2 DEF FirstSplit, Outer
    <3>3. Peek(tokens, c) = "OR"
      BY <3>1, <3>2, <1>3 DEF Operators
    <3>4. Reads(read, "AND", i, c - 1)
      BY <3>1, <3>3, <2>2, <1>5 DEF FirstSplit, Holds
    <3>5. Reads(read, "OR", c + 1, j)
      BY <3>1, <2>2, <1>5, <1>12 DEF FirstSplit
    <3>6. and # Failed /\ and.pos = (c - 1) + 1 /\ c - 1 \in Nat
      BY <3>1, <3>4, <1>8 DEF Reads
    <3> QED
      BY <3>1, <3>5, <3>6, <2>0
  <2> QED
    BY <2>1, <2>2, <1>10, <1>12
<1> HIDE DEF or
<1> QED
  BY <1>8, <1>9, <1>11, <1>12 DEF IsRead, Reads, symbols

\* Induction over the ranges of n symbols, from short to long.
LEMMA InductionOverRanges ==
  ASSUME NEW n \in Nat, NEW S,
         \A i \in 1 .. (n + 1), j \in 0 .. n :
           (\A k \in 1 .. (n + 1), m \in 0 .. n : m - k < j - i => <<k, m>> \in S)
             => <<i, j>> \in S
  PROVE  \A i \in 1 .. (n + 1), j \in 0 .. n : <<i, j>> \in S
<1> DEFINE D == {d \in 0 .. (2 * n + 1) :
                   \A i \in 1 .. (n + 1), j \in 0 .. n :
                     (j - i) + (n + 1) <= d => <<i, j>> \in S}
<1>1. ASSUME NEW i \in 1 .. (n + 1), NEW j \in 0 .. n, NEW d \in Int,
             \A k \in 1 .. (n + 1), m \in 0 .. n :
               (m - k) + (n + 1) <= d => <<k, m>> \in S,
             (j - i) + (n + 1) <= d + 1
      PROVE  <<i, j>> \in S
  <2>1. \A k \in 1 .. (n + 1), m \in 0 .. n :
          m - k < j - i => (m - k) + (n + 1) <= d
    BY <1>1
  <2>2. \A k \in 1 .. (n + 1), m \in 0 .. n : m - k < j - i => <<k, m>> \in S
    BY <2>1, <1>1
  <2> QED
    BY <2>2
<1>2. 0 \in D
  <2> SUFFICES ASSUME NEW i \in 1 .. (n + 1), NEW j \in 0 .. n,
                      (j - i) + (n + 1) <= 0
               PROVE  <<i, j>> \in S
    OBVIOUS
  <2>1. \A k \in 1 .. (n + 1), m \in 0 .. n : ~(m - k < j - i)
    OBVIOUS
  <2> QED
    BY <2>1
<1>3. \A d \in 0 .. ((2 * n + 1) - 1) : d \in D => d + 1 \in D
  BY <1>1
<1>4. 2 * n + 1 \in D
  <2> HIDE DEF D
  <2> QED
    BY <1>2, <1>3, InductionUpTo
<1>5. \A i \in 1 .. (n + 1), j \in 0 .. n : (j - i) + (n + 1) <= 2 * n + 1
  OBVIOUS
<1> QED
  BY <1>4, <1>5

\* Whatever has a meaning is read.
LEMMA AllIsRead ==
  ASSUME NEW T, NEW tokens \in Seq(T),
         \A k \in 1 .. Len(tokens) : tokens[k].type \in TokenTypes,
         NEW reading, IsReading(Symbols(tokens), reading),
         NEW read, ParsesFrom(tokens, read, 1)
  PROVE  \A i \in 1 .. (Len(tokens) + 1), j \in 0 .. Len(tokens) :
           reading[i][j] # Invalid => IsRead(tokens, read, i, j)
<1> DEFINE n == Len(tokens)
           S == {p \in (1 .. (n + 1)) \X (0 .. n) :
                   reading[p[1]][p[2]] # Invalid => IsRead(tokens, read, p[1], p[2])}
<1>0. n \in Nat
  OBVIOUS
<1>1. ASSUME NEW i \in 1 .. (n + 1), NEW j \in 0 .. n,
             \A k \in 1 .. (n + 1), m \in 0 .. n : m - k < j - i => <<k, m>> \in S
      PROVE  <<i, j>> \in S
  <2>1. \A k \in 1 .. (n + 1), m \in 0 .. n :
          m - k < j - i /\ reading[k][m] # Invalid => IsRead(tokens, read, k, m)
    BY <1>1
  <2>2. reading[i][j] # Invalid => IsRead(tokens, read, i, j)
    BY <2>1, ParserReads
  <2> QED
    BY <2>2
<1>2. \A i \in 1 .. (n + 1), j \in 0 .. n : <<i, j>> \in S
  <2> HIDE DEF S
  <2> QED
    BY <1>0, <1>1, InductionOverRanges, Zenon
<1> QED
  BY <1>2

\* What can be part of a rule: an operator, or a call that is a matcher.
Meaningful(symbol) ==
  /\ symbol.type \in Operators \cup {"LEAF"}
  /\ symbol.type = "LEAF" => symbol.node # Invalid

\* Only operators and matchers have a meaning.
LEMMA ValidHasNoSlip ==
  ASSUME NEW T, NEW symbols \in Seq(T), NEW reading, IsReading(symbols, reading)
  PROVE  \A i \in 1 .. (Len(symbols) + 1), j \in 0 .. Len(symbols) :
           reading[i][j] # Invalid =>
             \A k \in i .. j : Meaningful(symbols[k])
<1> DEFINE n == Len(symbols)
           Fine(i, j) == reading[i][j] # Invalid =>
             \A k \in i .. j : Meaningful(symbols[k])
           S == {p \in (1 .. (n + 1)) \X (0 .. n) : Fine(p[1], p[2])}
<1>0. n \in Nat
  OBVIOUS
<1>1. ASSUME NEW i \in 1 .. (n + 1), NEW j \in 0 .. n, reading[i][j] # Invalid,
             \A k \in 1 .. (n + 1), m \in 0 .. n : m - k < j - i => Fine(k, m),
             NEW k \in i .. j
      PROVE  Meaningful(symbols[k])
  <2>0. reading[i][j] = Read(symbols, reading, i, j) /\ i <= j
    BY <1>1 DEF IsReading
  <2>1. ASSUME NEW type \in {"AND", "OR"}, Outer(symbols, i, j, type) # {},
               reading[i][j] = Split(reading, type, i, Max(Outer(symbols, i, j, type)), j)
        PROVE  Meaningful(symbols[k])
    <3> DEFINE c == Max(Outer(symbols, i, j, type))
    <3>1. c \in i .. j /\ symbols[c].type = type
      <4>1. c \in Outer(symbols, i, j, type) /\ c \in i .. j
        BY <2>1, OuterIsIn
      <4> QED
        BY <4>1 DEF Outer
    <3> HIDE DEF c
    <3>2. reading[i][c - 1] # Invalid /\ reading[c + 1][j] # Invalid
      BY <2>1, <1>1 DEF Split, c
    <3>3. /\ c - 1 \in 0 .. n /\ (c - 1) - i < j - i
          /\ c + 1 \in 1 .. (n + 1) /\ j - (c + 1) < j - i
      BY <3>1, <1>0
    <3>4. /\ \A x \in i .. (c - 1) : Meaningful(symbols[x])
          /\ \A x \in (c + 1) .. j : Meaningful(symbols[x])
      BY <3>2, <3>3, <1>1
    <3>5. k = c \/ k \in i .. (c - 1) \/ k \in (c + 1) .. j
      BY <3>1
    <3> QED
      BY <3>1, <3>4, <3>5 DEF Operators, Meaningful
  <2>2. ASSUME reading[i][j] = Unsplit(symbols, reading, i, j)
        PROVE  Meaningful(symbols[k])
    <3>1. CASE symbols[i].type = "NOT"
      <4>1. reading[i + 1][j] # Invalid
        BY <3>1, <2>2, <1>1 DEF Unsplit
      <4>2. i + 1 \in 1 .. (n + 1) /\ j - (i + 1) < j - i
        BY <2>0, <1>0
      <4>3. \A x \in (i + 1) .. j : Meaningful(symbols[x])
        BY <4>1, <4>2, <1>1
      <4> QED
        BY <4>3, <3>1 DEF Operators, Meaningful
    <3>2. CASE symbols[i].type = "LPAREN" /\ symbols[j].type = "RPAREN"
      <4>1. reading[i + 1][j - 1] # Invalid
        BY <3>2, <2>2, <1>1 DEF Unsplit
      <4>2. i + 1 \in 1 .. (n + 1) /\ j - 1 \in 0 .. n /\ (j - 1) - (i + 1) < j - i
        BY <2>0, <1>0
      <4>3. \A x \in (i + 1) .. (j - 1) : Meaningful(symbols[x])
        BY <4>1, <4>2, <1>1
      <4> QED
        BY <4>3, <3>2 DEF Operators, Meaningful
    <3>3. CASE symbols[i].type = "LEAF" /\ i = j
      <4>1. symbols[i].node # Invalid
        BY <3>3, <2>2, <1>1 DEF Unsplit
      <4> QED
        BY <4>1, <3>3 DEF Meaningful
    <3> QED
      BY <3>1, <3>2, <3>3, <2>2, <1>1 DEF Unsplit
  <2> QED
    BY <2>0, <2>1, <2>2 DEF Read
<1>2. ASSUME NEW i \in 1 .. (n + 1), NEW j \in 0 .. n,
             \A k \in 1 .. (n + 1), m \in 0 .. n : m - k < j - i => <<k, m>> \in S
      PROVE  <<i, j>> \in S
  <2>1. \A k \in 1 .. (n + 1), m \in 0 .. n : m - k < j - i => Fine(k, m)
    BY <1>2
  <2>2. Fine(i, j)
    BY <2>1, <1>1
  <2> QED
    BY <2>2
<1>3. \A i \in 1 .. (n + 1), j \in 0 .. n : <<i, j>> \in S
  <2> HIDE DEF S
  <2> QED
    BY <1>0, <1>2, InductionOverRanges, Zenon
<1> QED
  BY <1>3

TreeOf(tokens) ==
  IF Contains(tokens, Token("ERROR")) \/ Parse(tokens).pos # Len(tokens) + 1
  THEN Invalid
  ELSE Chain("OR", Parse(tokens).operands)

\* The parser reads tokens as splitting at the operator that binds loosest does.
THEOREM ParserReadsAsMeant ==
  ASSUME NEW T, NEW tokens \in Seq(T),
         \A k \in 1 .. Len(tokens) : tokens[k].type \in TokenTypes
  PROVE  TreeOf(tokens) = Reading(Symbols(tokens))
<1> DEFINE n == Len(tokens)
           symbols == Symbols(tokens)
<1>1. PICK S : symbols \in Seq(S)
  BY SymbolsAre
<1>2. n \in Nat /\ Len(symbols) = n
  BY SymbolsAre
<1>3. PICK reading : IsReading(symbols, reading) /\ Reading(symbols) = reading[1][n]
  BY <1>1, <1>2, ReadingIs
<1>4. PICK read : ParsesFrom(tokens, read, 1) /\ Parse(tokens) = read[1]["OR"]
  BY ParseIs
<1>5. CASE Parse(tokens).pos = n + 1 /\ n # 0
  <2>1. Parse(tokens) # Failed
    BY <1>2, <1>5, FailedIsNot
  <2>2. Sound(symbols, reading, "OR", 1, Parse(tokens))
    <3>1. AllSound(symbols, reading, read, 1)
      BY <1>3, <1>4, ParserIsSound
    <3> QED
      BY <3>1, <1>2, <1>4, <2>1 DEF AllSound, Levels
  <2>3. Operand(symbols, reading, 1, n, Chain("OR", Parse(tokens).operands))
    <3>1. 1 \in 1 .. Len(symbols) /\ Parse(tokens).pos - 1 = n
      BY <1>2, <1>5
    <3> QED
      BY <3>1, <2>2, <1>1, <1>3, JoinedIsSound
  <2>4. reading[1][n] # Invalid /\ reading[1][n] = Chain("OR", Parse(tokens).operands)
    BY <2>3 DEF Operand
  <2>5. ~Contains(tokens, Token("ERROR"))
    <3>1. \A k \in 1 .. n : symbols[k].type \in Operators \cup {"LEAF"}
      BY <1>1, <1>2, <1>3, <2>4, ValidHasNoSlip DEF Meaningful
    <3>2. \A k \in 1 .. n : symbols[k] = TokenSymbol(tokens[k])
      BY SymbolsAre
    <3>3. TokenSymbol(Token("ERROR")).type = "ERROR"
      BY DEF TokenSymbol, Token
    <3>4. \A k \in 1 .. n : tokens[k] # Token("ERROR")
      BY <3>1, <3>2, <3>3 DEF Operators
    <3> QED
      BY <3>4 DEF Contains
  <2> QED
    BY <1>3, <1>5, <2>4, <2>5 DEF TreeOf
<1>6. CASE Parse(tokens).pos # n + 1
  <2>1. reading[1][n] = Invalid
    <3> SUFFICES ASSUME reading[1][n] # Invalid
                 PROVE  FALSE
      OBVIOUS
    <3>1. IsRead(tokens, read, 1, n)
      BY <1>2, <1>3, <1>4, AllIsRead
    <3>2. Peek(tokens, n + 1) = "END"
      BY <1>2 DEF Peek
    <3>3. Reads(read, "OR", 1, n)
      BY <3>1, <3>2 DEF IsRead
    <3> QED
      BY <3>3, <1>4, <1>6 DEF Reads
  <2> QED
    BY <2>1, <1>3, <1>6 DEF TreeOf
<1>7. CASE n = 0
  <2>1. Parse(tokens).pos # 1
    <3>1. Ahead(tokens, read[1]["OR"], 1)
      BY <1>4, <1>7 DEF ParsesFrom, AllAhead, Levels
    <3> QED
      BY <3>1, <1>4, <1>7, FailedIsNot DEF Ahead
  <2> QED
    BY <2>1, <1>6, <1>7
<1> QED
  BY <1>5, <1>6, <1>7

-------------------------------------------------------------------------------
(* Sequences and texts.                                                     *)

\* A number of a set that exceeds no other one is what Min returns.
LEMMA MinIs ==
  ASSUME NEW S \in SUBSET Int, NEW c \in S, \A k \in S : c <= k
  PROVE  Min(S) = c
<1>1. Min(S) \in S /\ \A k \in S : Min(S) <= k
  <2>1. \E x \in S : \A k \in S : x <= k
    OBVIOUS
  <2> QED
    BY <2>1 DEF Min
<1>2. \A x \in S : x <= c => x = c
  OBVIOUS
<1> QED
  BY <1>1, <1>2

\* Min returns the smallest number of a set.
LEMMA MinIsIn ==
  ASSUME NEW S \in SUBSET Nat, S # {}
  PROVE  Min(S) \in S /\ \A k \in S : Min(S) <= k
<1>1. PICK x \in S : \A k \in S : x <= k
  BY SmallestNumber
<1> QED
  BY <1>1 DEF Min

(* The first n sequences make whole: number k begins after position at[k].   *)
PartsUpTo(seqs, n, whole, at) ==
  /\ at[1] = 0 /\ Len(whole) = at[n + 1]
  /\ \A k \in 1 .. (n + 1) : at[k] \in 0 .. Len(whole)
  /\ \A k \in 1 .. n :
       /\ at[k + 1] = at[k] + Len(seqs[k])
       /\ \A m \in 1 .. Len(seqs[k]) :
            at[k] + m \in 1 .. Len(whole) /\ whole[at[k] + m] = seqs[k][m]

Parts(seqs, whole, at) == PartsUpTo(seqs, Len(seqs), whole, at)

\* One more sequence at the end.
LEMMA PartsStep ==
  ASSUME NEW T, NEW seqs \in Seq(Seq(T)), NEW m \in 0 .. (Len(seqs) - 1),
         NEW whole \in Seq(T), NEW at, PartsUpTo(seqs, m, whole, at)
  PROVE  \E new : PartsUpTo(seqs, m + 1, whole \o seqs[m + 1], new)
<1> DEFINE s == seqs[m + 1]
           w == whole \o s
           new == [k \in 1 .. (m + 2) |-> IF k = m + 2 THEN at[m + 1] + Len(s) ELSE at[k]]
<1>1. Len(whole) \in Nat /\ s \in Seq(T) /\ Len(s) \in Nat
  OBVIOUS
<1>2. /\ Len(w) = Len(whole) + Len(s)
      /\ \A x \in 1 .. Len(whole) : w[x] = whole[x]
      /\ \A x \in 1 .. Len(s) : w[Len(whole) + x] = s[x]
  BY <1>1
<1>3. /\ at[1] = 0 /\ Len(whole) = at[m + 1]
      /\ \A k \in 1 .. (m + 1) : at[k] \in 0 .. Len(whole)
      /\ \A k \in 1 .. m :
           /\ at[k + 1] = at[k] + Len(seqs[k])
           /\ \A x \in 1 .. Len(seqs[k]) :
                at[k] + x \in 1 .. Len(whole) /\ whole[at[k] + x] = seqs[k][x]
  BY DEF PartsUpTo
<1>4. /\ \A k \in 1 .. (m + 1) : new[k] = at[k]
      /\ new[m + 2] = Len(w)
  BY <1>2, <1>3
<1> HIDE DEF new, w, s
<1>0. m \in Nat /\ (m + 1) + 1 = m + 2 /\ 1 \in 1 .. (m + 1)
  OBVIOUS
<1>5. new[1] = 0 /\ Len(w) = new[(m + 1) + 1]
  BY <1>0, <1>3, <1>4
<1>6. \A k \in 1 .. ((m + 1) + 1) : new[k] \in 0 .. Len(w)
  <2>1. \A k \in 1 .. ((m + 1) + 1) : k = m + 2 \/ k \in 1 .. (m + 1)
    BY <1>0
  <2>2. Len(w) \in Nat /\ Len(whole) <= Len(w)
    BY <1>1, <1>2
  <2>3. new[m + 2] \in 0 .. Len(w)
    BY <2>2, <1>4
  <2>4. ASSUME NEW k \in 1 .. (m + 1)
        PROVE  new[k] \in 0 .. Len(w)
    <3>1. new[k] = at[k] /\ at[k] \in 0 .. Len(whole)
      BY <1>3, <1>4
    <3> QED
      BY <3>1, <2>2, <1>1
  <2> QED
    BY <2>1, <2>3, <2>4
<1>7. ASSUME NEW k \in 1 .. (m + 1)
      PROVE  /\ new[k + 1] = new[k] + Len(seqs[k])
             /\ \A x \in 1 .. Len(seqs[k]) :
                  new[k] + x \in 1 .. Len(w) /\ w[new[k] + x] = seqs[k][x]
  <2>1. CASE k = m + 1
    <3>1. new[k + 1] = Len(w) /\ new[k] = Len(whole) /\ seqs[k] = s
      BY <2>1, <1>3, <1>4 DEF s
    <3> QED
      BY <3>1, <1>1, <1>2
  <2>2. CASE k # m + 1
    <3>1. k \in 1 .. m /\ k + 1 \in 1 .. (m + 1)
      BY <2>2
    <3>2. new[k] = at[k] /\ new[k + 1] = at[k + 1]
      BY <3>1, <1>4
    <3>3. \A y \in 1 .. Len(whole) : w[y] = whole[y] /\ y \in 1 .. Len(w)
      BY <1>1, <1>2
    <3> QED
      BY <3>1, <3>2, <3>3, <1>3
  <2> QED
    BY <2>1, <2>2
<1>8. PartsUpTo(seqs, m + 1, w, new)
  BY <1>5, <1>6, <1>7 DEF PartsUpTo
<1> QED
  BY <1>8 DEF w, s

\* The concatenations of the first sequences, one after the other.
LEMMA FlattenRuns ==
  ASSUME NEW T, NEW seqs \in Seq(Seq(T)), Len(seqs) # 0
  PROVE  \E flatten :
           /\ FlattenSeq(seqs) = flatten[Len(seqs)]
           /\ \A k \in 1 .. Len(seqs) :
                flatten[k] = IF k = 1 THEN seqs[k] ELSE flatten[k - 1] \o seqs[k]
<1> DEFINE n == Len(seqs)
           At(c, k) == IF k = 1 THEN seqs[k] ELSE c[k - 1] \o seqs[k]
           Solves(c, m) == c = [k \in 1 .. m |-> At(c, k)]
           Upto == {m \in 0 .. n : \E c : Solves(c, m)}
<1>0. n \in Nat /\ \A k \in 1 .. n : seqs[k] \in Seq(T)
  OBVIOUS
<1>1. 0 \in Upto
  <2>1. Solves([k \in 1 .. 0 |-> <<>>], 0)
    OBVIOUS
  <2> HIDE DEF Solves
  <2> QED
    BY <2>1, <1>0
<1>2. ASSUME NEW m \in 0 .. (n - 1), m \in Upto
      PROVE  m + 1 \in Upto
  <2>1. PICK c : Solves(c, m)
    BY <1>2
  <2> DEFINE d == [k \in 1 .. (m + 1) |-> IF k = m + 1 THEN At(c, k) ELSE c[k]]
  <2>2. \A k \in 1 .. m : d[k] = c[k] /\ c[k] = At(c, k)
    <3>1. \A k \in 1 .. m : c[k] = At(c, k)
      BY <2>1
    <3>2. \A k \in 1 .. m : k \in 1 .. (m + 1) /\ k # m + 1
      OBVIOUS
    <3> HIDE DEF At
    <3> QED
      BY <3>1, <3>2
  <2> HIDE DEF At
  <2>3. \A k \in 1 .. (m + 1) : d[k] = At(d, k)
    <3> SUFFICES ASSUME NEW k \in 1 .. (m + 1)
                 PROVE  d[k] = At(d, k)
      OBVIOUS
    <3>1. k # 1 => k - 1 \in 1 .. m
      OBVIOUS
    <3>2. k # 1 => d[k - 1] = c[k - 1]
      BY <3>1, <2>2
    <3>3. d[k] = At(c, k)
      <4>1. k # m + 1 => k \in 1 .. m
        OBVIOUS
      <4> QED
        BY <4>1, <2>2
    <3> HIDE DEF d
    <3> QED
      BY <3>2, <3>3 DEF At
  <2>4. Solves(d, m + 1)
    <3>1. d = [k \in 1 .. (m + 1) |-> d[k]]
      OBVIOUS
    <3> HIDE DEF d
    <3> QED
      BY <3>1, <2>3
  <2>5. m + 1 \in 0 .. n
    BY <1>0
  <2> HIDE DEF Solves, d, n
  <2>6. \E e : Solves(e, m + 1)
    BY <2>4
  <2> QED
    BY <2>5, <2>6
<1>3. n \in Upto
  <2> HIDE DEF Upto
  <2>1. 0 .. n \subseteq Upto
    BY <1>0, <1>1, <1>2, InductionUpTo
  <2>2. n \in 0 .. n
    BY <1>0
  <2> QED
    BY <2>1, <2>2
<1> DEFINE flatten == CHOOSE c : Solves(c, n)
<1>4. Solves(flatten, n)
  <2>1. \E c : Solves(c, n)
    BY <1>3
  <2> HIDE DEF Solves
  <2> QED
    BY <2>1
<1>5. FlattenSeq(seqs) = flatten[n]
  BY DEF FlattenSeq
<1> HIDE DEF flatten
<1>6. \A k \in 1 .. n : flatten[k] = At(flatten, k)
  <2> HIDE DEF At
  <2> QED
    BY <1>4
<1> QED
  BY <1>5, <1>6

\* FlattenSeq puts the sequences one after the other.
LEMMA FlattenIs ==
  ASSUME NEW T, NEW seqs \in Seq(Seq(T))
  PROVE  /\ FlattenSeq(seqs) \in Seq(T)
         /\ \E at : Parts(seqs, FlattenSeq(seqs), at)
<1> DEFINE n == Len(seqs)
           At(c, k) == IF k = 1 THEN seqs[k] ELSE c[k - 1] \o seqs[k]
<1>0. n \in Nat /\ \A k \in 1 .. n : seqs[k] \in Seq(T)
  OBVIOUS
<1>1. \E at : PartsUpTo(seqs, 0, <<>>, at)
  <2> DEFINE zero == [k \in 1 .. 1 |-> 0]
  <2>1. zero[1] = 0 /\ Len(<<>>) = 0
    OBVIOUS
  <2> HIDE DEF zero
  <2>2. PartsUpTo(seqs, 0, <<>>, zero)
    BY <2>1 DEF PartsUpTo
  <2> QED
    BY <2>2
<1>2. CASE n = 0
  <2>1. seqs = <<>> /\ FlattenSeq(seqs) = <<>>
    BY <1>2 DEF FlattenSeq
  <2>2. <<>> \in Seq(T)
    OBVIOUS
  <2> QED
    BY <2>1, <2>2, <1>1, <1>2 DEF Parts
<1>3. CASE n # 0
  <2>5. PICK flatten : /\ FlattenSeq(seqs) = flatten[n]
                       /\ \A k \in 1 .. n : flatten[k] = At(flatten, k)
    BY <1>3, FlattenRuns
  <2>6. \A k \in 1 .. n : flatten[k] = At(flatten, k)
    BY <2>5
  <2> DEFINE Good == {m \in 1 .. n : /\ flatten[m] \in Seq(T)
                                     /\ \E at : PartsUpTo(seqs, m, flatten[m], at)}
             Ok == {m \in 0 .. n : m = 0 \/ m \in Good}
  <2>7. ASSUME NEW m \in 0 .. (n - 1), NEW whole \in Seq(T),
               \E at : PartsUpTo(seqs, m, whole, at),
               flatten[m + 1] = whole \o seqs[m + 1]
        PROVE  m + 1 \in Good
    <3>1. \E new : PartsUpTo(seqs, m + 1, whole \o seqs[m + 1], new)
      BY <2>7, PartsStep
    <3>2. m + 1 \in 1 .. n
      BY <1>0
    <3>3. whole \o seqs[m + 1] \in Seq(T)
      BY <3>2, <1>0
    <3> QED
      BY <3>1, <3>2, <3>3, <2>7
  <2>8. ASSUME NEW m \in 0 .. (n - 1), m \in Ok
        PROVE  m + 1 \in Ok
    <3>0. m + 1 \in 0 .. n /\ m + 1 \in 1 .. n
      BY <1>0
    <3>1. CASE m = 0
      <4>1. <<>> \in Seq(T) /\ 0 \in 0 .. (n - 1) /\ 0 + 1 = 1
        BY <3>1
      <4>2. flatten[1] = <<>> \o seqs[1]
        <5>1. flatten[1] = seqs[1] /\ seqs[1] \in Seq(T)
          BY <3>0, <3>1, <2>6, <1>0
        <5> QED
          BY <5>1
      <4> HIDE DEF Good
      <4> QED
        BY <4>1, <4>2, <3>0, <3>1, <1>1, <2>7
    <3>2. CASE m # 0
      <4>1. m \in Good
        BY <3>2, <2>8
      <4>2. flatten[m + 1] = flatten[m] \o seqs[m + 1]
        <5>1. m + 1 # 1 /\ (m + 1) - 1 = m
          BY <3>2
        <5> QED
          BY <5>1, <3>0, <2>6
      <4>3. flatten[m] \in Seq(T) /\ \E at : PartsUpTo(seqs, m, flatten[m], at)
        BY <4>1
      <4> HIDE DEF Good
      <4> QED
        BY <4>2, <4>3, <3>0, <2>7
    <3> QED
      BY <3>1, <3>2
  <2>9. n \in Good
    <3>1. 0 \in Ok
      BY <1>0
    <3>2. n \in Ok
      <4> HIDE DEF Ok
      <4>1. 0 .. n \subseteq Ok
        BY <3>1, <2>8, <1>0, InductionUpTo
      <4> QED
        BY <4>1, <1>0
    <3> HIDE DEF Good
    <3> QED
      BY <3>2, <1>3
  <2> QED
    BY <2>5, <2>9 DEF Parts
<1> QED
  BY <1>2, <1>3

(* Parentheses in a text.                                                   *)
Change(c) == IF c = "(" THEN 1 ELSE IF c = ")" THEN -1 ELSE 0

\* A text as symbols, of which Level counts the parentheses.
Signs(text) ==
  [k \in DOMAIN text |->
     [type |-> IF text[k] = "(" THEN "LPAREN"
               ELSE IF text[k] = ")" THEN "RPAREN" ELSE "OTHER"]]

\* Depth counts in a text what Level counts in symbols.
LEMMA DepthIsLevel ==
  ASSUME NEW text, NEW i \in Int, NEW j \in Int, i .. j \subseteq DOMAIN text
  PROVE  Depth(text, i, j) = Level(Signs(text), i, j + 1)
<1>1. (j + 1) - 1 = j
  OBVIOUS
<1>2. \A k \in i .. j : /\ Signs(text)[k].type = "LPAREN" <=> text[k] = "("
                        /\ Signs(text)[k].type = "RPAREN" <=> text[k] = ")"
  BY DEF Signs
<1>3. {k \in i .. j : text[k] = "("} = {k \in i .. j : Signs(text)[k].type = "LPAREN"}
  BY <1>2
<1>4. {k \in i .. j : text[k] = ")"} = {k \in i .. j : Signs(text)[k].type = "RPAREN"}
  BY <1>2
<1> QED
  BY <1>1, <1>3, <1>4 DEF Depth, Level

\* One character changes the depth by what it opens or closes.
LEMMA DepthStep ==
  ASSUME NEW T, NEW text \in Seq(T), NEW i \in 1 .. (Len(text) + 1)
  PROVE  /\ Depth(text, i, i - 1) = 0
         /\ \A j \in (i - 1) .. Len(text) : Depth(text, i, j) \in Int
         /\ \A j \in i .. Len(text) :
              Depth(text, i, j) = Depth(text, i, j - 1) + Change(text[j])
<1>0. DOMAIN text = 1 .. Len(text) /\ Len(text) \in Nat
  OBVIOUS
<1>1. \A j \in (i - 1) .. Len(text) :
        /\ Depth(text, i, j) = Level(Signs(text), i, j + 1)
        /\ Level(Signs(text), i, j + 1) \in Int
  <2> SUFFICES ASSUME NEW j \in (i - 1) .. Len(text)
               PROVE  /\ Depth(text, i, j) = Level(Signs(text), i, j + 1)
                      /\ Level(Signs(text), i, j + 1) \in Int
    OBVIOUS
  <2>1. i .. j \subseteq DOMAIN text
    BY <1>0
  <2> QED
    BY <2>1, DepthIsLevel, LevelIs
<1>2. Depth(text, i, i - 1) = 0
  <2>1. Level(Signs(text), i, i) = 0 /\ (i - 1) + 1 = i
    BY LevelStep
  <2> QED
    BY <2>1, <1>0, <1>1
<1>3. ASSUME NEW j \in i .. Len(text)
      PROVE  Depth(text, i, j) = Depth(text, i, j - 1) + Change(text[j])
  <2>1. Level(Signs(text), i, j + 1)
          = Level(Signs(text), i, j) + Level(Signs(text), j, j + 1)
    BY LevelSplit
  <2>2. Level(Signs(text), j, j + 1) = Delta(Signs(text)[j])
    BY LevelStep
  <2>3. Delta(Signs(text)[j]) = Change(text[j])
    BY <1>0 DEF Signs, Delta, Change
  <2>4. Depth(text, i, j - 1) = Level(Signs(text), i, j)
    <3>1. j - 1 \in (i - 1) .. Len(text) /\ (j - 1) + 1 = j
      BY <1>0
    <3> QED
      BY <3>1, <1>1
  <2> QED
    BY <2>1, <2>2, <2>3, <2>4, <1>1
<1> QED
  BY <1>1, <1>2, <1>3

\* s stands in t after position p.
Occurs(s, t, p) ==
  /\ p \in 0 .. Len(t) /\ p + Len(s) <= Len(t)
  /\ \A m \in 1 .. Len(s) : t[p + m] = s[m]

\* The same characters elsewhere have the same depth.
LEMMA DepthShift ==
  ASSUME NEW T, NEW s \in Seq(T), NEW t \in Seq(T), NEW p, Occurs(s, t, p)
  PROVE  \A j \in 0 .. Len(s) : Depth(t, p + 1, p + j) = Depth(s, 1, j)
<1> DEFINE n == Len(s)
           D == {j \in 0 .. n : Depth(t, p + 1, p + j) = Depth(s, 1, j)}
<1>0. /\ n \in Nat /\ Len(t) \in Nat /\ p \in Nat /\ p + n <= Len(t)
      /\ p + 1 \in 1 .. (Len(t) + 1) /\ 1 \in 1 .. (n + 1)
  <2>1. n \in Nat /\ Len(t) \in Nat
    OBVIOUS
  <2> QED
    BY <2>1 DEF Occurs
<1>1. 0 \in D
  <2>1. (p + 1) - 1 = p + 0 /\ 1 - 1 = 0 /\ 0 \in 0 .. n
    BY <1>0
  <2>2. Depth(t, p + 1, (p + 1) - 1) = 0 /\ Depth(s, 1, 1 - 1) = 0
    BY <1>0, DepthStep
  <2> QED
    BY <2>1, <2>2
<1>2. ASSUME NEW j \in 0 .. (n - 1), j \in D
      PROVE  j + 1 \in D
  <2>1. /\ (p + (j + 1)) - 1 = p + j /\ (j + 1) - 1 = j
        /\ p + (j + 1) \in (p + 1) .. Len(t) /\ j + 1 \in 1 .. n /\ j + 1 \in 0 .. n
    BY <1>0
  <2>2. Depth(t, p + 1, p + (j + 1)) = Depth(t, p + 1, p + j) + Change(t[p + (j + 1)])
    BY <1>0, <2>1, DepthStep
  <2>3. Depth(s, 1, j + 1) = Depth(s, 1, j) + Change(s[j + 1])
    BY <1>0, <2>1, DepthStep
  <2>4. t[p + (j + 1)] = s[j + 1]
    BY <2>1 DEF Occurs
  <2> QED
    BY <2>1, <2>2, <2>3, <2>4, <1>2
<1>3. 0 .. n \subseteq D
  <2> HIDE DEF D
  <2> QED
    BY <1>0, <1>1, <1>2, InductionUpTo
<1> QED
  BY <1>3

-------------------------------------------------------------------------------
(* What the functions of the lexer return.                                  *)

\* SubSeq returns the elements from a to b.
LEMMA SubSeqIs ==
  ASSUME NEW T, NEW s \in Seq(T), NEW a \in 1 .. (Len(s) + 1),
         NEW b \in (a - 1) .. Len(s)
  PROVE  /\ SubSeq(s, a, b) \in Seq(T)
         /\ Len(SubSeq(s, a, b)) = b - a + 1
         /\ \A k \in 1 .. (b - a + 1) : SubSeq(s, a, b)[k] = s[a + k - 1]
<1>1. \A k \in a .. b : s[k] \in T
  OBVIOUS
<1> QED
  BY <1>1, SubSeqProperties

\* TrimSpace returns nothing, or the text from its first to its last solid character.
LEMMA TrimIs ==
  ASSUME NEW T, NEW text \in Seq(T)
  PROVE  \/ /\ TrimSpace(text) = <<>>
            /\ \A k \in 1 .. Len(text) : text[k] = Space
         \/ \E a \in 1 .. Len(text), b \in 1 .. Len(text) :
              /\ a <= b
              /\ TrimSpace(text) = SubSeq(text, a, b)
              /\ text[a] # Space /\ text[b] # Space
              /\ \A k \in 1 .. Len(text) : text[k] # Space => a <= k /\ k <= b
<1> DEFINE solid == {i \in 1 .. Len(text) : text[i] # Space}
<1>0. Len(text) \in Nat
  OBVIOUS
<1>1. TrimSpace(text) = IF solid = {} THEN <<>> ELSE SubSeq(text, Min(solid), Max(solid))
  BY DEF TrimSpace
<1>2. CASE solid = {}
  BY <1>1, <1>2
<1>3. CASE solid # {}
  <2>1. solid \in SUBSET Nat /\ solid \in SUBSET (0 .. Len(text))
    <3>1. solid \subseteq 1 .. Len(text)
      OBVIOUS
    <3> HIDE DEF solid
    <3> QED
      BY <3>1, <1>0
  <2> DEFINE a == Min(solid)
             b == Max(solid)
  <2>2. a \in solid /\ \A k \in solid : a <= k
    <3> HIDE DEF solid
    <3> QED
      BY <1>3, <2>1, MinIsIn
  <2>3. b \in solid /\ \A k \in solid : k <= b
    <3> HIDE DEF solid
    <3> QED
      BY <1>0, <1>3, <2>1, LargestNumber
  <2>4. TrimSpace(text) = SubSeq(text, a, b)
    BY <1>1, <1>3
  <2> HIDE DEF a, b
  <2> QED
    BY <2>2, <2>3, <2>4
<1> QED
  BY <1>2, <1>3

\* A backtick opens or closes a quotation, and nothing else does.
LEMMA InBacktickStep ==
  ASSUME NEW T, NEW text \in Seq(T)
  PROVE  /\ ~InBacktick(text, 1)
         /\ \A i \in 1 .. Len(text) :
              InBacktick(text, i + 1) <=>
                IF text[i] = Backtick THEN ~InBacktick(text, i) ELSE InBacktick(text, i)
<1> DEFINE Ticks(i) == {k \in 1 .. (i - 1) : text[k] = Backtick}
<1>1. \A i : InBacktick(text, i) <=> Cardinality(Ticks(i)) % 2 = 1
  BY DEF InBacktick
<1>2. ~InBacktick(text, 1)
  <2>1. Ticks(1) = {}
    OBVIOUS
  <2>2. Cardinality(Ticks(1)) = 0
    BY <2>1, FS_EmptySet
  <2> HIDE DEF Ticks
  <2> QED
    BY <1>1, <2>2
<1>3. ASSUME NEW i \in 1 .. Len(text)
      PROVE  InBacktick(text, i + 1) <=>
               IF text[i] = Backtick THEN ~InBacktick(text, i) ELSE InBacktick(text, i)
  <2>1. i \in Nat
    OBVIOUS
  <2>2. IsFiniteSet(Ticks(i)) /\ Cardinality(Ticks(i)) \in Nat
    <3>1. IsFiniteSet(1 .. (i - 1))
      BY <2>1, FS_Interval
    <3>2. Ticks(i) \subseteq 1 .. (i - 1)
      OBVIOUS
    <3> HIDE DEF Ticks
    <3> QED
      BY <3>1, <3>2, FS_Subset, FS_CardinalityType
  <2>3. CASE text[i] = Backtick
    <3>1. Ticks(i + 1) = Ticks(i) \cup {i} /\ i \notin Ticks(i)
      BY <2>1, <2>3
    <3>2. Cardinality(Ticks(i + 1)) = Cardinality(Ticks(i)) + 1
      <4> HIDE DEF Ticks
      <4> QED
        BY <3>1, <2>2, FS_AddElement
    <3> HIDE DEF Ticks
    <3> QED
      BY <1>1, <2>2, <2>3, <3>2
  <2>4. CASE text[i] # Backtick
    <3>1. Ticks(i + 1) = Ticks(i)
      BY <2>1, <2>4
    <3> HIDE DEF Ticks
    <3> QED
      BY <1>1, <2>4, <3>1
  <2> QED
    BY <2>3, <2>4
<1> QED
  BY <1>2, <1>3

\* lexFunc returns 0 or a position of the text that is not before its start.
LEMMA CallEndIs ==
  ASSUME NEW T, NEW text \in Seq(T), NEW i \in 1 .. Len(text)
  PROVE  lexFunc(text, i) = 0 \/ lexFunc(text, i) \in i .. Len(text)
<1> DEFINE S == {k \in i .. (Len(text) + 1) :
                   k = Len(text) + 1 \/ ~isIdentChar(text[k])}
           open == Min(S)
<1>0. Len(text) \in Nat
  OBVIOUS
<1>1. open \in i .. (Len(text) + 1)
  <2>1. Len(text) + 1 \in S /\ S \in SUBSET Nat
    BY <1>0
  <2>2. open \in S
    <3> HIDE DEF S
    <3> QED
      BY <2>1, MinIsIn
  <2> HIDE DEF open
  <2> QED
    BY <2>2
<1>2. lexFunc(text, i) =
        IF open > Len(text) \/ text[open] # "(" \/ CallEnds(text, open) = {}
        THEN 0 ELSE Min(CallEnds(text, open))
  BY DEF lexFunc
<1> HIDE DEF open
<1>3. CallEnds(text, open) # {} =>
        Min(CallEnds(text, open)) \in CallEnds(text, open)
  <2>1. CallEnds(text, open) \in SUBSET Nat
    BY <1>0, <1>1 DEF CallEnds
  <2> QED
    BY <2>1, MinIsIn
<1>4. CallEnds(text, open) \subseteq i .. Len(text)
  BY <1>0, <1>1 DEF CallEnds
<1> QED
  BY <1>2, <1>3, <1>4

\* A round of Lex needs no more than the tokens further on.
LEMMA LexLooksAhead ==
  ASSUME NEW T, NEW text \in Seq(T), NEW i \in 1 .. Len(text), NEW p, NEW q,
         \A k \in (i + 1) .. (Len(text) + 1) : q[k] = p[k]
  PROVE  LexAt(text, q, i) = LexAt(text, p, i)
<1>0. Len(text) \in Nat
  OBVIOUS
<1>1. i + 1 \in (i + 1) .. (Len(text) + 1)
  BY <1>0
<1>2. i < Len(text) => i + 2 \in (i + 1) .. (Len(text) + 1)
  BY <1>0
<1>3. lexFunc(text, i) # 0 => lexFunc(text, i) + 1 \in (i + 1) .. (Len(text) + 1)
  BY <1>0, CallEndIs
<1>4. /\ q[i + 1] = p[i + 1]
      /\ i < Len(text) => q[i + 2] = p[i + 2]
      /\ lexFunc(text, i) # 0 => q[lexFunc(text, i) + 1] = p[lexFunc(text, i) + 1]
  BY <1>1, <1>2, <1>3
<1> QED
  BY <1>4 DEF LexAt

TokenSet(T) ==
  [type : TokenTypes \ {"FUNC"}] \cup [type : {"FUNC"}, value : Seq(T)]

\* A round of Lex puts tokens in front of tokens.
LEMMA LexAtIsTokens ==
  ASSUME NEW T, NEW text \in Seq(T), NEW i \in 1 .. Len(text), NEW rest,
         \A k \in (i + 1) .. (Len(text) + 1) : rest[k] \in Seq(TokenSet(T))
  PROVE  LexAt(text, rest, i) \in Seq(TokenSet(T))
<1>0. Len(text) \in Nat
  OBVIOUS
<1>1. i + 1 \in (i + 1) .. (Len(text) + 1)
  BY <1>0
<1>2. i < Len(text) => i + 2 \in (i + 1) .. (Len(text) + 1)
  BY <1>0
<1>3. lexFunc(text, i) # 0 => /\ lexFunc(text, i) + 1 \in (i + 1) .. (Len(text) + 1)
                              /\ lexFunc(text, i) \in i .. Len(text)
  BY <1>0, CallEndIs
<1>4. /\ rest[i + 1] \in Seq(TokenSet(T))
      /\ i < Len(text) => rest[i + 2] \in Seq(TokenSet(T))
      /\ lexFunc(text, i) # 0 =>
           /\ rest[lexFunc(text, i) + 1] \in Seq(TokenSet(T))
           /\ SubSeq(text, i, lexFunc(text, i)) \in Seq(T)
  BY <1>1, <1>2, <1>3, SubSeqIs, <1>0
<1>5. /\ \A type \in TokenTypes \ {"FUNC"} : Token(type) \in TokenSet(T)
      /\ \A v \in Seq(T) : [type |-> "FUNC", value |-> v] \in TokenSet(T)
  BY DEF TokenSet, Token
<1>6. \A x \in TokenSet(T), s \in Seq(TokenSet(T)) :
        <<x>> \o s \in Seq(TokenSet(T)) /\ <<x>> \in Seq(TokenSet(T))
  OBVIOUS
<1>7. {"AND", "OR", "NOT", "LPAREN", "RPAREN", "ERROR"} \subseteq TokenTypes \ {"FUNC"}
  BY DEF TokenTypes, Operators
<1> DEFINE end == lexFunc(text, i)
<1>8. /\ \A type \in {"AND", "OR", "NOT", "LPAREN", "RPAREN", "ERROR"} :
           /\ <<Token(type)>> \in Seq(TokenSet(T))
           /\ \A s \in Seq(TokenSet(T)) : <<Token(type)>> \o s \in Seq(TokenSet(T))
      /\ end # 0 => <<[type |-> "FUNC", value |-> SubSeq(text, i, end)]>>
                         \o rest[end + 1] \in Seq(TokenSet(T))
  <2> HIDE DEF end
  <2>1. end # 0 => /\ rest[end + 1] \in Seq(TokenSet(T))
                   /\ SubSeq(text, i, end) \in Seq(T)
    BY <1>4 DEF end
  <2>2. ASSUME NEW type \in {"AND", "OR", "NOT", "LPAREN", "RPAREN", "ERROR"}
        PROVE  /\ <<Token(type)>> \in Seq(TokenSet(T))
               /\ \A s \in Seq(TokenSet(T)) : <<Token(type)>> \o s \in Seq(TokenSet(T))
    <3>1. Token(type) \in TokenSet(T)
      BY <1>5, <1>7
    <3> QED
      BY <3>1
  <2>3. end # 0 => [type |-> "FUNC", value |-> SubSeq(text, i, end)] \in TokenSet(T)
    BY <1>5, <2>1
  <2>4. end # 0 => <<[type |-> "FUNC", value |-> SubSeq(text, i, end)]>>
                         \o rest[end + 1] \in Seq(TokenSet(T))
    BY <1>6, <2>1, <2>3
  <2> QED
    BY <2>2, <2>4
<1> HIDE DEF end
<1>9. /\ <<Token("AND")>> \o rest[i + 2] \in Seq(TokenSet(T)) \/ ~(i < Len(text))
      /\ <<Token("OR")>> \o rest[i + 2] \in Seq(TokenSet(T)) \/ ~(i < Len(text))
      /\ <<Token("NOT")>> \o rest[i + 1] \in Seq(TokenSet(T))
      /\ <<Token("LPAREN")>> \o rest[i + 1] \in Seq(TokenSet(T))
      /\ <<Token("RPAREN")>> \o rest[i + 1] \in Seq(TokenSet(T))
      /\ <<Token("ERROR")>> \in Seq(TokenSet(T))
  BY <1>4, <1>8
<1> QED
  BY <1>4, <1>8, <1>9, Zenon DEF LexAt, end

LexesFrom(text, lex, m) ==
  lex = [i \in m .. (Len(text) + 1) |->
           IF i > Len(text) THEN <<>> ELSE LexAt(text, lex, i)]

\* There is a table of the tokens from every position on, and LexFrom returns its first.
LEMMA LexIs ==
  ASSUME NEW T, NEW text \in Seq(T)
  PROVE  \E lex : /\ \A i \in 1 .. Len(text) : lex[i] = LexAt(text, lex, i)
                  /\ lex[Len(text) + 1] = <<>>
                  /\ \A i \in 1 .. (Len(text) + 1) : lex[i] \in Seq(TokenSet(T))
                  /\ LexFrom(text) = lex[1]
<1> DEFINE n == Len(text)
           From == {m \in 1 .. (n + 1) : \E p : LexesFrom(text, p, m)}
<1>0. n \in Nat
  OBVIOUS
<1>1. n + 1 \in From
  <2> DEFINE p == [i \in (n + 1) .. (n + 1) |-> <<>>]
  <2>1. \A i \in (n + 1) .. (n + 1) : i > n
    BY <1>0
  <2>2. LexesFrom(text, p, n + 1)
    <3>1. \A q : [i \in (n + 1) .. (n + 1) |-> IF i > n THEN <<>> ELSE LexAt(text, q, i)] = p
      BY <2>1
    <3> HIDE DEF p
    <3> QED
      BY <3>1 DEF LexesFrom
  <2> QED
    BY <2>2, <1>0
<1>2. ASSUME NEW m \in 1 .. n, m + 1 \in From
      PROVE  m \in From
  <2>1. PICK p : LexesFrom(text, p, m + 1)
    BY <1>2
  <2>2. \A i \in (m + 1) .. (n + 1) : p[i] = IF i > n THEN <<>> ELSE LexAt(text, p, i)
    BY <2>1 DEF LexesFrom
  <2> DEFINE q == [i \in m .. (n + 1) |-> IF i = m THEN LexAt(text, p, m) ELSE p[i]]
  <2>3. /\ \A i \in (m + 1) .. (n + 1) : q[i] = p[i]
        /\ q[m] = LexAt(text, p, m)
    BY <1>0
  <2>4. q = [i \in m .. (n + 1) |-> q[i]]
    OBVIOUS
  <2> HIDE DEF q
  <2>5. ASSUME NEW i \in m .. (n + 1)
        PROVE  q[i] = IF i > n THEN <<>> ELSE LexAt(text, q, i)
    <3>1. i <= n => LexAt(text, q, i) = LexAt(text, p, i)
      <4>1. \A k \in (i + 1) .. (n + 1) : k \in (m + 1) .. (n + 1)
        BY <1>0
      <4>2. i <= n => i \in 1 .. n
        BY <1>0
      <4> QED
        BY <4>1, <4>2, <2>3, LexLooksAhead
    <3>2. CASE i = m
      BY <3>1, <3>2, <2>3, <1>0
    <3>3. CASE i # m
      <4>1. i \in (m + 1) .. (n + 1)
        BY <3>3, <1>0
      <4> QED
        BY <4>1, <3>1, <2>2, <2>3, <1>0
    <3> QED
      BY <3>2, <3>3
  <2>6. LexesFrom(text, q, m)
    BY <2>4, <2>5 DEF LexesFrom
  <2> QED
    BY <2>6, <1>0
<1>3. 1 \in From
  <2>1. 1 .. (n + 1) \subseteq From
    <3> HIDE DEF From
    <3> QED
      BY <1>0, <1>1, <1>2, InductionDown
  <2> HIDE DEF From
  <2> QED
    BY <1>0, <2>1
<1> DEFINE Solves(p) == p = [i \in 1 .. (n + 1) |-> IF i > n THEN <<>> ELSE LexAt(text, p, i)]
           lex == CHOOSE p : Solves(p)
<1>4. Solves(lex)
  <2>1. \E p : Solves(p)
    BY <1>3 DEF LexesFrom
  <2> HIDE DEF Solves
  <2> QED
    BY <2>1
<1>5. LexFrom(text) = lex[1]
  BY DEF LexFrom
<1> HIDE DEF lex
<1>6. /\ \A i \in 1 .. n : lex[i] = LexAt(text, lex, i)
      /\ lex[n + 1] = <<>>
  <2>1. \A i \in 1 .. (n + 1) : lex[i] = IF i > n THEN <<>> ELSE LexAt(text, lex, i)
    BY <1>4
  <2> QED
    BY <2>1, <1>0
<1> DEFINE Fine == {m \in 1 .. (n + 1) :
                      \A i \in m .. (n + 1) : lex[i] \in Seq(TokenSet(T))}
<1>7. n + 1 \in Fine
  <2>1. \A i \in (n + 1) .. (n + 1) : i = n + 1
    BY <1>0
  <2>2. <<>> \in Seq(TokenSet(T))
    OBVIOUS
  <2>3. lex[n + 1] \in Seq(TokenSet(T))
    BY <1>6, <2>2
  <2>4. \A i \in (n + 1) .. (n + 1) : lex[i] \in Seq(TokenSet(T))
    BY <2>1, <2>3, Zenon
  <2> QED
    BY <1>0, <2>4
<1>8. ASSUME NEW m \in 1 .. n, m + 1 \in Fine
      PROVE  m \in Fine
  <2>1. lex[m] \in Seq(TokenSet(T))
    BY <1>6, <1>8, LexAtIsTokens
  <2>2. \A i \in m .. (n + 1) : i = m \/ i \in (m + 1) .. (n + 1)
    BY <1>0
  <2> QED
    BY <1>0, <1>8, <2>1, <2>2
<1>9. 1 \in Fine
  <2>1. 1 .. (n + 1) \subseteq Fine
    <3> HIDE DEF Fine
    <3> QED
      BY <1>0, <1>7, <1>8, InductionDown
  <2> HIDE DEF Fine
  <2> QED
    BY <1>0, <2>1
<1> QED
  BY <1>5, <1>6, <1>9

-------------------------------------------------------------------------------
(* The text of a call.                                                      *)

ValueChars(call) == UNION {Range(call.args[a]) : a \in DOMAIN call.args}

Chars ==
  (Letters \cup Digits \cup Special \cup UNION {Range(text) : text \in Strays})
    \cup UNION {ValueChars(call) : call \in Calls}

\* The characters that mean something are different.
LEMMA CharsDiffer ==
  /\ Space # Comma /\ Space # Backtick /\ Comma # Backtick
  /\ Space \notin {"&", "|", "!", "(", ")"}
  /\ Comma \notin {"&", "|", "!", "(", ")"}
  /\ Backtick \notin {"&", "|", "!", "(", ")"}
BY Zenon DEF Space, Comma, Backtick

\* Two sequences put together.
LEMMA ConcatIs ==
  ASSUME NEW T, NEW s \in Seq(T), NEW t \in Seq(T)
  PROVE  /\ s \o t \in Seq(T)
         /\ Len(s \o t) = Len(s) + Len(t)
         /\ \A m \in 1 .. Len(s) : (s \o t)[m] = s[m]
         /\ \A m \in 1 .. Len(t) : (s \o t)[Len(s) + m] = t[m]
<1>1. Len(s) \in Nat /\ Len(t) \in Nat
  OBVIOUS
<1>2. s \o t \in Seq(T) /\ Len(s \o t) = Len(s) + Len(t)
  OBVIOUS
<1>3. \A m \in 1 .. Len(s) : (s \o t)[m] = s[m]
  BY <1>1
<1>4. \A m \in 1 .. Len(t) : (s \o t)[Len(s) + m] = t[m]
  BY <1>1
<1> QED
  BY <1>2, <1>3, <1>4

\* Depths add up.
LEMMA DepthSplit ==
  ASSUME NEW T, NEW text \in Seq(T), NEW i \in 1 .. (Len(text) + 1),
         NEW m \in (i - 1) .. Len(text), NEW j \in m .. Len(text)
  PROVE  Depth(text, i, j) = Depth(text, i, m) + Depth(text, m + 1, j)
<1>0. DOMAIN text = 1 .. Len(text) /\ Len(text) \in Nat
  OBVIOUS
<1>1. /\ i .. j \subseteq DOMAIN text /\ i .. m \subseteq DOMAIN text
      /\ (m + 1) .. j \subseteq DOMAIN text
  BY <1>0
<1>2. /\ Depth(text, i, j) = Level(Signs(text), i, j + 1)
      /\ Depth(text, i, m) = Level(Signs(text), i, m + 1)
      /\ Depth(text, m + 1, j) = Level(Signs(text), m + 1, j + 1)
  BY <1>0, <1>1, DepthIsLevel
<1>3. i <= m + 1 /\ m + 1 <= j + 1 /\ m + 1 \in Int /\ j + 1 \in Int
  BY <1>0
<1>4. Level(Signs(text), i, j + 1)
        = Level(Signs(text), i, m + 1) + Level(Signs(text), m + 1, j + 1)
  BY <1>3, LevelSplit
<1> QED
  BY <1>2, <1>4

\* The characters of a quoted value.
LEMMA QuotedIs ==
  ASSUME NEW v \in Seq(Chars)
  PROVE  /\ Quoted(v) \in Seq(Chars)
         /\ Len(Quoted(v)) = Len(v) + 2
         /\ Quoted(v)[1] = Backtick /\ Quoted(v)[Len(v) + 2] = Backtick
         /\ \A m \in 1 .. Len(v) : Quoted(v)[m + 1] = v[m]
<1>1. Backtick \in Chars
  BY DEF Chars, Special
<1>2. <<Backtick>> \in Seq(Chars) /\ Len(v) \in Nat
  BY <1>1
<1> DEFINE q == <<Backtick>> \o v
<1>3. /\ q \in Seq(Chars) /\ Len(q) = Len(v) + 1 /\ q[1] = Backtick
      /\ \A m \in 1 .. Len(v) : q[m + 1] = v[m]
  BY <1>2
<1> HIDE DEF q
<1>4. /\ q \o <<Backtick>> \in Seq(Chars)
      /\ Len(q \o <<Backtick>>) = Len(q) + 1
      /\ (q \o <<Backtick>>)[Len(q) + 1] = Backtick
      /\ \A m \in 1 .. Len(q) : (q \o <<Backtick>>)[m] = q[m]
  BY <1>2, <1>3
<1>5. Quoted(v) = q \o <<Backtick>>
  BY DEF Quoted, q
<1> DEFINE w == Quoted(v)
<1> HIDE DEF w
<1>6. \A m \in 1 .. Len(v) : m + 1 \in 1 .. Len(q)
  BY <1>2, <1>3
<1>7. 1 \in 1 .. Len(q) /\ Len(v) + 2 = Len(q) + 1
  BY <1>2, <1>3
<1> QED
  BY <1>3, <1>4, <1>5, <1>6, <1>7

(* The text of an argument: after off characters the quoted value.          *)
ArgText(value, off) ==
  IF off = 0 THEN Quoted(value) ELSE <<Comma, Space>> \o Quoted(value)

\* The characters of an argument.
LEMMA ArgTextIs ==
  ASSUME NEW v \in Seq(Chars), NEW off \in {0, 2}
  PROVE  LET g == ArgText(v, off)
         IN  /\ g \in Seq(Chars) /\ Len(g) = off + Len(v) + 2
             /\ off = 2 => g[1] = Comma /\ g[2] = Space
             /\ g[off + 1] = Backtick /\ g[off + Len(v) + 2] = Backtick
             /\ \A m \in 1 .. Len(v) : g[off + 1 + m] = v[m]
<1>0. Len(v) \in Nat
  OBVIOUS
<1>1. CASE off = 0
  <2>1. ArgText(v, off) = Quoted(v)
    BY <1>1 DEF ArgText
  <2>2. \A m \in 1 .. Len(v) : off + 1 + m = m + 1
    BY <1>1, <1>0
  <2>3. off + 1 = 1 /\ off + Len(v) + 2 = Len(v) + 2 /\ off # 2
    BY <1>1, <1>0
  <2> QED
    BY <2>1, <2>2, <2>3, QuotedIs
<1>2. CASE off = 2
  <2> DEFINE q == Quoted(v)
             c == <<Comma, Space>>
  <2>1. /\ q \in Seq(Chars) /\ Len(q) = Len(v) + 2
        /\ q[1] = Backtick /\ q[Len(v) + 2] = Backtick
        /\ \A m \in 1 .. Len(v) : q[m + 1] = v[m]
    BY QuotedIs
  <2>2. Comma \in Chars /\ Space \in Chars
    BY DEF Chars, Special
  <2>3. c \in Seq(Chars) /\ Len(c) = 2 /\ c[1] = Comma /\ c[2] = Space
    <3>1. c \in Seq(Chars)
      BY <2>2
    <3> QED
      BY <3>1
  <2>4. ArgText(v, off) = c \o q
    BY <1>2 DEF ArgText
  <2> HIDE DEF q, c
  <2>5. /\ c \o q \in Seq(Chars) /\ Len(c \o q) = 2 + Len(q)
        /\ (c \o q)[1] = c[1] /\ (c \o q)[2] = c[2]
        /\ \A m \in 1 .. Len(q) : (c \o q)[2 + m] = q[m]
    <3>1. /\ c \o q \in Seq(Chars) /\ Len(c \o q) = Len(c) + Len(q)
          /\ \A m \in 1 .. Len(c) : (c \o q)[m] = c[m]
          /\ \A m \in 1 .. Len(q) : (c \o q)[Len(c) + m] = q[m]
      <4>1. c \in Seq(Chars) /\ q \in Seq(Chars)
        BY <2>1, <2>3
      <4> QED
        BY ONLY <4>1, ConcatIs
    <3>2. 1 \in 1 .. Len(c) /\ 2 \in 1 .. Len(c)
      BY <2>3
    <3> QED
      BY <2>3, <3>1, <3>2
  <2>6. /\ 2 + Len(q) = off + Len(v) + 2 /\ off + 1 = 2 + 1 /\ 1 \in 1 .. Len(q)
        /\ Len(v) + 2 \in 1 .. Len(q) /\ off + Len(v) + 2 = 2 + (Len(v) + 2)
        /\ \A m \in 1 .. Len(v) : m + 1 \in 1 .. Len(q) /\ off + 1 + m = 2 + (m + 1)
    BY <1>0, <1>2, <2>1
  <2>7. \A m \in 1 .. Len(v) : (c \o q)[off + 1 + m] = v[m]
    BY <2>1, <2>5, <2>6
  <2>8. (c \o q)[off + 1] = Backtick /\ (c \o q)[off + Len(v) + 2] = Backtick
    BY <2>1, <2>5, <2>6
  <2> QED
    BY <2>3, <2>4, <2>5, <2>6, <2>7, <2>8
<1> QED
  BY <1>1, <1>2

ArgTexts(call) ==
  [i \in DOMAIN call.args |-> ArgText(call.args[i], IF i = 1 THEN 0 ELSE 2)]

\* The parts of a call are texts of characters that may occur in a rule.
LEMMA CallsAre ==
  ASSUME NEW call \in Calls
  PROVE  /\ call.name \in Letters /\ call.name \in Chars
         /\ call.args \in Seq(Seq(Chars))
         /\ \A a \in 1 .. Len(call.args) : \A m \in 1 .. Len(call.args[a]) :
              call.args[a][m] # Backtick
         /\ ArgTexts(call) \in Seq(Seq(Chars))
         /\ Len(ArgTexts(call)) = Len(call.args)
         /\ \A a \in 1 .. Len(call.args) :
              ArgTexts(call)[a] = ArgText(call.args[a], IF a = 1 THEN 0 ELSE 2)
<1>1. /\ call.name \in Letters
      /\ call.args \in Seq(Range(call.args))
      /\ \A a \in DOMAIN call.args :
           /\ call.args[a] \in Seq(Range(call.args[a]))
           /\ Backtick \notin Range(call.args[a])
  BY TextAssumption
<1>2. DOMAIN call.args = 1 .. Len(call.args) /\ Len(call.args) \in Nat
  BY <1>1
<1>3. \A a \in 1 .. Len(call.args) : call.args[a] \in Seq(Chars)
  <2> SUFFICES ASSUME NEW a \in 1 .. Len(call.args)
               PROVE  call.args[a] \in Seq(Chars)
    OBVIOUS
  <2>1. Range(call.args[a]) \subseteq Chars
    <3>1. Range(call.args[a]) \in {Range(call.args[b]) : b \in DOMAIN call.args}
      BY <1>2
    <3>2. ValueChars(call) \in {ValueChars(c) : c \in Calls}
      OBVIOUS
    <3>3. \A R, S : R \in S => R \subseteq UNION S
      OBVIOUS
    <3>4. UNION {ValueChars(c) : c \in Calls} \subseteq Chars
      BY DEF Chars
    <3>5. ValueChars(call) \subseteq Chars
      BY <3>2, <3>3, <3>4
    <3>6. Range(call.args[a]) \subseteq ValueChars(call)
      BY <3>1, <3>3 DEF ValueChars
    <3> QED
      BY <3>5, <3>6
  <2>2. call.args[a] \in Seq(Range(call.args[a]))
    BY <1>1, <1>2
  <2>3. \A S, R : S \subseteq R => Seq(S) \subseteq Seq(R)
    OBVIOUS
  <2> QED
    BY <2>1, <2>2, <2>3
<1>4. ASSUME NEW a \in 1 .. Len(call.args), NEW m \in 1 .. Len(call.args[a])
      PROVE  call.args[a][m] # Backtick
  <2>1. m \in DOMAIN call.args[a]
    BY <1>3
  <2>2. call.args[a][m] \in Range(call.args[a])
    BY <2>1 DEF Range
  <2> QED
    BY <2>2, <1>1, <1>2
<1>5. call.args \in Seq(Seq(Chars))
  BY <1>1, <1>2, <1>3
<1>6. \A a \in 1 .. Len(call.args) :
        ArgText(call.args[a], IF a = 1 THEN 0 ELSE 2) \in Seq(Chars)
  BY <1>3, ArgTextIs
<1>7. ArgTexts(call) = [a \in 1 .. Len(call.args) |->
                          ArgText(call.args[a], IF a = 1 THEN 0 ELSE 2)]
  BY <1>2 DEF ArgTexts
<1>8. ArgTexts(call) \in Seq(Seq(Chars)) /\ Len(ArgTexts(call)) = Len(call.args)
  BY <1>2, <1>6, <1>7
<1> QED
  BY <1>1, <1>4, <1>5, <1>7, <1>8 DEF Chars

\* The text of a call: its name, and its arguments in parentheses.
LEMMA CallTextIs ==
  ASSUME NEW call \in Calls
  PROVE  LET inner == FlattenSeq(ArgTexts(call))
             w == PieceText(CallPiece(call))
         IN  /\ inner \in Seq(Chars)
             /\ \E at : Parts(ArgTexts(call), inner, at)
             /\ w \in Seq(Chars) /\ Len(w) = Len(inner) + 3
             /\ w[1] = call.name /\ w[2] = "(" /\ w[Len(inner) + 3] = ")"
             /\ \A m \in 1 .. Len(inner) : w[m + 2] = inner[m]
<1> DEFINE inner == FlattenSeq(ArgTexts(call))
           w == PieceText(CallPiece(call))
           head == <<call.name, "(">>
           tail == <<")">>
<1>1. /\ inner \in Seq(Chars)
      /\ \E at : Parts(ArgTexts(call), inner, at)
  BY CallsAre, FlattenIs
<1>2. w = head \o inner \o tail
  <2>1. /\ CallPiece(call).type = "CALL" /\ CallPiece(call).call = call
    BY DEF CallPiece
  <2>2. [i \in DOMAIN call.args |->
           IF i = 1 THEN Quoted(call.args[i])
           ELSE <<Comma, Space>> \o Quoted(call.args[i])] = ArgTexts(call)
    BY DEF ArgTexts, ArgText
  <2> QED
    BY <2>1, <2>2 DEF PieceText
<1>3. /\ head \in Seq(Chars) /\ Len(head) = 2 /\ head[1] = call.name /\ head[2] = "("
      /\ tail \in Seq(Chars) /\ Len(tail) = 1 /\ tail[1] = ")"
  <2>1. "(" \in Chars /\ ")" \in Chars /\ call.name \in Chars
    BY CallsAre DEF Chars, Special
  <2> QED
    BY <2>1
<1> HIDE DEF inner, w, head, tail
<1>4. Len(inner) \in Nat
  BY <1>1
<1>5. /\ head \o inner \in Seq(Chars) /\ Len(head \o inner) = Len(inner) + 2
      /\ (head \o inner)[1] = head[1] /\ (head \o inner)[2] = head[2]
      /\ \A m \in 1 .. Len(inner) : (head \o inner)[m + 2] = inner[m]
  <2>1. /\ head \o inner \in Seq(Chars) /\ Len(head \o inner) = Len(head) + Len(inner)
        /\ \A m \in 1 .. Len(head) : (head \o inner)[m] = head[m]
        /\ \A m \in 1 .. Len(inner) : (head \o inner)[Len(head) + m] = inner[m]
    <3>1. head \in Seq(Chars) /\ inner \in Seq(Chars)
      BY <1>1, <1>3
    <3> QED
      BY ONLY <3>1, ConcatIs
  <2>2. 1 \in 1 .. Len(head) /\ 2 \in 1 .. Len(head)
        /\ \A m \in 1 .. Len(inner) : Len(head) + m = m + 2
    BY <1>3, <1>4
  <2> QED
    BY <1>3, <1>4, <2>1, <2>2
<1> DEFINE h == head \o inner
<1> HIDE DEF h
<1>6. /\ h \o tail \in Seq(Chars) /\ Len(h \o tail) = Len(h) + 1
      /\ (h \o tail)[Len(h) + 1] = tail[1]
      /\ \A m \in 1 .. Len(h) : (h \o tail)[m] = h[m]
  <2>1. /\ h \o tail \in Seq(Chars) /\ Len(h \o tail) = Len(h) + Len(tail)
        /\ \A m \in 1 .. Len(h) : (h \o tail)[m] = h[m]
        /\ \A m \in 1 .. Len(tail) : (h \o tail)[Len(h) + m] = tail[m]
    BY <1>3, <1>5, ConcatIs DEF h
  <2>2. 1 \in 1 .. Len(tail)
    BY <1>3
  <2> QED
    BY <1>3, <2>1, <2>2
<1>7. /\ Len(h) = Len(inner) + 2 /\ Len(h) + 1 = Len(inner) + 3
      /\ 1 \in 1 .. Len(h) /\ 2 \in 1 .. Len(h)
      /\ \A m \in 1 .. Len(inner) : m + 2 \in 1 .. Len(h)
  BY <1>4, <1>5 DEF h
<1>8. w = h \o tail
  BY <1>2 DEF h
<1>9. /\ w \in Seq(Chars) /\ Len(w) = Len(inner) + 3
      /\ w[1] = h[1] /\ w[2] = h[2] /\ w[Len(inner) + 3] = ")"
      /\ \A m \in 1 .. Len(inner) : w[m + 2] = h[m + 2]
  BY <1>3, <1>6, <1>7, <1>8
<1> QED
  BY <1>1, <1>3, <1>5, <1>9 DEF inner, w, h

BalancedText(v) ==
  /\ Depth(v, 1, Len(v)) = 0
  /\ \A j \in 1 .. Len(v) : Depth(v, 1, j) >= 0

\* Quoting a value and putting a comma before it leaves its parentheses as they are.
LEMMA ArgIsBalanced ==
  ASSUME NEW v \in Seq(Chars), BalancedText(v), NEW off \in {0, 2}
  PROVE  LET g == ArgText(v, off)
         IN  /\ Depth(g, 1, Len(g)) = 0
             /\ \A j \in 0 .. Len(g) : Depth(g, 1, j) >= 0
<1> DEFINE g == ArgText(v, off)
           n == Len(v)
<1>1. /\ g \in Seq(Chars) /\ Len(g) = off + n + 2
      /\ off = 2 => g[1] = Comma /\ g[2] = Space
      /\ g[off + 1] = Backtick /\ g[off + n + 2] = Backtick
      /\ \A m \in 1 .. n : g[off + 1 + m] = v[m]
  BY ArgTextIs
<1>2. n \in Nat /\ off \in Nat /\ Len(g) = off + n + 2 /\ Len(g) \in Nat
  <2>1. off \in Nat
    OBVIOUS
  <2>2. n \in Nat
    OBVIOUS
  <2> HIDE DEF g, n
  <2> QED
    BY <2>1, <2>2, <1>1
<1> HIDE DEF g
<1> HIDE DEF n
<1>3. Change(Comma) = 0 /\ Change(Space) = 0 /\ Change(Backtick) = 0
  BY CharsDiffer, Zenon DEF Change
<1>4. /\ Depth(g, 1, 0) = 0
      /\ \A j \in 1 .. Len(g) : Depth(g, 1, j) = Depth(g, 1, j - 1) + Change(g[j])
      /\ \A j \in 0 .. Len(g) : Depth(g, 1, j) \in Int
  <2>1. 1 \in 1 .. (Len(g) + 1) /\ 1 - 1 = 0 /\ g \in Seq(Chars)
    BY <1>1, <1>2
  <2>2. /\ Depth(g, 1, 1 - 1) = 0
        /\ \A j \in (1 - 1) .. Len(g) : Depth(g, 1, j) \in Int
        /\ \A j \in 1 .. Len(g) : Depth(g, 1, j) = Depth(g, 1, j - 1) + Change(g[j])
    BY <2>1, DepthStep
  <2> QED
    BY <2>1, <2>2
<1>5. \A j \in 0 .. (off + 1) : Depth(g, 1, j) = 0
  <2>1. CASE off = 0
    <3>1. 1 \in 1 .. Len(g) /\ 1 - 1 = 0 /\ off + 1 = 1
      BY <2>1, <1>2
    <3>2. Depth(g, 1, 1) = 0
      BY <3>1, <1>1, <1>3, <1>4
    <3> QED
      BY <3>1, <3>2, <1>4
  <2>2. CASE off = 2
    <3>1. /\ 1 \in 1 .. Len(g) /\ 2 \in 1 .. Len(g) /\ 3 \in 1 .. Len(g)
          /\ 1 - 1 = 0 /\ 2 - 1 = 1 /\ 3 - 1 = 2 /\ off + 1 = 3
      BY <2>2, <1>2
    <3>2. Depth(g, 1, 1) = 0
      BY <2>2, <3>1, <1>1, <1>3, <1>4
    <3>3. Depth(g, 1, 2) = 0
      BY <2>2, <3>1, <3>2, <1>1, <1>3, <1>4
    <3>4. Depth(g, 1, 3) = 0
      BY <2>2, <3>1, <3>3, <1>1, <1>3, <1>4
    <3>5. \A j \in 0 .. 3 : j = 0 \/ j = 1 \/ j = 2 \/ j = 3
      OBVIOUS
    <3> QED
      BY <3>1, <3>2, <3>3, <3>4, <3>5, <1>4
  <2> QED
    BY <2>1, <2>2
<1>6. \A k \in 0 .. n : Depth(g, 1, off + 1 + k) = Depth(v, 1, k)
  <2>1. Occurs(v, g, off + 1)
    BY <1>1, <1>2 DEF Occurs, n
  <2>3. \A k \in 0 .. n : Depth(g, (off + 1) + 1, (off + 1) + k) = Depth(v, 1, k)
    BY <2>1, <1>1, DepthShift DEF n
  <2> SUFFICES ASSUME NEW k \in 0 .. n
               PROVE  Depth(g, 1, off + 1 + k) = Depth(v, 1, k)
    OBVIOUS
  <2>4. /\ off + 1 \in 0 .. Len(g) /\ off + 1 + k \in (off + 1) .. Len(g)
        /\ (off + 1) + 1 = off + 2 /\ off + 1 \in 0 .. (off + 1)
    BY <1>2
  <2>5. Depth(g, 1, off + 1 + k)
          = Depth(g, 1, off + 1) + Depth(g, off + 2, off + 1 + k)
    <3>1. 1 \in 1 .. (Len(g) + 1) /\ off + 1 \in (1 - 1) .. Len(g)
      BY <1>2
    <3> QED
      BY <3>1, <2>4, <1>1, DepthSplit
  <2>6. Depth(g, off + 2, off + 1 + k) = Depth(v, 1, k)
    BY <2>3, <2>4
  <2>7. Depth(v, 1, k) \in Int
    <3>1. 1 \in 1 .. (Len(v) + 1) /\ k \in (1 - 1) .. Len(v)
      BY <1>2 DEF n
    <3> QED
      BY <3>1, DepthStep
  <2> QED
    BY <2>4, <2>5, <2>6, <2>7, <1>5
<1>7. \A k \in 0 .. n : Depth(v, 1, k) >= 0
  <2>1. Depth(v, 1, 0) = 0
    <3>1. 1 \in 1 .. (Len(v) + 1) /\ 1 - 1 = 0
      BY <1>2 DEF n
    <3> QED
      BY <3>1, DepthStep
  <2> QED
    BY <2>1 DEF BalancedText, n
<1>8. Depth(g, 1, Len(g)) = 0
  <2>1. Len(g) \in 1 .. Len(g) /\ Len(g) - 1 = off + 1 + n /\ n \in 0 .. n
    BY <1>2
  <2>2. Depth(g, 1, off + 1 + n) = 0
    BY <2>1, <1>6 DEF BalancedText, n
  <2> QED
    BY <2>1, <2>2, <1>1, <1>3, <1>4
<1>9. ASSUME NEW j \in 0 .. Len(g)
      PROVE  Depth(g, 1, j) >= 0
  <2>1. CASE j <= off + 1
    BY <2>1, <1>5
  <2>2. CASE j = Len(g)
    BY <2>2, <1>8
  <2>3. CASE j > off + 1 /\ j # Len(g)
    <3>1. j - (off + 1) \in 0 .. n /\ off + 1 + (j - (off + 1)) = j
      BY <2>3, <1>2
    <3> QED
      BY <3>1, <1>6, <1>7
  <2> QED
    BY <2>1, <2>2, <2>3
<1> QED
  BY <1>8, <1>9 DEF g

-------------------------------------------------------------------------------
(* Balanced calls.                                                          *)

\* No parenthesis is closed before it is opened, and all are closed in the end.
Even(text) ==
  /\ Depth(text, 1, Len(text)) = 0
  /\ \A j \in 0 .. Len(text) : Depth(text, 1, j) >= 0

\* The sequences that make a whole occur in it.
LEMMA PartsOccur ==
  ASSUME NEW T, NEW seqs \in Seq(Seq(T)), NEW whole \in Seq(T), NEW at,
         Parts(seqs, whole, at)
  PROVE  /\ at[1] = 0 /\ at[Len(seqs) + 1] = Len(whole)
         /\ \A k \in 1 .. (Len(seqs) + 1) : at[k] \in 0 .. Len(whole)
         /\ \A k \in 1 .. Len(seqs) :
              Occurs(seqs[k], whole, at[k]) /\ at[k + 1] = at[k] + Len(seqs[k])
<1>0. Len(seqs) \in Nat /\ Len(whole) \in Nat
  OBVIOUS
<1>1. /\ at[1] = 0 /\ Len(whole) = at[Len(seqs) + 1]
      /\ \A k \in 1 .. (Len(seqs) + 1) : at[k] \in 0 .. Len(whole)
      /\ \A k \in 1 .. Len(seqs) :
           /\ at[k + 1] = at[k] + Len(seqs[k])
           /\ \A m \in 1 .. Len(seqs[k]) : whole[at[k] + m] = seqs[k][m]
  BY DEF Parts, PartsUpTo
<1>2. ASSUME NEW k \in 1 .. Len(seqs)
      PROVE  Occurs(seqs[k], whole, at[k])
  <2>1. k \in 1 .. (Len(seqs) + 1) /\ k + 1 \in 1 .. (Len(seqs) + 1)
    BY <1>0
  <2>2. at[k] \in 0 .. Len(whole) /\ at[k] + Len(seqs[k]) <= Len(whole)
    BY <2>1, <1>0, <1>1
  <2> QED
    BY <1>1, <2>2 DEF Occurs
<1> QED
  BY <1>1, <1>2

\* What is made of texts with even parentheses has even parentheses.
LEMMA PartsAreEven ==
  ASSUME NEW T, NEW seqs \in Seq(Seq(T)), NEW whole \in Seq(T), NEW at,
         Parts(seqs, whole, at),
         \A k \in 1 .. Len(seqs) : Even(seqs[k])
  PROVE  Even(whole)
<1> DEFINE n == Len(seqs)
           L == Len(whole)
           D == {k \in 0 .. n : /\ Depth(whole, 1, at[k + 1]) = 0
                                /\ \A j \in 0 .. at[k + 1] : Depth(whole, 1, j) >= 0}
<1>0. n \in Nat /\ L \in Nat
  OBVIOUS
<1>1. /\ at[1] = 0 /\ at[n + 1] = L
      /\ \A k \in 1 .. (n + 1) : at[k] \in 0 .. L
      /\ \A k \in 1 .. n :
           Occurs(seqs[k], whole, at[k]) /\ at[k + 1] = at[k] + Len(seqs[k])
  BY PartsOccur
<1>2. /\ Depth(whole, 1, 0) = 0
      /\ \A j \in 0 .. L : Depth(whole, 1, j) \in Int
  <2>1. 1 \in 1 .. (L + 1) /\ 1 - 1 = 0
    BY <1>0
  <2> QED
    BY <2>1, DepthStep
<1>3. 0 \in D
  <2>1. at[0 + 1] = 0 /\ \A j \in 0 .. 0 : j = 0
    BY <1>1
  <2> QED
    BY <2>1, <1>0, <1>2
<1>4. ASSUME NEW k \in 0 .. (n - 1), k \in D
      PROVE  k + 1 \in D
  <2> DEFINE p == at[k + 1]
             s == seqs[k + 1]
             q == at[k + 2]
  <2>1. k + 1 \in 1 .. n /\ k + 1 \in 0 .. n /\ (k + 1) + 1 = k + 2
        /\ k + 1 \in 1 .. (n + 1)
    BY <1>0
  <2>2. /\ Occurs(s, whole, p) /\ q = p + Len(s) /\ p \in 0 .. L /\ s \in Seq(T)
        /\ Even(s) /\ Len(s) \in Nat
    <3>1. s \in Seq(T)
      BY <2>1
    <3> QED
      BY <3>1, <1>1, <2>1
  <2>3. Depth(whole, 1, p) = 0 /\ \A j \in 0 .. p : Depth(whole, 1, j) >= 0
    BY <1>4
  <2> HIDE DEF p, s, q
  <2>4. p + Len(s) <= L
    BY <2>2 DEF Occurs, L
  <2> HIDE DEF L, n
  <2>5. ASSUME NEW m \in 0 .. Len(s)
        PROVE  Depth(whole, 1, p + m) = Depth(s, 1, m)
    <3>1. /\ 1 \in 1 .. (L + 1) /\ p \in (1 - 1) .. L /\ p + m \in p .. L /\ p + m \in 0 .. L
      BY <1>0, <2>2, <2>4
    <3>2. Depth(whole, 1, p + m) = Depth(whole, 1, p) + Depth(whole, p + 1, p + m)
      BY <3>1, DepthSplit DEF L
    <3>3. Depth(whole, p + 1, p + m) = Depth(s, 1, m)
      BY <2>2, DepthShift
    <3>4. Depth(s, 1, m) \in Int
      <4>1. 1 \in 1 .. (Len(s) + 1) /\ m \in (1 - 1) .. Len(s)
        BY <2>2
      <4> QED
        BY <4>1, <2>2, DepthStep
    <3> QED
      BY <2>3, <3>2, <3>3, <3>4
  <2>6. Depth(whole, 1, q) = 0
    <3>1. Len(s) \in 0 .. Len(s)
      BY <2>2
    <3> QED
      BY <3>1, <2>2, <2>5 DEF Even
  <2>7. ASSUME NEW j \in 0 .. q
        PROVE  Depth(whole, 1, j) >= 0
    <3>1. CASE j <= p
      BY <2>2, <2>3, <3>1
    <3>2. CASE j > p
      <4>1. j - p \in 0 .. Len(s) /\ p + (j - p) = j
        BY <3>2, <2>2
      <4>2. Depth(whole, 1, j) = Depth(s, 1, j - p)
        BY <4>1, <2>5
      <4>3. Depth(s, 1, j - p) >= 0
        BY <4>1, <2>2 DEF Even
      <4> QED
        BY <4>2, <4>3
    <3> QED
      BY <2>2, <3>1, <3>2
  <2>8. q = at[(k + 1) + 1]
    BY <2>1 DEF q
  <2> QED
    BY <2>1, <2>6, <2>7, <2>8
<1>5. n \in D
  <2> HIDE DEF D
  <2>1. 0 .. n \subseteq D
    BY <1>0, <1>3, <1>4, InductionUpTo
  <2> QED
    BY <1>0, <2>1
<1> QED
  BY <1>1, <1>5 DEF Even

\* The parentheses within the values of a call are balanced.
BalancedCall(call) ==
  \A a \in DOMAIN call.args : BalancedText(call.args[a])

\* So have the arguments of a balanced call.
LEMMA InnerIsEven ==
  ASSUME NEW call \in Calls, BalancedCall(call)
  PROVE  Even(FlattenSeq(ArgTexts(call)))
<1>1. /\ call.args \in Seq(Seq(Chars))
      /\ ArgTexts(call) \in Seq(Seq(Chars))
      /\ Len(ArgTexts(call)) = Len(call.args)
      /\ \A a \in 1 .. Len(call.args) :
           ArgTexts(call)[a] = ArgText(call.args[a], IF a = 1 THEN 0 ELSE 2)
  BY CallsAre
<1>2. \A a \in 1 .. Len(ArgTexts(call)) : Even(ArgTexts(call)[a])
  <2> SUFFICES ASSUME NEW a \in 1 .. Len(call.args)
               PROVE  Even(ArgTexts(call)[a])
    BY <1>1
  <2> DEFINE v == call.args[a]
             off == IF a = 1 THEN 0 ELSE 2
  <2>1. v \in Seq(Chars) /\ off \in {0, 2} /\ BalancedText(v)
    BY <1>1 DEF BalancedCall
  <2>2. ArgTexts(call)[a] = ArgText(v, off)
    BY <1>1
  <2> HIDE DEF v, off
  <2> QED
    BY <2>1, <2>2, ArgIsBalanced DEF Even
<1>3. /\ FlattenSeq(ArgTexts(call)) \in Seq(Chars)
      /\ \E at : Parts(ArgTexts(call), FlattenSeq(ArgTexts(call)), at)
  BY <1>1, FlattenIs
<1> QED
  BY <1>1, <1>2, <1>3, PartsAreEven

\* What occurs in a part occurs in the whole.
LEMMA OccursWithin ==
  ASSUME NEW T, NEW t \in Seq(T), NEW s \in Seq(T), NEW r \in Seq(T), NEW p, NEW q,
         Occurs(s, t, p), Occurs(r, s, q)
  PROVE  Occurs(r, t, p + q)
<1>1. Len(t) \in Nat /\ Len(s) \in Nat /\ Len(r) \in Nat
  OBVIOUS
<1>2. /\ p \in 0 .. Len(t) /\ p + Len(s) <= Len(t)
      /\ \A m \in 1 .. Len(s) : t[p + m] = s[m]
      /\ q \in 0 .. Len(s) /\ q + Len(r) <= Len(s)
      /\ \A m \in 1 .. Len(r) : s[q + m] = r[m]
  BY DEF Occurs
<1>3. \A m \in 1 .. Len(r) : q + m \in 1 .. Len(s) /\ (p + q) + m = p + (q + m)
  BY <1>1, <1>2
<1>4. \A m \in 1 .. Len(r) : t[(p + q) + m] = r[m]
  BY <1>2, <1>3
<1>5. p + q \in 0 .. Len(t) /\ (p + q) + Len(r) <= Len(t)
  BY <1>1, <1>2
<1> QED
  BY <1>4, <1>5 DEF Occurs

\* What occurs at p is what SubSeq returns from there.
LEMMA OccursIs ==
  ASSUME NEW T, NEW t \in Seq(T), NEW s \in Seq(T), NEW p, Occurs(s, t, p)
  PROVE  SubSeq(t, p + 1, p + Len(s)) = s
<1>1. Len(t) \in Nat /\ Len(s) \in Nat
  OBVIOUS
<1>2. /\ p \in 0 .. Len(t) /\ p + Len(s) <= Len(t)
      /\ \A m \in 1 .. Len(s) : t[p + m] = s[m]
  BY DEF Occurs
<1> DEFINE a == p + 1
           b == p + Len(s)
           sub == SubSeq(t, a, b)
<1>3. /\ a \in 1 .. (Len(t) + 1) /\ b \in (a - 1) .. Len(t) /\ b - a + 1 = Len(s)
      /\ \A k \in 1 .. Len(s) : a + k - 1 = p + k
  BY <1>1, <1>2
<1> HIDE DEF a, b
<1>4. /\ sub \in Seq(T) /\ Len(sub) = b - a + 1
      /\ \A k \in 1 .. (b - a + 1) : sub[k] = t[a + k - 1]
  BY <1>3, SubSeqIs
<1> HIDE DEF sub
<1>5. sub \in Seq(T) /\ Len(sub) = Len(s) /\ \A k \in 1 .. Len(s) : sub[k] = s[k]
  BY <1>2, <1>3, <1>4
<1>6. sub = s
  BY <1>5
<1> QED
  BY <1>6 DEF sub, a, b

-------------------------------------------------------------------------------
(* A balanced call is one token.                                            *)

\* A character with a meaning of its own is no part of a name.
LEMMA NameChars ==
  /\ \A c \in Special : ~isIdentChar(c) /\ ~isIdentStart(c)
  /\ \A c \in Letters : isIdentChar(c) /\ isIdentStart(c) /\ c \notin Special
<1>1. (Letters \cup Digits) \cap Special = {}
  BY TextAssumption
<1> QED
  BY <1>1, Zenon DEF isIdentChar, isIdentStart

\* lexFunc finds the end of a balanced call, wherever it stands.
LEMMA CallEnd ==
  ASSUME NEW call \in Calls, BalancedCall(call), NEW t \in Seq(Chars), NEW p,
         Occurs(PieceText(CallPiece(call)), t, p)
  PROVE  /\ p + 1 \in 1 .. Len(t)
         /\ lexFunc(t, p + 1) = p + Len(PieceText(CallPiece(call)))
<1> DEFINE w == PieceText(CallPiece(call))
           inner == FlattenSeq(ArgTexts(call))
           N == Len(t)
           L == Len(inner)
           i == p + 1
           open == p + 2
           last == p + L + 3
<1>1. /\ inner \in Seq(Chars) /\ w \in Seq(Chars) /\ Len(w) = Len(inner) + 3
      /\ w[1] = call.name /\ w[2] = "(" /\ w[Len(inner) + 3] = ")"
      /\ \A m \in 1 .. Len(inner) : w[m + 2] = inner[m]
  BY CallTextIs
<1>2. Even(inner)
  BY InnerIsEven
<1>3. call.name \in Letters
  BY CallsAre
<1>4. Occurs(w, t, p)
  OBVIOUS
<1> HIDE DEF w, inner
<1>5. L \in Nat /\ N \in Nat
  BY <1>1
<1> HIDE DEF L, N
<1>6. /\ p \in Nat /\ p + (L + 3) <= N
      /\ \A m \in 1 .. (L + 3) : t[p + m] = w[m]
  BY <1>1, <1>4, <1>5 DEF Occurs, L, N
<1>7. t[i] = call.name /\ t[open] = "(" /\ t[last] = ")"
  <2>1. 1 \in 1 .. (L + 3) /\ 2 \in 1 .. (L + 3) /\ L + 3 \in 1 .. (L + 3)
        /\ p + (L + 3) = last
    BY <1>5, <1>6
  <2> QED
    BY <2>1, <1>1, <1>6 DEF L
<1>8. Occurs(inner, t, p + 2)
  <2>1. \A m \in 1 .. L : m + 2 \in 1 .. (L + 3) /\ (p + 2) + m = p + (m + 2)
    BY <1>5, <1>6
  <2>2. \A m \in 1 .. L : t[(p + 2) + m] = inner[m]
    BY <2>1, <1>1, <1>6 DEF L
  <2>3. p + 2 \in 0 .. N /\ (p + 2) + L <= N
    BY <1>5, <1>6
  <2> QED
    BY <2>2, <2>3 DEF Occurs, L, N
<1>9. /\ open \in 1 .. N /\ i \in 1 .. N /\ last \in open .. N /\ open \in i .. (N + 1)
      /\ open <= N /\ last = p + (L + 3)
  BY <1>5, <1>6
<1>10. Min({k \in i .. (N + 1) : k = N + 1 \/ ~isIdentChar(t[k])}) = open
  <2> DEFINE S == {k \in i .. (N + 1) : k = N + 1 \/ ~isIdentChar(t[k])}
  <2>1. S \in SUBSET Int
    BY <1>5, <1>6
  <2>2. open \in S
    <3>1. "(" \in Special
      BY DEF Special
    <3> QED
      BY <3>1, <1>7, <1>9, NameChars
  <2>3. ASSUME NEW k \in S
        PROVE  open <= k
    <3>1. i \notin S
      <4>1. i # N + 1
        BY <1>5, <1>9
      <4> QED
        BY <4>1, <1>3, <1>7, NameChars
    <3>2. k # i /\ k \in i .. (N + 1)
      BY <3>1
    <3> HIDE DEF S
    <3> QED
      BY <3>2, <1>5, <1>6
  <2> HIDE DEF S
  <2>4. Min(S) = open
    BY <2>1, <2>2, <2>3, MinIs
  <2> QED
    BY <2>4 DEF S
<1>11. ASSUME NEW m \in 0 .. L
       PROVE  Depth(t, open, open + m) = 1 + Depth(inner, 1, m)
  <2>1. /\ open \in 1 .. (N + 1) /\ open \in (open - 1) .. N /\ open + m \in open .. N
        /\ open \in open .. N /\ open - 1 \in (open - 1) .. N
    BY <1>5, <1>6
  <2>2. Depth(t, open, open + m)
          = Depth(t, open, open) + Depth(t, open + 1, open + m)
    BY <2>1, DepthSplit DEF N
  <2>3. Depth(t, open, open) = 1
    <3>1. Depth(t, open, open - 1) = 0
      BY <2>1, DepthStep DEF N
    <3>2. Depth(t, open, open) = Depth(t, open, open - 1) + Change(t[open])
      BY <2>1, DepthStep DEF N
    <3> QED
      BY <3>1, <3>2, <1>7 DEF Change
  <2>4. Depth(t, (p + 2) + 1, (p + 2) + m) = Depth(inner, 1, m)
    <3>1. m \in 0 .. Len(inner)
      BY DEF L
    <3> QED
      BY <3>1, <1>1, <1>8, DepthShift
  <2>5. Depth(inner, 1, m) \in Int
    <3>1. 1 \in 1 .. (Len(inner) + 1) /\ m \in (1 - 1) .. Len(inner)
      BY <1>5 DEF L
    <3> QED
      BY <3>1, <1>1, DepthStep
  <2> QED
    BY <2>2, <2>3, <2>4, <2>5
<1>12. last \in CallEnds(t, open)
  <2>1. /\ L \in 0 .. L /\ last - 1 = open + L /\ open \in 1 .. (N + 1)
        /\ last \in open .. N
    BY <1>5, <1>6
  <2>2. Depth(t, open, open + L) = 1
    BY <2>1, <1>2, <1>11 DEF Even, L
  <2>3. Depth(t, open, last) = Depth(t, open, last - 1) + Change(t[last])
    BY <2>1, DepthStep DEF N
  <2>4. Change(t[last]) = -1
    BY <1>7 DEF Change
  <2>5. Depth(t, open, last) = 0
    BY <2>1, <2>2, <2>3, <2>4
  <2> QED
    BY <2>1, <2>5, <1>7 DEF CallEnds, N
<1>13. ASSUME NEW j \in CallEnds(t, open)
       PROVE  last <= j
  <2>1. j \in open .. N /\ Depth(t, open, j) = 0
    BY DEF CallEnds, N
  <2>2. CASE j < last
    <3>1. j - open \in 0 .. L /\ open + (j - open) = j
      BY <1>5, <1>6, <2>1, <2>2
    <3>2. Depth(t, open, j) = 1 + Depth(inner, 1, j - open)
      BY <3>1, <1>11
    <3>3. Depth(inner, 1, j - open) >= 0
      BY <3>1, <1>2 DEF Even, L
    <3>4. Depth(inner, 1, j - open) \in Int
      <4>1. 1 \in 1 .. (Len(inner) + 1) /\ j - open \in (1 - 1) .. Len(inner)
        BY <3>1, <1>5 DEF L
      <4> QED
        BY <4>1, <1>1, DepthStep
    <3> HIDE DEF open, last
    <3> QED
      BY <2>1, <3>2, <3>3, <3>4
  <2> QED
    BY <1>5, <1>6, <2>1, <2>2
<1>14. Min(CallEnds(t, open)) = last
  <2>1. CallEnds(t, open) \in SUBSET Int
    BY <1>5, <1>6 DEF CallEnds, N
  <2> HIDE DEF open, last
  <2> QED
    BY <2>1, <1>12, <1>13, MinIs
<1>15. lexFunc(t, i) = last
  <2>1. lexFunc(t, i) =
          IF open > N \/ t[open] # "(" \/ CallEnds(t, open) = {}
          THEN 0 ELSE Min(CallEnds(t, open))
    BY <1>10 DEF lexFunc, N
  <2>2. ~(open > N)
    BY <1>5, <1>6
  <2> HIDE DEF open, last
  <2> QED
    BY <2>1, <2>2, <1>7, <1>12, <1>14
<1> QED
  BY <1>1, <1>9, <1>15 DEF w, L, N

\* Lex makes one token of a balanced call, wherever it stands.
LEMMA CallIsLexed ==
  ASSUME NEW call \in Calls, BalancedCall(call), NEW t \in Seq(Chars), NEW p,
         Occurs(PieceText(CallPiece(call)), t, p), NEW rest
  PROVE  LexAt(t, rest, p + 1)
           = <<[type |-> "FUNC", value |-> PieceText(CallPiece(call))]>>
               \o rest[p + Len(PieceText(CallPiece(call))) + 1]
<1> DEFINE w == PieceText(CallPiece(call))
           i == p + 1
           end == p + Len(w)
<1>1. i \in 1 .. Len(t) /\ lexFunc(t, i) = end
  BY CallEnd
<1>2. w \in Seq(Chars) /\ w[1] = call.name /\ 1 \in 1 .. Len(w)
  <2> DEFINE L == Len(FlattenSeq(ArgTexts(call)))
  <2>1. /\ FlattenSeq(ArgTexts(call)) \in Seq(Chars)
        /\ w \in Seq(Chars) /\ w[1] = call.name /\ Len(w) = L + 3
    BY CallTextIs
  <2>2. L \in Nat
    BY <2>1
  <2> HIDE DEF L, w
  <2> QED
    BY <2>1, <2>2
<1>3. t[i] = call.name
  BY <1>2 DEF Occurs
<1>4. SubSeq(t, i, end) = w
  BY <1>2, OccursIs
<1>5. isIdentStart(t[i]) /\ t[i] \notin Special
  BY <1>3, CallsAre, NameChars
<1>6. end # 0
  <2>1. p \in Nat /\ Len(w) \in Nat \ {0}
    BY <1>2 DEF Occurs
  <2> HIDE DEF w
  <2> QED
    BY <2>1
<1> HIDE DEF w, i, end
<1>7. /\ t[i] # Space /\ t[i] # "&" /\ t[i] # "|" /\ t[i] # "!" /\ t[i] # "(" /\ t[i] # ")"
  BY <1>5, Zenon DEF Special
<1>8. LexAt(t, rest, i)
        = IF end = 0 THEN <<Token("ERROR")>>
          ELSE <<[type |-> "FUNC", value |-> SubSeq(t, i, end)]>> \o rest[end + 1]
  BY <1>1, <1>5, <1>7, Zenon DEF LexAt
<1>9. LexAt(t, rest, i) = <<[type |-> "FUNC", value |-> w]>> \o rest[end + 1]
  BY <1>4, <1>6, <1>8
<1> QED
  BY <1>9 DEF w, i, end

-------------------------------------------------------------------------------
(* The arguments of a call: what parseArgs returns.                         *)

(* Where the argument that starts at i ends.                                *)
ArgEnds(inner, i) ==
  {j \in i .. (Len(inner) + 1) :
     j = Len(inner) + 1 \/ (inner[j] = Comma /\ ~InBacktick(inner, j))}

\* ArgsAt cuts at the smallest of the positions where an argument can end.
LEMMA ArgsAtIs ==
  ASSUME NEW inner, NEW rest, NEW i
  PROVE  ArgsAt(inner, rest, i)
           = <<TrimSpace(SubSeq(inner, i, Min(ArgEnds(inner, i)) - 1))>>
               \o (IF Min(ArgEnds(inner, i)) = Len(inner) + 1
                   THEN <<>> ELSE rest[Min(ArgEnds(inner, i)) + 1])
BY DEF ArgsAt, ArgEnds

\* This position is in the text, or the one after it.
LEMMA ArgEndIs ==
  ASSUME NEW T, NEW inner \in Seq(T), NEW i \in 1 .. (Len(inner) + 1)
  PROVE  Min(ArgEnds(inner, i)) \in i .. (Len(inner) + 1)
<1>0. Len(inner) \in Nat
  OBVIOUS
<1>1. Len(inner) + 1 \in ArgEnds(inner, i) /\ ArgEnds(inner, i) \in SUBSET Nat
  BY <1>0 DEF ArgEnds
<1>2. Min(ArgEnds(inner, i)) \in ArgEnds(inner, i)
  BY <1>1, MinIsIn
<1> QED
  BY <1>2 DEF ArgEnds

\* The argument at i needs no more than the arguments further on.
LEMMA ArgsLookAhead ==
  ASSUME NEW T, NEW inner \in Seq(T), NEW i \in 1 .. (Len(inner) + 1), NEW p, NEW q,
         \A k \in (i + 1) .. (Len(inner) + 1) : q[k] = p[k]
  PROVE  ArgsAt(inner, q, i) = ArgsAt(inner, p, i)
<1> DEFINE end == Min(ArgEnds(inner, i))
<1>0. Len(inner) \in Nat
  OBVIOUS
<1>1. end \in i .. (Len(inner) + 1)
  BY ArgEndIs
<1>2. /\ ArgsAt(inner, p, i) = <<TrimSpace(SubSeq(inner, i, end - 1))>>
                                  \o (IF end = Len(inner) + 1 THEN <<>> ELSE p[end + 1])
      /\ ArgsAt(inner, q, i) = <<TrimSpace(SubSeq(inner, i, end - 1))>>
                                  \o (IF end = Len(inner) + 1 THEN <<>> ELSE q[end + 1])
  BY ArgsAtIs
<1> HIDE DEF end
<1>3. end # Len(inner) + 1 => q[end + 1] = p[end + 1]
  <2>1. end # Len(inner) + 1 => end + 1 \in (i + 1) .. (Len(inner) + 1)
    BY <1>0, <1>1
  <2> QED
    BY <2>1
<1> DEFINE More(r) == IF end = Len(inner) + 1 THEN <<>> ELSE r[end + 1]
           first == <<TrimSpace(SubSeq(inner, i, end - 1))>>
<1>4. More(q) = More(p)
  BY <1>3
<1>5. /\ ArgsAt(inner, p, i) = first \o More(p)
      /\ ArgsAt(inner, q, i) = first \o More(q)
  BY <1>2
<1> HIDE DEF More, first
<1> QED
  BY <1>4, <1>5

\* ArgsAt puts a text in front of texts.
LEMMA ArgsAtIsArgs ==
  ASSUME NEW T, NEW inner \in Seq(T), NEW i \in 1 .. (Len(inner) + 1), NEW rest,
         \A k \in (i + 1) .. (Len(inner) + 1) : rest[k] \in Seq(Seq(T))
  PROVE  ArgsAt(inner, rest, i) \in Seq(Seq(T))
<1> DEFINE end == Min(ArgEnds(inner, i))
           x == SubSeq(inner, i, end - 1)
           more == IF end = Len(inner) + 1 THEN <<>> ELSE rest[end + 1]
<1>0. Len(inner) \in Nat
  OBVIOUS
<1>1. end \in i .. (Len(inner) + 1)
  BY ArgEndIs
<1>2. ArgsAt(inner, rest, i) = <<TrimSpace(x)>> \o more
  BY ArgsAtIs
<1> HIDE DEF end
<1>3. x \in Seq(T)
  <2>1. end - 1 \in (i - 1) .. Len(inner)
    BY <1>0, <1>1
  <2> QED
    BY <2>1, SubSeqIs
<1> HIDE DEF x
<1>4. TrimSpace(x) \in Seq(T)
  <2>1. <<>> \in Seq(T)
    OBVIOUS
  <2>2. ASSUME NEW a \in 1 .. Len(x), NEW b \in 1 .. Len(x), a <= b
        PROVE  SubSeq(x, a, b) \in Seq(T)
    <3>1. Len(x) \in Nat
      BY <1>3
    <3>2. a \in 1 .. (Len(x) + 1) /\ b \in (a - 1) .. Len(x)
      BY <2>2, <3>1
    <3> QED
      BY <1>3, <3>2, SubSeqIs
  <2>3. \/ TrimSpace(x) = <<>>
        \/ \E a \in 1 .. Len(x), b \in 1 .. Len(x) :
             a <= b /\ TrimSpace(x) = SubSeq(x, a, b)
    BY <1>3, TrimIs
  <2> QED
    BY <2>1, <2>2, <2>3
<1>5. more \in Seq(Seq(T))
  <2>1. end # Len(inner) + 1 => end + 1 \in (i + 1) .. (Len(inner) + 1)
    BY <1>0, <1>1
  <2>2. <<>> \in Seq(Seq(T))
    OBVIOUS
  <2> QED
    BY <2>1, <2>2
<1> HIDE DEF more
<1>6. <<TrimSpace(x)>> \o more \in Seq(Seq(T))
  BY <1>4, <1>5
<1> QED
  BY <1>2, <1>6

ArgsFrom(inner, args, m) ==
  args = [i \in m .. (Len(inner) + 1) |-> ArgsAt(inner, args, i)]

\* There is a table of the arguments from every position on; SplitArgs returns its first.
LEMMA ArgsAre ==
  ASSUME NEW T, NEW inner \in Seq(T)
  PROVE  \E args : /\ \A i \in 1 .. (Len(inner) + 1) : args[i] = ArgsAt(inner, args, i)
                   /\ \A i \in 1 .. (Len(inner) + 1) : args[i] \in Seq(Seq(T))
                   /\ SplitArgs(inner) = args[1]
<1> DEFINE n == Len(inner) + 1
           From == {m \in 1 .. (n + 1) : \E p : ArgsFrom(inner, p, m)}
<1>0. n \in Nat
  OBVIOUS
<1>1. n + 1 \in From
  <2> DEFINE p == [i \in (n + 1) .. n |-> <<>>]
  <2>1. (n + 1) .. n = {}
    BY <1>0
  <2>2. ArgsFrom(inner, p, n + 1)
    <3>1. \A q : [i \in (n + 1) .. n |-> ArgsAt(inner, q, i)] = p
      BY <2>1
    <3> HIDE DEF p
    <3> QED
      BY <3>1 DEF ArgsFrom
  <2> QED
    BY <2>2, <1>0
<1>2. ASSUME NEW m \in 1 .. n, m + 1 \in From
      PROVE  m \in From
  <2>1. PICK p : ArgsFrom(inner, p, m + 1)
    BY <1>2
  <2>2. \A i \in (m + 1) .. n : p[i] = ArgsAt(inner, p, i)
    BY <2>1 DEF ArgsFrom
  <2> DEFINE q == [i \in m .. n |-> IF i = m THEN ArgsAt(inner, p, m) ELSE p[i]]
  <2>3. /\ \A i \in (m + 1) .. n : q[i] = p[i]
        /\ q[m] = ArgsAt(inner, p, m)
    BY <1>0
  <2>4. q = [i \in m .. n |-> q[i]]
    OBVIOUS
  <2> HIDE DEF q
  <2>5. ASSUME NEW i \in m .. n
        PROVE  q[i] = ArgsAt(inner, q, i)
    <3>1. ArgsAt(inner, q, i) = ArgsAt(inner, p, i)
      <4>1. \A k \in (i + 1) .. n : k \in (m + 1) .. n
        BY <1>0
      <4>2. i \in 1 .. n
        BY <1>0
      <4> QED
        BY <4>1, <4>2, <2>3, ArgsLookAhead
    <3>2. CASE i = m
      BY <3>1, <3>2, <2>3, <1>0
    <3>3. CASE i # m
      <4>1. i \in (m + 1) .. n
        BY <3>3, <1>0
      <4> QED
        BY <4>1, <3>1, <2>2, <2>3, <1>0
    <3> QED
      BY <3>2, <3>3
  <2>6. ArgsFrom(inner, q, m)
    BY <2>4, <2>5 DEF ArgsFrom
  <2> QED
    BY <2>6, <1>0
<1>3. 1 \in From
  <2>1. 1 .. (n + 1) \subseteq From
    <3> HIDE DEF From
    <3> QED
      BY <1>0, <1>1, <1>2, InductionDown
  <2> HIDE DEF From
  <2> QED
    BY <1>0, <2>1
<1> DEFINE Solves(p) == p = [i \in 1 .. n |-> ArgsAt(inner, p, i)]
           args == CHOOSE p : Solves(p)
<1>4. Solves(args)
  <2>1. \E p : Solves(p)
    BY <1>3 DEF ArgsFrom
  <2> HIDE DEF Solves
  <2> QED
    BY <2>1
<1>5. SplitArgs(inner) = args[1]
  BY DEF SplitArgs
<1> HIDE DEF args
<1>6. \A i \in 1 .. n : args[i] = ArgsAt(inner, args, i)
  BY <1>4
<1> DEFINE Fine == {m \in 1 .. (n + 1) : \A i \in m .. n : args[i] \in Seq(Seq(T))}
<1>7. n + 1 \in Fine
  <2>1. (n + 1) .. n = {}
    BY <1>0
  <2> QED
    BY <2>1, <1>0
<1>8. ASSUME NEW m \in 1 .. n, m + 1 \in Fine
      PROVE  m \in Fine
  <2>1. \A k \in (m + 1) .. n : args[k] \in Seq(Seq(T))
    BY <1>8
  <2>2. args[m] \in Seq(Seq(T))
    BY <1>6, <2>1, ArgsAtIsArgs
  <2>3. \A i \in m .. n : i = m \/ i \in (m + 1) .. n
    BY <1>0
  <2> QED
    BY <1>0, <2>1, <2>2, <2>3
<1>9. \A i \in 1 .. n : args[i] \in Seq(Seq(T))
  <2>1. 1 .. (n + 1) \subseteq Fine
    <3> HIDE DEF Fine
    <3> QED
      BY <1>0, <1>7, <1>8, InductionDown
  <2>2. 1 \in Fine
    <3> HIDE DEF Fine
    <3> QED
      BY <1>0, <2>1
  <2> QED
    BY <2>2
<1> QED
  BY <1>5, <1>6, <1>9

\* What does not start with a backtick does not start with a quoted value.
LEMMA NotQuoted ==
  ASSUME NEW T, NEW inner \in Seq(T),
         Len(inner) >= 1 => inner[1] # Backtick,
         Len(inner) >= 2 /\ inner[1] = Space => inner[2] \notin {Space, Backtick}
  PROVE  /\ 1 \in DOMAIN SplitArgs(inner)
         /\ ~IsQuoted(SplitArgs(inner)[1])
<1> DEFINE L == Len(inner)
           end == Min(ArgEnds(inner, 1))
           x == SubSeq(inner, 1, end - 1)
           arg == TrimSpace(x)
<1>0. L \in Nat
  OBVIOUS
<1>1. end \in 1 .. (L + 1)
  <2>1. 1 \in 1 .. (L + 1)
    BY <1>0
  <2> QED
    BY <2>1, ArgEndIs
<1>2. PICK args : /\ \A i \in 1 .. (L + 1) : args[i] = ArgsAt(inner, args, i)
                  /\ \A i \in 1 .. (L + 1) : args[i] \in Seq(Seq(T))
                  /\ SplitArgs(inner) = args[1]
  BY ArgsAre
<1> HIDE DEF end
<1>3. /\ x \in Seq(T) /\ Len(x) = end - 1
      /\ \A k \in 1 .. (end - 1) : x[k] = inner[k]
  <2>1. 1 \in 1 .. (L + 1) /\ end - 1 \in (1 - 1) .. L /\ (end - 1) - 1 + 1 = end - 1
        /\ \A k \in 1 .. (end - 1) : 1 + k - 1 = k
    BY <1>0, <1>1
  <2> QED
    BY <2>1, SubSeqIs
<1> HIDE DEF x
<1>4. ~IsQuoted(arg)
  <2>1. CASE arg = <<>>
    BY <2>1 DEF IsQuoted
  <2>2. ASSUME NEW a \in 1 .. Len(x), NEW b \in 1 .. Len(x), a <= b,
               arg = SubSeq(x, a, b), x[a] # Space,
               \A k \in 1 .. Len(x) : x[k] # Space => a <= k /\ k <= b
        PROVE  ~IsQuoted(arg)
    <3>1. arg[1] = x[a]
      <4>1. a \in 1 .. (Len(x) + 1) /\ b \in (a - 1) .. Len(x) /\ 1 \in 1 .. (b - a + 1)
            /\ a + 1 - 1 = a
        BY <2>2, <1>0, <1>1, <1>3
      <4>2. SubSeq(x, a, b)[1] = x[a + 1 - 1]
        BY <4>1, <1>3, SubSeqIs
      <4> QED
        BY <4>1, <4>2, <2>2
    <3>2. x[a] # Backtick
      <4>1. CASE a = 1
        <5>1. 1 \in 1 .. (end - 1) /\ L >= 1
          BY <4>1, <2>2, <1>0, <1>1, <1>3
        <5> QED
          BY <5>1, <4>1, <1>3
      <4>2. CASE a # 1
        <5>1. /\ 1 \in 1 .. Len(x) /\ 2 \in 1 .. Len(x) /\ L >= 2
              /\ 1 \in 1 .. (end - 1) /\ 2 \in 1 .. (end - 1) /\ ~(a <= 1)
          BY <4>2, <1>0, <1>1, <1>3
        <5>2. x[1] = Space
          BY <5>1, <2>2
        <5>3. x[2] = inner[2] /\ x[1] = inner[1]
          BY <5>1, <1>3
        <5>4. x[2] # Space /\ x[2] # Backtick
          BY <5>1, <5>2, <5>3
        <5>5. a <= 2
          BY <5>1, <5>4, <2>2
        <5>6. a = 2
          BY <4>2, <5>5, <1>3, <1>1
        <5> QED
          BY <5>4, <5>6
      <4> QED
        BY <4>1, <4>2
    <3> QED
      BY <3>1, <3>2 DEF IsQuoted
  <2>3. \/ arg = <<>>
        \/ \E a \in 1 .. Len(x), b \in 1 .. Len(x) :
             /\ a <= b /\ arg = SubSeq(x, a, b) /\ x[a] # Space
             /\ \A k \in 1 .. Len(x) : x[k] # Space => a <= k /\ k <= b
    BY <1>3, TrimIs
  <2> QED
    BY <2>1, <2>2, <2>3
<1> DEFINE more == IF end = L + 1 THEN <<>> ELSE args[end + 1]
<1>5. SplitArgs(inner) = <<arg>> \o more
  <2>1. 1 \in 1 .. (L + 1)
    BY <1>0
  <2> QED
    BY <1>2, <2>1, ArgsAtIs DEF end, x
<1>6. more \in Seq(Seq(T))
  <2>1. end # L + 1 => end + 1 \in 1 .. (L + 1)
    BY <1>0, <1>1
  <2>2. <<>> \in Seq(Seq(T))
    OBVIOUS
  <2> QED
    BY <1>2, <2>1, <2>2
<1> HIDE DEF more, arg
<1>7. 1 \in DOMAIN (<<arg>> \o more) /\ (<<arg>> \o more)[1] = arg
  BY <1>6
<1> QED
  BY <1>4, <1>5, <1>7

-------------------------------------------------------------------------------
(* The arguments of a call: quotations.                                     *)

\* The backticks of an argument: it is all within a quotation, and after it none is open.
LEMMA ArgTicks ==
  ASSUME NEW inner \in Seq(Chars), NEW v \in Seq(Chars), NEW off \in {0, 2}, NEW p,
         \A m \in 1 .. Len(v) : v[m] # Backtick,
         Occurs(ArgText(v, off), inner, p),
         ~InBacktick(inner, p + 1)
  PROVE  /\ p + off + Len(v) + 2 <= Len(inner) /\ p \in Nat
         /\ off = 2 => inner[p + 2] = Space
         /\ inner[p + off + 1] = Backtick
         /\ ~InBacktick(inner, p + off + Len(v) + 3)
         /\ \A m \in 0 .. Len(v) : InBacktick(inner, p + off + 2 + m)
<1> DEFINE g == ArgText(v, off)
           n == Len(v)
           L == Len(inner)
           D == {m \in 0 .. n : InBacktick(inner, p + off + 2 + m)}
<1>1. /\ Len(g) = off + n + 2
      /\ off = 2 => g[1] = Comma /\ g[2] = Space
      /\ g[off + 1] = Backtick /\ g[off + n + 2] = Backtick
      /\ \A m \in 1 .. n : g[off + 1 + m] = v[m]
  BY ArgTextIs
<1>2. p \in 0 .. L /\ p + Len(g) <= L /\ \A m \in 1 .. Len(g) : inner[p + m] = g[m]
  BY DEF Occurs
<1>3. n \in Nat /\ L \in Nat
  OBVIOUS
<1> HIDE DEF g
<1>4. p \in Nat /\ p + off + n + 2 <= L /\ off \in Nat
  <2> HIDE DEF n, L
  <2>1. off \in Nat
    OBVIOUS
  <2> QED
    BY <2>1, <1>1, <1>2, <1>3
<1>5. \A i \in 1 .. L :
        InBacktick(inner, i + 1) <=>
          IF inner[i] = Backtick THEN ~InBacktick(inner, i) ELSE InBacktick(inner, i)
  BY InBacktickStep
<1> HIDE DEF n, L
<1>6. /\ off = 2 => inner[p + 1] = Comma /\ inner[p + 2] = Space
      /\ inner[p + off + 1] = Backtick /\ inner[p + off + n + 2] = Backtick
      /\ \A m \in 1 .. n : inner[p + off + 1 + m] = v[m]
  <2> DEFINE G == off + n + 2
  <2>0. Len(g) = G /\ off \in Nat /\ n \in Nat /\ p \in Nat
    BY <1>1, <1>3, <1>4
  <2>1. /\ off = 2 => 1 \in 1 .. Len(g) /\ 2 \in 1 .. Len(g)
        /\ off + 1 \in 1 .. Len(g) /\ off + n + 2 \in 1 .. Len(g)
        /\ p + (off + 1) = p + off + 1 /\ p + (off + n + 2) = p + off + n + 2
    <3>1. /\ off = 2 => 1 \in 1 .. G /\ 2 \in 1 .. G
          /\ off + 1 \in 1 .. G /\ off + n + 2 \in 1 .. G
          /\ p + (off + 1) = p + off + 1 /\ p + (off + n + 2) = p + off + n + 2
      BY <2>0
    <3> HIDE DEF G
    <3> QED
      BY <2>0, <3>1
  <2>2. \A m \in 1 .. n : off + 1 + m \in 1 .. Len(g) /\ p + (off + 1 + m) = p + off + 1 + m
    <3>1. \A m \in 1 .. n : off + 1 + m \in 1 .. G /\ p + (off + 1 + m) = p + off + 1 + m
      BY <2>0
    <3> HIDE DEF G
    <3> QED
      BY <2>0, <3>1
  <2>3. \A m \in 1 .. n : inner[p + off + 1 + m] = v[m]
    BY <2>2, <1>1, <1>2
  <2> QED
    BY <2>1, <2>3, <1>1, <1>2
<1>7. ~InBacktick(inner, p + off + 1)
  <2>1. CASE off = 0
    <3>1. p + off + 1 = p + 1
      BY <2>1, <1>4
    <3> QED
      BY <3>1
  <2>2. CASE off = 2
    <3>1. /\ p + 1 \in 1 .. L /\ p + 2 \in 1 .. L /\ (p + 1) + 1 = p + 2
          /\ (p + 2) + 1 = p + off + 1
      BY <2>2, <1>3, <1>4
    <3>2. inner[p + 1] # Backtick /\ inner[p + 2] # Backtick
      BY <2>2, <1>6, CharsDiffer
    <3>3. ~InBacktick(inner, p + 2)
      BY <3>1, <3>2, <1>5
    <3> QED
      BY <3>1, <3>2, <3>3, <1>5
  <2> QED
    BY <2>1, <2>2
<1>8. 0 \in D
  <2>1. p + off + 1 \in 1 .. L /\ (p + off + 1) + 1 = p + off + 2 + 0 /\ 0 \in 0 .. n
    BY <1>3, <1>4
  <2>2. InBacktick(inner, (p + off + 1) + 1)
    BY <2>1, <1>5, <1>6, <1>7
  <2> QED
    BY <2>1, <2>2
<1>9. ASSUME NEW m \in 0 .. (n - 1), m \in D
      PROVE  m + 1 \in D
  <2>1. /\ p + off + 2 + m \in 1 .. L /\ (p + off + 2 + m) + 1 = p + off + 2 + (m + 1)
        /\ m + 1 \in 1 .. n /\ m + 1 \in 0 .. n
        /\ p + off + 2 + m = p + off + 1 + (m + 1)
    BY <1>3, <1>4
  <2>2. inner[p + off + 2 + m] # Backtick
    BY <2>1, <1>6 DEF n
  <2>3. InBacktick(inner, p + off + 2 + m)
    BY <1>9
  <2>4. InBacktick(inner, (p + off + 2 + m) + 1)
    BY <2>1, <2>2, <2>3, <1>5
  <2> QED
    BY <2>1, <2>4
<1>10. \A m \in 0 .. n : InBacktick(inner, p + off + 2 + m)
  <2>1. 0 .. n \subseteq D
    <3> HIDE DEF D
    <3> QED
      BY <1>3, <1>8, <1>9, InductionUpTo
  <2> QED
    BY <2>1
<1>11. ~InBacktick(inner, p + off + n + 3)
  <2>1. /\ p + off + n + 2 \in 1 .. L /\ (p + off + n + 2) + 1 = p + off + n + 3
        /\ n \in 0 .. n /\ p + off + 2 + n = p + off + n + 2
    BY <1>3, <1>4
  <2>2. InBacktick(inner, p + off + n + 2)
    BY <2>1, <1>10
  <2>3. ~InBacktick(inner, (p + off + n + 2) + 1)
    BY <2>1, <2>2, <1>5, <1>6
  <2> QED
    BY <2>1, <2>3
<1> QED
  BY <1>4, <1>6, <1>10, <1>11 DEF n, L

\* Trimming a quoted value leaves it as it is, with or without a space before it.
LEMMA TrimQuoted ==
  ASSUME NEW x \in Seq(Chars), NEW v \in Seq(Chars), NEW d \in {0, 1},
         Occurs(Quoted(v), x, d), Len(x) = d + Len(Quoted(v)),
         d = 1 => x[1] = Space
  PROVE  TrimSpace(x) = Quoted(v)
<1> DEFINE q == Quoted(v)
           n == Len(q)
<1>1. /\ q \in Seq(Chars) /\ n = Len(v) + 2 /\ Len(v) \in Nat
      /\ q[1] = Backtick /\ q[Len(v) + 2] = Backtick
  BY QuotedIs
<1>2. Occurs(q, x, d) /\ Len(x) = d + n
  OBVIOUS
<1>3. \A m \in 1 .. n : x[d + m] = q[m]
  BY DEF Occurs
<1> HIDE DEF q
<1>4. n \in Nat /\ 1 \in 1 .. n /\ n \in 1 .. n /\ d \in Int
      /\ d + 1 \in 1 .. Len(x) /\ d + n \in 1 .. Len(x)
  <2>1. d \in 0 .. 1
    OBVIOUS
  <2> HIDE DEF n
  <2> QED
    BY <2>1, <1>1, <1>2
<1>5. x[d + 1] = Backtick /\ x[d + n] = Backtick
  BY <1>1, <1>3, <1>4
<1>6. x[d + 1] # Space /\ x[d + n] # Space
  BY <1>5, CharsDiffer
<1>7. PICK a \in 1 .. Len(x), b \in 1 .. Len(x) :
        /\ a <= b
        /\ TrimSpace(x) = SubSeq(x, a, b)
        /\ x[a] # Space
        /\ \A k \in 1 .. Len(x) : x[k] # Space => a <= k /\ k <= b
  <2>1. ~ \A k \in 1 .. Len(x) : x[k] = Space
    BY <1>4, <1>6
  <2> QED
    BY <2>1, TrimIs
<1>8. a <= d + 1 /\ d + n <= b
  BY <1>4, <1>6, <1>7
<1>9. b = d + n
  <2> HIDE DEF n
  <2> QED
    BY <1>2, <1>4, <1>8
<1>10. a = d + 1
  <2>1. CASE d = 0
    BY <2>1, <1>8
  <2>2. CASE d = 1
    <3>1. a # 1
      BY <2>2, <1>7
    <3> QED
      BY <2>2, <3>1, <1>8
  <2> QED
    BY <2>1, <2>2
<1>11. SubSeq(x, d + 1, d + n) = q
  BY <1>1, <1>2, OccursIs
<1> QED
  BY <1>7, <1>9, <1>10, <1>11 DEF q

\* Where the argument with this text starts for parseArgs: after its comma.
ArgStart(p, off) == IF off = 0 THEN p + 1 ELSE p + 2

\* Where its comma is, or the end of the arguments.
ArgClose(v, off, p) == p + off + Len(v) + 3

ArgStands(inner, v, off, p) ==
  /\ inner \in Seq(Chars) /\ v \in Seq(Chars) /\ off \in {0, 2}
  /\ \A m \in 1 .. Len(v) : v[m] # Backtick
  /\ Occurs(ArgText(v, off), inner, p)
  /\ ~InBacktick(inner, p + 1)
  /\ \/ ArgClose(v, off, p) = Len(inner) + 1
     \/ inner[ArgClose(v, off, p)] = Comma

\* parseArgs cuts off the whole argument and goes on after its comma.
LEMMA ArgIsSplit ==
  ASSUME NEW inner, NEW v, NEW off, NEW p, ArgStands(inner, v, off, p), NEW rest
  PROVE  /\ ArgStart(p, off) \in 1 .. (Len(inner) + 1)
         /\ ArgsAt(inner, rest, ArgStart(p, off))
              = <<Quoted(v)>>
                  \o (IF ArgClose(v, off, p) = Len(inner) + 1
                      THEN <<>> ELSE rest[ArgClose(v, off, p) + 1])
<1> DEFINE e == ArgClose(v, off, p)
           i == ArgStart(p, off)
           n == Len(v)
           L == Len(inner)
           x == SubSeq(inner, i, e - 1)
           d == IF off = 0 THEN 0 ELSE 1
<1>0. /\ inner \in Seq(Chars) /\ v \in Seq(Chars) /\ off \in {0, 2}
      /\ \A m \in 1 .. Len(v) : v[m] # Backtick
      /\ Occurs(ArgText(v, off), inner, p)
      /\ ~InBacktick(inner, p + 1)
      /\ e = Len(inner) + 1 \/ inner[e] = Comma
  BY DEF ArgStands
<1>1. /\ p + off + n + 2 <= L /\ p \in Nat
      /\ off = 2 => inner[p + 2] = Space
      /\ inner[p + off + 1] = Backtick
      /\ ~InBacktick(inner, p + off + n + 3)
      /\ \A m \in 0 .. n : InBacktick(inner, p + off + 2 + m)
  BY <1>0, ArgTicks
<1>2. n \in Nat /\ L \in Nat
  BY <1>0
<1>3. off \in Nat /\ d \in Nat /\ d \in {0, 1} /\ i = p + 1 + d /\ off = 2 * d
  BY <1>0, <1>1 DEF ArgStart
<1>4. e = L + 1 \/ inner[e] = Comma
  BY <1>0
<1>4a. e = p + off + n + 3
  BY DEF ArgClose
<1> HIDE DEF e
<1> HIDE DEF i, n, L
<1>5. i \in 1 .. (L + 1) /\ e \in i .. (L + 1) /\ e \in Nat /\ e = p + off + n + 3
  <2> HIDE DEF d
  <2> QED
    BY <1>4a, <1>1, <1>2, <1>3
<1>6. Min(ArgEnds(inner, i)) = e
  <2>1. e \in ArgEnds(inner, i)
    BY <1>1, <1>4, <1>5 DEF ArgEnds, L
  <2>2. ArgEnds(inner, i) \in SUBSET Int
    BY <1>2, <1>5 DEF ArgEnds, L
  <2>3. ASSUME NEW j \in ArgEnds(inner, i)
        PROVE  e <= j
    <3>1. j \in i .. (L + 1) /\ (j = L + 1 \/ (inner[j] = Comma /\ ~InBacktick(inner, j)))
      BY DEF ArgEnds, L
    <3>2. CASE j < e
      <4>0. j \in Int /\ i <= j /\ j <= p + off + n + 2 /\ j # L + 1
        <5> HIDE DEF d
        <5> QED
          BY <3>1, <3>2, <1>1, <1>2, <1>3, <1>5
      <4>1. inner[j] = Comma /\ ~InBacktick(inner, j)
        BY <3>1, <4>0
      <4>2. j # p + off + 1
        BY <4>1, <1>1, CharsDiffer
      <4>3. off = 2 => j # p + 2
        BY <4>1, <1>1, CharsDiffer
      <4>4. j >= p + off + 2
        <5> HIDE DEF d
        <5>1. CASE off = 0
          BY <5>1, <4>0, <4>2, <1>1, <1>3
        <5>2. CASE off = 2
          BY <5>2, <4>0, <4>2, <4>3, <1>1, <1>3
        <5>3. off = 0 \/ off = 2
          BY <1>0
        <5> QED
          BY <5>1, <5>2, <5>3
      <4>5. j - (p + off + 2) \in 0 .. n /\ p + off + 2 + (j - (p + off + 2)) = j
        BY <4>0, <4>4, <1>1, <1>2, <1>3
      <4>6. InBacktick(inner, j)
        BY <4>5, <1>1
      <4> QED
        BY <4>1, <4>6
    <3> QED
      BY <3>1, <3>2, <1>2, <1>5
  <2> QED
    BY <2>1, <2>2, <2>3, MinIs
<1>7. TrimSpace(x) = Quoted(v)
  <2> DEFINE q == Quoted(v)
             g == ArgText(v, off)
  <2>1. q \in Seq(Chars) /\ Len(q) = n + 2
    BY <1>0, QuotedIs DEF n
  <2>2. /\ x \in Seq(Chars) /\ Len(x) = d + Len(q)
        /\ \A k \in 1 .. Len(x) : x[k] = inner[i + k - 1]
    <3>1. e - 1 \in (i - 1) .. L /\ (e - 1) - i + 1 = d + (n + 2)
      <4> HIDE DEF d
      <4>1. /\ p \in Nat /\ n \in Nat /\ d \in Nat /\ L \in Nat /\ e = p + off + n + 3
            /\ off = 2 * d /\ i = p + 1 + d /\ e <= L + 1
        BY <1>1, <1>2, <1>3, <1>5
      <4>2. e = p + 2 * d + n + 3
        BY <4>1
      <4> QED
        BY ONLY <4>1, <4>2
    <3>2. /\ x \in Seq(Chars) /\ Len(x) = (e - 1) - i + 1
          /\ \A k \in 1 .. ((e - 1) - i + 1) : x[k] = inner[i + k - 1]
      <4> DEFINE z == e - 1
      <4>1. i \in 1 .. (Len(inner) + 1) /\ z \in (i - 1) .. Len(inner)
            /\ inner \in Seq(Chars) /\ x = SubSeq(inner, i, z)
        BY <1>0, <3>1, <1>5 DEF L
      <4> HIDE DEF z, i, x
      <4>2. /\ x \in Seq(Chars) /\ Len(x) = z - i + 1
            /\ \A k \in 1 .. (z - i + 1) : x[k] = inner[i + k - 1]
        BY <4>1, SubSeqIs
      <4> QED
        BY <4>2 DEF z
    <3> HIDE DEF q, x
    <3>3. Len(x) = d + Len(q) /\ Len(x) = (e - 1) - i + 1
      BY <3>1, <3>2, <2>1
    <3> QED
      BY <3>2, <3>3
  <2>3. Occurs(q, inner, p + off)
    <3>1. Occurs(q, g, off)
      <4>1. /\ g \in Seq(Chars) /\ Len(g) = off + n + 2
            /\ g[off + 1] = Backtick /\ g[off + n + 2] = Backtick
            /\ \A m \in 1 .. n : g[off + 1 + m] = v[m]
        BY <1>0, ArgTextIs DEF n
      <4>2. /\ q[1] = Backtick /\ q[n + 2] = Backtick
            /\ \A m \in 1 .. n : q[m + 1] = v[m]
        BY <1>0, QuotedIs DEF n
      <4> HIDE DEF g, q
      <4>3. ASSUME NEW m \in 1 .. (n + 2)
            PROVE  g[off + m] = q[m]
        <5>1. CASE m = 1
          BY <5>1, <4>1, <4>2
        <5>2. CASE m = n + 2
          <6>1. off + m = off + n + 2
            BY <5>2, <1>2, <1>3
          <6> QED
            BY <5>2, <6>1, <4>1, <4>2
        <5>3. CASE m # 1 /\ m # n + 2
          <6>1. m - 1 \in 1 .. n /\ (m - 1) + 1 = m /\ off + 1 + (m - 1) = off + m
            BY <5>3, <1>2, <1>3
          <6>2. q[m] = v[m - 1] /\ g[off + m] = v[m - 1]
            BY <6>1, <4>1, <4>2
          <6> QED
            BY <6>2
        <5> QED
          BY <5>1, <5>2, <5>3
      <4>4. off \in 0 .. Len(g) /\ off + Len(q) <= Len(g)
        BY <4>1, <2>1, <1>2, <1>3
      <4> QED
        BY <4>3, <4>4, <2>1 DEF Occurs
    <3>2. g \in Seq(Chars) /\ Occurs(g, inner, p)
      BY <1>0, ArgTextIs
    <3> HIDE DEF q, g
    <3> QED
      BY <1>0, <3>1, <3>2, <2>1, OccursWithin
  <2> HIDE DEF q, g, x
  <2>4. Occurs(q, x, d)
    <3>1. \A m \in 1 .. Len(q) : /\ d + m \in 1 .. Len(x)
                                 /\ i + (d + m) - 1 = (p + off) + m
      <4> HIDE DEF d
      <4> QED
        BY <2>1, <2>2, <1>1, <1>2, <1>3
    <3>2. \A m \in 1 .. Len(q) : x[d + m] = inner[(p + off) + m]
      BY <2>2, <3>1
    <3>3. \A m \in 1 .. Len(q) : inner[(p + off) + m] = q[m]
      BY <2>3 DEF Occurs
    <3>4. d \in 0 .. Len(x) /\ d + Len(q) <= Len(x)
      <4> HIDE DEF d
      <4> QED
        BY <2>1, <2>2, <1>2, <1>3
    <3> QED
      BY <3>2, <3>3, <3>4 DEF Occurs
  <2>5. d = 1 => x[1] = Space
    <3>1. d = 1 => /\ 1 \in 1 .. Len(x) /\ i + 1 - 1 = p + 2 /\ off = 2
      <4> HIDE DEF d
      <4> QED
        BY <2>1, <2>2, <1>1, <1>2, <1>3
    <3> QED
      BY <3>1, <2>2, <1>1
  <2> HIDE DEF d
  <2> QED
    BY <1>0, <2>2, <2>4, <2>5, <1>3, TrimQuoted DEF q
<1>8. ArgsAt(inner, rest, i)
        = <<TrimSpace(x)>> \o (IF e = L + 1 THEN <<>> ELSE rest[e + 1])
  BY <1>6, ArgsAtIs DEF L
<1> HIDE DEF x
<1> QED
  BY <1>5, <1>7, <1>8 DEF i, L, e

-------------------------------------------------------------------------------
(* The arguments of a call: parseArgs returns what was written.             *)

\* The comma and the space before an argument but the first.
ArgOff(a) == IF a = 1 THEN 0 ELSE 2

\* Where the arguments of a call stand in the text of all of them: outside of
\* backticks, one after the other.
ArgsStand(call, inner, at) ==
  /\ inner \in Seq(Chars) /\ call.args \in Seq(Seq(Chars))
  /\ at[1] = 0 /\ at[Len(call.args) + 1] = Len(inner)
  /\ \A a \in 1 .. (Len(call.args) + 1) :
       at[a] \in 0 .. Len(inner) /\ ~InBacktick(inner, at[a] + 1)
  /\ \A a \in 1 .. Len(call.args) :
       /\ call.args[a] \in Seq(Chars) /\ ArgOff(a) \in {0, 2}
       /\ at[a] \in Nat /\ ArgOff(a) \in Nat /\ Len(call.args[a]) \in Nat
       /\ Occurs(ArgText(call.args[a], ArgOff(a)), inner, at[a])
       /\ at[a + 1] = at[a] + (ArgOff(a) + Len(call.args[a]) + 2)
       /\ \A m \in 1 .. Len(call.args[a]) : call.args[a][m] # Backtick

\* The arguments of a call stand one after the other.
LEMMA ArgsDoStand ==
  ASSUME NEW call \in Calls
  PROVE  \E at : ArgsStand(call, FlattenSeq(ArgTexts(call)), at)
<1> DEFINE inner == FlattenSeq(ArgTexts(call))
           args == call.args
           n == Len(args)
           L == Len(inner)
<1>1. /\ args \in Seq(Seq(Chars))
      /\ \A a \in 1 .. n : \A m \in 1 .. Len(args[a]) : args[a][m] # Backtick
      /\ ArgTexts(call) \in Seq(Seq(Chars)) /\ Len(ArgTexts(call)) = n
      /\ \A a \in 1 .. n : ArgTexts(call)[a] = ArgText(args[a], ArgOff(a))
  BY CallsAre DEF ArgOff
<1>2. inner \in Seq(Chars) /\ \E at : Parts(ArgTexts(call), inner, at)
  BY <1>1, FlattenIs
<1>3. PICK at : /\ at[1] = 0 /\ at[n + 1] = L
                /\ \A a \in 1 .. (n + 1) : at[a] \in 0 .. L
                /\ \A a \in 1 .. n : /\ Occurs(ArgTexts(call)[a], inner, at[a])
                                     /\ at[a + 1] = at[a] + Len(ArgTexts(call)[a])
  <2>1. PICK at : Parts(ArgTexts(call), inner, at)
    BY <1>2
  <2> HIDE DEF inner
  <2>2. /\ at[1] = 0 /\ at[n + 1] = L
        /\ \A a \in 1 .. (n + 1) : at[a] \in 0 .. L
        /\ \A a \in 1 .. n : /\ Occurs(ArgTexts(call)[a], inner, at[a])
                             /\ at[a + 1] = at[a] + Len(ArgTexts(call)[a])
    BY <2>1, <1>1, <1>2, PartsOccur
  <2> QED
    BY <2>2
<1>4. n \in Nat /\ L \in Nat
  BY <1>1, <1>2
<1> HIDE DEF inner
<1>5. ASSUME NEW a \in 1 .. n
      PROVE  /\ args[a] \in Seq(Chars) /\ ArgOff(a) \in {0, 2}
             /\ Occurs(ArgText(args[a], ArgOff(a)), inner, at[a])
             /\ at[a + 1] = at[a] + (ArgOff(a) + Len(args[a]) + 2)
             /\ \A m \in 1 .. Len(args[a]) : args[a][m] # Backtick
  <2>1. args[a] \in Seq(Chars) /\ ArgOff(a) \in {0, 2}
    BY <1>1 DEF ArgOff
  <2>2. Len(ArgText(args[a], ArgOff(a))) = ArgOff(a) + Len(args[a]) + 2
    <3> DEFINE off == ArgOff(a)
    <3>1. off \in {0, 2}
      BY DEF ArgOff
    <3> HIDE DEF off
    <3>2. Len(ArgText(args[a], off)) = off + Len(args[a]) + 2
      BY <2>1, <3>1, ArgTextIs
    <3> QED
      BY <3>2 DEF off
  <2> HIDE DEF args, n
  <2> QED
    BY <2>1, <2>2, <1>1, <1>3
<1> HIDE DEF args, n, L
<1>6. \A a \in 1 .. n : at[a] \in Nat /\ ArgOff(a) \in Nat /\ Len(args[a]) \in Nat
  <2> SUFFICES ASSUME NEW a \in 1 .. n
               PROVE  at[a] \in Nat /\ ArgOff(a) \in Nat /\ Len(args[a]) \in Nat
    OBVIOUS
  <2>1. a \in 1 .. (n + 1)
    BY <1>4
  <2>2. at[a] \in 0 .. L /\ ArgOff(a) \in {0, 2} /\ args[a] \in Seq(Chars)
    BY <2>1, <1>3, <1>5
  <2>3. 0 .. L \subseteq Nat /\ {0, 2} \subseteq Nat
    BY <1>4
  <2> QED
    BY <2>2, <2>3
<1> DEFINE Even1 == {a \in 0 .. n : ~InBacktick(inner, at[a + 1] + 1)}
<1>7. 0 \in Even1
  <2>1. ~InBacktick(inner, 1)
    BY <1>2, InBacktickStep
  <2>2. at[0 + 1] + 1 = 1
    BY <1>3
  <2> QED
    BY <2>1, <2>2, <1>4
<1>8. ASSUME NEW b \in 0 .. (n - 1), b \in Even1
      PROVE  b + 1 \in Even1
  <2>1. b + 1 \in 1 .. n /\ b + 1 \in 0 .. n
    BY <1>4
  <2> DEFINE a == b + 1
  <2>2. ~InBacktick(inner, at[a] + 1) /\ a \in 1 .. n
    BY <1>8, <2>1
  <2> HIDE DEF a
  <2>3. ~InBacktick(inner, at[a] + ArgOff(a) + Len(args[a]) + 3)
    BY <2>2, <1>2, <1>5, ArgTicks
  <2>4. at[a] + ArgOff(a) + Len(args[a]) + 3 = at[a + 1] + 1
    <3> DEFINE p == at[a]
               o == ArgOff(a)
               l == Len(args[a])
    <3>1. at[a + 1] = p + (o + l + 2)
      BY <2>2, <1>5
    <3>2. p \in Nat /\ o \in Nat /\ l \in Nat
      BY <2>2, <1>6
    <3> HIDE DEF p, o, l
    <3>3. p + o + l + 3 = at[a + 1] + 1
      BY <3>1, <3>2
    <3> QED
      BY <3>3 DEF p, o, l
  <2>5. ~InBacktick(inner, at[a + 1] + 1)
    BY <2>3, <2>4
  <2> QED
    BY <2>1, <2>5 DEF a
<1>9. 0 .. n \subseteq Even1
  <2> HIDE DEF Even1
  <2> QED
    BY <1>4, <1>7, <1>8, InductionUpTo
<1>10. \A a \in 1 .. (n + 1) : ~InBacktick(inner, at[a] + 1)
  <2> SUFFICES ASSUME NEW a \in 1 .. (n + 1)
               PROVE  ~InBacktick(inner, at[a] + 1)
    OBVIOUS
  <2>1. a - 1 \in 0 .. n /\ (a - 1) + 1 = a
    BY <1>4
  <2>2. a - 1 \in Even1
    BY <1>9, <2>1
  <2> QED
    BY <2>1, <2>2
<1> HIDE DEF Even1
<1>11. ArgsStand(call, inner, at)
  <2>1. /\ inner \in Seq(Chars) /\ args \in Seq(Seq(Chars))
        /\ at[1] = 0 /\ at[n + 1] = L
    BY <1>1, <1>2, <1>3 DEF args, n, L
  <2> QED
    BY <2>1, <1>3, <1>5, <1>6, <1>10 DEF ArgsStand, args, n, L
<1> QED
  BY <1>11 DEF inner

\* parseArgs finds the arguments that the author wrote, whatever is in them.
LEMMA ArgsAreRead ==
  ASSUME NEW call \in Calls, call.args # <<>>
  PROVE  LET inner == FlattenSeq(ArgTexts(call))
         IN  /\ SplitArgs(inner)
                  = [a \in 1 .. Len(call.args) |-> Quoted(call.args[a])]
             /\ ~InBacktick(inner, Len(inner) + 1)
<1> DEFINE inner == FlattenSeq(ArgTexts(call))
           args == call.args
           n == Len(args)
           L == Len(inner)
           Off(a) == ArgOff(a)
<1>1. PICK at : ArgsStand(call, inner, at)
  BY ArgsDoStand
<1> HIDE DEF inner
<1>2. /\ inner \in Seq(Chars) /\ args \in Seq(Seq(Chars))
      /\ at[1] = 0 /\ at[n + 1] = L
      /\ \A a \in 1 .. (n + 1) : at[a] \in 0 .. L
  BY <1>1 DEF ArgsStand
<1>3. at[1] = 0 /\ at[n + 1] = L /\ \A a \in 1 .. (n + 1) : at[a] \in 0 .. L
  BY <1>2
<1>4. n \in Nat /\ n >= 1 /\ L \in Nat
  <2>1. n \in Nat /\ n # 0
    BY <1>2
  <2> HIDE DEF n
  <2> QED
    BY <2>1, <1>2
<1>5. ASSUME NEW a \in 1 .. n
      PROVE  /\ args[a] \in Seq(Chars) /\ Off(a) \in {0, 2}
             /\ Occurs(ArgText(args[a], Off(a)), inner, at[a])
             /\ at[a + 1] = at[a] + (Off(a) + Len(args[a]) + 2)
             /\ \A m \in 1 .. Len(args[a]) : args[a][m] # Backtick
  BY <1>1 DEF ArgsStand
<1>6. \A a \in 1 .. n : at[a] \in Nat /\ Off(a) \in Nat /\ Len(args[a]) \in Nat
  BY <1>1 DEF ArgsStand
<1>10. \A a \in 1 .. (n + 1) : ~InBacktick(inner, at[a] + 1)
  BY <1>1 DEF ArgsStand
<1> HIDE DEF Off, args, n, L
<1>11. PICK split : /\ \A i \in 1 .. (L + 1) : split[i] = ArgsAt(inner, split, i)
                    /\ SplitArgs(inner) = split[1]
  <2>1. \E split : /\ \A i \in 1 .. (Len(inner) + 1) : split[i] = ArgsAt(inner, split, i)
                   /\ \A i \in 1 .. (Len(inner) + 1) : split[i] \in Seq(Seq(Chars))
                   /\ SplitArgs(inner) = split[1]
    BY <1>2, ArgsAre
  <2> QED
    BY <2>1 DEF L
<1> DEFINE Start(a) == ArgStart(at[a], Off(a))
           Rest(a) == [k \in 1 .. (n - a + 1) |-> Quoted(args[a + k - 1])]
<1>12. \A a \in 1 .. n : Quoted(args[a]) \in Seq(Chars)
  BY <1>5, QuotedIs
<1>13. ASSUME NEW a \in 1 .. n
       PROVE  /\ a = n => split[Start(a)] = <<Quoted(args[a])>>
              /\ a # n => split[Start(a)] = <<Quoted(args[a])>> \o split[Start(a + 1)]
  <2> DEFINE v == args[a]
             off == Off(a)
             p == at[a]
             e == p + off + Len(v) + 3
  <2>1. /\ v \in Seq(Chars) /\ off \in {0, 2} /\ Occurs(ArgText(v, off), inner, p)
        /\ \A m \in 1 .. Len(v) : v[m] # Backtick
        /\ at[a + 1] = p + (off + Len(v) + 2)
    BY <1>5
  <2>2. p \in Nat /\ off \in Nat /\ Len(v) \in Nat
    BY <1>6
  <2>3. ~InBacktick(inner, p + 1)
    <3>1. a \in 1 .. (n + 1)
      BY <1>4
    <3> QED
      BY <3>1, <1>10
  <2> HIDE DEF v, off, p
  <2>4. e = at[a + 1] + 1
    BY <2>1, <2>2
  <2> HIDE DEF e
  <2>5. a = n => e = L + 1
    BY <2>4, <1>3
  <2>6. ASSUME a # n
        PROVE  /\ e # L + 1 /\ inner[e] = Comma /\ Start(a + 1) = e + 1
    <3> DEFINE c == a + 1
    <3>1. c \in 1 .. n /\ c # 1
      BY <2>6, <1>4
    <3> HIDE DEF c
    <3>2. Off(c) = 2
      BY <3>1 DEF Off, ArgOff
    <3>3. /\ args[c] \in Seq(Chars) /\ Occurs(ArgText(args[c], 2), inner, at[c])
      BY <3>1, <3>2, <1>5
    <3>4. /\ Len(ArgText(args[c], 2)) = 2 + Len(args[c]) + 2
          /\ ArgText(args[c], 2)[1] = Comma
      <4>1. 2 \in {0, 2}
        OBVIOUS
      <4> QED
        BY <4>1, <3>3, ArgTextIs
    <3>5. Len(args[c]) \in Nat /\ at[c] \in Nat
      BY <3>1, <1>6
    <3>6. 1 \in 1 .. Len(ArgText(args[c], 2))
      BY <3>4, <3>5
    <3>7. inner[at[c] + 1] = Comma /\ at[c] + Len(ArgText(args[c], 2)) <= L
      BY <3>3, <3>4, <3>6 DEF Occurs, L
    <3>8. at[c] + 1 # L + 1
      <4>1. at[c] + (2 + Len(args[c]) + 2) <= L
        BY <3>4, <3>7
      <4> QED
        BY ONLY <4>1, <3>5, <1>4
    <3>9. e = at[c] + 1
      BY <2>4 DEF c
    <3>10. Start(c) = at[c] + 2
      BY <3>2 DEF ArgStart
    <3>11. e + 1 = at[c] + 2
      BY <3>5, <3>9
    <3> HIDE DEF Start
    <3> QED
      BY <3>7, <3>8, <3>9, <3>10, <3>11 DEF c
  <2>7. /\ ArgStart(p, off) \in 1 .. (L + 1)
        /\ ArgsAt(inner, split, ArgStart(p, off))
             = <<Quoted(v)>> \o (IF e = L + 1 THEN <<>> ELSE split[e + 1])
    <3>1. e = L + 1 \/ inner[e] = Comma
      BY <2>5, <2>6
    <3>2. e = p + off + Len(v) + 3
      BY DEF e
    <3>3. e = ArgClose(v, off, p)
      BY <3>2 DEF ArgClose
    <3>4. ArgStands(inner, v, off, p)
      BY <2>1, <2>3, <3>1, <3>3, <1>2 DEF ArgStands, L
    <3> QED
      BY <3>3, <3>4, ArgIsSplit DEF L
  <2>8. split[Start(a)] = <<Quoted(v)>> \o (IF e = L + 1 THEN <<>> ELSE split[e + 1])
    BY <2>7, <1>11 DEF p, off
  <2>9. Quoted(v) \in Seq(Chars)
    BY <1>12 DEF v
  <2>10. <<Quoted(v)>> \o <<>> = <<Quoted(v)>>
    BY <2>9
  <2> HIDE DEF Start
  <2> QED
    BY <2>5, <2>6, <2>8, <2>10 DEF v
<1> DEFINE D == {a \in 1 .. n : split[Start(a)] = Rest(a)}
<1>14. n \in D
  <2>1. n \in 1 .. n /\ n - n + 1 = 1 /\ n + 1 - 1 = n
    BY <1>4
  <2>2. split[Start(n)] = <<Quoted(args[n])>>
    BY <2>1, <1>13
  <2>3. Rest(n) = <<Quoted(args[n])>>
    <3>1. Rest(n) = [k \in 1 .. 1 |-> Quoted(args[n + k - 1])]
      BY <2>1
    <3>2. \A k \in 1 .. 1 : k = 1
      OBVIOUS
    <3>3. [k \in 1 .. 1 |-> Quoted(args[n + k - 1])] = <<Quoted(args[n])>>
      BY <2>1, <3>2
    <3> QED
      BY <3>1, <3>3
  <2> HIDE DEF Start, Rest
  <2> QED
    BY <2>1, <2>2, <2>3
<1>15. ASSUME NEW a \in 1 .. (n - 1), a + 1 \in D
       PROVE  a \in D
  <2>1. a \in 1 .. n /\ a # n /\ a + 1 \in 1 .. n
    BY <1>4
  <2>2. split[Start(a)] = <<Quoted(args[a])>> \o split[Start(a + 1)]
    BY <2>1, <1>13
  <2>3. split[Start(a + 1)] = Rest(a + 1)
    BY <1>15
  <2>4. <<Quoted(args[a])>> \o Rest(a + 1) = Rest(a)
    <3> DEFINE r == Rest(a + 1)
               s == Rest(a)
               q == <<Quoted(args[a])>>
    <3>1. /\ r \in Seq(Seq(Chars)) /\ Len(r) = n - a
          /\ \A k \in 1 .. (n - a) : r[k] = Quoted(args[a + k])
      <4>1. n - (a + 1) + 1 = n - a /\ n - a \in Nat
        BY <1>4
      <4>2. r = [k \in 1 .. (n - a) |-> Quoted(args[(a + 1) + k - 1])]
        BY <4>1
      <4>3. \A k \in 1 .. (n - a) : (a + 1) + k - 1 = a + k /\ a + k \in 1 .. n
        BY <1>4
      <4>4. r = [k \in 1 .. (n - a) |-> Quoted(args[a + k])]
        BY <4>2, <4>3
      <4>5. \A k \in 1 .. (n - a) : Quoted(args[a + k]) \in Seq(Chars)
        BY <4>3, <1>12
      <4> HIDE DEF r
      <4> QED
        BY <4>1, <4>4, <4>5
    <3>2. /\ s \in Seq(Seq(Chars)) /\ Len(s) = n - a + 1
          /\ \A k \in 1 .. (n - a + 1) : s[k] = Quoted(args[a + k - 1])
      <4>1. n - a + 1 \in Nat
        BY <1>4
      <4>2. \A k \in 1 .. (n - a + 1) : a + k - 1 \in 1 .. n
        BY <1>4
      <4>3. \A k \in 1 .. (n - a + 1) : Quoted(args[a + k - 1]) \in Seq(Chars)
        BY <4>2, <1>12
      <4>4. s = [k \in 1 .. (n - a + 1) |-> Quoted(args[a + k - 1])]
        OBVIOUS
      <4> HIDE DEF s
      <4> QED
        BY <4>1, <4>3, <4>4
    <3>3. q \in Seq(Seq(Chars)) /\ Len(q) = 1 /\ q[1] = Quoted(args[a])
      BY <2>1, <1>12
    <3> HIDE DEF r, s, q
    <3>4. /\ q \o r \in Seq(Seq(Chars)) /\ Len(q \o r) = n - a + 1
          /\ (q \o r)[1] = q[1]
          /\ \A k \in 1 .. (n - a) : (q \o r)[1 + k] = r[k]
      <4>1. /\ q \o r \in Seq(Seq(Chars)) /\ Len(q \o r) = Len(q) + Len(r)
            /\ \A k \in 1 .. Len(q) : (q \o r)[k] = q[k]
            /\ \A k \in 1 .. Len(r) : (q \o r)[Len(q) + k] = r[k]
        <5>1. q \in Seq(Seq(Chars)) /\ r \in Seq(Seq(Chars))
          BY <3>1, <3>3
        <5> QED
          BY ONLY <5>1, ConcatIs
      <4>2. 1 \in 1 .. Len(q) /\ 1 + (n - a) = n - a + 1
        BY <3>3, <1>4
      <4> QED
        BY <4>1, <4>2, <3>1, <3>3
    <3>5. ASSUME NEW k \in 1 .. (n - a + 1)
          PROVE  (q \o r)[k] = s[k]
      <4>1. CASE k = 1
        <5>1. a + k - 1 = a
          BY <4>1
        <5> QED
          BY <4>1, <5>1, <3>2, <3>3, <3>4
      <4>2. CASE k # 1
        <5>1. k - 1 \in 1 .. (n - a) /\ 1 + (k - 1) = k /\ a + (k - 1) = a + k - 1
          BY <4>2, <1>4
        <5>2. (q \o r)[k] = r[k - 1]
          BY <5>1, <3>4
        <5>3. r[k - 1] = Quoted(args[a + k - 1])
          BY <5>1, <3>1
        <5> QED
          BY <5>2, <5>3, <3>2
      <4> QED
        BY <4>1, <4>2
    <3>6. q \o r = s
      <4>1. /\ q \o r \in Seq(Seq(Chars)) /\ s \in Seq(Seq(Chars))
            /\ Len(q \o r) = Len(s)
            /\ \A k \in 1 .. Len(q \o r) : (q \o r)[k] = s[k]
        BY <3>2, <3>4, <3>5
      <4> QED
        BY ONLY <4>1, SeqEqual
    <3> QED
      BY <3>6 DEF q, r, s
  <2> HIDE DEF Start, Rest
  <2> QED
    BY <2>1, <2>2, <2>3, <2>4
<1>16. split[Start(1)] = Rest(1)
  <2> DEFINE N == n - 1
  <2>1. N \in Nat /\ N + 1 = n /\ 1 \in 1 .. n
    BY <1>4
  <2>2. N + 1 \in D /\ \A a \in 1 .. N : a + 1 \in D => a \in D
    BY <2>1, <1>14, <1>15
  <2>3. 1 .. (N + 1) \subseteq D
    <3> HIDE DEF D, N
    <3> QED
      BY <2>1, <2>2, InductionDown
  <2> HIDE DEF N, Start, Rest
  <2> QED
    BY <2>1, <2>3
<1>17. Start(1) = 1
  BY <1>3 DEF ArgStart, Off, ArgOff
<1>18. Rest(1) = [a \in 1 .. n |-> Quoted(args[a])]
  <2>1. n - 1 + 1 = n /\ \A k \in 1 .. n : 1 + k - 1 = k
    BY <1>4
  <2> QED
    BY <2>1
<1> HIDE DEF Start, Rest
<1>19. SplitArgs(inner) = [a \in 1 .. n |-> Quoted(args[a])]
  BY <1>11, <1>16, <1>17, <1>18
<1>20. ~InBacktick(inner, L + 1)
  <2>1. n + 1 \in 1 .. (n + 1)
    BY <1>4
  <2> QED
    BY <2>1, <1>3, <1>10
<1> QED
  BY <1>19, <1>20 DEF inner, args, n, L

-------------------------------------------------------------------------------
(* A call becomes its node.                                                 *)

\* buildLeaf, with names for its parts.
LEMMA BuildLeafIs ==
  ASSUME NEW text, NEW open, open = Min({i \in 1 .. Len(text) : text[i] = "("}),
         NEW inner, inner = SubSeq(text, open + 1, Len(text) - 1),
         NEW args, args = SplitArgs(inner)
  PROVE  buildLeaf(text) =
           IF \/ InBacktick(inner, Len(inner) + 1)
              \/ \E k \in DOMAIN args : ~IsQuoted(args[k])
              \/ open # 2
           THEN Invalid
           ELSE Leaf(text[1],
                     [k \in DOMAIN args |-> SubSeq(args[k], 2, Len(args[k]) - 1)])
BY DEF buildLeaf

\* A quoted value is quoted, and without its backticks it is the value.
LEMMA QuotedIsQuoted ==
  ASSUME NEW v \in Seq(Chars)
  PROVE  IsQuoted(Quoted(v)) /\ SubSeq(Quoted(v), 2, Len(Quoted(v)) - 1) = v
<1> DEFINE q == Quoted(v)
           n == Len(v)
<1>1. /\ q \in Seq(Chars) /\ Len(q) = n + 2
      /\ q[1] = Backtick /\ q[n + 2] = Backtick
      /\ \A m \in 1 .. n : q[m + 1] = v[m]
  BY QuotedIs
<1>2. n \in Nat
  OBVIOUS
<1> HIDE DEF q
<1>3. IsQuoted(q)
  <2>1. Last(q) = Backtick /\ Len(q) >= 2
    BY <1>1, <1>2 DEF Last
  <2> QED
    BY <1>1, <2>1 DEF IsQuoted
<1>4. Occurs(v, q, 1)
  <2>1. \A m \in 1 .. n : 1 + m = m + 1
    OBVIOUS
  <2>2. 1 \in 0 .. Len(q) /\ 1 + n <= Len(q)
    BY <1>1, <1>2
  <2> QED
    BY <1>1, <2>1, <2>2 DEF Occurs
<1>5. SubSeq(q, 1 + 1, 1 + n) = v
  BY <1>1, <1>4, OccursIs
<1>6. Len(q) - 1 = 1 + n /\ 1 + 1 = 2
  BY <1>1, <1>2
<1> QED
  BY <1>3, <1>5, <1>6 DEF q

\* What the program makes of the text of a call.
THEOREM CallIsBuilt ==
  ASSUME NEW call \in Calls
  PROVE  buildLeaf(PieceText(CallPiece(call))) = Leaf(call.name, call.args)
<1> DEFINE w == PieceText(CallPiece(call))
           inner == FlattenSeq(ArgTexts(call))
           L == Len(inner)
           open == Min({i \in 1 .. Len(w) : w[i] = "("})
           args == SplitArgs(inner)
<1>1. /\ inner \in Seq(Chars) /\ w \in Seq(Chars) /\ Len(w) = L + 3
      /\ w[1] = call.name /\ w[2] = "(" /\ w[L + 3] = ")"
      /\ \A m \in 1 .. L : w[m + 2] = inner[m]
      /\ \E at : Parts(ArgTexts(call), inner, at)
  BY CallTextIs
<1>2. /\ call.name \in Letters /\ call.args \in Seq(Seq(Chars))
      /\ Len(ArgTexts(call)) = Len(call.args)
      /\ ArgTexts(call) \in Seq(Seq(Chars))
  BY CallsAre
<1> HIDE DEF w
<1>3. L \in Nat
  BY <1>1
<1> HIDE DEF L
<1>4. open = 2
  <2> DEFINE S == {i \in 1 .. Len(w) : w[i] = "("}
  <2>1. S \in SUBSET Int /\ 2 \in S
    BY <1>1, <1>3
  <2>2. 1 \notin S
    <3>1. "(" \in Special
      BY DEF Special
    <3>2. call.name # "("
      BY <3>1, <1>2, NameChars
    <3> QED
      BY <1>1, <3>2
  <2>3. \A k \in S : k \in 1 .. Len(w)
    OBVIOUS
  <2> HIDE DEF S
  <2>4. \A k \in S : 2 <= k
    <3> SUFFICES ASSUME NEW k \in S
                 PROVE  2 <= k
      OBVIOUS
    <3>1. k # 1 /\ k \in 1 .. Len(w)
      BY <2>2, <2>3
    <3> QED
      BY <3>1, <1>1, <1>3
  <2>5. Min(S) = 2
    BY <2>1, <2>4, MinIs
  <2> QED
    BY <2>5 DEF S
<1>5. SubSeq(w, open + 1, Len(w) - 1) = inner
  <2>1. \A m \in 1 .. L : 2 + m = m + 2
    BY <1>3
  <2>2. 2 \in 0 .. Len(w) /\ 2 + L <= Len(w)
    BY <1>1, <1>3
  <2>3. Occurs(inner, w, 2)
    BY <1>1, <2>1, <2>2 DEF Occurs, L
  <2>4. SubSeq(w, 2 + 1, 2 + Len(inner)) = inner
    BY <1>1, <2>3, OccursIs
  <2>5. 2 + Len(inner) = Len(w) - 1
    BY <1>1, <1>3 DEF L
  <2> QED
    BY <2>4, <2>5, <1>4
<1> HIDE DEF open, inner
<1>6. buildLeaf(w) =
        IF \/ InBacktick(inner, Len(inner) + 1)
           \/ \E k \in DOMAIN args : ~IsQuoted(args[k])
        THEN Invalid
        ELSE Leaf(w[1], [k \in DOMAIN args |-> SubSeq(args[k], 2, Len(args[k]) - 1)])
  BY <1>4, <1>5, BuildLeafIs DEF open
<1>7. CASE call.args = <<>>
  <2>1. L = 0
    <3>1. PICK at : Parts(ArgTexts(call), inner, at)
      BY <1>1 DEF inner
    <3>2. at[1] = 0 /\ at[Len(ArgTexts(call)) + 1] = Len(inner)
      BY <3>1, <1>1, <1>2, PartsOccur
    <3>3. Len(ArgTexts(call)) + 1 = 1
      BY <1>2, <1>7
    <3> QED
      BY <3>2, <3>3 DEF L
  <2>2. 1 \in DOMAIN args /\ ~IsQuoted(args[1])
    <3>1. ~(Len(inner) >= 1) /\ ~(Len(inner) >= 2)
      BY <2>1 DEF L
    <3> QED
      BY <3>1, <1>1, NotQuoted
  <2>3. buildLeaf(w) = Invalid
    BY <2>2, <1>6
  <2>4. Leaf(call.name, call.args) = Invalid
    <3>1. call.name \in DOMAIN Arity => Arity[call.name] # 0
      BY DEF Arity
    <3>2. Len(call.args) = 0
      BY <1>7
    <3> QED
      BY <3>1, <3>2 DEF Leaf
  <2> QED
    BY <2>3, <2>4 DEF w
<1>8. CASE call.args # <<>>
  <2> DEFINE n == Len(call.args)
  <2>1. /\ args = [a \in 1 .. n |-> Quoted(call.args[a])]
        /\ ~InBacktick(inner, Len(inner) + 1)
    BY <1>8, ArgsAreRead DEF inner
  <2> HIDE DEF args
  <2>2. DOMAIN args = 1 .. n /\ \A k \in 1 .. n : args[k] = Quoted(call.args[k])
    BY <2>1
  <2>3. \A k \in 1 .. n : call.args[k] \in Seq(Chars)
    BY <1>2
  <2>4. \A k \in 1 .. n :
          IsQuoted(args[k]) /\ SubSeq(args[k], 2, Len(args[k]) - 1) = call.args[k]
    BY <2>2, <2>3, QuotedIsQuoted
  <2>5. [k \in DOMAIN args |-> SubSeq(args[k], 2, Len(args[k]) - 1)] = call.args
    <3>1. [k \in DOMAIN args |-> SubSeq(args[k], 2, Len(args[k]) - 1)]
            = [k \in 1 .. n |-> call.args[k]]
      BY <2>2, <2>4
    <3>2. call.args = [k \in 1 .. n |-> call.args[k]]
      BY <1>2
    <3> QED
      BY <3>1, <3>2
  <2>6. buildLeaf(w) = Leaf(w[1], call.args)
    BY <2>1, <2>2, <2>4, <2>5, <1>6
  <2> QED
    BY <2>6, <1>1 DEF w
<1> QED
  BY <1>7, <1>8

-------------------------------------------------------------------------------
(* The lexer on parts of a text.                                            *)

\* What SubSeq returns occurs in the text.
LEMMA SubSeqOccurs ==
  ASSUME NEW T, NEW s \in Seq(T), NEW a \in 1 .. (Len(s) + 1),
         NEW b \in (a - 1) .. Len(s)
  PROVE  Occurs(SubSeq(s, a, b), s, a - 1)
<1> DEFINE r == SubSeq(s, a, b)
<1>0. Len(s) \in Nat
  OBVIOUS
<1>1. Len(r) = b - a + 1 /\ \A k \in 1 .. (b - a + 1) : r[k] = s[a + k - 1]
  BY SubSeqIs
<1> HIDE DEF r
<1>2. a - 1 \in 0 .. Len(s) /\ (a - 1) + Len(r) <= Len(s)
      /\ \A k \in 1 .. (b - a + 1) : (a - 1) + k = a + k - 1
  BY <1>0, <1>1
<1>3. Occurs(r, s, a - 1)
  BY <1>1, <1>2 DEF Occurs
<1> QED
  BY <1>3 DEF r

\* s stands in t after position p: its parentheses from o on.
LEMMA DepthWithin ==
  ASSUME NEW T, NEW s \in Seq(T), NEW t \in Seq(T), NEW p, Occurs(s, t, p),
         NEW o \in 1 .. Len(s), NEW j \in o .. Len(s)
  PROVE  Depth(t, p + o, p + j) = Depth(s, o, j)
<1> DEFINE r == SubSeq(s, o, Len(s))
           q == o - 1
           k == j - q
<1>0. /\ Len(s) \in Nat /\ Len(t) \in Nat /\ p \in Nat
  BY DEF Occurs
<1>1. /\ o \in 1 .. (Len(s) + 1) /\ Len(s) \in (o - 1) .. Len(s)
  BY <1>0
<1>2. Occurs(r, s, q) /\ r \in Seq(T) /\ Len(r) = Len(s) - o + 1
  BY <1>1, SubSeqOccurs, SubSeqIs
<1> HIDE DEF r
<1>3. Occurs(r, t, p + q)
  BY <1>2, OccursWithin
<1>4. k \in 0 .. Len(r)
  BY <1>0, <1>2
<1> HIDE DEF q
<1>5. Depth(s, q + 1, q + k) = Depth(r, 1, k)
  BY <1>2, <1>4, DepthShift
<1>6. Depth(t, (p + q) + 1, (p + q) + k) = Depth(r, 1, k)
  BY <1>2, <1>3, <1>4, DepthShift
<1>7. /\ q + 1 = o /\ q + k = j /\ (p + q) + 1 = p + o /\ (p + q) + k = p + j
  BY <1>0 DEF q
<1> QED
  BY <1>5, <1>6, <1>7

\* What the round of Lex at i looks at is the same at h in the other text.
SameAt(t, u, i, h, p, q) ==
  /\ t[i] = u[h]
  /\ \A c \in {"&", "|"} :
       (i < Len(t) /\ t[i] = c /\ t[i + 1] = c)
         <=> (h < Len(u) /\ u[h] = c /\ u[h + 1] = c)
  /\ p[i + 1] = q[h + 1]
  /\ i < Len(t) => p[i + 2] = q[h + 2]
  /\ \/ lexFunc(t, i) = 0 /\ lexFunc(u, h) = 0
     \/ /\ lexFunc(t, i) # 0 /\ lexFunc(u, h) # 0
        /\ SubSeq(t, i, lexFunc(t, i)) = SubSeq(u, h, lexFunc(u, h))
        /\ p[lexFunc(t, i) + 1] = q[lexFunc(u, h) + 1]

\* A round of Lex where the texts are the same returns the same.
LEMMA LexAtSame ==
  ASSUME NEW t, NEW u, NEW i, NEW h, NEW p, NEW q, SameAt(t, u, i, h, p, q)
  PROVE  LexAt(t, p, i) = LexAt(u, q, h)
<1> DEFINE f == lexFunc(t, i)
           g == lexFunc(u, h)
           Pair(c) == i < Len(t) /\ t[i] = c /\ t[i + 1] = c
           call == IF f = 0 THEN <<Token("ERROR")>>
                   ELSE <<[type |-> "FUNC", value |-> SubSeq(t, i, f)]>> \o p[f + 1]
           other == IF g = 0 THEN <<Token("ERROR")>>
                    ELSE <<[type |-> "FUNC", value |-> SubSeq(u, h, g)]>> \o q[g + 1]
           pair(type) == <<Token(type)>> \o p[i + 2]
           qpair(type) == <<Token(type)>> \o q[h + 2]
<1>0. /\ t[i] = u[h]
      /\ \A c \in {"&", "|"} :
           (i < Len(t) /\ t[i] = c /\ t[i + 1] = c)
             <=> (h < Len(u) /\ u[h] = c /\ u[h + 1] = c)
      /\ p[i + 1] = q[h + 1]
      /\ i < Len(t) => p[i + 2] = q[h + 2]
      /\ \/ f = 0 /\ g = 0
         \/ /\ f # 0 /\ g # 0
            /\ SubSeq(t, i, f) = SubSeq(u, h, g)
            /\ p[f + 1] = q[g + 1]
  BY DEF SameAt
<1>1. call = other
  <2> HIDE DEF f, g
  <2>1. \/ f = 0 /\ g = 0
        \/ f # 0 /\ g # 0 /\ SubSeq(t, i, f) = SubSeq(u, h, g) /\ p[f + 1] = q[g + 1]
    BY <1>0 DEF f, g
  <2> QED
    BY <2>1
<1>2. /\ Pair("&") <=> (h < Len(u) /\ u[h] = "&" /\ u[h + 1] = "&")
      /\ Pair("|") <=> (h < Len(u) /\ u[h] = "|" /\ u[h + 1] = "|")
  BY <1>0
<1>3. Pair("&") => pair("AND") = qpair("AND")
  BY <1>0
<1>4. Pair("|") => pair("OR") = qpair("OR")
  BY <1>0
<1>5. LexAt(t, p, i) =
        CASE t[i] = Space -> p[i + 1]
          [] Pair("&")     -> pair("AND")
          [] Pair("|")     -> pair("OR")
          [] t[i] = "!" -> <<Token("NOT")>> \o p[i + 1]
          [] t[i] = "(" -> <<Token("LPAREN")>> \o p[i + 1]
          [] t[i] = ")" -> <<Token("RPAREN")>> \o p[i + 1]
          [] isIdentStart(t[i]) -> call
          [] OTHER -> <<Token("ERROR")>>
  BY DEF LexAt
<1>6. LexAt(u, q, h) =
        CASE t[i] = Space -> p[i + 1]
          [] Pair("&")     -> qpair("AND")
          [] Pair("|")     -> qpair("OR")
          [] t[i] = "!" -> <<Token("NOT")>> \o p[i + 1]
          [] t[i] = "(" -> <<Token("LPAREN")>> \o p[i + 1]
          [] t[i] = ")" -> <<Token("RPAREN")>> \o p[i + 1]
          [] isIdentStart(t[i]) -> other
          [] OTHER -> <<Token("ERROR")>>
  <2>1. t[i] = u[h] /\ p[i + 1] = q[h + 1]
    BY <1>0
  <2> HIDE DEF Pair
  <2>2. LexAt(u, q, h) =
          CASE u[h] = Space -> q[h + 1]
            [] Pair("&")     -> qpair("AND")
            [] Pair("|")     -> qpair("OR")
            [] u[h] = "!" -> <<Token("NOT")>> \o q[h + 1]
            [] u[h] = "(" -> <<Token("LPAREN")>> \o q[h + 1]
            [] u[h] = ")" -> <<Token("RPAREN")>> \o q[h + 1]
            [] isIdentStart(u[h]) -> other
            [] OTHER -> <<Token("ERROR")>>
    BY <1>2 DEF LexAt
  <2> HIDE DEF qpair, other
  <2> QED
    BY <2>1, <2>2
<1> HIDE DEF Pair, pair, qpair, call, other
<1> QED
  BY <1>1, <1>3, <1>4, <1>5, <1>6

\* The parts of lexFunc.
NameEnds(text, i) ==
  {k \in i .. (Len(text) + 1) : k = Len(text) + 1 \/ ~isIdentChar(text[k])}

\* Where the name of a call ends.
LEMMA NameEndIs ==
  ASSUME NEW T, NEW text \in Seq(T), NEW i \in 1 .. (Len(text) + 1)
  PROVE  /\ Min(NameEnds(text, i)) \in NameEnds(text, i)
         /\ Min(NameEnds(text, i)) \in i .. (Len(text) + 1)
         /\ \A k \in NameEnds(text, i) : Min(NameEnds(text, i)) <= k
         /\ NameEnds(text, i) \subseteq i .. (Len(text) + 1)
<1>1. Len(text) \in Nat
  OBVIOUS
<1>2. Len(text) + 1 \in NameEnds(text, i) /\ NameEnds(text, i) \in SUBSET Nat
  BY <1>1 DEF NameEnds
<1>3. NameEnds(text, i) \subseteq i .. (Len(text) + 1)
  BY DEF NameEnds
<1> QED
  BY <1>2, <1>3, MinIsIn

\* The positions where a call can end, and the first of them.
LEMMA CallEndsIs ==
  ASSUME NEW T, NEW text \in Seq(T), NEW o \in 1 .. Len(text)
  PROVE  /\ CallEnds(text, o) \subseteq o .. Len(text)
         /\ CallEnds(text, o) # {} =>
              /\ Min(CallEnds(text, o)) \in CallEnds(text, o)
              /\ \A k \in CallEnds(text, o) : Min(CallEnds(text, o)) <= k
<1>1. Len(text) \in Nat
  OBVIOUS
<1>2. CallEnds(text, o) \subseteq o .. Len(text)
  BY DEF CallEnds
<1>3. CallEnds(text, o) \in SUBSET Nat
  BY <1>1, <1>2
<1> QED
  BY <1>2, <1>3, MinIsIn

\* lexFunc, with names for its parts.
LEMMA LexFuncIs ==
  ASSUME NEW text, NEW i
  PROVE  LET o == Min(NameEnds(text, i))
         IN  lexFunc(text, i) =
               IF o > Len(text) \/ text[o] # "(" \/ CallEnds(text, o) = {}
               THEN 0 ELSE Min(CallEnds(text, o))
BY DEF lexFunc, NameEnds

(* The text F from position p + 1 on is t, and only spaces follow.          *)
Framed(t, F, p) ==
  /\ Occurs(t, F, p)
  /\ \A k \in (p + Len(t) + 1) .. Len(F) : F[k] = Space

\* Spaces around a text change nothing for lexFunc but the positions.
LEMMA LexFuncFramed ==
  ASSUME NEW T, NEW t \in Seq(T), NEW F \in Seq(T), NEW p, Framed(t, F, p),
         NEW i \in 1 .. Len(t)
  PROVE  \/ lexFunc(t, i) = 0 /\ lexFunc(F, p + i) = 0
         \/ /\ lexFunc(t, i) \in i .. Len(t)
            /\ lexFunc(F, p + i) = p + lexFunc(t, i)
<1> DEFINE M == Len(t)
           N == Len(F)
           o == Min(NameEnds(t, i))
           O == Min(NameEnds(F, p + i))
<1>0. M \in Nat /\ N \in Nat
  OBVIOUS
<1>1. /\ p \in Nat /\ p + M <= N /\ \A k \in 1 .. M : F[p + k] = t[k]
      /\ \A k \in (p + M + 1) .. N : F[k] = Space
      /\ Occurs(t, F, p)
  BY DEF Framed, Occurs
<1>2. /\ Space \notin {"(", ")"} /\ ~isIdentChar(Space)
  BY CharsDiffer, NameChars DEF Special
<1>3. /\ o \in NameEnds(t, i) /\ o \in i .. (M + 1)
      /\ \A k \in NameEnds(t, i) : o <= k
  <2>1. i \in 1 .. (M + 1)
    BY <1>0
  <2> QED
    BY <2>1, NameEndIs
<1>4. /\ O \in NameEnds(F, p + i) /\ O \in (p + i) .. (N + 1)
      /\ \A k \in NameEnds(F, p + i) : O <= k
  <2>1. p + i \in 1 .. (N + 1)
    BY <1>0, <1>1
  <2> QED
    BY <2>1, NameEndIs
<1>5. /\ lexFunc(t, i) = IF o > M \/ t[o] # "(" \/ CallEnds(t, o) = {}
                         THEN 0 ELSE Min(CallEnds(t, o))
      /\ lexFunc(F, p + i) = IF O > N \/ F[O] # "(" \/ CallEnds(F, O) = {}
                             THEN 0 ELSE Min(CallEnds(F, O))
  BY LexFuncIs
<1> HIDE DEF o, O
<1>6. \A k \in i .. M : k \in NameEnds(t, i) <=> p + k \in NameEnds(F, p + i)
  <2> SUFFICES ASSUME NEW k \in i .. M
               PROVE  k \in NameEnds(t, i) <=> p + k \in NameEnds(F, p + i)
    OBVIOUS
  <2>1. k \in 1 .. M /\ k # M + 1 /\ p + k # N + 1 /\ k \in i .. (M + 1)
        /\ p + k \in (p + i) .. (N + 1)
    BY <1>0, <1>1
  <2>2. F[p + k] = t[k]
    BY <2>1, <1>1
  <2> QED
    BY <2>1, <2>2 DEF NameEnds
<1>7. CASE o = M + 1
  <2>1. lexFunc(t, i) = 0
    BY <1>0, <1>5, <1>7
  <2>2. O \notin (p + i) .. (p + M)
    <3>1. ASSUME O \in (p + i) .. (p + M)
          PROVE  FALSE
      <4>1. O - p \in i .. M /\ p + (O - p) = O
        BY <3>1, <1>0, <1>1
      <4>2. O - p \in NameEnds(t, i)
        BY <4>1, <1>4, <1>6
      <4> QED
        BY <4>1, <4>2, <1>0, <1>3, <1>7
    <3> QED
      BY <3>1
  <2>3. O > N \/ F[O] # "("
    <3>1. O <= N => O \in (p + M + 1) .. N
      BY <2>2, <1>0, <1>1, <1>4
    <3> QED
      BY <3>1, <1>0, <1>1, <1>2, <1>4
  <2> QED
    BY <2>1, <2>3, <1>5
<1>8. CASE o # M + 1
  <2>1. o \in i .. M /\ o \in 1 .. M
    BY <1>0, <1>3, <1>8
  <2>2. O = p + o
    <3>1. p + o \in NameEnds(F, p + i)
      BY <2>1, <1>3, <1>6
    <3>2. O <= p + o
      BY <3>1, <1>4
    <3>3. O - p \in i .. M /\ p + (O - p) = O
      BY <3>2, <2>1, <1>0, <1>1, <1>4
    <3>4. O - p \in NameEnds(t, i)
      BY <3>3, <1>4, <1>6
    <3>5. o <= O - p
      BY <3>4, <1>3
    <3>6. O \in Int /\ p \in Int /\ o \in Int
      BY <2>1, <1>0, <1>1, <1>4
    <3> QED
      BY ONLY <3>2, <3>5, <3>6
  <2>3. F[O] = t[o] /\ O \in 1 .. N /\ ~(O > N) /\ ~(o > M)
    BY <2>1, <2>2, <1>0, <1>1
  <2>4. /\ CallEnds(t, o) \subseteq o .. M /\ CallEnds(F, O) \subseteq O .. N
        /\ CallEnds(t, o) # {} => /\ Min(CallEnds(t, o)) \in CallEnds(t, o)
                                  /\ \A k \in CallEnds(t, o) : Min(CallEnds(t, o)) <= k
    BY <2>1, <2>3, CallEndsIs
  <2>5. \A j \in o .. M : j \in CallEnds(t, o) <=> p + j \in CallEnds(F, O)
    <3> SUFFICES ASSUME NEW j \in o .. M
                 PROVE  j \in CallEnds(t, o) <=> p + j \in CallEnds(F, O)
      OBVIOUS
    <3>1. j \in 1 .. M /\ p + j \in O .. N
      BY <2>1, <2>2, <1>0, <1>1
    <3>2. F[p + j] = t[j]
      BY <3>1, <1>1
    <3>3. Depth(F, O, p + j) = Depth(t, o, j)
      BY <2>1, <2>2, <1>1, DepthWithin
    <3> QED
      BY <3>1, <3>2, <3>3 DEF CallEnds
  <2>6. ASSUME NEW j \in CallEnds(F, O)
        PROVE  j - p \in o .. M /\ p + (j - p) = j /\ j - p \in CallEnds(t, o)
    <3>1. j \in O .. N /\ F[j] = ")"
      BY DEF CallEnds
    <3>2. j \notin (p + M + 1) .. N
      BY <3>1, <1>1, <1>2
    <3>3. j - p \in o .. M /\ p + (j - p) = j
      BY <3>1, <3>2, <2>1, <2>2, <1>0, <1>1
    <3> QED
      BY <3>3, <2>5
  <2>7. CASE CallEnds(t, o) = {}
    <3>1. CallEnds(F, O) = {}
      BY <2>6, <2>7
    <3> QED
      BY <3>1, <2>7, <1>5
  <2>8. CASE CallEnds(t, o) # {}
    <3> DEFINE m == Min(CallEnds(t, o))
    <3>1. m \in o .. M /\ m \in CallEnds(t, o) /\ \A k \in CallEnds(t, o) : m <= k
      BY <2>4, <2>8
    <3> HIDE DEF m
    <3>2. p + m \in CallEnds(F, O)
      BY <3>1, <2>5
    <3>3. \A j \in CallEnds(F, O) : p + m <= j
      <4> SUFFICES ASSUME NEW j \in CallEnds(F, O)
                   PROVE  p + m <= j
        OBVIOUS
      <4>1. m <= j - p /\ j - p \in o .. M /\ p + (j - p) = j
        BY <2>6, <3>1
      <4> QED
        BY <4>1, <3>1, <2>1, <1>1
    <3>4. CallEnds(F, O) \in SUBSET Int
      BY <2>3, <2>4
    <3>5. Min(CallEnds(F, O)) = p + m
      BY <3>2, <3>3, <3>4, MinIs
    <3>6. m \in i .. M /\ m # 0
      BY <3>1, <2>1
    <3>7. CASE t[o] = "("
      <4>1. lexFunc(t, i) = m /\ lexFunc(F, p + i) = p + m
        BY <3>2, <3>5, <3>7, <2>3, <2>8, <1>5 DEF m
      <4> QED
        BY <4>1, <3>6
    <3>8. CASE t[o] # "("
      BY <3>8, <2>3, <1>5
    <3> QED
      BY <3>7, <3>8
  <2> QED
    BY <2>7, <2>8
<1> QED
  BY <1>7, <1>8

-------------------------------------------------------------------------------
(* Lex trims the text first: that changes no token.                         *)

IsLex(text, lex) ==
  /\ \A i \in 1 .. Len(text) : lex[i] = LexAt(text, lex, i)
  /\ lex[Len(text) + 1] = <<>>

\* Lex makes no token of a space.
LEMMA SpaceIsSkipped ==
  ASSUME NEW text, NEW rest, NEW i, text[i] = Space
  PROVE  LexAt(text, rest, i) = rest[i + 1]
<1>1. text[i] # "&" /\ text[i] # "|" /\ text[i] # "!" /\ text[i] # "(" /\ text[i] # ")"
  BY CharsDiffer, Zenon
<1>2. ~isIdentStart(text[i])
  BY NameChars DEF Special
<1> QED
  BY <1>1, <1>2 DEF LexAt

\* Nor of several.
LEMMA SpacesAreSkipped ==
  ASSUME NEW T, NEW text \in Seq(T), NEW lex, IsLex(text, lex),
         NEW i \in 1 .. (Len(text) + 1), NEW j \in i .. (Len(text) + 1),
         \A k \in i .. (j - 1) : text[k] = Space
  PROVE  lex[i] = lex[j]
<1> DEFINE n == j - i
           D == {d \in 0 .. n : lex[i + d] = lex[i]}
<1>0. Len(text) \in Nat
  OBVIOUS
<1>1. n \in Nat /\ i + n = j
  BY <1>0
<1>2. 0 \in D
  BY <1>0, <1>1
<1>3. ASSUME NEW d \in 0 .. (n - 1), d \in D
      PROVE  d + 1 \in D
  <2>1. i + d \in i .. (j - 1) /\ i + d \in 1 .. Len(text) /\ (i + d) + 1 = i + (d + 1)
        /\ d + 1 \in 0 .. n
    BY <1>0, <1>1
  <2>2. lex[i + d] = LexAt(text, lex, i + d)
    BY <2>1 DEF IsLex
  <2>3. LexAt(text, lex, i + d) = lex[(i + d) + 1]
    BY <2>1, SpaceIsSkipped
  <2> QED
    BY <1>3, <2>1, <2>2, <2>3
<1>4. 0 .. n \subseteq D
  <2> HIDE DEF D, n
  <2> QED
    BY <1>1, <1>2, <1>3, InductionUpTo
<1>5. n \in D
  <2> HIDE DEF D, n
  <2> QED
    BY <1>1, <1>4
<1> QED
  BY <1>1, <1>5

\* Spaces around a text do not change its tokens.
LEMMA LexFramed ==
  ASSUME NEW T, NEW t \in Seq(T), NEW F \in Seq(T), NEW p, Framed(t, F, p),
         NEW tlex, IsLex(t, tlex), NEW flex, IsLex(F, flex)
  PROVE  \A i \in 1 .. (Len(t) + 1) : tlex[i] = flex[p + i]
<1> DEFINE M == Len(t)
           N == Len(F)
           S == {m \in 1 .. (M + 1) : \A i \in m .. (M + 1) : tlex[i] = flex[p + i]}
<1>0. M \in Nat /\ N \in Nat
  OBVIOUS
<1>1. /\ p \in Nat /\ p + M <= N /\ \A k \in 1 .. M : F[p + k] = t[k]
      /\ \A k \in (p + M + 1) .. N : F[k] = Space
  BY DEF Framed, Occurs
<1>2. tlex[M + 1] = <<>> /\ flex[N + 1] = <<>>
  BY DEF IsLex
<1>3. M + 1 \in S
  <2>1. /\ p + (M + 1) \in 1 .. (N + 1) /\ N + 1 \in (p + (M + 1)) .. (N + 1)
        /\ (N + 1) - 1 = N /\ p + (M + 1) = p + M + 1
    BY <1>0, <1>1
  <2>2. flex[p + (M + 1)] = flex[N + 1]
    <3>1. \A k \in (p + (M + 1)) .. ((N + 1) - 1) : F[k] = Space
      BY <2>1, <1>1
    <3> QED
      BY <2>1, <3>1, SpacesAreSkipped
  <2>3. \A i \in (M + 1) .. (M + 1) : i = M + 1
    BY <1>0
  <2>4. M + 1 \in 1 .. (M + 1)
    BY <1>0
  <2> QED
    BY <2>2, <2>3, <2>4, <1>2
<1>4. ASSUME NEW i \in 1 .. M, i + 1 \in S
      PROVE  i \in S
  <2> DEFINE h == p + i
             f == lexFunc(t, i)
             g == lexFunc(F, h)
  <2>1. \A k \in (i + 1) .. (M + 1) : tlex[k] = flex[p + k]
    BY <1>4
  <2>2. /\ h \in 1 .. N /\ p + (i + 1) = h + 1 /\ p + (i + 2) = h + 2
        /\ i + 1 \in (i + 1) .. (M + 1)
        /\ i < M => i + 2 \in (i + 1) .. (M + 1) /\ i + 1 \in 1 .. M /\ h < N
        /\ ~(i < M) /\ h < N => h + 1 \in (p + M + 1) .. N
    BY <1>0, <1>1
  <2>3. /\ t[i] = F[h] /\ tlex[i + 1] = flex[h + 1]
        /\ i < M => tlex[i + 2] = flex[h + 2]
    BY <2>1, <2>2, <1>1
  <2>4. ASSUME NEW c \in {"&", "|"}
        PROVE  (i < M /\ t[i] = c /\ t[i + 1] = c) <=> (h < N /\ F[h] = c /\ F[h + 1] = c)
    <3>1. c # Space
      BY CharsDiffer, Zenon
    <3>2. i < M => F[h + 1] = t[i + 1]
      <4>1. i < M => F[p + (i + 1)] = t[i + 1]
        BY <2>2, <1>1
      <4> QED
        BY <4>1, <2>2
    <3>3. ~(i < M) /\ h < N => F[h + 1] = Space
      BY <2>2, <1>1
    <3>4. i < M => h < N
      BY <2>2
    <3> HIDE DEF h, M, N
    <3>5. CASE i < M
      BY <3>2, <3>4, <3>5, <2>3
    <3>6. CASE ~(i < M)
      BY <3>1, <3>3, <3>6
    <3> QED
      BY <3>5, <3>6
  <2>5. \/ f = 0 /\ g = 0
        \/ /\ f # 0 /\ g # 0
           /\ SubSeq(t, i, f) = SubSeq(F, h, g)
           /\ tlex[f + 1] = flex[g + 1]
    <3>1. CASE f = 0 /\ g = 0
      BY <3>1
    <3>2. CASE f \in i .. M /\ g = p + f
      <4> HIDE DEF f, g
      <4>1. f # 0 /\ g # 0
        BY <3>2, <1>0, <1>1
      <4>2. tlex[f + 1] = flex[g + 1]
        <5>1. f + 1 \in (i + 1) .. (M + 1) /\ p + (f + 1) = g + 1
          BY <3>2, <1>0, <1>1
        <5> QED
          BY <5>1, <2>1
      <4>3. SubSeq(t, i, f) = SubSeq(F, h, g)
        <5> DEFINE s == SubSeq(t, i, f)
        <5>1. /\ i \in 1 .. (M + 1) /\ f \in (i - 1) .. M
          BY <3>2, <1>0
        <5>2. s \in Seq(T) /\ Len(s) = f - i + 1 /\ Occurs(s, t, i - 1)
          BY <5>1, SubSeqIs, SubSeqOccurs
        <5> HIDE DEF s
        <5>3. Occurs(s, F, p + (i - 1))
          BY <5>2, OccursWithin DEF Framed
        <5>4. SubSeq(F, (p + (i - 1)) + 1, (p + (i - 1)) + Len(s)) = s
          BY <5>2, <5>3, OccursIs
        <5>5. (p + (i - 1)) + 1 = h /\ (p + (i - 1)) + Len(s) = g
          BY <5>2, <3>2, <1>0, <1>1
        <5> QED
          BY <5>4, <5>5 DEF s
      <4> QED
        BY <4>1, <4>2, <4>3
    <3> QED
      <4>1. \/ f = 0 /\ g = 0
            \/ f \in i .. M /\ g = p + f
        <5>1. i \in 1 .. Len(t)
          OBVIOUS
        <5>2. \/ lexFunc(t, i) = 0 /\ lexFunc(F, p + i) = 0
              \/ /\ lexFunc(t, i) \in i .. Len(t)
                 /\ lexFunc(F, p + i) = p + lexFunc(t, i)
          BY <5>1, LexFuncFramed
        <5> QED
          BY <5>2, Zenon
      <4> QED
        BY <3>1, <3>2, <4>1, Zenon
  <2>6. LexAt(t, tlex, i) = LexAt(F, flex, h)
    <3>1. SameAt(t, F, i, h, tlex, flex)
      BY <2>3, <2>4, <2>5 DEF SameAt
    <3> QED
      BY <3>1, LexAtSame
  <2>7. tlex[i] = flex[h]
    BY <2>2, <2>6 DEF IsLex
  <2>8. \A k \in i .. (M + 1) : k = i \/ k \in (i + 1) .. (M + 1)
    BY <1>0
  <2>9. \A k \in i .. (M + 1) : tlex[k] = flex[p + k]
    BY <2>1, <2>7, <2>8
  <2>10. i \in 1 .. (M + 1)
    BY <1>0
  <2> QED
    BY <2>9, <2>10
<1>5. 1 \in S
  <2>1. 1 .. (M + 1) \subseteq S
    <3> HIDE DEF S, M
    <3> QED
      BY <1>0, <1>3, <1>4, InductionDown
  <2> HIDE DEF S, M
  <2> QED
    BY <1>0, <2>1
<1> QED
  BY <1>5

\* Spaces around a text make no difference.
LEMMA TrimmedLex ==
  ASSUME NEW T, NEW F \in Seq(T), NEW flex, IsLex(F, flex)
  PROVE  Lex(F) = flex[1]
<1> DEFINE t == TrimSpace(F)
           N == Len(F)
<1>0. N \in Nat
  OBVIOUS
<1>1. Lex(F) = LexFrom(t)
  BY DEF Lex
<1>2. ASSUME NEW s \in Seq(T)
      PROVE  \E lex : IsLex(s, lex) /\ LexFrom(s) = lex[1]
  <2>1. PICK lex : /\ \A i \in 1 .. Len(s) : lex[i] = LexAt(s, lex, i)
                   /\ lex[Len(s) + 1] = <<>>
                   /\ LexFrom(s) = lex[1]
    BY LexIs
  <2> QED
    BY <2>1 DEF IsLex
<1>3. CASE t = <<>> /\ \A k \in 1 .. N : F[k] = Space
  <2>1. <<>> \in Seq(T) /\ Len(<<>>) + 1 = 1
    OBVIOUS
  <2>2. PICK lex : IsLex(<<>>, lex) /\ LexFrom(<<>>) = lex[1]
    BY <1>2, <2>1
  <2>3. LexFrom(<<>>) = <<>>
    BY <2>1, <2>2 DEF IsLex
  <2>4. flex[1] = flex[N + 1]
    <3>1. 1 \in 1 .. (N + 1) /\ N + 1 \in 1 .. (N + 1) /\ (N + 1) - 1 = N
      BY <1>0
    <3>2. \A k \in 1 .. ((N + 1) - 1) : F[k] = Space
      BY <3>1, <1>3
    <3> QED
      BY <3>1, <3>2, SpacesAreSkipped
  <2>5. flex[N + 1] = <<>>
    BY DEF IsLex
  <2> QED
    BY <1>1, <1>3, <2>3, <2>4, <2>5
<1>4. ASSUME NEW a \in 1 .. N, NEW b \in 1 .. N, a <= b, t = SubSeq(F, a, b),
             \A k \in 1 .. N : F[k] # Space => a <= k /\ k <= b
      PROVE  Lex(F) = flex[1]
  <2> DEFINE p == a - 1
  <2>1. a \in 1 .. (N + 1) /\ b \in (a - 1) .. N /\ p \in Nat
    BY <1>0, <1>4
  <2>2. t \in Seq(T) /\ Len(t) = b - a + 1 /\ Occurs(t, F, p)
    BY <2>1, <1>4, SubSeqIs, SubSeqOccurs
  <2> HIDE DEF t
  <2>3. \A k \in (p + Len(t) + 1) .. N : F[k] = Space
    <3> SUFFICES ASSUME NEW k \in (p + Len(t) + 1) .. N
                 PROVE  F[k] = Space
      OBVIOUS
    <3>1. p + Len(t) + 1 = b + 1
      BY <2>1, <2>2
    <3>2. k \in 1 .. N /\ ~(k <= b)
      BY <3>1, <1>0
    <3> QED
      BY <3>2, <1>4
  <2>4. Framed(t, F, p)
    BY <2>2, <2>3 DEF Framed
  <2>5. PICK tlex : IsLex(t, tlex) /\ LexFrom(t) = tlex[1]
    BY <1>2, <2>2
  <2>6. tlex[1] = flex[p + 1]
    <3>1. 1 \in 1 .. (Len(t) + 1)
      BY <2>2, <1>4
    <3>2. \A i \in 1 .. (Len(t) + 1) : tlex[i] = flex[p + i]
      <4>1. t \in Seq(T) /\ Framed(t, F, p) /\ IsLex(t, tlex) /\ IsLex(F, flex)
        BY <2>2, <2>4, <2>5
      <4> HIDE DEF p
      <4> QED
        BY ONLY <4>1, LexFramed
    <3> QED
      BY <3>1, <3>2
  <2>7. flex[1] = flex[a]
    <3>1. 1 \in 1 .. (N + 1) /\ a \in 1 .. (N + 1)
      BY <1>0
    <3>2. \A k \in 1 .. (a - 1) : F[k] = Space
      <4> SUFFICES ASSUME NEW k \in 1 .. (a - 1)
                   PROVE  F[k] = Space
        OBVIOUS
      <4>1. k \in 1 .. N /\ ~(a <= k)
        BY <1>0
      <4> QED
        BY <4>1, <1>4
    <3> QED
      BY <3>1, <3>2, SpacesAreSkipped
  <2>8. p + 1 = a
    OBVIOUS
  <2> QED
    BY <1>1, <2>5, <2>6, <2>7, <2>8
<1>5. \/ t = <<>> /\ \A k \in 1 .. N : F[k] = Space
      \/ \E a \in 1 .. N, b \in 1 .. N :
           /\ a <= b /\ t = SubSeq(F, a, b)
           /\ \A k \in 1 .. N : F[k] # Space => a <= k /\ k <= b
  <2>1. \/ /\ TrimSpace(F) = <<>>
           /\ \A k \in 1 .. Len(F) : F[k] = Space
        \/ \E a \in 1 .. Len(F), b \in 1 .. Len(F) :
             /\ a <= b
             /\ TrimSpace(F) = SubSeq(F, a, b)
             /\ F[a] # Space /\ F[b] # Space
             /\ \A k \in 1 .. Len(F) : F[k] # Space => a <= k /\ k <= b
    BY TrimIs
  <2> QED
    BY <2>1
<1> QED
  BY <1>3, <1>4, <1>5

-------------------------------------------------------------------------------
(* One piece is one token.                                                  *)

\* The three kinds of pieces.
LEMMA PiecesAre ==
  ASSUME NEW piece \in Pieces
  PROVE  \/ piece.type \in Operators /\ piece = Piece(piece.type)
         \/ /\ piece.type = "CALL" /\ piece.call \in Calls
            /\ piece = CallPiece(piece.call)
         \/ /\ piece.type = "STRAY" /\ piece.text \in Strays
            /\ PieceText(piece) = piece.text
<1>1. CASE piece \in {Piece(t) : t \in Operators}
  <2>1. PICK t \in Operators : piece = Piece(t)
    BY <1>1
  <2>2. piece.type = t
    BY <2>1 DEF Piece
  <2> QED
    BY <2>1, <2>2
<1>2. CASE piece \in {CallPiece(c) : c \in Calls}
  <2>1. PICK c \in Calls : piece = CallPiece(c)
    BY <1>2
  <2>2. piece.type = "CALL" /\ piece.call = c
    BY <2>1 DEF CallPiece
  <2> QED
    BY <2>1, <2>2
<1>3. CASE piece \in {StrayPiece(t) : t \in Strays}
  <2>1. PICK t \in Strays : piece = StrayPiece(t)
    BY <1>3
  <2>2. piece.type = "STRAY" /\ piece.text = t
    BY <2>1 DEF StrayPiece
  <2>3. PieceText(piece) = piece.text
    BY <2>2 DEF PieceText
  <2> QED
    BY <2>1, <2>2, <2>3
<1> QED
  BY <1>1, <1>2, <1>3 DEF Pieces

\* The texts of the operators.
LEMMA OperatorTexts ==
  /\ PieceText(Piece("AND")) = <<Space, "&", "&", Space>>
  /\ PieceText(Piece("OR")) = <<Space, "|", "|", Space>>
  /\ PieceText(Piece("NOT")) = <<"!">>
  /\ PieceText(Piece("LPAREN")) = <<"(">>
  /\ PieceText(Piece("RPAREN")) = <<")">>
<1>1. \A t \in Operators : Piece(t).type = t
  BY DEF Piece
<1>2. /\ Piece("AND").type = "AND" /\ Piece("OR").type = "OR"
      /\ Piece("NOT").type = "NOT" /\ Piece("LPAREN").type = "LPAREN"
      /\ Piece("RPAREN").type = "RPAREN"
  BY <1>1 DEF Operators
<1> QED
  BY <1>2 DEF PieceText

\* What the stray texts are.
LEMMA StraysAre ==
  ASSUME NEW text \in Strays
  PROVE  /\ text \in Seq(Chars) /\ Len(text) >= 1
         /\ \/ /\ text[1] \in Letters
               /\ \A k \in 1 .. Len(text) : isIdentChar(text[k])
            \/ text[1] \notin Letters \cup Special
<1>1. /\ text # <<>> /\ text \in Seq(Range(text))
      /\ \/ text[1] \in Letters /\ Range(text) \subseteq Letters \cup Digits
         \/ text[1] \notin Letters \cup Special
  BY TextAssumption
<1>2. Range(text) \subseteq Chars
  <2>1. Range(text) \in {Range(s) : s \in Strays}
    OBVIOUS
  <2>2. \A R, S : R \in S => R \subseteq UNION S
    OBVIOUS
  <2>3. UNION {Range(s) : s \in Strays} \subseteq Chars
    BY DEF Chars
  <2> QED
    BY <2>1, <2>2, <2>3
<1>3. text \in Seq(Chars)
  <2>1. \A S, R : S \subseteq R => Seq(S) \subseteq Seq(R)
    OBVIOUS
  <2> QED
    BY <1>1, <1>2, <2>1
<1>4. Len(text) >= 1
  BY <1>1, <1>3
<1>5. \A k \in 1 .. Len(text) : text[k] \in Range(text)
  BY <1>3 DEF Range
<1> QED
  BY <1>1, <1>3, <1>4, <1>5 DEF isIdentChar

\* How the text of a piece begins.
LEMMA PieceTextIs ==
  ASSUME NEW piece \in Pieces
  PROVE  LET w == PieceText(piece)
         IN  /\ w \in Seq(Chars) /\ Len(w) \in Nat /\ Len(w) >= 1
             /\ w[1] # Backtick
             /\ w[1] = Space => Len(w) >= 2 /\ w[2] \notin {Space, Backtick}
             /\ w[1] = "(" => piece = Piece("LPAREN")
<1> DEFINE w == PieceText(piece)
<1>0. /\ Space \in Special /\ Backtick \in Special /\ "(" \in Special
      /\ Special \subseteq Chars
  BY DEF Special, Chars
<1>1. CASE piece.type \in Operators /\ piece = Piece(piece.type)
  <2>1. "&" \in Chars /\ "|" \in Chars /\ "!" \in Chars /\ "(" \in Chars
        /\ ")" \in Chars /\ Space \in Chars
    BY <1>0 DEF Special
  <2>2. /\ Space # Backtick /\ Space # "(" /\ "&" \notin {Space, Backtick}
        /\ "|" \notin {Space, Backtick} /\ "!" \notin {Space, Backtick, "("}
        /\ "(" \notin {Space, Backtick} /\ ")" \notin {Space, Backtick, "("}
    BY CharsDiffer, Zenon
  <2>3. CASE piece = Piece("AND")
    <3>1. w = <<Space, "&", "&", Space>>
      BY <2>3, OperatorTexts
    <3> QED
      BY <2>1, <2>2, <3>1
  <2>4. CASE piece = Piece("OR")
    <3>1. w = <<Space, "|", "|", Space>>
      BY <2>4, OperatorTexts
    <3> QED
      BY <2>1, <2>2, <3>1
  <2>5. CASE piece = Piece("NOT")
    <3>1. w = <<"!">>
      BY <2>5, OperatorTexts
    <3> QED
      BY <2>1, <2>2, <3>1
  <2>6. CASE piece = Piece("LPAREN")
    <3>1. w = <<"(">>
      BY <2>6, OperatorTexts
    <3>2. w \in Seq(Chars) /\ Len(w) = 1 /\ w[1] = "("
      BY <2>1, <3>1
    <3> HIDE DEF w
    <3>3. w[1] # Backtick /\ w[1] # Space
      BY <2>2, <3>2
    <3> QED
      BY <2>6, <3>2, <3>3 DEF w
  <2>7. CASE piece = Piece("RPAREN")
    <3>1. w = <<")">>
      BY <2>7, OperatorTexts
    <3> QED
      BY <2>1, <2>2, <3>1
  <2> QED
    BY <1>1, <2>3, <2>4, <2>5, <2>6, <2>7 DEF Operators
<1>2. CASE piece.type = "CALL" /\ piece.call \in Calls /\ piece = CallPiece(piece.call)
  <2> DEFINE inner == FlattenSeq(ArgTexts(piece.call))
  <2>1. /\ inner \in Seq(Chars) /\ w \in Seq(Chars) /\ Len(w) = Len(inner) + 3
        /\ w[1] = piece.call.name
    BY <1>2, CallTextIs
  <2>2. Len(inner) \in Nat
    BY <2>1
  <2>3. piece.call.name \notin Special
    BY <1>2, CallsAre, NameChars
  <2> HIDE DEF w, inner
  <2>4. Len(w) \in Nat /\ Len(w) >= 1
    BY <2>1, <2>2
  <2> QED
    BY <2>1, <2>3, <2>4, <1>0 DEF w
<1>3. CASE piece.type = "STRAY" /\ piece.text \in Strays /\ w = piece.text
  <2> HIDE DEF w
  <2>1. w \in Seq(Chars) /\ Len(w) >= 1 /\ w[1] \notin Special
    <3>1. /\ piece.text \in Seq(Chars) /\ Len(piece.text) >= 1
          /\ piece.text[1] \in Letters \/ piece.text[1] \notin Letters \cup Special
      BY <1>3, StraysAre
    <3>2. piece.text[1] \notin Special
      BY <3>1, NameChars
    <3> QED
      BY <3>1, <3>2, <1>3
  <2>2. w[1] # Space /\ w[1] # Backtick /\ w[1] # "("
    BY <2>1, <1>0
  <2>3. Len(w) \in Nat
    BY <2>1
  <2> QED
    BY <2>1, <2>2, <2>3 DEF w
<1> QED
  BY <1>1, <1>2, <1>3, PiecesAre

\* The token of a piece that is none of the author's stray texts.
PieceToken(piece) ==
  IF piece.type = "CALL" THEN [type |-> "FUNC", value |-> PieceText(piece)]
                         ELSE Token(piece.type)

\* Is a balanced call if it is a call.
BalancedPiece(piece) == piece.type = "CALL" => BalancedCall(piece.call)

\* Lex makes one token of an operator.
LEMMA OperatorLexed ==
  ASSUME NEW text, NEW rest, NEW i
  PROVE  /\ text[i] = "!" => LexAt(text, rest, i) = <<Token("NOT")>> \o rest[i + 1]
         /\ text[i] = "(" => LexAt(text, rest, i) = <<Token("LPAREN")>> \o rest[i + 1]
         /\ text[i] = ")" => LexAt(text, rest, i) = <<Token("RPAREN")>> \o rest[i + 1]
         /\ i < Len(text) /\ text[i] = "&" /\ text[i + 1] = "&" =>
              LexAt(text, rest, i) = <<Token("AND")>> \o rest[i + 2]
         /\ i < Len(text) /\ text[i] = "|" /\ text[i + 1] = "|" =>
              LexAt(text, rest, i) = <<Token("OR")>> \o rest[i + 2]
<1>1. \A c \in {"!", "(", ")", "&", "|"} : c # Space
  BY CharsDiffer, Zenon
<1>2. \A c \in {"!", "(", ")", "&", "|"} : ~isIdentStart(c)
  BY NameChars DEF Special
<1> QED
  BY <1>1, <1>2, Zenon DEF LexAt

\* Lex makes one token of a piece that is no stray text, wherever it stands.
THEOREM PieceIsLexed ==
  ASSUME NEW piece \in Pieces, piece.type # "STRAY", BalancedPiece(piece),
         NEW F \in Seq(Chars), NEW flex, IsLex(F, flex),
         NEW p, Occurs(PieceText(piece), F, p)
  PROVE  flex[p + 1] = <<PieceToken(piece)>> \o flex[p + Len(PieceText(piece)) + 1]
<1> DEFINE w == PieceText(piece)
           N == Len(F)
<1>0. /\ w \in Seq(Chars) /\ Len(w) \in Nat /\ Len(w) >= 1
  BY PieceTextIs
<1>1. /\ N \in Nat /\ p \in Nat /\ p + Len(w) <= N
      /\ \A m \in 1 .. Len(w) : F[p + m] = w[m]
  BY DEF Occurs
<1> HIDE DEF N
<1>2. \A i \in 1 .. N : flex[i] = LexAt(F, flex, i)
  BY DEF IsLex, N
<1>3. CASE piece.type \in Operators /\ piece = Piece(piece.type)
  <2>0. piece.type # "CALL" /\ PieceToken(piece) = Token(piece.type)
    BY <1>3 DEF Operators, PieceToken
  <2>1. ASSUME NEW c, w = <<c>>
        PROVE  p + 1 \in 1 .. N /\ F[p + 1] = c /\ (p + 1) + 1 = p + Len(w) + 1
    <3>1. Len(w) = 1 /\ w[1] = c /\ 1 \in 1 .. Len(w)
      BY <2>1
    <3> HIDE DEF w
    <3> QED
      BY <3>1, <1>1
  <2>2. ASSUME NEW c, w = <<Space, c, c, Space>>
        PROVE  /\ p + 1 \in 1 .. N /\ p + 2 \in 1 .. N /\ p + 4 \in 1 .. N /\ p + 2 < N
               /\ F[p + 1] = Space /\ F[p + 2] = c /\ F[(p + 2) + 1] = c
               /\ F[p + 4] = Space
               /\ (p + 1) + 1 = p + 2 /\ (p + 2) + 2 = p + 4
               /\ (p + 4) + 1 = p + Len(w) + 1
    <3>1. /\ Len(w) = 4 /\ w[1] = Space /\ w[2] = c /\ w[3] = c /\ w[4] = Space
      BY <2>2
    <3> HIDE DEF w
    <3>2. 1 \in 1 .. Len(w) /\ 2 \in 1 .. Len(w) /\ 3 \in 1 .. Len(w) /\ 4 \in 1 .. Len(w)
      BY <3>1
    <3>3. F[p + 1] = Space /\ F[p + 2] = c /\ F[p + 3] = c /\ F[p + 4] = Space
      BY <3>1, <3>2, <1>1
    <3>4. (p + 2) + 1 = p + 3 /\ p + 4 <= N
      BY <3>1, <1>1
    <3>5. /\ p + 1 \in 1 .. N /\ p + 2 \in 1 .. N /\ p + 4 \in 1 .. N /\ p + 2 < N
          /\ (p + 1) + 1 = p + 2 /\ (p + 2) + 2 = p + 4
      BY <3>4, <1>1
    <3>6. (p + 4) + 1 = p + Len(w) + 1
      BY <3>1, <1>1
    <3> QED
      BY <3>3, <3>4, <3>5, <3>6
  <2>3. ASSUME NEW c, NEW type, w = <<Space, c, c, Space>>, piece.type = type,
               \/ c = "&" /\ type = "AND"
               \/ c = "|" /\ type = "OR"
        PROVE  flex[p + 1] = <<PieceToken(piece)>> \o flex[p + Len(w) + 1]
    <3> HIDE DEF w
    <3>1. flex[p + 1] = flex[p + 2]
      BY <2>2, <2>3, <1>2, SpaceIsSkipped
    <3>2. flex[p + 2] = <<Token(type)>> \o flex[p + 4]
      <4>1. LexAt(F, flex, p + 2) = <<Token(type)>> \o flex[(p + 2) + 2]
        <5> DEFINE i == p + 2
        <5>1. i < Len(F) /\ F[i] = c /\ F[i + 1] = c
          BY <2>2, <2>3 DEF N
        <5> HIDE DEF i
        <5>4. LexAt(F, flex, i) = <<Token(type)>> \o flex[i + 2]
          <6>1. CASE c = "&" /\ type = "AND"
            <7>1. i < Len(F) /\ F[i] = "&" /\ F[i + 1] = "&"
              BY <5>1, <6>1
            <7>2. LexAt(F, flex, i) = <<Token("AND")>> \o flex[i + 2]
              BY <7>1, OperatorLexed
            <7> QED
              BY <7>2, <6>1, Zenon
          <6>2. CASE c = "|" /\ type = "OR"
            <7>1. i < Len(F) /\ F[i] = "|" /\ F[i + 1] = "|"
              BY <5>1, <6>2
            <7>2. LexAt(F, flex, i) = <<Token("OR")>> \o flex[i + 2]
              BY <7>1, OperatorLexed
            <7> QED
              BY <7>2, <6>2, Zenon
          <6> QED
            BY <2>3, <6>1, <6>2, Zenon
        <5> QED
          BY <5>4 DEF i
      <4> QED
        BY <4>1, <2>2, <2>3, <1>2
    <3>3. flex[p + 4] = flex[p + Len(w) + 1]
      <4>1. LexAt(F, flex, p + 4) = flex[(p + 4) + 1]
        BY <2>2, <2>3, SpaceIsSkipped
      <4> QED
        BY <4>1, <2>2, <2>3, <1>2
    <3> QED
      BY <3>1, <3>2, <3>3, <2>0, <2>3
  <2>4. ASSUME NEW c, NEW type, w = <<c>>, piece.type = type,
               \/ c = "!" /\ type = "NOT"
               \/ c = "(" /\ type = "LPAREN"
               \/ c = ")" /\ type = "RPAREN"
        PROVE  flex[p + 1] = <<PieceToken(piece)>> \o flex[p + Len(w) + 1]
    <3> HIDE DEF w
    <3>1. LexAt(F, flex, p + 1) = <<Token(type)>> \o flex[(p + 1) + 1]
      BY <2>1, <2>4, OperatorLexed
    <3> QED
      BY <3>1, <2>0, <2>1, <2>4, <1>2
  <2>5. \/ piece.type = "AND" /\ w = <<Space, "&", "&", Space>>
        \/ piece.type = "OR" /\ w = <<Space, "|", "|", Space>>
        \/ piece.type = "NOT" /\ w = <<"!">>
        \/ piece.type = "LPAREN" /\ w = <<"(">>
        \/ piece.type = "RPAREN" /\ w = <<")">>
    BY <1>3, OperatorTexts DEF Operators
  <2> HIDE DEF w
  <2>6. CASE piece.type = "AND" /\ w = <<Space, "&", "&", Space>>
    BY <2>3, <2>6 DEF w
  <2>7. CASE piece.type = "OR" /\ w = <<Space, "|", "|", Space>>
    BY <2>3, <2>7 DEF w
  <2>8. CASE piece.type = "NOT" /\ w = <<"!">>
    BY <2>4, <2>8 DEF w
  <2>9. CASE piece.type = "LPAREN" /\ w = <<"(">>
    BY <2>4, <2>9 DEF w
  <2>10. CASE piece.type = "RPAREN" /\ w = <<")">>
    BY <2>4, <2>10 DEF w
  <2> QED
    BY <2>5, <2>6, <2>7, <2>8, <2>9, <2>10
<1>4. CASE piece.type = "CALL" /\ piece.call \in Calls /\ piece = CallPiece(piece.call)
  <2>1. BalancedCall(piece.call) /\ Occurs(PieceText(CallPiece(piece.call)), F, p)
    BY <1>4 DEF BalancedPiece
  <2>2. LexAt(F, flex, p + 1)
          = <<[type |-> "FUNC", value |-> PieceText(CallPiece(piece.call))]>>
              \o flex[p + Len(PieceText(CallPiece(piece.call))) + 1]
    BY <2>1, <1>4, CallIsLexed
  <2>3. PieceToken(piece) = [type |-> "FUNC", value |-> w]
    BY <1>4 DEF PieceToken
  <2>4. p + 1 \in 1 .. N
    <3> HIDE DEF w
    <3> QED
      BY <1>0, <1>1
  <2> QED
    BY <2>2, <2>3, <2>4, <1>2, <1>4
<1> QED
  BY <1>3, <1>4, PiecesAre

-------------------------------------------------------------------------------
(* The text of a rule is lexed piece by piece.                              *)

\* Where the text of each piece begins in the text of a rule.
Stands(pieces, text, at) ==
  /\ at[1] = 0 /\ at[Len(pieces) + 1] = Len(text)
  /\ \A k \in 1 .. (Len(pieces) + 1) : at[k] \in 0 .. Len(text)
  /\ \A k \in 1 .. Len(pieces) :
       /\ Occurs(PieceText(pieces[k]), text, at[k])
       /\ at[k + 1] = at[k] + Len(PieceText(pieces[k]))

\* The pieces of a rule stand one after the other in its text.
LEMMA RuleTextIs ==
  ASSUME NEW pieces \in Seq(Pieces)
  PROVE  /\ Text(pieces) \in Seq(Chars)
         /\ \E at : Stands(pieces, Text(pieces), at)
<1> DEFINE texts == [k \in DOMAIN pieces |-> PieceText(pieces[k])]
<1>1. texts \in Seq(Seq(Chars)) /\ Len(texts) = Len(pieces)
      /\ \A k \in 1 .. Len(pieces) : texts[k] = PieceText(pieces[k])
  <2>1. \A k \in 1 .. Len(pieces) : PieceText(pieces[k]) \in Seq(Chars)
    BY PieceTextIs
  <2> QED
    BY <2>1
<1>2. Text(pieces) = FlattenSeq(texts)
  BY DEF Text
<1> HIDE DEF texts
<1>3. Text(pieces) \in Seq(Chars)
  BY <1>1, <1>2, FlattenIs
<1>4. PICK at : Parts(texts, Text(pieces), at)
  BY <1>1, <1>2, FlattenIs
<1>5. /\ at[1] = 0 /\ at[Len(texts) + 1] = Len(Text(pieces))
      /\ \A k \in 1 .. (Len(texts) + 1) : at[k] \in 0 .. Len(Text(pieces))
      /\ \A k \in 1 .. Len(texts) :
           Occurs(texts[k], Text(pieces), at[k]) /\ at[k + 1] = at[k] + Len(texts[k])
  BY <1>1, <1>3, <1>4, PartsOccur
<1>6. Stands(pieces, Text(pieces), at)
  BY <1>1, <1>5 DEF Stands
<1> QED
  BY <1>3, <1>6

\* The tokens of the pieces before number k, and then those of the text from there.
LexedTo(pieces, flex, at, k) ==
  /\ Len(flex[1]) = (k - 1) + Len(flex[at[k] + 1])
  /\ \A m \in 1 .. (k - 1) : flex[1][m] = PieceToken(pieces[m])
  /\ \A m \in 1 .. Len(flex[at[k] + 1]) :
       flex[1][(k - 1) + m] = flex[at[k] + 1][m]

\* From position k on s has the token tok and then those of x.
OneMore(s, k, tok, x) ==
  /\ k \in Nat /\ IsSequence(s) /\ IsSequence(x)
  /\ Len(s) = k + Len(<<tok>> \o x)
  /\ \A m \in 1 .. Len(<<tok>> \o x) : s[k + m] = (<<tok>> \o x)[m]

\* One more token after the first k.
LEMMA OneMoreLexed ==
  ASSUME NEW s, NEW k, NEW tok, NEW x, OneMore(s, k, tok, x)
  PROVE  /\ Len(s) = (k + 1) + Len(x)
         /\ s[k + 1] = tok
         /\ \A m \in 1 .. Len(x) : s[(k + 1) + m] = x[m]
<1> DEFINE y == <<tok>> \o x
<1>0. /\ k \in Nat /\ Len(x) \in Nat /\ Len(s) = k + Len(y)
      /\ \A m \in 1 .. Len(y) : s[k + m] = y[m]
  BY SequenceFacts DEF OneMore
<1>1. /\ Len(y) = 1 + Len(x) /\ y[1] = tok
      /\ \A m \in 1 .. Len(x) : y[1 + m] = x[m]
  <2>1. /\ Len(y) = Len(x) + 1 /\ y[1] = tok
        /\ \A m \in 2 .. (Len(x) + 1) : y[m] = x[m - 1]
    BY SequenceFacts DEF OneMore
  <2> HIDE DEF y
  <2>2. \A m \in 1 .. Len(x) : 1 + m \in 2 .. (Len(x) + 1) /\ (1 + m) - 1 = m
    BY <1>0
  <2> QED
    BY <1>0, <2>1, <2>2
<1> HIDE DEF y
<1>2. Len(x) \in Nat
  BY <1>0
<1>3. s[k + 1] = tok
  <2>1. 1 \in 1 .. Len(y)
    BY <1>1, <1>2
  <2> QED
    BY <2>1, <1>0, <1>1
<1>4. ASSUME NEW m \in 1 .. Len(x)
      PROVE  s[(k + 1) + m] = x[m]
  <2>1. 1 + m \in 1 .. Len(y) /\ k + (1 + m) = (k + 1) + m
    BY <1>0, <1>1, <1>2
  <2>2. s[k + (1 + m)] = y[1 + m]
    BY <2>1, <1>0
  <2> QED
    BY <2>1, <2>2, <1>1
<1>5. Len(s) = (k + 1) + Len(x)
  BY <1>0, <1>1, <1>2
<1> QED
  BY <1>3, <1>4, <1>5

\* Up to the first stray text, the tokens are those of the pieces.
LEMMA PiecesAreLexed ==
  ASSUME NEW pieces \in Seq(Pieces), NEW F \in Seq(Chars), NEW at, Stands(pieces, F, at),
         NEW flex, IsLex(F, flex),
         \A i \in 1 .. (Len(F) + 1) : flex[i] \in Seq(TokenSet(Chars)),
         NEW e \in 1 .. (Len(pieces) + 1),
         \A k \in 1 .. (e - 1) : pieces[k].type # "STRAY" /\ BalancedPiece(pieces[k])
  PROVE  LexedTo(pieces, flex, at, e)
<1> DEFINE n == Len(pieces)
           D == {d \in 0 .. (e - 1) : LexedTo(pieces, flex, at, d + 1)}
<1>0. n \in Nat /\ Len(F) \in Nat
  OBVIOUS
<1>1. \A k \in 1 .. (n + 1) : at[k] \in 0 .. Len(F) /\ at[k] + 1 \in 1 .. (Len(F) + 1)
  BY <1>0 DEF Stands
<1>2. 0 \in D
  <2>1. at[0 + 1] + 1 = 1 /\ (0 + 1) - 1 = 0 /\ 0 \in 0 .. (e - 1)
    BY <1>0 DEF Stands
  <2>2. flex[1] \in Seq(TokenSet(Chars))
    BY <1>0
  <2>3. LexedTo(pieces, flex, at, 0 + 1)
    <3>1. Len(flex[1]) \in Nat
      BY <2>2
    <3>2. Len(flex[1]) = 0 + Len(flex[1])
          /\ (\A m \in 1 .. Len(flex[1]) : 0 + m = m) /\ 1 .. 0 = {}
      BY <3>1
    <3> QED
      BY <2>1, <3>2 DEF LexedTo
  <2> QED
    BY <2>1, <2>3
<1>3. ASSUME NEW d \in 0 .. ((e - 1) - 1), d \in D
      PROVE  d + 1 \in D
  <2> DEFINE k == d + 1
             piece == pieces[k]
             after == flex[at[k + 1] + 1]
  <2>0. LexedTo(pieces, flex, at, k)
    BY <1>3
  <2>1. /\ k \in 1 .. n /\ k \in 1 .. (e - 1) /\ k + 1 \in 1 .. (n + 1)
        /\ k \in 1 .. (n + 1) /\ k - 1 = d /\ (k + 1) - 1 = k
        /\ d \in Nat /\ d + 1 \in 0 .. (e - 1)
    BY <1>0
  <2>2. piece \in Pieces /\ piece.type # "STRAY" /\ BalancedPiece(piece)
    BY <2>1
  <2>3. /\ Occurs(PieceText(piece), F, at[k])
        /\ at[k + 1] = at[k] + Len(PieceText(piece))
    BY <2>1 DEF Stands
  <2>4. flex[at[k] + 1] = <<PieceToken(piece)>> \o after
    <3> DEFINE p == at[k]
    <3>1. Occurs(PieceText(piece), F, p) /\ after = flex[p + Len(PieceText(piece)) + 1]
      BY <2>3
    <3> HIDE DEF after, piece, p
    <3>2. flex[p + 1] = <<PieceToken(piece)>> \o flex[p + Len(PieceText(piece)) + 1]
      BY <2>2, <3>1, PieceIsLexed
    <3> QED
      BY <3>1, <3>2 DEF p
  <2>5. /\ flex[at[k] + 1] \in Seq(TokenSet(Chars)) /\ after \in Seq(TokenSet(Chars))
        /\ flex[1] \in Seq(TokenSet(Chars))
    <3>1. /\ at[k] + 1 \in 1 .. (Len(F) + 1) /\ at[k + 1] + 1 \in 1 .. (Len(F) + 1)
          /\ 1 \in 1 .. (Len(F) + 1)
      BY <1>0, <1>1, <2>1
    <3> HIDE DEF k
    <3> QED
      BY <3>1
  <2>6. /\ Len(flex[1]) = d + Len(flex[at[k] + 1])
        /\ \A m \in 1 .. d : flex[1][m] = PieceToken(pieces[m])
        /\ \A m \in 1 .. Len(flex[at[k] + 1]) : flex[1][d + m] = flex[at[k] + 1][m]
    BY <2>0, <2>1 DEF LexedTo
  <2> DEFINE here == flex[at[k] + 1]
  <2> HIDE DEF after, piece
  <2>7. /\ Len(flex[1]) = (d + 1) + Len(after)
        /\ flex[1][d + 1] = PieceToken(piece)
        /\ \A m \in 1 .. Len(after) : flex[1][(d + 1) + m] = after[m]
    <3>1. OneMore(flex[1], d, PieceToken(piece), after)
      <4> DEFINE all == flex[1]
                 token == PieceToken(piece)
      <4>1. /\ IsSequence(all) /\ IsSequence(after) /\ here = <<token>> \o after /\ d \in Nat
            /\ Len(all) = d + Len(here) /\ \A m \in 1 .. Len(here) : all[d + m] = here[m]
        BY <2>1, <2>4, <2>5, <2>6 DEF IsSequence
      <4> HIDE DEF all, here, token
      <4>2. OneMore(all, d, token, after)
        BY <4>1 DEF OneMore
      <4> QED
        BY <4>2 DEF all, token
    <3>2. Len(flex[1]) = (d + 1) + Len(after)
      BY <3>1, OneMoreLexed
    <3>3. flex[1][d + 1] = PieceToken(piece)
      BY <3>1, OneMoreLexed
    <3>4. \A m \in 1 .. Len(after) : flex[1][(d + 1) + m] = after[m]
      BY <3>1, OneMoreLexed
    <3> QED
      BY <3>2, <3>3, <3>4
  <2>8. \A m \in 1 .. k : m \in 1 .. d \/ m = d + 1
    BY <2>1
  <2>9. LexedTo(pieces, flex, at, k + 1)
    BY <2>1, <2>6, <2>7, <2>8 DEF LexedTo, after, piece
  <2> QED
    BY <2>1, <2>9
<1>4. e - 1 \in D
  <2>1. e - 1 \in Nat /\ e - 1 \in 0 .. (e - 1)
    BY <1>0
  <2> HIDE DEF D
  <2> QED
    BY <1>2, <1>3, <2>1, InductionUpTo
<1>5. (e - 1) + 1 = e
  BY <1>0
<1> QED
  BY <1>4, <1>5

-------------------------------------------------------------------------------
(* A stray text is no token that means anything.                            *)

\* A parenthesis at position q + 1 does not open the arguments of a call.
NoArguments(text, q) ==
  q + 1 <= Len(text) /\ text[q + 1] = "(" =>
    /\ q + 2 <= Len(text) => text[q + 2] # Backtick
    /\ q + 3 <= Len(text) /\ text[q + 2] = Space => text[q + 3] \notin {Space, Backtick}

\* Whatever is not a name of one character or has a value that is not quoted is no
\* matcher.
LEMMA NotBuilt ==
  ASSUME NEW text, NEW open, open = Min({k \in 1 .. Len(text) : text[k] = "("}),
         NEW inner, inner = SubSeq(text, open + 1, Len(text) - 1),
         \/ open # 2
         \/ 1 \in DOMAIN SplitArgs(inner) /\ ~IsQuoted(SplitArgs(inner)[1])
  PROVE  buildLeaf(text) = Invalid
BY DEF buildLeaf

\* A name of one character that parentheses without quoted values follow is no matcher.
LEMMA BareNameIsNoCall ==
  ASSUME NEW F \in Seq(Chars), NEW p \in Nat, NEW l \in Nat, l >= 1,
         p + l <= Len(F),
         \A m \in 1 .. l : F[p + m] # "(",
         NoArguments(F, p + l),
         NEW o \in (p + l + 1) .. Len(F), F[o] = "(",
         \A k \in (p + 1) .. (o - 1) : F[k] # "(",
         NEW end \in (o + 1) .. Len(F)
  PROVE  buildLeaf(SubSeq(F, p + 1, end)) = Invalid
<1> DEFINE N == Len(F)
           w == SubSeq(F, p + 1, end)
           W == Len(w)
           opens == {k \in 1 .. W : w[k] = "("}
           open == Min(opens)
           inner == SubSeq(w, open + 1, W - 1)
           args == SplitArgs(inner)
<1>0. N \in Nat
  OBVIOUS
<1>1. /\ w \in Seq(Chars) /\ W = end - p
      /\ \A k \in 1 .. (end - p) : w[k] = F[p + k]
  <2>1. p + 1 \in 1 .. (N + 1) /\ end \in ((p + 1) - 1) .. N /\ end - (p + 1) + 1 = end - p
        /\ \A k \in 1 .. (end - p) : (p + 1) + k - 1 = p + k
    BY <1>0
  <2> HIDE DEF N
  <2> QED
    BY <2>1, SubSeqIs DEF N
<1> HIDE DEF w
<1>2. open = o - p
  <2>1. o - p \in 1 .. W /\ p + (o - p) = o
    BY <1>0, <1>1
  <2>2. w[o - p] = "("
    BY <1>1, <2>1
  <2>3. \A k \in 1 .. W : k < o - p => w[k] # "("
    <3> SUFFICES ASSUME NEW k \in 1 .. W, k < o - p
                 PROVE  w[k] # "("
      OBVIOUS
    <3>1. p + k \in (p + 1) .. (o - 1) /\ k \in 1 .. (end - p)
      BY <1>0, <1>1
    <3> QED
      BY <3>1, <1>1
  <2>4. opens \in SUBSET Int /\ o - p \in opens /\ \A k \in opens : o - p <= k
    BY <2>1, <2>2, <2>3
  <2> HIDE DEF opens
  <2> QED
    BY <2>4, MinIs
<1> HIDE DEF opens, open
<1>3. ASSUME open = 2
      PROVE  1 \in DOMAIN args /\ ~IsQuoted(args[1])
  <2>1. l = 1 /\ o = p + 2 /\ o = (p + l) + 1
    BY <1>2, <1>3, <1>0
  <2>2. inner \in Seq(Chars) /\ Len(inner) = W - 3
        /\ \A k \in 1 .. (W - 3) : inner[k] = w[k + 2]
    <3>1. /\ 3 \in 1 .. (W + 1) /\ W - 1 \in (3 - 1) .. W /\ (W - 1) - 3 + 1 = W - 3
          /\ (\A k \in 1 .. (W - 3) : 3 + k - 1 = k + 2) /\ open + 1 = 3
      BY <1>0, <1>1, <1>3, <2>1
    <3>2. inner = SubSeq(w, 3, W - 1)
      BY <3>1
    <3> HIDE DEF inner
    <3>3. /\ SubSeq(w, 3, W - 1) \in Seq(Chars)
          /\ Len(SubSeq(w, 3, W - 1)) = (W - 1) - 3 + 1
          /\ \A k \in 1 .. ((W - 1) - 3 + 1) : SubSeq(w, 3, W - 1)[k] = w[3 + k - 1]
      BY <3>1, <1>1, SubSeqIs
    <3> HIDE DEF W
    <3> QED
      BY <3>1, <3>2, <3>3
  <2> HIDE DEF inner
  <2>3. \A k \in 1 .. (W - 3) : inner[k] = F[o + k] /\ o + k <= N
    <3> SUFFICES ASSUME NEW k \in 1 .. (W - 3)
                 PROVE  inner[k] = F[o + k] /\ o + k <= N
      OBVIOUS
    <3>1. k + 2 \in 1 .. (end - p) /\ p + (k + 2) = o + k /\ o + k <= N
      BY <1>0, <1>1, <2>1
    <3> QED
      BY <3>1, <1>1, <2>2
  <2>4. /\ (p + l) + 1 <= N /\ F[(p + l) + 1] = "("
        /\ (p + l) + 2 = o + 1 /\ (p + l) + 3 = o + 2
    BY <2>1, <1>0
  <2>5. /\ o + 1 <= N => F[o + 1] # Backtick
        /\ o + 2 <= N /\ F[o + 1] = Space => F[o + 2] \notin {Space, Backtick}
    BY <2>4 DEF NoArguments
  <2>6. Len(inner) >= 1 => inner[1] # Backtick
    <3> SUFFICES ASSUME Len(inner) >= 1
                 PROVE  inner[1] # Backtick
      OBVIOUS
    <3>1. 1 \in 1 .. (W - 3)
      BY <1>0, <1>1, <2>2
    <3> QED
      BY <3>1, <2>3, <2>5
  <2>7. Len(inner) >= 2 /\ inner[1] = Space => inner[2] \notin {Space, Backtick}
    <3> SUFFICES ASSUME Len(inner) >= 2, inner[1] = Space
                 PROVE  inner[2] \notin {Space, Backtick}
      OBVIOUS
    <3>1. 1 \in 1 .. (W - 3) /\ 2 \in 1 .. (W - 3)
      BY <1>0, <1>1, <2>2
    <3> QED
      BY <3>1, <2>3, <2>5
  <2> QED
    BY <2>2, <2>6, <2>7, NotQuoted
<1>4. inner = SubSeq(w, open + 1, Len(w) - 1)
      /\ open = Min({k \in 1 .. Len(w) : w[k] = "("})
  BY DEF open, opens
<1>6. open # 2 \/ (1 \in DOMAIN SplitArgs(inner) /\ ~IsQuoted(SplitArgs(inner)[1]))
  BY <1>3
<1> HIDE DEF inner
<1>5. buildLeaf(w) = Invalid
  BY <1>4, <1>6, NotBuilt
<1> QED
  BY <1>5 DEF w

\* A stray text becomes an error or what looks like a call and is no matcher.
LEMMA StrayIsNoRule ==
  ASSUME NEW text \in Strays, NEW F \in Seq(Chars), NEW flex, IsLex(F, flex),
         \A i \in 1 .. (Len(F) + 1) : flex[i] \in Seq(TokenSet(Chars)),
         NEW p, Occurs(text, F, p), NoArguments(F, p + Len(text))
  PROVE  /\ Len(flex[p + 1]) >= 1
         /\ ~Meaningful(TokenSymbol(flex[p + 1][1]))
<1> DEFINE N == Len(F)
           i == p + 1
           end == lexFunc(F, i)
<1>0. /\ N \in Nat /\ p \in Nat /\ Len(text) \in Nat /\ Len(text) >= 1
      /\ p + Len(text) <= N
      /\ \A m \in 1 .. Len(text) : F[p + m] = text[m]
  <2>1. text \in Seq(Chars) /\ Len(text) >= 1
    BY StraysAre
  <2> QED
    BY <2>1 DEF Occurs
<1>1. i \in 1 .. N /\ F[i] = text[1]
  <2>1. 1 \in 1 .. Len(text)
    BY <1>0
  <2> QED
    BY <2>1, <1>0
<1>2. flex[i] = LexAt(F, flex, i)
  BY <1>1 DEF IsLex
<1>3. TokenSymbol(Token("ERROR")) = Token("ERROR") /\ ~Meaningful(Token("ERROR"))
  BY DEF TokenSymbol, Token, Meaningful, Operators
<1>4. ASSUME flex[i] = <<Token("ERROR")>>
      PROVE  Len(flex[i]) >= 1 /\ ~Meaningful(TokenSymbol(flex[i][1]))
  <2>1. Len(flex[i]) = 1 /\ flex[i][1] = Token("ERROR")
    BY <1>4
  <2> QED
    BY <2>1, <1>3
<1> HIDE DEF i
<1>5. CASE text[1] \notin Letters \cup Special
  <2>1. F[i] \notin Special /\ ~isIdentStart(F[i])
    BY <1>1, <1>5 DEF isIdentStart
  <2>2. LexAt(F, flex, i) = <<Token("ERROR")>>
    BY <2>1 DEF LexAt, Special
  <2> QED
    BY <1>2, <1>4, <2>2 DEF i
<1>6. CASE /\ text[1] \in Letters
           /\ \A k \in 1 .. Len(text) : isIdentChar(text[k])
  <2>1. /\ isIdentStart(F[i]) /\ F[i] \notin Special
    BY <1>1, <1>6, NameChars
  <2>2. LexAt(F, flex, i) =
          IF end = 0 THEN <<Token("ERROR")>>
          ELSE <<[type |-> "FUNC", value |-> SubSeq(F, i, end)]>> \o flex[end + 1]
    BY <2>1 DEF LexAt, Special
  <2> DEFINE o == Min(NameEnds(F, i))
  <2>3. CASE end = 0
    BY <2>2, <2>3, <1>2, <1>4 DEF i
  <2>4. CASE end # 0
    <3>1. o <= N /\ F[o] = "(" /\ CallEnds(F, o) # {} /\ end = Min(CallEnds(F, o))
      <4>1. end = IF o > Len(F) \/ F[o] # "(" \/ CallEnds(F, o) = {}
                  THEN 0 ELSE Min(CallEnds(F, o))
        BY LexFuncIs, Zenon
      <4>2. o \in Int
        <5>1. i \in 1 .. (N + 1)
          BY <1>0, <1>1
        <5>2. o \in i .. (N + 1)
          BY <5>1, NameEndIs
        <5> QED
          BY <5>2, <1>1
      <4> HIDE DEF end, o
      <4> QED
        BY <2>4, <4>1, <4>2, <1>0
    <3>2. /\ o \in NameEnds(F, i) /\ o \in i .. (N + 1)
          /\ \A k \in NameEnds(F, i) : o <= k
          /\ NameEnds(F, i) \subseteq i .. (N + 1)
      <4>1. i \in 1 .. (N + 1)
        BY <1>0, <1>1
      <4> QED
        BY <4>1, NameEndIs
    <3> HIDE DEF o
    <3>3. \A k \in i .. (o - 1) : isIdentChar(F[k])
      <4> SUFFICES ASSUME NEW k \in i .. (o - 1), ~isIdentChar(F[k])
                   PROVE  FALSE
        OBVIOUS
      <4>1. k \in i .. (N + 1) /\ ~(o <= k)
        BY <3>2, <1>0, <1>1
      <4>2. k \in NameEnds(F, i)
        BY <4>1 DEF NameEnds, N
      <4> QED
        BY <4>1, <4>2, <3>2
    <3>4. ~isIdentChar("(")
      BY NameChars DEF Special
    <3>5. o >= p + Len(text) + 1
      <4> SUFFICES ASSUME o <= p + Len(text)
                   PROVE  FALSE
        BY <1>0, <3>2, <1>1
      <4>1. o - p \in 1 .. Len(text) /\ p + (o - p) = o
        BY <1>0, <3>2, <1>1 DEF i
      <4>2. F[o] = text[o - p]
        BY <4>1, <1>0
      <4> QED
        BY <4>1, <4>2, <1>6, <3>1, <3>4
    <3>6. end \in o .. N /\ F[end] = ")"
      <4>1. o \in 1 .. N
        BY <3>1, <3>2, <1>0, <1>1
      <4>2. end \in CallEnds(F, o)
        BY <4>1, <3>1, CallEndsIs
      <4> QED
        BY <4>2 DEF CallEnds, N
    <3>7. end \in (o + 1) .. N
      <4>1. end # o
        BY <3>1, <3>6
      <4> HIDE DEF end
      <4> QED
        BY <4>1, <3>6, <3>2, <1>0, <1>1
    <3>8. buildLeaf(SubSeq(F, p + 1, end)) = Invalid
      <4>1. o \in (p + Len(text) + 1) .. N
        BY <3>1, <3>2, <3>5, <1>0, <1>1
      <4>2. \A k \in (p + 1) .. (o - 1) : F[k] # "("
        BY <3>3, <3>4 DEF i
      <4>3. \A m \in 1 .. Len(text) : F[p + m] # "("
        BY <1>0, <1>6, <3>4
      <4> DEFINE l == Len(text)
      <4>4. /\ l \in Nat /\ l >= 1 /\ p + l <= Len(F) /\ NoArguments(F, p + l)
            /\ (\A m \in 1 .. l : F[p + m] # "(")
            /\ o \in (p + l + 1) .. Len(F) /\ end \in (o + 1) .. Len(F)
        BY <1>0, <4>1, <4>3, <3>7
      <4> HIDE DEF l, end
      <4> QED
        BY <4>2, <4>4, <3>1, <1>0, BareNameIsNoCall
    <3> DEFINE tok == [type |-> "FUNC", value |-> SubSeq(F, i, end)]
    <3>9. ~Meaningful(TokenSymbol(tok))
      <4>1. tok.type = "FUNC" /\ tok.value = SubSeq(F, p + 1, end)
        BY DEF i
      <4> HIDE DEF tok, end
      <4>2. TokenSymbol(tok) = [type |-> "LEAF", node |-> Invalid]
        BY <4>1, <3>8 DEF TokenSymbol
      <4> QED
        BY <4>2 DEF Meaningful
    <3>10. flex[i] = <<tok>> \o flex[end + 1] /\ IsSequence(flex[end + 1])
      <4>1. end + 1 \in 1 .. (N + 1)
        <5> HIDE DEF end
        <5> QED
          BY <3>7, <3>2, <1>0, <1>1
      <4>2. flex[end + 1] \in Seq(TokenSet(Chars))
        BY <4>1
      <4> QED
        BY <4>2, <2>2, <2>4, <1>2 DEF IsSequence
    <3> HIDE DEF tok, end
    <3>11. Len(flex[i]) = Len(flex[end + 1]) + 1 /\ flex[i][1] = tok
           /\ Len(flex[end + 1]) \in Nat
      BY <3>10, SequenceFacts
    <3>12. Len(flex[i]) >= 1
      BY <3>11
    <3> QED
      BY <3>9, <3>11, <3>12 DEF i
  <2> QED
    BY <2>3, <2>4
<1> QED
  BY <1>5, <1>6, StraysAre

-------------------------------------------------------------------------------
(* The tree is the meaning.                                                 *)

\* The pieces after a stray text open no arguments.
LEMMA NoPieceOpensArguments ==
  ASSUME NEW pieces \in Seq(Pieces), NEW F \in Seq(Chars), NEW at, Stands(pieces, F, at),
         NEW e \in 1 .. Len(pieces)
  PROVE  NoArguments(F, at[e + 1])
<1> DEFINE n == Len(pieces)
           N == Len(F)
           q == at[e + 1]
<1>0. n \in Nat /\ N \in Nat
  OBVIOUS
<1>1. ASSUME NEW k \in 1 .. (n + 1), at[k] + 1 <= N
      PROVE  /\ k \in 1 .. n /\ k + 1 \in 1 .. (n + 1) /\ pieces[k] \in Pieces
             /\ at[k] \in 0 .. N /\ Len(PieceText(pieces[k])) >= 1
             /\ F[at[k] + 1] = PieceText(pieces[k])[1]
             /\ Len(PieceText(pieces[k])) >= 2 => F[at[k] + 2] = PieceText(pieces[k])[2]
             /\ at[k + 1] = at[k] + Len(PieceText(pieces[k]))
  <2>1. at[n + 1] = N
    BY DEF Stands
  <2>2. k \in 1 .. n /\ k + 1 \in 1 .. (n + 1)
    BY <1>0, <1>1, <2>1
  <2>3. pieces[k] \in Pieces
    BY <2>2
  <2> DEFINE w == PieceText(pieces[k])
  <2>4. Len(w) \in Nat /\ Len(w) >= 1
    BY <2>3, PieceTextIs
  <2>5. at[k] \in 0 .. N /\ Occurs(w, F, at[k]) /\ at[k + 1] = at[k] + Len(w)
    BY <2>2 DEF Stands
  <2> HIDE DEF w
  <2>6. F[at[k] + 1] = w[1] /\ (Len(w) >= 2 => F[at[k] + 2] = w[2])
    <3>1. 1 \in 1 .. Len(w) /\ (Len(w) >= 2 => 2 \in 1 .. Len(w))
      BY <2>4
    <3> QED
      BY <3>1, <2>5 DEF Occurs
  <2> QED
    BY <2>2, <2>3, <2>4, <2>5, <2>6 DEF w
<1>2. SUFFICES ASSUME q + 1 <= N, F[q + 1] = "("
               PROVE  /\ q + 2 <= N => F[q + 2] # Backtick
                      /\ q + 3 <= N /\ F[q + 2] = Space => F[q + 3] \notin {Space, Backtick}
  BY DEF NoArguments
<1>3. e + 1 \in 1 .. (n + 1)
  BY <1>0
<1>4. PieceText(pieces[e + 1])[1] = "(" /\ pieces[e + 1] \in Pieces
      /\ (e + 1) + 1 \in 1 .. (n + 1) /\ q \in 0 .. N
      /\ at[(e + 1) + 1] = q + Len(PieceText(pieces[e + 1]))
  BY <1>1, <1>2, <1>3
<1>5. Len(PieceText(pieces[e + 1])) = 1
  <2>1. pieces[e + 1] = Piece("LPAREN")
    BY <1>4, PieceTextIs
  <2>2. PieceText(pieces[e + 1]) = <<"(">>
    BY <2>1, OperatorTexts
  <2> QED
    BY <2>2
<1> DEFINE k == (e + 1) + 1
           w == PieceText(pieces[k])
<1>6. at[k] = q + 1 /\ k \in 1 .. (n + 1)
  BY <1>4, <1>5
<1> HIDE DEF k, q
<1>7. (q + 1) + 1 = q + 2 /\ (q + 1) + 2 = q + 3
  BY <1>4
<1>8. ASSUME q + 2 <= N
      PROVE  /\ pieces[k] \in Pieces /\ F[q + 2] = w[1]
             /\ Len(w) >= 2 => F[q + 3] = w[2]
  BY <1>1, <1>6, <1>7, <1>8, SMTT(30)
<1>9. ASSUME q + 2 <= N
      PROVE  F[q + 2] # Backtick
  BY <1>8, <1>9, PieceTextIs
<1>10. ASSUME q + 2 <= N, F[q + 2] = Space
       PROVE  F[q + 3] \notin {Space, Backtick}
  <2>1. pieces[k] \in Pieces /\ w[1] = Space
    BY <1>8, <1>10
  <2>2. Len(w) >= 2 /\ w[2] \notin {Space, Backtick}
    BY <2>1, PieceTextIs
  <2> QED
    BY <2>2, <1>8, <1>10
<1>11. q + 3 <= N => q + 2 <= N
  BY <1>0, <1>4
<1> QED
  BY <1>9, <1>10, <1>11

\* Symbols of which one has no meaning have none.
LEMMA SlipHasNoMeaning ==
  ASSUME NEW T, NEW symbols \in Seq(T), NEW k \in 1 .. Len(symbols),
         ~Meaningful(symbols[k])
  PROVE  Reading(symbols) = Invalid
<1>1. PICK reading : /\ IsReading(symbols, reading)
                     /\ Reading(symbols) = reading[1][Len(symbols)]
  BY ReadingIs
<1>2. /\ 1 \in 1 .. (Len(symbols) + 1) /\ Len(symbols) \in 0 .. Len(symbols)
  OBVIOUS
<1>3. reading[1][Len(symbols)] # Invalid => Meaningful(symbols[k])
  BY <1>1, <1>2, ValidHasNoSlip
<1> QED
  BY <1>1, <1>3

\* The token of a piece is the symbol of the piece.
LEMMA TokenOfPiece ==
  ASSUME NEW piece \in Pieces, piece.type # "STRAY"
  PROVE  TokenSymbol(PieceToken(piece)) = Symbol(piece)
<1>1. CASE piece.type \in Operators /\ piece = Piece(piece.type)
  <2>1. PieceToken(piece) = Token(piece.type)
    BY <1>1 DEF PieceToken, Operators
  <2>2. Token(piece.type) = piece
    BY <1>1 DEF Token, Piece
  <2>3. piece.type # "FUNC" /\ piece.type # "CALL"
    BY <1>1 DEF Operators
  <2> QED
    BY <2>1, <2>2, <2>3 DEF TokenSymbol, Symbol
<1>2. CASE piece.type = "CALL" /\ piece.call \in Calls /\ piece = CallPiece(piece.call)
  <2> DEFINE tok == [type |-> "FUNC", value |-> PieceText(piece)]
  <2>1. PieceToken(piece) = tok
    BY <1>2 DEF PieceToken
  <2>2. tok.type = "FUNC" /\ tok.value = PieceText(CallPiece(piece.call))
    BY <1>2
  <2> HIDE DEF tok
  <2>3. TokenSymbol(tok) = [type |-> "LEAF", node |-> Leaf(piece.call.name, piece.call.args)]
    BY <2>2, <1>2, CallIsBuilt DEF TokenSymbol
  <2>4. LeafOf[piece.call] = Leaf(piece.call.name, piece.call.args)
    BY <1>2 DEF LeafOf
  <2> QED
    BY <2>1, <2>3, <2>4, <1>2 DEF Symbol
<1> QED
  BY <1>1, <1>2, PiecesAre

PieceSymbols(pieces) == [i \in DOMAIN pieces |-> Symbol(pieces[i])]

\* What the program makes of the text of a rule is what its author means.
THEOREM TreeIsMeaning ==
  ASSUME NEW pieces \in Seq(Pieces),
         \A k \in 1 .. Len(pieces) : BalancedPiece(pieces[k])
  PROVE  Tree(pieces) = Meaning(pieces)
<1> DEFINE n == Len(pieces)
           F == Text(pieces)
           N == Len(F)
<1>0. F \in Seq(Chars) /\ N \in Nat /\ n \in Nat
  BY RuleTextIs
<1>1. PICK at : Stands(pieces, F, at)
  BY RuleTextIs
<1>2. PICK flex : IsLex(F, flex) /\ \A i \in 1 .. (N + 1) : flex[i] \in Seq(TokenSet(Chars))
  <2> HIDE DEF F
  <2> QED
    BY <1>0, LexIs DEF IsLex
<1>3. Tree(pieces) = TreeOf(Lex(F))
  BY DEF Tree, ParseRule, TreeOf
<1>4. Meaning(pieces) = Reading(PieceSymbols(pieces))
  BY DEF Meaning, PieceSymbols
<1>5. \E S : PieceSymbols(pieces) \in Seq(S)
  <2>1. PieceSymbols(pieces) \in Seq({Symbol(piece) : piece \in Pieces})
    BY DEF PieceSymbols
  <2> QED
    BY <2>1
<1>6. /\ Len(PieceSymbols(pieces)) = n
      /\ DOMAIN PieceSymbols(pieces) = 1 .. n
      /\ \A k \in 1 .. n : PieceSymbols(pieces)[k] = Symbol(pieces[k])
  BY DEF PieceSymbols
<1> HIDE DEF F
<1> DEFINE tokens == flex[1]
<1>7. /\ Lex(F) = tokens
      /\ tokens \in Seq(TokenSet(Chars))
      /\ \A k \in 1 .. Len(tokens) : tokens[k].type \in TokenTypes
  <2>1. tokens \in Seq(TokenSet(Chars))
    <3>1. 1 \in 1 .. (N + 1)
      BY <1>0
    <3> QED
      BY <3>1, <1>2
  <2>2. \A t \in TokenSet(Chars) : t.type \in TokenTypes
    BY DEF TokenSet, TokenTypes
  <2>3. Lex(F) = tokens
    BY <1>0, <1>2, TrimmedLex
  <2> HIDE DEF tokens
  <2> QED
    BY <2>1, <2>2, <2>3
<1>8. TreeOf(Lex(F)) = Reading(Symbols(tokens))
  <2> HIDE DEF tokens
  <2> QED
    BY <1>7, ParserReadsAsMeant
<1>9. CASE \A k \in 1 .. n : pieces[k].type # "STRAY"
  <2>1. LexedTo(pieces, flex, at, n + 1)
    <3>1. n + 1 \in 1 .. (n + 1) /\ (n + 1) - 1 = n
      BY <1>0
    <3>2. \A k \in 1 .. ((n + 1) - 1) : pieces[k].type # "STRAY" /\ BalancedPiece(pieces[k])
      BY <3>1, <1>9
    <3> QED
      BY <3>1, <3>2, <1>0, <1>1, <1>2, PiecesAreLexed
  <2>2. flex[at[n + 1] + 1] = <<>>
    BY <1>1, <1>2 DEF Stands, IsLex
  <2>3. Len(tokens) = n /\ \A k \in 1 .. n : tokens[k] = PieceToken(pieces[k])
    <3>1. (n + 1) - 1 = n /\ n + 0 = n /\ Len(<<>>) = 0
      BY <1>0
    <3> QED
      BY <2>1, <2>2, <3>1 DEF LexedTo
  <2> HIDE DEF tokens
  <2>4. \A k \in 1 .. n : TokenSymbol(tokens[k]) = Symbol(pieces[k])
    BY <2>3, <1>9, TokenOfPiece
  <2>5. Symbols(tokens) = PieceSymbols(pieces)
    <3>1. DOMAIN tokens = 1 .. n /\ DOMAIN pieces = 1 .. n
      BY <1>0, <1>7, <2>3
    <3> QED
      BY <3>1, <2>4 DEF Symbols, PieceSymbols
  <2> QED
    BY <2>5, <1>3, <1>4, <1>8
<1>10. CASE \E k \in 1 .. n : pieces[k].type = "STRAY"
  <2> DEFINE strays == {k \in 1 .. n : pieces[k].type = "STRAY"}
  <2>1. PICK e \in strays : \A k \in strays : e <= k
    <3>1. strays \in SUBSET Nat /\ strays # {}
      BY <1>10
    <3> HIDE DEF strays
    <3> QED
      BY <3>1, SmallestNumber
  <2>2. e \in 1 .. n /\ e \in 1 .. (n + 1) /\ pieces[e].type = "STRAY"
        /\ \A k \in 1 .. (e - 1) : pieces[k].type # "STRAY"
    BY <2>1, <1>0
  <2>3. pieces[e].text \in Strays /\ PieceText(pieces[e]) = pieces[e].text
    BY <2>2, PiecesAre DEF Operators
  <2>4. LexedTo(pieces, flex, at, e)
    <3>1. \A k \in 1 .. (e - 1) : pieces[k].type # "STRAY" /\ BalancedPiece(pieces[k])
      BY <2>2, <1>0
    <3> QED
      BY <2>2, <3>1, <1>0, <1>1, <1>2, PiecesAreLexed
  <2> DEFINE s == flex[at[e] + 1]
  <2>5. Len(s) >= 1 /\ ~Meaningful(TokenSymbol(s[1]))
    <3>1. Occurs(pieces[e].text, F, at[e]) /\ at[e + 1] = at[e] + Len(pieces[e].text)
      BY <2>2, <2>3, <1>1 DEF Stands
    <3>2. NoArguments(F, at[e] + Len(pieces[e].text))
      BY <3>1, <2>2, <1>0, <1>1, NoPieceOpensArguments
    <3> QED
      BY <3>1, <3>2, <2>3, <1>0, <1>2, StrayIsNoRule
  <2>6. s \in Seq(TokenSet(Chars))
    <3>1. at[e] + 1 \in 1 .. (N + 1)
      <4>1. at[e] \in 0 .. N
        BY <2>2, <1>1 DEF Stands
      <4> QED
        BY <4>1, <1>0
    <3> QED
      BY <3>1, <1>2
  <2>7. Len(tokens) = (e - 1) + Len(s) /\ \A m \in 1 .. Len(s) : tokens[(e - 1) + m] = s[m]
    BY <2>4 DEF LexedTo
  <2> HIDE DEF tokens, s
  <2>8. e \in 1 .. Len(tokens) /\ tokens[e] = s[1]
    <3>1. 1 \in 1 .. Len(s) /\ (e - 1) + 1 = e /\ Len(s) \in Nat
      BY <2>2, <2>5, <2>6
    <3> QED
      BY <3>1, <2>2, <2>7
  <2>9. Reading(Symbols(tokens)) = Invalid
    <3>1. PICK S : Symbols(tokens) \in Seq(S)
      BY <1>7, SymbolsAre
    <3>2. /\ Len(Symbols(tokens)) = Len(tokens)
          /\ Symbols(tokens)[e] = TokenSymbol(tokens[e])
      BY <1>7, <2>8, SymbolsAre
    <3> QED
      BY <3>1, <3>2, <2>5, <2>8, SlipHasNoMeaning
  <2>10. Reading(PieceSymbols(pieces)) = Invalid
    <3>1. Symbol(pieces[e]) = pieces[e]
      BY <2>2 DEF Symbol
    <3>2. ~Meaningful(PieceSymbols(pieces)[e])
      BY <3>1, <2>2, <1>6 DEF Meaningful, Operators
    <3> QED
      BY <3>2, <2>2, <1>5, <1>6, SlipHasNoMeaning
  <2> QED
    BY <2>9, <2>10, <1>3, <1>4, <1>8
<1> QED
  BY <1>9, <1>10

-------------------------------------------------------------------------------
(* The tree that the program holds.                                         *)

\* The tree is the one the program makes of the rule.
TreeFits ==
  /\ rule \in Seq(Pieces)
  /\ tree = Tree(rule) \/ (rule = <<>> /\ tree = Invalid)

\* An edit leaves a rule and its tree.
LEMMA EditKeepsTree ==
  ASSUME NEW pieces \in Seq(Pieces), Edit(pieces)
  PROVE  TreeFits' /\ rule' = pieces /\ tree' = Tree(pieces)
BY DEF Edit, TreeFits

\* A sequence without its last element.
LEMMA FrontIs ==
  ASSUME NEW T, NEW s \in Seq(T), s # <<>>
  PROVE  /\ Front(s) \in Seq(T) /\ Len(Front(s)) = Len(s) - 1
         /\ \A k \in 1 .. (Len(s) - 1) : Front(s)[k] = s[k]
         /\ Last(s) = s[Len(s)] /\ Len(s) \in Nat /\ Len(s) >= 1
<1>1. Len(s) \in Nat /\ Len(s) >= 1
  OBVIOUS
<1>2. Front(s) = SubSeq(s, 1, Len(s) - 1)
  BY DEF Front
<1>3. 1 \in 1 .. (Len(s) + 1) /\ Len(s) - 1 \in (1 - 1) .. Len(s)
      /\ (Len(s) - 1) - 1 + 1 = Len(s) - 1
      /\ \A k \in 1 .. (Len(s) - 1) : 1 + k - 1 = k
  BY <1>1
<1>4. Last(s) = s[Len(s)]
  BY DEF Last
<1> QED
  BY <1>1, <1>2, <1>3, <1>4, SubSeqIs

\* No step leaves a tree of another rule.
LEMMA TreeFitsStep ==
  ASSUME TreeFits, [RulesNext]_<<rule, tree>>
  PROVE  TreeFits'
<1>1. CASE WritePiece
  <2>1. PICK piece \in Pieces : Edit(Append(rule, piece))
    BY <1>1 DEF WritePiece
  <2>2. Append(rule, piece) \in Seq(Pieces)
    BY DEF TreeFits
  <2> QED
    BY <2>1, <2>2, EditKeepsTree
<1>2. CASE AddCondition
  <2>1. PICK type \in {"AND", "OR"}, c \in Calls : Edit(rule \o <<Piece(type), CallPiece(c)>>)
    BY <1>2 DEF AddCondition
  <2>2. Piece(type) \in Pieces /\ CallPiece(c) \in Pieces
    BY DEF Pieces, Operators
  <2>3. <<Piece(type), CallPiece(c)>> \in Seq(Pieces)
    BY <2>2
  <2>4. rule \o <<Piece(type), CallPiece(c)>> \in Seq(Pieces)
    BY <2>3, ConcatIs DEF TreeFits
  <2> QED
    BY <2>1, <2>4, EditKeepsTree
<1>3. CASE ReplaceLastCall
  <2>1. PICK c \in Calls : Edit(Front(rule) \o <<CallPiece(c)>>)
    BY <1>3 DEF ReplaceLastCall
  <2>2. <<CallPiece(c)>> \in Seq(Pieces)
    BY DEF Pieces
  <2>3. Front(rule) \in Seq(Pieces)
    BY <1>3, FrontIs DEF ReplaceLastCall, TreeFits
  <2>4. Front(rule) \o <<CallPiece(c)>> \in Seq(Pieces)
    BY <2>2, <2>3, ConcatIs
  <2> QED
    BY <2>1, <2>4, EditKeepsTree
<1>4. CASE UNCHANGED <<rule, tree>>
  BY <1>4 DEF TreeFits
<1> QED
  BY <1>1, <1>2, <1>3, <1>4 DEF RulesNext

\* The program holds the tree of the rule that was last written: every edit of
\* RulesNext parses the whole text again.
THEOREM TreeAlwaysFits == RulesSpec => []TreeFits
<1>1. RulesInit => TreeFits
  BY DEF RulesInit, TreeFits
<1> QED
  BY <1>1, TreeFitsStep, PTL DEF RulesSpec

\* No symbols have no meaning.
LEMMA NoSymbolsNoMeaning ==
  ASSUME NEW T, NEW symbols \in Seq(T), Len(symbols) = 0
  PROVE  Reading(symbols) = Invalid
<1>1. PICK reading : IsReading(symbols, reading) /\ Reading(symbols) = reading[1][0]
  BY ReadingIs
<1>2. reading[1][0] = Read(symbols, reading, 1, 0)
  BY <1>1 DEF IsReading
<1>3. Outer(symbols, 1, 0, "OR") = {} /\ Outer(symbols, 1, 0, "AND") = {}
  BY DEF Outer
<1> QED
  BY <1>1, <1>2, <1>3 DEF Read

\* Nor has a rule without pieces.
LEMMA NothingMeansNothing == Meaning(<<>>) = Invalid
<1> DEFINE symbols == [i \in DOMAIN <<>> |-> Symbol(<<>>[i])]
<1>1. symbols \in Seq({}) /\ Len(symbols) = 0
  OBVIOUS
<1>2. Meaning(<<>>) = Reading(symbols)
  BY DEF Meaning
<1> HIDE DEF symbols
<1> QED
  BY <1>1, <1>2, NoSymbolsNoMeaning

\* DYNAMIC_CONFIG.md:47 and ADR-0008: every rule is read as its author groups it, or
\* refused if it is none, whatever its pieces.
THEOREM RulesAreReadAsWritten == RulesSpec => []ReadAsWritten
<1>1. TreeFits => ReadAsWritten
  <2> SUFFICES ASSUME TreeFits, Balanced(rule)
               PROVE  tree = Meaning(rule)
    BY DEF ReadAsWritten
  <2>1. CASE tree = Tree(rule)
    <3>1. rule \in Seq(Pieces) /\ \A k \in 1 .. Len(rule) : BalancedPiece(rule[k])
      BY DEF TreeFits, Balanced, BalancedPiece, BalancedCall, BalancedText
    <3> QED
      BY <2>1, <3>1, TreeIsMeaning
  <2>2. CASE rule = <<>> /\ tree = Invalid
    BY <2>2, NothingMeansNothing
  <2> QED
    BY <2>1, <2>2 DEF TreeFits
<1> QED
  BY <1>1, TreeAlwaysFits, PTL

-------------------------------------------------------------------------------
(* What a rule means depends on its symbols; scores.                        *)

\* The ranges within the first m symbols mean the same whatever follows these.
SameUpTo(s, t, m) ==
  /\ m \in 0 .. Len(s) /\ m \in 0 .. Len(t)
  /\ \A k \in 1 .. m : s[k] = t[k]

\* The operators of a range depend on the types of its symbols.
LEMMA OuterAgrees ==
  ASSUME NEW s, NEW t, NEW i \in Nat, NEW j \in Nat,
         \A k \in i .. j : s[k].type = t[k].type, NEW type
  PROVE  Outer(s, i, j, type) = Outer(t, i, j, type)
<1>1. ASSUME NEW k \in i .. j
      PROVE  Level(s, i, k) = Level(t, i, k)
  <2>1. \A m \in i .. (k - 1) : m \in i .. j
    OBVIOUS
  <2>2. \A y : {m \in i .. (k - 1) : s[m].type = y} = {m \in i .. (k - 1) : t[m].type = y}
    BY <2>1
  <2> QED
    BY <2>2 DEF Level
<1> QED
  BY <1>1 DEF Outer

\* Two tables have the same for the ranges of less than d + 1 of the first m symbols.
TablesAgree(p, q, m, d) ==
  \A k \in 1 .. (m + 1), l \in 0 .. m : l - k < d => p[k][l] = q[k][l]

\* The meaning of a range depends on its symbols and on the meaning of shorter ones.
LEMMA ReadAgrees ==
  ASSUME NEW S, NEW s \in Seq(S), NEW T, NEW t \in Seq(T), NEW m, SameUpTo(s, t, m),
         NEW i \in 1 .. (m + 1), NEW j \in 0 .. m, NEW p, NEW q, TablesAgree(p, q, m, j - i)
  PROVE  Read(s, p, i, j) = Read(t, q, i, j)
<1>0. /\ m \in Nat /\ m <= Len(s) /\ Len(s) \in Nat
      /\ \A k \in 1 .. m : s[k] = t[k]
  BY DEF SameUpTo
<1>1. \A type : Outer(s, i, j, type) = Outer(t, i, j, type)
  <2>1. \A k \in i .. j : s[k].type = t[k].type
    BY <1>0
  <2> QED
    BY <2>1, OuterAgrees, <1>0
<1>2. CASE i > j
  <2>1. /\ Outer(s, i, j, "OR") = {} /\ Outer(s, i, j, "AND") = {}
        /\ Outer(t, i, j, "OR") = {} /\ Outer(t, i, j, "AND") = {}
    BY <1>2, <1>0 DEF Outer
  <2> QED
    BY <1>2, <2>1, <1>0 DEF Read
<1>3. ASSUME NEW type, NEW c, c = Max(Outer(s, i, j, type)), Outer(s, i, j, type) # {}
      PROVE  c \in i .. j /\ Split(p, type, i, c, j) = Split(q, type, i, c, j)
  <2>1. i \in 1 .. (Len(s) + 1) /\ j \in 0 .. Len(s)
    BY <1>0
  <2>2. c \in i .. j
    BY <2>1, <1>3, OuterIsIn
  <2>3. /\ c - 1 \in 0 .. m /\ (c - 1) - i < j - i
        /\ c + 1 \in 1 .. (m + 1) /\ j - (c + 1) < j - i
    BY <2>2, <1>0
  <2>4. p[i][c - 1] = q[i][c - 1] /\ p[c + 1][j] = q[c + 1][j]
    BY <2>3, <1>0 DEF TablesAgree
  <2> QED
    BY <2>2, <2>4 DEF Split
<1>4. CASE i <= j /\ Outer(s, i, j, "OR") # {}
  BY <1>1, <1>3, <1>4 DEF Read
<1>5. CASE i <= j /\ Outer(s, i, j, "OR") = {} /\ Outer(s, i, j, "AND") # {}
  BY <1>1, <1>3, <1>5 DEF Read
<1>6. CASE i <= j /\ Outer(s, i, j, "OR") = {} /\ Outer(s, i, j, "AND") = {}
  <2>1. /\ i + 1 \in 1 .. (m + 1) /\ j - (i + 1) < j - i
        /\ j - 1 \in 0 .. m /\ (j - 1) - (i + 1) < j - i
    BY <1>0, <1>6
  <2>2. p[i + 1][j] = q[i + 1][j] /\ p[i + 1][j - 1] = q[i + 1][j - 1]
    BY <2>1, <1>0 DEF TablesAgree
  <2>3. s[i] = t[i] /\ s[j] = t[j]
    BY <1>0, <1>6
  <2>4. Unsplit(s, p, i, j) = Unsplit(t, q, i, j)
    BY <2>2, <2>3 DEF Unsplit
  <2> QED
    BY <1>1, <1>6, <2>4 DEF Read
<1>7. i > j \/ i <= j
  BY <1>0
<1> QED
  BY <1>2, <1>4, <1>5, <1>6, <1>7

\* What begins the same means the same there.
LEMMA ReadingsAgree ==
  ASSUME NEW S, NEW s \in Seq(S), NEW T, NEW t \in Seq(T), NEW m, SameUpTo(s, t, m),
         NEW p, IsReading(s, p), NEW q, IsReading(t, q)
  PROVE  \A i \in 1 .. (m + 1), j \in 0 .. m : p[i][j] = q[i][j]
<1> DEFINE R == {r \in (1 .. (m + 1)) \X (0 .. m) : p[r[1]][r[2]] = q[r[1]][r[2]]}
<1>0. m \in Nat /\ m <= Len(s) /\ m <= Len(t) /\ Len(s) \in Nat /\ Len(t) \in Nat
  BY DEF SameUpTo
<1>1. ASSUME NEW i \in 1 .. (m + 1), NEW j \in 0 .. m,
             \A k \in 1 .. (m + 1), l \in 0 .. m : l - k < j - i => <<k, l>> \in R
      PROVE  <<i, j>> \in R
  <2>1. TablesAgree(p, q, m, j - i)
    BY <1>1 DEF TablesAgree
  <2>2. Read(s, p, i, j) = Read(t, q, i, j)
    BY <2>1, ReadAgrees
  <2>3. p[i][j] = Read(s, p, i, j) /\ q[i][j] = Read(t, q, i, j)
    <3>1. i \in 1 .. (Len(s) + 1) /\ j \in 0 .. Len(s)
          /\ i \in 1 .. (Len(t) + 1) /\ j \in 0 .. Len(t)
      BY <1>0
    <3>2. p[i][j] = Read(s, p, i, j)
      BY <3>1 DEF IsReading
    <3>3. q[i][j] = Read(t, q, i, j)
      BY <3>1 DEF IsReading
    <3> QED
      BY <3>2, <3>3
  <2> QED
    BY <2>2, <2>3
<1>2. \A i \in 1 .. (m + 1), j \in 0 .. m : <<i, j>> \in R
  <2> HIDE DEF R
  <2> QED
    BY <1>0, <1>1, InductionOverRanges, Zenon
<1> QED
  BY <1>2

\* The nodes of the calls have a score.
Scored(symbols) ==
  \A k \in 1 .. Len(symbols) :
    symbols[k].type = "LEAF" =>
      symbols[k].node = Invalid \/ symbols[k].node.score \in Nat

\* Scores and matches of the nodes, as ast.go has them.
LEMMA ScoresAre ==
  /\ \A l, r : /\ AndNode(l, r).score = l.score + r.score + 10
               /\ AndNode(l, r).matches = l.matches \cap r.matches
               /\ OrNode(l, r).score = IF l.score < r.score THEN l.score ELSE r.score
               /\ OrNode(l, r).matches = l.matches \cup r.matches
  /\ \A c : NotNode(c).score = c.score + 5
BY DEF AndNode, OrNode, NotNode

\* Every part of a rule that means something has a score.
LEMMA PartsAreScored ==
  ASSUME NEW T, NEW symbols \in Seq(T), NEW p, IsReading(symbols, p), Scored(symbols)
  PROVE  \A i \in 1 .. (Len(symbols) + 1), j \in 0 .. Len(symbols) :
           p[i][j] # Invalid => p[i][j].score \in Nat
<1> DEFINE n == Len(symbols)
           Fine(i, j) == p[i][j] # Invalid => p[i][j].score \in Nat
           R == {r \in (1 .. (n + 1)) \X (0 .. n) : Fine(r[1], r[2])}
<1>0. n \in Nat
  OBVIOUS
<1>1. ASSUME NEW i \in 1 .. (n + 1), NEW j \in 0 .. n, p[i][j] # Invalid,
             \A k \in 1 .. (n + 1), m \in 0 .. n : m - k < j - i => Fine(k, m)
      PROVE  p[i][j].score \in Nat
  <2>0. p[i][j] = Read(symbols, p, i, j) /\ i <= j
    <3>1. p[i][j] = Read(symbols, p, i, j)
      BY DEF IsReading
    <3>2. i > j => Outer(symbols, i, j, "OR") = {} /\ Outer(symbols, i, j, "AND") = {}
      BY <1>0 DEF Outer
    <3>3. i > j => Read(symbols, p, i, j) = Invalid
      BY <3>2 DEF Read
    <3> QED
      BY <3>1, <3>3, <1>0, <1>1
  <2>1. ASSUME NEW type \in {"AND", "OR"}, Outer(symbols, i, j, type) # {},
               p[i][j] = Split(p, type, i, Max(Outer(symbols, i, j, type)), j)
        PROVE  p[i][j].score \in Nat
    <3> DEFINE c == Max(Outer(symbols, i, j, type))
    <3>1. c \in i .. j
      BY <2>1, OuterIsIn
    <3> HIDE DEF c
    <3> DEFINE l == p[i][c - 1]
               r == p[c + 1][j]
    <3>2. l # Invalid /\ r # Invalid /\ p[i][j] = Binary(type, l, r)
      BY <2>1, <1>1 DEF Split, c
    <3>3. /\ c - 1 \in 0 .. n /\ (c - 1) - i < j - i
          /\ c + 1 \in 1 .. (n + 1) /\ j - (c + 1) < j - i
      BY <3>1, <1>0
    <3>4. l.score \in Nat /\ r.score \in Nat
      BY <3>2, <3>3, <1>1
    <3> HIDE DEF l, r
    <3>5. AndNode(l, r).score \in Nat /\ OrNode(l, r).score \in Nat
      <4>1. /\ AndNode(l, r).score = l.score + r.score + 10
            /\ OrNode(l, r).score \in {l.score, r.score}
        BY ScoresAre
      <4> QED
        BY <3>4, <4>1
    <3> QED
      BY <3>2, <3>5, <2>1 DEF Binary
  <2>2. ASSUME p[i][j] = Unsplit(symbols, p, i, j)
        PROVE  p[i][j].score \in Nat
    <3>1. CASE symbols[i].type = "NOT"
      <4> DEFINE c == p[i + 1][j]
      <4>1. c # Invalid /\ p[i][j] = NotNode(c)
        BY <3>1, <2>2, <1>1 DEF Unsplit
      <4>2. i + 1 \in 1 .. (n + 1) /\ j - (i + 1) < j - i
        BY <2>0, <1>0
      <4>3. c.score \in Nat
        BY <4>1, <4>2, <1>1
      <4> HIDE DEF c
      <4> QED
        BY <4>1, <4>3, ScoresAre
    <3>2. CASE symbols[i].type = "LPAREN" /\ symbols[j].type = "RPAREN"
      <4>1. p[i][j] = p[i + 1][j - 1]
        BY <3>2, <2>2, <1>1 DEF Unsplit
      <4>2. i + 1 \in 1 .. (n + 1) /\ j - 1 \in 0 .. n /\ (j - 1) - (i + 1) < j - i
        BY <2>0, <1>0
      <4> QED
        BY <4>1, <4>2, <1>1
    <3>3. CASE symbols[i].type = "LEAF" /\ i = j
      <4>1. p[i][j] = symbols[i].node /\ i \in 1 .. n
        BY <3>3, <2>2, <1>1, <2>0, <1>0 DEF Unsplit
      <4> QED
        BY <4>1, <3>3, <1>1 DEF Scored
    <3> QED
      BY <3>1, <3>2, <3>3, <2>2, <1>1 DEF Unsplit
  <2> QED
    BY <2>0, <2>1, <2>2 DEF Read
<1>2. ASSUME NEW i \in 1 .. (n + 1), NEW j \in 0 .. n,
             \A k \in 1 .. (n + 1), m \in 0 .. n : m - k < j - i => <<k, m>> \in R
      PROVE  <<i, j>> \in R
  <2>1. \A k \in 1 .. (n + 1), m \in 0 .. n : m - k < j - i => Fine(k, m)
    BY <1>2
  <2>2. Fine(i, j)
    BY <2>1, <1>1
  <2> QED
    BY <2>2
<1>3. \A i \in 1 .. (n + 1), j \in 0 .. n : <<i, j>> \in R
  <2> HIDE DEF R
  <2> QED
    BY <1>0, <1>2, InductionOverRanges, Zenon
<1> QED
  BY <1>3

-------------------------------------------------------------------------------
(* A condition at the end: how it binds.                                    *)

\* A call on its own means its node.
LEMMA LeafIsNode ==
  ASSUME NEW T, NEW symbols \in Seq(T), NEW p, IsReading(symbols, p),
         NEW k \in 1 .. Len(symbols), symbols[k].type = "LEAF"
  PROVE  /\ p[k][k] = symbols[k].node
         /\ \A type \in {"AND", "OR"} : Outer(symbols, k, k, type) = {}
<1>0. k \in 1 .. (Len(symbols) + 1) /\ k \in 0 .. Len(symbols) /\ k \in Int
  OBVIOUS
<1>1. \A type \in {"AND", "OR"} : Outer(symbols, k, k, type) = {}
  BY <1>0 DEF Outer
<1>2. p[k][k] = Read(symbols, p, k, k)
  BY <1>0 DEF IsReading
<1>3. Read(symbols, p, k, k) = Unsplit(symbols, p, k, k)
  BY <1>0, <1>1 DEF Read
<1>4. Unsplit(symbols, p, k, k) = symbols[k].node
  BY DEF Unsplit
<1> QED
  BY <1>1, <1>2, <1>3, <1>4

\* A call on its own that has a meaning is an operand.
LEMMA LeafIsOperand ==
  ASSUME NEW T, NEW symbols \in Seq(T), NEW p, IsReading(symbols, p),
         NEW k \in 1 .. Len(symbols), symbols[k].type = "LEAF", p[k][k] # Invalid
  PROVE  /\ Operand(symbols, p, k, k, symbols[k].node)
         /\ \A type \in {"AND", "OR"} : Outer(symbols, k, k, type) = {}
<1>0. k \in 1 .. (Len(symbols) + 1) /\ k \in 0 .. Len(symbols)
  OBVIOUS
<1>1. Operand(symbols, p, k, k, p[k][k])
  BY <1>0, ValidIsOperand
<1> QED
  BY <1>1, LeafIsNode

\* How the last condition of a rule binds.
Bound(old, new, type, x) ==
  IF type = "OR" THEN new = OrNode(old, x)
  ELSE \/ new = AndNode(old, x)
       \/ \E l, r : /\ l # Invalid /\ r # Invalid
                    /\ l.score \in Nat /\ r.score \in Nat
                    /\ old = OrNode(l, r) /\ new = OrNode(l, AndNode(r, x))

\* An operator and a call after what has a meaning bind to all of it or, with && after
\* ||, to its last part.
LEMMA LastConditionBinds ==
  ASSUME NEW T, NEW symbols \in Seq(T), NEW p, IsReading(symbols, p), Scored(symbols),
         NEW n \in Nat, n >= 1, Len(symbols) = n + 2,
         NEW type \in {"AND", "OR"}, symbols[n + 1].type = type,
         symbols[n + 2].type = "LEAF", p[n + 2][n + 2] # Invalid,
         p[1][n] # Invalid
  PROVE  Bound(p[1][n], p[1][n + 2], type, symbols[n + 2].node)
<1> DEFINE e == n + 2
           x == symbols[e].node
           old == p[1][n]
<1>0. /\ 1 \in 1 .. Len(symbols) /\ e \in 1 .. Len(symbols) /\ n + 1 \in (1 + 1) .. (e - 1)
      /\ (n + 1) - 1 = n /\ (n + 1) + 1 = e /\ n \in 0 .. Len(symbols)
      /\ 1 \in 1 .. (Len(symbols) + 1)
  OBVIOUS
<1>1. Operand(symbols, p, 1, n, old)
  BY <1>0, ValidIsOperand
<1>2. /\ Operand(symbols, p, e, e, x)
      /\ Outer(symbols, e, e, "AND") = {} /\ Outer(symbols, e, e, "OR") = {}
  BY <1>0, LeafIsOperand
<1> HIDE DEF e, x, old
<1>3. ASSUME NEW i \in 1 .. Len(symbols), i <= n, NEW l, Operand(symbols, p, i, n, l),
             type = "AND" => Outer(symbols, i, n, "OR") = {}
      PROVE  /\ Operand(symbols, p, i, e, Binary(type, l, x))
             /\ type = "AND" => Outer(symbols, i, e, "OR") = {}
  <2> DEFINE c == n + 1
  <2>1. c \in (i + 1) .. (e - 1) /\ c - 1 = n /\ c + 1 = e /\ symbols[c].type = type
    BY <1>0, <1>3
  <2>2. /\ Operand(symbols, p, i, c - 1, l) /\ Operand(symbols, p, c + 1, e, x)
        /\ Outer(symbols, c + 1, e, type) = {}
        /\ type = "AND" => /\ Outer(symbols, i, c - 1, "OR") = {}
                           /\ Outer(symbols, c + 1, e, "OR") = {}
    BY <2>1, <1>2, <1>3
  <2> HIDE DEF c
  <2> QED
    BY <2>1, <2>2, <1>0, JoinOperands
<1>4. CASE type = "OR"
  <2>1. Operand(symbols, p, 1, e, Binary("OR", old, x))
    BY <1>0, <1>1, <1>3, <1>4
  <2>2. p[1][e] = OrNode(old, x)
    BY <2>1 DEF Operand, Binary
  <2> QED
    BY <2>2, <1>4 DEF Bound, e, x, old
<1>5. CASE type = "AND" /\ Outer(symbols, 1, n, "OR") = {}
  <2>1. Operand(symbols, p, 1, e, Binary("AND", old, x))
    BY <1>0, <1>1, <1>3, <1>5
  <2>2. p[1][e] = AndNode(old, x)
    BY <2>1 DEF Operand, Binary
  <2> QED
    BY <2>2, <1>5 DEF Bound, e, x, old
<1>6. CASE type = "AND" /\ Outer(symbols, 1, n, "OR") # {}
  <2> DEFINE c == Max(Outer(symbols, 1, n, "OR"))
             l == p[1][c - 1]
             r == p[c + 1][n]
  <2>1. /\ c \in Outer(symbols, 1, n, "OR") /\ c \in 1 .. n
        /\ \A k \in Outer(symbols, 1, n, "OR") : k <= c
    BY <1>0, <1>6, OuterIsIn
  <2>2. old = Split(p, "OR", 1, c, n)
    <3>1. old = Read(symbols, p, 1, n)
      BY <1>0 DEF IsReading, old
    <3> QED
      BY <3>1, <1>6 DEF Read
  <2> HIDE DEF c
  <2>3. l # Invalid /\ r # Invalid /\ old = OrNode(l, r)
    BY <2>2 DEF Split, Binary, old
  <2>4. /\ c - 1 \in 0 .. Len(symbols) /\ c + 1 \in 1 .. (Len(symbols) + 1)
    BY <2>1, <1>0
  <2>5. /\ Operand(symbols, p, 1, c - 1, l) /\ Operand(symbols, p, c + 1, n, r)
        /\ l.score \in Nat /\ r.score \in Nat
    BY <1>0, <2>3, <2>4, ValidIsOperand, PartsAreScored
  <2>6. Outer(symbols, c + 1, n, "OR") = {}
    <3>1. Level(symbols, 1, c + 1) = 0
      BY <2>1, OuterClosed
    <3>2. Outer(symbols, c + 1, n, "OR") = {k \in Outer(symbols, 1, n, "OR") : k > c}
      BY <2>1, <3>1, OuterParts
    <3> DEFINE O == Outer(symbols, 1, n, "OR")
    <3>3. \A k \in O : k \in Int
      BY DEF Outer
    <3>4. c \in Int /\ \A k \in O : k <= c
      BY <2>1
    <3> HIDE DEF O
    <3>5. {k \in O : k > c} = {}
      BY ONLY <3>3, <3>4
    <3> QED
      BY <3>2, <3>5 DEF O
  <2> HIDE DEF l, r
  <2>7. /\ Operand(symbols, p, c + 1, e, AndNode(r, x))
        /\ Outer(symbols, c + 1, e, "OR") = {}
    <3>1. c + 1 \in 1 .. Len(symbols) /\ c + 1 <= n
      BY <2>1, <2>5, <1>0 DEF Operand
    <3> QED
      BY <3>1, <2>5, <2>6, <1>3, <1>6 DEF Binary
  <2>8. Operand(symbols, p, 1, e, OrNode(l, AndNode(r, x)))
    <3>1. c \in (1 + 1) .. (e - 1)
      BY <2>1, <2>5, <1>0 DEF Operand
    <3>2. symbols[c].type = "OR"
      BY <2>1 DEF Outer
    <3>3. Operand(symbols, p, 1, e, Binary("OR", l, AndNode(r, x)))
      BY <3>1, <3>2, <2>5, <2>7, <1>0, JoinOperands
    <3> QED
      BY <3>3 DEF Binary
  <2>9. p[1][e] = OrNode(l, AndNode(r, x))
    BY <2>8 DEF Operand
  <2> QED
    BY <2>3, <2>5, <2>9, <1>6 DEF Bound, e, x, old
<1> QED
  BY <1>4, <1>5, <1>6

\* A bound condition does what it says.
LEMMA BoundActs ==
  ASSUME NEW old, old # Invalid, old.score \in Nat, NEW x, x.score \in Nat, NEW new,
         NEW type \in {"AND", "OR"}, Bound(old, new, type, x)
  PROVE  CASE type = "AND" -> new.matches \subseteq old.matches /\ new.score >= old.score
           [] type = "OR" -> old.matches \subseteq new.matches /\ new.score <= old.score
<1>1. CASE type = "OR"
  <2>1. new.score \in {old.score, x.score} /\ (new.score # old.score => new.score = x.score)
        /\ new.matches = old.matches \cup x.matches
        /\ new.score = IF old.score < x.score THEN old.score ELSE x.score
    BY <1>1, ScoresAre DEF Bound
  <2> QED
    BY <1>1, <2>1
<1>2. CASE type = "AND" /\ new = AndNode(old, x)
  <2>1. new.score = old.score + x.score + 10 /\ new.matches = old.matches \cap x.matches
    BY <1>2, ScoresAre
  <2> QED
    BY <1>2, <2>1
<1>3. ASSUME NEW l, NEW r, l.score \in Nat, r.score \in Nat,
             old = OrNode(l, r), new = OrNode(l, AndNode(r, x)), type = "AND"
      PROVE  new.matches \subseteq old.matches /\ new.score >= old.score
  <2> DEFINE a == AndNode(r, x)
  <2>1. a.score = r.score + x.score + 10 /\ a.matches = r.matches \cap x.matches
    BY ScoresAre
  <2> HIDE DEF a
  <2>2. /\ old.score = IF l.score < r.score THEN l.score ELSE r.score
        /\ new.score = IF l.score < a.score THEN l.score ELSE a.score
        /\ old.matches = l.matches \cup r.matches
        /\ new.matches = l.matches \cup a.matches
    BY <1>3, ScoresAre DEF a
  <2>3. new.score >= old.score
    BY <1>3, <2>1, <2>2
  <2> QED
    BY <2>1, <2>2, <2>3
<1> QED
  BY <1>1, <1>2, <1>3 DEF Bound

-------------------------------------------------------------------------------
(* Another call at the end.                                                 *)

\* The last operator of a kind outside of parentheses.
LEMMA LastOuter ==
  ASSUME NEW T, NEW symbols \in Seq(T), NEW i \in 1 .. Len(symbols),
         NEW j \in 0 .. Len(symbols), NEW type \in {"AND", "OR"},
         Outer(symbols, i, j, type) # {}
  PROVE  LET c == Max(Outer(symbols, i, j, type))
         IN  /\ c \in i .. j
             /\ Outer(symbols, c + 1, j, type) = {}
             /\ Outer(symbols, i, j, "OR") = {} => Outer(symbols, c + 1, j, "OR") = {}
<1> DEFINE c == Max(Outer(symbols, i, j, type))
<1>1. /\ c \in Outer(symbols, i, j, type) /\ c \in i .. j
      /\ \A k \in Outer(symbols, i, j, type) : k <= c
  <2>1. i \in 1 .. (Len(symbols) + 1)
    OBVIOUS
  <2> QED
    BY <2>1, OuterIsIn
<1> HIDE DEF c
<1>2. Level(symbols, i, c + 1) = 0
  BY <1>1, OuterClosed
<1>3. \A t : Outer(symbols, c + 1, j, t) = {k \in Outer(symbols, i, j, t) : k > c}
  BY <1>1, <1>2, OuterParts
<1>4. \A k \in Outer(symbols, i, j, type) : ~(k > c)
  <2>1. \A k \in Outer(symbols, i, j, type) : k \in Int
    BY DEF Outer
  <2>2. c \in Int
    BY <1>1
  <2> QED
    BY <1>1, <2>1, <2>2
<1> QED
  BY <1>1, <1>3, <1>4 DEF c

\* The symbols, n of them, have no ! and end in a call.
EndsInCall(symbols, n) ==
  /\ n \in Nat /\ n >= 1 /\ n = Len(symbols) /\ symbols[n].type = "LEAF"
  /\ \A k \in 1 .. n : symbols[k].type # "NOT"

\* The conditions that are joined by && at the end of a rule are one call, or
\* something and that call.
LEMMA LastOperandIs ==
  ASSUME NEW T, NEW symbols \in Seq(T), NEW p, IsReading(symbols, p),
         NEW n, EndsInCall(symbols, n),
         NEW i \in 1 .. n, p[i][n] # Invalid, Outer(symbols, i, n, "OR") = {}
  PROVE  /\ Outer(symbols, i, n, "AND") = {} => p[i][n] = symbols[n].node
         /\ \A d : Outer(symbols, i, n, "AND") # {} /\ d = Max(Outer(symbols, i, n, "AND"))
              => /\ d \in i .. n /\ p[i][d - 1] # Invalid
                 /\ p[i][n] = AndNode(p[i][d - 1], symbols[n].node)
<1>0. n \in Nat /\ n = Len(symbols)
  BY DEF EndsInCall
<1>1. ASSUME NEW k \in 1 .. (n + 1), p[k][n] # Invalid,
             Outer(symbols, k, n, "OR") = {}, Outer(symbols, k, n, "AND") = {}
      PROVE  p[k][n] = symbols[n].node
  <2>1. p[k][n] = Read(symbols, p, k, n)
    BY <1>0 DEF IsReading
  <2>2. k <= n
    <3>1. k > n => Read(symbols, p, k, n) = Invalid
      BY <1>1 DEF Read
    <3> QED
      BY <2>1, <3>1, <1>0, <1>1
  <2>3. Read(symbols, p, k, n) = Unsplit(symbols, p, k, n)
    <3>1. ~(k > n) /\ Outer(symbols, k, n, "OR") = {} /\ Outer(symbols, k, n, "AND") = {}
      BY <2>2, <1>0, <1>1
    <3> QED
      BY <3>1 DEF Read
  <2>4. symbols[k].type # "NOT" /\ symbols[n].type # "RPAREN"
    BY <2>2, <1>0 DEF EndsInCall
  <2> QED
    BY <2>1, <2>3, <2>4, <1>1 DEF Unsplit
<1>2. Outer(symbols, i, n, "AND") = {} => p[i][n] = symbols[n].node
  BY <1>0, <1>1
<1>3. ASSUME Outer(symbols, i, n, "AND") # {},
             NEW d, d = Max(Outer(symbols, i, n, "AND"))
      PROVE  /\ d \in i .. n /\ p[i][d - 1] # Invalid
             /\ p[i][n] = AndNode(p[i][d - 1], symbols[n].node)
  <2>1. /\ d \in i .. n
        /\ Outer(symbols, d + 1, n, "AND") = {}
        /\ Outer(symbols, d + 1, n, "OR") = {}
    <3>1. i \in 1 .. Len(symbols) /\ n \in 0 .. Len(symbols)
      BY <1>0
    <3> QED
      BY <3>1, <1>3, LastOuter
  <2>2. p[i][n] = Split(p, "AND", i, d, n)
    <3>1. p[i][n] = Read(symbols, p, i, n)
      BY <1>0 DEF IsReading
    <3> QED
      BY <3>1, <1>3, <1>0 DEF Read
  <2>3. /\ p[i][d - 1] # Invalid /\ p[d + 1][n] # Invalid
        /\ p[i][n] = AndNode(p[i][d - 1], p[d + 1][n])
    BY <2>2 DEF Split, Binary
  <2>4. p[d + 1][n] = symbols[n].node
    <3>1. d + 1 \in 1 .. (n + 1)
      BY <2>1, <1>0
    <3> QED
      BY <3>1, <2>1, <2>3, <1>1
  <2> QED
    BY <2>1, <2>3, <2>4
<1> QED
  BY <1>2, <1>3

\* y matches some of what x matches, and has the higher score.
Narrower(y, x, strict) ==
  /\ y.matches \subseteq x.matches /\ y.score >= x.score
  /\ strict => y.score > x.score

\* Rules that differ in their last call only.
Twins(s, t, n) ==
  /\ n \in Nat /\ n >= 1 /\ n = Len(s) /\ n = Len(t)
  /\ SameUpTo(s, t, n - 1)
  /\ s[n].type = "LEAF" /\ t[n].type = "LEAF"
  /\ \A k \in 1 .. n : s[k].type # "NOT" /\ t[k].type # "NOT"
  /\ s[n].node.score \in Nat /\ t[n].node.score \in Nat
  /\ Narrower(t[n].node, s[n].node, TRUE)

\* Twins mean the same but for the ranges that end with the last call, and have their
\* operators in the same places.
LEMMA TwinsAgree ==
  ASSUME NEW S, NEW s \in Seq(S), NEW T, NEW t \in Seq(T), NEW n, Twins(s, t, n),
         NEW p, IsReading(s, p), NEW q, IsReading(t, q)
  PROVE  /\ \A i \in 1 .. n, j \in 0 .. (n - 1) : p[i][j] = q[i][j]
         /\ \A i \in 1 .. n : \A type : Outer(s, i, n, type) = Outer(t, i, n, type)
<1>1. n \in Nat /\ SameUpTo(s, t, n - 1) /\ (n - 1) + 1 = n /\ n - 1 \in Nat
  BY DEF Twins
<1>2. \A i \in 1 .. n, j \in 0 .. (n - 1) : p[i][j] = q[i][j]
  <2>1. \A i \in 1 .. ((n - 1) + 1), j \in 0 .. (n - 1) : p[i][j] = q[i][j]
    BY <1>1, ReadingsAgree
  <2> QED
    BY <1>1, <2>1
<1>3. \A k \in 1 .. n : s[k].type = t[k].type
  <2>1. \A k \in 1 .. n : k = n \/ k \in 1 .. (n - 1)
    BY <1>1
  <2> QED
    BY <2>1 DEF Twins, SameUpTo
<1>4. ASSUME NEW i \in 1 .. n, NEW type
      PROVE  Outer(s, i, n, type) = Outer(t, i, n, type)
  <2>1. i \in Nat /\ \A k \in i .. n : s[k].type = t[k].type
    BY <1>1, <1>3
  <2> QED
    BY <1>1, <2>1, OuterAgrees
<1> QED
  BY <1>2, <1>4

\* A chain of && that ends with the narrower call is narrower.
LEMMA TwinConditions ==
  ASSUME NEW S, NEW s \in Seq(S), NEW T, NEW t \in Seq(T), NEW n, Twins(s, t, n),
         Scored(s), NEW p, IsReading(s, p), NEW q, IsReading(t, q),
         NEW i \in 1 .. n, p[i][n] # Invalid, q[i][n] # Invalid,
         Outer(s, i, n, "OR") = {}
  PROVE  Narrower(q[i][n], p[i][n], TRUE)
<1>0. n \in Nat /\ n = Len(s) /\ EndsInCall(s, n) /\ EndsInCall(t, n)
  BY DEF Twins, EndsInCall
<1>1. /\ Outer(t, i, n, "OR") = {}
      /\ Outer(t, i, n, "AND") = Outer(s, i, n, "AND")
  BY TwinsAgree
<1> DEFINE x == s[n].node
           y == t[n].node
<1>2. /\ x.score \in Nat /\ y.score \in Nat
      /\ y.matches \subseteq x.matches /\ y.score > x.score
  BY DEF Twins, Narrower
<1>3. CASE Outer(s, i, n, "AND") = {}
  <2>1. p[i][n] = x
    BY <1>0, <1>3, LastOperandIs DEF x
  <2>2. q[i][n] = y
    BY <1>0, <1>1, <1>3, LastOperandIs DEF y
  <2> QED
    BY <2>1, <2>2 DEF Twins, Narrower
<1>4. CASE Outer(s, i, n, "AND") # {}
  <2> DEFINE d == Max(Outer(s, i, n, "AND"))
             l == p[i][d - 1]
  <2>1. d \in i .. n /\ l # Invalid /\ p[i][n] = AndNode(l, x)
    BY <1>0, <1>4, LastOperandIs
  <2>2. q[i][n] = AndNode(q[i][d - 1], y)
    <3>1. d = Max(Outer(t, i, n, "AND")) /\ Outer(t, i, n, "AND") # {}
      BY <1>1, <1>4
    <3> QED
      BY <3>1, <1>0, <1>1, LastOperandIs
  <2> HIDE DEF d
  <2>3. d - 1 \in 0 .. (n - 1) /\ i \in 1 .. (Len(s) + 1) /\ d - 1 \in 0 .. Len(s)
    BY <2>1, <1>0
  <2>4. q[i][d - 1] = l
    BY <2>3, TwinsAgree
  <2>5. l.score \in Nat
    BY <2>1, <2>3, PartsAreScored
  <2> HIDE DEF l, x, y
  <2>6. /\ p[i][n].score = l.score + x.score + 10
        /\ p[i][n].matches = l.matches \cap x.matches
        /\ q[i][n].score = l.score + y.score + 10
        /\ q[i][n].matches = l.matches \cap y.matches
    BY <2>1, <2>2, <2>4, ScoresAre
  <2>7. q[i][n].score > p[i][n].score /\ q[i][n].score >= p[i][n].score
    BY <2>5, <2>6, <1>2
  <2> QED
    BY <2>6, <2>7, <1>2 DEF Narrower
<1> QED
  BY <1>3, <1>4

\* Of two rules that differ in their last call the one with the narrower call is
\* the narrower.
LEMMA TwinRules ==
  ASSUME NEW S, NEW s \in Seq(S), NEW T, NEW t \in Seq(T), NEW n, Twins(s, t, n),
         Scored(s), NEW p, IsReading(s, p), NEW q, IsReading(t, q),
         p[1][n] # Invalid, q[1][n] # Invalid
  PROVE  Narrower(q[1][n], p[1][n], \A k \in 1 .. n : s[k].type # "OR")
<1>0. n \in Nat /\ n = Len(s) /\ n = Len(t) /\ 1 \in 1 .. n /\ Scored(t)
  <2>1. n \in Nat /\ n = Len(s) /\ n = Len(t) /\ 1 \in 1 .. n
    BY DEF Twins
  <2>2. \A k \in 1 .. n : k = n \/ k \in 1 .. (n - 1)
    BY <2>1
  <2> QED
    BY <2>1, <2>2 DEF Twins, SameUpTo, Scored
<1>1. CASE Outer(s, 1, n, "OR") = {}
  <2>1. Narrower(q[1][n], p[1][n], TRUE)
    BY <1>0, <1>1, TwinConditions
  <2> QED
    BY <2>1 DEF Narrower
<1>2. CASE Outer(s, 1, n, "OR") # {}
  <2> DEFINE c == Max(Outer(s, 1, n, "OR"))
             l == p[1][c - 1]
             a == p[c + 1][n]
             b == q[c + 1][n]
  <2>1. c \in 1 .. n /\ Outer(s, c + 1, n, "OR") = {}
    <3>1. 1 \in 1 .. Len(s) /\ n \in 0 .. Len(s)
      BY <1>0
    <3> QED
      BY <3>1, <1>2, LastOuter
  <2>2. p[1][n] = Split(p, "OR", 1, c, n)
    <3>1. p[1][n] = Read(s, p, 1, n)
      BY <1>0 DEF IsReading
    <3> QED
      BY <3>1, <1>2, <1>0 DEF Read
  <2>3. q[1][n] = Split(q, "OR", 1, c, n)
    <3>1. q[1][n] = Read(t, q, 1, n)
      BY <1>0 DEF IsReading
    <3>2. Outer(t, 1, n, "OR") = Outer(s, 1, n, "OR")
      BY <1>0, TwinsAgree
    <3> QED
      BY <3>1, <3>2, <1>2, <1>0 DEF Read
  <2> HIDE DEF c
  <2>4. /\ l # Invalid /\ a # Invalid /\ b # Invalid
        /\ p[1][n] = OrNode(l, a) /\ q[1][n] = OrNode(q[1][c - 1], b)
    BY <2>2, <2>3 DEF Split, Binary
  <2>5. c - 1 \in 0 .. (n - 1) /\ c + 1 \in 1 .. (n + 1) /\ c - 1 \in 0 .. n
        /\ 1 \in 1 .. (n + 1) /\ n \in 0 .. n
    BY <2>1, <1>0
  <2>6. q[1][c - 1] = l
    BY <2>5, <1>0, TwinsAgree
  <2>7. l.score \in Nat /\ a.score \in Nat /\ b.score \in Nat
    BY <2>4, <2>5, <1>0, PartsAreScored
  <2>8. c + 1 \in 1 .. n
    <3>1. Operand(s, p, c + 1, n, a)
      BY <2>4, <2>5, <1>0, ValidIsOperand
    <3> QED
      BY <3>1, <2>5, <1>0 DEF Operand
  <2>9. b.matches \subseteq a.matches /\ b.score > a.score
    <3>1. Narrower(b, a, TRUE)
      BY <2>1, <2>4, <2>8, TwinConditions
    <3> QED
      BY <3>1 DEF Narrower
  <2>10. ~(\A k \in 1 .. n : s[k].type # "OR")
    <3>1. c \in Outer(s, 1, n, "OR")
      <4>1. 1 \in 1 .. (Len(s) + 1) /\ n \in 0 .. Len(s)
        BY <2>5, <1>0
      <4> QED
        BY <4>1, <1>2, OuterIsIn DEF c
    <3> QED
      BY <3>1, <2>1 DEF Outer
  <2> HIDE DEF l, a, b
  <2>11. /\ p[1][n].score = IF l.score < a.score THEN l.score ELSE a.score
         /\ q[1][n].score = IF l.score < b.score THEN l.score ELSE b.score
         /\ p[1][n].matches = l.matches \cup a.matches
         /\ q[1][n].matches = l.matches \cup b.matches
    BY <2>4, <2>6, ScoresAre
  <2>12. q[1][n].score >= p[1][n].score
    BY <2>7, <2>9, <2>11
  <2> QED
    BY <2>9, <2>10, <2>11, <2>12 DEF Narrower
<1> QED
  BY <1>1, <1>2

-------------------------------------------------------------------------------
(* The scores of calls.                                                     *)

\* What buildLeaf has checked of a call that it has made a node of.
LEMMA LeafIs ==
  ASSUME NEW name, NEW args, Leaf(name, args) # Invalid
  PROVE  /\ name \in {"Host", "PathPrefix", "Path", "Method", "Header", "ClientIP"}
         /\ Len(args) = IF name = "Header" THEN 2 ELSE 1
         /\ name = "ClientIP" => IsAddress(args[1])
         /\ Leaf(name, args).score = Score(name, args)
         /\ Leaf(name, args).matches
              = {r \in DOMAIN Requests : Matches(name, args, Requests[r])}
<1>1. /\ name \in DOMAIN Arity /\ Len(args) = Arity[name]
      /\ name = "ClientIP" => IsAddress(args[1])
      /\ Leaf(name, args)
           = [op |-> name, args |-> args, score |-> Score(name, args),
              matches |-> {r \in DOMAIN Requests : Matches(name, args, Requests[r])}]
  BY DEF Leaf
<1>2. /\ name \in {"Host", "PathPrefix", "Path", "Method", "Header", "ClientIP"}
      /\ Arity[name] = IF name = "Header" THEN 2 ELSE 1
  BY <1>1 DEF Arity
<1> QED
  BY <1>1, <1>2

\* The address of a client or of a range by its text.
LEMMA AddressIs ==
  ASSUME NEW text, IsAddress(text)
  PROVE  /\ text[1] \in DOMAIN Octets
         /\ Octets[text[1]] \in Seq(0 .. 255)
         /\ Len(Octets[text[1]]) \in {4, 16}
         /\ AddressScore(text) \in Nat
         /\ IsRange(text) => /\ Ones[text[3]] \in 0 .. (8 * Len(Octets[text[1]]))
                             /\ Ones[text[3]] % 8 = 0
<1>1. /\ text[1] \in DOMAIN Octets
      /\ IsRange(text) => text[3] \in DOMAIN Ones /\ Ones[text[3]] <= 8 * Len(Octets[text[1]])
  BY DEF IsAddress
<1>2. Octets[text[1]] \in Seq(0 .. 255) /\ Len(Octets[text[1]]) \in {4, 16}
  BY <1>1, RulesAssumption
<1>3. IsRange(text) => Ones[text[3]] \in 0 .. 128 /\ Ones[text[3]] % 8 = 0
  BY <1>1, RulesAssumption
<1> DEFINE size == Len(Octets[text[1]])
           ones == Ones[text[3]]
<1>4. /\ size \in {4, 16}
      /\ IsRange(text) => ones \in 0 .. 128 /\ ones <= 8 * size
      /\ AddressScore(text) = IF IsRange(text) THEN ones ELSE 8 * size
  BY <1>1, <1>2, <1>3 DEF AddressScore
<1> HIDE DEF size, ones
<1>5. AddressScore(text) \in Nat /\ (IsRange(text) => ones \in 0 .. (8 * size))
  BY <1>4
<1> QED
  BY <1>1, <1>2, <1>3, <1>5 DEF size, ones

\* The node of a call has a score.
LEMMA LeafScore ==
  ASSUME NEW T, NEW name, NEW args \in Seq(Seq(T)), Leaf(name, args) # Invalid
  PROVE  Leaf(name, args).score \in Nat
<1>1. /\ name \in {"Host", "PathPrefix", "Path", "Method", "Header", "ClientIP"}
      /\ Leaf(name, args).score = Score(name, args)
  BY LeafIs
<1>2. Len(args[1]) \in Nat
  <2>1. Len(args) >= 1
    BY LeafIs
  <2> QED
    BY <2>1
<1>3. name = "ClientIP" => AddressScore(args[1]) \in Nat
  BY LeafIs, AddressIs
<1> QED
  BY <1>1, <1>2, <1>3 DEF Score

\* Prefixes, without SubSeq.
LEMMA PrefixIs ==
  ASSUME NEW T, NEW s \in Seq(T), NEW S, NEW t \in Seq(S)
  PROVE  IsPrefix(s, t) <=> Len(s) <= Len(t) /\ \A k \in 1 .. Len(s) : s[k] = t[k]
<1>1. /\ 1 \in 1 .. (Len(s) + 1) /\ Len(s) \in (1 - 1) .. Len(s)
      /\ Len(s) - 1 + 1 = Len(s) /\ \A k \in 1 .. Len(s) : 1 + k - 1 = k
  OBVIOUS
<1>2. /\ SubSeq(s, 1, Len(s)) \in Seq(T)
      /\ Len(SubSeq(s, 1, Len(s))) = Len(s)
      /\ \A k \in 1 .. Len(s) : SubSeq(s, 1, Len(s))[k] = s[k]
  BY <1>1, SubSeqIs
<1>3. ASSUME Len(s) <= Len(t)
      PROVE  /\ SubSeq(t, 1, Len(s)) \in Seq(S)
             /\ Len(SubSeq(t, 1, Len(s))) = Len(s)
             /\ \A k \in 1 .. Len(s) : SubSeq(t, 1, Len(s))[k] = t[k]
  <2>1. 1 \in 1 .. (Len(t) + 1) /\ Len(s) \in (1 - 1) .. Len(t)
    BY <1>3
  <2> QED
    BY <1>1, <2>1, SubSeqIs
<1>4. ASSUME Len(s) <= Len(t)
      PROVE  SubSeq(s, 1, Len(s)) = SubSeq(t, 1, Len(s))
               <=> \A k \in 1 .. Len(s) : s[k] = t[k]
  <2> DEFINE x == SubSeq(s, 1, Len(s))
             y == SubSeq(t, 1, Len(s))
  <2>1. /\ x \in Seq(T) /\ y \in Seq(S) /\ Len(x) = Len(s) /\ Len(y) = Len(s)
        /\ \A k \in 1 .. Len(s) : x[k] = s[k] /\ y[k] = t[k]
    BY <1>2, <1>3, <1>4
  <2> HIDE DEF x, y
  <2>2. (\A k \in 1 .. Len(s) : x[k] = y[k]) => x = y
    BY <2>1
  <2> QED
    BY <2>1, <2>2 DEF x, y
<1> QED
  BY <1>4 DEF IsPrefix

-------------------------------------------------------------------------------
(* Of two calls for the same thing the narrower has the higher score.       *)

Met(call, r) == Matches(call.name, call.args, Requests[r])

\* There is a request that both calls match, and one that only the wider does.
LEMMA NarrowsIs ==
  ASSUME NEW c \in Calls, NEW o \in Calls, Narrows(c, o)
  PROVE  /\ LeafOf[c] = Leaf(c.name, c.args) /\ LeafOf[c] # Invalid
         /\ LeafOf[o] = Leaf(o.name, o.args) /\ LeafOf[o] # Invalid
         /\ LeafOf[c].matches \subseteq LeafOf[o].matches
         /\ \E r \in DOMAIN Requests : Met(c, r) /\ Met(o, r)
         /\ \E r \in DOMAIN Requests : ~Met(c, r) /\ Met(o, r)
<1>1. /\ LeafOf[c] = Leaf(c.name, c.args) /\ LeafOf[c] # Invalid
      /\ LeafOf[o] = Leaf(o.name, o.args) /\ LeafOf[o] # Invalid
  BY DEF LeafOf, Narrows
<1>2. /\ LeafOf[c].matches = {r \in DOMAIN Requests : Met(c, r)}
      /\ LeafOf[o].matches = {r \in DOMAIN Requests : Met(o, r)}
  BY <1>1, LeafIs DEF Met
<1>3. /\ LeafOf[c].matches # {} /\ LeafOf[c].matches # LeafOf[o].matches
      /\ LeafOf[c].matches \subseteq LeafOf[o].matches
  BY DEF Narrows
<1> QED
  BY <1>1, <1>2, <1>3

\* Calls that look at the same thing.
LEMMA SameSubject ==
  ASSUME NEW c \in Calls, NEW o \in Calls, Subject(c) = Subject(o),
         Leaf(c.name, c.args) # Invalid, Leaf(o.name, o.args) # Invalid
  PROVE  \/ c.name \in {"Path", "PathPrefix"} /\ o.name \in {"Path", "PathPrefix"}
         \/ c.name = o.name /\ c.name \in {"Host", "Method", "ClientIP"}
         \/ /\ c.name = "Header" /\ o.name = "Header"
            /\ Mapped(LowerOf, c.args[1]) = Mapped(LowerOf, o.args[1])
<1>1. ASSUME NEW d \in Calls, Leaf(d.name, d.args) # Invalid
      PROVE  \/ d.name \in {"Path", "PathPrefix"} /\ Subject(d) = <<"path">>
             \/ d.name \in {"Host", "Method", "ClientIP"} /\ Subject(d) = <<d.name>>
             \/ /\ d.name = "Header"
                /\ Subject(d) = <<"Header", Mapped(LowerOf, d.args[1])>>
  <2>1. /\ d.name \in {"Host", "PathPrefix", "Path", "Method", "Header", "ClientIP"}
        /\ d.name = "Header" => Len(d.args) = 2
    BY <1>1, LeafIs
  <2>2. d.name = "Header" => d.args # <<>>
    <3>1. Len(<<>>) # 2
      OBVIOUS
    <3> QED
      BY <2>1, <3>1
  <2>3. d.name = "Header" => Subject(d) = <<"Header", Mapped(LowerOf, d.args[1])>>
    BY <2>2 DEF Subject
  <2>4. d.name \in {"Path", "PathPrefix"} => Subject(d) = <<"path">>
    BY DEF Subject
  <2>5. d.name \in {"Host", "Method", "ClientIP"} => Subject(d) = <<d.name>>
    BY DEF Subject
  <2> QED
    BY <2>1, <2>3, <2>4, <2>5
<1>2. \A x, y : <<"path">> # <<"Header", y>>
             /\ (x \in {"Host", "Method", "ClientIP"} =>
                   <<"path">> # <<x>> /\ <<x>> # <<"Header", y>>)
  OBVIOUS
<1>3. \A x, y : <<x>> = <<y>> => x = y
  OBVIOUS
<1>4. \A x, y : <<"Header", x>> = <<"Header", y>> => x = y
  OBVIOUS
<1> QED
  BY <1>1, <1>2, <1>3, <1>4

\* Of two paths or prefixes the narrower has the higher score.
LEMMA PathsScore ==
  ASSUME NEW c \in Calls, NEW o \in Calls, Narrows(c, o),
         c.name \in {"Path", "PathPrefix"}, o.name \in {"Path", "PathPrefix"}
  PROVE  Score(c.name, c.args) > Score(o.name, o.args)
<1> DEFINE v == c.args[1]
           u == o.args[1]
<1>1. PICK r \in DOMAIN Requests : Met(c, r) /\ Met(o, r)
  BY NarrowsIs
<1>2. PICK s \in DOMAIN Requests : ~Met(c, s) /\ Met(o, s)
  BY NarrowsIs
<1> DEFINE x == Requests[r].path
           y == Requests[s].path
<1>3. /\ x \in Seq(Range(x)) /\ y \in Seq(Range(y))
      /\ v \in Seq(Chars) /\ u \in Seq(Chars)
  <2>1. x \in Seq(Range(x)) /\ y \in Seq(Range(y))
    BY RulesAssumption
  <2>2. /\ c.args \in Seq(Seq(Chars)) /\ Len(c.args) = 1
        /\ o.args \in Seq(Seq(Chars)) /\ Len(o.args) = 1
    <3>1. c.args \in Seq(Seq(Chars)) /\ o.args \in Seq(Seq(Chars))
      BY CallsAre
    <3>2. Leaf(c.name, c.args) # Invalid /\ Leaf(o.name, o.args) # Invalid
      BY NarrowsIs
    <3>3. Len(c.args) = 1
      BY <3>2, LeafIs
    <3>4. Len(o.args) = 1
      BY <3>2, LeafIs
    <3> QED
      BY <3>1, <3>3, <3>4
  <2> QED
    BY <2>1, <2>2
<1>4. /\ c.name = "Path" => x = v /\ y # v
      /\ c.name = "PathPrefix" => IsPrefix(v, x) /\ ~IsPrefix(v, y)
      /\ o.name = "Path" => x = u /\ y = u
      /\ o.name = "PathPrefix" => IsPrefix(u, x) /\ IsPrefix(u, y)
  BY <1>1, <1>2 DEF Met, Matches
<1>5. /\ Score(c.name, c.args) = Len(v) + IF c.name = "Path" THEN 30 ELSE 20
      /\ Score(o.name, o.args) = Len(u) + IF o.name = "Path" THEN 30 ELSE 20
  <2>1. Len(u) \in Nat /\ Len(v) \in Nat
    BY <1>3
  <2>2. /\ c.name = "Path" => Score(c.name, c.args) = 30 + Len(v)
        /\ c.name = "PathPrefix" => Score(c.name, c.args) = 20 + Len(v)
    BY DEF Score
  <2>3. /\ o.name = "Path" => Score(o.name, o.args) = 30 + Len(u)
        /\ o.name = "PathPrefix" => Score(o.name, o.args) = 20 + Len(u)
    BY DEF Score
  <2> HIDE DEF u, v
  <2> QED
    BY <2>1, <2>2, <2>3
<1> HIDE DEF v, u, x, y
<1>6. /\ IsPrefix(v, x) <=> Len(v) <= Len(x) /\ \A k \in 1 .. Len(v) : v[k] = x[k]
      /\ IsPrefix(v, y) <=> Len(v) <= Len(y) /\ \A k \in 1 .. Len(v) : v[k] = y[k]
      /\ IsPrefix(u, x) <=> Len(u) <= Len(x) /\ \A k \in 1 .. Len(u) : u[k] = x[k]
      /\ IsPrefix(u, y) <=> Len(u) <= Len(y) /\ \A k \in 1 .. Len(u) : u[k] = y[k]
      /\ Len(u) \in Nat /\ Len(v) \in Nat /\ Len(x) \in Nat /\ Len(y) \in Nat
  BY <1>3, PrefixIs
<1>7. CASE c.name = "Path"
  BY <1>4, <1>5, <1>6, <1>7
<1>8. CASE c.name = "PathPrefix" /\ o.name = "Path"
  BY <1>4, <1>8
<1>9. CASE c.name = "PathPrefix" /\ o.name = "PathPrefix"
  <2>1. ASSUME Len(v) <= Len(u)
        PROVE  FALSE
    <3>1. \A k \in 1 .. Len(v) : k \in 1 .. Len(u)
      BY <2>1, <1>6
    <3>2. \A k \in 1 .. Len(v) : v[k] = y[k]
      BY <3>1, <1>4, <1>6, <1>9
    <3>3. Len(v) <= Len(y)
      BY <2>1, <1>4, <1>6, <1>9
    <3> QED
      BY <3>2, <3>3, <1>4, <1>6, <1>9
  <2> QED
    BY <2>1, <1>5, <1>6, <1>9
<1> QED
  BY <1>7, <1>8, <1>9

\* Of two addresses or ranges the narrower has the higher score.
LEMMA AddressesScore ==
  ASSUME NEW c \in Calls, NEW o \in Calls, Narrows(c, o),
         c.name = "ClientIP", o.name = "ClientIP"
  PROVE  Score(c.name, c.args) > Score(o.name, o.args)
<1> DEFINE v == c.args[1]
           u == o.args[1]
           a == Octets[v[1]]
           b == Octets[u[1]]
           m == Ones[v[3]]
           n == Ones[u[3]]
<1>1. PICK r \in DOMAIN Requests : Met(c, r) /\ Met(o, r)
  BY NarrowsIs
<1>2. PICK s \in DOMAIN Requests : ~Met(c, s) /\ Met(o, s)
  BY NarrowsIs
<1> DEFINE x == Octets[Requests[r].addr]
           y == Octets[Requests[s].addr]
<1>3. IsAddress(v) /\ IsAddress(u)
  BY NarrowsIs, LeafIs
<1>4. /\ a \in Seq(0 .. 255) /\ b \in Seq(0 .. 255)
      /\ Len(a) \in {4, 16} /\ Len(b) \in {4, 16}
      /\ IsRange(v) => m \in 0 .. (8 * Len(a)) /\ m % 8 = 0
      /\ IsRange(u) => n \in 0 .. (8 * Len(b)) /\ n % 8 = 0
  BY <1>3, AddressIs
<1>5. /\ MatchesAddress(v, Requests[r].addr) /\ MatchesAddress(u, Requests[r].addr)
      /\ ~MatchesAddress(v, Requests[s].addr) /\ MatchesAddress(u, Requests[s].addr)
  BY <1>1, <1>2 DEF Met, Matches
<1>6. x \in Seq(0 .. 255) /\ y \in Seq(0 .. 255)
  BY <1>5, RulesAssumption DEF MatchesAddress
<1>7. /\ IsRange(v) => Len(a) = Len(x) /\ \A i \in 1 .. (m \div 8) : a[i] = x[i]
      /\ IsRange(v) => ~(Len(a) = Len(y) /\ \A i \in 1 .. (m \div 8) : a[i] = y[i])
      /\ ~IsRange(v) => a = x /\ a # y
      /\ IsRange(u) => Len(b) = Len(x) /\ \A i \in 1 .. (n \div 8) : b[i] = x[i]
      /\ IsRange(u) => Len(b) = Len(y) /\ \A i \in 1 .. (n \div 8) : b[i] = y[i]
      /\ ~IsRange(u) => b = x /\ b = y
  BY <1>5 DEF MatchesAddress
<1>8. /\ Score(c.name, c.args) = IF IsRange(v) THEN m ELSE 8 * Len(a)
      /\ Score(o.name, o.args) = IF IsRange(u) THEN n ELSE 8 * Len(b)
  BY DEF Score, AddressScore
<1> HIDE DEF v, u, a, b, m, n, x, y
<1>9. CASE ~IsRange(u)
  BY <1>7, <1>9
<1>10. CASE IsRange(u) /\ IsRange(v)
  <2>1. ASSUME m <= n
        PROVE  FALSE
    <3>1. m \div 8 <= n \div 8 /\ m \div 8 \in Int /\ n \div 8 \in Int
      <4>1. m \in Int /\ n \in Int
        BY <1>4, <1>10
      <4> QED
        BY <4>1, <2>1
    <3>2. \A i \in 1 .. (m \div 8) : i \in 1 .. (n \div 8)
      BY <3>1
    <3>3. Len(a) = Len(y) /\ \A i \in 1 .. (m \div 8) : a[i] = y[i]
      BY <3>2, <1>7, <1>10
    <3> QED
      BY <3>3, <1>7, <1>10
  <2>2. m \in Int /\ n \in Int
    BY <1>4, <1>10
  <2> QED
    BY <2>1, <2>2, <1>8, <1>10
<1>11. CASE IsRange(u) /\ ~IsRange(v)
  <2>1. n # 8 * Len(b)
    <3> SUFFICES ASSUME n = 8 * Len(b)
                 PROVE  FALSE
      OBVIOUS
    <3>1. n \div 8 = Len(b)
      BY <1>4
    <3>2. Len(x) = Len(y) /\ \A i \in 1 .. Len(b) : x[i] = y[i]
      BY <3>1, <1>7, <1>11
    <3>3. Len(x) = Len(b)
      BY <1>7, <1>11
    <3>4. x = y
      <4>1. Len(x) = Len(y) /\ \A i \in 1 .. Len(x) : x[i] = y[i]
        BY <3>2, <3>3
      <4> QED
        BY ONLY <4>1, <1>6
    <3> QED
      BY <3>4, <1>7, <1>11
  <2>2. Len(a) = Len(b)
    BY <1>7, <1>11
  <2>3. n \in 0 .. (8 * Len(b)) /\ Len(b) \in {4, 16}
    BY <1>4, <1>11
  <2> QED
    BY <2>1, <2>2, <2>3, <1>8, <1>11
<1> QED
  BY <1>9, <1>10, <1>11

\* Of two calls that look at the same thing the narrower has the higher score.
THEOREM NarrowerScoresHigher ==
  ASSUME NEW c \in Calls, NEW o \in Calls, Narrows(c, o), Subject(c) = Subject(o)
  PROVE  /\ LeafOf[c].score \in Nat /\ LeafOf[o].score \in Nat
         /\ LeafOf[c].score > LeafOf[o].score
<1>0. /\ LeafOf[c] = Leaf(c.name, c.args) /\ Leaf(c.name, c.args) # Invalid
      /\ LeafOf[o] = Leaf(o.name, o.args) /\ Leaf(o.name, o.args) # Invalid
  BY NarrowsIs
<1>1. /\ LeafOf[c].score = Score(c.name, c.args) /\ LeafOf[c].score \in Nat
      /\ LeafOf[o].score = Score(o.name, o.args) /\ LeafOf[o].score \in Nat
  BY <1>0, LeafIs, LeafScore, CallsAre
<1>2. CASE c.name \in {"Path", "PathPrefix"} /\ o.name \in {"Path", "PathPrefix"}
  BY <1>1, <1>2, PathsScore
<1>3. CASE c.name = "ClientIP" /\ o.name = "ClientIP"
  BY <1>1, <1>3, AddressesScore
<1>4. ASSUME c.name = o.name,
             \/ c.name \in {"Host", "Method"}
             \/ /\ c.name = "Header"
                /\ Mapped(LowerOf, c.args[1]) = Mapped(LowerOf, o.args[1])
      PROVE  FALSE
  <2>1. PICK r \in DOMAIN Requests : Met(c, r) /\ Met(o, r)
    BY NarrowsIs
  <2>2. PICK s \in DOMAIN Requests : ~Met(c, s) /\ Met(o, s)
    BY NarrowsIs
  <2>3. CASE c.name = "Host"
    BY <2>1, <2>2, <2>3, <1>4 DEF Met, Matches
  <2>4. CASE c.name = "Method"
    BY <2>1, <2>2, <2>4, <1>4 DEF Met, Matches
  <2>5. CASE /\ c.name = "Header"
             /\ Mapped(LowerOf, c.args[1]) = Mapped(LowerOf, o.args[1])
    <3>1. \A q : HeaderGet(q, c.args[1]) = HeaderGet(q, o.args[1])
      BY <2>5 DEF HeaderGet
    <3> QED
      BY <2>1, <2>2, <2>5, <3>1, <1>4 DEF Met, Matches
  <2> QED
    BY <1>4, <2>3, <2>4, <2>5
<1> QED
  BY <1>0, <1>2, <1>3, <1>4, SameSubject

-------------------------------------------------------------------------------
(* A narrower call at the end: the step.                                    *)

\* The symbols of a rule.
LEMMA PieceSymbolsAre ==
  ASSUME NEW pieces \in Seq(Pieces)
  PROVE  /\ \E S : PieceSymbols(pieces) \in Seq(S)
         /\ Len(PieceSymbols(pieces)) = Len(pieces) /\ Len(pieces) \in Nat
         /\ \A k \in 1 .. Len(pieces) : PieceSymbols(pieces)[k] = Symbol(pieces[k])
         /\ Meaning(pieces) = Reading(PieceSymbols(pieces))
<1>1. PieceSymbols(pieces) \in Seq({Symbol(piece) : piece \in Pieces})
  BY DEF PieceSymbols
<1>2. /\ Len(PieceSymbols(pieces)) = Len(pieces)
      /\ \A k \in 1 .. Len(pieces) : PieceSymbols(pieces)[k] = Symbol(pieces[k])
  BY DEF PieceSymbols
<1>3. Meaning(pieces) = Reading(PieceSymbols(pieces))
  BY DEF Meaning, PieceSymbols
<1> QED
  BY <1>1, <1>2, <1>3

\* What is a call or an operator as a piece is so as a symbol.
LEMMA SymbolIs ==
  ASSUME NEW piece \in Pieces
  PROVE  /\ \A type \in {"AND", "OR", "NOT"} : Symbol(piece).type = type <=> piece.type = type
         /\ Symbol(piece).type = "LEAF" =>
              Symbol(piece).node = Invalid \/ Symbol(piece).node.score \in Nat
         /\ piece.type = "CALL" => /\ piece.call \in Calls
                                  /\ Symbol(piece).type = "LEAF"
                                  /\ Symbol(piece).node = LeafOf[piece.call]
<1>1. CASE piece.type = "CALL" /\ piece.call \in Calls
  <2> DEFINE node == LeafOf[piece.call]
  <2>1. node = Invalid \/ node.score \in Nat
    <3>1. node = Leaf(piece.call.name, piece.call.args)
      BY <1>1 DEF LeafOf
    <3>2. piece.call.args \in Seq(Seq(Chars))
      BY <1>1, CallsAre
    <3> QED
      BY <3>1, <3>2, LeafScore
  <2> HIDE DEF node
  <2>2. Symbol(piece) = [type |-> "LEAF", node |-> node]
    BY <1>1 DEF Symbol, node
  <2>3. Symbol(piece).type = "LEAF" /\ Symbol(piece).node = node
    BY <2>2
  <2> QED
    BY <2>1, <2>3, <1>1 DEF node
<1>2. CASE piece.type # "CALL" /\ piece.type # "LEAF"
  <2>1. Symbol(piece) = piece
    BY <1>2 DEF Symbol
  <2> QED
    BY <2>1, <1>2
<1> QED
  BY <1>1, <1>2, PiecesAre DEF Operators

\* A rule is balanced if all of its pieces are.
LEMMA BalancedPieces ==
  ASSUME NEW pieces \in Seq(Pieces)
  PROVE  Balanced(pieces) <=> \A k \in 1 .. Len(pieces) : BalancedPiece(pieces[k])
BY DEF Balanced, BalancedPiece, BalancedCall, BalancedText

\* The last call of a rule has been replaced by a narrower one.
Replaced(pieces, new, n, o, c) ==
  /\ n \in Nat /\ n >= 1 /\ n = Len(pieces) /\ n = Len(new)
  /\ \A k \in 1 .. (n - 1) : new[k] = pieces[k]
  /\ pieces[n] = CallPiece(o) /\ new[n] = CallPiece(c)
  /\ o \in Calls /\ c \in Calls
  /\ Subject(c) = Subject(o) /\ Narrows(c, o)
  /\ ~Has(pieces, "NOT")

\* With another call at the end, the symbols of a rule are twins.
LEMMA ReplacedAreTwins ==
  ASSUME NEW pieces \in Seq(Pieces), NEW new \in Seq(Pieces), NEW n, NEW o, NEW c,
         Replaced(pieces, new, n, o, c)
  PROVE  /\ Twins(PieceSymbols(pieces), PieceSymbols(new), n)
         /\ Scored(PieceSymbols(pieces))
         /\ ~Has(pieces, "OR") => \A k \in 1 .. n : PieceSymbols(pieces)[k].type # "OR"
<1> DEFINE s == PieceSymbols(pieces)
           t == PieceSymbols(new)
<1>0. /\ n \in Nat /\ n >= 1 /\ n = Len(pieces) /\ n = Len(new)
      /\ o \in Calls /\ c \in Calls /\ pieces[n] = CallPiece(o) /\ new[n] = CallPiece(c)
      /\ \A k \in 1 .. (n - 1) : new[k] = pieces[k]
  BY DEF Replaced
<1>1. /\ Len(s) = n /\ Len(t) = n
      /\ \A k \in 1 .. n : s[k] = Symbol(pieces[k]) /\ t[k] = Symbol(new[k])
      /\ \A k \in 1 .. n : pieces[k] \in Pieces /\ new[k] \in Pieces
  <2>1. Len(s) = n /\ \A k \in 1 .. n : s[k] = Symbol(pieces[k])
    BY <1>0, PieceSymbolsAre
  <2>2. Len(t) = n /\ \A k \in 1 .. n : t[k] = Symbol(new[k])
    BY <1>0, PieceSymbolsAre
  <2>3. \A k \in 1 .. n : pieces[k] \in Pieces /\ new[k] \in Pieces
    <3>1. \A k \in 1 .. Len(pieces) : pieces[k] \in Pieces
      OBVIOUS
    <3>2. \A k \in 1 .. Len(new) : new[k] \in Pieces
      OBVIOUS
    <3> QED
      BY <3>1, <3>2, <1>0
  <2> QED
    BY <2>1, <2>2, <2>3
<1> HIDE DEF s, t
<1>2. SameUpTo(s, t, n - 1)
  <2>1. \A k \in 1 .. (n - 1) : k \in 1 .. n
    BY <1>0
  <2> QED
    BY <1>0, <1>1, <2>1 DEF SameUpTo
<1>3. n \in 1 .. n /\ DOMAIN pieces = 1 .. n
  <2>1. DOMAIN pieces = 1 .. Len(pieces)
    OBVIOUS
  <2> QED
    BY <2>1, <1>0
<1>4. /\ s[n].type = "LEAF" /\ s[n].node = LeafOf[o]
      /\ t[n].type = "LEAF" /\ t[n].node = LeafOf[c]
  <2>1. /\ pieces[n].type = "CALL" /\ pieces[n].call = o
        /\ new[n].type = "CALL" /\ new[n].call = c
    BY <1>0 DEF CallPiece
  <2> QED
    BY <1>1, <1>3, <2>1, SymbolIs
<1>5. \A k \in 1 .. n : pieces[k].type # "NOT" /\ new[k].type # "NOT"
  <2>1. \A k \in 1 .. n : pieces[k].type # "NOT"
    BY <1>3 DEF Replaced, Has
  <2>2. \A k \in 1 .. n : k = n \/ k \in 1 .. (n - 1)
    BY <1>0
  <2>3. new[n].type = "CALL"
    BY <1>0 DEF CallPiece
  <2> QED
    BY <1>0, <2>1, <2>2, <2>3
<1>6. \A k \in 1 .. n : s[k].type # "NOT" /\ t[k].type # "NOT"
  BY <1>1, <1>5, SymbolIs
<1>7. /\ LeafOf[o].score \in Nat /\ LeafOf[c].score \in Nat
      /\ Narrower(LeafOf[c], LeafOf[o], TRUE)
  <2>1. Narrows(c, o) /\ Subject(c) = Subject(o)
    BY DEF Replaced
  <2>2. /\ LeafOf[o].score \in Nat /\ LeafOf[c].score \in Nat
        /\ LeafOf[c].score > LeafOf[o].score
    BY <1>0, <2>1, NarrowerScoresHigher
  <2>3. LeafOf[c].matches \subseteq LeafOf[o].matches
    BY <1>0, <2>1, NarrowsIs
  <2> QED
    BY <2>2, <2>3 DEF Narrower
<1>8. Twins(s, t, n)
  BY <1>0, <1>1, <1>2, <1>4, <1>6, <1>7 DEF Twins
<1>9. Scored(s)
  BY <1>1, SymbolIs DEF Scored
<1>10. ~Has(pieces, "OR") => \A k \in 1 .. n : s[k].type # "OR"
  <2>1. ~Has(pieces, "OR") => \A k \in 1 .. n : pieces[k].type # "OR"
    BY <1>3 DEF Has
  <2> QED
    BY <1>1, <2>1, SymbolIs
<1> QED
  BY <1>8, <1>9, <1>10 DEF s, t

\* The rule with the narrower call matches no more and has no lower score.
LEMMA ReplacedIsNarrower ==
  ASSUME NEW pieces \in Seq(Pieces), NEW new \in Seq(Pieces), NEW n, NEW o, NEW c,
         Replaced(pieces, new, n, o, c), Balanced(pieces), Balanced(new),
         Tree(pieces) # Invalid, Tree(new) # Invalid
  PROVE  Narrower(Tree(new), Tree(pieces), ~Has(pieces, "OR"))
<1> DEFINE s == PieceSymbols(pieces)
           t == PieceSymbols(new)
<1>1. Tree(pieces) = Reading(s) /\ Tree(new) = Reading(t)
  BY BalancedPieces, TreeIsMeaning, PieceSymbolsAre
<1>2. /\ Twins(s, t, n) /\ Scored(s)
      /\ ~Has(pieces, "OR") => \A k \in 1 .. n : s[k].type # "OR"
  BY ReplacedAreTwins
<1>3. (\E S : s \in Seq(S)) /\ (\E T : t \in Seq(T))
  BY PieceSymbolsAre
<1> HIDE DEF s, t
<1>4. PICK S : s \in Seq(S)
  BY <1>3
<1>5. PICK T : t \in Seq(T)
  BY <1>3
<1>6. PICK p : IsReading(s, p) /\ Reading(s) = p[1][Len(s)]
  BY <1>4, ReadingIs
<1>7. PICK q : IsReading(t, q) /\ Reading(t) = q[1][Len(t)]
  BY <1>5, ReadingIs
<1>8. Len(s) = n /\ Len(t) = n
  BY <1>2 DEF Twins
<1>9. Narrower(q[1][n], p[1][n], \A k \in 1 .. n : s[k].type # "OR")
  BY <1>1, <1>2, <1>4, <1>5, <1>6, <1>7, <1>8, TwinRules
<1> QED
  BY <1>1, <1>2, <1>6, <1>7, <1>8, <1>9 DEF Narrower

\* The step that replaces the call.
LEMMA NarrowerWinsStep ==
  ASSUME TreeFits, [RulesNext]_<<rule, tree>>,
         tree # Invalid, tree' # Invalid, ~Has(rule, "NOT"),
         Balanced(rule), Balanced(rule)', Len(rule') = Len(rule),
         Narrows(Last(rule').call, Last(rule).call)
  PROVE  Narrower(tree', tree, ~Has(rule, "OR"))
<1>0. rule \in Seq(Pieces) /\ tree = Tree(rule) /\ Len(rule) \in Nat
  BY DEF TreeFits
<1>1. CASE WritePiece
  <2>1. PICK piece \in Pieces : rule' = Append(rule, piece)
    BY <1>1 DEF WritePiece, Edit
  <2>2. Len(rule') = Len(rule) + 1
    BY <1>0, <2>1
  <2> QED
    BY <1>0, <2>2
<1>2. CASE AddCondition
  <2>1. PICK type \in {"AND", "OR"}, c \in Calls :
               rule' = rule \o <<Piece(type), CallPiece(c)>>
    BY <1>2 DEF AddCondition, Edit
  <2>2. Len(rule') = Len(rule) + 2
    BY <1>0, <2>1
  <2> QED
    BY <1>0, <2>2
<1>3. CASE UNCHANGED <<rule, tree>>
  BY <1>3 DEF Narrows
<1>4. CASE ReplaceLastCall
  <2> DEFINE n == Len(rule)
             o == Last(rule).call
  <2>1. PICK c \in Calls : /\ Subject(c) = Subject(o)
                          /\ rule # <<>> /\ Last(rule).type = "CALL"
                          /\ Edit(Front(rule) \o <<CallPiece(c)>>)
    BY <1>4 DEF ReplaceLastCall
  <2>2. /\ Front(rule) \in Seq(Pieces) /\ Len(Front(rule)) = n - 1
        /\ \A k \in 1 .. (n - 1) : Front(rule)[k] = rule[k]
        /\ Last(rule) = rule[n] /\ n \in Nat /\ n >= 1
    BY <1>0, <2>1, FrontIs
  <2>3. rule[n] = CallPiece(o) /\ o \in Calls
    <3>1. rule[n] \in Pieces
      BY <1>0, <2>2
    <3> QED
      BY <3>1, <2>1, <2>2, PiecesAre DEF Operators
  <2> DEFINE new == Front(rule) \o <<CallPiece(c)>>
  <2>4. /\ new \in Seq(Pieces) /\ Len(new) = n
        /\ \A k \in 1 .. (n - 1) : new[k] = rule[k]
        /\ new[n] = CallPiece(c)
    <3> DEFINE f == Front(rule)
               x == <<CallPiece(c)>>
    <3>1. x \in Seq(Pieces) /\ Len(x) = 1 /\ x[1] = CallPiece(c)
      BY DEF Pieces
    <3>2. f \in Seq(Pieces) /\ Len(f) = n - 1 /\ \A k \in 1 .. (n - 1) : f[k] = rule[k]
      BY <2>2
    <3> HIDE DEF f, x
    <3>3. /\ f \o x \in Seq(Pieces) /\ Len(f \o x) = (n - 1) + 1
          /\ \A k \in 1 .. (n - 1) : (f \o x)[k] = f[k]
          /\ \A k \in 1 .. 1 : (f \o x)[(n - 1) + k] = x[k]
      <4>0. f \in Seq(Pieces) /\ x \in Seq(Pieces)
        BY <3>1, <3>2
      <4>1. f \o x \in Seq(Pieces) /\ Len(f \o x) = Len(f) + Len(x)
        BY ONLY <4>0, ConcatIs
      <4>2. \A k \in 1 .. Len(f) : (f \o x)[k] = f[k]
        BY ONLY <4>0, ConcatIs
      <4>3. \A k \in 1 .. Len(x) : (f \o x)[Len(f) + k] = x[k]
        BY ONLY <4>0, ConcatIs
      <4> QED
        BY <4>1, <4>2, <4>3, <3>1, <3>2
    <3>4. (n - 1) + 1 = n /\ 1 \in 1 .. 1
      BY <2>2
    <3> QED
      BY <3>1, <3>2, <3>3, <3>4 DEF f, x
  <2> HIDE DEF new
  <2>5. rule' = new /\ tree' = Tree(new)
    BY <2>1, <2>4, EditKeepsTree DEF new
  <2>6. Last(rule').call = c
    <3>1. Last(new) = new[n]
      BY <2>4 DEF Last
    <3> QED
      BY <3>1, <2>4, <2>5 DEF CallPiece
  <2> HIDE DEF n, o
  <2>7. Narrows(c, o)
    BY <2>6 DEF o
  <2>8. Replaced(rule, new, n, o, c)
    BY <2>1, <2>2, <2>3, <2>4, <2>7 DEF Replaced, n
  <2>9. Balanced(new)
    BY <2>5 DEF Balanced
  <2> QED
    BY <1>0, <2>4, <2>5, <2>8, <2>9, ReplacedIsNarrower
<1> QED
  BY <1>1, <1>2, <1>3, <1>4 DEF RulesNext

\* The matcher that is made narrower makes the rule narrower, and never the one with
\* the lower score.
THEOREM NarrowerAlwaysWins == RulesSpec => NarrowerWins
<1> DEFINE Wins ==
      /\ tree # Invalid /\ tree' # Invalid /\ ~Has(rule, "NOT")
      /\ Balanced(rule) /\ Balanced(rule')
      /\ Len(rule') = Len(rule) /\ Narrows(Last(rule').call, Last(rule).call)
      => /\ tree'.matches \subseteq tree.matches
         /\ tree'.score >= tree.score
         /\ ~Has(rule, "OR") => tree'.score > tree.score
<1>1. TreeFits /\ [RulesNext]_<<rule, tree>> => [Wins]_<<rule, tree>>
  <2> SUFFICES ASSUME TreeFits, [RulesNext]_<<rule, tree>>,
                      tree # Invalid, tree' # Invalid, ~Has(rule, "NOT"),
                      Balanced(rule), Balanced(rule'), Len(rule') = Len(rule),
                      Narrows(Last(rule').call, Last(rule).call)
               PROVE  /\ tree'.matches \subseteq tree.matches
                      /\ tree'.score >= tree.score
                      /\ ~Has(rule, "OR") => tree'.score > tree.score
    OBVIOUS
  <2>1. Balanced(rule)'
    BY DEF Balanced
  <2>2. Narrower(tree', tree, ~Has(rule, "OR"))
    BY <2>1, NarrowerWinsStep
  <2> QED
    BY <2>2 DEF Narrower
<1>2. RulesSpec => [][Wins]_<<rule, tree>>
  <2> HIDE DEF Wins
  <2> QED
    BY <1>1, TreeAlwaysFits, PTL DEF RulesSpec
<1> QED
  BY <1>2 DEF NarrowerWins, Wins

-------------------------------------------------------------------------------
(* Calls that are not balanced.                                             *)

\* Whether a position is in backticks depends on what is before it only.
LEMMA InBacktickSame ==
  ASSUME NEW s, NEW t, NEW i \in Int, \A k \in 1 .. (i - 1) : s[k] = t[k]
  PROVE  InBacktick(s, i) <=> InBacktick(t, i)
<1>1. {k \in 1 .. (i - 1) : s[k] = Backtick} = {k \in 1 .. (i - 1) : t[k] = Backtick}
  OBVIOUS
<1> QED
  BY <1>1 DEF InBacktick

\* In the arguments of a call a closing parenthesis is within backticks.
LEMMA ClosingIsQuoted ==
  ASSUME NEW call \in Calls
  PROVE  LET inner == FlattenSeq(ArgTexts(call))
         IN  \A m \in 1 .. Len(inner) : inner[m] = ")" => InBacktick(inner, m)
<1> DEFINE inner == FlattenSeq(ArgTexts(call))
           args == call.args
           n == Len(args)
           Fine(j) == \A m \in 1 .. j : inner[m] = ")" => InBacktick(inner, m)
<1>1. PICK at : ArgsStand(call, inner, at)
  BY ArgsDoStand
<1> HIDE DEF inner
<1>2. /\ inner \in Seq(Chars) /\ at[1] = 0 /\ at[n + 1] = Len(inner)
      /\ n \in Nat
  BY <1>1 DEF ArgsStand
<1>3. ASSUME NEW a \in 1 .. n, Fine(at[a])
      PROVE  Fine(at[a + 1])
  <2> DEFINE p == at[a]
             off == ArgOff(a)
             v == args[a]
             l == Len(v)
             g == ArgText(v, off)
  <2>1. /\ v \in Seq(Chars) /\ off \in {0, 2} /\ p \in Nat /\ l \in Nat
        /\ Occurs(g, inner, p) /\ at[a + 1] = p + (off + l + 2)
        /\ \A m \in 1 .. l : v[m] # Backtick
        /\ ~InBacktick(inner, p + 1)
    <3>1. a \in 1 .. (n + 1)
      BY <1>2
    <3> QED
      BY <3>1, <1>1 DEF ArgsStand
  <2> HIDE DEF p, off, v
  <2>2. \A m \in 0 .. l : InBacktick(inner, p + off + 2 + m)
    BY <2>1, <1>2, ArgTicks
  <2>3. /\ Len(g) = off + l + 2
        /\ off = 2 => g[1] = Comma /\ g[2] = Space
        /\ g[off + 1] = Backtick /\ g[off + l + 2] = Backtick
    BY <2>1, ArgTextIs
  <2>4. \A k \in 1 .. (off + l + 2) : inner[p + k] = g[k]
    BY <2>1, <2>3 DEF Occurs
  <2> HIDE DEF g, l
  <2>5. ASSUME NEW k \in 1 .. (off + l + 2), g[k] = ")"
        PROVE  InBacktick(inner, p + k)
    <3>1. Comma # ")" /\ Space # ")" /\ Backtick # ")"
      BY CharsDiffer
    <3>2. /\ k # off + 1 /\ k # off + l + 2
          /\ off = 2 => k # 1 /\ k # 2
      BY <2>3, <2>5, <3>1
    <3>3. k - (off + 2) \in 0 .. l
      BY <2>1, <3>2
    <3>4. p + off + 2 + (k - (off + 2)) = p + k
      BY <2>1
    <3> QED
      BY <2>2, <3>3, <3>4
  <2>6. ASSUME NEW m \in 1 .. at[a + 1], inner[m] = ")", ~(m <= p)
        PROVE  InBacktick(inner, m)
    <3>1. m - p \in 1 .. (off + l + 2) /\ p + (m - p) = m
      BY <2>1, <2>6
    <3>2. g[m - p] = ")"
      BY <2>4, <2>6, <3>1
    <3> QED
      BY <2>5, <3>1, <3>2
  <2>7. \A m \in 1 .. at[a + 1] : m <= p => m \in 1 .. p
    BY <2>1
  <2> QED
    BY <1>3, <2>6, <2>7 DEF p
<1> DEFINE S == {a \in 0 .. n : Fine(at[a + 1])}
<1>4. 0 \in S
  <2>1. at[0 + 1] = 0 /\ 1 .. 0 = {}
    BY <1>2
  <2> QED
    BY <2>1, <1>2
<1>5. ASSUME NEW b \in 0 .. (n - 1), b \in S
      PROVE  b + 1 \in S
  <2>1. b + 1 \in 1 .. n /\ b + 1 \in 0 .. n
    BY <1>2
  <2> HIDE DEF Fine
  <2>2. Fine(at[b + 1])
    BY <1>5
  <2>3. Fine(at[(b + 1) + 1])
    BY <2>1, <2>2, <1>3
  <2> QED
    BY <2>1, <2>3
<1>6. 0 .. n \subseteq S
  <2> HIDE DEF S
  <2> QED
    BY <1>2, <1>4, <1>5, InductionUpTo
<1>7. Fine(Len(inner))
  <2>1. n \in 0 .. n
    BY <1>2
  <2> HIDE DEF Fine
  <2> QED
    BY <2>1, <1>2, <1>6
<1> QED
  BY <1>7 DEF inner

\* The text of a call up to a closing parenthesis that is not its last is no call.
LEMMA CutCallIsNoCall ==
  ASSUME NEW call \in Calls, NEW e \in 3 .. (Len(PieceText(CallPiece(call))) - 1),
         PieceText(CallPiece(call))[e] = ")"
  PROVE  buildLeaf(SubSeq(PieceText(CallPiece(call)), 1, e)) = Invalid
<1> DEFINE w == PieceText(CallPiece(call))
           inner == FlattenSeq(ArgTexts(call))
           L == Len(inner)
           text == SubSeq(w, 1, e)
           open == Min({k \in 1 .. Len(text) : text[k] = "("})
           cut == SubSeq(text, 3, e - 1)
<1>1. /\ inner \in Seq(Chars) /\ w \in Seq(Chars) /\ Len(w) = L + 3
      /\ \A m \in 1 .. L : w[m + 2] = inner[m]
      /\ L \in Nat /\ e \in 3 .. (L + 2) /\ w[e] = ")"
  <2>1. /\ inner \in Seq(Chars) /\ w \in Seq(Chars) /\ Len(w) = L + 3
        /\ \A m \in 1 .. L : w[m + 2] = inner[m]
    BY CallTextIs
  <2> HIDE DEF inner, w
  <2>2. L \in Nat
    BY <2>1
  <2>3. e \in 3 .. (Len(w) - 1) /\ w[e] = ")"
    BY DEF w
  <2>4. (L + 3) - 1 = L + 2
    BY <2>2
  <2> QED
    BY <2>1, <2>2, <2>3, <2>4
<1>2. \A m \in 1 .. L : inner[m] = ")" => InBacktick(inner, m)
  BY ClosingIsQuoted
<1> HIDE DEF inner, w, L
<1>3. text \in Seq(Chars) /\ Len(text) = e /\ \A k \in 1 .. e : text[k] = w[k]
  <2>1. 1 \in 1 .. (Len(w) + 1) /\ e \in (1 - 1) .. Len(w)
        /\ e - 1 + 1 = e /\ \A k \in 1 .. e : 1 + k - 1 = k
    BY <1>1
  <2> QED
    BY <1>1, <2>1, SubSeqIs
<1> HIDE DEF text
<1>4. CASE open # 2
  <2>1. buildLeaf(text) = Invalid
    BY <1>4, NotBuilt
  <2> QED
    BY <2>1 DEF text, w
<1>5. CASE open = 2
  <2>1. /\ Len(cut) = e - 3 /\ \A k \in 1 .. (e - 3) : cut[k] = text[k + 2]
    <3>1. 3 \in 1 .. (Len(text) + 1) /\ e - 1 \in (3 - 1) .. Len(text)
          /\ (e - 1) - 3 + 1 = e - 3 /\ \A k \in 1 .. (e - 3) : 3 + k - 1 = k + 2
      BY <1>1, <1>3
    <3> QED
      BY <1>3, <3>1, SubSeqIs
  <2> HIDE DEF cut
  <2>2. \A k \in 1 .. (e - 3) : cut[k] = inner[k]
    <3>1. \A k \in 1 .. (e - 3) : k \in 1 .. L /\ k + 2 \in 1 .. e
      BY <1>1
    <3> QED
      BY <3>1, <2>1, <1>1, <1>3
  <2>3. InBacktick(inner, e - 2)
    <3>1. e - 2 \in 1 .. L /\ (e - 2) + 2 = e
      BY <1>1
    <3> QED
      BY <3>1, <1>1, <1>2
  <2>4. InBacktick(cut, Len(cut) + 1)
    <3>1. Len(cut) + 1 = e - 2 /\ (e - 2) - 1 = e - 3 /\ e - 2 \in Int
      BY <2>1, <1>1
    <3> QED
      BY <3>1, <2>2, <2>3, InBacktickSame
  <2>5. cut = SubSeq(text, open + 1, Len(text) - 1)
    <3>1. open + 1 = 3 /\ Len(text) - 1 = e - 1
      BY <1>3, <1>5
    <3> QED
      BY <3>1 DEF cut
  <2>6. buildLeaf(text) = Invalid
    <3> HIDE DEF open
    <3>1. open = Min({k \in 1 .. Len(text) : text[k] = "("})
      BY DEF open
    <3> QED
      BY <2>4, <2>5, <3>1, BuildLeafIs
  <2> QED
    BY <2>6 DEF text, w
<1> QED
  BY <1>4, <1>5

-------------------------------------------------------------------------------
(* The lexer on the beginning of a text.                                    *)

\* A call that ends within a text ends at the same place whatever follows the text.
LEMMA LexFuncWithin ==
  ASSUME NEW T, NEW t \in Seq(T), NEW u \in Seq(T), Occurs(t, u, 0),
         NEW i \in 1 .. Len(t), lexFunc(t, i) # 0
  PROVE  lexFunc(u, i) = lexFunc(t, i) /\ lexFunc(t, i) \in i .. Len(t)
<1> DEFINE N == Len(t)
           o == Min(NameEnds(t, i))
           e == Min(CallEnds(t, o))
<1>0. /\ N \in Nat /\ Len(u) \in Nat /\ N <= Len(u) /\ i \in 1 .. (N + 1)
      /\ i \in 1 .. (Len(u) + 1)
      /\ \A k \in 1 .. N : u[k] = t[k]
  <2>1. N \in Nat /\ Len(u) \in Nat /\ N <= Len(u)
    BY DEF Occurs
  <2>2. \A k \in 1 .. N : 0 + k = k
    OBVIOUS
  <2>3. \A k \in 1 .. N : u[k] = t[k]
    BY <2>2 DEF Occurs
  <2> QED
    BY <2>1, <2>3
<1>1. /\ o \in NameEnds(t, i) /\ o \in i .. (N + 1)
      /\ \A k \in NameEnds(t, i) : o <= k
  BY <1>0, NameEndIs
<1>2. o <= N /\ t[o] = "(" /\ CallEnds(t, o) # {} /\ lexFunc(t, i) = e
  <2>1. lexFunc(t, i) = IF o > N \/ t[o] # "(" \/ CallEnds(t, o) = {} THEN 0 ELSE e
    BY LexFuncIs
  <2>2. ~(o > N) /\ t[o] = "(" /\ CallEnds(t, o) # {} /\ lexFunc(t, i) = e
    BY <2>1
  <2>3. o \in Int /\ N \in Int
    BY <1>0, <1>1
  <2> QED
    BY <2>2, <2>3
<1> HIDE DEF o
<1>3. o \in 1 .. N /\ o \in 1 .. Len(u)
  BY <1>0, <1>1, <1>2
<1>4. /\ e \in CallEnds(t, o) /\ e \in o .. N
      /\ \A k \in CallEnds(t, o) : e <= k
  BY <1>2, <1>3, CallEndsIs
<1>5. Min(NameEnds(u, i)) = o
  <2>1. NameEnds(u, i) \in SUBSET Int
    BY <1>0 DEF NameEnds
  <2>2. o \in NameEnds(u, i)
    <3>1. ~isIdentChar(t[o]) /\ o \in i .. (Len(u) + 1)
      BY <1>0, <1>1, <1>2, <1>3 DEF NameEnds
    <3> QED
      BY <3>1, <1>0, <1>3 DEF NameEnds
  <2>3. ASSUME NEW k \in NameEnds(u, i), k < o
        PROVE  FALSE
    <3>1. k \in i .. N /\ k # Len(u) + 1 /\ k \in 1 .. N
      BY <2>3, <1>0, <1>3 DEF NameEnds
    <3>2. ~isIdentChar(t[k])
      BY <2>3, <3>1, <1>0 DEF NameEnds
    <3>3. k \in NameEnds(t, i)
      BY <3>1, <3>2, <1>0 DEF NameEnds
    <3>4. o <= k
      BY <3>3, <1>1
    <3> QED
      BY <3>1, <3>4, <2>3, <1>3
  <2>4. \A k \in NameEnds(u, i) : o <= k
    BY <2>1, <2>3, <1>3
  <2> QED
    BY <2>1, <2>2, <2>4, MinIs
<1> HIDE DEF e
<1>6. \A k \in o .. N : k \in CallEnds(u, o) <=> k \in CallEnds(t, o)
  <2> SUFFICES ASSUME NEW k \in o .. N
               PROVE  k \in CallEnds(u, o) <=> k \in CallEnds(t, o)
    OBVIOUS
  <2>1. Depth(u, 0 + o, 0 + k) = Depth(t, o, k)
    BY <1>3, DepthWithin
  <2>2. 0 + o = o /\ 0 + k = k /\ k \in 1 .. N /\ k \in o .. Len(u)
    BY <1>0, <1>3
  <2>3. Depth(u, o, k) = Depth(t, o, k) /\ u[k] = t[k]
    BY <2>1, <2>2, <1>0
  <2> QED
    BY <2>2, <2>3 DEF CallEnds
<1>7. Min(CallEnds(u, o)) = e /\ CallEnds(u, o) # {}
  <2>1. CallEnds(u, o) \subseteq o .. Len(u)
    BY <1>3, CallEndsIs
  <2>2. e \in CallEnds(u, o)
    BY <1>4, <1>6
  <2>3. CallEnds(u, o) \in SUBSET Int
    BY <2>1
  <2>4. ASSUME NEW k \in CallEnds(u, o), k < e
        PROVE  FALSE
    <3>1. k \in o .. N
      BY <2>1, <2>4, <1>0, <1>3, <1>4
    <3>2. e <= k
      BY <3>1, <2>4, <1>4, <1>6
    <3> QED
      BY <3>1, <3>2, <2>4, <1>4
  <2>5. e \in Int
    BY <1>4
  <2>6. \A k \in CallEnds(u, o) : e <= k
    BY <2>3, <2>4, <2>5
  <2> QED
    BY <2>2, <2>3, <2>6, MinIs
<1>8. lexFunc(u, i) = e
  <2>1. lexFunc(u, i) = IF o > Len(u) \/ u[o] # "(" \/ CallEnds(u, o) = {}
                        THEN 0 ELSE Min(CallEnds(u, o))
    BY <1>5, LexFuncIs
  <2>2. ~(o > Len(u)) /\ u[o] = "("
    BY <1>0, <1>2, <1>3
  <2> QED
    BY <2>1, <2>2, <1>7
<1>9. e \in i .. N
  BY <1>0, <1>1, <1>3, <1>4
<1> QED
  BY <1>2, <1>8, <1>9

\* What the lexer does at the start of a name, and at no character that it knows.
LEMMA NameLexed ==
  ASSUME NEW text, NEW rest, NEW i
  PROVE  /\ isIdentStart(text[i]) =>
              LexAt(text, rest, i) =
                IF lexFunc(text, i) = 0 THEN <<Token("ERROR")>>
                ELSE <<[type |-> "FUNC", value |-> SubSeq(text, i, lexFunc(text, i))]>>
                       \o rest[lexFunc(text, i) + 1]
         /\ /\ text[i] \notin {Space, "!", "(", ")"} /\ ~isIdentStart(text[i])
            /\ ~(i < Len(text) /\ text[i] = "&" /\ text[i + 1] = "&")
            /\ ~(i < Len(text) /\ text[i] = "|" /\ text[i + 1] = "|")
            => LexAt(text, rest, i) = <<Token("ERROR")>>
<1>1. ASSUME isIdentStart(text[i])
      PROVE  text[i] \notin {Space, "!", "(", ")", "&", "|"}
  BY <1>1, NameChars DEF Special
<1> QED
  BY <1>1 DEF LexAt

-------------------------------------------------------------------------------
(* What follows a text does not change its tokens.                          *)

\* Two more sequences at the end of a concatenation.
LEMMA FlattenLonger ==
  ASSUME NEW T, NEW seqs \in Seq(Seq(T)), NEW n, n = Len(seqs), n # 0,
         NEW longer \in Seq(Seq(T)), Len(longer) = n + 2,
         \A k \in 1 .. n : longer[k] = seqs[k]
  PROVE  FlattenSeq(longer) = (FlattenSeq(seqs) \o longer[n + 1]) \o longer[n + 2]
<1>0. n \in Nat /\ n >= 1 /\ Len(longer) # 0
  <2>1. n \in Nat
    OBVIOUS
  <2> QED
    BY <2>1
<1>1. PICK c : /\ FlattenSeq(seqs) = c[n]
               /\ \A k \in 1 .. n : c[k] = IF k = 1 THEN seqs[k] ELSE c[k - 1] \o seqs[k]
  <2>1. \E c : /\ FlattenSeq(seqs) = c[Len(seqs)]
               /\ \A k \in 1 .. Len(seqs) :
                    c[k] = IF k = 1 THEN seqs[k] ELSE c[k - 1] \o seqs[k]
    BY FlattenRuns
  <2> QED
    BY <2>1
<1>2. PICK d : /\ FlattenSeq(longer) = d[n + 2]
               /\ \A k \in 1 .. (n + 2) :
                    d[k] = IF k = 1 THEN longer[k] ELSE d[k - 1] \o longer[k]
  <2>1. \E d : /\ FlattenSeq(longer) = d[Len(longer)]
               /\ \A k \in 1 .. Len(longer) :
                    d[k] = IF k = 1 THEN longer[k] ELSE d[k - 1] \o longer[k]
    BY <1>0, FlattenRuns
  <2> QED
    BY <2>1
<1> DEFINE S == {k \in 0 .. n : k = 0 \/ d[k] = c[k]}
<1>3. 0 \in S
  BY <1>0
<1>4. ASSUME NEW k \in 0 .. (n - 1), k \in S
      PROVE  k + 1 \in S
  <2>0. n \in Nat /\ k \in 0 .. (n - 1)
    BY <1>0
  <2>1. k + 1 \in 1 .. n /\ k + 1 \in 1 .. (n + 2) /\ (k + 1) - 1 = k
        /\ k + 1 \in 0 .. n /\ (k + 1 = 1 <=> k = 0)
    BY ONLY <2>0
  <2>2. k # 0 => d[k] = c[k]
    BY <1>4
  <2>3. /\ c[k + 1] = IF k + 1 = 1 THEN seqs[k + 1] ELSE c[(k + 1) - 1] \o seqs[k + 1]
        /\ d[k + 1] = IF k + 1 = 1 THEN longer[k + 1] ELSE d[(k + 1) - 1] \o longer[k + 1]
        /\ longer[k + 1] = seqs[k + 1]
    BY <2>1, <1>1, <1>2
  <2>4. d[k + 1] = c[k + 1]
    BY <2>1, <2>2, <2>3
  <2> QED
    BY <2>1, <2>4
<1>5. 0 .. n \subseteq S
  <2> HIDE DEF S
  <2> QED
    BY <1>0, <1>3, <1>4, InductionUpTo
<1>6. d[n] = c[n]
  <2>1. n \in 0 .. n /\ n # 0
    BY <1>0
  <2> QED
    BY <2>1, <1>5
<1>7. d[n + 1] = d[n] \o longer[n + 1] /\ d[n + 2] = d[n + 1] \o longer[n + 2]
  <2>1. /\ n + 1 \in 1 .. (n + 2) /\ n + 2 \in 1 .. (n + 2) /\ n + 1 # 1 /\ n + 2 # 1
        /\ (n + 1) - 1 = n /\ (n + 2) - 1 = n + 1
    BY <1>0
  <2>2. \A k \in 1 .. (n + 2) : k # 1 => d[k] = d[k - 1] \o longer[k]
    BY <1>2
  <2>3. d[n + 1] = d[(n + 1) - 1] \o longer[n + 1]
    BY <2>1, <2>2
  <2>4. d[n + 2] = d[(n + 2) - 1] \o longer[n + 2]
    BY <2>1, <2>2
  <2> QED
    BY <2>1, <2>3, <2>4
<1> QED
  BY <1>1, <1>2, <1>6, <1>7

\* The lexer has read without an error.
NoError(tokens) == \A k \in 1 .. Len(tokens) : tokens[k].type # "ERROR"

\* One more token in front.
LEMMA OneMoreToken ==
  ASSUME NEW T, NEW s \in Seq(T), NEW z \in Seq(T), NEW x
  PROVE  /\ (<<x>> \o s) \o z = <<x>> \o (s \o z)
         /\ NoError(<<x>> \o s) => x.type # "ERROR" /\ NoError(s)
<1> DEFINE S == T \cup {x}
<1>1. <<x>> \in Seq(S) /\ s \in Seq(S) /\ z \in Seq(S)
  OBVIOUS
<1>2. (<<x>> \o s) \o z = <<x>> \o (s \o z)
  BY <1>1, ConcatAssociative
<1>3. IsSequence(s) /\ Len(s) \in Nat
  BY DEF IsSequence
<1>4. /\ Len(<<x>> \o s) = Len(s) + 1 /\ (<<x>> \o s)[1] = x
      /\ \A m \in 2 .. (Len(s) + 1) : (<<x>> \o s)[m] = s[m - 1]
  BY <1>3, SequenceFacts
<1>5. ASSUME NoError(<<x>> \o s)
      PROVE  x.type # "ERROR" /\ NoError(s)
  <2> DEFINE y == <<x>> \o s
  <2>1. \A k \in 1 .. (Len(s) + 1) : y[k].type # "ERROR"
    BY <1>4, <1>5 DEF NoError
  <2>2. y[1] = x /\ \A m \in 2 .. (Len(s) + 1) : y[m] = s[m - 1]
    BY <1>4
  <2> HIDE DEF y
  <2>3. 1 \in 1 .. (Len(s) + 1)
    BY <1>3
  <2>4. \A k \in 1 .. Len(s) : k + 1 \in 2 .. (Len(s) + 1) /\ (k + 1) - 1 = k
                               /\ k + 1 \in 1 .. (Len(s) + 1)
    BY <1>3
  <2>5. ASSUME NEW k \in 1 .. Len(s)
        PROVE  s[k].type # "ERROR"
    <3>1. y[k + 1].type # "ERROR"
      BY <2>1, <2>4
    <3>2. y[k + 1] = s[k]
      BY <2>2, <2>4
    <3> QED
      BY <3>1, <3>2
  <2> QED
    BY <2>1, <2>2, <2>3, <2>5 DEF NoError
<1> QED
  BY <1>2, <1>5

\* Two texts and what the lexer makes of them; the second begins like the first, and
\* then has a space.
Begins(T, t, tlex, u, ulex) ==
  /\ t \in Seq(T) /\ u \in Seq(T) /\ Occurs(t, u, 0)
  /\ Len(t) < Len(u) /\ u[Len(t) + 1] = Space
  /\ IsLex(t, tlex) /\ \A i \in 1 .. (Len(t) + 1) : tlex[i] \in Seq(TokenSet(T))
  /\ IsLex(u, ulex) /\ \A i \in 1 .. (Len(u) + 1) : ulex[i] \in Seq(TokenSet(T))

\* The tokens of a text that is lexed without an error are not changed by what follows.
LexedAlike(t, tlex, ulex, i) ==
  NoError(tlex[i]) => ulex[i] = tlex[i] \o ulex[Len(t) + 1]

\* Lex makes one token of &&.
LEMMA AndLexed ==
  ASSUME NEW text, NEW rest, NEW i, i < Len(text), text[i] = "&", text[i + 1] = "&"
  PROVE  LexAt(text, rest, i) = <<Token("AND")>> \o rest[i + 2]
<1>1. "&" # Space
  BY CharsDiffer, Zenon
<1>2. ~isIdentStart("&")
  BY NameChars DEF Special
<1> QED
  BY <1>1, <1>2, Zenon DEF LexAt

\* Lex makes one token of ||.
LEMMA OrLexed ==
  ASSUME NEW text, NEW rest, NEW i, i < Len(text), text[i] = "|", text[i + 1] = "|"
  PROVE  LexAt(text, rest, i) = <<Token("OR")>> \o rest[i + 2]
<1>1. "|" # Space
  BY CharsDiffer, Zenon
<1>2. ~isIdentStart("|")
  BY NameChars DEF Special
<1> QED
  BY <1>1, <1>2, Zenon DEF LexAt

\* One round of Lex, from the last one backwards.
LEMMA LexWithinStep ==
  ASSUME NEW T, NEW t, NEW tlex, NEW u, NEW ulex, Begins(T, t, tlex, u, ulex),
         NEW i \in 1 .. Len(t),
         \A k \in (i + 1) .. (Len(t) + 1) : LexedAlike(t, tlex, ulex, k)
  PROVE  LexedAlike(t, tlex, ulex, i)
<1> DEFINE N == Len(t)
           z == ulex[N + 1]
<1>0. /\ t \in Seq(T) /\ u \in Seq(T) /\ N \in Nat /\ Len(u) \in Nat /\ N < Len(u)
      /\ i \in 1 .. N /\ i \in 1 .. Len(u) /\ \A k \in 1 .. N : u[k] = t[k]
      /\ Occurs(t, u, 0)
  <2>1. t \in Seq(T) /\ u \in Seq(T) /\ Len(t) < Len(u) /\ Occurs(t, u, 0)
    BY DEF Begins
  <2>2. \A k \in 1 .. N : 0 + k = k
    OBVIOUS
  <2>3. \A k \in 1 .. N : u[k] = t[k]
    BY <2>1, <2>2 DEF Occurs
  <2>4. N \in Nat /\ Len(u) \in Nat
    BY <2>1
  <2>5. i \in 1 .. Len(u)
    BY <2>1, <2>4
  <2> QED
    BY <2>1, <2>3, <2>4, <2>5
<1>1. /\ \A k \in 1 .. N : tlex[k] = LexAt(t, tlex, k)
      /\ \A k \in 1 .. Len(u) : ulex[k] = LexAt(u, ulex, k)
      /\ \A k \in 1 .. (N + 1) : tlex[k] \in Seq(TokenSet(T))
      /\ z \in Seq(TokenSet(T))
  <2>1. N + 1 \in 1 .. (Len(u) + 1)
    BY <1>0
  <2> QED
    BY <2>1 DEF Begins, IsLex
<1>2. tlex[i] = LexAt(t, tlex, i) /\ ulex[i] = LexAt(u, ulex, i) /\ u[i] = t[i]
  BY <1>0, <1>1
<1>3. ASSUME NoError(tlex[i]), NEW k \in (i + 1) .. (N + 1), NEW x,
             tlex[i] = <<x>> \o tlex[k], ulex[i] = <<x>> \o ulex[k]
      PROVE  ulex[i] = tlex[i] \o z
  <2>1. k \in 1 .. (N + 1)
    BY <1>0, <1>3
  <2>2. tlex[k] \in Seq(TokenSet(T))
    BY <2>1, <1>1
  <2>3. NoError(tlex[k]) /\ (<<x>> \o tlex[k]) \o z = <<x>> \o (tlex[k] \o z)
    <3> DEFINE s == tlex[k]
    <3>1. s \in Seq(TokenSet(T)) /\ z \in Seq(TokenSet(T)) /\ NoError(<<x>> \o s)
      BY <2>2, <1>1, <1>3
    <3> HIDE DEF s, z
    <3>2. NoError(s) /\ (<<x>> \o s) \o z = <<x>> \o (s \o z)
      BY ONLY <3>1, OneMoreToken
    <3> QED
      BY <3>2 DEF s
  <2>4. ulex[k] = tlex[k] \o z
    BY <2>3, <1>3 DEF LexedAlike
  <2> QED
    BY <2>3, <2>4, <1>3
<1> SUFFICES ASSUME NoError(tlex[i])
             PROVE  ulex[i] = tlex[i] \o z
  BY DEF LexedAlike
<1>4. i + 1 \in (i + 1) .. (N + 1) /\ (i < N => i + 2 \in (i + 1) .. (N + 1))
      /\ (i < N => i < Len(u))
  BY <1>0
<1> HIDE DEF N, z
<1>5. CASE t[i] = Space
  <2>1. tlex[i] = tlex[i + 1] /\ ulex[i] = ulex[i + 1]
    BY <1>2, <1>5, SpaceIsSkipped
  <2>2. ulex[i + 1] = tlex[i + 1] \o z
    BY <2>1, <1>4 DEF LexedAlike, N, z
  <2> QED
    BY <2>1, <2>2
<1>6. CASE t[i] = "!"
  <2>1. tlex[i] = <<Token("NOT")>> \o tlex[i + 1]
    <3>1. LexAt(t, tlex, i) = <<Token("NOT")>> \o tlex[i + 1]
      BY <1>6, OperatorLexed
    <3> QED
      BY <3>1, <1>2
  <2>2. ulex[i] = <<Token("NOT")>> \o ulex[i + 1]
    <3>1. LexAt(u, ulex, i) = <<Token("NOT")>> \o ulex[i + 1]
      BY <1>2, <1>6, OperatorLexed
    <3> QED
      BY <3>1, <1>2
  <2> QED
    BY <2>1, <2>2, <1>3, <1>4
<1>7. CASE t[i] = "("
  <2>1. tlex[i] = <<Token("LPAREN")>> \o tlex[i + 1]
    <3>1. LexAt(t, tlex, i) = <<Token("LPAREN")>> \o tlex[i + 1]
      BY <1>7, OperatorLexed
    <3> QED
      BY <3>1, <1>2
  <2>2. ulex[i] = <<Token("LPAREN")>> \o ulex[i + 1]
    <3>1. LexAt(u, ulex, i) = <<Token("LPAREN")>> \o ulex[i + 1]
      BY <1>2, <1>7, OperatorLexed
    <3> QED
      BY <3>1, <1>2
  <2> QED
    BY <2>1, <2>2, <1>3, <1>4
<1>8. CASE t[i] = ")"
  <2>1. tlex[i] = <<Token("RPAREN")>> \o tlex[i + 1]
    <3>1. LexAt(t, tlex, i) = <<Token("RPAREN")>> \o tlex[i + 1]
      BY <1>8, OperatorLexed
    <3> QED
      BY <3>1, <1>2
  <2>2. ulex[i] = <<Token("RPAREN")>> \o ulex[i + 1]
    <3>1. LexAt(u, ulex, i) = <<Token("RPAREN")>> \o ulex[i + 1]
      BY <1>2, <1>8, OperatorLexed
    <3> QED
      BY <3>1, <1>2
  <2> QED
    BY <2>1, <2>2, <1>3, <1>4
<1>9. ASSUME i < N
      PROVE  i < Len(t) /\ i < Len(u) /\ u[i + 1] = t[i + 1]
  <2>1. i + 1 \in 1 .. N
    BY <1>0, <1>9
  <2> QED
    BY <2>1, <1>0, <1>4, <1>9 DEF N
<1>10. CASE i < N /\ t[i] = "&" /\ t[i + 1] = "&"
  <2>1. tlex[i] = <<Token("AND")>> \o tlex[i + 2]
    <3>1. LexAt(t, tlex, i) = <<Token("AND")>> \o tlex[i + 2]
      <4>1. i < Len(t) /\ t[i] = "&" /\ t[i + 1] = "&"
        BY <1>9, <1>10
      <4> QED
        BY ONLY <4>1, AndLexed
    <3> QED
      BY <3>1, <1>2
  <2>2. ulex[i] = <<Token("AND")>> \o ulex[i + 2]
    <3>1. LexAt(u, ulex, i) = <<Token("AND")>> \o ulex[i + 2]
      <4>1. i < Len(u) /\ u[i] = "&" /\ u[i + 1] = "&"
        BY <1>2, <1>9, <1>10
      <4> QED
        BY ONLY <4>1, AndLexed
    <3> QED
      BY <3>1, <1>2
  <2>3. i + 2 \in (i + 1) .. (N + 1)
    BY <1>4, <1>10
  <2> QED
    BY <2>1, <2>2, <2>3, <1>3
<1>11. CASE i < N /\ t[i] = "|" /\ t[i + 1] = "|"
  <2>1. tlex[i] = <<Token("OR")>> \o tlex[i + 2]
    <3>1. LexAt(t, tlex, i) = <<Token("OR")>> \o tlex[i + 2]
      <4>1. i < Len(t) /\ t[i] = "|" /\ t[i + 1] = "|"
        BY <1>9, <1>11
      <4> QED
        BY ONLY <4>1, OrLexed
    <3> QED
      BY <3>1, <1>2
  <2>2. ulex[i] = <<Token("OR")>> \o ulex[i + 2]
    <3>1. LexAt(u, ulex, i) = <<Token("OR")>> \o ulex[i + 2]
      <4>1. i < Len(u) /\ u[i] = "|" /\ u[i + 1] = "|"
        BY <1>2, <1>9, <1>11
      <4> QED
        BY ONLY <4>1, OrLexed
    <3> QED
      BY <3>1, <1>2
  <2>3. i + 2 \in (i + 1) .. (N + 1)
    BY <1>4, <1>11
  <2> QED
    BY <2>1, <2>2, <2>3, <1>3
<1>12. CASE isIdentStart(t[i])
  <2> DEFINE e == lexFunc(t, i)
  <2>1. e # 0
    <3>1. e = 0 => tlex[i] = <<Token("ERROR")>>
      BY <1>2, <1>12, NameLexed
    <3>2. ~NoError(<<Token("ERROR")>>)
      <4>1. Len(<<Token("ERROR")>>) = 1 /\ <<Token("ERROR")>>[1].type = "ERROR"
        BY DEF Token
      <4> HIDE DEF Token
      <4> QED
        BY <4>1 DEF NoError
    <3> QED
      BY <3>1, <3>2
  <2>2. lexFunc(u, i) = e /\ e \in i .. N
    BY <2>1, <1>0, LexFuncWithin DEF N
  <2> DEFINE x == [type |-> "FUNC", value |-> SubSeq(t, i, e)]
  <2>3. SubSeq(u, i, e) = SubSeq(t, i, e)
    <3>1. /\ i \in 1 .. (Len(t) + 1) /\ e \in (i - 1) .. Len(t)
          /\ i \in 1 .. (Len(u) + 1) /\ e \in (i - 1) .. Len(u)
          /\ e - i + 1 \in Nat
          /\ \A k \in 1 .. (e - i + 1) : i + k - 1 \in 1 .. N
      BY <2>2, <1>0 DEF N
    <3> DEFINE a == SubSeq(u, i, e)
               b == SubSeq(t, i, e)
    <3>2. /\ a \in Seq(T) /\ Len(a) = e - i + 1
          /\ \A k \in 1 .. (e - i + 1) : a[k] = u[i + k - 1]
      BY <3>1, <1>0, SubSeqIs
    <3>3. /\ b \in Seq(T) /\ Len(b) = e - i + 1
          /\ \A k \in 1 .. (e - i + 1) : b[k] = t[i + k - 1]
      BY <3>1, <1>0, SubSeqIs
    <3> HIDE DEF a, b, e
    <3>4. \A k \in 1 .. (e - i + 1) : a[k] = b[k]
      BY <3>1, <3>2, <3>3, <1>0
    <3>5. a = b
      <4>1. a \in Seq(T) /\ b \in Seq(T) /\ Len(a) = Len(b)
            /\ \A k \in 1 .. Len(a) : a[k] = b[k]
        BY <3>2, <3>3, <3>4
      <4> QED
        BY ONLY <4>1
    <3> QED
      BY <3>5 DEF a, b
  <2> HIDE DEF e
  <2>4. /\ tlex[i] = <<x>> \o tlex[e + 1]
        /\ ulex[i] = <<x>> \o ulex[e + 1]
    <3>1. /\ LexAt(t, tlex, i) = <<[type |-> "FUNC", value |-> SubSeq(t, i, e)]>> \o tlex[e + 1]
          /\ LexAt(u, ulex, i) = <<[type |-> "FUNC", value |-> SubSeq(u, i, e)]>> \o ulex[e + 1]
      BY <2>1, <2>2, <1>2, <1>12, NameLexed DEF e
    <3> QED
      BY <3>1, <2>3, <1>2
  <2>5. e + 1 \in (i + 1) .. (N + 1)
    BY <2>2, <1>0 DEF N
  <2> HIDE DEF x
  <2> QED
    BY <2>4, <2>5, <1>3
<1>13. CASE /\ t[i] \notin {Space, "!", "(", ")"} /\ ~isIdentStart(t[i])
           /\ ~(i < N /\ t[i] = "&" /\ t[i + 1] = "&")
           /\ ~(i < N /\ t[i] = "|" /\ t[i + 1] = "|")
  <2>1. tlex[i] = <<Token("ERROR")>>
    BY <1>2, <1>13, NameLexed DEF N
  <2>2. Len(<<Token("ERROR")>>) = 1 /\ <<Token("ERROR")>>[1].type = "ERROR"
    BY DEF Token
  <2>3. ~NoError(<<Token("ERROR")>>)
    <3> HIDE DEF Token
    <3> QED
      BY <2>2 DEF NoError
  <2> QED
    BY <2>1, <2>3
<1> QED
  BY <1>5, <1>6, <1>7, <1>8, <1>10, <1>11, <1>12, <1>13

\* What is lexed without an error is lexed the same whatever comes after a space.
THEOREM LexWithin ==
  ASSUME NEW T, NEW t, NEW tlex, NEW u, NEW ulex, Begins(T, t, tlex, u, ulex)
  PROVE  \A i \in 1 .. (Len(t) + 1) : LexedAlike(t, tlex, ulex, i)
<1> DEFINE N == Len(t)
           Good(i) == \A k \in i .. (N + 1) : LexedAlike(t, tlex, ulex, k)
           S == {i \in 1 .. (N + 1) : Good(i)}
<1>0. N \in Nat /\ t \in Seq(T)
  BY DEF Begins
<1>1. LexedAlike(t, tlex, ulex, N + 1)
  <2>1. tlex[N + 1] = <<>> /\ ulex[N + 1] \in Seq(TokenSet(T))
    <3>1. Len(t) < Len(u) /\ u \in Seq(T)
      BY DEF Begins
    <3>2. N + 1 \in 1 .. (Len(u) + 1)
      BY <3>1, <1>0
    <3> QED
      BY <3>2 DEF Begins, IsLex
  <2> QED
    BY <2>1 DEF LexedAlike
<1>2. N + 1 \in S
  <2>1. \A k \in (N + 1) .. (N + 1) : k = N + 1
    BY <1>0
  <2> QED
    BY <2>1, <1>0, <1>1
<1>3. ASSUME NEW i \in 1 .. N, i + 1 \in S
      PROVE  i \in S
  <2>1. \A k \in (i + 1) .. (N + 1) : LexedAlike(t, tlex, ulex, k)
    BY <1>3
  <2>2. LexedAlike(t, tlex, ulex, i)
    BY <2>1, LexWithinStep
  <2>3. \A k \in i .. (N + 1) : k = i \/ k \in (i + 1) .. (N + 1)
    BY <1>0
  <2>4. i \in 1 .. (N + 1)
    BY <1>0
  <2> QED
    BY <2>1, <2>2, <2>3, <2>4
<1>4. 1 .. (N + 1) \subseteq S
  <2> HIDE DEF S
  <2> QED
    BY <1>0, <1>2, <1>3, InductionDown
<1>5. \A i \in 1 .. (N + 1) : Good(i)
  BY <1>4
<1> QED
  BY <1>0, <1>5

-------------------------------------------------------------------------------
(* What the tokens of a rule mean.                                          *)

\* Whatever text the lexer hands over, the node that is made of it has a score.
LEMMA BuiltScore ==
  ASSUME NEW T, NEW text \in Seq(T), buildLeaf(text) # Invalid
  PROVE  buildLeaf(text).score \in Nat
<1> DEFINE open == Min({i \in 1 .. Len(text) : text[i] = "("})
           inner == SubSeq(text, open + 1, Len(text) - 1)
           args == SplitArgs(inner)
           values == [k \in DOMAIN args |-> SubSeq(args[k], 2, Len(args[k]) - 1)]
<1>0. buildLeaf(text) =
        IF \/ InBacktick(inner, Len(inner) + 1)
           \/ \E k \in DOMAIN args : ~IsQuoted(args[k])
           \/ open # 2
        THEN Invalid ELSE Leaf(text[1], values)
  BY Zenon DEF buildLeaf
<1>1. open = 2
  BY NotBuilt
<1>2. inner \in Seq(T)
  <2> HIDE DEF open
  <2>0. inner = SubSeq(text, 3, Len(text) - 1)
    <3>1. open + 1 = 3
      BY <1>1
    <3> QED
      BY <3>1
  <2> HIDE DEF inner
  <2>1. Len(text) \in Nat
    OBVIOUS
  <2>2. CASE Len(text) >= 3
    <3>1. 3 \in 1 .. (Len(text) + 1) /\ Len(text) - 1 \in (3 - 1) .. Len(text)
      BY <2>1, <2>2
    <3>2. SubSeq(text, 3, Len(text) - 1) \in Seq(T)
      BY <3>1, SubSeqIs
    <3> QED
      BY <3>2, <2>0
  <2>3. CASE Len(text) < 3
    <3>1. inner = <<>>
      BY <2>0, <2>1, <2>3
    <3> QED
      BY <3>1
  <2> QED
    BY <2>1, <2>2, <2>3
<1> HIDE DEF open, inner, args, values
<1>3. /\ \A k \in DOMAIN args : IsQuoted(args[k])
      /\ buildLeaf(text) = Leaf(text[1], values)
  BY <1>0, Zenon
<1>4. args \in Seq(Seq(T))
  <2>1. PICK split : /\ \A i \in 1 .. (Len(inner) + 1) : split[i] \in Seq(Seq(T))
                     /\ SplitArgs(inner) = split[1]
    BY <1>2, ArgsAre DEF args
  <2>2. 1 \in 1 .. (Len(inner) + 1)
    BY <1>2
  <2> QED
    BY <2>1, <2>2 DEF args
<1>5. values \in Seq(Seq(T))
  <2>1. ASSUME NEW k \in DOMAIN args
        PROVE  SubSeq(args[k], 2, Len(args[k]) - 1) \in Seq(T)
    <3> DEFINE a == args[k]
    <3>1. a \in Seq(T) /\ Len(a) >= 2
      BY <1>3, <1>4 DEF IsQuoted
    <3> HIDE DEF a
    <3>2. 2 \in 1 .. (Len(a) + 1) /\ Len(a) - 1 \in (2 - 1) .. Len(a)
      BY <3>1
    <3>3. SubSeq(a, 2, Len(a) - 1) \in Seq(T)
      BY <3>1, <3>2, SubSeqIs
    <3> QED
      BY <3>3 DEF a
  <2>2. DOMAIN args = 1 .. Len(args) /\ Len(args) \in Nat
    BY <1>4
  <2> QED
    BY <2>1, <2>2 DEF values
<1> QED
  BY <1>3, <1>5, LeafScore

\* Every token of a text that is read as a rule has a meaning.
LEMMA TokensHaveMeaning ==
  ASSUME NEW tokens \in Seq(TokenSet(Chars)), TreeOf(tokens) # Invalid
  PROVE  /\ \A k \in 1 .. Len(tokens) : Meaningful(TokenSymbol(tokens[k]))
         /\ NoError(tokens)
         /\ \E S : Symbols(tokens) \in Seq(S)
         /\ Len(Symbols(tokens)) = Len(tokens)
         /\ \A k \in 1 .. Len(tokens) : Symbols(tokens)[k] = TokenSymbol(tokens[k])
         /\ TreeOf(tokens) = Reading(Symbols(tokens))
         /\ Scored(Symbols(tokens))
<1>0. \A t \in TokenSet(Chars) : /\ t.type \in TokenTypes
                                 /\ t.type = "FUNC" => t.value \in Seq(Chars)
  BY DEF TokenSet, TokenTypes
<1>1. \A k \in 1 .. Len(tokens) : /\ tokens[k].type \in TokenTypes
                                  /\ tokens[k].type = "FUNC" => tokens[k].value \in Seq(Chars)
  BY <1>0
<1>2. /\ \E S : Symbols(tokens) \in Seq(S)
      /\ Len(Symbols(tokens)) = Len(tokens)
      /\ \A k \in 1 .. Len(tokens) : Symbols(tokens)[k] = TokenSymbol(tokens[k])
  BY <1>1, SymbolsAre
<1>3. TreeOf(tokens) = Reading(Symbols(tokens))
  BY <1>1, ParserReadsAsMeant
<1>4. \A k \in 1 .. Len(tokens) : Meaningful(TokenSymbol(tokens[k]))
  <2>1. PICK S : Symbols(tokens) \in Seq(S)
    BY <1>2
  <2> QED
    BY <2>1, <1>2, <1>3, SlipHasNoMeaning
<1>5. NoError(tokens)
  <2>1. ASSUME NEW x, x.type = "ERROR"
        PROVE  ~Meaningful(TokenSymbol(x))
    BY <2>1 DEF Meaningful, TokenSymbol, Operators
  <2> QED
    BY <1>4, <2>1 DEF NoError
<1>6. Scored(Symbols(tokens))
  <2>1. ASSUME NEW k \in 1 .. Len(tokens), TokenSymbol(tokens[k]).type = "LEAF"
        PROVE  \/ TokenSymbol(tokens[k]).node = Invalid
               \/ TokenSymbol(tokens[k]).node.score \in Nat
    <3>1. tokens[k].type = "FUNC"
      BY <1>1, <2>1 DEF TokenSymbol, TokenTypes, Operators
    <3>2. TokenSymbol(tokens[k]).node = buildLeaf(tokens[k].value)
      BY <3>1 DEF TokenSymbol
    <3>3. tokens[k].value \in Seq(Chars)
      BY <1>1, <3>1
    <3> QED
      BY <3>2, <3>3, BuiltScore
  <2> QED
    BY <1>2, <2>1 DEF Scored
<1> QED
  BY <1>2, <1>3, <1>4, <1>5, <1>6

\* The text of a rule with one more condition.
LEMMA AddedText ==
  ASSUME NEW pieces \in Seq(Pieces), pieces # <<>>, NEW a \in Pieces, NEW b \in Pieces
  PROVE  Text(pieces \o <<a, b>>) = (Text(pieces) \o PieceText(a)) \o PieceText(b)
<1> DEFINE n == Len(pieces)
           new == pieces \o <<a, b>>
           texts == [k \in DOMAIN pieces |-> PieceText(pieces[k])]
           longer == [k \in DOMAIN new |-> PieceText(new[k])]
<1>1. n \in Nat /\ n # 0
  OBVIOUS
<1>2. /\ new \in Seq(Pieces) /\ Len(new) = n + 2
      /\ \A k \in 1 .. n : new[k] = pieces[k]
      /\ new[n + 1] = a /\ new[n + 2] = b
  <2> DEFINE x == <<a, b>>
  <2>1. x \in Seq(Pieces) /\ Len(x) = 2 /\ x[1] = a /\ x[2] = b
    OBVIOUS
  <2> HIDE DEF x
  <2>2. /\ pieces \o x \in Seq(Pieces) /\ Len(pieces \o x) = Len(pieces) + Len(x)
        /\ \A m \in 1 .. Len(pieces) : (pieces \o x)[m] = pieces[m]
        /\ \A m \in 1 .. Len(x) : (pieces \o x)[Len(pieces) + m] = x[m]
    <3>0. pieces \in Seq(Pieces) /\ x \in Seq(Pieces)
      BY <2>1
    <3>1. pieces \o x \in Seq(Pieces) /\ Len(pieces \o x) = Len(pieces) + Len(x)
      BY ONLY <3>0, ConcatIs
    <3>2. \A m \in 1 .. Len(pieces) : (pieces \o x)[m] = pieces[m]
      BY ONLY <3>0, ConcatIs
    <3>3. \A m \in 1 .. Len(x) : (pieces \o x)[Len(pieces) + m] = x[m]
      BY ONLY <3>0, ConcatIs
    <3> QED
      BY <3>1, <3>2, <3>3
  <2>3. 1 \in 1 .. Len(x) /\ 2 \in 1 .. Len(x)
    BY <2>1
  <2> QED
    BY <2>1, <2>2, <2>3 DEF x
<1> HIDE DEF new
<1>3. /\ texts \in Seq(Seq(Chars)) /\ Len(texts) = n
      /\ \A k \in 1 .. n : texts[k] = PieceText(pieces[k])
  <2>1. \A k \in 1 .. n : PieceText(pieces[k]) \in Seq(Chars)
    BY PieceTextIs
  <2> QED
    BY <2>1
<1>4. /\ longer \in Seq(Seq(Chars)) /\ Len(longer) = n + 2
      /\ \A k \in 1 .. (n + 2) : longer[k] = PieceText(new[k])
  <2>1. \A k \in 1 .. Len(new) : PieceText(new[k]) \in Seq(Chars)
    BY <1>2, PieceTextIs
  <2>2. DOMAIN new = 1 .. (n + 2) /\ n + 2 \in Nat
    BY <1>1, <1>2
  <2> QED
    BY <2>1, <2>2, <1>2
<1>5. Text(pieces) = FlattenSeq(texts) /\ Text(new) = FlattenSeq(longer)
  BY DEF Text
<1> HIDE DEF texts, longer, n
<1>6. \A k \in 1 .. n : longer[k] = texts[k]
  <2>1. \A k \in 1 .. n : k \in 1 .. (n + 2)
    BY <1>1
  <2> QED
    BY <2>1, <1>2, <1>3, <1>4
<1>7. longer[n + 1] = PieceText(a) /\ longer[n + 2] = PieceText(b)
  <2>1. n + 1 \in 1 .. (n + 2) /\ n + 2 \in 1 .. (n + 2)
    BY <1>1
  <2> QED
    BY <2>1, <1>2, <1>4
<1>8. FlattenSeq(longer) = (FlattenSeq(texts) \o longer[n + 1]) \o longer[n + 2]
  <2>1. n = Len(texts) /\ n # 0
    BY <1>1, <1>3
  <2>2. /\ texts \in Seq(Seq(Chars)) /\ longer \in Seq(Seq(Chars)) /\ Len(longer) = n + 2
    BY <1>3, <1>4
  <2> QED
    BY ONLY <2>1, <2>2, <1>6, FlattenLonger, ZenonT(30)
<1> QED
  BY <1>5, <1>7, <1>8 DEF new

-------------------------------------------------------------------------------
(* A condition at the end, lexed.                                           *)

\* A call that the lexer finds ends with a closing parenthesis.
LEMMA CallCloses ==
  ASSUME NEW T, NEW text \in Seq(T), NEW i \in 1 .. Len(text), lexFunc(text, i) # 0
  PROVE  text[lexFunc(text, i)] = ")"
<1> DEFINE o == Min(NameEnds(text, i))
<1>1. ~(o > Len(text)) /\ CallEnds(text, o) # {} /\ lexFunc(text, i) = Min(CallEnds(text, o))
  BY LexFuncIs
<1>2. o \in i .. (Len(text) + 1)
  <2>1. i \in 1 .. (Len(text) + 1)
    OBVIOUS
  <2> QED
    BY <2>1, NameEndIs
<1> HIDE DEF o
<1>3. o \in 1 .. Len(text)
  BY <1>1, <1>2
<1>4. Min(CallEnds(text, o)) \in CallEnds(text, o)
  BY <1>1, <1>3, CallEndsIs
<1> QED
  BY <1>1, <1>4 DEF CallEnds

\* A text that ends with a call, and the lexer finds no more than what has a meaning
\* from position p + 1 on, where the call starts.
CallAtEnd(call, u, ulex, w, p) ==
  /\ call \in Calls /\ u \in Seq(Chars) /\ w = PieceText(CallPiece(call))
  /\ IsLex(u, ulex) /\ \A i \in 1 .. (Len(u) + 1) : ulex[i] \in Seq(TokenSet(Chars))
  /\ p \in Nat /\ Occurs(w, u, p) /\ Len(u) = p + Len(w)
  /\ \A k \in 1 .. Len(ulex[p + 1]) : Meaningful(TokenSymbol(ulex[p + 1][k]))

\* Such a call is one token, whatever parentheses are in its values: the lexer would
\* otherwise end it at a parenthesis too early, or not at all.
LEMMA LastCallLexed ==
  ASSUME NEW call, NEW u, NEW ulex, NEW w, NEW p, CallAtEnd(call, u, ulex, w, p)
  PROVE  ulex[p + 1] = <<PieceToken(CallPiece(call))>>
<1>0. /\ call \in Calls /\ u \in Seq(Chars) /\ w = PieceText(CallPiece(call))
      /\ IsLex(u, ulex) /\ \A i \in 1 .. (Len(u) + 1) : ulex[i] \in Seq(TokenSet(Chars))
      /\ p \in Nat /\ Occurs(w, u, p) /\ Len(u) = p + Len(w)
      /\ \A k \in 1 .. Len(ulex[p + 1]) : Meaningful(TokenSymbol(ulex[p + 1][k]))
  BY DEF CallAtEnd
<1> DEFINE e == lexFunc(u, p + 1)
           tok == [type |-> "FUNC", value |-> SubSeq(u, p + 1, e)]
<1>1. /\ w \in Seq(Chars) /\ Len(w) \in Nat /\ Len(w) >= 3
      /\ w[1] = call.name /\ w[2] = "(" /\ call.name \in Letters
  <2> DEFINE inner == FlattenSeq(ArgTexts(call))
  <2>1. /\ inner \in Seq(Chars) /\ w \in Seq(Chars) /\ Len(w) = Len(inner) + 3
        /\ w[1] = call.name /\ w[2] = "("
    BY <1>0, CallTextIs
  <2> HIDE DEF inner
  <2>2. Len(inner) \in Nat
    BY <2>1
  <2> QED
    BY <1>0, <2>1, <2>2, CallsAre
<1>2. /\ p + 1 \in 1 .. Len(u) /\ 1 \in 1 .. Len(w) /\ 2 \in 1 .. Len(w)
      /\ \A m \in 1 .. Len(w) : u[p + m] = w[m]
  <2>1. p + 1 \in 1 .. Len(u) /\ 1 \in 1 .. Len(w) /\ 2 \in 1 .. Len(w)
    BY <1>0, <1>1
  <2> QED
    BY <1>0, <2>1 DEF Occurs
<1>3. ulex[p + 1] = LexAt(u, ulex, p + 1)
  BY <1>0, <1>2 DEF IsLex
<1>4. isIdentStart(u[p + 1])
  BY <1>1, <1>2, NameChars
<1>5. LexAt(u, ulex, p + 1) = IF e = 0 THEN <<Token("ERROR")>> ELSE <<tok>> \o ulex[e + 1]
  BY <1>4, NameLexed
<1>6. e = 0 \/ e \in (p + 1) .. Len(u)
  BY <1>0, <1>2, CallEndIs
<1> HIDE DEF e, tok
<1>7. CASE e = 0
  <2> DEFINE bad == Token("ERROR")
  <2>1. ~Meaningful(TokenSymbol(bad))
    BY DEF Meaningful, TokenSymbol, Operators, Token
  <2> HIDE DEF bad
  <2>2. ulex[p + 1] = <<bad>>
    BY <1>3, <1>5, <1>7 DEF bad
  <2>3. Len(<<bad>>) = 1 /\ <<bad>>[1] = bad /\ 1 \in 1 .. 1
    BY <1>0
  <2> QED
    BY <1>0, <2>1, <2>2, <2>3
<1>8. CASE e # 0
  <2> DEFINE rest == ulex[e + 1]
  <2>1. ulex[p + 1] = <<tok>> \o rest
    BY <1>3, <1>5, <1>8
  <2>2. e \in (p + 1) .. Len(u) /\ e + 1 \in 1 .. (Len(u) + 1)
    <3>1. Len(u) \in Nat
      BY <1>0
    <3> QED
      BY <1>0, <3>1, <1>6, <1>8
  <2>3. rest \in Seq(TokenSet(Chars))
    BY <1>0, <2>2
  <2> HIDE DEF rest
  <2>4. Meaningful(TokenSymbol(tok))
    <3>1. Len(<<tok>> \o rest) = Len(rest) + 1 /\ (<<tok>> \o rest)[1] = tok
          /\ Len(rest) \in Nat
      BY <2>3
    <3>2. 1 \in 1 .. (Len(rest) + 1)
      BY <3>1
    <3> QED
      BY <1>0, <2>1, <3>1, <3>2
  <2>5. buildLeaf(SubSeq(u, p + 1, e)) # Invalid
    BY <2>4 DEF Meaningful, TokenSymbol, tok
  <2>6. CASE e = Len(u)
    <3>1. SubSeq(u, p + 1, e) = w
      BY <1>0, <1>1, <2>6, OccursIs
    <3>2. rest = <<>>
      BY <1>0, <2>6 DEF rest, IsLex
    <3>3. <<tok>> \o <<>> = <<tok>>
      OBVIOUS
    <3>4. tok = PieceToken(CallPiece(call))
      BY <1>0, <3>1 DEF tok, PieceToken, CallPiece
    <3> QED
      BY <2>1, <3>2, <3>3, <3>4
  <2>7. CASE e # Len(u)
    <3> DEFINE m == e - p
    <3>1. u[e] = ")"
      BY <1>0, <1>2, <1>8, CallCloses DEF e
    <3>2. m \in 1 .. (Len(w) - 1) /\ p + m = e
      <4>1. p \in Nat /\ Len(u) = p + Len(w) /\ Len(w) \in Nat
        BY <1>0, <1>1
      <4> QED
        BY <4>1, <2>2, <2>7
    <3> HIDE DEF m
    <3>3. m \in 1 .. Len(w) /\ w[m] = ")"
      <4>1. m \in 1 .. Len(w)
        BY <1>1, <3>2
      <4> QED
        BY <4>1, <1>2, <3>1, <3>2
    <3>4. m # 1 /\ m # 2
      <4>1. ")" \in Special
        BY DEF Special
      <4>2. w[1] # ")"
        BY ONLY <1>0, <1>1, <4>1, NameChars
      <4>3. w[2] # ")"
        BY <1>1
      <4> QED
        BY <3>3, <4>2, <4>3
    <3>5. buildLeaf(SubSeq(w, 1, m)) = Invalid
      <4>1. m \in 3 .. (Len(w) - 1)
        BY <1>1, <3>2, <3>4
      <4> QED
        BY <1>0, <4>1, <3>3, CutCallIsNoCall
    <3> DEFINE cut == SubSeq(w, 1, m)
    <3>6. cut \in Seq(Chars) /\ Len(cut) = m /\ Occurs(cut, w, 0)
      <4>1. 1 \in 1 .. (Len(w) + 1) /\ m \in (1 - 1) .. Len(w) /\ (m - 1) + 1 = m /\ 1 - 1 = 0
        BY <1>1, <3>3
      <4>2. cut \in Seq(Chars) /\ Len(cut) = m - 1 + 1
        BY <1>1, <4>1, SubSeqIs
      <4>3. Occurs(cut, w, 1 - 1)
        BY <1>1, <4>1, SubSeqOccurs
      <4> QED
        BY <4>1, <4>2, <4>3
    <3> HIDE DEF cut
    <3>7. Occurs(cut, u, p)
      <4>1. u \in Seq(Chars) /\ w \in Seq(Chars) /\ cut \in Seq(Chars)
        BY <1>0, <1>1, <3>6
      <4>2. Occurs(w, u, p) /\ Occurs(cut, w, 0)
        BY <1>0, <3>6
      <4>3. Occurs(cut, u, p + 0)
        BY ONLY <1>0, <4>1, <4>2, OccursWithin
      <4>4. p + 0 = p
        BY <1>0
      <4> QED
        BY <4>3, <4>4
    <3>8. SubSeq(u, p + 1, e) = cut
      BY <1>0, <3>2, <3>6, <3>7, OccursIs
    <3> QED
      BY <2>5, <3>5, <3>8 DEF cut
  <2> QED
    BY <2>6, <2>7
<1> QED
  BY <1>7, <1>8

\* What a rule with one more condition is lexed to, as far as both have a meaning.
Longer(s, t, type, call) ==
  /\ s \in Seq(TokenSet(Chars)) /\ t \in Seq(TokenSet(Chars))
  /\ Len(t) = Len(s) + 2
  /\ \A k \in 1 .. Len(s) : t[k] = s[k]
  /\ t[Len(s) + 1] = Token(type)
  /\ t[Len(s) + 2] = PieceToken(CallPiece(call))

\* The tokens of the operator come after what was there, and then one for the call.
LEMMA TwoMoreTokens ==
  ASSUME NEW S, NEW s \in Seq(S), NEW z \in Seq(S), NEW x, NEW y, z = <<x>> \o <<y>>
  PROVE  /\ Len(s \o z) = Len(s) + 2
         /\ \A k \in 1 .. Len(s) : (s \o z)[k] = s[k]
         /\ (s \o z)[Len(s) + 1] = x
         /\ (s \o z)[Len(s) + 2] = y
<1>1. Len(z) = 2 /\ z[1] = x /\ z[2] = y
  OBVIOUS
<1>2. /\ Len(s \o z) = Len(s) + Len(z)
      /\ \A k \in 1 .. Len(s) : (s \o z)[k] = s[k]
      /\ \A k \in 1 .. Len(z) : (s \o z)[Len(s) + k] = z[k]
  <2>1. Len(s \o z) = Len(s) + Len(z)
    BY ConcatIs
  <2>2. \A k \in 1 .. Len(s) : (s \o z)[k] = s[k]
    BY ConcatIs
  <2>3. \A k \in 1 .. Len(z) : (s \o z)[Len(s) + k] = z[k]
    BY ConcatIs
  <2> QED
    BY <2>1, <2>2, <2>3
<1>3. 1 \in 1 .. Len(z) /\ 2 \in 1 .. Len(z)
  BY <1>1
<1> QED
  BY <1>1, <1>2, <1>3

\* The text of a rule and of the same rule with one more condition, and their tokens.
LEMMA ConditionLexed ==
  ASSUME NEW type \in {"AND", "OR"}, NEW call \in Calls,
         NEW f \in Seq(Chars), NEW u,
         u = (f \o PieceText(Piece(type))) \o PieceText(CallPiece(call)),
         TreeOf(Lex(f)) # Invalid, TreeOf(Lex(u)) # Invalid
  PROVE  Longer(Lex(f), Lex(u), type, call)
<1> DEFINE N == Len(f)
           op == PieceText(Piece(type))
           w == PieceText(CallPiece(call))
           fop == f \o op
<1>1. /\ op \in Seq(Chars) /\ Len(op) = 4
      /\ op[1] = Space /\ op[4] = Space /\ op[2] = op[3]
      /\ \/ type = "AND" /\ op[2] = "&"
         \/ type = "OR" /\ op[2] = "|"
  <2>1. op \in Seq(Chars)
    <3>1. Piece(type) \in Pieces
      BY DEF Pieces, Operators
    <3> QED
      BY <3>1, PieceTextIs
  <2>2. CASE type = "AND"
    <3>1. op = <<Space, "&", "&", Space>>
      BY <2>2, OperatorTexts
    <3> QED
      BY <2>1, <2>2, <3>1
  <2>3. CASE type = "OR"
    <3>1. op = <<Space, "|", "|", Space>>
      BY <2>3, OperatorTexts
    <3> QED
      BY <2>1, <2>3, <3>1
  <2> QED
    BY <2>2, <2>3
<1>2. w \in Seq(Chars) /\ Len(w) \in Nat /\ Len(w) >= 1
  <2>1. CallPiece(call) \in Pieces
    BY DEF Pieces
  <2> QED
    BY <2>1, PieceTextIs
<1> HIDE DEF op, w
<1>3. N \in Nat
  OBVIOUS
<1>4. /\ fop \in Seq(Chars) /\ Len(fop) = N + 4
      /\ \A m \in 1 .. N : fop[m] = f[m]
      /\ \A m \in 1 .. 4 : fop[N + m] = op[m]
  <2>1. f \in Seq(Chars) /\ op \in Seq(Chars)
    BY <1>1
  <2>2. fop \in Seq(Chars) /\ Len(fop) = Len(f) + Len(op)
    BY ONLY <2>1, ConcatIs
  <2>3. \A m \in 1 .. Len(f) : fop[m] = f[m]
    BY ONLY <2>1, ConcatIs
  <2>4. \A m \in 1 .. Len(op) : fop[Len(f) + m] = op[m]
    BY ONLY <2>1, ConcatIs
  <2> QED
    BY <1>1, <2>2, <2>3, <2>4
<1>5. u = fop \o w
  BY DEF op, w
<1> HIDE DEF fop
<1>6. /\ u \in Seq(Chars) /\ Len(u) = (N + 4) + Len(w)
      /\ \A m \in 1 .. (N + 4) : u[m] = fop[m]
      /\ \A m \in 1 .. Len(w) : u[(N + 4) + m] = w[m]
  <2>1. fop \in Seq(Chars) /\ w \in Seq(Chars)
    BY <1>2, <1>4
  <2>2. fop \o w \in Seq(Chars) /\ Len(fop \o w) = Len(fop) + Len(w)
    BY ONLY <2>1, ConcatIs
  <2>3. \A m \in 1 .. Len(fop) : (fop \o w)[m] = fop[m]
    BY ONLY <2>1, ConcatIs
  <2>4. \A m \in 1 .. Len(w) : (fop \o w)[Len(fop) + m] = w[m]
    BY ONLY <2>1, ConcatIs
  <2> QED
    BY <1>4, <1>5, <2>2, <2>3, <2>4
<1> HIDE DEF N
<1>7. /\ \A m \in 1 .. N : u[m] = f[m]
      /\ u[N + 1] = op[1] /\ u[N + 2] = op[2] /\ u[N + 3] = op[3] /\ u[N + 4] = op[4]
  <2>1. /\ \A m \in 1 .. N : m \in 1 .. (N + 4)
        /\ \A m \in 1 .. 4 : N + m \in 1 .. (N + 4)
        /\ 1 \in 1 .. 4 /\ 2 \in 1 .. 4 /\ 3 \in 1 .. 4 /\ 4 \in 1 .. 4
    BY <1>3
  <2>2. \A m \in 1 .. N : u[m] = f[m]
    BY <2>1, <1>4, <1>6
  <2>3. \A m \in 1 .. 4 : u[N + m] = op[m]
    BY <2>1, <1>4, <1>6
  <2> QED
    BY <2>1, <2>2, <2>3
<1>8. PICK tlex : IsLex(f, tlex) /\ \A i \in 1 .. (N + 1) : tlex[i] \in Seq(TokenSet(Chars))
  BY LexIs DEF IsLex, N
<1>9. PICK ulex : /\ IsLex(u, ulex)
                  /\ \A i \in 1 .. (Len(u) + 1) : ulex[i] \in Seq(TokenSet(Chars))
  BY <1>6, LexIs DEF IsLex
<1>10. Lex(f) = tlex[1] /\ Lex(u) = ulex[1]
  BY <1>6, <1>8, <1>9, TrimmedLex
<1>11. /\ 1 \in 1 .. (N + 1) /\ 1 \in 1 .. (Len(u) + 1)
       /\ N + 1 \in 1 .. Len(u) /\ N + 2 \in 1 .. Len(u) /\ N + 4 \in 1 .. Len(u)
       /\ N + 5 \in 1 .. (Len(u) + 1) /\ N + 1 \in 1 .. (Len(u) + 1)
       /\ N < Len(u) /\ N + 2 < Len(u)
       /\ (N + 1) + 1 = N + 2 /\ (N + 2) + 1 = N + 3 /\ (N + 2) + 2 = N + 4
       /\ (N + 4) + 1 = N + 5
  BY <1>2, <1>3, <1>6
<1>12. Begins(Chars, f, tlex, u, ulex)
  <2>1. Occurs(f, u, 0)
    <3>1. 0 \in 0 .. Len(u) /\ 0 + N <= Len(u) /\ \A m \in 1 .. N : 0 + m = m
      BY <1>3, <1>11, <1>6
    <3> QED
      BY <3>1, <1>7 DEF Occurs, N
  <2>2. u[N + 1] = Space
    BY <1>1, <1>7
  <2> QED
    BY <2>1, <2>2, <1>6, <1>8, <1>9, <1>11 DEF Begins, N
<1>13. /\ NoError(tlex[1]) /\ tlex[1] \in Seq(TokenSet(Chars)) /\ ulex[1] \in Seq(TokenSet(Chars))
       /\ \A k \in 1 .. Len(ulex[1]) : Meaningful(TokenSymbol(ulex[1][k]))
  BY <1>8, <1>9, <1>10, <1>11, TokensHaveMeaning
<1>14. ulex[1] = tlex[1] \o ulex[N + 1]
  <2>1. LexedAlike(f, tlex, ulex, 1)
    BY <1>11, <1>12, LexWithin DEF N
  <2> QED
    BY <2>1, <1>13 DEF LexedAlike, N
<1>15. ulex[N + 1] = ulex[N + 2]
  <2>1. ulex[N + 1] = LexAt(u, ulex, N + 1)
    BY <1>9, <1>11 DEF IsLex
  <2>2. u[N + 1] = Space
    BY <1>1, <1>7
  <2>3. LexAt(u, ulex, N + 1) = ulex[(N + 1) + 1]
    BY ONLY <2>2, SpaceIsSkipped
  <2> QED
    BY <2>1, <2>3, <1>11
<1>16. ulex[N + 2] = <<Token(type)>> \o ulex[N + 4]
  <2>1. ulex[N + 2] = LexAt(u, ulex, N + 2)
    BY <1>9, <1>11 DEF IsLex
  <2>2. u[(N + 2) + 1] = u[N + 2] /\ N + 2 < Len(u)
    BY <1>1, <1>7, <1>11
  <2>3. CASE type = "AND"
    <3>1. u[N + 2] = "&" /\ u[(N + 2) + 1] = "&"
      BY <1>1, <1>7, <2>2, <2>3
    <3>2. LexAt(u, ulex, N + 2) = <<Token("AND")>> \o ulex[(N + 2) + 2]
      BY ONLY <2>2, <3>1, AndLexed
    <3> QED
      BY <2>1, <2>3, <3>2, <1>11
  <2>4. CASE type = "OR"
    <3>1. u[N + 2] = "|" /\ u[(N + 2) + 1] = "|"
      BY <1>1, <1>7, <2>2, <2>4
    <3>2. LexAt(u, ulex, N + 2) = <<Token("OR")>> \o ulex[(N + 2) + 2]
      BY ONLY <2>2, <3>1, OrLexed
    <3> QED
      BY <2>1, <2>4, <3>2, <1>11
  <2> QED
    BY <2>3, <2>4
<1>17. ulex[N + 4] = ulex[N + 5]
  <2>1. ulex[N + 4] = LexAt(u, ulex, N + 4)
    BY <1>9, <1>11 DEF IsLex
  <2>2. u[N + 4] = Space
    BY <1>1, <1>7
  <2>3. LexAt(u, ulex, N + 4) = ulex[(N + 4) + 1]
    BY ONLY <2>2, SpaceIsSkipped
  <2> QED
    BY <2>1, <2>3, <1>11
<1> DEFINE p == N + 4
           last == ulex[p + 1]
<1>18. /\ last = ulex[N + 4] /\ last \in Seq(TokenSet(Chars))
       /\ ulex[1] = tlex[1] \o (<<Token(type)>> \o last)
  BY <1>9, <1>11, <1>14, <1>15, <1>16, <1>17
<1>19. \A k \in 1 .. Len(last) : Meaningful(TokenSymbol(last[k]))
  <2> DEFINE s == tlex[1]
             x == Token(type)
             more == <<x>> \o last
  <2> HIDE DEF last
  <2>1. /\ Len(more) = Len(last) + 1 /\ \A k \in 1 .. Len(last) : more[k + 1] = last[k]
        /\ Len(last) \in Nat
    BY <1>18
  <2>2. s \in Seq(TokenSet(Chars)) /\ more \in Seq(TokenSet(Chars))
    <3>1. x \in TokenSet(Chars)
      BY DEF Token, TokenSet, TokenTypes, Operators
    <3> HIDE DEF x
    <3>2. <<x>> \in Seq(TokenSet(Chars))
      BY <3>1
    <3> QED
      BY <3>2, <1>13, <1>18
  <2> HIDE DEF more, s
  <2>3. /\ Len(s \o more) = Len(s) + Len(more) /\ Len(s) \in Nat
        /\ \A k \in 1 .. Len(more) : (s \o more)[Len(s) + k] = more[k]
    <3>1. Len(s \o more) = Len(s) + Len(more)
      BY ONLY <2>2, ConcatIs
    <3>2. \A k \in 1 .. Len(more) : (s \o more)[Len(s) + k] = more[k]
      BY ONLY <2>2, ConcatIs
    <3> QED
      BY <3>1, <3>2, <2>2
  <2>4. ulex[1] = s \o more
    BY <1>18 DEF s, more
  <2>5. ASSUME NEW k \in 1 .. Len(last)
        PROVE  Meaningful(TokenSymbol(last[k]))
    <3>1. k + 1 \in 1 .. Len(more) /\ Len(s) + (k + 1) \in 1 .. (Len(s) + Len(more))
      BY <2>1, <2>3
    <3>2. ulex[1][Len(s) + (k + 1)] = last[k] /\ Len(s) + (k + 1) \in 1 .. Len(ulex[1])
      BY <2>1, <2>3, <2>4, <3>1
    <3> QED
      BY <3>2, <1>13
  <2> QED
    BY <2>5
<1> DEFINE tok == PieceToken(CallPiece(call))
<1>20. last = <<tok>>
  <2>1. p \in Nat /\ Occurs(w, u, p) /\ Len(u) = p + Len(w)
    <3>1. p \in Nat /\ p \in 0 .. Len(u) /\ p + Len(w) <= Len(u) /\ Len(u) = p + Len(w)
      BY <1>2, <1>3, <1>6
    <3> QED
      BY <3>1, <1>6 DEF Occurs
  <2> HIDE DEF p
  <2>2. w = PieceText(CallPiece(call)) /\ u \in Seq(Chars) /\ call \in Calls
    BY <1>6 DEF w
  <2>3. /\ IsLex(u, ulex)
        /\ \A i \in 1 .. (Len(u) + 1) : ulex[i] \in Seq(TokenSet(Chars))
        /\ \A k \in 1 .. Len(ulex[p + 1]) : Meaningful(TokenSymbol(ulex[p + 1][k]))
    BY <1>9, <1>19
  <2> HIDE DEF last, tok
  <2>4. ulex[p + 1] = <<PieceToken(CallPiece(call))>>
    <3>1. CallAtEnd(call, u, ulex, w, p)
      BY <2>1, <2>2, <2>3 DEF CallAtEnd
    <3> QED
      BY ONLY <3>1, LastCallLexed
  <2> QED
    BY <2>4 DEF last, tok
<1> HIDE DEF last, tok
<1> DEFINE x == Token(type)
           z == <<x>> \o last
<1>21. z = <<x>> \o <<tok>> /\ z \in Seq(TokenSet(Chars))
  <2>1. x \in TokenSet(Chars)
    BY DEF Token, TokenSet, TokenTypes, Operators
  <2> HIDE DEF x
  <2>2. <<x>> \in Seq(TokenSet(Chars))
    BY <2>1
  <2> QED
    BY <2>2, <1>18, <1>20
<1> HIDE DEF z, x
<1>22. ulex[1] = tlex[1] \o z
  BY <1>18 DEF z, x
<1>23. Longer(tlex[1], ulex[1], type, call)
  <2> DEFINE s == tlex[1]
  <2>1. s \in Seq(TokenSet(Chars))
    BY <1>13
  <2> HIDE DEF s
  <2>2. /\ Len(s \o z) = Len(s) + 2
        /\ \A k \in 1 .. Len(s) : (s \o z)[k] = s[k]
        /\ (s \o z)[Len(s) + 1] = x
        /\ (s \o z)[Len(s) + 2] = tok
    BY ONLY <2>1, <1>21, TwoMoreTokens
  <2>3. ulex[1] = s \o z
    BY <1>22 DEF s
  <2> QED
    BY <2>1, <2>2, <2>3, <1>13 DEF Longer, s, x, tok
<1> QED
  BY <1>10, <1>23

-------------------------------------------------------------------------------
(* A condition at the end: the step.                                        *)

\* What a condition at the end of a rule does to the tree, by its operator.
Acts(type, old, new) ==
  CASE type = "AND" -> new.matches \subseteq old.matches /\ new.score >= old.score
    [] type = "OR" -> old.matches \subseteq new.matches /\ new.score <= old.score

\* No tokens, no rule.
LEMMA NoTokensNoTree ==
  ASSUME NEW s \in Seq(TokenSet(Chars)), TreeOf(s) # Invalid
  PROVE  Len(s) \in Nat /\ Len(s) >= 1
<1>1. Len(s) \in Nat
  OBVIOUS
<1>2. (\E S : Symbols(s) \in Seq(S)) /\ Len(Symbols(s)) = Len(s) /\ Reading(Symbols(s)) # Invalid
  BY TokensHaveMeaning
<1>3. PICK S : Symbols(s) \in Seq(S)
  BY <1>2
<1>4. Len(s) # 0
  BY <1>2, <1>3, NoSymbolsNoMeaning
<1> QED
  BY <1>1, <1>4

\* The tree of a rule with one more condition, from the tokens.
LEMMA ConditionActs ==
  ASSUME NEW type \in {"AND", "OR"}, NEW call \in Calls, NEW s, NEW t,
         Longer(s, t, type, call), TreeOf(s) # Invalid, TreeOf(t) # Invalid
  PROVE  Acts(type, TreeOf(s), TreeOf(t))
<1> DEFINE n == Len(s)
           old == Symbols(s)
           new == Symbols(t)
<1>1. /\ s \in Seq(TokenSet(Chars)) /\ t \in Seq(TokenSet(Chars)) /\ Len(t) = n + 2
      /\ \A k \in 1 .. n : t[k] = s[k]
      /\ t[n + 1] = Token(type) /\ t[n + 2] = PieceToken(CallPiece(call))
  BY DEF Longer
<1>2. n \in Nat /\ n >= 1
  BY <1>1, NoTokensNoTree
<1>3. /\ \E S : old \in Seq(S)
      /\ Len(old) = n
      /\ \A k \in 1 .. n : old[k] = TokenSymbol(s[k])
      /\ TreeOf(s) = Reading(old) /\ Scored(old)
  BY <1>1, TokensHaveMeaning
<1>4. /\ \E S : new \in Seq(S)
      /\ Len(new) = n + 2
      /\ \A k \in 1 .. (n + 2) : new[k] = TokenSymbol(t[k])
      /\ \A k \in 1 .. (n + 2) : Meaningful(new[k])
      /\ TreeOf(t) = Reading(new) /\ Scored(new)
  <2>1. /\ \E S : new \in Seq(S)
        /\ Len(new) = Len(t)
        /\ \A k \in 1 .. Len(t) : new[k] = TokenSymbol(t[k])
        /\ \A k \in 1 .. Len(t) : Meaningful(TokenSymbol(t[k]))
        /\ TreeOf(t) = Reading(new) /\ Scored(new)
    BY <1>1, TokensHaveMeaning
  <2> QED
    BY <1>1, <2>1
<1> HIDE DEF n, old, new
<1>5. PICK S : old \in Seq(S)
  BY <1>3
<1>6. PICK T : new \in Seq(T)
  BY <1>4
<1>7. PICK p : IsReading(old, p) /\ Reading(old) = p[1][Len(old)]
  BY <1>5, ReadingIs
<1>8. PICK q : IsReading(new, q) /\ Reading(new) = q[1][Len(new)]
  BY <1>6, ReadingIs
<1>9. /\ n + 1 \in 1 .. (n + 2) /\ n + 2 \in 1 .. (n + 2) /\ n \in 0 .. n /\ n \in 0 .. (n + 2)
      /\ \A k \in 1 .. n : k \in 1 .. (n + 2)
      /\ 1 \in 1 .. (n + 1)
  BY <1>2
<1>10. p[1][n] = q[1][n]
  <2>1. SameUpTo(old, new, n)
    BY <1>1, <1>3, <1>4, <1>9 DEF SameUpTo
  <2>2. \A i \in 1 .. (n + 1), j \in 0 .. n : p[i][j] = q[i][j]
    BY ONLY <2>1, <1>5, <1>6, <1>7, <1>8, ReadingsAgree
  <2> QED
    BY <2>2, <1>9
<1> DEFINE x == new[n + 2].node
<1>11. new[n + 1].type = type
  <2>1. TokenSymbol(Token(type)).type = type
    BY DEF TokenSymbol, Token
  <2> QED
    BY <2>1, <1>1, <1>4, <1>9
<1>12. new[n + 2].type = "LEAF"
  <2>1. PieceToken(CallPiece(call)).type = "FUNC"
    BY DEF PieceToken, CallPiece
  <2>2. TokenSymbol(PieceToken(CallPiece(call))).type = "LEAF"
    BY <2>1 DEF TokenSymbol
  <2> QED
    BY <2>2, <1>1, <1>4, <1>9
<1>13. x # Invalid /\ x.score \in Nat
  <2>1. x # Invalid
    BY <1>4, <1>9, <1>12 DEF Meaningful
  <2> QED
    BY <2>1, <1>4, <1>9, <1>12 DEF Scored
<1>14. q[n + 2][n + 2] # Invalid
  <2>1. n + 2 \in 1 .. Len(new)
    BY <1>4, <1>9
  <2>2. q[n + 2][n + 2] = x
    BY <2>1, <1>6, <1>8, <1>12, LeafIsNode
  <2> QED
    BY <2>2, <1>13
<1>15. p[1][n] # Invalid /\ TreeOf(s) = p[1][n] /\ TreeOf(t) = q[1][n + 2]
  BY <1>3, <1>4, <1>7, <1>8
<1>16. Bound(q[1][n], q[1][n + 2], type, x)
  <2>1. q[1][n] # Invalid
    BY <1>10, <1>15
  <2> QED
    BY <2>1, <1>2, <1>4, <1>6, <1>8, <1>11, <1>12, <1>14, LastConditionBinds
<1>17. p[1][n].score \in Nat
  <2>1. \A i \in 1 .. (Len(old) + 1), j \in 0 .. Len(old) :
          p[i][j] # Invalid => p[i][j].score \in Nat
    BY <1>3, <1>5, <1>7, PartsAreScored
  <2>2. 1 \in 1 .. (Len(old) + 1) /\ n \in 0 .. Len(old)
    BY <1>3, <1>9
  <2> QED
    BY <2>1, <2>2, <1>15
<1> HIDE DEF x
<1>18. Bound(p[1][n], q[1][n + 2], type, x)
  BY <1>10, <1>16
<1> DEFINE o == p[1][n]
           m == q[1][n + 2]
<1>19. Acts(type, o, m)
  <2>1. o # Invalid /\ o.score \in Nat /\ x.score \in Nat /\ Bound(o, m, type, x)
    BY <1>13, <1>15, <1>17, <1>18
  <2> HIDE DEF o, m
  <2> QED
    BY <2>1, BoundActs DEF Acts
<1> QED
  BY <1>15, <1>19

\* The rule with one more condition at its end.
LEMMA LongerRuleActs ==
  ASSUME NEW pieces \in Seq(Pieces), NEW type \in {"AND", "OR"}, NEW call \in Calls,
         pieces # <<>>,
         NEW new, new = pieces \o <<Piece(type), CallPiece(call)>>,
         Tree(pieces) # Invalid, Tree(new) # Invalid
  PROVE  Acts(type, Tree(pieces), Tree(new))
<1> DEFINE f == Text(pieces)
           u == Text(new)
<1>1. Tree(pieces) = TreeOf(Lex(f)) /\ Tree(new) = TreeOf(Lex(u))
  BY DEF Tree, ParseRule, TreeOf
<1>2. f \in Seq(Chars)
  BY RuleTextIs
<1>3. u = (f \o PieceText(Piece(type))) \o PieceText(CallPiece(call))
  <2>1. Piece(type) \in Pieces /\ CallPiece(call) \in Pieces
    BY DEF Pieces, Operators
  <2> QED
    BY <2>1, AddedText
<1> HIDE DEF f, u
<1>4. Longer(Lex(f), Lex(u), type, call)
  BY <1>1, <1>2, <1>3, ConditionLexed
<1> QED
  BY <1>1, <1>4, ConditionActs

\* The step that adds the condition.
LEMMA ConditionActsStep ==
  ASSUME TreeFits, [RulesNext]_<<rule, tree>>, tree # Invalid, tree' # Invalid,
         Len(rule') = Len(rule) + 2
  PROVE  Acts(rule'[Len(rule) + 1].type, tree, tree')
<1>0. /\ rule \in Seq(Pieces) /\ tree = Tree(rule) /\ Len(rule) \in Nat
      /\ rule' # rule
  <2>1. rule \in Seq(Pieces) /\ tree = Tree(rule)
    BY DEF TreeFits
  <2>2. Len(rule) \in Nat
    BY <2>1
  <2> QED
    BY <2>1, <2>2
<1>1. CASE WritePiece
  <2>1. PICK piece \in Pieces : rule' = Append(rule, piece)
    BY <1>1 DEF WritePiece, Edit
  <2>2. Len(rule') = Len(rule) + 1
    BY <1>0, <2>1
  <2> QED
    BY <1>0, <2>2
<1>2. CASE ReplaceLastCall
  <2>1. PICK c \in Calls : rule # <<>> /\ rule' = Front(rule) \o <<CallPiece(c)>>
    BY <1>2 DEF ReplaceLastCall, Edit
  <2>2. Front(rule) \in Seq(Pieces) /\ Len(Front(rule)) = Len(rule) - 1
    BY <1>0, <2>1, FrontIs
  <2>3. Len(rule') = (Len(rule) - 1) + 1
    <3> DEFINE f == Front(rule)
               x == <<CallPiece(c)>>
    <3>1. f \in Seq(Pieces) /\ x \in Seq(Pieces) /\ Len(x) = 1
      BY <2>2 DEF Pieces
    <3> HIDE DEF f, x
    <3>2. Len(f \o x) = Len(f) + Len(x)
      BY <3>1, ConcatIs
    <3> QED
      BY <2>1, <2>2, <3>1, <3>2 DEF f, x
  <2> QED
    BY <1>0, <2>3
<1>3. CASE AddCondition
  <2> DEFINE n == Len(rule)
  <2>1. PICK type \in {"AND", "OR"}, c \in Calls :
               /\ rule' = rule \o <<Piece(type), CallPiece(c)>>
               /\ tree' = Tree(rule')
    BY <1>3 DEF AddCondition, Edit
  <2> DEFINE x == <<Piece(type), CallPiece(c)>>
  <2>2. rule'[n + 1].type = type
    <3>1. x \in Seq(Pieces) /\ Len(x) = 2 /\ x[1] = Piece(type)
      BY DEF Pieces, Operators
    <3> HIDE DEF x
    <3>2. \A m \in 1 .. Len(x) : (rule \o x)[n + m] = x[m]
      BY <1>0, <3>1, ConcatIs
    <3>3. 1 \in 1 .. Len(x)
      BY <3>1
    <3>4. rule'[n + 1] = Piece(type)
      BY <2>1, <3>1, <3>2, <3>3 DEF x
    <3> QED
      BY <3>4 DEF Piece
  <2>3. rule # <<>>
    <3>1. Tree(<<>>) = Invalid
      <4>1. <<>> \in Seq(Pieces) /\ Len(<<>>) = 0
        OBVIOUS
      <4>2. \A k \in 1 .. Len(<<>>) : BalancedPiece(<<>>[k])
        BY <4>1
      <4> QED
        BY <4>1, <4>2, TreeIsMeaning, NothingMeansNothing
    <3> QED
      BY <3>1, <1>0
  <2> HIDE DEF n
  <2>4. Acts(type, Tree(rule), Tree(rule'))
    BY <2>1, <2>3, <1>0, LongerRuleActs
  <2> QED
    BY <2>1, <2>2, <2>4, <1>0 DEF n
<1> QED
  BY <1>0, <1>1, <1>2, <1>3 DEF RulesNext

\* A condition at the end of a rule does what it says.
THEOREM ConditionsDoActAsWritten == RulesSpec => ConditionsActAsWritten
<1> DEFINE Does ==
      /\ tree # Invalid /\ tree' # Invalid
      /\ Len(rule') = Len(rule) + 2 /\ Front(Front(rule')) = rule
      => CASE rule'[Len(rule) + 1].type = "AND" ->
                tree'.matches \subseteq tree.matches /\ tree'.score >= tree.score
           [] rule'[Len(rule) + 1].type = "OR" ->
                tree.matches \subseteq tree'.matches /\ tree'.score <= tree.score
<1>1. TreeFits /\ [RulesNext]_<<rule, tree>> => [Does]_<<rule, tree>>
  <2> SUFFICES ASSUME TreeFits, [RulesNext]_<<rule, tree>>,
                      tree # Invalid, tree' # Invalid, Len(rule') = Len(rule) + 2
               PROVE  Acts(rule'[Len(rule) + 1].type, tree, tree')
    BY DEF Acts
  <2> QED
    BY ConditionActsStep
<1>2. RulesSpec => [][Does]_<<rule, tree>>
  <2> HIDE DEF Does
  <2> QED
    BY <1>1, TreeAlwaysFits, PTL DEF RulesSpec
<1> QED
  BY <1>2 DEF ConditionsActAsWritten, Does

===============================================================================
