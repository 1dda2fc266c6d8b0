-------------------------------- MODULE Rules --------------------------------
(***************************************************************************)
(* The rule language of internal/rule: lexer.go, parser.go, matcher.go and *)
(* ast.go, as the router compiler uses it.                                 *)
(*                                                                         *)
(* A text is a sequence of characters.  The name of a matcher, an IP       *)
(* address and the length of a network prefix count as one character each. *)
(* The author has a rule in mind and edits it piece by piece; the program  *)
(* gets its text, and the properties compare what it makes of the text     *)
(* with what the author means.                                             *)
(*                                                                         *)
(* A node of the tree carries what Specificity and Match would compute of  *)
(* it: its score and the requests it matches, by their numbers.            *)
(***************************************************************************)
EXTENDS Integers, Sequences, FiniteSets, SequencesExt

CONSTANTS
  Letters, Digits, \* the characters of names
  Octets,       \* the IP addresses by their text: sequences of 4 or 16 octets
  Ones,         \* the prefix lengths by their text, multiples of 8 here
  Calls,        \* the matcher calls an author may write, right or wrong
  LaterCalls,   \* those of them that may follow another call: a bound
  Strays,       \* texts that belong to no rule: stray characters, bare names
  Requests,     \* a sequence of requests [host, path, method, header, addr]
  MaxPieces     \* bound on the pieces of a rule

ASSUME RulesAssumption ==
  /\ \A ip \in DOMAIN Octets :
       Octets[ip] \in Seq(0..255) /\ Len(Octets[ip]) \in {4, 16}
  /\ \A n \in DOMAIN Ones : Ones[n] \in 0..128 /\ Ones[n] % 8 = 0
  /\ \A r \in DOMAIN Requests : Requests[r].path \in Seq(Range(Requests[r].path))
  /\ LaterCalls \subseteq Calls
  /\ MaxPieces \in Nat

Backtick == "backtick"
Comma == ","
Space == " "

\* The characters that mean something to the lexer or to parseArgs.
Special == {Space, "&", "|", "!", "(", ")", Comma, Backtick}

(* The name of a call is a name and its values can be quoted; a stray text  *)
(* is a bare name or starts with a character that no piece starts with.     *)
ASSUME TextAssumption ==
  /\ (Letters \cup Digits) \cap Special = {}
  /\ \A call \in Calls :
       /\ call.name \in Letters
       /\ call.args \in Seq(Range(call.args))
       /\ \A a \in DOMAIN call.args :
            /\ call.args[a] \in Seq(Range(call.args[a]))
            /\ Backtick \notin Range(call.args[a])
  /\ \A text \in Strays :
       /\ text # <<>> /\ text \in Seq(Range(text))
       /\ \/ text[1] \in Letters /\ Range(text) \subseteq Letters \cup Digits
          \/ text[1] \notin Letters \cup Special

VARIABLES
  rule, \* the rule as its author means it, a sequence of pieces
  tree  \* what ParseRule makes of its text

Operators == {"AND", "OR", "NOT", "LPAREN", "RPAREN"}

Invalid == [op |-> "invalid"]

-------------------------------------------------------------------------------
(* matcher.go: one matcher call.                                            *)

Arity == [Host |-> 1, PathPrefix |-> 1, Path |-> 1, Method |-> 1, Header |-> 2,
          ClientIP |-> 1]

LowerOf == [A |-> "a", B |-> "b"]
UpperOf == [a |-> "A", b |-> "B"]
Mapped(letters, text) ==
  [i \in DOMAIN text |->
     IF text[i] \in DOMAIN letters THEN letters[text[i]] ELSE text[i]]

IsRange(text) == Contains(text, "/")

\* net.ParseCIDR and net.ParseIP accept the text.
IsAddress(text) ==
  IF IsRange(text)
  THEN /\ Len(text) = 3 /\ text[1] \in DOMAIN Octets /\ text[2] = "/"
       /\ text[3] \in DOMAIN Ones
       /\ Ones[text[3]] <= 8 * Len(Octets[text[1]])
  ELSE Len(text) = 1 /\ text[1] \in DOMAIN Octets

HostOf(r) ==
  LET colons == {i \in 1..Len(r.host) : r.host[i] = ":"}
      end == IF colons = {} THEN Len(r.host) ELSE Min(colons) - 1
  IN  Mapped(LowerOf, SubSeq(r.host, 1, end))

\* http.Header.Get: "" for an absent header, and letter case of the key ignored.
HeaderGet(r, key) ==
  LET k == Mapped(LowerOf, key)
  IN  IF k \in DOMAIN r.header THEN r.header[k] ELSE <<>>

(* ClientIPNode.Match: IPNet.Contains or IP.Equal; no match if the client's *)
(* address does not parse.                                                  *)
MatchesAddress(range, addr) ==
  /\ addr \in DOMAIN Octets
  /\ IF IsRange(range)
     THEN /\ Len(Octets[range[1]]) = Len(Octets[addr])
          /\ \A i \in 1..(Ones[range[3]] \div 8) :
               Octets[range[1]][i] = Octets[addr][i]
     ELSE Octets[range[1]] = Octets[addr]

(* Match of the six matchers.                                               *)
Matches(name, args, r) ==
  CASE name = "Host"       -> HostOf(r) = Mapped(LowerOf, args[1])
    [] name = "PathPrefix" -> IsPrefix(args[1], r.path)
    [] name = "Path"       -> r.path = args[1]
    [] name = "Method"     -> r.method = Mapped(UpperOf, args[1])
    [] name = "Header"     -> HeaderGet(r, args[1]) = args[2]
    [] name = "ClientIP"   -> MatchesAddress(args[1], r.addr)

AddressScore(text) ==
  IF IsRange(text) THEN Ones[text[3]] ELSE 8 * Len(Octets[text[1]])

(* Mutant: the score of a path without its bonus over a prefix.             *)
Score_NoBonus(name, args) ==
  CASE name = "Host"                   -> 15
    [] name \in {"Path", "PathPrefix"} -> 20 + Len(args[1])
    [] name = "Method"                 -> 25
    [] name = "Header"                 -> 30
    [] name = "ClientIP"               -> AddressScore(args[1])

(* Specificity of the six matchers.                                         *)
Score(name, args) ==
  CASE name = "Host"       -> 15
    [] name = "PathPrefix" -> 20 + Len(args[1])
    [] name = "Path"       -> 30 + Len(args[1])
    [] name = "Method"     -> 25
    [] name = "Header"     -> 30
    [] name = "ClientIP"   -> AddressScore(args[1])

(* The second half of buildLeaf: a node, or Invalid for an unknown name, a  *)
(* wrong number of arguments or an address that does not parse.             *)
Leaf(name, args) ==
  IF \/ name \notin DOMAIN Arity
     \/ Len(args) # Arity[name]
     \/ name = "ClientIP" /\ ~IsAddress(args[1])
  THEN Invalid
  ELSE [op |-> name, args |-> args, score |-> Score(name, args),
        matches |-> {r \in DOMAIN Requests : Matches(name, args, Requests[r])}]

\* strings.TrimSpace.
TrimSpace(text) ==
  LET solid == {i \in 1..Len(text) : text[i] # Space}
  IN  IF solid = {} THEN <<>> ELSE SubSeq(text, Min(solid), Max(solid))

\* inBacktick before position i.
InBacktick(text, i) == Cardinality({k \in 1..(i - 1) : text[k] = Backtick}) % 2 = 1

(* The arguments from position i on, still quoted: the first one ends at a  *)
(* comma outside of backticks, and rest has those after it.                 *)
ArgsAt(inner, rest, i) ==
  LET end == Min({j \in i..(Len(inner) + 1) :
                    j = Len(inner) + 1 \/ (inner[j] = Comma /\ ~InBacktick(inner, j))})
  IN  <<TrimSpace(SubSeq(inner, i, end - 1))>>
        \o (IF end = Len(inner) + 1 THEN <<>> ELSE rest[end + 1])

SplitArgs(inner) ==
  LET args[i \in 1..(Len(inner) + 1)] == ArgsAt(inner, args, i)
  IN  args[1]

IsQuoted(arg) == Len(arg) >= 2 /\ arg[1] = Backtick /\ Last(arg) = Backtick

(* parseFunc, parseArgs and buildLeaf for the text of a call, which ends    *)
(* with a parenthesis.  A name of several characters is none of the known.  *)
buildLeaf(text) ==
  LET open == Min({i \in 1..Len(text) : text[i] = "("})
      inner == SubSeq(text, open + 1, Len(text) - 1)
      args == SplitArgs(inner)
  IN  IF \/ InBacktick(inner, Len(inner) + 1)
         \/ \E k \in DOMAIN args : ~IsQuoted(args[k])
         \/ open # 2
      THEN Invalid
      ELSE Leaf(text[1], [k \in DOMAIN args |-> SubSeq(args[k], 2, Len(args[k]) - 1)])

-------------------------------------------------------------------------------
(* lexer.go.                                                                *)

isIdentStart(c) == c \in Letters
isIdentChar(c)  == c \in Letters \cup Digits

\* Opening less closing parentheses from i to j.
Depth(text, i, j) ==
  Cardinality({k \in i..j : text[k] = "("}) - Cardinality({k \in i..j : text[k] = ")"})

(* Mutant: a call ends with the first closing parenthesis.                  *)
CallEnds_AtFirst(text, open) == {j \in open..Len(text) : text[j] = ")"}

(* Where the parentheses opened at open are all closed.                     *)
CallEnds(text, open) ==
  {j \in open..Len(text) : text[j] = ")" /\ Depth(text, open, j) = 0}

(* The end of the call that starts at i, or 0 for an error.                 *)
lexFunc(text, i) ==
  LET open == Min({k \in i..(Len(text) + 1) :
                     k = Len(text) + 1 \/ ~isIdentChar(text[k])})
  IN  IF open > Len(text) \/ text[open] # "(" \/ CallEnds(text, open) = {}
      THEN 0
      ELSE Min(CallEnds(text, open))

Token(type) == [type |-> type]

(* One round of the loop of Lex: the tokens from position i on, of which     *)
(* rest has those further on.  An error is a last token of its own.         *)
LexAt(text, rest, i) ==
  LET Pair(c) == i < Len(text) /\ text[i] = c /\ text[i + 1] = c
  IN  CASE text[i] = Space -> rest[i + 1]
        [] Pair("&")     -> <<Token("AND")>> \o rest[i + 2]
        [] Pair("|")     -> <<Token("OR")>> \o rest[i + 2]
        [] text[i] = "!" -> <<Token("NOT")>> \o rest[i + 1]
        [] text[i] = "(" -> <<Token("LPAREN")>> \o rest[i + 1]
        [] text[i] = ")" -> <<Token("RPAREN")>> \o rest[i + 1]
        [] isIdentStart(text[i]) ->
             LET end == lexFunc(text, i)
             IN  IF end = 0
                 THEN <<Token("ERROR")>>
                 ELSE <<[type |-> "FUNC", value |-> SubSeq(text, i, end)]>>
                        \o rest[end + 1]
        [] OTHER -> <<Token("ERROR")>>

LexFrom(text) ==
  LET lex[i \in 1..(Len(text) + 1)] ==
        IF i > Len(text) THEN <<>> ELSE LexAt(text, lex, i)
  IN  lex[1]

Lex(input) == LexFrom(TrimSpace(input))

-------------------------------------------------------------------------------
(* ast.go.                                                                  *)

AndNode(l, r) ==
  [op |-> "AND", left |-> l, right |-> r, score |-> l.score + r.score + 10,
   matches |-> l.matches \cap r.matches]

(* Mutant: an or adds both sides.                                           *)
OrNode_Sum(l, r) ==
  [op |-> "OR", left |-> l, right |-> r, score |-> l.score + r.score,
   matches |-> l.matches \cup r.matches]

OrNode(l, r) ==
  [op |-> "OR", left |-> l, right |-> r,
   score |-> IF l.score < r.score THEN l.score ELSE r.score,
   matches |-> l.matches \cup r.matches]

NotNode(c) ==
  [op |-> "NOT", child |-> c, score |-> c.score + 5,
   matches |-> DOMAIN Requests \ c.matches]

Binary(type, l, r) == IF type = "AND" THEN AndNode(l, r) ELSE OrNode(l, r)

-------------------------------------------------------------------------------
(* parser.go.                                                               *)

Peek(tokens, pos) == IF pos > Len(tokens) THEN "END" ELSE tokens[pos].type

(* What was read: the operands of a chain of one operator and the position  *)
(* after it.                                                                *)
Parsed(operands, pos) == [operands |-> operands, pos |-> pos]
Failed == Parsed(<<>>, 0)

\* The loops of parseOr and parseAnd put the tree together from the left.
Chain(type, operands) ==
  LET chain[n \in 1..Len(operands)] ==
        IF n = 1 THEN operands[1] ELSE Binary(type, chain[n - 1], operands[n])
  IN  chain[Len(operands)]

\* A chain as one operand of the next looser operator.
Joined(type, parsed) ==
  IF parsed = Failed THEN Failed
  ELSE Parsed(<<Chain(type, parsed.operands)>>, parsed.pos)

(* In the following, read[pos] has what parseUnary, parseAnd and parseOr    *)
(* make of the tokens from position pos on.                                 *)

parsePrimary(tokens, read, pos) ==
  CASE Peek(tokens, pos) = "FUNC" ->
         LET node == buildLeaf(tokens[pos].value)
         IN  IF node = Invalid THEN Failed ELSE Parsed(<<node>>, pos + 1)
    [] Peek(tokens, pos) = "LPAREN" ->
         LET group == Joined("OR", read[pos + 1]["OR"])
         IN  IF group = Failed \/ Peek(tokens, group.pos) # "RPAREN"
             THEN Failed
             ELSE Parsed(group.operands, group.pos + 1)
    [] OTHER -> Failed

parseUnary(tokens, read, pos) ==
  IF Peek(tokens, pos) # "NOT" THEN parsePrimary(tokens, read, pos)
  ELSE LET child == read[pos + 1]["NOT"]
       IN  IF child = Failed THEN Failed
           ELSE Parsed(<<NotNode(child.operands[1])>>, child.pos)

(* The loops of parseAnd and parseOr after their first operand: once the    *)
(* operator is there, the rest is a chain of the same kind.                 *)
parseLoop(tokens, read, type, first) ==
  IF first = Failed \/ Peek(tokens, first.pos) # type THEN first
  ELSE LET rest == read[first.pos + 1][type]
       IN  IF rest = Failed THEN Failed
           ELSE Parsed(first.operands \o rest.operands, rest.pos)

parseFrom(tokens, read, pos) ==
  LET unary == parseUnary(tokens, read, pos)
      and == parseLoop(tokens, read, "AND", unary)
      or == parseLoop(tokens, read, "OR", Joined("AND", and))
  IN  [level \in {"NOT", "AND", "OR"} |->
         IF level = "NOT" THEN unary ELSE IF level = "AND" THEN and ELSE or]

Parse(tokens) ==
  LET parse[pos \in 1..(Len(tokens) + 1)] == parseFrom(tokens, parse, pos)
  IN  parse[1]["OR"]

(* Every token must be used.                                                *)
ParseRule(raw) ==
  LET tokens == Lex(raw)
      root == Parse(tokens)
  IN  IF Contains(tokens, Token("ERROR")) \/ root.pos # Len(tokens) + 1
      THEN Invalid
      ELSE Chain("OR", root.operands)

-------------------------------------------------------------------------------
(* Rules as their author writes them: a sequence of operators, matcher      *)
(* calls and slips of the pen.                                              *)

Piece(type) == [type |-> type]
CallPiece(call) == [type |-> "CALL", call |-> call]
StrayPiece(text) == [type |-> "STRAY", text |-> text]

Pieces == {Piece(t) : t \in Operators} \cup {CallPiece(c) : c \in Calls}
            \cup {StrayPiece(t) : t \in Strays}

Has(pieces, type) == \E i \in DOMAIN pieces : pieces[i].type = type

\* What the author means by a call.
LeafOf == [call \in Calls |-> Leaf(call.name, call.args)]

Quoted(value) == <<Backtick>> \o value \o <<Backtick>>

PieceText(piece) ==
  CASE piece.type = "AND"    -> <<Space, "&", "&", Space>>
    [] piece.type = "OR"     -> <<Space, "|", "|", Space>>
    [] piece.type = "NOT"    -> <<"!">>
    [] piece.type = "LPAREN" -> <<"(">>
    [] piece.type = "RPAREN" -> <<")">>
    [] piece.type = "CALL"   ->
         <<piece.call.name, "(">>
           \o FlattenSeq([i \in DOMAIN piece.call.args |->
                IF i = 1 THEN Quoted(piece.call.args[i])
                ELSE <<Comma, Space>> \o Quoted(piece.call.args[i])])
           \o <<")">>
    [] piece.type = "STRAY"  -> piece.text

Text(pieces) == FlattenSeq([i \in DOMAIN pieces |-> PieceText(pieces[i])])

Tree(pieces) == ParseRule(Text(pieces))

\* A slip: a piece that cannot follow the one before it, a stray text or a call
\* that is no matcher.
StartsOperand(piece) == piece.type \in {"NOT", "LPAREN", "CALL"}
EndsOperand(piece) == piece.type \in {"RPAREN", "CALL"}
IsSlip(pieces, i) ==
  \/ pieces[i].type = "STRAY"
  \/ pieces[i].type = "CALL" /\ LeafOf[pieces[i].call] = Invalid
  \/ StartsOperand(pieces[i]) = (i > 1 /\ EndsOperand(pieces[i - 1]))

Slips(pieces) == Cardinality({i \in DOMAIN pieces : IsSlip(pieces, i)})

(* The author has changed the rule.  Bounds: one slip, MaxPieces pieces,    *)
(* two less in a rule with a slip, and LaterCalls for all but one call.     *)
Edit(pieces) ==
  /\ Len(pieces) <= MaxPieces
  /\ Cardinality({i \in DOMAIN pieces : pieces[i].type = "CALL"
                                         /\ pieces[i].call \notin LaterCalls}) <= 1
  /\ LET slips == Slips(pieces)
     IN  slips <= 1 /\ Len(pieces) + 2 * slips <= MaxPieces
  /\ rule' = pieces
  /\ tree' = Tree(pieces)

WritePiece == \E piece \in Pieces : Edit(Append(rule, piece))

AddCondition ==
  \E type \in {"AND", "OR"}, c \in Calls : Edit(rule \o <<Piece(type), CallPiece(c)>>)

\* What a matcher looks at; of the headers, the one that it names.
Subject(call) ==
  CASE call.name \in {"Path", "PathPrefix"} -> <<"path">>
    [] call.name = "Header" /\ call.args # <<>> ->
         <<"Header", Mapped(LowerOf, call.args[1])>>
    [] OTHER -> <<call.name>>

ReplaceLastCall ==
  /\ rule # <<>> /\ Last(rule).type = "CALL"
  /\ \E c \in Calls : /\ Subject(c) = Subject(Last(rule).call)
                       /\ Edit(Front(rule) \o <<CallPiece(c)>>)

RulesNext == WritePiece \/ AddCondition \/ ReplaceLastCall

RulesInit == rule = <<>> /\ tree = Invalid

RulesSpec == RulesInit /\ [][RulesNext]_<<rule, tree>>

-------------------------------------------------------------------------------
(* What the author means, by splitting at the operator that binds loosest.  *)

\* An operator, the node of a call, or a slip.
Symbol(piece) ==
  IF piece.type = "CALL" THEN [type |-> "LEAF", node |-> LeafOf[piece.call]]
                         ELSE piece

\* Parentheses open before position k of the symbols from i on.
Level(symbols, i, k) ==
  Cardinality({m \in i..(k - 1) : symbols[m].type = "LPAREN"})
    - Cardinality({m \in i..(k - 1) : symbols[m].type = "RPAREN"})

Outer(symbols, i, j, type) ==
  {k \in i..j : symbols[k].type = type /\ Level(symbols, i, k) = 0}

\* The symbols i to j with an operator of this type between k - 1 and k + 1.
Split(reading, type, i, k, j) ==
  LET l == reading[i][k - 1]
      r == reading[k + 1][j]
  IN  IF l = Invalid \/ r = Invalid THEN Invalid ELSE Binary(type, l, r)

\* The symbols i to j, where there is no operator outside of parentheses but !.
Unsplit(symbols, reading, i, j) ==
  CASE symbols[i].type = "NOT" ->
         IF reading[i + 1][j] = Invalid THEN Invalid ELSE NotNode(reading[i + 1][j])
    [] symbols[i].type = "LPAREN" /\ symbols[j].type = "RPAREN" ->
         reading[i + 1][j - 1]
    [] symbols[i].type = "LEAF" /\ i = j -> symbols[i].node
    [] OTHER -> Invalid

Read(symbols, reading, i, j) ==
  LET ors == Outer(symbols, i, j, "OR")
      ands == Outer(symbols, i, j, "AND")
  IN  CASE i > j -> Invalid
        [] ors # {} -> Split(reading, "OR", i, Max(ors), j)
        [] i <= j /\ ors = {} /\ ands # {} -> Split(reading, "AND", i, Max(ands), j)
        [] OTHER -> Unsplit(symbols, reading, i, j)

Reading(symbols) ==
  LET reading[i \in 1..(Len(symbols) + 1)] ==
        [j \in 0..Len(symbols) |-> Read(symbols, reading, i, j)]
  IN  reading[1][Len(symbols)]

Meaning(pieces) == Reading([i \in DOMAIN pieces |-> Symbol(pieces[i])])

\* Every value closes the parentheses it opens, and no others.
Balanced(pieces) ==
  \A i \in DOMAIN pieces : pieces[i].type = "CALL" =>
    \A a \in DOMAIN pieces[i].call.args :
      LET value == pieces[i].call.args[a]
      IN  /\ Depth(value, 1, Len(value)) = 0
          /\ \A j \in 1..Len(value) : Depth(value, 1, j) >= 0

\* DYNAMIC_CONFIG.md:47 and ADR-0008: a rule is read as its author groups it,
\* with && binding tighter than ||, operators of one kind from left to right,
\* and parentheses, commas and operators within a quoted value no part of it;
\* whatever is not a rule is refused as a whole.  (Parentheses in a value must
\* be balanced: the lexer counts them.)
ReadAsWritten == Balanced(rule) => tree = Meaning(rule)

\* A condition added at the end of a rule does what it says, even where it
\* binds to a part of the rule only: with && the rule matches no more and scores
\* no less, with || it matches no less and scores no more.  So a stricter rule
\* never ranks below the looser one it was made from; where the scores are equal
\* the names decide (route.go:66-73).
ConditionsActAsWritten ==
  [][/\ tree # Invalid /\ tree' # Invalid
     /\ Len(rule') = Len(rule) + 2 /\ Front(Front(rule')) = rule
     => CASE rule'[Len(rule) + 1].type = "AND" ->
               tree'.matches \subseteq tree.matches /\ tree'.score >= tree.score
          [] rule'[Len(rule) + 1].type = "OR" ->
               tree.matches \subseteq tree'.matches /\ tree'.score <= tree.score
    ]_<<rule, tree>>

\* The call matches some of the requests that the other does, and no others.
Narrows(call, other) ==
  /\ Invalid \notin {LeafOf[call], LeafOf[other]}
  /\ LeafOf[call].matches \notin {{}, LeafOf[other].matches}
  /\ LeafOf[call].matches \subseteq LeafOf[other].matches

\* matcher.go, the comments on Specificity: of two matchers of the same thing the
\* narrower has the higher score.  So, in the same surroundings, has the rule it
\* is in, as long as no ! turns narrow into wide; an || can make them equal.
\* (A value with unbalanced parentheses can run together with what follows it.)
\* The request goes to the route that was written for it and not to the one that
\* takes in its neighbours too.
NarrowerWins ==
  [][/\ tree # Invalid /\ tree' # Invalid /\ ~Has(rule, "NOT")
     /\ Balanced(rule) /\ Balanced(rule')
     /\ Len(rule') = Len(rule) /\ Narrows(Last(rule').call, Last(rule).call)
     => /\ tree'.matches \subseteq tree.matches
        /\ tree'.score >= tree.score
        /\ ~Has(rule, "OR") => tree'.score > tree.score
    ]_<<rule, tree>>

===============================================================================
