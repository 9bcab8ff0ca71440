-------------------------- MODULE ScrapeFrontProofs --------------------------
(***************************************************************************)
(* Proofs about ScrapeFront, for every set of source texts, of any length, *)
(* and every integer width.  IInv: a token sequence handed to the parser   *)
(* ends in Eof.  LoopInv: what the loops of the parser, the type inference *)
(* and the generator have done so far is the reference on what they have   *)
(* read so far.                                                            *)
(***************************************************************************)
EXTENDS ScrapeFront, FiniteSetTheorems, TLAPS

(* The parser's guard against the end of the tokens. *)
EndsInEof ==
  phase = "parse" => tokens # <<>> /\ tokens[Len(tokens)].kind = "Eof"

IInv == TypeOK /\ EndsInEof /\ NoIndexPanic

-----------------------------------------------------------------------------
(* The two's complement wrap of a release build is a value of the type. *)
LEMMA WrapFits == ASSUME NEW n \in Int PROVE Wrap(n) \in -(IntMax + 1) .. IntMax
<1> DEFINE m == IntMax + 1
           r == (n + IntMax + 1) % (2 * m)
<1>1. m \in Nat /\ m > 0 /\ 2 * m \in Nat /\ 2 * m > 0
  BY ScrapeAssumption
<1>2. n + IntMax + 1 \in Int
  BY ScrapeAssumption
<1>3. r \in 0 .. 2 * m - 1
  <2> HIDE DEF m
  <2> QED BY <1>1, <1>2
<1>4. r - m \in -m .. m - 1
  <2> HIDE DEF m, r
  <2> QED BY <1>1, <1>3
<1>5. Wrap(n) = r - m
  BY ScrapeAssumption DEF Wrap
<1> QED BY <1>4, <1>5, ScrapeAssumption

(* The constructors of tokens yield tokens. *)
LEMMA TokenTypes ==
  /\ \A kind \in Kinds : Token(kind) \in Tokens
  /\ \A word \in Seq(Chars) : Named(word) \in Tokens
  /\ \A n \in Int : Int64(n) \in Tokens
BY DEF Token, Named, Int64, Tokens, Kinds

(* The constructors of nodes yield nodes. *)
LEMMA NodeTypes ==
  /\ \A word \in Seq(Chars) : Function(word) \in Nodes
  /\ \A word \in Seq(Chars), n \in Int : Let(word, n) \in Nodes
  /\ Match \in Nodes
<1>1. <<"x">> \in Seq(Chars)
  BY DEF Chars, Letters
<1> QED BY <1>1 DEF Function, Let, Match, Nodes

(* The compiler starts with no token and no node. *)
LEMMA InitIInv == Init => IInv
BY ScrapeAssumption DEF Init, IInv, TypeOK, EndsInEof, NoIndexPanic

(* A token is pushed, and the scanner steps over its characters. *)
LEMMA PushStep ==
  ASSUME IInv, NEW t \in Tokens, NEW n \in Nat, Scanning, Push(t, n),
         pos + n <= Len(input) + 1
  PROVE  IInv'
BY DEF Push, IInv, TypeOK, EndsInEof, NoIndexPanic, Scanning, later

(* Every step of the lexer. *)
LEMMA LexStep == IInv /\ Lex => IInv'
<1> SUFFICES ASSUME IInv, Lex PROVE IInv'
  OBVIOUS
<1>2. CASE LexFn
  <2>1. Token("Fn") \in Tokens /\ Token("Unknown") \in Tokens
    BY TokenTypes DEF Kinds
  <2>2. CASE Push(Token("Unknown"), 1)
    <3>1. pos + 1 <= Len(input) + 1
      BY <1>2 DEF LexFn, Scanning, More, IInv, TypeOK
    <3> QED BY PushStep, <1>2, <2>1, <2>2, <3>1 DEF LexFn
  <2>3. CASE Ahead(<<"f", "n">>) /\ Push(Token("Fn"), 2)
    <3>1. pos + 2 <= Len(input) + 1
      BY <2>3 DEF Ahead, IInv, TypeOK
    <3> QED BY PushStep, <1>2, <2>1, <2>3, <3>1 DEF LexFn
  <2> QED BY <1>2, <2>2, <2>3 DEF LexFn
<1>3. CASE LexLet
  <2>1. Token("Let") \in Tokens /\ Token("Unknown") \in Tokens
    BY TokenTypes DEF Kinds
  <2>2. CASE Push(Token("Unknown"), 1)
    <3>1. pos + 1 <= Len(input) + 1
      BY <1>3 DEF LexLet, Scanning, More, IInv, TypeOK
    <3> QED BY PushStep, <1>3, <2>1, <2>2, <3>1 DEF LexLet
  <2>3. CASE Ahead(<<"l", "e", "t">>) /\ Push(Token("Let"), 3)
    <3>1. pos + 3 <= Len(input) + 1
      BY <2>3 DEF Ahead, IInv, TypeOK
    <3> QED BY PushStep, <1>3, <2>1, <2>3, <3>1 DEF LexLet
  <2> QED BY <1>3, <2>2, <2>3 DEF LexLet
<1>4. CASE LexSymbol \/ LexUnknown
  <2>1. \A kind \in Symbols \cup {"Unknown"} : Token(kind) \in Tokens
    BY TokenTypes DEF Kinds
  <2>2. pos + 1 <= Len(input) + 1
    BY <1>4 DEF LexSymbol, LexUnknown, Scanning, More, IInv, TypeOK
  <2> QED BY PushStep, <1>4, <2>1, <2>2 DEF LexSymbol, LexUnknown
<1> USE DEF IInv, TypeOK, EndsInEof, NoIndexPanic, Scanning, More, Peek, later
<1>1. CASE SkipBlank
  BY <1>1 DEF SkipBlank, SkipBlankBy
<1>5. CASE StartNumber
  BY <1>5, ScrapeAssumption DEF StartNumber
<1>6. CASE StartIdent
  BY <1>6 DEF StartIdent
<1>7. CASE LexDigit
  <2>1. Peek \in Digits => digit[Peek] \in Int
    BY DEF digit, Digits
  <2>2. num \in Int
    BY ScrapeAssumption
  <2>3. CASE Panic("overflow")
    BY <1>7, <2>3 DEF LexDigit, Panic
  <2>4. CASE num' = Wrap(num * 10 + digit[Peek])
    <3>0. num * 10 + digit[Peek] \in Int
      <4>1. digit[Peek] \in Int
        BY <1>7, <2>1 DEF LexDigit
      <4> HIDE DEF Peek, TypeOK, IInv
      <4> QED BY <2>2, <4>1
    <3>1. num' \in -(IntMax + 1) .. IntMax
      <4> HIDE DEF Peek, TypeOK, IInv
      <4> QED BY <2>4, <3>0, WrapFits
    <3>2. CASE phase' = "panic"
      BY <1>7, <3>2 DEF LexDigit, Panic
    <3>3. CASE phase' # "panic"
      BY <1>7, <3>1, <3>3 DEF LexDigit, Panic
    <3> QED BY <3>2, <3>3
  <2> QED BY <1>7, <2>3, <2>4 DEF LexDigit
<1>8. CASE EndNumber
  <2>1. Int64(num) \in Tokens
    BY TokenTypes, ScrapeAssumption
  <2> QED BY <1>8, <2>1 DEF EndNumber
<1>9. CASE LexWordChar
  <2>1. pos \in 1 .. Len(input)
    <3>1. WordChar
      BY <1>9 DEF LexWordChar
    <3>2. pos <= Len(input)
      BY <3>1 DEF WordChar
    <3> QED BY <3>2
  <2>2. input[pos] \in Chars
    BY <2>1
  <2>3. Append(ident, input[pos]) \in Seq(Chars)
    BY <2>2
  <2>4. pos' = pos + 1 /\ ident' = Append(ident, input[pos])
    BY <1>9 DEF LexWordChar
  <2>5. UNCHANGED <<phase, cause, input, mode, num, tokens, later>>
    BY <1>9 DEF LexWordChar
  <2> QED BY <2>1, <2>3, <2>4, <2>5
<1>10. CASE EndIdent
  <2>1. Named(ident) \in Tokens
    BY TokenTypes
  <2> QED BY <1>10, <2>1 DEF EndIdent
<1>11. CASE LexEof
  <2>1. Token("Eof") \in Tokens /\ Token("Eof").kind = "Eof"
    BY TokenTypes DEF Kinds, Token
  <2>2. tokens' \in Seq(Tokens) /\ tokens' # <<>> /\ tokens'[Len(tokens')] = Token("Eof")
    BY <1>11, <2>1 DEF LexEof, LexEofThen
  <2> QED BY <1>11, <2>1, <2>2 DEF LexEof, LexEofThen
<1> QED BY <1>1, <1>2, <1>3, <1>4, <1>5, <1>6, <1>7, <1>8, <1>9, <1>10, <1>11
        DEF Lex

(* The parser steps over tokens, and may add a node. *)
LEMMA SkipStep == IInv /\ phase = "parse" /\ Advance(1, <<>>) => IInv'
BY DEF Advance, IInv, TypeOK, EndsInEof, NoIndexPanic, lexed

(* The parser adds a node and steps over its tokens, which end before Eof. *)
LEMMA AddStep ==
  ASSUME IInv, NEW n \in Nat, n > 0, NEW node \in Nodes, phase = "parse",
         Advance(n, <<node>>)
  PROVE  IInv'
BY DEF Advance, IInv, TypeOK, EndsInEof, NoIndexPanic, lexed

(* Every step of the parser: a token that is no Eof is not the last one. *)
LEMMA ParseStep == IInv /\ Parse => IInv'
<1> SUFFICES ASSUME IInv, Parse PROVE IInv'
  OBVIOUS
<1>0. ASSUME NEW k \in 1 .. Len(tokens), phase = "parse", ~Is(k, "Eof")
      PROVE  Read(k + 1) /\ k + 1 \in 1 .. Len(tokens)
  BY <1>0 DEF Is, Read, IInv, TypeOK, EndsInEof
<1>3. \A k \in 1 .. Len(tokens) : tokens[k].name \in Seq(Chars) /\ tokens[k].value \in Int
  <2>1. \A t \in Tokens : t.name \in Seq(Chars) /\ t.value \in Int
    BY DEF Tokens
  <2>2. \A k \in 1 .. Len(tokens) : tokens[k] \in Tokens
    BY DEF IInv, TypeOK
  <2> QED BY <2>1, <2>2
<1>4. CASE ParseFn
  <2>1. phase = "parse" /\ i \in 1 .. Len(tokens) /\ ~Is(i, "Eof")
    BY <1>4 DEF ParseFn, ParseFnBy, Is, Parsing, IInv, TypeOK
  <2>2. Read(i + 1) /\ i + 1 \in 1 .. Len(tokens)
    BY <1>0, <2>1
  <2>3. Function(tokens[i + 1].name) \in Nodes
    BY <1>3, <2>2, NodeTypes
  <2>4. CASE Advance(1, <<>>)
    BY <2>1, <2>4, SkipStep
  <2>5. CASE Advance(2, <<Function(tokens[i + 1].name)>>)
    BY <2>1, <2>3, <2>5, AddStep
  <2> QED BY <1>4, <2>2, <2>4, <2>5 DEF ParseFn, ParseFnBy
<1>5. CASE ParseLet
  <2>1. phase = "parse" /\ i \in 1 .. Len(tokens) /\ ~Is(i, "Eof")
    BY <1>5 DEF ParseLet, Is, Parsing, IInv, TypeOK
  <2>2. Read(i + 1) /\ i + 1 \in 1 .. Len(tokens)
    BY <1>0, <2>1
  <2>3. ASSUME Is(i + 1, "Ident")
        PROVE  Read(i + 2) /\ i + 2 \in 1 .. Len(tokens)
    <3>1. ~Is(i + 1, "Eof")
      BY <2>3 DEF Is
    <3>2. Read((i + 1) + 1) /\ (i + 1) + 1 \in 1 .. Len(tokens)
      BY <1>0, <2>1, <2>2, <3>1
    <3> QED BY <2>1, <3>2
  <2>4. ASSUME Is(i + 1, "Ident"), Is(i + 2, "=")
        PROVE  Read(i + 3) /\ i + 3 \in 1 .. Len(tokens)
    <3>1. ~Is(i + 2, "Eof")
      BY <2>4 DEF Is
    <3>2. Read((i + 2) + 1) /\ (i + 2) + 1 \in 1 .. Len(tokens)
      BY <1>0, <2>1, <2>3, <2>4, <3>1
    <3> QED BY <2>1, <3>2
  <2>5. CASE Advance(1, <<>>)
    BY <2>1, <2>5, SkipStep
  <2>6. CASE /\ Is(i + 1, "Ident") /\ Is(i + 2, "=")
             /\ Advance(4, <<Let(tokens[i + 1].name, tokens[i + 3].value)>>)
    <3>1. Let(tokens[i + 1].name, tokens[i + 3].value) \in Nodes
      BY <1>3, <2>2, <2>4, <2>6, NodeTypes
    <3> QED BY <2>1, <2>6, <3>1, AddStep
  <2> QED BY <1>5, <2>2, <2>3, <2>4, <2>5, <2>6 DEF ParseLet
<1>6. CASE ParseMatch
  BY <1>6, NodeTypes, AddStep DEF ParseMatch, Parsing
<1>7. CASE ParseOther
  BY <1>7, SkipStep DEF ParseOther, Parsing
<1>8. CASE ParseEnd
  BY <1>8 DEF ParseEnd, IInv, TypeOK, EndsInEof, NoIndexPanic, lexed
<1> QED BY <1>4, <1>5, <1>6, <1>7, <1>8 DEF Parse

(* The two loops over the nodes. *)
LEMMA NodeStep == IInv /\ (Infer \/ InferEnd \/ Generate \/ GenerateEnd) => IInv'
<1> SUFFICES ASSUME IInv, Infer \/ InferEnd \/ Generate \/ GenerateEnd PROVE IInv'
  OBVIOUS
<1> USE DEF IInv, TypeOK, EndsInEof, NoIndexPanic, lexed
<1>1. CASE Infer
  <2>1. ast[i] \in Nodes
    BY <1>1 DEF Infer
  <2>2. env' \in SUBSET Seq(Chars)
    BY <1>1, <2>1 DEF Infer, Nodes
  <2> QED BY <1>1, <2>2 DEF Infer
<1>2. CASE InferEnd \/ GenerateEnd
  BY <1>2 DEF InferEnd, GenerateEnd
<1>3. CASE Generate
  BY <1>3 DEF Generate
<1> QED BY <1>1, <1>2, <1>3

(* IInv is inductive. *)
THEOREM ScrapeInvariant == Spec => []IInv
<1>1. IInv /\ UNCHANGED vars => IInv'
  BY DEF IInv, TypeOK, EndsInEof, NoIndexPanic, vars
<1>2. IInv /\ [Next]_vars => IInv'
  BY <1>1, LexStep, ParseStep, NodeStep DEF Next
<1> QED BY InitIInv, <1>2, PTL DEF Spec

(* The front end is well typed on every text; in particular pos never      *)
(* passes the end of the text by more than one, and num stays an i64.      *)
THEOREM ScrapeTypeOK == Spec => []TypeOK
<1>1. IInv => TypeOK
  BY DEF IInv
<1> QED BY ScrapeInvariant, <1>1, PTL

(* No source text, of any length, makes parse index past its tokens. *)
THEOREM ScrapeNoIndexPanic == Spec => []NoIndexPanic
<1>1. IInv => NoIndexPanic
  BY DEF IInv
<1> QED BY ScrapeInvariant, <1>1, PTL

-----------------------------------------------------------------------------
(* The list of the values of a finite set of positions grows at its end. *)

(* An empty list has no positions. *)
LEMMA ListsEmpty == \A f : Lists(<<>>, {}, f)
BY FS_EmptySet DEF Lists

(* The rank of an element of S is an index of the list. *)
LEMMA RankRange ==
  ASSUME NEW S \in SUBSET Nat, IsFiniteSet(S), NEW k \in S
  PROVE  Rank(S, k) \in 1 .. Cardinality(S)
<1> DEFINE T == {j \in S : j <= k}
<1>1. T \in SUBSET S /\ k \in T
  OBVIOUS
<1>2. IsFiniteSet(T) /\ Cardinality(T) <= Cardinality(S)
  BY <1>1, FS_Subset
<1>3. Cardinality(T) \in Nat /\ Cardinality(S) \in Nat
  BY <1>2, FS_CardinalityType
<1>4. Cardinality(T) # 0
  BY <1>1, <1>2, FS_EmptySet
<1> HIDE DEF T
<1>5. Cardinality(T) \in 1 .. Cardinality(S)
  BY <1>2, <1>3, <1>4
<1> QED BY <1>5 DEF Rank, T

(* A position past all others adds its value at the end. *)
LEMMA ListsAppend ==
  ASSUME NEW V, NEW seq \in Seq(V), NEW v \in V, NEW f, NEW g,
         NEW S \in SUBSET Nat, IsFiniteSet(S), Lists(seq, S, f),
         NEW p \in Nat, \A k \in S : k < p,
         \A k \in S : g[k] = f[k], g[p] = v
  PROVE  Lists(Append(seq, v), S \cup {p}, g)
<1> DEFINE T == S \cup {p}
<1>1. p \notin S /\ T \in SUBSET Nat
  OBVIOUS
<1>2. Cardinality(T) = Cardinality(S) + 1
  BY <1>1, FS_AddElement
<1>3. Cardinality(S) \in Nat /\ Len(seq) = Cardinality(S)
  BY FS_CardinalityType DEF Lists
<1>4. Len(Append(seq, v)) = Cardinality(T)
  BY <1>2, <1>3
<1>5. ASSUME NEW k \in S PROVE Append(seq, v)[Rank(T, k)] = g[k]
  <2>1. {j \in T : j <= k} = {j \in S : j <= k}
    OBVIOUS
  <2>2. Rank(T, k) = Rank(S, k)
    BY <2>1 DEF Rank
  <2>3. Rank(S, k) \in 1 .. Len(seq)
    BY <1>3, RankRange
  <2>4. seq[Rank(S, k)] = g[k]
    BY DEF Lists
  <2> HIDE DEF T
  <2> QED BY <2>2, <2>3, <2>4
<1>6. Append(seq, v)[Rank(T, p)] = g[p]
  <2>0. \A j \in T : j <= p
    OBVIOUS
  <2>1. {j \in T : j <= p} = T
    <3> HIDE DEF T
    <3> QED BY <2>0
  <2>2. Rank(T, p) = Len(seq) + 1
    BY <2>1, <1>2, <1>3 DEF Rank
  <2> HIDE DEF T
  <2> QED BY <2>2
<1>7. \A k \in T : Append(seq, v)[Rank(T, k)] = g[k]
  BY <1>5, <1>6
<1> HIDE DEF T
<1>8. Lists(Append(seq, v), T, g)
  BY <1>4, <1>7 DEF Lists
<1> QED BY <1>8 DEF T

-----------------------------------------------------------------------------
(* What the loops have done so far.  The parser is never inside a          *)
(* declaration, so that the token before i begins none.                    *)

NodesBefore(n) == {k \in NodePositions : k < n}

InBounds ==
  /\ phase = "lex" => i = 1
  /\ phase = "parse" => i <= Len(tokens) + 1
  /\ phase \in {"infer", "codegen"} => i <= Len(ast) + 1

ParsedSoFar ==
  /\ phase = "lex" => ast = <<>>
  /\ phase = "parse" => /\ Lists(ast, NodesBefore(i), Reference)
                        /\ ~FunctionAt(i - 1) /\ ~LetAt(i - 1)
  /\ phase \in {"infer", "codegen", "done"} => Lists(ast, NodePositions, Reference)

InferredSoFar ==
  /\ phase \in {"lex", "parse"} => env = {}
  /\ phase = "infer" => env = {ast[k].name : k \in {j \in Lets(ast) : j < i}}
  /\ phase \in {"codegen", "done"} => env = {ast[k].name : k \in Lets(ast)}

GeneratedSoFar ==
  /\ phase \in {"lex", "parse", "infer"} => code = <<>>
  /\ phase = "codegen" => Lists(code, Emitted(i - 1), ast)
  /\ phase = "done" => Lists(code, Emitted(Len(ast)), ast)
  /\ phase # "panic" => \A j \in DOMAIN code : \E k \in Emitted(Len(ast)) : code[j] = ast[k]

LoopInv == InBounds /\ ParsedSoFar /\ InferredSoFar /\ GeneratedSoFar

(* Positions are finite sets of natural numbers. *)
LEMMA FinitePositions ==
  ASSUME IInv
  PROVE  /\ NodePositions \in SUBSET Nat
         /\ \A n \in Nat : NodesBefore(n) \in SUBSET Nat /\ IsFiniteSet(NodesBefore(n))
         /\ \A n \in Nat : Emitted(n) \in SUBSET Nat /\ IsFiniteSet(Emitted(n))
<1>1. Len(tokens) \in Nat
  BY DEF IInv, TypeOK
<1>2. \A n \in Nat : IsFiniteSet(1 .. n)
  BY FS_Interval
<1>3. NodePositions \in SUBSET (1 .. Len(tokens)) /\ \A n \in Nat : NodesBefore(n) \in SUBSET (1 .. Len(tokens))
  BY DEF NodePositions, NodesBefore, Positions
<1>4. \A n \in Nat : IsFiniteSet(NodesBefore(n))
  BY <1>1, <1>2, <1>3, FS_Subset
<1>5. \A n \in Nat : Emitted(n) \in SUBSET (1 .. n)
  BY DEF Emitted
<1>6. \A n \in Nat : IsFiniteSet(Emitted(n))
  BY <1>2, <1>5, FS_Subset
<1> QED BY <1>1, <1>3, <1>4, <1>5, <1>6

LEMMA LoopInit == Init => LoopInv
BY DEF Init, LoopInv, InBounds, ParsedSoFar, InferredSoFar, GeneratedSoFar

(* The lexer leaves the later variables alone, until it hands over. *)
LEMMA LoopLex == IInv /\ LoopInv /\ Lex => LoopInv'
<1> SUFFICES ASSUME IInv, LoopInv, Lex PROVE LoopInv'
  OBVIOUS
<1>1. phase = "lex"
  BY DEF Lex, SkipBlank, SkipBlankBy, LexFn, LexLet, LexSymbol, LexUnknown, StartNumber,
         StartIdent, LexDigit, EndNumber, LexWordChar, EndIdent, LexEof, LexEofThen, Scanning
<1>2. CASE LexEof
  <2>1. phase' = "parse" /\ i' = 1 /\ ast' = <<>> /\ env' = {} /\ code' = <<>>
    BY <1>1, <1>2 DEF LexEof, LexEofThen, LoopInv, ParsedSoFar, InferredSoFar, GeneratedSoFar
  <2>2. NodesBefore(i)' = {}
    BY <2>1 DEF NodesBefore, NodePositions, Positions
  <2>3. Lists(ast, NodesBefore(i), Reference)'
    BY <2>1, <2>2, ListsEmpty
  <2>4. ~FunctionAt(i - 1)' /\ ~LetAt(i - 1)'
    BY <2>1 DEF FunctionAt, LetAt, At, Positions
  <2>5. tokens' \in Seq(Tokens)
    BY <1>2, LexStep DEF Lex, IInv, TypeOK
  <2> QED BY <2>1, <2>3, <2>4, <2>5 DEF LoopInv, InBounds, ParsedSoFar, InferredSoFar, GeneratedSoFar
<1>3. CASE ~LexEof
  <2>1. phase' \in {"lex", "panic"} /\ UNCHANGED later
    BY <1>1, <1>3
    DEF Lex, SkipBlank, SkipBlankBy, LexFn, LexLet, LexSymbol, LexUnknown, StartNumber,
        StartIdent, LexDigit, EndNumber, LexWordChar, EndIdent, Push, Panic, later
  <2> QED BY <1>1, <2>1
          DEF LoopInv, InBounds, ParsedSoFar, InferredSoFar, GeneratedSoFar, later
<1> QED BY <1>2, <1>3

(* The parser steps over a token that begins no node. *)
LEMMA LoopSkip ==
  ASSUME IInv, LoopInv, Parsing, Advance(1, <<>>), i \notin NodePositions
  PROVE  LoopInv'
<1>1. phase = "parse" /\ i \in Nat /\ i \in Positions /\ UNCHANGED <<phase, tokens, env, code>>
  BY DEF Parsing, Advance, lexed, IInv, TypeOK, Positions
<1>2. i' = i + 1 /\ ast' = ast
  BY DEF Advance, IInv, TypeOK
<1>0. NodePositions' = NodePositions /\ Reference' = Reference
  BY <1>1 DEF NodePositions, Reference, Positions, FunctionAt, LetAt, MatchAt, At, NodeAt
<1>3. NodesBefore(i)' = NodesBefore(i)
  BY <1>0, <1>1, <1>2 DEF NodesBefore, NodePositions, Positions
<1>4. ~FunctionAt(i) /\ ~LetAt(i)
  BY <1>1 DEF NodePositions
<1>5. ~FunctionAt(i - 1)' /\ ~LetAt(i - 1)'
  BY <1>1, <1>2, <1>4 DEF FunctionAt, LetAt, At, Positions
<1> QED BY <1>0, <1>1, <1>2, <1>3, <1>5
        DEF LoopInv, InBounds, ParsedSoFar, InferredSoFar, GeneratedSoFar, Positions

(* The parser adds the node at i and steps over its tokens, at which no    *)
(* other node begins.                                                      *)
LEMMA LoopAdd ==
  ASSUME IInv, LoopInv, Parsing, i \in NodePositions, NEW n \in {1, 2, 4},
         Advance(n, <<NodeAt(i)>>), NodeAt(i) \in Nodes, i + n - 1 \in Positions,
         \A k \in Positions : i < k /\ k < i + n => k \notin NodePositions,
         ~FunctionAt(i + n - 1), ~LetAt(i + n - 1)
  PROVE  LoopInv'
<1>1. phase = "parse" /\ i \in Nat /\ i \in Positions /\ UNCHANGED <<phase, tokens, env, code>>
  BY DEF Parsing, Advance, lexed, IInv, TypeOK, Positions
<1>2. i' = i + n /\ ast' = Append(ast, NodeAt(i)) /\ ast \in Seq(Nodes)
  BY DEF Advance, IInv, TypeOK
<1>3. NodePositions' = NodePositions /\ Reference' = Reference
  BY <1>1 DEF NodePositions, Reference, Positions, FunctionAt, LetAt, MatchAt, At, NodeAt
<1>4. NodesBefore(i)' = NodesBefore(i) \cup {i}
  BY <1>1, <1>2, <1>3 DEF NodesBefore, NodePositions, Positions
<1>5. Reference[i] = NodeAt(i)
  BY DEF Reference
<1>6. Lists(ast, NodesBefore(i), Reference)
  BY <1>1 DEF LoopInv, ParsedSoFar
<1>7. \A k \in NodesBefore(i) : k < i
  BY DEF NodesBefore
<1>8. Lists(Append(ast, NodeAt(i)), NodesBefore(i) \cup {i}, Reference)
  BY <1>1, <1>2, <1>5, <1>6, <1>7, FinitePositions, ListsAppend
<1>9. Lists(ast, NodesBefore(i), Reference)'
  BY <1>2, <1>3, <1>4, <1>8
<1>10. ~FunctionAt(i - 1)' /\ ~LetAt(i - 1)'
  <2>1. i' - 1 = i + n - 1
    BY <1>1, <1>2
  <2> QED BY <1>1, <2>1 DEF FunctionAt, LetAt, At, Positions
<1>11. i' <= Len(tokens') + 1
  BY <1>1, <1>2 DEF Positions, IInv, TypeOK
<1> QED BY <1>1, <1>9, <1>10, <1>11
        DEF LoopInv, InBounds, ParsedSoFar, InferredSoFar, GeneratedSoFar

(* What the parser's tests say of the reference. *)
LEMMA TestsMeetReference ==
  ASSUME IInv, Parsing
  PROVE  /\ \A k \in 0 .. 3, kind \in Kinds : At(i + k, kind) <=> Read(i + k) /\ Is(i + k, kind)
         /\ i \in Positions /\ i \in Nat
<1>1. i \in Nat /\ i > 0 /\ Len(tokens) \in Nat /\ i <= Len(tokens)
  BY DEF IInv, TypeOK, Parsing
<1> QED BY <1>1 DEF At, Read, Is, Positions

(* A node is one, since its name and its value come from tokens. *)
LEMMA NodeAtType == IInv => \A k \in NodePositions : NodeAt(k) \in Nodes
<1> SUFFICES ASSUME IInv, NEW k \in NodePositions PROVE NodeAt(k) \in Nodes
  OBVIOUS
<1>1. \A j \in Positions : tokens[j] \in Tokens
  BY DEF IInv, TypeOK, Positions
<1>2. \A j \in Positions : tokens[j].name \in Seq(Chars) /\ tokens[j].value \in Int
  BY <1>1 DEF Tokens
<1>3. FunctionAt(k) => k + 1 \in Positions
  BY DEF FunctionAt, At
<1>4. LetAt(k) => k + 1 \in Positions /\ k + 3 \in Positions
  BY DEF LetAt, At
<1> QED BY <1>2, <1>3, <1>4, NodeTypes DEF NodeAt

(* The parser's loop. *)
LEMMA LoopParse == IInv /\ LoopInv /\ Parse => LoopInv'
<1> SUFFICES ASSUME IInv, LoopInv, Parse PROVE LoopInv'
  OBVIOUS
<1>t. ASSUME Parsing
      PROVE  /\ \A k \in 0 .. 3, kind \in Kinds : At(i + k, kind) <=> Read(i + k) /\ Is(i + k, kind)
             /\ i \in Positions /\ i \in Nat
             /\ \A kind \in Kinds : At(i, kind) <=> Is(i, kind)
  BY <1>t, TestsMeetReference DEF At, Is
<1>k. {"Fn", "Let", "Ident", "=", "Int"} \subseteq Kinds
  BY DEF Kinds, Symbols
(* A token has one kind. *)
<1>o. \A k, c, d : At(k, c) /\ At(k, d) => c = d
  BY DEF At
<1>p. ASSUME Panic("index") PROVE LoopInv'
  BY <1>p DEF Panic, LoopInv, InBounds, ParsedSoFar, InferredSoFar, GeneratedSoFar
<1>1. CASE ParseFn
  <2>1. Parsing /\ At(i, "Fn")
    BY <1>1, <1>t, <1>k DEF ParseFn, ParseFnBy
  <2>2. ~LetAt(i) /\ ~MatchAt(i) /\ (FunctionAt(i) <=> Read(i + 1) /\ Is(i + 1, "Ident"))
    <3>1. At(i + 1, "Ident") <=> Read(i + 1) /\ Is(i + 1, "Ident")
      BY <2>1, <1>t, <1>k
    <3> QED BY <2>1, <3>1, <1>o DEF FunctionAt, LetAt, MatchAt
  <2>3. CASE FunctionAt(i)
    <3>1. i \in NodePositions /\ NodeAt(i) = Function(tokens[i + 1].name)
      BY <2>1, <2>3, <1>t DEF NodePositions, NodeAt
    <3>2. Advance(2, <<NodeAt(i)>>)
      BY <1>1, <2>2, <2>3, <3>1 DEF ParseFn, ParseFnBy
    <3>3. At(i + 1, "Ident") /\ i + 1 \in Positions
      BY <2>3 DEF FunctionAt, At
    <3>4. ~FunctionAt(i + 1) /\ ~LetAt(i + 1) /\ i + 1 \notin NodePositions
      <4>1. (i + 1) - 1 = i
        BY <2>1, <1>t
      <4> QED BY <2>3, <3>3, <4>1, <1>o DEF FunctionAt, LetAt, MatchAt, NodePositions
    <3>5. i + 2 - 1 = i + 1 /\ \A k \in Positions : i < k /\ k < i + 2 => k = i + 1
      BY <2>1, <1>t DEF Positions
    <3>6. NodeAt(i) \in Nodes
      BY <3>1, NodeAtType
    <3> QED BY <2>1, <3>1, <3>2, <3>3, <3>4, <3>5, <3>6, LoopAdd
  <2>4. CASE ~FunctionAt(i)
    <3>1. i \notin NodePositions
      BY <2>2, <2>4 DEF NodePositions
    <3>2. Panic("index") \/ Advance(1, <<>>)
      BY <1>1, <2>2, <2>4 DEF ParseFn, ParseFnBy
    <3> QED BY <2>1, <3>1, <3>2, <1>p, LoopSkip
  <2> QED BY <2>3, <2>4
<1>2. CASE ParseLet
  <2>1. Parsing /\ At(i, "Let")
    BY <1>2, <1>t, <1>k DEF ParseLet
  <2>2. ~FunctionAt(i) /\ ~MatchAt(i)
    BY <2>1, <1>o DEF FunctionAt, MatchAt
  <2>3. LetAt(i) <=> /\ Read(i + 1) /\ Is(i + 1, "Ident")
                     /\ Read(i + 2) /\ Is(i + 2, "=")
                     /\ Read(i + 3) /\ Is(i + 3, "Int")
    BY <2>1, <1>t, <1>k DEF LetAt
  <2>4. CASE LetAt(i)
    <3>1. i \in NodePositions /\ NodeAt(i) = Let(tokens[i + 1].name, tokens[i + 3].value)
      BY <2>1, <2>2, <2>4, <1>t DEF NodePositions, NodeAt
    <3>2. Advance(4, <<NodeAt(i)>>)
      BY <1>2, <2>3, <2>4, <3>1 DEF ParseLet
    <3>3. At(i + 1, "Ident") /\ At(i + 2, "=") /\ At(i + 3, "Int") /\ i + 3 \in Positions
      BY <2>4 DEF LetAt, At
    <3>4. i + 1 \notin NodePositions
      <4>1. (i + 1) - 1 = i
        BY <2>1, <1>t
      <4> QED BY <2>4, <3>3, <4>1, <1>o DEF FunctionAt, LetAt, MatchAt, NodePositions
    <3>5. i + 2 \notin NodePositions /\ i + 3 \notin NodePositions
      BY <3>3, <1>o DEF FunctionAt, LetAt, MatchAt, NodePositions
    <3>6. ~FunctionAt(i + 3) /\ ~LetAt(i + 3)
      BY <3>3, <1>o DEF FunctionAt, LetAt
    <3>7. i + 4 - 1 = i + 3
          /\ \A k \in Positions : i < k /\ k < i + 4 => k \in {i + 1, i + 2, i + 3}
      BY <2>1, <1>t DEF Positions
    <3>8. NodeAt(i) \in Nodes
      BY <3>1, NodeAtType
    <3> QED BY <2>1, <3>1, <3>2, <3>3, <3>4, <3>5, <3>6, <3>7, <3>8, LoopAdd
  <2>5. CASE ~LetAt(i)
    <3>1. i \notin NodePositions
      BY <2>2, <2>5 DEF NodePositions
    <3>2. Panic("index") \/ Advance(1, <<>>)
      BY <1>2, <2>3, <2>5 DEF ParseLet
    <3> QED BY <2>1, <3>1, <3>2, <1>p, LoopSkip
  <2> QED BY <2>4, <2>5
<1>3. CASE ParseMatch
  <2>1. Parsing /\ At(i, "Ident") /\ tokens[i].name = matchWord /\ Advance(1, <<Match>>)
    BY <1>3, <1>t, <1>k DEF ParseMatch
  <2>2. ~FunctionAt(i) /\ ~LetAt(i)
    BY <2>1, <1>o DEF FunctionAt, LetAt
  <2>3. ~FunctionAt(i - 1) /\ ~LetAt(i - 1)
    BY <2>1 DEF LoopInv, ParsedSoFar, Parsing
  <2>4. i \in NodePositions /\ NodeAt(i) = Match
    BY <2>1, <2>2, <2>3, <1>t DEF NodePositions, MatchAt, NodeAt
  <2>5. i + 1 - 1 = i /\ \A k \in Positions : ~(i < k /\ k < i + 1)
    BY <2>1, <1>t DEF Positions
  <2>6. NodeAt(i) \in Nodes
    BY <2>4, NodeAtType
  <2> QED BY <2>1, <2>2, <2>4, <2>5, <2>6, <1>t, LoopAdd
<1>4. CASE ParseOther
  <2>1. Parsing /\ Advance(1, <<>>) /\ ~At(i, "Fn") /\ ~At(i, "Let")
        /\ ~(At(i, "Ident") /\ tokens[i].name = matchWord)
    BY <1>4, <1>t, <1>k DEF ParseOther
  <2>2. i \notin NodePositions
    BY <2>1 DEF NodePositions, FunctionAt, LetAt, MatchAt
  <2> QED BY <2>1, <2>2, LoopSkip
<1>5. CASE ParseEnd
  <2>1. phase = "parse" /\ phase' = "infer" /\ i > Len(tokens) /\ i' = 1
        /\ UNCHANGED <<tokens, ast, env, code>>
    BY <1>5 DEF ParseEnd, lexed
  <2>2. NodesBefore(i) = NodePositions
    BY <2>1 DEF NodesBefore, NodePositions, Positions, IInv, TypeOK
  <2>3. Lists(ast, NodePositions, Reference)
    BY <2>1, <2>2 DEF LoopInv, ParsedSoFar
  <2>4. NodePositions' = NodePositions /\ Reference' = Reference
    BY <2>1 DEF NodePositions, Reference, Positions, FunctionAt, LetAt, MatchAt, At, NodeAt
  <2>5. Lists(ast, NodePositions, Reference)'
    BY <2>1, <2>3, <2>4
  <2>6. {j \in Lets(ast) : j < 1} = {}
    BY DEF Lets, IInv, TypeOK
  <2>7. env' = {} /\ code' = <<>> /\ Len(ast) \in Nat
    BY <2>1 DEF LoopInv, InferredSoFar, GeneratedSoFar, IInv, TypeOK
  <2>8. InferredSoFar'
    BY <2>1, <2>6, <2>7 DEF InferredSoFar, Lets
  <2>9. InBounds' /\ ParsedSoFar' /\ GeneratedSoFar'
    BY <2>1, <2>5, <2>7 DEF InBounds, ParsedSoFar, GeneratedSoFar
  <2> QED BY <2>8, <2>9 DEF LoopInv
<1> QED BY <1>1, <1>2, <1>3, <1>4, <1>5 DEF Parse

(* The loops over the nodes. *)
LEMMA LoopNodes == IInv /\ LoopInv /\ (Infer \/ InferEnd \/ Generate \/ GenerateEnd) => LoopInv'
<1> SUFFICES ASSUME IInv, LoopInv, Infer \/ InferEnd \/ Generate \/ GenerateEnd PROVE LoopInv'
  OBVIOUS
<1>1. UNCHANGED <<tokens, ast>> /\ i \in Nat /\ i > 0 /\ ast \in Seq(Nodes) /\ Len(ast) \in Nat
      /\ code \in Seq(Nodes)
  BY DEF Infer, InferEnd, Generate, GenerateEnd, lexed, IInv, TypeOK
<1>2. phase \in {"infer", "codegen"} /\ phase' \in {"infer", "codegen", "done"}
  BY DEF Infer, InferEnd, Generate, GenerateEnd
<1>3. NodePositions' = NodePositions /\ Reference' = Reference
  BY <1>1 DEF NodePositions, Reference, Positions, FunctionAt, LetAt, MatchAt, At, NodeAt
<1>4. ParsedSoFar'
  BY <1>1, <1>2, <1>3 DEF LoopInv, ParsedSoFar
<1>5. InBounds'
  BY <1>1, <1>2 DEF LoopInv, InBounds, Infer, InferEnd, Generate, GenerateEnd
<1>6. InferredSoFar'
  <2>1. CASE Infer
    <3>1. phase = "infer" /\ phase' = "infer" /\ i \in 1 .. Len(ast) /\ i' = i + 1
          /\ env = {ast[k].name : k \in {j \in Lets(ast) : j < i}}
          /\ env' = IF ast[i].node = "Let" THEN env \cup {ast[i].name} ELSE env
      BY <2>1, <1>1 DEF Infer, LoopInv, InferredSoFar
    <3>2. {j \in Lets(ast) : j < i + 1} =
            {j \in Lets(ast) : j < i} \cup (IF ast[i].node = "Let" THEN {i} ELSE {})
      BY <3>1, <1>1 DEF Lets
    <3>3. env' = {ast[k].name : k \in {j \in Lets(ast) : j < i + 1}}
      BY <3>1, <3>2
    <3>4. Lets(ast)' = Lets(ast)
      BY <1>1 DEF Lets
    <3> QED BY <1>1, <3>1, <3>3, <3>4 DEF InferredSoFar
  <2>2. CASE InferEnd
    <3>1. phase = "infer" /\ phase' = "codegen" /\ i > Len(ast) /\ env' = env
          /\ env = {ast[k].name : k \in {j \in Lets(ast) : j < i}}
      BY <2>2 DEF InferEnd, LoopInv, InferredSoFar
    <3>2. {j \in Lets(ast) : j < i} = Lets(ast)
      BY <3>1, <1>1 DEF Lets
    <3>3. Lets(ast)' = Lets(ast)
      BY <1>1 DEF Lets
    <3> QED BY <1>1, <3>1, <3>2, <3>3 DEF InferredSoFar
  <2>3. CASE Generate \/ GenerateEnd
    <3>1. phase = "codegen" /\ phase' \in {"codegen", "done"} /\ env' = env
      BY <2>3 DEF Generate, GenerateEnd
    <3>2. Lets(ast)' = Lets(ast)
      BY <1>1 DEF Lets
    <3> QED BY <1>1, <3>1, <3>2 DEF InferredSoFar, LoopInv
  <2> QED BY <2>1, <2>2, <2>3
<1>7. GeneratedSoFar'
  <2>1. CASE Infer
    BY <2>1, <1>1 DEF Infer, LoopInv, GeneratedSoFar
  <2>2. CASE InferEnd
    <3>1. phase = "infer" /\ phase' = "codegen" /\ code' = <<>> /\ i' = 1
      BY <2>2 DEF InferEnd, LoopInv, GeneratedSoFar
    <3>2. Emitted(i - 1)' = {}
      BY <3>1 DEF Emitted
    <3>3. Lists(code, Emitted(i - 1), ast)'
      BY <3>1, <3>2, ListsEmpty
    <3> QED BY <3>1, <3>3 DEF GeneratedSoFar
  <2>3. CASE Generate
    <3>1. /\ phase = "codegen" /\ phase' = "codegen" /\ i \in 1 .. Len(ast) /\ i' = i + 1
          /\ code' = IF ast[i].node = "Match" THEN code ELSE Append(code, ast[i])
          /\ Lists(code, Emitted(i - 1), ast)
      BY <2>3, <1>1 DEF Generate, LoopInv, GeneratedSoFar
    <3>2. Emitted(i) = IF ast[i].node = "Match" THEN Emitted(i - 1) ELSE Emitted(i - 1) \cup {i}
      BY <3>1, <1>1 DEF Emitted
    <3>3. i - 1 \in Nat /\ \A k \in Emitted(i - 1) : k < i
      BY <3>1, <1>1 DEF Emitted
    <3>4. ast[i] \in Nodes
      BY <3>1, <1>1
    <3>5. Lists(Append(code, ast[i]), Emitted(i - 1) \cup {i}, ast)
      BY <3>1, <3>3, <3>4, <1>1, FinitePositions, ListsAppend
    <3>6. Lists(code', Emitted(i), ast)
      BY <3>1, <3>2, <3>5
    <3>7. Emitted(i - 1)' = Emitted(i) /\ Emitted(Len(ast))' = Emitted(Len(ast))
      BY <3>1, <1>1 DEF Emitted
    <3>8. Lists(code, Emitted(i - 1), ast)'
      BY <3>6, <3>7, <1>1
    <3>9. \A j \in DOMAIN code : \E k \in Emitted(Len(ast)) : code[j] = ast[k]
      BY <3>1 DEF LoopInv, GeneratedSoFar
    <3>10. ASSUME NEW j \in DOMAIN code' PROVE \E k \in Emitted(Len(ast)) : code'[j] = ast[k]
      <4>1. CASE code' = code
        BY <3>9, <4>1
      <4>2. CASE ast[i].node # "Match" /\ code' = Append(code, ast[i])
        <5>1. i \in Emitted(Len(ast))
          BY <4>2, <3>1 DEF Emitted
        <5>2. j \in 1 .. Len(code) + 1
          BY <4>2, <1>1, <3>4
        <5>3. CASE j = Len(code) + 1
          BY <4>2, <5>1, <5>3, <1>1
        <5>4. CASE j \in 1 .. Len(code)
          BY <4>2, <5>4, <3>9, <1>1
        <5> QED BY <5>2, <5>3, <5>4, <1>1
      <4> QED BY <3>1, <4>1, <4>2
    <3> QED BY <3>1, <3>7, <3>8, <3>10, <1>1 DEF GeneratedSoFar
  <2>4. CASE GenerateEnd
    <3>1. phase = "codegen" /\ phase' = "done" /\ i > Len(ast) /\ code' = code /\ i <= Len(ast) + 1
      BY <2>4 DEF GenerateEnd, LoopInv, InBounds
    <3>2. i - 1 = Len(ast)
      BY <3>1, <1>1
    <3>3. Emitted(Len(ast))' = Emitted(Len(ast))
      BY <1>1 DEF Emitted
    <3> QED BY <3>1, <3>2, <3>3, <1>1 DEF LoopInv, GeneratedSoFar
  <2> QED BY <2>1, <2>2, <2>3, <2>4
<1> QED BY <1>4, <1>5, <1>6, <1>7 DEF LoopInv

(* What the loops have done so far is an invariant. *)
LEMMA LoopInvariant == Spec => [](IInv /\ LoopInv)
<1>1. Init => IInv /\ LoopInv
  BY InitIInv, LoopInit
<1>2. IInv /\ LoopInv /\ [Next]_vars => IInv' /\ LoopInv'
  <2> SUFFICES ASSUME IInv, LoopInv, [Next]_vars PROVE IInv' /\ LoopInv'
    OBVIOUS
  <2>1. CASE Next
    BY <2>1, LexStep, ParseStep, NodeStep, LoopLex, LoopParse, LoopNodes DEF Next
  <2>2. CASE UNCHANGED vars
    BY <2>2 DEF vars, IInv, TypeOK, EndsInEof, NoIndexPanic, LoopInv, InBounds, ParsedSoFar,
                InferredSoFar, GeneratedSoFar, NodesBefore, NodePositions, Positions, Reference,
                FunctionAt, LetAt, MatchAt, At, NodeAt, Emitted, Lets
  <2> QED BY <2>1, <2>2
<1> QED BY <1>1, <1>2, PTL DEF Spec

(* On every source text, of any length, the nodes, the output and the type *)
(* environment are those of the reference.                                 *)
THEOREM ScrapeMeetsReference == Spec => []OutputMeetsReference
<1>1. IInv /\ LoopInv => OutputMeetsReference
  <2> SUFFICES ASSUME IInv, LoopInv, phase = "done"
               PROVE  /\ Lists(ast, NodePositions, Reference)
                      /\ Lists(code, Emitted(Len(ast)), ast)
                      /\ env = {code[k].name : k \in Lets(code)}
    BY DEF OutputMeetsReference
  <2>1. /\ Lists(ast, NodePositions, Reference)
        /\ Lists(code, Emitted(Len(ast)), ast)
        /\ env = {ast[k].name : k \in Lets(ast)}
        /\ \A j \in DOMAIN code : \E k \in Emitted(Len(ast)) : code[j] = ast[k]
    BY DEF LoopInv, ParsedSoFar, InferredSoFar, GeneratedSoFar
  <2>2. ast \in Seq(Nodes) /\ code \in Seq(Nodes) /\ Len(ast) \in Nat
    BY DEF IInv, TypeOK
  <2>3. ASSUME NEW k \in Lets(ast) PROVE \E j \in Lets(code) : code[j].name = ast[k].name
    <3>1. k \in Emitted(Len(ast)) /\ ast[k].node = "Let"
      BY <2>2 DEF Lets, Emitted
    <3>2. Rank(Emitted(Len(ast)), k) \in 1 .. Len(code)
      BY <2>1, <2>2, <3>1, FinitePositions, RankRange DEF Lists
    <3>3. code[Rank(Emitted(Len(ast)), k)] = ast[k]
      BY <2>1, <3>1 DEF Lists
    <3>4. Rank(Emitted(Len(ast)), k) \in Lets(code)
      BY <2>2, <3>1, <3>2, <3>3 DEF Lets
    <3> QED BY <3>3, <3>4
  <2>4. ASSUME NEW j \in Lets(code) PROVE \E k \in Lets(ast) : code[j].name = ast[k].name
    <3>1. PICK k \in Emitted(Len(ast)) : code[j] = ast[k]
      BY <2>1 DEF Lets
    <3>2. k \in Lets(ast)
      BY <2>2, <3>1 DEF Lets, Emitted
    <3> QED BY <3>1, <3>2
  <2> QED BY <2>1, <2>3, <2>4
<1> QED BY LoopInvariant, <1>1, PTL

-----------------------------------------------------------------------------
(* Termination, as a measure that every step lowers. *)

Forward == \/ Stage[phase'] > Stage[phase]
           \/ phase' = phase /\ 0 <= ToGo' /\ ToGo' < ToGo

(* In lex, what is left of the text counts three times as much as the      *)
(* place in the inner loop.                                                *)
LEMMA LexForward == IInv /\ Lex => Forward
<1> SUFFICES ASSUME IInv, Lex PROVE Forward
  OBVIOUS
<1> DEFINE Loop == IF mode = "scan" THEN 1 ELSE IF Continues THEN 0 ELSE 2
<1>1. pos \in Nat /\ Len(input) \in Nat /\ pos <= Len(input) + 1 /\ phase = "lex"
  BY DEF Lex, SkipBlank, SkipBlankBy, LexFn, LexLet, LexSymbol, LexUnknown, StartNumber,
         StartIdent, LexDigit, EndNumber, LexWordChar, EndIdent, LexEof, LexEofThen, Scanning,
         IInv, TypeOK
<1>2. Loop \in 0 .. 2 /\ Loop' \in 0 .. 2
  OBVIOUS
<1>3. ToGo = 3 * (Len(input) + 1 - pos) + Loop
  BY <1>1 DEF ToGo
<1>4. phase' = "lex" => ToGo' = 3 * (Len(input') + 1 - pos') + Loop'
  BY DEF ToGo
<1>5. pos' \in Nat /\ pos' <= Len(input') + 1
  BY LexStep DEF IInv, TypeOK
<1>6. CASE LexEof
  BY <1>1, <1>6 DEF LexEof, LexEofThen, Forward, Stage
<1>7. CASE phase' = "panic"
  BY <1>1, <1>7 DEF Forward, Stage
(* A character is consumed. *)
<1>8. CASE phase' = "lex" /\ input' = input /\ pos' > pos
  <2> HIDE DEF Loop
  <2> QED BY <1>1, <1>2, <1>3, <1>4, <1>5, <1>8 DEF Forward
(* An inner loop begins or ends. *)
<1>9. CASE phase' = "lex" /\ input' = input /\ pos' = pos /\ Loop' < Loop
  <2> HIDE DEF Loop
  <2> QED BY <1>1, <1>2, <1>3, <1>4, <1>5, <1>9 DEF Forward
<1>10. CASE SkipBlank \/ LexFn \/ LexLet \/ LexSymbol \/ LexUnknown
  BY <1>1, <1>8, <1>10
  DEF SkipBlank, SkipBlankBy, LexFn, LexLet, LexSymbol, LexUnknown, Push
<1>11. CASE LexDigit \/ LexWordChar
  BY <1>1, <1>7, <1>8, <1>11 DEF LexDigit, Panic, LexWordChar
<1>12. CASE StartNumber
  <2>1. mode = "scan" /\ mode' = "number" /\ UNCHANGED <<phase, input, pos>> /\ Continues'
    BY <1>12 DEF StartNumber, Scanning, Continues, More, Peek
  <2> QED BY <1>1, <1>9, <2>1
<1>13. CASE StartIdent
  <2>1. mode = "scan" /\ mode' = "ident" /\ UNCHANGED <<phase, input, pos>> /\ Continues'
    BY <1>13 DEF StartIdent, Scanning, Continues, WordChar, More, Peek
  <2> QED BY <1>1, <1>9, <2>1
<1>14. CASE EndNumber
  <2>1. mode = "number" /\ mode' = "scan" /\ UNCHANGED <<phase, input, pos>> /\ ~Continues
    BY <1>14 DEF EndNumber, Continues
  <2> QED BY <1>1, <1>9, <2>1
<1>15. CASE EndIdent
  <2>1. mode = "ident" /\ mode' = "scan" /\ UNCHANGED <<phase, input, pos>> /\ ~Continues
    BY <1>15 DEF EndIdent, Continues
  <2> QED BY <1>1, <1>9, <2>1
<1> QED BY <1>6, <1>10, <1>11, <1>12, <1>13, <1>14, <1>15 DEF Lex

(* The parser's steps stay in the tokens, since a node ends in them. *)
LEMMA ParseForward == IInv /\ LoopInv /\ Parse => Forward
<1> SUFFICES ASSUME IInv, LoopInv, Parse PROVE Forward
  OBVIOUS
<1>1. phase = "parse" /\ i \in Nat /\ Len(tokens) \in Nat
  BY DEF Parse, ParseFn, ParseFnBy, ParseLet, ParseMatch, ParseOther, ParseEnd, Parsing, IInv, TypeOK
<1>2. CASE phase' = "panic" \/ phase' = "infer"
  BY <1>1, <1>2 DEF Forward, Stage
<1>3. CASE phase' = "parse" /\ tokens' = tokens /\ i' > i
  <2>1. i' \in Nat /\ i' <= Len(tokens) + 1
    BY <1>3, ParseStep, LoopParse DEF LoopInv, InBounds, IInv, TypeOK
  <2> QED BY <1>1, <1>3, <2>1 DEF Forward, ToGo
<1>4. ASSUME NEW n \in {1, 2, 4}, NEW nodes, Advance(n, nodes) PROVE Forward
  BY <1>1, <1>3, <1>4 DEF Advance, lexed
<1> QED BY <1>2, <1>4
        DEF Parse, ParseFn, ParseFnBy, ParseLet, ParseMatch, ParseOther, ParseEnd, Panic

LEMMA NodeForward ==
  IInv /\ LoopInv /\ (Infer \/ InferEnd \/ Generate \/ GenerateEnd) => Forward
<1> SUFFICES ASSUME IInv, LoopInv, Infer \/ InferEnd \/ Generate \/ GenerateEnd PROVE Forward
  OBVIOUS
<1>1. i \in Nat /\ Len(ast) \in Nat
  BY DEF IInv, TypeOK
<1>2. CASE InferEnd \/ GenerateEnd
  BY <1>2 DEF InferEnd, GenerateEnd, Forward, Stage
<1>3. CASE Infer \/ Generate
  BY <1>1, <1>3 DEF Infer, Generate, Forward, ToGo
<1> QED BY <1>2, <1>3

(* On every text each step of the compiler lowers a measure that cannot    *)
(* fall for ever: it takes finitely many steps.                            *)
THEOREM ScrapeMovesOn == Spec => MovesOn
<1>1. ASSUME IInv, LoopInv, [Next]_vars
      PROVE [ \/ Stage[phase'] > Stage[phase]
              \/ phase' = phase /\ 0 <= ToGo' /\ ToGo' < ToGo ]_vars
  <2>1. Forward \/ UNCHANGED vars
    BY <1>1, LexForward, ParseForward, NodeForward DEF Next
  <2> QED BY <2>1 DEF Forward
<1> QED BY LoopInvariant, <1>1, PTL DEF Spec, MovesOn
=============================================================================
