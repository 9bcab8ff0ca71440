----------------------------- MODULE ScrapeFront -----------------------------
(***************************************************************************)
(* The reference compiler of ScrapeC (scrapec/src): main.rs passes one     *)
(* source text through lex, parse, infer_type and generate_c.  A text is a *)
(* sequence of characters; one step of the lexer looks at one character,   *)
(* one step of the parser at one token, and one step of the later phases   *)
(* at one node.  A panic of the program is a phase of its own, with its    *)
(* cause.                                                                  *)
(***************************************************************************)
EXTENDS Integers, Sequences, FiniteSets

CONSTANTS
  Inputs,   \* the source texts
  IntMax    \* i64::MAX

Blank   == {" ", "\n", "\t"}
Digits  == {"0", "1", "2", "3", "4", "5", "6", "7", "8", "9"}
Symbols == {"+", "-", "*", "/", "(", ")", "{", "}", ";", ",", "="}
Letters == {"a", "c", "e", "f", "h", "l", "m", "n", "o", "t", "x"}
Others  == {"_", "?"}   \* neither alphabetic nor known
Chars   == Blank \cup Digits \cup Symbols \cup Letters \cup Others

ASSUME ScrapeAssumption == Inputs \subseteq Seq(Chars) /\ IntMax \in Nat

VARIABLES
  phase,    \* lex, parse, infer, codegen, done, panic
  cause,    \* of a panic
  input, pos,        \* the text, and the position of chars.peek()
  mode,              \* the loop of lex that is running
  num, ident,        \* its accumulators
  tokens,
  i,                 \* index of the parser (from 1), then of the node
  ast, env, code

vars == <<phase, cause, input, pos, mode, num, ident, tokens, i, ast, env, code>>

(* Tokens: a symbol is its own kind; Ident carries a name, Int a value. *)
Kinds == Symbols \cup {"Fn", "Let", "Ident", "Int", "Unknown", "Eof"}
Token(kind) == [kind |-> kind, name |-> <<>>, value |-> 0]
Named(word) == [kind |-> "Ident", name |-> word, value |-> 0]
Int64(n)    == [kind |-> "Int", name |-> <<>>, value |-> n]

Tokens == [kind : Kinds, name : Seq(Chars), value : Int]
Nodes  == [node : {"Function", "Let", "Match"}, name : Seq(Chars), value : Int]

TypeOK ==
  /\ phase \in {"lex", "parse", "infer", "codegen", "done", "panic"}
  /\ cause \in {"none", "overflow", "index"}
  /\ input \in Seq(Chars)
  /\ pos \in 1 .. Len(input) + 1
  /\ mode \in {"scan", "number", "ident"}
  /\ num \in -(IntMax + 1) .. IntMax
  /\ ident \in Seq(Chars)
  /\ tokens \in Seq(Tokens)
  /\ i \in Nat \ {0}
  /\ ast \in Seq(Nodes)
  /\ env \in SUBSET Seq(Chars)
  /\ code \in Seq(Nodes)

Init ==
  /\ phase = "lex" /\ cause = "none"
  /\ input \in Inputs /\ pos = 1
  /\ mode = "scan" /\ num = 0 /\ ident = <<>>
  /\ tokens = <<>> /\ i = 1 /\ ast = <<>> /\ env = {} /\ code = <<>>

-----------------------------------------------------------------------------
(* lex *)

More == pos <= Len(input)
Peek == input[pos]

(* chars.clone().take(n) equals the word. *)
Ahead(word) == /\ pos + Len(word) - 1 <= Len(input)
               /\ \A k \in 1 .. Len(word) : input[pos + k - 1] = word[k]

Scanning == phase = "lex" /\ mode = "scan" /\ More
later == <<i, ast, env, code>>

(* One arm of the match: push a token and step over n characters. *)
Push(token, n) ==
  /\ tokens' = Append(tokens, token) /\ pos' = pos + n
  /\ UNCHANGED <<phase, cause, input, mode, num, ident, later>>

SkipBlankBy(n) ==
  /\ Scanning /\ Peek \in Blank
  /\ pos' = pos + n
  /\ UNCHANGED <<phase, cause, input, mode, num, ident, tokens, later>>

SkipBlank_stays == SkipBlankBy(0)
SkipBlank == SkipBlankBy(1)

LexFn == /\ Scanning /\ Peek = "f"
         /\ IF Ahead(<<"f", "n">>) THEN Push(Token("Fn"), 2)
                                   ELSE Push(Token("Unknown"), 1)

LexLet == /\ Scanning /\ Peek = "l"
          /\ IF Ahead(<<"l", "e", "t">>) THEN Push(Token("Let"), 3)
                                         ELSE Push(Token("Unknown"), 1)

LexSymbol == Scanning /\ Peek \in Symbols /\ Push(Token(Peek), 1)

LexUnknown == Scanning /\ Peek \in Others /\ Push(Token("Unknown"), 1)

StartNumber ==
  /\ Scanning /\ Peek \in Digits
  /\ mode' = "number" /\ num' = 0
  /\ UNCHANGED <<phase, cause, input, pos, ident, tokens, later>>

StartIdent ==
  /\ Scanning /\ Peek \in Letters \ {"f", "l"}
  /\ mode' = "ident" /\ ident' = <<>>
  /\ UNCHANGED <<phase, cause, input, pos, num, tokens, later>>

digit == [c \in Digits |->
            CASE c = "0" -> 0 [] c = "1" -> 1 [] c = "2" -> 2 [] c = "3" -> 3
              [] c = "4" -> 4 [] c = "5" -> 5 [] c = "6" -> 6 [] c = "7" -> 7
              [] c = "8" -> 8 [] c = "9" -> 9]

Fits(n) == n \in -(IntMax + 1) .. IntMax
Wrap_none(n) == n
Wrap(n) == ((n + IntMax + 1) % (2 * (IntMax + 1))) - (IntMax + 1)

Panic(why) ==
  /\ phase' = "panic" /\ cause' = why
  /\ UNCHANGED <<input, pos, mode, num, ident, tokens, later>>

(* num * 10 + d: an i64 that overflows panics in a debug build and wraps   *)
(* around in a release build.                                              *)
LexDigit ==
  /\ phase = "lex" /\ mode = "number" /\ More /\ Peek \in Digits
  /\ LET n == num * 10 + digit[Peek] IN
     \/ /\ num' = Wrap(n) /\ pos' = pos + 1
        /\ UNCHANGED <<phase, cause, input, mode, ident, tokens, later>>
     \/ ~Fits(n) /\ Panic("overflow")

EndNumber ==
  /\ phase = "lex" /\ mode = "number" /\ ~(More /\ Peek \in Digits)
  /\ tokens' = Append(tokens, Int64(num)) /\ mode' = "scan"
  /\ UNCHANGED <<phase, cause, input, pos, num, ident, later>>

WordChar == More /\ Peek \in Letters \cup Digits \cup {"_"}

LexWordChar_stays ==
  /\ phase = "lex" /\ mode = "ident" /\ WordChar
  /\ ident' = Append(ident, Peek)
  /\ UNCHANGED <<phase, cause, input, pos, mode, num, tokens, later>>

LexWordChar ==
  /\ phase = "lex" /\ mode = "ident" /\ WordChar
  /\ ident' = Append(ident, Peek) /\ pos' = pos + 1
  /\ UNCHANGED <<phase, cause, input, mode, num, tokens, later>>

EndIdent ==
  /\ phase = "lex" /\ mode = "ident" /\ ~WordChar
  /\ tokens' = Append(tokens, Named(ident)) /\ mode' = "scan"
  /\ UNCHANGED <<phase, cause, input, pos, num, ident, later>>

LexEofThen(rest) ==
  /\ phase = "lex" /\ mode = "scan" /\ ~More
  /\ tokens' = tokens \o rest /\ phase' = "parse" /\ i' = 1
  /\ UNCHANGED <<cause, input, pos, mode, num, ident, ast, env, code>>

LexEof_missing == LexEofThen(<<>>)
LexEof == LexEofThen(<<Token("Eof")>>)

Lex == \/ SkipBlank \/ LexFn \/ LexLet \/ LexSymbol \/ LexUnknown
       \/ StartNumber \/ StartIdent \/ LexDigit \/ EndNumber
       \/ LexWordChar \/ EndIdent \/ LexEof

-----------------------------------------------------------------------------
(* parse *)

Parsing == phase = "parse" /\ i <= Len(tokens)
Is(k, kind) == tokens[k].kind = kind
Read(k) == k <= Len(tokens)       \* tokens[k] does not panic
lexed == <<input, pos, mode, num, ident, tokens>>

Advance(n, nodes) ==
  /\ i' = i + n /\ ast' = ast \o nodes
  /\ UNCHANGED <<phase, cause, lexed, env, code>>

Function(word) == [node |-> "Function", name |-> word, value |-> 0]
Let(word, n)   == [node |-> "Let", name |-> word, value |-> n]
Match          == [node |-> "Match", name |-> <<"x">>, value |-> 0]

ParseFnBy(n) ==
  /\ Parsing /\ Is(i, "Fn")
  /\ \/ ~Read(i + 1) /\ Panic("index")
     \/ /\ Read(i + 1) /\ Is(i + 1, "Ident")
        /\ Advance(n, <<Function(tokens[i + 1].name)>>)
     \/ Read(i + 1) /\ ~Is(i + 1, "Ident") /\ Advance(1, <<>>)

ParseFn_one == ParseFnBy(1)
ParseFn == ParseFnBy(2)

(* The three tests are nested: a token is read only after the one before *)
(* it had the right kind.                                                *)
ParseLet ==
  /\ Parsing /\ Is(i, "Let")
  /\ \/ ~Read(i + 1) /\ Panic("index")
     \/ Read(i + 1) /\ ~Is(i + 1, "Ident") /\ Advance(1, <<>>)
     \/ /\ Read(i + 1) /\ Is(i + 1, "Ident")
        /\ \/ ~Read(i + 2) /\ Panic("index")
           \/ Read(i + 2) /\ ~Is(i + 2, "=") /\ Advance(1, <<>>)
           \/ /\ Read(i + 2) /\ Is(i + 2, "=")
              /\ \/ ~Read(i + 3) /\ Panic("index")
                 \/ Read(i + 3) /\ ~Is(i + 3, "Int") /\ Advance(1, <<>>)
                 \/ /\ Read(i + 3) /\ Is(i + 3, "Int")
                    /\ Advance(4, <<Let(tokens[i + 1].name, tokens[i + 3].value)>>)

matchWord == <<"m", "a", "t", "c", "h">>

ParseMatch ==
  /\ Parsing /\ Is(i, "Ident") /\ tokens[i].name = matchWord
  /\ Advance(1, <<Match>>)

ParseOther ==
  /\ Parsing /\ ~Is(i, "Fn") /\ ~Is(i, "Let")
  /\ ~(Is(i, "Ident") /\ tokens[i].name = matchWord)
  /\ Advance(1, <<>>)

ParseEnd ==
  /\ phase = "parse" /\ i > Len(tokens)
  /\ phase' = "infer" /\ i' = 1
  /\ UNCHANGED <<cause, lexed, ast, env, code>>

Parse == ParseFn \/ ParseLet \/ ParseMatch \/ ParseOther \/ ParseEnd

-----------------------------------------------------------------------------
(* infer_type and generate_c, over the nodes in order *)

Infer ==
  /\ phase = "infer" /\ i <= Len(ast)
  /\ i' = i + 1
  /\ env' = IF ast[i].node = "Let" THEN env \cup {ast[i].name} ELSE env
  /\ UNCHANGED <<phase, cause, lexed, ast, code>>

InferEnd ==
  /\ phase = "infer" /\ i > Len(ast)
  /\ phase' = "codegen" /\ i' = 1
  /\ UNCHANGED <<cause, lexed, ast, env, code>>

Generate ==
  /\ phase = "codegen" /\ i <= Len(ast)
  /\ i' = i + 1
  /\ code' = IF ast[i].node = "Match" THEN code ELSE Append(code, ast[i])
  /\ UNCHANGED <<phase, cause, lexed, ast, env>>

GenerateEnd ==
  /\ phase = "codegen" /\ i > Len(ast)
  /\ phase' = "done"
  /\ UNCHANGED <<cause, lexed, i, ast, env, code>>

-----------------------------------------------------------------------------
Next == Lex \/ Parse \/ Infer \/ InferEnd \/ Generate \/ GenerateEnd

Spec == Init /\ [][Next]_vars

(* The compiler runs until it returns or panics. *)
FairSpec == Spec /\ WF_vars(Next)

-----------------------------------------------------------------------------
(* PROPERTIES *)

(* parse indexes up to three tokens ahead without a bounds check; no text  *)
(* makes it read past the end, since lex ends with Eof and each test stops *)
(* at the first token of the wrong kind.                                   *)
NoIndexPanic == cause # "index"

(* What parse should compute, stated over the tokens without its loop. *)
Positions == 1 .. Len(tokens)
At(k, kind) == k \in Positions /\ tokens[k].kind = kind

FunctionAt(k) == At(k, "Fn") /\ At(k + 1, "Ident")
LetAt(k) == At(k, "Let") /\ At(k + 1, "Ident") /\ At(k + 2, "=") /\ At(k + 3, "Int")
MatchAt(k) == /\ At(k, "Ident") /\ tokens[k].name = matchWord
              /\ ~FunctionAt(k - 1) /\ ~LetAt(k - 1)

NodeAt(k) == IF FunctionAt(k) THEN Function(tokens[k + 1].name)
             ELSE IF LetAt(k) THEN Let(tokens[k + 1].name, tokens[k + 3].value)
             ELSE Match

NodePositions == {k \in Positions : FunctionAt(k) \/ LetAt(k) \/ MatchAt(k)}
Reference == [k \in NodePositions |-> NodeAt(k)]

(* seq has the values f[k], for k in S, in the order of S. *)
Rank(S, k) == Cardinality({j \in S : j <= k})
Lists(seq, S, f) == Len(seq) = Cardinality(S) /\ \A k \in S : seq[Rank(S, k)] = f[k]

Emitted(n) == {k \in 1 .. n : ast[k].node # "Match"}
Lets(seq) == {k \in DOMAIN seq : seq[k].node = "Let"}

(* parse yields exactly one node for every declaration and every match in  *)
(* the token sequence, in order, although it skips two or four tokens at a *)
(* time; generate_c emits all of them but the match nodes, in order, and   *)
(* infer_type has a type for the variables that are emitted, and no other. *)
OutputMeetsReference ==
  phase = "done" => /\ Lists(ast, NodePositions, Reference)
                    /\ Lists(code, Emitted(Len(ast)), ast)
                    /\ env = {code[k].name : k \in Lets(code)}

(* The compiler never loops: every text ends in output or in a panic, of   *)
(* an integer literal that does not fit.                                   *)
Terminates == <>(phase = "done" \/ cause = "overflow")

(* Why it does: each step goes on to a later phase, or comes closer to the *)
(* end of the text, the tokens or the nodes.  In lex an inner loop may     *)
(* begin or end without consuming a character, but not both at one place.  *)
Stage == [lex |-> 1, parse |-> 2, infer |-> 3, codegen |-> 4, done |-> 5, panic |-> 5]

Continues == IF mode = "number" THEN More /\ Peek \in Digits ELSE WordChar

ToGo == IF phase = "lex"
        THEN 3 * (Len(input) + 1 - pos)
             + (IF mode = "scan" THEN 1 ELSE IF Continues THEN 0 ELSE 2)
        ELSE IF phase = "parse" THEN Len(tokens) + 1 - i
        ELSE Len(ast) + 1 - i

MovesOn == [][ \/ Stage[phase'] > Stage[phase]
               \/ phase' = phase /\ 0 <= ToGo' /\ ToGo' < ToGo ]_vars
=============================================================================
