---------------------------- MODULE ParserProofs ----------------------------
(***************************************************************************)
(* Theorems about the parser, for every sequence of tokens and every limit *)
(* of recursion_depth: the types of its state, the order of the lines, and *)
(* the parts of an IF.                                                     *)
(***************************************************************************)
EXTENDS Parser, FiniteSetTheorems, SequenceTheorems, WellFoundedInduction, TLAPS

-----------------------------------------------------------------------------
(* The trees that have been built so far.                                  *)

(* The literals are listed: the provers do not know them to be strings.    *)
Kind == {"null", "group", "var", "const", "op", "call", "stmt", "program"}
Type == STRING \cup {"", "EOF", "CUMINUS", "REM"}
Token == [t : Type, v : Nat]
NodesIn(S) == [k : Kind, t : Type, v : Nat, line : Nat, kids : Seq(S)]

(* A set of nodes, closed under children, that has the node of each token. *)
Closed(S) ==
    /\ S \subseteq NodesIn(S)
    /\ NoNode \in S
    /\ \A tok \in Token : Leaf(tok) \in S

(* Every node is typed; so is the node of some children.                   *)
LEMMA NodesTyped ==
    ASSUME NEW S, NEW kind \in Kind, NEW tok \in Token, NEW kids \in Seq(S)
    PROVE  NodeOf(kind, tok, kids) \in NodesIn(S)
  BY DEF NodeOf, NodesIn, Token

(* A token on its own has no children. *)
LEMMA LeavesTyped ==
    ASSUME NEW S, NEW tok \in Token
    PROVE  Leaf(tok) \in NodesIn(S)
<1>1. <<>> \in Seq(S)
  OBVIOUS
<1> QED
  BY <1>1, NodesTyped DEF Leaf, Kind

(* There is a closed set: the nodes without children.                      *)
LEMMA SomeClosed == \E S : Closed(S)
<1> DEFINE S == {NoNode} \cup {Leaf(tok) : tok \in Token}
<1>1. NoToken \in Token
  BY DEF NoToken, Token, Type
<1>2. NoNode \in NodesIn(S)
  <2>1. <<>> \in Seq(S)
    OBVIOUS
  <2> QED
    BY <1>1, <2>1, NodesTyped DEF NoNode, Kind
<1>3. \A tok \in Token : Leaf(tok) \in NodesIn(S)
  BY LeavesTyped
<1> QED
  BY <1>2, <1>3 DEF Closed

(* A set stays closed with a node of its own children.                     *)
LEMMA ClosedGrows ==
    ASSUME NEW S, Closed(S), NEW n \in NodesIn(S)
    PROVE  Closed(S \cup {n}) /\ n \in S \cup {n}
<1>1. Seq(S) \subseteq Seq(S \cup {n})
  BY SeqMonotonic
<1> QED
  BY <1>1 DEF Closed, NodesIn

-----------------------------------------------------------------------------
(* The parser's place among the tokens.                                    *)

ParserState == [pos : 1..(Len(tokens) + 1), err : BOOLEAN, depth : 0..MaxDepth,
                line : Nat]
InputTyped == tokens \in Seq([t : STRING, v : Nat])

(* There is a token at every place, if only EOF.                           *)
LEMMA PeekTyped ==
    ASSUME InputTyped, NEW q \in ParserState
    PROVE  /\ Peek(q) \in Token /\ PeekType(q) \in Type
           /\ Peek(q).v \in Nat
<1>1. EOF \in Token
  BY DEF EOF, Token, Type
<1>2. q.pos \in 1..(Len(tokens) + 1) /\ Len(tokens) \in Nat
  BY DEF ParserState, InputTyped
<1>3. Peek(q) \in Token
  <2>1. CASE q.pos <= Len(tokens)
    <3>1. tokens[q.pos] \in [t : STRING, v : Nat]
      <4>1. q.pos \in 1..Len(tokens)
        BY <1>2, <2>1
      <4> QED
        BY <4>1, ElementOfSeq DEF InputTyped
    <3>2. STRING \subseteq Type
      BY DEF Type
    <3>3. tokens[q.pos] \in Token
      BY <3>1, <3>2 DEF Token
    <3> QED
      BY <2>1, <3>3 DEF Peek, TokenAt
  <2>2. CASE ~(q.pos <= Len(tokens))
    BY <1>1, <2>2 DEF Peek, TokenAt
  <2> QED
    BY <2>1, <2>2
<1> QED
  BY <1>3 DEF PeekType, Token

(* The next token is there too; nothing else changes.                      *)
LEMMA AdvanceTyped ==
    ASSUME InputTyped, NEW q \in ParserState
    PROVE  /\ Advance(q) \in ParserState
           /\ Advance(q).line = q.line /\ Advance(q).depth = q.depth
  BY DEF Advance, ParserState, InputTyped

(* An error changes only the flag.                                         *)
LEMMA ErrorTyped ==
    ASSUME NEW q \in ParserState
    PROVE  /\ set_error(q) \in ParserState
           /\ set_error(q).line = q.line /\ set_error(q).depth = q.depth
  BY DEF set_error, ParserState

LEMMA MatchTyped ==
    ASSUME InputTyped, NEW q \in ParserState, NEW expected
    PROVE  LET m == match_or_error(q, expected)
           IN  m \in ParserState /\ m.line = q.line /\ m.depth = q.depth
  BY AdvanceTyped, ErrorTyped DEF match_or_error

(* A set of natural numbers with a member has a least one.                 *)
LEMMA LeastNumber ==
    ASSUME NEW T \in SUBSET Nat, T # {}
    PROVE  Min(T) \in T /\ \A y \in T : Min(T) <= y
<1> DEFINE R == OpToRel(<, Nat)
<1>1. IsWellFoundedOn(R, Nat)
  BY NatLessThanWellFounded
<1>2. PICK x \in T : \A y \in T : ~(<<y, x>> \in R)
  <2> HIDE DEF R
  <2> QED
    BY <1>1, WFMin
<1>3. \A y \in T : ~(y < x)
  BY <1>2 DEF OpToRel
<1>4. \A y \in T : x <= y
  BY <1>3
<1> QED
  BY <1>4 DEF Min

(* The tokens of one type end at EOF, if not before.                       *)
LEMMA ConsumeTyped ==
    ASSUME InputTyped, NEW q \in ParserState, NEW stops, "EOF" \in stops
    PROVE  LET c == ConsumeTo(q, stops)
           IN  c \in ParserState /\ c.line = q.line /\ c.depth = q.depth
<1> DEFINE T == {i \in q.pos..(Len(tokens) + 1) : TypeAt(i) \in stops}
<1>1. Len(tokens) + 1 \in T
  <2>1. TypeAt(Len(tokens) + 1) = "EOF"
    BY DEF TypeAt, TokenAt, InputTyped, EOF
  <2> QED
    BY <2>1 DEF ParserState, InputTyped
<1>2. T \in SUBSET Nat /\ T \subseteq 1..(Len(tokens) + 1)
  BY DEF ParserState, InputTyped
<1>3. Min(T) \in T
  <2> HIDE DEF T
  <2> QED
    BY <1>1, <1>2, LeastNumber
<1>4. ConsumeTo(q, stops) = [q EXCEPT !.pos = Min(T)]
  BY DEF ConsumeTo
<1> QED
  <2> HIDE DEF T
  <2> QED
    BY <1>2, <1>3, <1>4 DEF ParserState

-----------------------------------------------------------------------------
(* The stack.                                                              *)

RuleNames == DOMAIN Rules \cup {"STATEMENT"}
             \cup {StatementRule[t] : t \in DOMAIN StatementRule}
Levels == {0, UnaryPrecedence} \cup {LedPrecedence[op] : op \in DOMAIN LedPrecedence}
          \cup {LedPrecedence[op] + 1 : op \in DOMAIN LedPrecedence}

ExpressionFrames(S) ==
    [call : {"expression", "led"}, min : Levels]
    \cup [call : {"operator"}, tok : Token, left : S]
    \cup [call : {"subscript", "argument"}, tok : Token, args : Seq(S)]
    \cup [call : {"parenthesis"}]
    \cup [call : {"sign"}, tok : Token]
StatementFrames(S) ==
    [call : {"statement"}] \cup [call : {"made"}, t : Type]
    \cup [call : {"print", "channel", "operand"}, t : Type, kids : Seq(S)]
RuleFrames(S) ==
    [call : {"rule", "entry"}, nt : RuleNames, a : Nat, i : Nat,
     start : 1..(Len(tokens) + 1), kids : Seq(S)]
BodyFrames(S) == [call : {"body", "body_statement"}, kids : Seq(S)]
NonTerminals == [call : {"nonterminal"}, nt : RuleNames]
OtherFrames(S) ==
    ExpressionFrames(S) \cup StatementFrames(S) \cup BodyFrames(S) \cup NonTerminals
Frames(S) == RuleFrames(S) \cup OtherFrames(S)

(* What is on the stack stays typed when more nodes are built.             *)
LEMMA FramesGrow ==
    ASSUME NEW S, NEW T, S \subseteq T
    PROVE  /\ Frames(S) \subseteq Frames(T)
           /\ Seq(Frames(S)) \subseteq Seq(Frames(T))
<1>1. Seq(S) \subseteq Seq(T)
  BY SeqMonotonic
<1>2. ExpressionFrames(S) \subseteq ExpressionFrames(T)
  BY <1>1 DEF ExpressionFrames
<1>3. StatementFrames(S) \subseteq StatementFrames(T)
  BY <1>1 DEF StatementFrames
<1>4. RuleFrames(S) \subseteq RuleFrames(T)
  BY <1>1 DEF RuleFrames
<1>5. OtherFrames(S) \subseteq OtherFrames(T)
  <2>1. BodyFrames(S) \subseteq BodyFrames(T)
    BY <1>1 DEF BodyFrames
  <2> QED
    BY <1>2, <1>3, <2>1 DEF OtherFrames
<1>6. Frames(S) \subseteq Frames(T)
  BY <1>4, <1>5 DEF Frames
<1> QED
  BY <1>6, SeqMonotonic

-----------------------------------------------------------------------------
(* What a call does.                                                       *)

(* A call that leaves recursion_depth alone, and makes calls of F.         *)
Quiet(r, q, F, S) ==
    /\ r = Does(r.node, r.p, r.calls)
    /\ r.p \in ParserState /\ r.p.line = q.line /\ r.p.depth = q.depth
    /\ r.node \in NodesIn(S)
    /\ r.calls \in Seq(F)

LEMMA QuietReturn ==
    ASSUME NEW q, NEW m \in ParserState, m.line = q.line, m.depth = q.depth,
           NEW S, NEW F, NEW n \in NodesIn(S)
    PROVE  Quiet(Return(n, m), q, F, S)
  BY DEF Quiet, Return, Does

LEMMA QuietContinue ==
    ASSUME NEW q, NEW m \in ParserState, m.line = q.line, m.depth = q.depth,
           NEW S, Closed(S), NEW F, NEW cs \in Seq(F)
    PROVE  Quiet(Continue(m, cs), q, F, S)
  BY DEF Quiet, Continue, Does, Closed

LEMMA QuietThen ==
    ASSUME NEW q, NEW r, NEW S, NEW F, Quiet(r, q, F, S), NEW c \in F
    PROVE  Quiet(Then(r, c), q, F, S)
  BY DEF Quiet, Then, Does

(* The first of two functions among the calls. *)
LEMMA ExpressionFrame ==
    ASSUME NEW S, NEW min \in Levels
    PROVE  Expression(min) \in ExpressionFrames(S)
  BY DEF Expression, ExpressionFrames

LEMMA VariableTyped ==
    ASSUME InputTyped, NEW q \in ParserState, NEW S, Closed(S)
    PROVE  Quiet(parse_variable(q), q, ExpressionFrames(S), S)
<1> DEFINE open == Advance(q)
           list == Advance(open)
           rest == [call |-> "subscript", tok |-> Peek(q), args |-> <<>>]
<1>1. /\ open \in ParserState /\ open.line = q.line /\ open.depth = q.depth
      /\ list \in ParserState /\ list.line = q.line /\ list.depth = q.depth
      /\ Advance(list) \in ParserState
      /\ Advance(list).line = q.line /\ Advance(list).depth = q.depth
  BY AdvanceTyped
<1>2. Peek(q) \in Token /\ <<>> \in Seq(S)
  BY PeekTyped
<1>3. NodeOf("var", Peek(q), <<>>) \in NodesIn(S)
  BY <1>2, NodesTyped DEF Kind
<1>4. <<Expression(0), rest>> \in Seq(ExpressionFrames(S))
  <2>1. 0 \in Levels
    BY DEF Levels
  <2>2. rest \in ExpressionFrames(S)
    BY <1>2 DEF ExpressionFrames
  <2> QED
    BY <2>1, <2>2, ExpressionFrame
<1> HIDE DEF rest
<1>5. CASE PeekType(open) # "CLPRN"
  BY <1>1, <1>3, <1>5, QuietReturn DEF parse_variable
<1>6. CASE PeekType(open) = "CLPRN" /\ PeekType(list) = "CRPRN"
  BY <1>1, <1>3, <1>6, QuietReturn DEF parse_variable
<1>7. CASE PeekType(open) = "CLPRN" /\ PeekType(list) # "CRPRN"
  <2>1. parse_variable(q) = Continue(list, <<Expression(0), rest>>)
    BY <1>7 DEF parse_variable, rest
  <2> QED
    BY <1>1, <1>4, <2>1, QuietContinue
<1> QED
  BY <1>5, <1>6, <1>7

LEMMA SubscriptTyped ==
    ASSUME InputTyped, NEW q \in ParserState, NEW S, Closed(S), NEW n \in S,
           NEW c \in [call : {"subscript", "argument"}, tok : Token, args : Seq(S)],
           c.call = "subscript"
    PROVE  Quiet(AfterSubscript(c, q, n), q, ExpressionFrames(S), S)
<1> DEFINE args == Append(c.args, n)
           rest == [c EXCEPT !.args = args]
           m == match_or_error(q, "CRPRN")
<1>1. args \in Seq(S)
  OBVIOUS
<1>2. rest \in ExpressionFrames(S)
  BY <1>1 DEF ExpressionFrames
<1>3. Expression(0) \in ExpressionFrames(S)
  BY ExpressionFrame DEF Levels
<1>4. <<Expression(0), rest>> \in Seq(ExpressionFrames(S))
  BY <1>2, <1>3
<1>5. NodeOf("var", c.tok, args) \in NodesIn(S)
  BY <1>1, NodesTyped DEF Kind
<1>6. m \in ParserState /\ m.line = q.line /\ m.depth = q.depth
  BY MatchTyped
<1>7. AfterSubscript(c, q, n)
          = IF PeekType(q) = "CCOM" /\ c.args = <<>>
            THEN Continue(Advance(q), <<Expression(0), rest>>)
            ELSE Return(NodeOf("var", c.tok, args), m)
  BY DEF AfterSubscript
<1> HIDE DEF args, rest, m
<1>8. CASE PeekType(q) = "CCOM" /\ c.args = <<>>
  <2>1. AfterSubscript(c, q, n) = Continue(Advance(q), <<Expression(0), rest>>)
    BY <1>7, <1>8
  <2>2. /\ Advance(q) \in ParserState
        /\ Advance(q).line = q.line /\ Advance(q).depth = q.depth
    BY AdvanceTyped
  <2> DEFINE cs == <<Expression(0), rest>>
  <2>3. cs \in Seq(ExpressionFrames(S))
    BY <1>4
  <2> HIDE DEF cs
  <2>4. Quiet(Continue(Advance(q), cs), q, ExpressionFrames(S), S)
    BY <2>2, <2>3, QuietContinue
  <2> QED
    BY <2>1, <2>4 DEF cs
<1>9. CASE ~(PeekType(q) = "CCOM" /\ c.args = <<>>)
  BY <1>5, <1>6, <1>7, <1>9, QuietReturn
<1> QED
  BY <1>8, <1>9

LEMMA ParenthesisTyped ==
    ASSUME InputTyped, NEW q \in ParserState, NEW S, Closed(S)
    PROVE  Quiet(parse_parenthesized(q), q, ExpressionFrames(S), S)
<1>1. [call |-> "parenthesis"] \in ExpressionFrames(S)
  BY DEF ExpressionFrames
<1>2. Expression(0) \in ExpressionFrames(S)
  BY ExpressionFrame DEF Levels
<1>3. <<Expression(0), [call |-> "parenthesis"]>> \in Seq(ExpressionFrames(S))
  BY <1>1, <1>2
<1> QED
  BY <1>3, AdvanceTyped, QuietContinue DEF parse_parenthesized

LEMMA AfterParenthesisTyped ==
    ASSUME InputTyped, NEW q \in ParserState, NEW S, Closed(S), NEW n \in S
    PROVE  Quiet(AfterParenthesis(q, n), q, ExpressionFrames(S), S)
<1>1. n \in NodesIn(S)
  BY DEF Closed
<1> QED
  BY <1>1, MatchTyped, QuietReturn DEF AfterParenthesis

LEMMA UnaryTyped ==
    ASSUME InputTyped, NEW q \in ParserState, NEW S, Closed(S)
    PROVE  Quiet(parse_unary(q), q, ExpressionFrames(S), S)
<1> DEFINE rest == [call |-> "sign", tok |-> Peek(q)]
<1>1. rest \in ExpressionFrames(S)
  BY PeekTyped DEF ExpressionFrames
<1>2. Expression(UnaryPrecedence) \in ExpressionFrames(S)
  BY ExpressionFrame DEF Levels
<1>3. <<Expression(UnaryPrecedence), rest>> \in Seq(ExpressionFrames(S))
  BY <1>1, <1>2
<1>4. parse_unary(q) = Continue(Advance(q), <<Expression(UnaryPrecedence), rest>>)
  BY DEF parse_unary
<1> HIDE DEF rest
<1> QED
  BY <1>3, <1>4, AdvanceTyped, QuietContinue

LEMMA SignTyped ==
    ASSUME InputTyped, NEW q \in ParserState, NEW S, Closed(S), NEW n \in S,
           NEW c, c.tok \in Token
    PROVE  Quiet(AfterSign(c, q, n), q, ExpressionFrames(S), S)
<1> DEFINE op == IF c.tok.t = "CMINUS" THEN UMinus ELSE c.tok
           result == IF c.tok.t = "CPLUS" THEN n ELSE NodeOf("op", op, <<n>>)
<1>1. UMinus \in Token
  BY DEF UMinus, Token, Type
<1>2. op \in Token
  BY <1>1
<1>3. <<n>> \in Seq(S) /\ n \in NodesIn(S)
  BY DEF Closed
<1>4. NodeOf("op", op, <<n>>) \in NodesIn(S)
  BY <1>2, <1>3, NodesTyped DEF Kind
<1>5. result \in NodesIn(S)
  BY <1>3, <1>4
<1>6. AfterSign(c, q, n) = Return(result, q)
  BY DEF AfterSign
<1> HIDE DEF result, op
<1> QED
  BY <1>5, <1>6, QuietReturn

LEMMA ArityTyped ==
    ASSUME NEW q, NEW m \in ParserState, m.line = q.line, m.depth = q.depth,
           NEW S, NEW tok \in Token, NEW args \in Seq(S)
    PROVE  Quiet(CheckArity(tok, args, m), q, ExpressionFrames(S), S)
<1>1. NodeOf("call", tok, args) \in NodesIn(S)
  BY NodesTyped DEF Kind
<1>2. /\ set_error(m) \in ParserState /\ set_error(m).line = q.line
      /\ set_error(m).depth = q.depth
  BY ErrorTyped
<1>3. \E k \in {m, set_error(m)} : CheckArity(tok, args, m) = Return(NodeOf("call", tok, args), k)
  BY DEF CheckArity
<1> QED
  BY <1>1, <1>2, <1>3, QuietReturn

LEMMA FunctionTyped ==
    ASSUME InputTyped, NEW q \in ParserState, NEW S, Closed(S)
    PROVE  Quiet(parse_function_call(q), q, ExpressionFrames(S), S)
<1> DEFINE open == Advance(q)
           list == Advance(open)
           rest == [call |-> "argument", tok |-> Peek(q), args |-> <<>>]
<1>1. /\ open \in ParserState /\ open.line = q.line /\ open.depth = q.depth
      /\ list \in ParserState /\ list.line = q.line /\ list.depth = q.depth
      /\ Advance(list) \in ParserState
      /\ Advance(list).line = q.line /\ Advance(list).depth = q.depth
  BY AdvanceTyped
<1>2. Peek(q) \in Token /\ <<>> \in Seq(S)
  BY PeekTyped
<1>3. <<Expression(0), rest>> \in Seq(ExpressionFrames(S))
  <2>1. Expression(0) \in ExpressionFrames(S)
    BY ExpressionFrame DEF Levels
  <2>2. rest \in ExpressionFrames(S)
    BY <1>2 DEF ExpressionFrames
  <2> QED
    BY <2>1, <2>2
<1>4. CASE PeekType(open) # "CLPRN"
  <2>1. parse_function_call(q) = CheckArity(Peek(q), <<>>, open)
    BY <1>4 DEF parse_function_call
  <2> QED
    BY <1>1, <1>2, <2>1, ArityTyped
<1>5. CASE PeekType(open) = "CLPRN" /\ PeekType(list) = "CRPRN"
  <2>1. parse_function_call(q) = CheckArity(Peek(q), <<>>, Advance(list))
    BY <1>5 DEF parse_function_call
  <2> QED
    BY <1>1, <1>2, <2>1, ArityTyped
<1>6. CASE PeekType(open) = "CLPRN" /\ PeekType(list) # "CRPRN"
  <2>1. parse_function_call(q) = Continue(list, <<Expression(0), rest>>)
    BY <1>6 DEF parse_function_call
  <2> HIDE DEF rest
  <2> QED
    BY <1>1, <1>3, <2>1, QuietContinue
<1> QED
  BY <1>4, <1>5, <1>6

LEMMA ArgumentTyped ==
    ASSUME InputTyped, NEW q \in ParserState, NEW S, Closed(S), NEW n \in S,
           NEW c \in [call : {"subscript", "argument"}, tok : Token, args : Seq(S)],
           c.call = "argument"
    PROVE  Quiet(AfterArgument(c, q, n), q, ExpressionFrames(S), S)
<1> DEFINE args == Append(c.args, n)
           rest == [c EXCEPT !.args = args]
<1>1. args \in Seq(S)
  OBVIOUS
<1>2. rest \in ExpressionFrames(S)
  BY <1>1 DEF ExpressionFrames
<1>3. <<Expression(0), rest>> \in Seq(ExpressionFrames(S))
  BY <1>2, ExpressionFrame DEF Levels
<1>4. CASE PeekType(q) = "CCOM"
  <2>1. AfterArgument(c, q, n) = Continue(Advance(q), <<Expression(0), rest>>)
    BY <1>4 DEF AfterArgument
  <2>2. /\ Advance(q) \in ParserState
        /\ Advance(q).line = q.line /\ Advance(q).depth = q.depth
    BY AdvanceTyped
  <2> DEFINE cs == <<Expression(0), rest>>
  <2>3. cs \in Seq(ExpressionFrames(S))
    BY <1>3
  <2> HIDE DEF cs
  <2>4. Quiet(Continue(Advance(q), cs), q, ExpressionFrames(S), S)
    BY <2>2, <2>3, QuietContinue
  <2> QED
    BY <2>1, <2>4 DEF cs
<1>5. CASE PeekType(q) = "CRPRN"
  <2>1. AfterArgument(c, q, n) = CheckArity(c.tok, args, Advance(q))
    BY <1>5 DEF AfterArgument
  <2> HIDE DEF args
  <2> QED
    BY <1>1, <2>1, AdvanceTyped, ArityTyped
<1>6. CASE PeekType(q) # "CCOM" /\ PeekType(q) # "CRPRN"
  <2>1. AfterArgument(c, q, n) = Return(NodeOf("call", c.tok, args), set_error(q))
    BY <1>6 DEF AfterArgument
  <2>2. NodeOf("call", c.tok, args) \in NodesIn(S)
    BY <1>1, NodesTyped DEF Kind
  <2> HIDE DEF args
  <2> QED
    BY <2>1, <2>2, ErrorTyped, QuietReturn
<1> QED
  BY <1>4, <1>5, <1>6

LEMMA BinaryTyped ==
    ASSUME InputTyped, NEW q \in ParserState, NEW S, Closed(S), NEW left \in S,
           PeekType(q) \in DOMAIN LedPrecedence
    PROVE  Quiet(parse_binary_op(q, left), q, ExpressionFrames(S), S)
<1> DEFINE prec == LedPrecedence[PeekType(q)]
           min == IF PeekType(q) = "CEXP" THEN prec ELSE prec + 1
           rest == [call |-> "operator", tok |-> Peek(q), left |-> left]
<1>1. min \in Levels
  BY DEF Levels
<1>2. rest \in ExpressionFrames(S)
  BY PeekTyped DEF ExpressionFrames
<1>3. parse_binary_op(q, left) = Continue(Advance(q), <<Expression(min), rest>>)
  BY DEF parse_binary_op
<1> HIDE DEF min, rest
<1>4. <<Expression(min), rest>> \in Seq(ExpressionFrames(S))
  BY <1>1, <1>2, ExpressionFrame
<1> QED
  BY <1>3, <1>4, AdvanceTyped, QuietContinue

LEMMA OperatorTyped ==
    ASSUME NEW q \in ParserState, NEW S, Closed(S), NEW n \in S,
           NEW c \in [call : {"operator"}, tok : Token, left : S]
    PROVE  Quiet(AfterOperator(c, q, n), q, ExpressionFrames(S), S)
<1>1. <<c.left, n>> \in Seq(S)
  OBVIOUS
<1>2. NodeOf("op", c.tok, <<c.left, n>>) \in NodesIn(S)
  BY <1>1, NodesTyped DEF Kind
<1> QED
  BY <1>2, QuietReturn DEF AfterOperator

LEMMA NudTyped ==
    ASSUME InputTyped, NEW q \in ParserState, NEW S, Closed(S)
    PROVE  Quiet(Nud(q), q, ExpressionFrames(S), S)
<1> DEFINE tok == Peek(q)
<1>1. Quiet(Return(Leaf(tok), Advance(q)), q, ExpressionFrames(S), S)
  BY PeekTyped, LeavesTyped, AdvanceTyped, QuietReturn
<1>2. Quiet(Fail(q), q, ExpressionFrames(S), S)
  BY ErrorTyped, QuietReturn DEF Fail, Closed
<1>3. Nud(q) \in {Return(Leaf(tok), Advance(q)), parse_variable(q),
                  parse_parenthesized(q), parse_unary(q), parse_function_call(q), Fail(q)}
  BY DEF Nud
<1> HIDE DEF tok
<1> QED
  BY <1>1, <1>2, <1>3, VariableTyped, ParenthesisTyped, UnaryTyped, FunctionTyped

LEMMA PrattTyped ==
    ASSUME InputTyped, NEW q \in ParserState, NEW S, Closed(S),
           NEW c \in [call : {"expression", "led"}, min : Levels]
    PROVE  Quiet(parse_expression_pratt_prec(c, q), q, ExpressionFrames(S), S)
<1>1. [call |-> "led", min |-> c.min] \in ExpressionFrames(S)
  BY DEF ExpressionFrames
<1> QED
  BY <1>1, NudTyped, QuietThen DEF parse_expression_pratt_prec

LEMMA LedTyped ==
    ASSUME InputTyped, NEW q \in ParserState, NEW S, Closed(S), NEW n \in S,
           NEW c \in [call : {"expression", "led"}, min : Levels]
    PROVE  Quiet(Led(c, q, n), q, ExpressionFrames(S), S)
<1>1. c \in ExpressionFrames(S) /\ n \in NodesIn(S)
  BY DEF ExpressionFrames, Closed
<1>2. CASE /\ ~Failed(n) /\ PeekType(q) \in DOMAIN LedPrecedence
           /\ LedPrecedence[PeekType(q)] >= c.min
  <2>1. Led(c, q, n) = Then(parse_binary_op(q, n), c)
    BY <1>2 DEF Led
  <2> QED
    BY <1>1, <1>2, <2>1, BinaryTyped, QuietThen
<1>3. CASE ~(/\ ~Failed(n) /\ PeekType(q) \in DOMAIN LedPrecedence
             /\ LedPrecedence[PeekType(q)] >= c.min)
  <2>1. Led(c, q, n) = Return(n, q)
    BY <1>3 DEF Led
  <2> QED
    BY <1>1, <2>1, QuietReturn
<1> QED
  BY <1>2, <1>3

-----------------------------------------------------------------------------
(* The levels of recursion_depth that a part of the stack holds.           *)

Open(s) == {i \in DOMAIN s : s[i].call \in {"rule", "entry"}}
Opens(s) == Cardinality(Open(s))

LEMMA OpensNone ==
    ASSUME NEW S, NEW s \in Seq(OtherFrames(S))
    PROVE  Opens(s) = 0
<1>1. \A c \in OtherFrames(S) : c.call \notin {"rule", "entry"}
  BY DEF OtherFrames, ExpressionFrames, StatementFrames, BodyFrames, NonTerminals
<1>2. Open(s) = {}
  BY <1>1 DEF Open
<1> QED
  BY <1>2, FS_EmptySet DEF Opens

LEMMA OpensOne ==
    ASSUME NEW S, NEW c \in RuleFrames(S)
    PROVE  Opens(<<c>>) = 1
<1>1. c.call \in {"rule", "entry"}
  BY DEF RuleFrames
<1>2. Open(<<c>>) = {1}
  BY <1>1 DEF Open
<1> QED
  BY <1>2, FS_Singleton DEF Opens

LEMMA OpensTwo ==
    ASSUME NEW S, NEW d \in OtherFrames(S), NEW c \in RuleFrames(S)
    PROVE  Opens(<<d, c>>) = 1
<1>1. c.call \in {"rule", "entry"}
  BY DEF RuleFrames
<1>2. d.call \notin {"rule", "entry"}
  BY DEF OtherFrames, ExpressionFrames, StatementFrames, BodyFrames, NonTerminals
<1>3. Open(<<d, c>>) = {2}
  BY <1>1, <1>2 DEF Open
<1> QED
  BY <1>3, FS_Singleton DEF Opens

LEMMA OpensNat ==
    ASSUME NEW F, NEW s \in Seq(F)
    PROVE  IsFiniteSet(Open(s)) /\ Opens(s) \in Nat
<1>1. IsFiniteSet(1..Len(s))
  BY FS_Interval
<1>2. Open(s) \subseteq 1..Len(s)
  BY DEF Open
<1>3. IsFiniteSet(Open(s))
  BY <1>1, <1>2, FS_Subset
<1> QED
  BY <1>3, FS_CardinalityType DEF Opens

LEMMA OpensJoin ==
    ASSUME NEW F, NEW s \in Seq(F), NEW t \in Seq(F)
    PROVE  Opens(s \o t) = Opens(s) + Opens(t)
<1> DEFINE n == Len(s)
           moved == {i \in (n + 1)..(n + Len(t)) : t[i - n].call \in {"rule", "entry"}}
           move == [i \in Open(t) |-> i + n]
<1>1. n \in Nat /\ Len(t) \in Nat
  OBVIOUS
<1>2. Open(s \o t) = Open(s) \cup moved
  BY DEF Open
<1>3. Open(s) \cap moved = {}
  BY DEF Open
<1>4. move \in Bijection(Open(t), moved)
  <2>1. move \in [Open(t) -> moved]
    BY <1>1 DEF Open
  <2>2. \A i, j \in Open(t) : move[i] = move[j] => i = j
    BY <1>1 DEF Open
  <2>3. \A k \in moved : \E i \in Open(t) : move[i] = k
    <3>1. TAKE k \in moved
    <3>2. k - n \in Open(t) /\ move[k - n] = k
      BY <1>1 DEF Open
    <3> QED
      BY <3>2
  <2> HIDE DEF move, moved
  <2> QED
    BY <2>1, <2>2, <2>3 DEF Bijection, Injection, Surjection, IsInjective
<1>5. IsFiniteSet(moved) /\ Cardinality(moved) = Opens(t)
  <2> HIDE DEF move, moved
  <2> QED
    BY <1>4, OpensNat, FS_Bijection DEF Opens, ExistsBijection
<1>6. /\ IsFiniteSet(Open(s)) /\ Cardinality({}) = 0
      /\ Cardinality(Open(s)) \in Nat /\ Cardinality(moved) \in Nat
  BY <1>5, OpensNat, FS_EmptySet, FS_CardinalityType DEF Opens
<1>7. Cardinality(Open(s) \cup moved) = Cardinality(Open(s)) + Cardinality(moved)
  <2> DEFINE A == Open(s)
  <2>1. IsFiniteSet(A) /\ IsFiniteSet(moved) /\ A \cap moved = {}
    BY <1>3, <1>5, <1>6
  <2> HIDE DEF moved, A
  <2>2. Cardinality(A \cup moved)
            = Cardinality(A) + Cardinality(moved) - Cardinality(A \cap moved)
    BY <2>1, FS_Union
  <2>3. Cardinality(A \cap moved) = 0
    BY <1>6, <2>1
  <2>4. Cardinality(A) \in Nat /\ Cardinality(moved) \in Nat
    BY <1>6 DEF A
  <2>5. Cardinality(A \cup moved) = Cardinality(A) + Cardinality(moved)
    BY <2>2, <2>3, <2>4
  <2> QED
    BY <2>5 DEF A
<1> QED
  BY <1>2, <1>5, <1>7 DEF Opens

(* What any call keeps.  A rule that is opened takes a level, and one that *)
(* is left gives no more than its own back.                                *)
Acts(r, c, q, S) ==
    /\ r.p \in ParserState /\ r.p.line = q.line
    /\ r.node \in NodesIn(S)
    /\ r.calls \in Seq(Frames(S))
    /\ Opens(r.calls) + q.depth <= r.p.depth + Opens(<<c>>)

LEMMA QuietActs ==
    ASSUME NEW S, NEW q \in ParserState, NEW c \in Frames(S),
           NEW F, F \subseteq OtherFrames(S), NEW r, Quiet(r, q, F, S)
    PROVE  Acts(r, c, q, S)
<1>1. r.calls \in Seq(OtherFrames(S))
  BY SeqMonotonic DEF Quiet
<1>2. r.calls \in Seq(Frames(S))
  <2>1. OtherFrames(S) \subseteq Frames(S)
    BY DEF Frames
  <2> QED
    BY <1>1, <2>1, SeqMonotonic
<1>3. Opens(r.calls) = 0
  BY <1>1, OpensNone
<1>4. Opens(<<c>>) \in Nat
  <2>1. <<c>> \in Seq(Frames(S))
    OBVIOUS
  <2> QED
    BY <2>1, OpensNat
<1>5. q.depth \in Nat /\ r.p.depth = q.depth
  BY DEF Quiet, ParserState
<1> QED
  BY <1>2, <1>3, <1>4, <1>5 DEF Acts, Quiet

-----------------------------------------------------------------------------
(* Rules.                                                                  *)

LEMMA RuleKept ==
    ASSUME InputTyped, NEW S, Closed(S), NEW c \in RuleFrames(S), NEW q,
           NEW m \in ParserState, m.line = q.line, m.depth = q.depth,
           NEW d \in RuleFrames(S)
    PROVE  Acts(Continue(m, <<d>>), c, q, S)
<1>1. Opens(<<c>>) = 1 /\ Opens(<<d>>) = 1
  BY OpensOne
<1>2. <<d>> \in Seq(Frames(S))
  BY DEF Frames
<1>3. m.depth \in Nat
  BY DEF ParserState
<1> QED
  BY <1>1, <1>2, <1>3 DEF Acts, Continue, Does, Closed

LEMMA RuleLeft ==
    ASSUME NEW S, NEW c \in RuleFrames(S), NEW q \in ParserState, q.depth >= 1,
           NEW m \in ParserState, m.line = q.line, m.depth = q.depth, NEW n \in NodesIn(S)
    PROVE  Acts(Return(n, Leave(m)), c, q, S)
<1>1. Opens(<<c>>) = 1
  BY OpensOne
<1>2. Opens(<<>>) = 0
  <2>1. <<>> \in Seq(OtherFrames(S))
    OBVIOUS
  <2> QED
    BY <2>1, OpensNone
<1>3. q.depth \in Nat /\ m.depth \in 0..MaxDepth
  BY DEF ParserState
<1>4. MaxDepth \in Nat
  BY InputAssumption
<1>5. m.depth - 1 \in 0..MaxDepth
  BY <1>3, <1>4
<1>6. /\ Leave(m) \in ParserState /\ Leave(m).line = m.line
      /\ Leave(m).depth = m.depth - 1
  BY <1>5 DEF Leave, ParserState
<1> HIDE DEF Leave
<1> QED
  BY <1>1, <1>2, <1>3, <1>6 DEF Acts, Return, Does

LEMMA NextAlternativeTyped ==
    ASSUME InputTyped, NEW S, Closed(S), NEW c \in RuleFrames(S),
           NEW q \in ParserState, q.depth >= 1, NEW how
    PROVE  Acts(NextAlternative(c, q, how), c, q, S)
<1>1. CASE c.a < Len(Rules[c.nt])
  <2> DEFINE m == [q EXCEPT !.pos = c.start, !.err = @ /\ how = "token"]
             d == [c EXCEPT !.call = "rule", !.a = @ + 1, !.i = 1,
                            !.kids = KidsKept(how, @)]
  <2>1. m \in ParserState /\ m.line = q.line /\ m.depth = q.depth
    <3>1. (q.err /\ how = "token") \in BOOLEAN
      OBVIOUS
    <3>2. c.start \in 1..(Len(tokens) + 1)
      BY DEF RuleFrames
    <3> QED
      BY <3>1, <3>2 DEF ParserState
  <2>2. d \in RuleFrames(S)
    <3>1. KidsKept(how, c.kids) \in Seq(S) /\ c.a + 1 \in Nat
      BY DEF KidsKept, RuleFrames
    <3> HIDE DEF KidsKept
    <3> QED
      BY <3>1 DEF RuleFrames
  <2>3. NextAlternative(c, q, how) = Continue(m, <<d>>)
    BY <1>1 DEF NextAlternative
  <2> HIDE DEF m, d
  <2> QED
    BY <2>1, <2>2, <2>3, RuleKept
<1>2. CASE ~(c.a < Len(Rules[c.nt]))
  <2> DEFINE m == [q EXCEPT !.err = @ /\ how # "expression"]
  <2>1. m \in ParserState /\ m.line = q.line /\ m.depth = q.depth
    <3>1. (q.err /\ how # "expression") \in BOOLEAN
      OBVIOUS
    <3> QED
      BY <3>1 DEF ParserState
  <2>2. NextAlternative(c, q, how) = Return(NoNode, Leave(m))
    BY <1>2 DEF NextAlternative
  <2>3. NoNode \in NodesIn(S)
    BY DEF Closed
  <2> HIDE DEF m
  <2> QED
    BY <2>1, <2>2, <2>3, RuleLeft
<1> QED
  BY <1>1, <1>2

(* A call for an entry, and the rule goes on after it.                     *)
LEMMA RuleCalls ==
    ASSUME NEW S, Closed(S), NEW c \in RuleFrames(S), NEW q \in ParserState,
           NEW d \in OtherFrames(S), NEW rest \in RuleFrames(S)
    PROVE  Acts(Continue(q, <<d, rest>>), c, q, S)
<1>1. Opens(<<c>>) = 1 /\ Opens(<<d, rest>>) = 1
  BY OpensOne, OpensTwo
<1>2. <<d, rest>> \in Seq(Frames(S))
  BY DEF Frames
<1>3. q.depth \in Nat
  BY DEF ParserState
<1> QED
  BY <1>1, <1>2, <1>3 DEF Acts, Continue, Does, Closed

LEMMA GroupTyped ==
    ASSUME NEW S, NEW kids \in Seq(S)
    PROVE  Group(kids) \in NodesIn(S)
<1>1. NoToken \in Token
  BY DEF NoToken, Token, Type
<1> QED
  BY <1>1, NodesTyped DEF Group, Kind

LEMMA EntryTyped ==
    ASSUME InputTyped, NEW S, Closed(S), NEW c \in RuleFrames(S),
           NEW q \in ParserState, q.depth >= 1
    PROVE  Acts(Entry(c, q), c, q, S)
<1> DEFINE alternative == Rules[c.nt][c.a]
           e == alternative[c.i]
           rest == [c EXCEPT !.call = "entry"]
           more == [c EXCEPT !.i = @ + 1, !.kids = Append(@, Leaf(Peek(q)))]
<1>1. rest \in RuleFrames(S)
  BY DEF RuleFrames
<1>2. more \in RuleFrames(S)
  <2>1. Leaf(Peek(q)) \in S
    BY PeekTyped DEF Closed
  <2>2. Append(c.kids, Leaf(Peek(q))) \in Seq(S) /\ c.i + 1 \in Nat
    BY <2>1 DEF RuleFrames
  <2> QED
    BY <2>2 DEF RuleFrames
<1>3. Group(c.kids) \in NodesIn(S)
  BY GroupTyped DEF RuleFrames
<1>4. CASE c.i \notin DOMAIN alternative
  <2>1. Entry(c, q) = Return(Group(c.kids), Leave(q))
    BY <1>4 DEF Entry
  <2> QED
    BY <1>3, <2>1, RuleLeft
<1>5. CASE c.i \in DOMAIN alternative /\ e = "NULL"
  <2>1. Entry(c, q) = Return(Group(c.kids), q)
    BY <1>5 DEF Entry, IsRule
  <2>2. <<>> \in Seq(OtherFrames(S)) /\ <<>> \in Seq(Frames(S))
    OBVIOUS
  <2>3. Opens(<<>>) = 0 /\ Opens(<<c>>) = 1
    BY <2>2, OpensNone, OpensOne
  <2>4. q.depth \in Nat
    BY DEF ParserState
  <2> QED
    BY <1>3, <2>1, <2>2, <2>3, <2>4 DEF Acts, Return, Does
<1>6. CASE /\ c.i \in DOMAIN alternative
           /\ e # "NULL" /\ e = "VEXP"
  <2>1. Entry(c, q) = Continue(q, <<Expression(0), rest>>)
    BY <1>6 DEF Entry, IsRule
  <2>2. Expression(0) \in OtherFrames(S)
    BY ExpressionFrame DEF Levels, OtherFrames
  <2> HIDE DEF rest
  <2> QED
    BY <1>1, <2>1, <2>2, RuleCalls
<1>7. CASE /\ c.i \in DOMAIN alternative
           /\ e # "NULL" /\ e # "VEXP" /\ IsRule(e)
  <2>1. Entry(c, q) = Continue(q, <<NonTerminal(e), rest>>)
    BY <1>7 DEF Entry
  <2>2. NonTerminal(e) \in OtherFrames(S)
    BY <1>7 DEF NonTerminal, IsRule, RuleNames, OtherFrames, NonTerminals
  <2> HIDE DEF rest
  <2> QED
    BY <1>1, <2>1, <2>2, RuleCalls
<1>8. CASE /\ c.i \in DOMAIN alternative
           /\ e # "NULL" /\ e # "VEXP" /\ ~IsRule(e)
  <2>1. Entry(c, q) = IF PeekType(q) = e THEN Continue(Advance(q), <<more>>)
                      ELSE NextAlternative(c, q, "token")
    BY <1>8 DEF Entry
  <2> HIDE DEF more, e
  <2>2. CASE PeekType(q) = e
    <3>1. Entry(c, q) = Continue(Advance(q), <<more>>)
      BY <2>1, <2>2
    <3> QED
      BY <1>2, <3>1, AdvanceTyped, RuleKept
  <2>3. CASE PeekType(q) # e
    BY <2>1, <2>3, NextAlternativeTyped
  <2> QED
    BY <2>2, <2>3
<1> QED
  BY <1>4, <1>5, <1>6, <1>7, <1>8

LEMMA AfterEntryTyped ==
    ASSUME InputTyped, NEW S, Closed(S), NEW c \in RuleFrames(S),
           NEW q \in ParserState, q.depth >= 1, NEW n \in S
    PROVE  Acts(AfterEntry(c, q, n), c, q, S)
<1> DEFINE how == IF Rules[c.nt][c.a][c.i] = "VEXP" THEN "expression" ELSE "rule"
           more == [c EXCEPT !.call = "rule", !.i = @ + 1, !.kids = Append(@, n)]
<1>1. AfterEntry(c, q, n) = IF Failed(n) THEN NextAlternative(c, q, how)
                            ELSE Continue(q, <<more>>)
  BY DEF AfterEntry
<1>2. more \in RuleFrames(S)
  <2>1. Append(c.kids, n) \in Seq(S) /\ c.i + 1 \in Nat
    BY DEF RuleFrames
  <2> QED
    BY <2>1 DEF RuleFrames
<1> HIDE DEF how, more
<1>3. CASE Failed(n)
  BY <1>1, <1>3, NextAlternativeTyped
<1>4. CASE ~Failed(n)
  BY <1>1, <1>2, <1>4, RuleKept
<1> QED
  BY <1>3, <1>4

-----------------------------------------------------------------------------
(* Non-terminals and the statements of a THEN.                             *)

LEMMA BodyTyped ==
    ASSUME InputTyped, NEW S, Closed(S), NEW q \in ParserState,
           NEW c \in BodyFrames(S)
    PROVE  Quiet(Body(c, q), q, OtherFrames(S), S)
<1> DEFINE rest == [c EXCEPT !.call = "body_statement"]
<1>0. /\ c.kids \in Seq(S) /\ c \in OtherFrames(S) /\ rest \in OtherFrames(S)
      /\ StatementCall \in OtherFrames(S)
  BY DEF BodyFrames, OtherFrames, StatementCall, StatementFrames
<1> HIDE DEF rest
<1>1. CASE PeekType(q) \in EndOfLine \cup {"ELSE"}
  <2>1. Body(c, q) = Return(Group(c.kids), q)
    BY <1>1 DEF Body, EndOfLine
  <2> QED
    BY <1>0, <2>1, GroupTyped, QuietReturn
<1>2. CASE PeekType(q) = "CEOS"
  <2>1. Body(c, q) = Continue(Advance(q), <<c>>)
    BY <1>2 DEF Body, EndOfLine
  <2>2. <<c>> \in Seq(OtherFrames(S))
    BY <1>0
  <2> QED
    BY <2>1, <2>2, AdvanceTyped, QuietContinue
<1>3. CASE PeekType(q) \notin EndOfLine \cup {"ELSE", "CEOS"}
  <2>1. Body(c, q) = Continue(q, <<StatementCall, rest>>)
    BY <1>3 DEF Body, rest
  <2>2. <<StatementCall, rest>> \in Seq(OtherFrames(S))
    BY <1>0
  <2> QED
    BY <2>1, <2>2, QuietContinue
<1> QED
  BY <1>1, <1>2, <1>3

LEMMA BodyStatementTyped ==
    ASSUME InputTyped, NEW S, Closed(S), NEW q \in ParserState, NEW n \in S,
           NEW c \in BodyFrames(S)
    PROVE  Quiet(AfterBodyStatement(c, q, n), q, OtherFrames(S), S)
<1> DEFINE kids == Append(c.kids, n)
           rest == [call |-> "body", kids |-> kids]
<1>1. kids \in Seq(S)
  <2>1. c.kids \in Seq(S)
    BY DEF BodyFrames
  <2> QED
    BY <2>1, AppendProperties
<1>2. rest \in OtherFrames(S)
  BY <1>1 DEF OtherFrames, BodyFrames
<1>3. Quiet(Return(NoNode, q), q, OtherFrames(S), S)
  BY QuietReturn DEF Closed
<1>4. Quiet(Continue(Advance(q), <<rest>>), q, OtherFrames(S), S)
  <2>1. <<rest>> \in Seq(OtherFrames(S))
    BY <1>2
  <2> HIDE DEF rest
  <2> QED
    BY <2>1, AdvanceTyped, QuietContinue
<1>5. Quiet(Return(Group(kids), q), q, OtherFrames(S), S)
  BY <1>1, GroupTyped, QuietReturn
<1>6. AfterBodyStatement(c, q, n)
          \in {Return(NoNode, q), Continue(Advance(q), <<rest>>), Return(Group(kids), q)}
  BY DEF AfterBodyStatement
<1> HIDE DEF kids, rest
<1> QED
  BY <1>3, <1>4, <1>5, <1>6

LEMMA IfBodyTyped ==
    ASSUME InputTyped, NEW S, Closed(S), NEW q \in ParserState
    PROVE  Quiet(IfBody(q), q, OtherFrames(S), S)
<1> DEFINE rest == [call |-> "body", kids |-> <<>>]
<1>1. <<rest>> \in Seq(OtherFrames(S))
  <2>1. <<>> \in Seq(S)
    OBVIOUS
  <2>2. rest \in OtherFrames(S)
    BY <2>1 DEF OtherFrames, BodyFrames
  <2> QED
    BY <2>2
<1>2. Quiet(Return(Leaf(Peek(q)), Advance(q)), q, OtherFrames(S), S)
  BY PeekTyped, LeavesTyped, AdvanceTyped, QuietReturn
<1>3. IfBody(q) \in {Return(Leaf(Peek(q)), Advance(q)), Continue(q, <<rest>>)}
  BY DEF IfBody
<1> HIDE DEF rest
<1>4. Quiet(Continue(q, <<rest>>), q, OtherFrames(S), S)
  BY <1>1, QuietContinue
<1> QED
  BY <1>2, <1>3, <1>4

LEMMA RuleOfTyped ==
    ASSUME InputTyped, NEW S, Closed(S), NEW q \in ParserState, NEW nt \in RuleNames,
           NEW c \in NonTerminals
    PROVE  Acts(RuleOf(nt, q), c, q, S)
<1> DEFINE deeper == [q EXCEPT !.depth = @ + 1]
           rule == [call |-> "rule", nt |-> nt, a |-> 1, i |-> 1,
                    start |-> q.pos, kids |-> <<>>]
<1>1. c \in OtherFrames(S) /\ c \in Frames(S)
  BY DEF NonTerminals, OtherFrames, Frames
<1>2. CASE deeper.depth > MaxDepth
  <2>1. RuleOf(nt, q) = Return(NoNode, set_error(q))
    BY <1>2 DEF RuleOf, Fail
  <2>2. Quiet(Return(NoNode, set_error(q)), q, OtherFrames(S), S)
    BY ErrorTyped, QuietReturn DEF Closed
  <2> QED
    BY <1>1, <2>1, <2>2, QuietActs
<1>3. CASE ~(deeper.depth > MaxDepth)
  <2>1. RuleOf(nt, q) = Continue(deeper, <<rule>>)
    BY <1>3 DEF RuleOf
  <2>2. q.depth \in Nat /\ deeper.depth = q.depth + 1 /\ deeper.line = q.line
    BY DEF ParserState
  <2>3. deeper.depth \in 0..MaxDepth
    BY <1>3, <2>2, InputAssumption
  <2>4. deeper \in ParserState
    BY <2>2, <2>3 DEF ParserState
  <2>5. rule \in RuleFrames(S)
    <3>1. <<>> \in Seq(S) /\ q.pos \in 1..(Len(tokens) + 1)
      BY DEF ParserState
    <3> QED
      BY <3>1 DEF RuleFrames
  <2>6. Opens(<<rule>>) = 1 /\ Opens(<<c>>) = 0
    <3>1. <<c>> \in Seq(OtherFrames(S))
      BY <1>1
    <3> HIDE DEF rule
    <3> QED
      BY <2>5, <3>1, OpensOne, OpensNone
  <2>7. <<rule>> \in Seq(Frames(S))
    BY <2>5 DEF Frames
  <2> HIDE DEF rule, deeper
  <2> QED
    BY <2>1, <2>2, <2>4, <2>6, <2>7 DEF Acts, Continue, Does, Closed
<1> QED
  BY <1>2, <1>3

LEMMA NonTerminalTyped ==
    ASSUME InputTyped, NEW S, Closed(S), NEW q \in ParserState,
           NEW c \in NonTerminals
    PROVE  Acts(parse_nonterminal(c, q), c, q, S)
<1> DEFINE rem == NodeOf("stmt", [t |-> "REM", v |-> 0], <<>>)
           end == ConsumeTo(q, EndOfStatement)
<1>1. c \in Frames(S) /\ c.nt \in RuleNames
  BY DEF NonTerminals, OtherFrames, Frames
<1>2. Acts(Continue(q, <<StatementCall>>), c, q, S)
  <2>1. <<StatementCall>> \in Seq(OtherFrames(S))
    BY DEF StatementCall, OtherFrames, StatementFrames
  <2>2. Quiet(Continue(q, <<StatementCall>>), q, OtherFrames(S), S)
    BY <2>1, QuietContinue
  <2> QED
    BY <1>1, <2>2, QuietActs
<1>3. Acts(Return(rem, end), c, q, S)
  <2>1. rem \in NodesIn(S)
    <3>1. [t |-> "REM", v |-> 0] \in Token /\ <<>> \in Seq(S)
      BY DEF Token, Type
    <3> QED
      BY <3>1, NodesTyped DEF Kind
  <2>2. "EOF" \in EndOfStatement
    BY DEF EndOfStatement, EndOfLine
  <2>3. Quiet(Return(rem, end), q, OtherFrames(S), S)
    BY <2>1, <2>2, ConsumeTyped, QuietReturn
  <2> QED
    BY <1>1, <2>3, QuietActs
<1>4. Acts(IfBody(q), c, q, S)
  BY <1>1, IfBodyTyped, QuietActs
<1>5. Acts(RuleOf(c.nt, q), c, q, S)
  BY <1>1, RuleOfTyped
<1>6. parse_nonterminal(c, q) \in {Continue(q, <<StatementCall>>), Return(rem, end),
                                   IfBody(q), RuleOf(c.nt, q)}
  BY DEF parse_nonterminal
<1> HIDE DEF rem, end
<1> QED
  BY <1>2, <1>3, <1>4, <1>5, <1>6

-----------------------------------------------------------------------------
(* Statements.                                                             *)

(* A statement of the line, if any, is all that is left in the end.        *)
Made(n, q) == Failed(n) \/ (n.k = "stmt" /\ n.line = q.line)
Ends(r, q, S) ==
    IF r.calls = <<>> THEN Made(r.node, q)
    ELSE r.calls[Len(r.calls)] \in StatementFrames(S)
Makes(r, q, S) == Quiet(r, q, OtherFrames(S), S) /\ Ends(r, q, S)

LEMMA StatementTyped ==
    ASSUME NEW S, NEW q \in ParserState, NEW t \in Type, NEW kids \in Seq(S)
    PROVE  /\ Statement(t, kids, q) \in NodesIn(S)
           /\ Made(Statement(t, kids, q), q)
<1>1. q.line \in Nat
  BY DEF ParserState
<1> QED
  BY <1>1 DEF Statement, NodeOf, NodesIn, Kind, Made

LEMMA MakesReturn ==
    ASSUME NEW q, NEW m \in ParserState, m.line = q.line, m.depth = q.depth,
           NEW S, NEW n \in NodesIn(S), Made(n, q)
    PROVE  Makes(Return(n, m), q, S)
<1>1. Quiet(Return(n, m), q, OtherFrames(S), S)
  BY QuietReturn
<1>2. Ends(Return(n, m), q, S)
  BY DEF Ends, Return, Does
<1> QED
  BY <1>1, <1>2 DEF Makes

LEMMA MakesOne ==
    ASSUME NEW q, NEW m \in ParserState, m.line = q.line, m.depth = q.depth,
           NEW S, Closed(S), NEW c \in StatementFrames(S)
    PROVE  Makes(Continue(m, <<c>>), q, S)
<1>1. <<c>> \in Seq(OtherFrames(S))
  BY DEF OtherFrames
<1>2. Quiet(Continue(m, <<c>>), q, OtherFrames(S), S)
  BY <1>1, QuietContinue
<1>3. Ends(Continue(m, <<c>>), q, S)
  BY DEF Ends, Continue, Does
<1> QED
  BY <1>2, <1>3 DEF Makes

LEMMA MakesTwo ==
    ASSUME NEW q, NEW m \in ParserState, m.line = q.line, m.depth = q.depth,
           NEW S, Closed(S), NEW d \in OtherFrames(S), NEW c \in StatementFrames(S)
    PROVE  Makes(Continue(m, <<d, c>>), q, S)
<1>1. <<d, c>> \in Seq(OtherFrames(S))
  BY DEF OtherFrames
<1>2. Quiet(Continue(m, <<d, c>>), q, OtherFrames(S), S)
  BY <1>1, QuietContinue
<1>3. Ends(Continue(m, <<d, c>>), q, S)
  BY DEF Ends, Continue, Does
<1> QED
  BY <1>2, <1>3 DEF Makes

LEMMA MakesNothing ==
    ASSUME NEW q, NEW m \in ParserState, m.line = q.line, m.depth = q.depth,
           NEW S, Closed(S)
    PROVE  Makes(Return(NoNode, m), q, S)
<1>1. NoNode \in NodesIn(S) /\ Made(NoNode, q)
  BY DEF Closed, Made, Failed
<1> QED
  BY <1>1, MakesReturn

(* The frames of a PRINT. *)
PrintFrames(S) == [call : {"print", "channel", "operand"}, t : Type, kids : Seq(S)]

LEMMA PrintFrame ==
    ASSUME NEW S, NEW c \in PrintFrames(S), NEW f \in {"print", "channel", "operand"},
           NEW kids \in Seq(S)
    PROVE  /\ c \in StatementFrames(S) /\ c.t \in Type /\ c.kids \in Seq(S)
           /\ [c EXCEPT !.call = f] \in StatementFrames(S)
           /\ [c EXCEPT !.kids = kids] \in StatementFrames(S)
           /\ [c EXCEPT !.call = f, !.kids = kids] \in StatementFrames(S)
  BY DEF PrintFrames, StatementFrames

LEMMA FirstExpression ==
    ASSUME NEW S
    PROVE  Expression(0) \in OtherFrames(S)
  BY ExpressionFrame DEF Levels, OtherFrames

LEMMA ParsePrintTyped ==
    ASSUME InputTyped, NEW S, Closed(S), NEW q \in ParserState
    PROVE  Makes(ParsePrint(q), q, S)
<1> DEFINE print == [call |-> "print", t |-> PeekType(q), kids |-> <<>>]
           channel == [print EXCEPT !.call = "channel"]
<1>1. print \in PrintFrames(S)
  <2>1. <<>> \in Seq(S) /\ PeekType(q) \in Type
    BY PeekTyped
  <2> QED
    BY <2>1 DEF PrintFrames
<1>2. print \in StatementFrames(S) /\ channel \in StatementFrames(S)
  <2>1. <<>> \in Seq(S)
    OBVIOUS
  <2> HIDE DEF print
  <2> QED
    BY <1>1, <2>1, PrintFrame
<1>3. /\ Advance(q) \in ParserState
      /\ Advance(q).line = q.line /\ Advance(q).depth = q.depth
      /\ Advance(Advance(q)) \in ParserState
      /\ Advance(Advance(q)).line = q.line /\ Advance(Advance(q)).depth = q.depth
  BY AdvanceTyped
<1>4. ParsePrint(q) = IF PeekType(Advance(q)) = "CPND"
                      THEN Continue(Advance(Advance(q)), <<Expression(0), channel>>)
                      ELSE Continue(Advance(q), <<print>>)
  BY DEF ParsePrint
<1> HIDE DEF channel, print
<1>5. Makes(Continue(Advance(Advance(q)), <<Expression(0), channel>>), q, S)
  BY <1>2, <1>3, FirstExpression, MakesTwo
<1>6. Makes(Continue(Advance(q), <<print>>), q, S)
  BY <1>2, <1>3, MakesOne
<1> QED
  BY <1>4, <1>5, <1>6

LEMMA ChannelTyped ==
    ASSUME InputTyped, NEW S, Closed(S), NEW q \in ParserState, NEW n \in S,
           NEW c \in PrintFrames(S)
    PROVE  Makes(AfterChannel(c, q, n), q, S)
<1> DEFINE print == [c EXCEPT !.call = "print", !.kids = <<n>>]
<1>1. print \in StatementFrames(S)
  <2>1. <<n>> \in Seq(S)
    OBVIOUS
  <2> QED
    BY <2>1, PrintFrame
<1>2. Makes(Continue(Advance(q), <<print>>), q, S)
  <2> HIDE DEF print
  <2> QED
    BY <1>1, AdvanceTyped, MakesOne
<1>3. Makes(Return(Statement(c.t, <<>>, q), set_error(q)), q, S)
  <2>1. <<>> \in Seq(S) /\ c.t \in Type
    <3>1. <<>> \in Seq(S)
      OBVIOUS
    <3> QED
      BY <3>1, PrintFrame
  <2> QED
    BY <2>1, StatementTyped, ErrorTyped, MakesReturn
<1>4. AfterChannel(c, q, n) \in {Continue(Advance(q), <<print>>),
                                 Return(Statement(c.t, <<>>, q), set_error(q))}
  BY DEF AfterChannel
<1> HIDE DEF print
<1> QED
  BY <1>2, <1>3, <1>4

LEMMA OperandsTyped ==
    ASSUME InputTyped, NEW S, Closed(S), NEW q \in ParserState, NEW c \in PrintFrames(S)
    PROVE  Makes(PrintOperands(c, q), q, S)
<1> DEFINE kids == Append(c.kids, Leaf(Peek(q)))
           more == [c EXCEPT !.kids = kids]
           operand == [c EXCEPT !.call = "operand"]
<1>1. c.kids \in Seq(S) /\ c.t \in Type /\ operand \in StatementFrames(S)
  <2>1. <<>> \in Seq(S)
    OBVIOUS
  <2> QED
    BY <2>1, PrintFrame
<1>2. more \in StatementFrames(S)
  <2>1. Leaf(Peek(q)) \in S
    BY PeekTyped DEF Closed
  <2>2. kids \in Seq(S)
    BY <1>1, <2>1, AppendProperties
  <2> HIDE DEF kids
  <2> QED
    BY <2>2, PrintFrame
<1>3. PrintOperands(c, q) \in {Return(Statement(c.t, c.kids, q), q),
                               Continue(Advance(q), <<more>>),
                               Continue(q, <<Expression(0), operand>>)}
  BY DEF PrintOperands
<1> HIDE DEF more, operand
<1>4. Makes(Return(Statement(c.t, c.kids, q), q), q, S)
  BY <1>1, StatementTyped, MakesReturn
<1>5. Makes(Continue(Advance(q), <<more>>), q, S)
  BY <1>2, AdvanceTyped, MakesOne
<1>6. Makes(Continue(q, <<Expression(0), operand>>), q, S)
  BY <1>1, FirstExpression, MakesTwo
<1> QED
  BY <1>3, <1>4, <1>5, <1>6

LEMMA OperandTyped ==
    ASSUME InputTyped, NEW S, Closed(S), NEW q \in ParserState, NEW n \in S,
           NEW c \in PrintFrames(S)
    PROVE  Makes(AfterOperand(c, q, n), q, S)
<1> DEFINE more == [c EXCEPT !.call = "print", !.kids = Append(@, n)]
<1>1. c.kids \in Seq(S) /\ c.t \in Type
  <2>1. <<>> \in Seq(S)
    OBVIOUS
  <2> QED
    BY <2>1, PrintFrame
<1>2. more \in StatementFrames(S)
  <2>1. Append(c.kids, n) \in Seq(S)
    BY <1>1, AppendProperties
  <2> QED
    BY <2>1, PrintFrame
<1>3. AfterOperand(c, q, n) \in {Return(Statement(c.t, c.kids, q), q),
                                 Continue(q, <<more>>)}
  BY DEF AfterOperand
<1> HIDE DEF more
<1>4. Makes(Return(Statement(c.t, c.kids, q), q), q, S)
  BY <1>1, StatementTyped, MakesReturn
<1>5. Makes(Continue(q, <<more>>), q, S)
  BY <1>2, MakesOne
<1> QED
  BY <1>3, <1>4, <1>5

LEMMA ParseStatementTyped ==
    ASSUME InputTyped, NEW S, Closed(S), NEW q \in ParserState
    PROVE  Makes(parser_parse_statement(q), q, S)
<1> DEFINE t == PeekType(q)
           m == IF t = "IDENT" THEN q ELSE Advance(q)
           made == [call |-> "made", t |-> t]
           rule == NonTerminal(StatementRule[t])
<1>1. t \in Type
  BY PeekTyped
<1>2. m \in ParserState /\ m.line = q.line /\ m.depth = q.depth
  BY AdvanceTyped
<1>3. CASE t \in EndOfStatement
  <2>1. parser_parse_statement(q) = Return(NoNode, q)
    BY <1>3 DEF parser_parse_statement, EndOfStatement, EndOfLine
  <2> QED
    BY <2>1, MakesNothing
<1>4. CASE t = "NUMBER"
  <2>1. parser_parse_statement(q) = Return(NoNode, set_error(q))
    BY <1>4 DEF parser_parse_statement, EndOfStatement, EndOfLine, Fail
  <2> QED
    BY <2>1, ErrorTyped, MakesNothing
<1>5. CASE t \in {"PRINT", "QUESTION"}
  <2>1. parser_parse_statement(q) = ParsePrint(q)
    BY <1>5 DEF parser_parse_statement, EndOfStatement, EndOfLine
  <2> QED
    BY <2>1, ParsePrintTyped
<1>6. CASE /\ t \notin EndOfStatement /\ t # "NUMBER" /\ t \notin {"PRINT", "QUESTION"}
           /\ t \notin DOMAIN StatementRule
  <2>1. parser_parse_statement(q) = Return(NoNode, set_error(Advance(q)))
    BY <1>6 DEF parser_parse_statement, Fail
  <2> QED
    BY <2>1, AdvanceTyped, ErrorTyped, MakesNothing
<1>7. CASE /\ t \notin EndOfStatement /\ t # "NUMBER" /\ t \notin {"PRINT", "QUESTION"}
           /\ t \in DOMAIN StatementRule
  <2>1. parser_parse_statement(q) = Continue(m, <<rule, made>>)
    BY <1>7 DEF parser_parse_statement
  <2>2. rule \in OtherFrames(S)
    BY <1>7 DEF NonTerminal, RuleNames, NonTerminals, OtherFrames
  <2>3. made \in StatementFrames(S)
    BY <1>1 DEF StatementFrames
  <2> HIDE DEF m, made, rule
  <2> QED
    BY <1>2, <2>1, <2>2, <2>3, MakesTwo
<1> QED
  BY <1>3, <1>4, <1>5, <1>6, <1>7

LEMMA AfterRuleTyped ==
    ASSUME InputTyped, NEW S, Closed(S), NEW q \in ParserState, NEW n \in S,
           NEW c, c.t \in Type
    PROVE  Makes(AfterRule(c, q, n), q, S)
<1>1. n.kids \in Seq(S)
  BY DEF Closed, NodesIn
<1>2. Makes(Return(Statement(c.t, n.kids, q), q), q, S)
  BY <1>1, StatementTyped, MakesReturn
<1>3. Makes(Return(NoNode, set_error(q)), q, S)
  BY ErrorTyped, MakesNothing
<1> QED
  BY <1>2, <1>3 DEF AfterRule, Fail

-----------------------------------------------------------------------------
(* A step within a statement.                                              *)

LEMMA StepExpressions ==
    ASSUME InputTyped, NEW S, Closed(S), NEW q \in ParserState, NEW n \in S,
           NEW c \in ExpressionFrames(S)
    PROVE  Quiet(Step(c, q, n), q, ExpressionFrames(S), S)
<1>1. CASE c \in [call : {"expression", "led"}, min : Levels]
  <2>1. CASE c.call = "expression"
    <3>1. Step(c, q, n) = parse_expression_pratt_prec(c, q)
      BY <2>1 DEF Step
    <3> QED
      BY <1>1, <3>1, PrattTyped
  <2>2. CASE c.call = "led"
    <3>1. Step(c, q, n) = Led(c, q, n)
      BY <2>2 DEF Step
    <3> QED
      BY <1>1, <3>1, LedTyped
  <2> QED
    BY <1>1, <2>1, <2>2
<1>2. CASE c \in [call : {"operator"}, tok : Token, left : S]
  <2>1. Step(c, q, n) = AfterOperator(c, q, n)
    BY <1>2 DEF Step
  <2> QED
    BY <1>2, <2>1, OperatorTyped
<1>3. CASE c \in [call : {"subscript", "argument"}, tok : Token, args : Seq(S)]
  <2>1. CASE c.call = "subscript"
    <3>1. Step(c, q, n) = AfterSubscript(c, q, n)
      BY <2>1 DEF Step
    <3> QED
      BY <1>3, <2>1, <3>1, SubscriptTyped
  <2>2. CASE c.call = "argument"
    <3>1. Step(c, q, n) = AfterArgument(c, q, n)
      BY <2>2 DEF Step
    <3> QED
      BY <1>3, <2>2, <3>1, ArgumentTyped
  <2> QED
    BY <1>3, <2>1, <2>2
<1>4. CASE c \in [call : {"parenthesis"}]
  <2>1. Step(c, q, n) = AfterParenthesis(q, n)
    BY <1>4 DEF Step
  <2> QED
    BY <2>1, AfterParenthesisTyped
<1>5. CASE c \in [call : {"sign"}, tok : Token]
  <2>1. Step(c, q, n) = AfterSign(c, q, n) /\ c.tok \in Token
    BY <1>5 DEF Step
  <2> QED
    BY <2>1, SignTyped
<1> QED
  BY <1>1, <1>2, <1>3, <1>4, <1>5 DEF ExpressionFrames

LEMMA StepStatements ==
    ASSUME InputTyped, NEW S, Closed(S), NEW q \in ParserState, NEW n \in S,
           NEW c \in StatementFrames(S)
    PROVE  Makes(Step(c, q, n), q, S)
<1>1. CASE c \in [call : {"statement"}]
  <2>1. Step(c, q, n) = parser_parse_statement(q)
    BY <1>1 DEF Step
  <2> QED
    BY <2>1, ParseStatementTyped
<1>2. CASE c \in [call : {"made"}, t : Type]
  <2>1. Step(c, q, n) = AfterRule(c, q, n) /\ c.t \in Type
    BY <1>2 DEF Step
  <2> QED
    BY <2>1, AfterRuleTyped
<1>3. CASE c \in PrintFrames(S)
  <2>1. CASE c.call = "print"
    <3>1. Step(c, q, n) = PrintOperands(c, q)
      BY <2>1 DEF Step
    <3> QED
      BY <1>3, <3>1, OperandsTyped
  <2>2. CASE c.call = "channel"
    <3>1. Step(c, q, n) = AfterChannel(c, q, n)
      BY <2>2 DEF Step
    <3> QED
      BY <1>3, <3>1, ChannelTyped
  <2>3. CASE c.call = "operand"
    <3>1. Step(c, q, n) = AfterOperand(c, q, n)
      BY <2>3 DEF Step
    <3> QED
      BY <1>3, <3>1, OperandTyped
  <2> QED
    BY <1>3, <2>1, <2>2, <2>3 DEF PrintFrames
<1> QED
  BY <1>1, <1>2, <1>3 DEF StatementFrames, PrintFrames

LEMMA StepRules ==
    ASSUME InputTyped, NEW S, Closed(S), NEW q \in ParserState, NEW n \in S,
           NEW c \in RuleFrames(S), Opens(<<c>>) <= q.depth
    PROVE  Acts(Step(c, q, n), c, q, S)
<1>1. q.depth >= 1
  <2>1. Opens(<<c>>) = 1 /\ q.depth \in Nat
    BY OpensOne DEF ParserState
  <2> QED
    BY <2>1
<1>2. CASE c.call = "rule"
  <2>1. Step(c, q, n) = Entry(c, q)
    BY <1>2 DEF Step
  <2> QED
    BY <1>1, <2>1, EntryTyped
<1>3. CASE c.call = "entry"
  <2>1. Step(c, q, n) = AfterEntry(c, q, n)
    BY <1>3 DEF Step
  <2> QED
    BY <1>1, <2>1, AfterEntryTyped
<1> QED
  BY <1>2, <1>3 DEF RuleFrames

(* What a step of any frame keeps. *)
LEMMA StepActs ==
    ASSUME InputTyped, NEW S, Closed(S), NEW q \in ParserState, NEW n \in S,
           NEW c \in Frames(S), Opens(<<c>>) <= q.depth
    PROVE  /\ Acts(Step(c, q, n), c, q, S)
           /\ c \in StatementFrames(S) => Ends(Step(c, q, n), q, S)
<1>1. CASE c \in RuleFrames(S)
  <2>1. c \notin StatementFrames(S)
    BY <1>1 DEF RuleFrames, StatementFrames
  <2> QED
    BY <1>1, <2>1, StepRules
<1>2. CASE c \in StatementFrames(S)
  <2>1. Quiet(Step(c, q, n), q, OtherFrames(S), S) /\ Ends(Step(c, q, n), q, S)
    BY <1>2, StepStatements DEF Makes
  <2> QED
    BY <2>1, QuietActs
<1>3. CASE c \in ExpressionFrames(S)
  <2>1. c \notin StatementFrames(S)
    BY <1>3 DEF ExpressionFrames, StatementFrames
  <2>2. ExpressionFrames(S) \subseteq OtherFrames(S)
    BY DEF OtherFrames
  <2>3. Quiet(Step(c, q, n), q, ExpressionFrames(S), S)
    BY <1>3, StepExpressions
  <2> QED
    BY <2>1, <2>2, <2>3, QuietActs
<1>4. CASE c \in BodyFrames(S)
  <2>1. c \notin StatementFrames(S)
    BY <1>4 DEF BodyFrames, StatementFrames
  <2>2. Quiet(Step(c, q, n), q, OtherFrames(S), S)
    <3>1. CASE c.call = "body"
      <4>1. Step(c, q, n) = Body(c, q)
        BY <3>1 DEF Step
      <4> QED
        BY <1>4, <4>1, BodyTyped
    <3>2. CASE c.call = "body_statement"
      <4>1. Step(c, q, n) = AfterBodyStatement(c, q, n)
        BY <3>2 DEF Step
      <4> QED
        BY <1>4, <4>1, BodyStatementTyped
    <3> QED
      BY <1>4, <3>1, <3>2 DEF BodyFrames
  <2> QED
    BY <2>1, <2>2, QuietActs
<1>5. CASE c \in NonTerminals
  <2>1. c \notin StatementFrames(S)
    BY <1>5 DEF NonTerminals, StatementFrames
  <2>2. Step(c, q, n) = parse_nonterminal(c, q)
    BY <1>5 DEF Step, NonTerminals
  <2> QED
    BY <1>5, <2>1, <2>2, NonTerminalTyped
<1> QED
  BY <1>1, <1>2, <1>3, <1>4, <1>5 DEF Frames, OtherFrames

-----------------------------------------------------------------------------
(* The invariant.                                                          *)

Validations(S) == [call : {"validate"}, node : S]

(* What is on the stack, by what the parser is at. *)
StackTyped(S) ==
    /\ phase = "statement" =>
          /\ calls \in Seq(Frames(S))
          /\ IF calls = <<>> THEN Made(node, p)
             ELSE calls[Len(calls)] \in StatementFrames(S)
    /\ phase = "validating" => calls \in Seq(Validations(S))
    /\ phase \notin {"statement", "validating"} => calls = <<>>
TreesTyped == \E S : Closed(S) /\ node \in S /\ root \in Seq(S) /\ StackTyped(S)

PhaseTyped == phase \in {"line", "statements", "statement", "validating", "parsed"}
StateTyped ==
    /\ InputTyped /\ PhaseTyped
    /\ p \in ParserState /\ Opens(calls) <= p.depth
    /\ numbers \in Seq(0..MaxLine) /\ errors \in Nat
    /\ TreesTyped

(* The statements of a line carry the number that was recorded for it.     *)
Ascending == \A i, j \in DOMAIN numbers : i < j => numbers[i] < numbers[j]
LineRecorded ==
    phase \in {"statements", "statement"} => numbers # <<>> /\ p.line = Last(numbers)
RootInOrder ==
    /\ \A i \in DOMAIN root : root[i].k = "stmt" /\ root[i].line \in ToSet(numbers)
    /\ \A i, j \in DOMAIN root : i < j => root[i].line <= root[j].line
ParserIInv == StateTyped /\ Ascending /\ LineRecorded /\ RootInOrder

(* Nothing is held by an empty stack. *)
LEMMA OpensEmpty == Opens(<<>>) = 0
<1>1. <<>> \in Seq(OtherFrames({}))
  OBVIOUS
<1> QED
  BY <1>1, OpensNone

LEMMA InitTyped == ParserInit => ParserIInv
<1> SUFFICES ASSUME ParserInit PROVE ParserIInv
  OBVIOUS
<1>1. InputTyped /\ PhaseTyped
  BY InputAssumption DEF ParserInit, InputTyped, PhaseTyped
<1>2. p \in ParserState
  <2>1. Len(tokens) + 1 \in Nat /\ 1 \in 1..(Len(tokens) + 1)
    BY <1>1 DEF InputTyped
  <2> QED
    BY <2>1, InputAssumption DEF ParserInit, ParserState
<1>3. Opens(calls) <= p.depth
  BY OpensEmpty DEF ParserInit
<1>4. numbers \in Seq(0..MaxLine) /\ errors \in Nat
  BY DEF ParserInit
<1>5. TreesTyped
  <2>1. PICK S : Closed(S)
    BY SomeClosed
  <2>2. node \in S /\ root \in Seq(S) /\ StackTyped(S)
    BY <2>1 DEF ParserInit, Closed, StackTyped
  <2> QED
    BY <2>1, <2>2 DEF TreesTyped
<1>6. Ascending /\ LineRecorded /\ RootInOrder
  BY DEF ParserInit, Ascending, LineRecorded, RootInOrder
<1> QED
  BY <1>1, <1>2, <1>3, <1>4, <1>5, <1>6 DEF ParserIInv, StateTyped

(* A token less; the line, and what follows it.                            *)
LEMMA PastTyped ==
    ASSUME InputTyped, NEW q \in ParserState
    PROVE  /\ PastEndOfLine(q) \in ParserState
           /\ PastEndOfLine(q).line = q.line /\ PastEndOfLine(q).depth = q.depth
  BY AdvanceTyped DEF PastEndOfLine

LEMMA RecoverTyped ==
    ASSUME InputTyped, NEW q \in ParserState, errors \in Nat, Recover(q)
    PROVE  /\ p' \in ParserState /\ p'.depth = q.depth
           /\ errors' \in Nat /\ phase' = "line"
<1> DEFINE m == PastEndOfLine(ConsumeTo(q, EndOfLine))
<1>1. "EOF" \in EndOfLine
  BY DEF EndOfLine
<1>2. m \in ParserState /\ m.depth = q.depth
  BY <1>1, ConsumeTyped, PastTyped
<1>3. p' = [m EXCEPT !.err = FALSE] /\ errors' = errors + 1 /\ phase' = "line"
  BY DEF Recover
<1> HIDE DEF m
<1>4. /\ [m EXCEPT !.err = FALSE] \in ParserState
      /\ [m EXCEPT !.err = FALSE].depth = m.depth
  BY <1>2 DEF ParserState
<1>5. errors + 1 \in Nat
  OBVIOUS
<1> QED
  BY <1>2, <1>3, <1>4, <1>5

(* Nothing on the stack and nothing new among the trees.                   *)
LEMMA TreesKept ==
    ASSUME TreesTyped, node' = node, root' = root, calls' = <<>>,
           phase' \notin {"statement", "validating"}
    PROVE  TreesTyped'
  BY DEF TreesTyped, StackTyped

(* A step between two lines, or two statements, that records no line.      *)
LEMMA BetweenTyped ==
    ASSUME ParserIInv, UNCHANGED <<tokens, calls, node, numbers, root>>,
           phase \in {"line", "statements"}, phase' \in {"line", "statements"},
           phase' = "statements" => phase = "statements" /\ p'.line = p.line,
           p' \in ParserState, p'.depth = p.depth, errors' \in Nat
    PROVE  ParserIInv'
<1>1. calls = <<>>
  BY DEF ParserIInv, StateTyped, TreesTyped, StackTyped
<1>2. TreesTyped'
  BY <1>1, TreesKept DEF ParserIInv, StateTyped
<1>3. StateTyped'
  <2>1. InputTyped'
    BY DEF ParserIInv, StateTyped, InputTyped
  <2>2. PhaseTyped'
    BY DEF PhaseTyped
  <2>3. (p \in ParserState)'
    BY DEF ParserState
  <2>4. (Opens(calls) <= p.depth)'
    BY DEF ParserIInv, StateTyped, Opens, Open
  <2>5. (numbers \in Seq(0..MaxLine))'
    BY DEF ParserIInv, StateTyped
  <2> QED
    BY <1>2, <2>1, <2>2, <2>3, <2>4, <2>5 DEF StateTyped
<1>4. Ascending' /\ RootInOrder'
  BY DEF ParserIInv, Ascending, RootInOrder
<1>5. LineRecorded'
  BY DEF ParserIInv, LineRecorded
<1> QED
  BY <1>3, <1>4, <1>5 DEF ParserIInv

-----------------------------------------------------------------------------
(* One lemma for each action.                                              *)

(* What the invariant says of the parser's place. *)
LEMMA InvPlace ==
    ASSUME ParserIInv
    PROVE  InputTyped /\ p \in ParserState /\ errors \in Nat
  BY DEF ParserIInv, StateTyped

LEMMA SkipEmptyLineInv == ASSUME ParserIInv, SkipEmptyLine PROVE ParserIInv'
<1>1. phase = "line" /\ p' = Advance(p) /\ UNCHANGED <<tokens, calls, node, numbers, root, errors, phase>>
  BY DEF SkipEmptyLine, OnLine
<1>2. p' \in ParserState /\ p'.line = p.line /\ p'.depth = p.depth
  BY <1>1, InvPlace, AdvanceTyped
<1> QED
  BY <1>1, <1>2, InvPlace, BetweenTyped

LEMMA RejectLineInv == ASSUME ParserIInv, RejectLine PROVE ParserIInv'
<1>1. phase = "line" /\ Recover(p) /\ UNCHANGED <<tokens, calls, node, numbers, root>>
  BY DEF RejectLine
<1>2. p' \in ParserState /\ p'.depth = p.depth /\ errors' \in Nat /\ phase' = "line"
  BY <1>1, InvPlace, RecoverTyped
<1> QED
  BY <1>1, <1>2, BetweenTyped

LEMMA EndLineInv == ASSUME ParserIInv, EndLine PROVE ParserIInv'
<1>1. /\ phase = "statements" /\ p' = PastEndOfLine(p) /\ phase' = "line"
      /\ UNCHANGED <<tokens, calls, node, numbers, root, errors>>
  BY DEF EndLine, WithinLine
<1>2. p' \in ParserState /\ p'.line = p.line /\ p'.depth = p.depth
  BY <1>1, InvPlace, PastTyped
<1> QED
  BY <1>1, <1>2, InvPlace, BetweenTyped

LEMMA SkipColonInv == ASSUME ParserIInv, SkipColon PROVE ParserIInv'
<1>1. /\ phase = "statements" /\ p' = Advance(p)
      /\ UNCHANGED <<tokens, calls, node, numbers, root, errors, phase>>
  BY DEF SkipColon, WithinLine
<1>2. p' \in ParserState /\ p'.line = p.line /\ p'.depth = p.depth
  BY <1>1, InvPlace, AdvanceTyped
<1> QED
  BY <1>1, <1>2, InvPlace, BetweenTyped

(* A number that is recorded is greater than all before it.                *)
LEMMA RecordAscends ==
    ASSUME ParserIInv, NEW number \in Nat, record_line_number(number)
    PROVE  /\ Append(numbers, number) \in Seq(0..MaxLine)
           /\ \A i, j \in 1..(Len(numbers) + 1) :
                 i < j => Append(numbers, number)[i] < Append(numbers, number)[j]
<1>1. numbers \in Seq(0..MaxLine) /\ Len(numbers) \in Nat
  BY DEF ParserIInv, StateTyped
<1>2. number \in 0..MaxLine
  BY InputAssumption DEF record_line_number
<1>3. \A i \in 1..Len(numbers) : numbers[i] < number
  <2> SUFFICES ASSUME NEW i \in 1..Len(numbers) PROVE numbers[i] < number
    OBVIOUS
  <2> DEFINE last == numbers[Len(numbers)]
  <2>1. numbers # <<>> /\ Last(numbers) = last /\ Len(numbers) \in 1..Len(numbers)
    BY <1>1 DEF Last
  <2>2. last \in Nat /\ numbers[i] \in Nat
    BY <1>1, <2>1, InputAssumption, ElementOfSeq
  <2>3. numbers[i] <= last
    <3>1. DOMAIN numbers = 1..Len(numbers)
      BY <1>1
    <3>2. i = Len(numbers) \/ i < Len(numbers)
      BY <1>1
    <3>3. CASE i < Len(numbers)
      <4>1. numbers[i] < last
        BY <2>1, <3>1, <3>3 DEF ParserIInv, Ascending
      <4> QED
        BY <2>2, <4>1
    <3>4. CASE i = Len(numbers)
      BY <2>2, <3>4
    <3> QED
      BY <3>2, <3>3, <3>4
  <2>4. number \notin ToSet(numbers)
    BY DEF record_line_number
  <2>5. number # last
    BY <1>1, <2>1, <2>4 DEF ToSet
  <2>6. last > 0 => number > last
    BY <2>1 DEF record_line_number
  <2> HIDE DEF last
  <2> QED
    BY <2>2, <2>3, <2>5, <2>6
<1>4. Append(numbers, number) \in Seq(0..MaxLine)
  BY <1>1, <1>2, AppendProperties
<1>5. /\ \A i \in 1..Len(numbers) : Append(numbers, number)[i] = numbers[i]
      /\ Append(numbers, number)[Len(numbers) + 1] = number
  BY <1>1, <1>2, AppendProperties
<1>6. ASSUME NEW i \in 1..(Len(numbers) + 1), NEW j \in 1..(Len(numbers) + 1), i < j
      PROVE  Append(numbers, number)[i] < Append(numbers, number)[j]
  <2>1. i \in 1..Len(numbers) /\ Append(numbers, number)[i] = numbers[i]
    BY <1>1, <1>5, <1>6
  <2>2. CASE j = Len(numbers) + 1
    BY <1>3, <1>5, <2>1, <2>2
  <2>3. CASE j # Len(numbers) + 1
    <3>1. j \in 1..Len(numbers) /\ DOMAIN numbers = 1..Len(numbers)
      BY <1>1, <1>6, <2>3
    <3> QED
      BY <1>5, <1>6, <2>1, <3>1 DEF ParserIInv, Ascending
  <2> QED
    BY <2>2, <2>3
<1> QED
  BY <1>4, <1>6

LEMMA BeginLineInv == ASSUME ParserIInv, BeginLine PROVE ParserIInv'
<1> DEFINE number == Peek(p).v
           q == [Advance(p) EXCEPT !.line = number]
<1>1. number \in Nat /\ InputTyped /\ p \in ParserState /\ errors \in Nat
  BY InvPlace, PeekTyped
<1>2. q \in ParserState /\ q.depth = p.depth /\ q.line = number
  <2>1. Advance(p) \in ParserState /\ Advance(p).depth = p.depth
    BY <1>1, AdvanceTyped
  <2> QED
    BY <1>1, <2>1 DEF ParserState
<1>3. /\ phase = "line" /\ UNCHANGED <<tokens, calls, node, root>>
      /\ IF record_line_number(number)
         THEN /\ p' = q /\ numbers' = Append(numbers, number)
              /\ phase' = "statements" /\ UNCHANGED errors
         ELSE Recover(q) /\ UNCHANGED numbers
  BY DEF BeginLine, OnLine
<1> HIDE DEF number, q
<1>4. CASE ~record_line_number(number)
  <2>1. p' \in ParserState /\ p'.depth = p.depth /\ errors' \in Nat /\ phase' = "line"
    BY <1>1, <1>2, <1>3, <1>4, RecoverTyped
  <2> QED
    BY <1>3, <1>4, <2>1, BetweenTyped
<1>5. CASE record_line_number(number)
  <2>1. /\ p' = q /\ numbers' = Append(numbers, number)
        /\ phase' = "statements" /\ errors' = errors
    BY <1>3, <1>5
  <2>2. /\ numbers' \in Seq(0..MaxLine)
        /\ \A i, j \in 1..(Len(numbers) + 1) : i < j => numbers'[i] < numbers'[j]
    BY <1>1, <1>5, <2>1, RecordAscends
  <2>3. numbers \in Seq(0..MaxLine)
    BY DEF ParserIInv, StateTyped
  <2>4. Ascending'
    <3>1. DOMAIN numbers' = 1..(Len(numbers) + 1)
      BY <2>1, <2>3, AppendProperties
    <3> QED
      BY <2>2, <3>1 DEF Ascending
  <2>5. LineRecorded'
    <3>1. numbers' # <<>> /\ Last(numbers') = number
      BY <2>1, <2>2, <2>3, <1>1, AppendProperties DEF Last
    <3> QED
      BY <1>2, <2>1, <3>1 DEF LineRecorded
  <2>6. RootInOrder'
    <3>1. ToSet(numbers) \subseteq ToSet(numbers')
      BY <2>1, <2>3, AppendProperties DEF ToSet
    <3> QED
      BY <1>3, <3>1 DEF ParserIInv, RootInOrder
  <2>7. StateTyped'
    <3>1. calls = <<>>
      BY <1>3 DEF ParserIInv, StateTyped, TreesTyped, StackTyped
    <3>2. TreesTyped'
      BY <1>3, <2>1, <3>1, TreesKept DEF ParserIInv, StateTyped
    <3>3. InputTyped'
      BY <1>1, <1>3 DEF InputTyped
    <3>4. PhaseTyped' /\ errors' \in Nat
      BY <1>1, <2>1 DEF PhaseTyped
    <3>5. (p \in ParserState)'
      BY <1>2, <1>3, <2>1 DEF ParserState
    <3>6. (Opens(calls) <= p.depth)'
      BY <1>2, <1>3, <2>1 DEF ParserIInv, StateTyped, Opens, Open
    <3> QED
      BY <2>2, <3>2, <3>3, <3>4, <3>5, <3>6 DEF StateTyped
  <2> QED
    BY <2>4, <2>5, <2>6, <2>7 DEF ParserIInv
<1> QED
  BY <1>4, <1>5

LEMMA BeginStatementInv == ASSUME ParserIInv, BeginStatement PROVE ParserIInv'
<1>1. /\ phase = "statements" /\ calls' = <<StatementCall>> /\ phase' = "statement"
      /\ UNCHANGED <<tokens, p, node, numbers, root, errors>>
  BY DEF BeginStatement
<1>2. Ascending' /\ RootInOrder' /\ LineRecorded'
  BY <1>1 DEF ParserIInv, Ascending, RootInOrder, LineRecorded
<1>3. TreesTyped'
  <2>1. PICK S : Closed(S) /\ node \in S /\ root \in Seq(S)
    BY DEF ParserIInv, StateTyped, TreesTyped
  <2>2. StatementCall \in StatementFrames(S)
    BY DEF StatementCall, StatementFrames
  <2>3. <<StatementCall>> \in Seq(Frames(S))
    BY <2>2 DEF Frames, OtherFrames
  <2>4. calls' \in Seq(Frames(S)) /\ calls' # <<>> /\ calls'[Len(calls')] \in StatementFrames(S)
    BY <1>1, <2>2, <2>3
  <2>5. calls' \in Seq(Frames(S)')
    BY <1>1, <2>4 DEF Frames, RuleFrames, OtherFrames
  <2>6. StackTyped(S)'
    BY <1>1, <2>4, <2>5 DEF StackTyped
  <2> QED
    BY <1>1, <2>1, <2>6 DEF TreesTyped
<1>4. (Opens(calls) <= p.depth)'
  <2>1. Opens(<<StatementCall>>) = 0
    <3>1. <<StatementCall>> \in Seq(OtherFrames({}))
      BY DEF StatementCall, OtherFrames, StatementFrames
    <3> QED
      BY <3>1, OpensNone
  <2>2. p.depth \in Nat
    BY InvPlace DEF ParserState
  <2> QED
    BY <1>1, <2>1, <2>2 DEF Opens, Open
<1>5. StateTyped'
  <2>1. InputTyped' /\ PhaseTyped' /\ (p \in ParserState)'
    BY <1>1 DEF ParserIInv, StateTyped, InputTyped, PhaseTyped, ParserState
  <2> QED
    BY <1>1, <1>3, <1>4, <2>1 DEF StateTyped, ParserIInv
<1> QED
  BY <1>2, <1>5 DEF ParserIInv

LEMMA FramesSame ==
    ASSUME tokens' = tokens, NEW S
    PROVE  Frames(S)' = Frames(S)
  BY DEF Frames, RuleFrames, OtherFrames

LEMMA HeadAndTail ==
    ASSUME NEW F, NEW s \in Seq(F), s # <<>>
    PROVE  /\ Head(s) \in F /\ Tail(s) \in Seq(F) /\ <<Head(s)>> \in Seq(F)
           /\ s = <<Head(s)>> \o Tail(s)
<1>1. Head(s) \in F /\ Tail(s) \in Seq(F) /\ <<Head(s)>> \in Seq(F)
  OBVIOUS
<1>2. Len(<<Head(s)>> \o Tail(s)) = Len(s)
  OBVIOUS
<1>3. \A i \in 1..Len(s) : (<<Head(s)>> \o Tail(s))[i] = s[i]
  OBVIOUS
<1>4. <<Head(s)>> \o Tail(s) \in Seq(F)
  BY <1>1, ConcatProperties
<1> QED
  BY <1>1, <1>2, <1>3, <1>4, SeqEqual

LEMMA ParseStatementInv == ASSUME ParserIInv, ParseStatement PROVE ParserIInv'
<1> DEFINE c == Head(calls)
           rest == Tail(calls)
           r == Step(c, p, node)
<1>1. /\ phase = "statement" /\ calls # <<>>
      /\ p' = r.p /\ node' = r.node /\ calls' = r.calls \o rest
      /\ UNCHANGED <<tokens, numbers, root, errors, phase>>
  BY DEF ParseStatement
<1>2. InputTyped /\ p \in ParserState /\ Opens(calls) <= p.depth /\ p.depth \in Nat
  BY DEF ParserIInv, StateTyped, ParserState
<1>3. PICK S : Closed(S) /\ node \in S /\ root \in Seq(S) /\ StackTyped(S)
  BY DEF ParserIInv, StateTyped, TreesTyped
<1>4. calls \in Seq(Frames(S)) /\ calls[Len(calls)] \in StatementFrames(S)
  BY <1>1, <1>3 DEF StackTyped
<1>5. /\ c \in Frames(S) /\ rest \in Seq(Frames(S)) /\ <<c>> \in Seq(Frames(S))
      /\ calls = <<c>> \o rest
  BY <1>1, <1>4, HeadAndTail
<1>6. /\ Opens(calls) = Opens(<<c>>) + Opens(rest)
      /\ Opens(<<c>>) \in Nat /\ Opens(rest) \in Nat
  BY <1>5, OpensJoin, OpensNat
<1>7. rest = <<>> => c \in StatementFrames(S)
  <2> HIDE DEF c, rest
  <2> SUFFICES ASSUME rest = <<>> PROVE c \in StatementFrames(S)
    OBVIOUS
  <2>1. Len(calls) = 1 /\ calls[1] = c
    BY <1>5
  <2> QED
    BY <1>4, <2>1
<1>8. rest # <<>> => rest[Len(rest)] \in StatementFrames(S)
  <2> HIDE DEF c, rest
  <2> SUFFICES ASSUME rest # <<>> PROVE rest[Len(rest)] \in StatementFrames(S)
    OBVIOUS
  <2>1. Len(calls) = Len(rest) + 1 /\ calls[Len(calls)] = rest[Len(rest)]
    BY <1>5
  <2> QED
    BY <1>4, <2>1
<1> HIDE DEF c, rest
<1>9. /\ Acts(r, c, p, S)
      /\ c \in StatementFrames(S) => Ends(r, p, S)
  BY <1>2, <1>3, <1>5, <1>6, StepActs
<1> HIDE DEF r
<1>10. /\ r.p \in ParserState /\ r.p.line = p.line /\ r.node \in NodesIn(S)
       /\ r.calls \in Seq(Frames(S))
       /\ Opens(r.calls) + p.depth <= r.p.depth + Opens(<<c>>)
  BY <1>9 DEF Acts
<1>11. PICK T : T = S \cup {r.node} /\ Closed(T) /\ r.node \in T
  BY <1>3, <1>10, ClosedGrows
<1>12. /\ root \in Seq(T) /\ Seq(Frames(S)) \subseteq Seq(Frames(T))
       /\ StatementFrames(S) \subseteq StatementFrames(T)
  <2>1. S \subseteq T
    BY <1>11
  <2>2. Seq(S) \subseteq Seq(T)
    BY <2>1, SeqMonotonic
  <2>3. StatementFrames(S) \subseteq StatementFrames(T)
    BY <2>2 DEF StatementFrames
  <2> QED
    BY <1>3, <2>1, <2>2, <2>3, FramesGrow
<1>13. calls' \in Seq(Frames(S))
  BY <1>1, <1>5, <1>10, ConcatProperties
<1>14. IF calls' = <<>> THEN Made(node', p') ELSE calls'[Len(calls')] \in StatementFrames(S)
  <2>1. CASE rest # <<>>
    <3>1. calls' # <<>> /\ calls'[Len(calls')] = rest[Len(rest)]
      BY <1>1, <1>5, <1>10, <2>1
    <3> QED
      BY <1>8, <2>1, <3>1
  <2>2. CASE rest = <<>>
    <3>1. calls' = r.calls
      BY <1>1, <1>10, <2>2
    <3>2. Ends(r, p, S)
      BY <1>7, <1>9, <2>2
    <3> QED
      BY <1>1, <1>10, <3>1, <3>2 DEF Ends, Made
  <2> QED
    BY <2>1, <2>2
<1>15. TreesTyped'
  <2>1. calls' \in Seq(Frames(T))'
    BY <1>1, <1>12, <1>13, FramesSame
  <2>2. StackTyped(T)'
    BY <1>1, <1>12, <1>14, <2>1 DEF StackTyped
  <2> QED
    BY <1>1, <1>11, <1>12, <2>2 DEF TreesTyped
<1>16. (Opens(calls) <= p.depth)'
  <2>1. Opens(calls') = Opens(r.calls) + Opens(rest)
    BY <1>1, <1>5, <1>10, OpensJoin
  <2>2. Opens(r.calls) \in Nat /\ r.p.depth \in Nat
    BY <1>10, OpensNat DEF ParserState
  <2>3. Opens(calls') <= r.p.depth
    BY <1>2, <1>6, <1>10, <2>1, <2>2
  <2>4. Opens(calls)' = Opens(calls')
    BY DEF Opens, Open
  <2> QED
    BY <1>1, <2>3, <2>4
<1>17. StateTyped'
  <2>1. InputTyped' /\ PhaseTyped'
    BY <1>1 DEF ParserIInv, StateTyped, InputTyped, PhaseTyped
  <2>2. (p \in ParserState)'
    BY <1>1, <1>10 DEF ParserState
  <2> QED
    BY <1>1, <1>15, <1>16, <2>1, <2>2 DEF StateTyped, ParserIInv
<1>18. Ascending' /\ RootInOrder' /\ LineRecorded'
  BY <1>1, <1>10 DEF ParserIInv, Ascending, RootInOrder, LineRecorded
<1> QED
  BY <1>17, <1>18 DEF ParserIInv

(* A statement of the last line comes after those of the lines before.     *)
LEMMA RootGrows ==
    ASSUME ParserIInv, phase = "statement", calls = <<>>, ~Failed(node),
           root' = Append(root, node), numbers' = numbers
    PROVE  RootInOrder'
<1>1. node.k = "stmt" /\ node.line = p.line
  BY DEF ParserIInv, StateTyped, TreesTyped, StackTyped, Made
<1>2. numbers # <<>> /\ p.line = Last(numbers) /\ numbers \in Seq(0..MaxLine)
  BY DEF ParserIInv, StateTyped, LineRecorded
<1>3. Len(numbers) \in 1..Len(numbers) /\ Last(numbers) = numbers[Len(numbers)]
  BY <1>2 DEF Last
<1>4. Last(numbers) \in ToSet(numbers)
  BY <1>2, <1>3 DEF ToSet
<1>5. PICK S : root \in Seq(S) /\ node \in S
  BY DEF ParserIInv, StateTyped, TreesTyped
<1>6. /\ DOMAIN root = 1..Len(root) /\ DOMAIN root' = 1..(Len(root) + 1)
      /\ \A i \in DOMAIN root : root'[i] = root[i]
      /\ root'[Len(root) + 1] = node /\ Len(root) \in Nat
  BY <1>5, AppendProperties
<1>7. \A i \in DOMAIN root : root[i].line <= node.line
  <2> SUFFICES ASSUME NEW i \in DOMAIN root PROVE root[i].line <= node.line
    OBVIOUS
  <2>1. root[i].line \in ToSet(numbers)
    BY DEF ParserIInv, RootInOrder
  <2>2. PICK j \in DOMAIN numbers : root[i].line = numbers[j]
    BY <2>1 DEF ToSet
  <2>3. DOMAIN numbers = 1..Len(numbers) /\ j \in 1..Len(numbers) /\ Len(numbers) \in Nat
    BY <1>2
  <2>4. numbers[j] \in Nat /\ numbers[Len(numbers)] \in Nat
    BY <1>2, <1>3, <2>3, InputAssumption, ElementOfSeq
  <2>5. CASE j = Len(numbers)
    BY <1>1, <1>2, <1>3, <2>2, <2>4, <2>5
  <2>6. CASE j < Len(numbers)
    <3>1. numbers[j] < numbers[Len(numbers)]
      BY <1>3, <2>3, <2>6 DEF ParserIInv, Ascending
    <3> QED
      BY <1>1, <1>2, <1>3, <2>2, <2>4, <3>1
  <2> QED
    BY <2>3, <2>5, <2>6
<1>8. \A i \in DOMAIN root' : root'[i].k = "stmt" /\ root'[i].line \in ToSet(numbers')
  <2> SUFFICES ASSUME NEW i \in DOMAIN root'
               PROVE  root'[i].k = "stmt" /\ root'[i].line \in ToSet(numbers)
    BY DEF ToSet
  <2>1. CASE i \in DOMAIN root
    BY <1>6, <2>1 DEF ParserIInv, RootInOrder
  <2>2. CASE i = Len(root) + 1
    BY <1>1, <1>2, <1>4, <1>6, <2>2
  <2> QED
    BY <1>6, <2>1, <2>2
<1>9. \A i, j \in DOMAIN root' : i < j => root'[i].line <= root'[j].line
  <2> SUFFICES ASSUME NEW i \in DOMAIN root', NEW j \in DOMAIN root', i < j
               PROVE  root'[i].line <= root'[j].line
    OBVIOUS
  <2>1. i \in DOMAIN root
    BY <1>6
  <2>2. CASE j \in DOMAIN root
    BY <1>6, <2>1, <2>2 DEF ParserIInv, RootInOrder
  <2>3. CASE j = Len(root) + 1
    BY <1>6, <1>7, <2>1, <2>3
  <2> QED
    BY <1>6, <2>2, <2>3
<1> QED
  BY <1>8, <1>9 DEF RootInOrder

LEMMA EndStatementInv == ASSUME ParserIInv, EndStatement PROVE ParserIInv'
<1>1. /\ phase = "statement" /\ calls = <<>> /\ node' = NoNode
      /\ root' = IF Failed(node) THEN root ELSE Append(root, node)
      /\ UNCHANGED <<tokens, calls, numbers>>
  BY DEF EndStatement
<1>2. InputTyped /\ p \in ParserState /\ errors \in Nat
  BY InvPlace
<1>3. /\ p' \in ParserState /\ p'.depth = p.depth /\ errors' \in Nat
      /\ phase' \in {"line", "statements"}
      /\ phase' = "statements" => p'.line = p.line
  <2>1. CASE p.err \/ PeekType(p) \notin EndOfStatement
    <3>1. Recover(p)
      BY <2>1 DEF EndStatement
    <3> QED
      BY <1>2, <3>1, RecoverTyped
  <2>2. CASE ~(p.err \/ PeekType(p) \notin EndOfStatement)
    <3>1. /\ p' = IF PeekType(p) = "EOF" THEN p ELSE Advance(p)
          /\ phase' = IF PeekType(p) = "CEOS" THEN "statements" ELSE "line"
          /\ errors' = errors
      BY <2>2 DEF EndStatement
    <3> QED
      BY <1>2, <3>1, AdvanceTyped
  <2> QED
    BY <2>1, <2>2
<1>4. RootInOrder'
  <2>1. CASE Failed(node)
    BY <1>1, <2>1 DEF ParserIInv, RootInOrder
  <2>2. CASE ~Failed(node)
    BY <1>1, <2>2, RootGrows
  <2> QED
    BY <2>1, <2>2
<1>5. Ascending' /\ LineRecorded'
  BY <1>1, <1>3 DEF ParserIInv, Ascending, LineRecorded
<1>6. TreesTyped'
  <2>1. PICK S : Closed(S) /\ node \in S /\ root \in Seq(S)
    BY DEF ParserIInv, StateTyped, TreesTyped
  <2>2. root' \in Seq(S) /\ NoNode \in S
    BY <1>1, <2>1, AppendProperties DEF Closed
  <2>3. StackTyped(S)'
    BY <1>1, <1>3 DEF StackTyped
  <2> QED
    BY <1>1, <2>1, <2>2, <2>3 DEF TreesTyped
<1>7. StateTyped'
  <2>1. InputTyped' /\ PhaseTyped'
    BY <1>1, <1>2, <1>3 DEF InputTyped, PhaseTyped
  <2>2. (p \in ParserState)'
    BY <1>1, <1>3 DEF ParserState
  <2>3. (Opens(calls) <= p.depth)'
    BY <1>1, <1>3 DEF ParserIInv, StateTyped, Opens, Open
  <2>4. numbers' \in Seq(0..MaxLine)
    BY <1>1 DEF ParserIInv, StateTyped
  <2> QED
    BY <1>3, <1>6, <2>1, <2>2, <2>3, <2>4 DEF StateTyped
<1> QED
  BY <1>4, <1>5, <1>7 DEF ParserIInv

(* Validation changes the stack, and the number of errors.                 *)
LEMMA OpensValidations ==
    ASSUME NEW S, NEW s \in Seq(Validations(S))
    PROVE  Opens(s) = 0
<1>1. \A c \in Validations(S) : c.call = "validate"
  BY DEF Validations
<1>2. \A i \in DOMAIN s : s[i] \in Validations(S)
  OBVIOUS
<1>3. Open(s) = {}
  BY <1>1, <1>2 DEF Open
<1> QED
  BY <1>3, FS_EmptySet DEF Opens

LEMMA ValidationTyped ==
    ASSUME ParserIInv, UNCHANGED <<tokens, p, node, numbers, root>>, errors' \in Nat,
           phase' \in {"validating", "parsed"},
           NEW S, Closed(S), node \in S, root \in Seq(S), calls' \in Seq(Validations(S)),
           phase' = "parsed" => calls' = <<>>
    PROVE  ParserIInv'
<1>1. Ascending' /\ RootInOrder' /\ LineRecorded'
  BY DEF ParserIInv, Ascending, RootInOrder, LineRecorded
<1>2. StackTyped(S)'
  BY DEF StackTyped, Validations
<1>3. TreesTyped'
  BY <1>2 DEF TreesTyped
<1>4. (Opens(calls) <= p.depth)'
  <2>1. Opens(calls') = 0
    BY OpensValidations
  <2>2. p.depth \in Nat
    BY InvPlace DEF ParserState
  <2>3. Opens(calls)' = Opens(calls')
    BY DEF Opens, Open
  <2> QED
    BY <2>1, <2>2, <2>3
<1>5. StateTyped'
  <2>1. InputTyped' /\ PhaseTyped' /\ (p \in ParserState)'
    BY DEF ParserIInv, StateTyped, InputTyped, PhaseTyped, ParserState
  <2>2. numbers' \in Seq(0..MaxLine)
    BY DEF ParserIInv, StateTyped
  <2> QED
    BY <1>3, <1>4, <2>1, <2>2 DEF StateTyped
<1> QED
  BY <1>1, <1>5 DEF ParserIInv

LEMMA FinishInv == ASSUME ParserIInv, Finish PROVE ParserIInv'
<1> DEFINE program == NodeOf("program", NoToken, root)
<1>1. /\ phase = "line"
      /\ IF errors > 0 THEN phase' = "parsed" /\ UNCHANGED calls
         ELSE phase' = "validating" /\ calls' = <<Validation(program)>>
      /\ UNCHANGED <<tokens, p, node, numbers, root, errors>>
  BY DEF Finish, OnLine
<1>2. PICK S : Closed(S) /\ node \in S /\ root \in Seq(S)
  BY DEF ParserIInv, StateTyped, TreesTyped
<1>3. calls = <<>> /\ errors' \in Nat
  BY <1>1 DEF ParserIInv, StateTyped, TreesTyped, StackTyped
<1>4. program \in NodesIn(S)
  <2>1. NoToken \in Token
    BY DEF NoToken, Token, Type
  <2> QED
    BY <1>2, <2>1, NodesTyped DEF Kind
<1>5. PICK T : T = S \cup {program} /\ Closed(T) /\ program \in T
  BY <1>2, <1>4, ClosedGrows
<1>6. node \in T /\ root \in Seq(T)
  <2>1. Seq(S) \subseteq Seq(T)
    BY <1>5, SeqMonotonic
  <2> QED
    BY <1>2, <1>5, <2>1
<1> HIDE DEF program
<1>7. CASE errors > 0
  <2>1. calls' \in Seq(Validations(T)) /\ calls' = <<>> /\ phase' = "parsed"
    BY <1>1, <1>3, <1>7
  <2> QED
    BY <1>1, <1>3, <1>5, <1>6, <2>1, ValidationTyped
<1>8. CASE ~(errors > 0)
  <2>1. calls' = <<Validation(program)>> /\ phase' = "validating"
    BY <1>1, <1>8
  <2>2. calls' \in Seq(Validations(T))
    BY <1>5, <2>1 DEF Validation, Validations
  <2> QED
    BY <1>1, <1>3, <1>5, <1>6, <2>1, <2>2, ValidationTyped
<1> QED
  BY <1>7, <1>8

LEMMA ValidateNodeInv == ASSUME ParserIInv, ValidateNode PROVE ParserIInv'
<1> DEFINE n == Head(calls).node
           undefined == {i \in Validated(n) : /\ n.kids[i].k = "const"
                                              /\ n.kids[i].v \notin ToSet(numbers)}
           first == [i \in DOMAIN n.kids |-> Validation(n.kids[i])]
<1>1. /\ phase = "validating" /\ calls # <<>>
      /\ errors' = errors + Cardinality(undefined)
      /\ calls' = first \o Tail(calls)
      /\ UNCHANGED <<tokens, p, node, numbers, root, phase>>
  BY DEF ValidateNode
<1>2. PICK S : Closed(S) /\ node \in S /\ root \in Seq(S) /\ StackTyped(S)
  BY DEF ParserIInv, StateTyped, TreesTyped
<1>3. calls \in Seq(Validations(S))
  BY <1>1, <1>2 DEF StackTyped
<1>4. Head(calls) \in Validations(S) /\ Tail(calls) \in Seq(Validations(S))
  BY <1>1, <1>3
<1>5. n.kids \in Seq(S)
  BY <1>2, <1>4 DEF Validations, Closed, NodesIn
<1> HIDE DEF n
<1>6. first \in Seq(Validations(S))
  <2>1. DOMAIN first = 1..Len(n.kids) /\ Len(n.kids) \in Nat
    BY <1>5
  <2>2. \A i \in 1..Len(n.kids) : first[i] \in Validations(S)
    BY <1>5 DEF Validation, Validations
  <2>3. first \in [1..Len(n.kids) -> Validations(S)]
    BY <2>1, <2>2
  <2> HIDE DEF first
  <2> QED
    BY <2>1, <2>3, SeqDef
<1>7. errors' \in Nat
  <2>1. IsFiniteSet(1..Len(n.kids))
    BY <1>5, FS_Interval
  <2>2. undefined \subseteq 1..Len(n.kids)
    BY <1>5 DEF Validated
  <2>3. Cardinality(undefined) \in Nat
    BY <2>1, <2>2, FS_Subset, FS_CardinalityType
  <2> HIDE DEF undefined
  <2> QED
    BY <1>1, <2>3, InvPlace
<1> HIDE DEF first
<1>8. calls' \in Seq(Validations(S))
  BY <1>1, <1>4, <1>6, ConcatProperties
<1> QED
  BY <1>1, <1>2, <1>7, <1>8, ValidationTyped

LEMMA EndValidationInv == ASSUME ParserIInv, EndValidation PROVE ParserIInv'
<1>1. /\ phase = "validating" /\ calls = <<>> /\ phase' = "parsed"
      /\ UNCHANGED <<tokens, p, calls, node, numbers, root, errors>>
  BY DEF EndValidation
<1>2. PICK S : Closed(S) /\ node \in S /\ root \in Seq(S)
  BY DEF ParserIInv, StateTyped, TreesTyped
<1>3. calls' \in Seq(Validations(S)) /\ errors' \in Nat
  BY <1>1, InvPlace
<1> QED
  BY <1>1, <1>2, <1>3, ValidationTyped

-----------------------------------------------------------------------------
(* The theorems.                                                           *)

LEMMA ParserInvariant == ParserSpec => []ParserIInv
<1>1. ParserInit => ParserIInv
  BY InitTyped
<1>2. ParserIInv /\ [ParserNext]_parserVars => ParserIInv'
  <2> SUFFICES ASSUME ParserIInv, [ParserNext]_parserVars PROVE ParserIInv'
    OBVIOUS
  <2>1. CASE SkipEmptyLine
    BY <2>1, SkipEmptyLineInv
  <2>2. CASE RejectLine
    BY <2>2, RejectLineInv
  <2>3. CASE BeginLine
    BY <2>3, BeginLineInv
  <2>4. CASE EndLine
    BY <2>4, EndLineInv
  <2>5. CASE SkipColon
    BY <2>5, SkipColonInv
  <2>6. CASE BeginStatement
    BY <2>6, BeginStatementInv
  <2>7. CASE ParseStatement
    BY <2>7, ParseStatementInv
  <2>8. CASE EndStatement
    BY <2>8, EndStatementInv
  <2>9. CASE Finish
    BY <2>9, FinishInv
  <2>10. CASE ValidateNode
    BY <2>10, ValidateNodeInv
  <2>11. CASE EndValidation
    BY <2>11, EndValidationInv
  <2>12. CASE UNCHANGED parserVars
    <3>1. UNCHANGED <<tokens, p, calls, node, numbers, root, errors, phase>>
      BY <2>12 DEF parserVars
    <3>2. Ascending' /\ RootInOrder' /\ LineRecorded'
      BY <3>1 DEF ParserIInv, Ascending, RootInOrder, LineRecorded
    <3>3. TreesTyped'
      <4>1. PICK S : Closed(S) /\ node \in S /\ root \in Seq(S) /\ StackTyped(S)
        BY DEF ParserIInv, StateTyped, TreesTyped
      <4>2. StackTyped(S)'
        BY <3>1, <4>1, FramesSame DEF StackTyped
      <4> QED
        BY <3>1, <4>1, <4>2 DEF TreesTyped
    <3>4. StateTyped'
      BY <3>1, <3>3 DEF ParserIInv, StateTyped, InputTyped, PhaseTyped, ParserState, Opens, Open
    <3> QED
      BY <3>2, <3>4 DEF ParserIInv
  <2> QED
    BY <2>1, <2>2, <2>3, <2>4, <2>5, <2>6, <2>7, <2>8, <2>9, <2>10, <2>11, <2>12
       DEF ParserNext
<1> QED
  BY <1>1, <1>2, PTL DEF ParserSpec

(* The types and bounds of the parser hold throughout, whatever it is      *)
(* given: the depth of the recursion never passes its limit and is never   *)
(* less than the number of rules that are open.                            *)
THEOREM ParserTypeCorrect == ParserSpec => []ParserTypeOK
<1>1. ParserIInv => ParserTypeOK
  <2> SUFFICES ASSUME ParserIInv PROVE ParserTypeOK
    OBVIOUS
  <2>1. \A i \in DOMAIN tokens : tokens[i].v \in Nat
    <3> SUFFICES ASSUME NEW i \in DOMAIN tokens PROVE tokens[i].v \in Nat
      OBVIOUS
    <3>1. tokens \in Seq([t : STRING, v : Nat])
      BY DEF ParserIInv, StateTyped, InputTyped
    <3>2. i \in 1..Len(tokens)
      BY <3>1
    <3>3. tokens[i] \in [t : STRING, v : Nat]
      BY <3>1, <3>2, ElementOfSeq
    <3> QED
      BY <3>3
  <2>2. p \in ParserState /\ Opens(calls) <= p.depth
    BY DEF ParserIInv, StateTyped
  <2>3. p.depth \in Cardinality(OpenRules)..MaxDepth
    <3>1. Opens(calls) = Cardinality(OpenRules)
      BY DEF Opens, Open, OpenRules
    <3>2. Opens(calls) \in Nat
      <4>1. PICK S : StackTyped(S)
        BY DEF ParserIInv, StateTyped, TreesTyped
      <4>2. \E F : calls \in Seq(F)
        <5>1. <<>> \in Seq({})
          OBVIOUS
        <5> QED
          BY <4>1, <5>1 DEF StackTyped
      <4> QED
        BY <4>2, OpensNat
    <3>3. p.depth \in 0..MaxDepth /\ MaxDepth \in Nat
      BY <2>2, InputAssumption DEF ParserState
    <3> QED
      BY <2>2, <3>1, <3>2, <3>3
  <2>4. p.pos \in 1..(Len(tokens) + 1) /\ p.err \in BOOLEAN /\ p.line \in Nat
    BY <2>2 DEF ParserState
  <2>5. /\ \A i \in DOMAIN numbers : numbers[i] \in 0..MaxLine
        /\ \A i \in DOMAIN root : root[i].k = "stmt"
        /\ errors \in Nat
    <3>1. numbers \in Seq(0..MaxLine) /\ errors \in Nat /\ RootInOrder
      BY DEF ParserIInv, StateTyped
    <3>2. DOMAIN numbers = 1..Len(numbers)
      BY <3>1
    <3>3. \A i \in 1..Len(numbers) : numbers[i] \in 0..MaxLine
      BY <3>1, ElementOfSeq
    <3> QED
      BY <3>1, <3>2, <3>3 DEF RootInOrder
  <2> QED
    BY <2>1, <2>3, <2>4, <2>5 DEF ParserTypeOK, ParserIInv, StateTyped, PhaseTyped
<1> QED
  BY <1>1, ParserInvariant, PTL

(* Whatever lines are refused and whatever statements fail, the statements *)
(* that are left are in the order of their lines, each line recorded once: *)
(* what the line map of the code generators is searched by.                *)
THEOREM LinesAreAscending == ParserSpec => []LinesAscend
<1>1. ParserIInv => LinesAscend
  BY DEF ParserIInv, LinesAscend, Ascending, RootInOrder
<1> QED
  BY <1>1, ParserInvariant, PTL

-----------------------------------------------------------------------------
(* The parts of an IF.                                                     *)
(*                                                                         *)
(* Which function waits for which: every call on the stack returns what    *)
(* the one below it waits for.  A frame that waits has made a call and is  *)
(* given its node; one that does not is a call still to be made.           *)

ExpressionCalls ==
    {"expression", "led", "operator", "subscript", "parenthesis", "sign", "argument"}
EntryOf(c) == Rules[c.nt][c.a][c.i]
WaitsForExpression(c) ==
    \/ c.call \in (ExpressionCalls \ {"expression"}) \cup {"channel", "operand"}
    \/ c.call = "entry" /\ EntryOf(c) = "VEXP"
WaitsForRule(c) ==
    \/ c.call \in {"made", "body_statement"}
    \/ c.call = "entry" /\ EntryOf(c) # "VEXP"
Waits(c) == WaitsForExpression(c) \/ WaitsForRule(c)

(* The rule that a call other than an expression parses, and the one that  *)
(* a frame waits for.                                                      *)
Parses(c) ==
    IF c.call \in {"nonterminal", "rule", "entry"} THEN c.nt
    ELSE IF c.call \in {"body", "body_statement"} THEN "IFBODY" ELSE "STATEMENT"
Awaited(c) ==
    IF c.call = "made" THEN StatementRule[c.t]
    ELSE IF c.call = "entry" THEN EntryOf(c) ELSE "STATEMENT"
Answers(b, c) ==
    IF b.call \in ExpressionCalls THEN WaitsForExpression(c)
    ELSE WaitsForRule(c) /\ Parses(b) = Awaited(c)

(* The children of an IF's rule, as far as there are any. *)
IfParts(kids) ==
    /\ Len(kids) >= 1 => IsCondition(kids[1])
    /\ Len(kids) >= 3 => IsBody(kids[3])
    /\ Len(kids) >= 4 => IsElse(kids[4])

(* The node that a rule returns when it succeeds. *)
IsResult(nt, n) ==
    /\ nt = "STATEMENT" => n.k = "stmt"
    /\ nt = "IFBODY" => IsBody(n)
    /\ nt = "IFELSE" => IsElse(n)
    /\ nt = "IF" => Len(n.kids) >= 4 /\ IfParts(n.kids)
IsExpression(n) == Failed(n) \/ IsCondition(n)
Takes(c, n) ==
    /\ WaitsForExpression(c) => IsExpression(n)
    /\ WaitsForRule(c) => Failed(n) \/ IsResult(Awaited(c), n)
Gives(c, n) ==
    IF c.call \in ExpressionCalls THEN IsExpression(n)
    ELSE Failed(n) \/ IsResult(Parses(c), n)
IfNode(n) == n.k = "stmt" /\ n.t = "IF" => IfParts(n.kids) /\ Len(n.kids) >= 4

(* What one step of the call c returns, or puts in its place. *)
InPlace(d, c) ==
    IF c.call \in ExpressionCalls THEN d.call \in ExpressionCalls
    ELSE d.call \notin ExpressionCalls /\ Parses(d) = Parses(c)
Fine(r, c) ==
    /\ IfNode(r.node)
    /\ IF r.calls = <<>> THEN Gives(c, r.node)
       ELSE /\ Takes(r.calls[1], r.node)
            /\ \A k \in 1..(Len(r.calls) - 1) : Answers(r.calls[k], r.calls[k + 1])
            /\ InPlace(r.calls[Len(r.calls)], c)

-----------------------------------------------------------------------------
(* The runs of the expression parser.  What it does next is decided by its *)
(* place among the tokens, by the calls on the stack above the one it      *)
(* started from, and by the node just returned: not by the error flag, the *)
(* depth or the line.                                                      *)

At(pos) == [pos |-> pos, err |-> FALSE, depth |-> 0, line |-> 0]
Point(pos, n, cs) == [pos |-> pos, node |-> n, calls |-> cs]
Following(x) ==
    LET r == Step(Head(x.calls), At(x.pos), x.node)
    IN  Point(r.p.pos, r.node, r.calls \o Tail(x.calls))
Started(start) == Point(start, NoNode, <<Expression(0)>>)

(* f is a run, of n steps, of the expression that starts at a token.       *)
Run(f, n, start) ==
    /\ f[0] = Started(start)
    /\ \A i \in 0..(n - 1) :
          /\ f[i].pos \in 1..(Len(tokens) + 1)
          /\ f[i].calls # <<>> /\ Head(f[i].calls).call \in ExpressionCalls
          /\ f[i + 1] = Following(f[i])
Reached(start, x) == \E f : \E n \in Nat : Run(f, n, start) /\ f[n] = x

(* No IF can have this for its condition and do without THEN behind it.    *)
Doomed(start) ==
    \A x : Reached(start, x) /\ x.calls = <<>> =>
              Failed(x.node) \/ TypeAt(x.pos) = "CTHEN"

-----------------------------------------------------------------------------
(* What is in the frames.                                                  *)

(* The second alternative begins as the first did, and fails as well.      *)
Tainted(c) == c.a = 2 /\ c.i \in {1, 2} /\ Len(c.kids) = c.i - 1
Orderly(c) ==
    /\ c.a \in {1, 2} /\ c.i \in 1..(7 - c.a)
    /\ Len(c.kids) = c.i + c.a - 2
    /\ IfParts(c.kids)
    /\ c.a = 1 /\ c.i >= 3 => Doomed(c.start)
IfFrame(c) == Orderly(c) \/ (Tainted(c) /\ Doomed(c.start))
ElseFrame(c) ==
    \/ /\ c.a = 1 /\ c.i \in 1..3 /\ Len(c.kids) = c.i - 1
       /\ c.i >= 2 => c.kids[1].t = "ELSE"
    \/ c.a = 2 /\ c.i = 1 /\ c.kids = <<>>
RuleFrame(c) ==
    /\ c.nt \notin {"STATEMENT", "REM_BODY", "IFBODY"}
    /\ c.nt = "IF" => IfFrame(c)
    /\ c.nt = "IFELSE" => ElseFrame(c)
    /\ c.call = "entry" => /\ c.i \in DOMAIN Rules[c.nt][c.a]
                           /\ EntryOf(c) = "VEXP" \/ IsRule(EntryOf(c))
Statements(kids) == \A i \in 1..Len(kids) : kids[i].k = "stmt"
Local(c) ==
    /\ c.call \in {"rule", "entry"} => RuleFrame(c)
    /\ c.call \in {"body", "body_statement"} => Statements(c.kids)
    /\ c.call \in {"print", "channel", "operand"} => c.t \in {"PRINT", "QUESTION"}

(* The stack above the second entry of an alternative that has to fail.    *)
Ladder(x) ==
    \/ /\ TypeAt(x.pos) = "CTHEN"
       /\ x.calls \in {<<NonTerminal("IFBODY")>>, <<[call |-> "body", kids |-> <<>>]>>,
                       <<StatementCall, [call |-> "body_statement", kids |-> <<>>]>>}
    \/ /\ Failed(x.node)
       /\ x.calls \in {<<[call |-> "body_statement", kids |-> <<>>]>>, <<>>}

(* What is between a rule of an IF and the place that has been reached.    *)
WatchEntry(c, x) ==
    c.call = "entry" /\ c.nt = "IF" =>
      /\ c.i = 1 => /\ Reached(c.start, x)
                    /\ \A k \in 1..Len(x.calls) : x.calls[k].call \in ExpressionCalls
      /\ Tainted(c) /\ c.i = 2 => Ladder(x)
WatchRule(c, x) ==
    c.call = "rule" /\ c.nt = "IF" =>
      /\ c.i = 1 => x.pos = c.start
      /\ c.a = 1 /\ c.i = 2 => Reached(c.start, Point(x.pos, c.kids[1], <<>>))
      /\ Tainted(c) /\ c.i = 2 => TypeAt(x.pos) = "CTHEN"
Watch(c, x) == WatchEntry(c, x) /\ WatchRule(c, x)

(* The stack cs, with the parser at pos and n just returned.               *)
InOrder(pos, n, cs) ==
    /\ \A j \in 1..(Len(cs) - 1) : Answers(cs[j], cs[j + 1])
    /\ cs # <<>> => Takes(cs[1], n)
    /\ \A j \in 1..Len(cs) :
          Local(cs[j]) /\ Watch(cs[j], Point(pos, n, SubSeq(cs, 1, j - 1)))
IfInv == IfNode(node) /\ (phase = "statement" => InOrder(p.pos, node, calls))

-----------------------------------------------------------------------------
(* A step of an expression.                                                *)

(* No node is a node that anything may be given. *)
LEMMA NoNodeTaken ==
    /\ IfNode(NoNode) /\ IsExpression(NoNode)
    /\ \A c : Takes(c, NoNode) /\ Gives(c, NoNode)
<1>1. Failed(NoNode) /\ NoNode.k = "null"
  BY DEF Failed, NoNode, NodeOf
<1> QED
  BY <1>1 DEF IfNode, IsExpression, Takes, Gives

(* A node of another kind than a statement's is not an IF. *)
LEMMA NodeTaken ==
    ASSUME NEW kind \in {"group", "var", "const", "op", "call"}, NEW tok, NEW kids
    PROVE  /\ IfNode(NodeOf(kind, tok, kids))
           /\ kind # "group" => IsExpression(NodeOf(kind, tok, kids))
  BY DEF NodeOf, IfNode, IsExpression, IsCondition

(* Nor is the node of a token.                                             *)
LEMMA LeafTaken ==
    ASSUME NEW tok
    PROVE  IfNode(Leaf(tok)) /\ IsExpression(Leaf(tok))
  BY NodeTaken DEF Leaf

(* Three ways to go on. *)
LEMMA ReturnFine ==
    ASSUME NEW c, NEW q, NEW n, Gives(c, n), IfNode(n)
    PROVE  Fine(Return(n, q), c)
  BY DEF Fine, Return, Does

LEMMA OneCallFine ==
    ASSUME NEW c, NEW q, NEW d, InPlace(d, c)
    PROVE  Fine(Continue(q, <<d>>), c)
  BY NoNodeTaken DEF Fine, Continue, Does

LEMMA TwoCallsFine ==
    ASSUME NEW c, NEW q, NEW b, NEW d, Answers(b, d), InPlace(d, c)
    PROVE  Fine(Continue(q, <<b, d>>), c)
<1>1. \A k \in 1..(2 - 1) : k = 1
  OBVIOUS
<1> QED
  BY <1>1, NoNodeTaken DEF Fine, Continue, Does

(* What the parse actions do: return, or have an operand parsed first.     *)
Operates(r) ==
    \/ \E n, m : r = Return(n, m) /\ IsExpression(n) /\ IfNode(n)
    \/ \E m, min, d : /\ r = Continue(m, <<Expression(min), d>>)
                      /\ d.call \in ExpressionCalls \ {"expression"}

LEMMA OperatesReturn ==
    ASSUME NEW n, NEW m, IsExpression(n), IfNode(n)
    PROVE  Operates(Return(n, m))
  BY DEF Operates

LEMMA OperatesContinue ==
    ASSUME NEW m, NEW min, NEW d, d.call \in ExpressionCalls \ {"expression"}
    PROVE  Operates(Continue(m, <<Expression(min), d>>))
  BY DEF Operates

(* A parse action that returns, or asks for an operand, keeps the calls in *)
(* order.                                                                  *)
LEMMA OperatesFine ==
    ASSUME NEW r, Operates(r), NEW c, c.call \in ExpressionCalls
    PROVE  Fine(r, c)
<1>1. CASE \E n, m : r = Return(n, m) /\ IsExpression(n) /\ IfNode(n)
  <2>1. PICK n, m : r = Return(n, m) /\ IsExpression(n) /\ IfNode(n)
    BY <1>1
  <2>2. Gives(c, n)
    BY <2>1 DEF Gives
  <2> QED
    BY <2>1, <2>2, ReturnFine
<1>2. CASE \E m, min, d : /\ r = Continue(m, <<Expression(min), d>>)
                          /\ d.call \in ExpressionCalls \ {"expression"}
  <2>1. PICK m, min, d : /\ r = Continue(m, <<Expression(min), d>>)
                         /\ d.call \in ExpressionCalls \ {"expression"}
    BY <1>2
  <2>2. Answers(Expression(min), d) /\ InPlace(d, c)
    BY <2>1 DEF Answers, Expression, ExpressionCalls, WaitsForExpression, InPlace
  <2> QED
    BY <2>1, <2>2, TwoCallsFine
<1> QED
  BY <1>1, <1>2 DEF Operates

(* The loop over the operators waits for what a parse action returns.      *)
LEMMA ThenLedFine ==
    ASSUME NEW r, Operates(r), NEW d, d.call = "led", NEW c, c.call \in ExpressionCalls
    PROVE  Fine(Then(r, d), c)
<1>1. InPlace(d, c)
  BY DEF InPlace, ExpressionCalls
<1>2. CASE \E n, m : r = Return(n, m) /\ IsExpression(n) /\ IfNode(n)
  <2>1. PICK n, m : r = Return(n, m) /\ IsExpression(n) /\ IfNode(n)
    BY <1>2
  <2>2. Then(r, d) = Does(n, m, <<d>>)
    BY <2>1 DEF Then, Return, Does
  <2>3. Takes(d, n)
    BY <2>1 DEF Takes, WaitsForRule
  <2> QED
    BY <1>1, <2>1, <2>2, <2>3 DEF Fine, Does
<1>3. CASE \E m, min, e : /\ r = Continue(m, <<Expression(min), e>>)
                          /\ e.call \in ExpressionCalls \ {"expression"}
  <2>1. PICK m, min, e : /\ r = Continue(m, <<Expression(min), e>>)
                         /\ e.call \in ExpressionCalls \ {"expression"}
    BY <1>3
  <2>2. Then(r, d) = Does(NoNode, m, <<Expression(min), e, d>>)
    BY <2>1 DEF Then, Continue, Does
  <2>3. Answers(Expression(min), e) /\ Answers(e, d)
    BY <2>1 DEF Answers, Expression, ExpressionCalls, WaitsForExpression
  <2>4. \A k \in 1..(3 - 1) : k = 1 \/ k = 2
    OBVIOUS
  <2> QED
    BY <1>1, <2>2, <2>3, <2>4, NoNodeTaken DEF Fine, Does
<1> QED
  BY <1>2, <1>3 DEF Operates

(* The parse actions. *)
LEMMA VariableOperates ==
    ASSUME NEW q PROVE Operates(parse_variable(q))
<1>1. IfNode(NodeOf("var", Peek(q), <<>>)) /\ IsExpression(NodeOf("var", Peek(q), <<>>))
  BY NodeTaken
<1>2. \A d : d = [call |-> "subscript", tok |-> Peek(q), args |-> <<>>]
                 => d.call \in ExpressionCalls \ {"expression"}
  BY DEF ExpressionCalls
<1> QED
  BY <1>1, <1>2, OperatesReturn, OperatesContinue DEF parse_variable

(* The parse actions of the expressions, one by one.                       *)
LEMMA SubscriptOperates ==
    ASSUME NEW c, c.call = "subscript", NEW S,
           c \in [call : {"subscript", "argument"}, tok : Token, args : Seq(S)],
           NEW q, NEW n
    PROVE  Operates(AfterSubscript(c, q, n))
<1> DEFINE args == Append(c.args, n)
           var == NodeOf("var", c.tok, args)
           d == [c EXCEPT !.args = args]
<1>1. IfNode(var) /\ IsExpression(var)
  BY NodeTaken
<1>2. d.call \in ExpressionCalls \ {"expression"}
  BY DEF ExpressionCalls
<1>3. AfterSubscript(c, q, n) \in {Continue(Advance(q), <<Expression(0), d>>),
                                   Return(var, match_or_error(q, "CRPRN"))}
  BY DEF AfterSubscript
<1> QED
  BY <1>1, <1>2, <1>3, OperatesReturn, OperatesContinue

LEMMA CheckArityOperates ==
    ASSUME NEW tok, NEW args, NEW q PROVE Operates(CheckArity(tok, args, q))
  BY NodeTaken, OperatesReturn DEF CheckArity

LEMMA FunctionOperates ==
    ASSUME NEW q PROVE Operates(parse_function_call(q))
<1>1. \A d : d = [call |-> "argument", tok |-> Peek(q), args |-> <<>>]
                 => d.call \in ExpressionCalls \ {"expression"}
  BY DEF ExpressionCalls
<1> QED
  BY <1>1, CheckArityOperates, OperatesContinue DEF parse_function_call

LEMMA ArgumentOperates ==
    ASSUME NEW c, c.call = "argument", NEW S,
           c \in [call : {"subscript", "argument"}, tok : Token, args : Seq(S)],
           NEW q, NEW n
    PROVE  Operates(AfterArgument(c, q, n))
<1> DEFINE args == Append(c.args, n)
           call == NodeOf("call", c.tok, args)
           d == [c EXCEPT !.args = args]
<1>1. IfNode(call) /\ IsExpression(call)
  BY NodeTaken
<1>2. d.call \in ExpressionCalls \ {"expression"}
  BY DEF ExpressionCalls
<1>3. AfterArgument(c, q, n) \in {Continue(Advance(q), <<Expression(0), d>>),
                                  CheckArity(c.tok, args, Advance(q)),
                                  Return(call, set_error(q))}
  BY DEF AfterArgument
<1> QED
  BY <1>1, <1>2, <1>3, OperatesReturn, OperatesContinue, CheckArityOperates

LEMMA BinaryOperates ==
    ASSUME NEW q, NEW left PROVE Operates(parse_binary_op(q, left))
<1>1. \A d : d = [call |-> "operator", tok |-> Peek(q), left |-> left]
                 => d.call \in ExpressionCalls \ {"expression"}
  BY DEF ExpressionCalls
<1> QED
  BY <1>1, OperatesContinue DEF parse_binary_op

LEMMA NudOperates ==
    ASSUME NEW q PROVE Operates(Nud(q))
<1>1. Operates(Return(Leaf(Peek(q)), Advance(q))) /\ Operates(Fail(q))
  BY LeafTaken, NoNodeTaken, OperatesReturn DEF Fail
<1>2. Operates(parse_parenthesized(q))
  <2>1. \A d : d = [call |-> "parenthesis"] => d.call \in ExpressionCalls \ {"expression"}
    BY DEF ExpressionCalls
  <2> QED
    BY <2>1, OperatesContinue DEF parse_parenthesized
<1>3. Operates(parse_unary(q))
  <2>1. \A d : d = [call |-> "sign", tok |-> Peek(q)]
                   => d.call \in ExpressionCalls \ {"expression"}
    BY DEF ExpressionCalls
  <2> QED
    BY <2>1, OperatesContinue DEF parse_unary
<1>4. Nud(q) \in {Return(Leaf(Peek(q)), Advance(q)), parse_variable(q),
                  parse_parenthesized(q), parse_unary(q), parse_function_call(q), Fail(q)}
  BY DEF Nud
<1> QED
  BY <1>1, <1>2, <1>3, <1>4, VariableOperates, FunctionOperates

(* Every step of an expression is fine. *)
LEMMA ExpressionFine ==
    ASSUME NEW S, NEW c \in ExpressionFrames(S), NEW q, NEW n, Takes(c, n), IfNode(n)
    PROVE  c.call \in ExpressionCalls /\ Fine(Step(c, q, n), c)
<1>1. CASE c \in [call : {"expression", "led"}, min : Levels]
  <2>1. CASE c.call = "expression"
    <3>1. Step(c, q, n) = Then(Nud(q), [call |-> "led", min |-> c.min])
      BY <2>1 DEF Step, parse_expression_pratt_prec
    <3>2. c.call \in ExpressionCalls
      BY <2>1 DEF ExpressionCalls
    <3> QED
      BY <3>1, <3>2, NudOperates, ThenLedFine
  <2>2. CASE c.call = "led"
    <3>1. Step(c, q, n) = Led(c, q, n)
      BY <2>2 DEF Step
    <3>2. c.call \in ExpressionCalls
      BY <2>2 DEF ExpressionCalls
    <3>3. Fine(Then(parse_binary_op(q, n), c), c)
      BY <2>2, <3>2, BinaryOperates, ThenLedFine
    <3>4. IsExpression(n)
      BY <2>2 DEF Takes, WaitsForExpression, ExpressionCalls
    <3>5. Fine(Return(n, q), c)
      BY <3>2, <3>4, OperatesReturn, OperatesFine
    <3> QED
      BY <3>1, <3>2, <3>3, <3>5 DEF Led
  <2> QED
    BY <1>1, <2>1, <2>2
<1>2. CASE c \in [call : {"operator"}, tok : Token, left : S]
  <2>1. Step(c, q, n) = AfterOperator(c, q, n) /\ c.call \in ExpressionCalls
    BY <1>2 DEF Step, ExpressionCalls
  <2> QED
    BY <2>1, NodeTaken, OperatesReturn, OperatesFine DEF AfterOperator
<1>3. CASE c \in [call : {"subscript", "argument"}, tok : Token, args : Seq(S)]
  <2>1. c.call \in ExpressionCalls
    BY <1>3 DEF ExpressionCalls
  <2>2. CASE c.call = "subscript"
    <3>1. Step(c, q, n) = AfterSubscript(c, q, n)
      BY <2>2 DEF Step
    <3> QED
      BY <1>3, <2>1, <2>2, <3>1, SubscriptOperates, OperatesFine
  <2>3. CASE c.call = "argument"
    <3>1. Step(c, q, n) = AfterArgument(c, q, n)
      BY <2>3 DEF Step
    <3> QED
      BY <1>3, <2>1, <2>3, <3>1, ArgumentOperates, OperatesFine
  <2> QED
    BY <1>3, <2>2, <2>3
<1>4. CASE c \in [call : {"parenthesis"}]
  <2>1. Step(c, q, n) = AfterParenthesis(q, n) /\ c.call = "parenthesis"
    BY <1>4 DEF Step
  <2>2. IsExpression(n) /\ c.call \in ExpressionCalls
    BY <2>1 DEF Takes, WaitsForExpression, ExpressionCalls
  <2> QED
    BY <2>1, <2>2, OperatesReturn, OperatesFine DEF AfterParenthesis
<1>5. CASE c \in [call : {"sign"}, tok : Token]
  <2>1. Step(c, q, n) = AfterSign(c, q, n) /\ c.call = "sign"
    BY <1>5 DEF Step
  <2>2. IsExpression(n) /\ c.call \in ExpressionCalls
    BY <2>1 DEF Takes, WaitsForExpression, ExpressionCalls
  <2> QED
    BY <2>1, <2>2, NodeTaken, OperatesReturn, OperatesFine DEF AfterSign
<1> QED
  BY <1>1, <1>2, <1>3, <1>4, <1>5 DEF ExpressionFrames

-----------------------------------------------------------------------------
(* An expression depends on the place only.                                *)

Alike(q, m) == q.pos = m.pos
Same(r, s) == Alike(r.p, s.p) /\ r.node = s.node /\ r.calls = s.calls

(* Looking and moving on. *)
LEMMA AdvanceAlike ==
    ASSUME InputTyped, NEW q \in ParserState, NEW m \in ParserState, Alike(q, m)
    PROVE  /\ Peek(q) = Peek(m) /\ PeekType(q) = PeekType(m)
           /\ Alike(Advance(q), Advance(m))
           /\ Alike(set_error(q), set_error(m)) /\ Alike(q, set_error(m))
           /\ Alike(set_error(q), m)
  BY DEF Alike, Peek, PeekType, Advance, set_error, ParserState

(* What each function of the expression parser does is the same in two     *)
(* states of the parser at the same token.                                 *)
LEMMA MatchAlike ==
    ASSUME InputTyped, NEW q \in ParserState, NEW m \in ParserState, Alike(q, m), NEW t
    PROVE  Alike(match_or_error(q, t), match_or_error(m, t))
  BY AdvanceAlike DEF match_or_error

LEMMA SameReturn ==
    ASSUME NEW q, NEW m, Alike(q, m), NEW n
    PROVE  Same(Return(n, q), Return(n, m))
  BY DEF Same, Return, Does

LEMMA SameContinue ==
    ASSUME NEW q, NEW m, Alike(q, m), NEW cs
    PROVE  Same(Continue(q, cs), Continue(m, cs))
  BY DEF Same, Continue, Does

LEMMA VariableSame ==
    ASSUME InputTyped, NEW q \in ParserState, NEW m \in ParserState, Alike(q, m)
    PROVE  Same(parse_variable(q), parse_variable(m))
<1>1. Advance(q) \in ParserState /\ Advance(m) \in ParserState
      /\ Alike(Advance(q), Advance(m)) /\ Peek(q) = Peek(m)
  BY AdvanceTyped, AdvanceAlike
<1>2. /\ Advance(Advance(q)) \in ParserState /\ Advance(Advance(m)) \in ParserState
      /\ Alike(Advance(Advance(q)), Advance(Advance(m)))
      /\ PeekType(Advance(q)) = PeekType(Advance(m))
  BY <1>1, AdvanceTyped, AdvanceAlike
<1>3. PeekType(Advance(Advance(q))) = PeekType(Advance(Advance(m)))
      /\ Alike(Advance(Advance(Advance(q))), Advance(Advance(Advance(m))))
  BY <1>2, AdvanceAlike
<1> QED
  BY <1>1, <1>2, <1>3, SameReturn, SameContinue DEF parse_variable

LEMMA SubscriptSame ==
    ASSUME InputTyped, NEW q \in ParserState, NEW m \in ParserState, Alike(q, m),
           NEW c, NEW n
    PROVE  Same(AfterSubscript(c, q, n), AfterSubscript(c, m, n))
  BY AdvanceAlike, MatchAlike, SameReturn, SameContinue DEF AfterSubscript

LEMMA ParenthesisSame ==
    ASSUME InputTyped, NEW q \in ParserState, NEW m \in ParserState, Alike(q, m),
           NEW n
    PROVE  /\ Same(parse_parenthesized(q), parse_parenthesized(m))
           /\ Same(AfterParenthesis(q, n), AfterParenthesis(m, n))
  BY AdvanceAlike, MatchAlike, SameReturn, SameContinue
     DEF parse_parenthesized, AfterParenthesis

LEMMA UnarySame ==
    ASSUME InputTyped, NEW q \in ParserState, NEW m \in ParserState, Alike(q, m),
           NEW c, NEW n
    PROVE  /\ Same(parse_unary(q), parse_unary(m))
           /\ Same(AfterSign(c, q, n), AfterSign(c, m, n))
  BY AdvanceAlike, SameReturn, SameContinue DEF parse_unary, AfterSign

LEMMA CheckAritySame ==
    ASSUME InputTyped, NEW q \in ParserState, NEW m \in ParserState, Alike(q, m),
           NEW tok, NEW args
    PROVE  Same(CheckArity(tok, args, q), CheckArity(tok, args, m))
  BY AdvanceAlike, SameReturn DEF CheckArity

LEMMA FunctionSame ==
    ASSUME InputTyped, NEW q \in ParserState, NEW m \in ParserState, Alike(q, m)
    PROVE  Same(parse_function_call(q), parse_function_call(m))
<1>1. Advance(q) \in ParserState /\ Advance(m) \in ParserState
      /\ Alike(Advance(q), Advance(m)) /\ Peek(q) = Peek(m)
  BY AdvanceTyped, AdvanceAlike
<1>2. /\ Advance(Advance(q)) \in ParserState /\ Advance(Advance(m)) \in ParserState
      /\ Alike(Advance(Advance(q)), Advance(Advance(m)))
      /\ PeekType(Advance(q)) = PeekType(Advance(m))
  BY <1>1, AdvanceTyped, AdvanceAlike
<1>3. /\ PeekType(Advance(Advance(q))) = PeekType(Advance(Advance(m)))
      /\ Alike(Advance(Advance(Advance(q))), Advance(Advance(Advance(m))))
      /\ Advance(Advance(Advance(q))) \in ParserState
      /\ Advance(Advance(Advance(m))) \in ParserState
  BY <1>2, AdvanceAlike, AdvanceTyped
<1>4. /\ Same(CheckArity(Peek(q), <<>>, Advance(q)), CheckArity(Peek(q), <<>>, Advance(m)))
      /\ Same(CheckArity(Peek(q), <<>>, Advance(Advance(Advance(q)))),
              CheckArity(Peek(q), <<>>, Advance(Advance(Advance(m)))))
  BY <1>1, <1>3, CheckAritySame
<1> QED
  BY <1>1, <1>2, <1>3, <1>4, SameContinue DEF parse_function_call

LEMMA ArgumentSame ==
    ASSUME InputTyped, NEW q \in ParserState, NEW m \in ParserState, Alike(q, m),
           NEW c, NEW n
    PROVE  Same(AfterArgument(c, q, n), AfterArgument(c, m, n))
<1>1. Advance(q) \in ParserState /\ Advance(m) \in ParserState
      /\ Alike(Advance(q), Advance(m)) /\ PeekType(q) = PeekType(m)
  BY AdvanceTyped, AdvanceAlike
<1>2. Same(CheckArity(c.tok, Append(c.args, n), Advance(q)),
           CheckArity(c.tok, Append(c.args, n), Advance(m)))
  BY <1>1, CheckAritySame
<1> QED
  BY <1>1, <1>2, AdvanceAlike, SameReturn, SameContinue DEF AfterArgument

LEMMA BinarySame ==
    ASSUME InputTyped, NEW q \in ParserState, NEW m \in ParserState, Alike(q, m),
           NEW left
    PROVE  Same(parse_binary_op(q, left), parse_binary_op(m, left))
  BY AdvanceAlike, SameContinue DEF parse_binary_op

LEMMA NudSame ==
    ASSUME InputTyped, NEW q \in ParserState, NEW m \in ParserState, Alike(q, m)
    PROVE  Same(Nud(q), Nud(m))
<1>1. Peek(q) = Peek(m) /\ Alike(Advance(q), Advance(m))
      /\ Alike(set_error(q), set_error(m))
  BY AdvanceAlike
<1>2. Same(Return(Leaf(Peek(q)), Advance(q)), Return(Leaf(Peek(m)), Advance(m)))
      /\ Same(Fail(q), Fail(m))
  BY <1>1, SameReturn DEF Fail
<1> QED
  BY <1>1, <1>2, VariableSame, ParenthesisSame, UnarySame, FunctionSame DEF Nud

(* The same with the loop over the operators behind it.                    *)
LEMMA SameThen ==
    ASSUME NEW r, NEW s, Same(r, s), Operates(r), Operates(s), NEW d
    PROVE  Same(Then(r, d), Then(s, d))
<1>1. (\E n, m, cs : r = Does(n, m, cs)) /\ (\E n, m, cs : s = Does(n, m, cs))
  BY DEF Operates, Return, Continue
<1> QED
  BY <1>1 DEF Same, Then, Does

LEMMA LedSame ==
    ASSUME InputTyped, NEW q \in ParserState, NEW m \in ParserState, Alike(q, m),
           NEW c, NEW n
    PROVE  Same(Led(c, q, n), Led(c, m, n))
<1>1. Same(Then(parse_binary_op(q, n), c), Then(parse_binary_op(m, n), c))
  BY BinarySame, BinaryOperates, SameThen
<1>2. Same(Return(n, q), Return(n, m)) /\ PeekType(q) = PeekType(m)
  BY SameReturn, AdvanceAlike
<1> QED
  BY <1>1, <1>2 DEF Led

(* One step of an expression from the same place has the same outcome.     *)
LEMMA StepSame ==
    ASSUME InputTyped, NEW q \in ParserState, NEW m \in ParserState, Alike(q, m),
           NEW c, c.call \in ExpressionCalls, NEW n
    PROVE  Same(Step(c, q, n), Step(c, m, n))
<1>1. CASE c.call = "expression"
  <2>1. /\ Step(c, q, n) = Then(Nud(q), [call |-> "led", min |-> c.min])
        /\ Step(c, m, n) = Then(Nud(m), [call |-> "led", min |-> c.min])
    BY <1>1 DEF Step, parse_expression_pratt_prec
  <2> QED
    BY <2>1, NudSame, NudOperates, SameThen
<1>2. CASE c.call = "led"
  <2>1. Step(c, q, n) = Led(c, q, n) /\ Step(c, m, n) = Led(c, m, n)
    BY <1>2 DEF Step
  <2> QED
    BY <2>1, LedSame
<1>3. CASE c.call = "operator"
  <2>1. Step(c, q, n) = AfterOperator(c, q, n) /\ Step(c, m, n) = AfterOperator(c, m, n)
    BY <1>3 DEF Step
  <2> QED
    BY <2>1, SameReturn DEF AfterOperator
<1>4. CASE c.call = "subscript"
  <2>1. Step(c, q, n) = AfterSubscript(c, q, n) /\ Step(c, m, n) = AfterSubscript(c, m, n)
    BY <1>4 DEF Step
  <2> QED
    BY <2>1, SubscriptSame
<1>5. CASE c.call = "parenthesis"
  <2>1. Step(c, q, n) = AfterParenthesis(q, n) /\ Step(c, m, n) = AfterParenthesis(m, n)
    BY <1>5 DEF Step
  <2> QED
    BY <2>1, ParenthesisSame
<1>6. CASE c.call = "sign"
  <2>1. Step(c, q, n) = AfterSign(c, q, n) /\ Step(c, m, n) = AfterSign(c, m, n)
    BY <1>6 DEF Step
  <2> QED
    BY <2>1, UnarySame
<1>7. CASE c.call = "argument"
  <2>1. Step(c, q, n) = AfterArgument(c, q, n) /\ Step(c, m, n) = AfterArgument(c, m, n)
    BY <1>7 DEF Step
  <2> QED
    BY <2>1, ArgumentSame
<1> QED
  BY <1>1, <1>2, <1>3, <1>4, <1>5, <1>6, <1>7 DEF ExpressionCalls

-----------------------------------------------------------------------------
(* The tokens do not change, and so neither does what an expression does.  *)

(* The tokens do not change, and so the runs do not: each function in      *)
(* turn.                                                                   *)
LEMMA PeekKept ==
    ASSUME tokens' = tokens, NEW CONSTANT q
    PROVE  /\ Peek(q)' = Peek(q) /\ PeekType(q)' = PeekType(q)
           /\ Advance(q)' = Advance(q)
  BY DEF Peek, PeekType, Advance, TokenAt

LEMMA TypeKept ==
    ASSUME tokens' = tokens, NEW CONSTANT i
    PROVE  TypeAt(i)' = TypeAt(i)
  BY DEF TypeAt, TokenAt

LEMMA MatchKept ==
    ASSUME tokens' = tokens, NEW CONSTANT q, NEW CONSTANT t
    PROVE  match_or_error(q, t)' = match_or_error(q, t)
  BY PeekKept DEF match_or_error

LEMMA VariableKept ==
    ASSUME tokens' = tokens, NEW CONSTANT q
    PROVE  parse_variable(q)' = parse_variable(q)
  BY PeekKept DEF parse_variable

LEMMA NudKept ==
    ASSUME tokens' = tokens, NEW CONSTANT q
    PROVE  Nud(q)' = Nud(q)
<1>1. parse_function_call(q)' = parse_function_call(q)
  BY PeekKept DEF parse_function_call, CheckArity
<1>2. parse_parenthesized(q)' = parse_parenthesized(q)
  BY PeekKept DEF parse_parenthesized
<1>3. parse_unary(q)' = parse_unary(q)
  BY PeekKept DEF parse_unary
<1> QED
  BY <1>1, <1>2, <1>3, PeekKept, VariableKept DEF Nud

LEMMA LedKept ==
    ASSUME tokens' = tokens, NEW CONSTANT c, NEW CONSTANT q, NEW CONSTANT n
    PROVE  Led(c, q, n)' = Led(c, q, n)
<1>1. parse_binary_op(q, n)' = parse_binary_op(q, n)
  BY PeekKept DEF parse_binary_op
<1> QED
  BY <1>1, PeekKept DEF Led

(* A step of an expression, in the next state.                             *)
LEMMA StepKept ==
    ASSUME tokens' = tokens, NEW CONSTANT c, c.call \in ExpressionCalls,
           NEW CONSTANT q, NEW CONSTANT n
    PROVE  Step(c, q, n)' = Step(c, q, n)
<1>1. CASE c.call = "expression"
  <2>1. /\ Step(c, q, n) = Then(Nud(q), [call |-> "led", min |-> c.min])
        /\ Step(c, q, n)' = Then(Nud(q)', [call |-> "led", min |-> c.min])
    BY <1>1 DEF Step, parse_expression_pratt_prec
  <2> QED
    BY <2>1, NudKept
<1>2. CASE c.call = "led"
  <2>1. Step(c, q, n) = Led(c, q, n) /\ Step(c, q, n)' = Led(c, q, n)'
    BY <1>2 DEF Step
  <2> QED
    BY <2>1, LedKept
<1>3. CASE c.call = "operator"
  BY <1>3 DEF Step, AfterOperator
<1>4. CASE c.call = "subscript"
  <2>1. /\ Step(c, q, n) = AfterSubscript(c, q, n)
        /\ Step(c, q, n)' = AfterSubscript(c, q, n)'
    BY <1>4 DEF Step
  <2> QED
    BY <2>1, PeekKept, MatchKept DEF AfterSubscript
<1>5. CASE c.call = "parenthesis"
  <2>1. /\ Step(c, q, n) = AfterParenthesis(q, n)
        /\ Step(c, q, n)' = AfterParenthesis(q, n)'
    BY <1>5 DEF Step
  <2> QED
    BY <2>1, MatchKept DEF AfterParenthesis
<1>6. CASE c.call = "sign"
  BY <1>6 DEF Step, AfterSign
<1>7. CASE c.call = "argument"
  <2>1. /\ Step(c, q, n) = AfterArgument(c, q, n)
        /\ Step(c, q, n)' = AfterArgument(c, q, n)'
    BY <1>7 DEF Step
  <2> QED
    BY <2>1, PeekKept DEF AfterArgument, CheckArity
<1> QED
  BY <1>1, <1>2, <1>3, <1>4, <1>5, <1>6, <1>7 DEF ExpressionCalls

(* A run is still one in the next state.                                   *)
LEMMA RunKept ==
    ASSUME tokens' = tokens, NEW CONSTANT f, NEW CONSTANT n, NEW CONSTANT start
    PROVE  Run(f, n, start)' <=> Run(f, n, start)
<1>1. ASSUME NEW CONSTANT i, Head(f[i].calls).call \in ExpressionCalls
      PROVE  Following(f[i])' = Following(f[i])
  <2>1. Step(Head(f[i].calls), At(f[i].pos), f[i].node)' =
           Step(Head(f[i].calls), At(f[i].pos), f[i].node)
    BY <1>1, StepKept
  <2> QED
    BY <2>1 DEF Following
<1> QED
  BY <1>1 DEF Run

(* So are the places reached and what is doomed.                           *)
LEMMA ReachedKept ==
    ASSUME tokens' = tokens, NEW CONSTANT start
    PROVE  /\ \A x : Reached(start, x)' <=> Reached(start, x)
           /\ Doomed(start)' <=> Doomed(start)
<1>1. \A x : Reached(start, x)' <=> Reached(start, x)
  BY RunKept DEF Reached
<1> QED
  BY <1>1, TypeKept DEF Doomed

-----------------------------------------------------------------------------
(* An expression that starts at one token ends in one way.                 *)

(* Of two runs from one token, one is the beginning of the other.          *)
LEMMA RunsAgree ==
    ASSUME NEW f, NEW n \in Nat, NEW g, NEW m \in Nat, NEW start,
           Run(f, n, start), Run(g, m, start), f[n].calls = <<>>, g[m].calls = <<>>
    PROVE  f[n] = g[m]
<1> DEFINE B == {i \in Nat : i <= n /\ i <= m /\ f[i] # g[i]}
<1>1. B = {}
  <2> SUFFICES ASSUME B # {} PROVE FALSE
    OBVIOUS
  <2>1. PICK i \in B : \A j \in B : i <= j
    <3>1. Min(B) \in B /\ \A j \in B : Min(B) <= j
      BY LeastNumber
    <3> QED
      BY <3>1
  <2>2. i # 0
    BY <2>1 DEF Run
  <2>3. i - 1 \in 0..(n - 1) /\ i - 1 \in 0..(m - 1) /\ i - 1 \notin B /\ (i - 1) + 1 = i
    BY <2>1, <2>2
  <2>4. f[i - 1] = g[i - 1]
    BY <2>3
  <2>5. f[i] = Following(f[i - 1]) /\ g[i] = Following(g[i - 1])
    BY <2>3 DEF Run
  <2> QED
    BY <2>1, <2>4, <2>5
<1>2. ~(n < m)
  <2> SUFFICES ASSUME n < m PROVE FALSE
    OBVIOUS
  <2>1. n \in 0..(m - 1) /\ f[n] = g[n]
    BY <1>1
  <2> QED
    BY <2>1 DEF Run
<1>3. ~(m < n)
  <2> SUFFICES ASSUME m < n PROVE FALSE
    OBVIOUS
  <2>1. m \in 0..(n - 1) /\ f[m] = g[m]
    BY <1>1
  <2> QED
    BY <2>1 DEF Run
<1>4. n = m
  BY <1>2, <1>3
<1> QED
  BY <1>1, <1>4

(* Where an expression starts has been reached.                            *)
LEMMA ReachedStart ==
    ASSUME NEW start
    PROVE  Reached(start, Started(start))
<1> DEFINE f == [i \in 0..0 |-> Started(start)]
<1>1. f[0] = Started(start) /\ \A i \in 0..(0 - 1) : FALSE
  OBVIOUS
<1> HIDE DEF f
<1>2. Run(f, 0, start)
  BY <1>1 DEF Run
<1> QED
  BY <1>1, <1>2 DEF Reached

(* A step of the parser on from a place that has been reached reaches the  *)
(* next.                                                                   *)
LEMMA ReachedOn ==
    ASSUME NEW start, NEW x, Reached(start, x), x.pos \in 1..(Len(tokens) + 1),
           x.calls # <<>>, Head(x.calls).call \in ExpressionCalls
    PROVE  Reached(start, Following(x))
<1>1. PICK f : \E n \in Nat : Run(f, n, start) /\ f[n] = x
  BY DEF Reached
<1>2. PICK n \in Nat : Run(f, n, start) /\ f[n] = x
  BY <1>1
<1> DEFINE g == [i \in 0..(n + 1) |-> IF i <= n THEN f[i] ELSE Following(x)]
<1>3. g[0] = f[0] /\ g[n + 1] = Following(x)
  OBVIOUS
<1>4. \A i \in 0..n : g[i] = f[i]
  OBVIOUS
<1> HIDE DEF g
<1>5. Run(g, n + 1, start)
  <2>1. g[0] = Started(start)
    BY <1>2, <1>3 DEF Run
  <2>2. ASSUME NEW i \in 0..((n + 1) - 1)
        PROVE  /\ g[i].pos \in 1..(Len(tokens) + 1)
               /\ g[i].calls # <<>> /\ Head(g[i].calls).call \in ExpressionCalls
               /\ g[i + 1] = Following(g[i])
    <3>1. CASE i = n
      BY <1>2, <1>3, <1>4, <3>1
    <3>2. CASE i # n
      <4>1. i \in 0..(n - 1) /\ i + 1 \in 0..n /\ i \in 0..n
        BY <3>2
      <4> QED
        BY <1>2, <1>4, <4>1 DEF Run
    <3> QED
      BY <3>1, <3>2
  <2> QED
    BY <2>1, <2>2 DEF Run
<1>6. n + 1 \in Nat
  OBVIOUS
<1> QED
  BY <1>3, <1>5, <1>6 DEF Reached

(* One end of the expression is the end of it. *)
LEMMA EndDecides ==
    ASSUME NEW start, NEW x, Reached(start, x), x.calls = <<>>,
           Failed(x.node) \/ TypeAt(x.pos) = "CTHEN"
    PROVE  Doomed(start)
<1> SUFFICES ASSUME NEW y, Reached(start, y), y.calls = <<>> PROVE y = x
  BY DEF Doomed
<1>1. PICK f : \E n \in Nat : Run(f, n, start) /\ f[n] = x
  BY DEF Reached
<1>2. PICK n \in Nat : Run(f, n, start) /\ f[n] = x
  BY <1>1
<1>3. PICK g : \E m \in Nat : Run(g, m, start) /\ g[m] = y
  BY DEF Reached
<1>4. PICK m \in Nat : Run(g, m, start) /\ g[m] = y
  BY <1>3
<1> QED
  BY <1>2, <1>4, RunsAgree

-----------------------------------------------------------------------------
(* What one step makes of the call on top of the stack: a node it may give, *)
(* or calls that answer one another, each with what it needs around it.    *)

Good(r, c) ==
    /\ Fine(r, c)
    /\ \A k \in 1..Len(r.calls) :
          /\ Local(r.calls[k])
          /\ Watch(r.calls[k], Point(r.p.pos, r.node, SubSeq(r.calls, 1, k - 1)))

(* A call that is not a rule's watches nothing. *)
LEMMA PlainWatched ==
    ASSUME NEW d, d.call \notin {"rule", "entry"}, NEW x
    PROVE  Watch(d, x)
  BY DEF Watch, WatchEntry, WatchRule

(* Steps that return, and steps that make one call or two, with what is in *)
(* their frames.                                                           *)
LEMMA ReturnGood ==
    ASSUME NEW c, NEW q, NEW n, Gives(c, n), IfNode(n)
    PROVE  Good(Return(n, q), c)
<1>1. Fine(Return(n, q), c)
  BY ReturnFine
<1>2. Return(n, q).calls = <<>>
  BY DEF Return, Does
<1> QED
  BY <1>1, <1>2 DEF Good

(* A failure is always in order. *)
LEMMA NothingGood ==
    ASSUME NEW c, NEW q
    PROVE  Good(Return(NoNode, q), c) /\ Good(Fail(q), c)
  BY NoNodeTaken, ReturnGood DEF Fail

LEMMA OneCallGood ==
    ASSUME NEW c, NEW q, NEW d, InPlace(d, c), Local(d),
           Watch(d, Point(q.pos, NoNode, <<>>))
    PROVE  Good(Continue(q, <<d>>), c)
<1> DEFINE r == Continue(q, <<d>>)
<1>1. r.calls = <<d>> /\ r.p = q /\ r.node = NoNode
  BY DEF Continue, Does
<1>2. Fine(r, c)
  BY OneCallFine
<1>3. SubSeq(<<d>>, 1, 1 - 1) = <<>>
  OBVIOUS
<1> HIDE DEF r
<1>4. ASSUME NEW k \in 1..Len(r.calls)
      PROVE  /\ Local(r.calls[k])
             /\ Watch(r.calls[k], Point(r.p.pos, r.node, SubSeq(r.calls, 1, k - 1)))
  <2>1. k = 1 /\ r.calls[k] = d
    BY <1>1
  <2> QED
    BY <1>1, <1>3, <2>1
<1>5. Good(r, c)
  BY <1>2, <1>4 DEF Good
<1> QED
  BY <1>5 DEF r

(* What is before the second of two. *)
LEMMA FirstOfTwo ==
    ASSUME NEW b, NEW d
    PROVE  SubSeq(<<b, d>>, 1, 1) = <<b>> /\ SubSeq(<<b, d>>, 1, 0) = <<>>
<1>1. <<b, d>> \in Seq({b, d}) /\ <<b>> \in Seq({b, d})
  OBVIOUS
<1>2. /\ SubSeq(<<b, d>>, 1, 1) \in Seq({b, d}) /\ Len(SubSeq(<<b, d>>, 1, 1)) = 1
      /\ \A i \in 1..1 : SubSeq(<<b, d>>, 1, 1)[i] = <<b>>[i]
  BY <1>1, SubSeqProperties
<1>3. SubSeq(<<b, d>>, 1, 0) = <<>>
  OBVIOUS
<1> QED
  BY <1>1, <1>2, <1>3, SeqEqual

LEMMA TwoCallsGood ==
    ASSUME NEW c, NEW q, NEW b, NEW d, Answers(b, d), InPlace(d, c), Local(b), Local(d),
           Watch(b, Point(q.pos, NoNode, <<>>)), Watch(d, Point(q.pos, NoNode, <<b>>))
    PROVE  Good(Continue(q, <<b, d>>), c)
<1> DEFINE r == Continue(q, <<b, d>>)
<1>1. r.calls = <<b, d>> /\ r.p = q /\ r.node = NoNode
  BY DEF Continue, Does
<1>2. Fine(r, c)
  BY TwoCallsFine
<1>3. SubSeq(<<b, d>>, 1, 1 - 1) = <<>> /\ SubSeq(<<b, d>>, 1, 2 - 1) = <<b>>
  <2>1. 1 - 1 = 0 /\ 2 - 1 = 1
    OBVIOUS
  <2> QED
    BY <2>1, FirstOfTwo
<1> HIDE DEF r
<1>4. \A k \in 1..Len(r.calls) : k = 1 \/ k = 2
  BY <1>1
<1>5. ASSUME NEW k \in 1..Len(r.calls)
      PROVE  /\ Local(r.calls[k])
             /\ Watch(r.calls[k], Point(r.p.pos, r.node, SubSeq(r.calls, 1, k - 1)))
  <2>1. CASE k = 1
    <3>1. r.calls[k] = b
      BY <1>1, <2>1
    <3> QED
      BY <1>1, <1>3, <2>1, <3>1
  <2>2. CASE k = 2
    <3>1. r.calls[k] = d
      BY <1>1, <2>2
    <3> QED
      BY <1>1, <1>3, <2>2, <3>1
  <2> QED
    BY <1>4, <2>1, <2>2
<1>6. Good(r, c)
  BY <1>2, <1>5 DEF Good
<1> QED
  BY <1>6 DEF r

(* A step of an expression. *)
LEMMA ExpressionGood ==
    ASSUME InputTyped, NEW S, Closed(S), NEW c \in ExpressionFrames(S),
           NEW q \in ParserState, NEW n \in S, Takes(c, n), IfNode(n)
    PROVE  /\ c.call \in ExpressionCalls
           /\ Good(Step(c, q, n), c)
           /\ \A k \in 1..Len(Step(c, q, n).calls) :
                 Step(c, q, n).calls[k].call \in ExpressionCalls
<1> DEFINE r == Step(c, q, n)
<1>1. c.call \in ExpressionCalls /\ Fine(r, c)
  BY ExpressionFine
<1>2. r.calls \in Seq(ExpressionFrames(S))
  BY StepExpressions DEF Quiet
<1> HIDE DEF r
<1>3. \A d \in ExpressionFrames(S) : d.call \in ExpressionCalls
  BY DEF ExpressionFrames, ExpressionCalls
<1>4. \A k \in 1..Len(r.calls) : r.calls[k].call \in ExpressionCalls
  BY <1>2, <1>3, ElementOfSeq
<1>5. \A d, x : d.call \in ExpressionCalls => Local(d) /\ Watch(d, x)
  BY PlainWatched DEF Local, ExpressionCalls
<1> QED
  BY <1>1, <1>4, <1>5 DEF Good, r

-----------------------------------------------------------------------------
(* A step of a statement.                                                  *)

StatementCalls == {"statement", "made", "print", "channel", "operand"}

(* A statement is what a statement should be, unless it is an IF. *)
LEMMA StatementGiven ==
    ASSUME NEW c, c.call \in StatementCalls, NEW t, NEW kids, NEW q,
           t = "IF" => IfParts(kids) /\ Len(kids) >= 4
    PROVE  Good(Return(Statement(t, kids, q), q), c)
<1> DEFINE n == Statement(t, kids, q)
<1>1. n.k = "stmt" /\ n.t = t /\ n.kids = kids
  BY DEF Statement, NodeOf
<1> HIDE DEF n
<1>2. c.call \notin ExpressionCalls /\ Parses(c) = "STATEMENT"
  BY DEF StatementCalls, ExpressionCalls, Parses
<1>3. Gives(c, n)
  BY <1>1, <1>2 DEF Gives, IsResult
<1>4. IfNode(n)
  BY <1>1 DEF IfNode
<1>5. Good(Return(n, q), c)
  BY <1>3, <1>4, ReturnGood
<1> QED
  BY <1>5 DEF n

(* The parser's place and error flag are no part of it. *)
LEMMA GoodElsewhere ==
    ASSUME NEW n, NEW q, NEW m, NEW c, Good(Return(n, q), c)
    PROVE  Good(Return(n, m), c)
  BY DEF Good, Fine, Return, Does

(* The frames of a PRINT, which is no IF. *)
LEMMA PrintCall ==
    ASSUME NEW d, d.call \in {"print", "channel", "operand"}, d.t \in {"PRINT", "QUESTION"},
           NEW c, c.call \in StatementCalls
    PROVE  /\ Local(d) /\ InPlace(d, c) /\ \A x : Watch(d, x)
           /\ d.call # "print" => Answers(Expression(0), d)
<1>1. Local(d)
  BY DEF Local
<1>2. InPlace(d, c)
  BY DEF InPlace, ExpressionCalls, StatementCalls, Parses
<1>3. \A x : Watch(d, x)
  BY PlainWatched
<1>4. d.call # "print" => Answers(Expression(0), d)
  BY DEF Answers, Expression, ExpressionCalls, WaitsForExpression
<1> QED
  BY <1>1, <1>2, <1>3, <1>4

(* The calls that PRINT makes.                                             *)
LEMMA ExpressionPlain ==
    ASSUME NEW min
    PROVE  Local(Expression(min)) /\ \A x : Watch(Expression(min), x)
<1>1. Expression(min).call = "expression"
  BY DEF Expression
<1> QED
  BY <1>1, PlainWatched DEF Local

LEMMA OperandCalls ==
    ASSUME NEW d, d.call \in {"channel", "operand"}, d.t \in {"PRINT", "QUESTION"},
           NEW c, c.call \in StatementCalls, NEW q
    PROVE  Good(Continue(q, <<Expression(0), d>>), c)
<1>1. Local(d) /\ InPlace(d, c) /\ (\A x : Watch(d, x)) /\ Answers(Expression(0), d)
  BY PrintCall
<1>2. Local(Expression(0)) /\ \A x : Watch(Expression(0), x)
  BY ExpressionPlain
<1> QED
  BY <1>1, <1>2, TwoCallsGood

LEMMA ParsePrintGood ==
    ASSUME NEW q, PeekType(q) \in {"PRINT", "QUESTION"}, NEW c, c.call = "statement"
    PROVE  Good(ParsePrint(q), c)
<1> DEFINE print == [call |-> "print", t |-> PeekType(q), kids |-> <<>>]
           channel == [print EXCEPT !.call = "channel"]
<1>1. print.call = "print" /\ channel.call = "channel"
      /\ print.t = PeekType(q) /\ channel.t = PeekType(q)
  OBVIOUS
<1>2. ParsePrint(q) \in {Continue(Advance(Advance(q)), <<Expression(0), channel>>),
                         Continue(Advance(q), <<print>>)}
  BY DEF ParsePrint
<1> HIDE DEF print, channel
<1>3. c.call \in StatementCalls
  BY DEF StatementCalls
<1>4. Good(Continue(Advance(Advance(q)), <<Expression(0), channel>>), c)
  BY <1>1, <1>3, OperandCalls
<1>5. Good(Continue(Advance(q), <<print>>), c)
  BY <1>1, <1>3, PrintCall, OneCallGood
<1> QED
  BY <1>2, <1>4, <1>5

LEMMA PrintGood ==
    ASSUME NEW S, NEW c \in PrintFrames(S), NEW q, NEW n, Local(c)
    PROVE  /\ Good(PrintOperands(c, q), c)
           /\ Good(AfterChannel(c, q, n), c)
           /\ Good(AfterOperand(c, q, n), c)
<1>1. c.call \in StatementCalls /\ c.t \in {"PRINT", "QUESTION"}
      /\ c.call \in {"print", "channel", "operand"}
  BY DEF PrintFrames, StatementCalls, Local
<1>2. Good(Return(Statement(c.t, <<>>, q), q), c)
      /\ Good(Return(Statement(c.t, c.kids, q), q), c)
  BY <1>1, StatementGiven
<1>3. Good(Return(Statement(c.t, <<>>, q), set_error(q)), c)
  BY <1>2, GoodElsewhere
<1>4. Good(PrintOperands(c, q), c)
  <2> DEFINE d == [c EXCEPT !.kids = Append(@, Leaf(Peek(q)))]
             e == [c EXCEPT !.call = "operand"]
  <2>1. d.call = c.call /\ d.t = c.t /\ e.call = "operand" /\ e.t = c.t
    BY DEF PrintFrames
  <2>2. PrintOperands(c, q) \in {Return(Statement(c.t, c.kids, q), q),
                                 Continue(Advance(q), <<d>>),
                                 Continue(q, <<Expression(0), e>>)}
    BY DEF PrintOperands
  <2> HIDE DEF d, e
  <2>3. Good(Continue(Advance(q), <<d>>), c)
    BY <1>1, <2>1, PrintCall, OneCallGood
  <2>4. Good(Continue(q, <<Expression(0), e>>), c)
    BY <1>1, <2>1, OperandCalls
  <2> QED
    BY <1>2, <2>2, <2>3, <2>4
<1>5. Good(AfterChannel(c, q, n), c)
  <2> DEFINE d == [c EXCEPT !.call = "print", !.kids = <<n>>]
  <2>1. d.call = "print" /\ d.t = c.t
    BY DEF PrintFrames
  <2>2. AfterChannel(c, q, n) \in {Return(Statement(c.t, <<>>, q), set_error(q)),
                                   Continue(Advance(q), <<d>>)}
    BY DEF AfterChannel
  <2> HIDE DEF d
  <2>3. Good(Continue(Advance(q), <<d>>), c)
    BY <1>1, <2>1, PrintCall, OneCallGood
  <2> QED
    BY <1>3, <2>2, <2>3
<1>6. Good(AfterOperand(c, q, n), c)
  <2> DEFINE d == [c EXCEPT !.call = "print", !.kids = Append(@, n)]
  <2>1. d.call = "print" /\ d.t = c.t
    BY DEF PrintFrames
  <2>2. AfterOperand(c, q, n) \in {Return(Statement(c.t, c.kids, q), q),
                                   Continue(q, <<d>>)}
    BY DEF AfterOperand
  <2> HIDE DEF d
  <2>3. Good(Continue(q, <<d>>), c)
    BY <1>1, <2>1, PrintCall, OneCallGood
  <2> QED
    BY <1>2, <2>2, <2>3
<1> QED
  BY <1>4, <1>5, <1>6

(* A statement: its keyword, then its rule, then what is made of the rule. *)
LEMMA ParseStatementGood ==
    ASSUME NEW q, NEW c, c.call = "statement"
    PROVE  Good(parser_parse_statement(q), c)
<1> DEFINE t == PeekType(q)
           m == IF t = "IDENT" THEN q ELSE Advance(q)
           made == [call |-> "made", t |-> t]
           rule == NonTerminal(StatementRule[t])
<1>1. CASE t \in {"PRINT", "QUESTION"}
  <2>1. parser_parse_statement(q) = ParsePrint(q)
    BY <1>1 DEF parser_parse_statement, EndOfStatement, EndOfLine
  <2> QED
    BY <1>1, <2>1, ParsePrintGood
<1>2. CASE t \notin {"PRINT", "QUESTION"}
  <2>1. parser_parse_statement(q) \in {Return(NoNode, q), Fail(q), Fail(Advance(q)),
                                       Continue(m, <<rule, made>>)}
    BY <1>2 DEF parser_parse_statement
  <2>2. Good(Continue(m, <<rule, made>>), c)
    <3>1. made.call = "made" /\ made.t = t
          /\ rule.call = "nonterminal" /\ rule.nt = StatementRule[t]
      BY DEF NonTerminal
    <3> HIDE DEF made, rule
    <3>2. Answers(rule, made) /\ InPlace(made, c)
      BY <3>1 DEF Answers, ExpressionCalls, WaitsForRule, Parses, Awaited, InPlace
    <3>3. Local(made) /\ Local(rule)
      BY <3>1 DEF Local
    <3>4. \A x : Watch(made, x) /\ Watch(rule, x)
      BY <3>1, PlainWatched
    <3> QED
      BY <3>2, <3>3, <3>4, TwoCallsGood
  <2> HIDE DEF made, rule, m
  <2> QED
    BY <2>1, <2>2, NothingGood
<1> QED
  BY <1>1, <1>2

LEMMA AfterRuleGood ==
    ASSUME NEW q, NEW n, NEW c, c.call = "made", Takes(c, n)
    PROVE  Good(AfterRule(c, q, n), c)
<1>1. CASE Failed(n)
  BY <1>1, NothingGood DEF AfterRule
<1>2. CASE ~Failed(n)
  <2>1. IsResult(StatementRule[c.t], n)
    BY <1>2 DEF Takes, WaitsForRule, Awaited
  <2>2. c.t = "IF" => IfParts(n.kids) /\ Len(n.kids) >= 4
    BY <2>1, GrammarAssumption DEF IsResult
  <2>3. AfterRule(c, q, n) = Return(Statement(c.t, n.kids, q), q)
    BY <1>2 DEF AfterRule
  <2>4. c.call \in StatementCalls
    BY DEF StatementCalls
  <2> QED
    BY <2>2, <2>3, <2>4, StatementGiven
<1> QED
  BY <1>1, <1>2

-----------------------------------------------------------------------------
(* A step of the THEN or the ELSE part of an IF, and a non-terminal.       *)

(* A part that consists of statements. *)
LEMMA GroupGiven ==
    ASSUME NEW S, NEW kids \in Seq(S), Statements(kids),
           NEW c, Parses(c) = "IFBODY", c.call \notin ExpressionCalls, NEW q
    PROVE  Good(Return(Group(kids), q), c)
<1>1. \A kid \in ToSet(kids) : kid.k = "stmt"
  BY DEF ToSet, Statements
<1>2. IsBody(Group(kids))
  BY <1>1 DEF IsBody, Group, NodeOf
<1>3. Gives(c, Group(kids))
  BY <1>2 DEF Gives, IsResult
<1>4. IfNode(Group(kids))
  BY NodeTaken DEF Group
<1> QED
  BY <1>3, <1>4, ReturnGood

(* A frame of the part, with the statements it has. *)
LEMMA BodyFrame ==
    ASSUME NEW d, d.call \in {"body", "body_statement"},
           Statements(d.kids)
    PROVE  /\ Local(d) /\ (\A x : Watch(d, x))
           /\ Parses(d) = "IFBODY" /\ d.call \notin ExpressionCalls
<1>1. d.call \notin {"rule", "entry"}
  OBVIOUS
<1>2. \A x : Watch(d, x)
  BY <1>1, PlainWatched
<1> QED
  BY <1>2 DEF Local, Parses, ExpressionCalls

(* The statements after THEN.                                              *)
LEMMA BodyGood ==
    ASSUME NEW S, NEW c \in BodyFrames(S), c.call = "body", NEW q, Local(c)
    PROVE  Good(Body(c, q), c)
<1> DEFINE d == [c EXCEPT !.call = "body_statement"]
<1>1. c.kids \in Seq(S) /\ Statements(c.kids)
  BY DEF BodyFrames, Local
<1>2. Local(c) /\ (\A x : Watch(c, x)) /\ Parses(c) = "IFBODY" /\ c.call \notin ExpressionCalls
  BY <1>1, BodyFrame
<1>3. d.call = "body_statement" /\ d.kids = c.kids
  BY DEF BodyFrames
<1>4. Body(c, q) \in {Return(Group(c.kids), q), Continue(Advance(q), <<c>>),
                      Continue(q, <<StatementCall, d>>)}
  BY DEF Body
<1> HIDE DEF d
<1>5. Good(Return(Group(c.kids), q), c)
  BY <1>1, <1>2, GroupGiven
<1>6. Good(Continue(Advance(q), <<c>>), c)
  <2>1. InPlace(c, c)
    BY <1>2 DEF InPlace
  <2> QED
    BY <1>2, <2>1, OneCallGood
<1>7. Good(Continue(q, <<StatementCall, d>>), c)
  <2>1. Local(d) /\ (\A x : Watch(d, x)) /\ Parses(d) = "IFBODY" /\ d.call \notin ExpressionCalls
    BY <1>1, <1>3, BodyFrame
  <2>2. StatementCall.call = "statement"
    BY DEF StatementCall
  <2>3. Local(StatementCall) /\ \A x : Watch(StatementCall, x)
    BY <2>2, PlainWatched DEF Local
  <2>4. Answers(StatementCall, d)
    BY <1>3, <2>2 DEF Answers, ExpressionCalls, WaitsForRule, Parses, Awaited
  <2>5. InPlace(d, c)
    BY <1>2, <2>1 DEF InPlace
  <2> QED
    BY <2>1, <2>3, <2>4, <2>5, TwoCallsGood
<1> QED
  BY <1>4, <1>5, <1>6, <1>7

LEMMA BodyStatementGood ==
    ASSUME NEW S, NEW c \in BodyFrames(S), c.call = "body_statement", NEW q, NEW n \in S,
           Local(c), Takes(c, n)
    PROVE  Good(AfterBodyStatement(c, q, n), c)
<1> DEFINE kids == Append(c.kids, n)
           d == [call |-> "body", kids |-> kids]
<1>1. CASE Failed(n)
  <2>1. AfterBodyStatement(c, q, n) = Return(NoNode, q)
    BY <1>1 DEF AfterBodyStatement
  <2> QED
    BY <2>1, NothingGood
<1>2. CASE ~Failed(n)
  <2>1. n.k = "stmt"
    BY <1>2 DEF Takes, WaitsForRule, Awaited, IsResult
  <2>2. c.kids \in Seq(S) /\ Statements(c.kids)
    BY DEF BodyFrames, Local
  <2>3. /\ kids \in Seq(S) /\ Len(kids) = Len(c.kids) + 1
        /\ \A i \in 1..Len(c.kids) : kids[i] = c.kids[i]
        /\ kids[Len(c.kids) + 1] = n
    BY <2>2, AppendProperties
  <2>4. d.call = "body" /\ d.kids = kids
    OBVIOUS
  <2>5. AfterBodyStatement(c, q, n) \in {Continue(Advance(q), <<d>>), Return(Group(kids), q)}
    BY <1>2 DEF AfterBodyStatement
  <2> HIDE DEF d, kids
  <2>6. Statements(kids)
    <3> SUFFICES ASSUME NEW i \in 1..Len(kids) PROVE kids[i].k = "stmt"
      BY DEF Statements
    <3>1. Len(c.kids) \in Nat
      BY <2>2
    <3>2. i \in 1..Len(c.kids) \/ i = Len(c.kids) + 1
      BY <2>3, <3>1
    <3> QED
      BY <2>1, <2>2, <2>3, <3>2 DEF Statements
  <2>7. Parses(c) = "IFBODY" /\ c.call \notin ExpressionCalls
    BY <2>2, BodyFrame
  <2>8. Local(d) /\ (\A x : Watch(d, x)) /\ Parses(d) = "IFBODY" /\ d.call \notin ExpressionCalls
    BY <2>4, <2>6, BodyFrame
  <2>9. InPlace(d, c)
    BY <2>7, <2>8 DEF InPlace
  <2>10. Good(Continue(Advance(q), <<d>>), c)
    BY <2>8, <2>9, OneCallGood
  <2>11. Good(Return(Group(kids), q), c)
    BY <2>3, <2>6, <2>7, GroupGiven
  <2> QED
    BY <2>5, <2>10, <2>11
<1> QED
  BY <1>1, <1>2

LEMMA IfBodyGood ==
    ASSUME NEW q, NEW c, c.call = "nonterminal", c.nt = "IFBODY"
    PROVE  Good(IfBody(q), c)
<1> DEFINE d == [call |-> "body", kids |-> <<>>]
<1>1. Parses(c) = "IFBODY" /\ c.call \notin ExpressionCalls
  BY DEF Parses, ExpressionCalls
<1>2. CASE PeekType(q) = "NUMBER"
  <2>1. Leaf(Peek(q)).k = "const"
    BY <1>2 DEF Leaf, NodeOf, PeekType
  <2>2. Gives(c, Leaf(Peek(q)))
    BY <1>1, <2>1 DEF Gives, IsResult, IsBody
  <2>3. IfBody(q) = Return(Leaf(Peek(q)), Advance(q))
    BY <1>2 DEF IfBody
  <2> QED
    BY <2>2, <2>3, LeafTaken, ReturnGood
<1>3. CASE PeekType(q) # "NUMBER"
  <2>1. IfBody(q) = Continue(q, <<d>>)
    BY <1>3 DEF IfBody
  <2>2. d.call = "body" /\ Statements(d.kids)
    BY DEF Statements
  <2> HIDE DEF d
  <2>3. Local(d) /\ (\A x : Watch(d, x)) /\ Parses(d) = "IFBODY" /\ d.call \notin ExpressionCalls
    BY <2>2, BodyFrame
  <2>4. InPlace(d, c)
    BY <1>1, <2>3 DEF InPlace
  <2> QED
    BY <2>1, <2>3, <2>4, OneCallGood
<1> QED
  BY <1>2, <1>3

(* A rule begins with its first alternative, which has nothing yet.        *)
LEMMA RuleOfGood ==
    ASSUME NEW q \in ParserState, NEW c, c.call = "nonterminal",
           c.nt \notin {"STATEMENT", "REM_BODY", "IFBODY"}
    PROVE  Good(RuleOf(c.nt, q), c)
<1> DEFINE deeper == [q EXCEPT !.depth = @ + 1]
           rule == [call |-> "rule", nt |-> c.nt, a |-> 1, i |-> 1,
                    start |-> q.pos, kids |-> <<>>]
<1>1. RuleOf(c.nt, q) \in {Fail(q), Continue(deeper, <<rule>>)}
  BY DEF RuleOf
<1>2. /\ rule.call = "rule" /\ rule.nt = c.nt /\ rule.a = 1 /\ rule.i = 1
      /\ rule.start = q.pos /\ rule.kids = <<>>
  OBVIOUS
<1> HIDE DEF rule
<1>3. InPlace(rule, c)
  BY <1>2 DEF InPlace, ExpressionCalls, Parses
<1>4. Local(rule)
  <2>1. IfFrame(rule) /\ ElseFrame(rule)
    BY <1>2 DEF IfFrame, Orderly, ElseFrame, IfParts
  <2> QED
    BY <1>2, <2>1 DEF Local, RuleFrame
<1>5. Good(Continue(deeper, <<rule>>), c)
  <2>1. deeper.pos = q.pos
    BY DEF ParserState
  <2>2. Watch(rule, Point(deeper.pos, NoNode, <<>>))
    BY <1>2, <2>1 DEF Watch, WatchEntry, WatchRule, Point, Tainted
  <2> HIDE DEF deeper
  <2> QED
    BY <1>3, <1>4, <2>2, OneCallGood
<1> QED
  BY <1>1, <1>5, NothingGood

(* The functions for the rules.                                            *)
LEMMA NonTerminalGood ==
    ASSUME NEW q \in ParserState, NEW c, c.call = "nonterminal"
    PROVE  Good(parse_nonterminal(c, q), c)
<1> DEFINE rem == NodeOf("stmt", [t |-> "REM", v |-> 0], <<>>)
           end == ConsumeTo(q, EndOfStatement)
<1>1. CASE c.nt = "STATEMENT"
  <2>1. parse_nonterminal(c, q) = Continue(q, <<StatementCall>>)
    BY <1>1 DEF parse_nonterminal
  <2>2. StatementCall.call = "statement"
    BY DEF StatementCall
  <2>3. Local(StatementCall) /\ \A x : Watch(StatementCall, x)
    BY <2>2, PlainWatched DEF Local
  <2>4. InPlace(StatementCall, c)
    BY <1>1, <2>2 DEF InPlace, ExpressionCalls, Parses
  <2> QED
    BY <2>1, <2>3, <2>4, OneCallGood
<1>2. CASE c.nt = "REM_BODY"
  <2>1. parse_nonterminal(c, q) = Return(rem, end)
    BY <1>2 DEF parse_nonterminal
  <2>2. rem.t = "REM"
    BY DEF NodeOf
  <2>3. IfNode(rem) /\ Gives(c, rem)
    BY <1>2, <2>2 DEF IfNode, Gives, IsResult, ExpressionCalls, Parses
  <2> QED
    BY <2>1, <2>3, ReturnGood
<1>3. CASE c.nt = "IFBODY"
  <2>1. parse_nonterminal(c, q) = IfBody(q)
    BY <1>3 DEF parse_nonterminal
  <2> QED
    BY <1>3, <2>1, IfBodyGood
<1>4. CASE c.nt \notin {"STATEMENT", "REM_BODY", "IFBODY"}
  <2>1. parse_nonterminal(c, q) = RuleOf(c.nt, q)
    BY <1>4 DEF parse_nonterminal
  <2> QED
    BY <1>4, <2>1, RuleOfGood
<1> QED
  BY <1>1, <1>2, <1>3, <1>4

-----------------------------------------------------------------------------
(* A step of a rule.                                                       *)

(* The tables of an IF and of its ELSE. *)
LEMMA IfTable ==
    ASSUME NEW c, c.nt = "IF"
    PROVE  /\ Len(Rules[c.nt]) = 2
           /\ c.a = 1 => /\ DOMAIN Rules[c.nt][c.a] = 1..5
                         /\ c.i = 1 => EntryOf(c) = "VEXP"
                         /\ c.i = 2 => EntryOf(c) = "CTHEN"
                         /\ c.i = 3 => EntryOf(c) = "IFBODY"
                         /\ c.i = 4 => EntryOf(c) = "IFELSE"
                         /\ c.i = 5 => EntryOf(c) = "EOS"
           /\ c.a = 2 => /\ DOMAIN Rules[c.nt][c.a] = 1..4
                         /\ c.i = 1 => EntryOf(c) = "VEXP"
                         /\ c.i = 2 => EntryOf(c) = "IFBODY"
                         /\ c.i = 3 => EntryOf(c) = "IFELSE"
                         /\ c.i = 4 => EntryOf(c) = "EOS"
<1>1. Rules[c.nt] = << <<"VEXP", "CTHEN", "IFBODY", "IFELSE", "EOS">>,
                       <<"VEXP", "IFBODY", "IFELSE", "EOS">> >>
  BY GrammarAssumption
<1>2. Len(Rules[c.nt]) = 2
  BY <1>1
<1>3. c.a = 1 => Rules[c.nt][c.a] = <<"VEXP", "CTHEN", "IFBODY", "IFELSE", "EOS">>
  BY <1>1
<1>4. c.a = 2 => Rules[c.nt][c.a] = <<"VEXP", "IFBODY", "IFELSE", "EOS">>
  BY <1>1
<1> QED
  BY <1>2, <1>3, <1>4 DEF EntryOf

(* The table of the ELSE part.                                             *)
LEMMA ElseTable ==
    ASSUME NEW c, c.nt = "IFELSE"
    PROVE  /\ Len(Rules[c.nt]) = 2
           /\ c.a = 1 => /\ DOMAIN Rules[c.nt][c.a] = 1..2
                         /\ c.i = 1 => EntryOf(c) = "ELSE"
                         /\ c.i = 2 => EntryOf(c) = "IFA"
           /\ c.a = 2 => /\ DOMAIN Rules[c.nt][c.a] = 1..1
                         /\ c.i = 1 => EntryOf(c) = "NULL"
<1>1. Rules[c.nt] = << <<"ELSE", "IFA">>, <<"NULL">> >>
  BY GrammarAssumption
<1>2. Len(Rules[c.nt]) = 2
  BY <1>1
<1>3. c.a = 1 => Rules[c.nt][c.a] = <<"ELSE", "IFA">>
  BY <1>1
<1>4. c.a = 2 => Rules[c.nt][c.a] = <<"NULL">>
  BY <1>1
<1> QED
  BY <1>2, <1>3, <1>4 DEF EntryOf

(* Which entries are rules. *)
LEMMA EntryKinds ==
    /\ IsRule("IFBODY") /\ IsRule("IFELSE") /\ IsRule("IFA") /\ IsRule("EOS")
    /\ ~IsRule("CTHEN") /\ ~IsRule("ELSE") /\ ~IsRule("NULL") /\ ~IsRule("VEXP")
  BY GrammarAssumption DEF IsRule

(* A rule that goes on, one that has an entry parsed, and one that ends.   *)
LEMMA RuleContinues ==
    ASSUME NEW c, c.call \in {"rule", "entry"}, Local(c), NEW d,
           d.call = "rule", d.nt = c.nt, NEW m,
           c.nt = "IF" => IfFrame(d) /\ WatchRule(d, Point(m.pos, NoNode, <<>>)),
           c.nt = "IFELSE" => ElseFrame(d)
    PROVE  Good(Continue(m, <<d>>), c)
<1>1. RuleFrame(c)
  BY DEF Local
<1>2. Local(d)
  BY <1>1 DEF Local, RuleFrame
<1>3. InPlace(d, c)
  BY DEF InPlace, ExpressionCalls, Parses
<1>4. Watch(d, Point(m.pos, NoNode, <<>>))
  BY DEF Watch, WatchEntry, WatchRule
<1> QED
  BY <1>2, <1>3, <1>4, OneCallGood

(* What an entry of an alternative does: it asks for a node, ends the      *)
(* rule, or adds a child.                                                  *)
LEMMA RuleAsks ==
    ASSUME NEW S, NEW c \in RuleFrames(S), c.call = "rule", Local(c), NEW q, NEW b,
           c.i \in DOMAIN Rules[c.nt][c.a],
           \/ EntryOf(c) = "VEXP" /\ b = Expression(0)
           \/ IsRule(EntryOf(c)) /\ b = NonTerminal(EntryOf(c)),
           c.nt = "IF" => WatchEntry([c EXCEPT !.call = "entry"],
                                     Point(q.pos, NoNode, <<b>>))
    PROVE  Good(Continue(q, <<b, [c EXCEPT !.call = "entry"]>>), c)
<1> DEFINE rest == [c EXCEPT !.call = "entry"]
<1>1. /\ rest.call = "entry" /\ rest.nt = c.nt /\ rest.a = c.a /\ rest.i = c.i
      /\ rest.start = c.start /\ rest.kids = c.kids
  BY DEF RuleFrames
<1> HIDE DEF rest
<1>2. EntryOf(rest) = EntryOf(c)
  BY <1>1 DEF EntryOf
<1>3. RuleFrame(c)
  BY DEF Local
<1>4. Local(rest)
  <2>1. c.nt = "IF" => IfFrame(rest)
    BY <1>1, <1>3 DEF RuleFrame, IfFrame, Orderly, Tainted
  <2>2. c.nt = "IFELSE" => ElseFrame(rest)
    BY <1>1, <1>3 DEF RuleFrame, ElseFrame
  <2> QED
    BY <1>1, <1>2, <1>3, <2>1, <2>2 DEF Local, RuleFrame
<1>5. InPlace(rest, c)
  BY <1>1 DEF InPlace, ExpressionCalls, Parses
<1>6. Watch(rest, Point(q.pos, NoNode, <<b>>))
  BY <1>1 DEF Watch, WatchEntry, WatchRule, rest
<1>7. Answers(b, rest) /\ Local(b) /\ \A x : Watch(b, x)
  <2>1. CASE EntryOf(c) = "VEXP" /\ b = Expression(0)
    <3>1. b.call = "expression"
      BY <2>1 DEF Expression
    <3>2. Answers(b, rest)
      BY <1>1, <1>2, <2>1, <3>1 DEF Answers, ExpressionCalls, WaitsForExpression
    <3> QED
      BY <2>1, <3>2, ExpressionPlain
  <2>2. CASE IsRule(EntryOf(c)) /\ b = NonTerminal(EntryOf(c))
    <3>1. b.call = "nonterminal" /\ b.nt = EntryOf(c)
      BY <2>2 DEF NonTerminal
    <3>2. EntryOf(c) # "VEXP"
      BY <2>2, EntryKinds
    <3>3. Answers(b, rest)
      BY <1>1, <1>2, <3>1, <3>2 DEF Answers, ExpressionCalls, WaitsForRule, Parses, Awaited
    <3>4. Local(b) /\ \A x : Watch(b, x)
      BY <3>1, PlainWatched DEF Local
    <3> QED
      BY <3>3, <3>4
  <2> QED
    BY <2>1, <2>2
<1>8. Good(Continue(q, <<b, rest>>), c)
  BY <1>4, <1>5, <1>6, <1>7, TwoCallsGood
<1> QED
  BY <1>8 DEF rest

(* An alternative whose last entry has been parsed returns its children.   *)
LEMMA RuleEnds ==
    ASSUME NEW c, c.call = "rule", Local(c), NEW m,
           c.nt = "IF" => IfParts(c.kids) /\ Len(c.kids) >= 4,
           c.nt = "IFELSE" => c.kids = <<>> \/ (c.kids[1].t = "ELSE" /\ Len(c.kids) = 2)
    PROVE  Good(Return(Group(c.kids), m), c)
<1>1. RuleFrame(c)
  BY DEF Local
<1>2. Group(c.kids).kids = c.kids
  BY DEF Group, NodeOf
<1>3. Parses(c) = c.nt /\ c.call \notin ExpressionCalls
  BY DEF Parses, ExpressionCalls
<1>4. IsResult(c.nt, Group(c.kids))
  BY <1>1, <1>2 DEF RuleFrame, IsResult, IsElse
<1>5. Gives(c, Group(c.kids))
  BY <1>3, <1>4 DEF Gives
<1>6. IfNode(Group(c.kids))
  BY NodeTaken DEF Group
<1> QED
  BY <1>5, <1>6, ReturnGood

-----------------------------------------------------------------------------
(* The children of a rule, one more or fewer.                              *)

Grown(c, d, n) ==
    /\ d.call = "rule" /\ d.nt = c.nt /\ d.a = c.a /\ d.i = c.i + 1 /\ d.start = c.start
    /\ Len(c.kids) \in Nat /\ Len(d.kids) = Len(c.kids) + 1
    /\ \A j \in 1..Len(c.kids) : d.kids[j] = c.kids[j]
    /\ d.kids[Len(c.kids) + 1] = n

(* A child is added.                                                       *)
LEMMA EntryGrows ==
    ASSUME NEW S, NEW c \in RuleFrames(S), NEW n \in S
    PROVE  /\ Grown(c, [c EXCEPT !.call = "rule", !.i = @ + 1, !.kids = Append(@, n)], n)
           /\ c.call = "rule" =>
                 Grown(c, [c EXCEPT !.i = @ + 1, !.kids = Append(@, n)], n)
<1>1. c.kids \in Seq(S)
  BY DEF RuleFrames
<1>2. /\ Len(c.kids) \in Nat /\ Len(Append(c.kids, n)) = Len(c.kids) + 1
      /\ \A j \in 1..Len(c.kids) : Append(c.kids, n)[j] = c.kids[j]
      /\ Append(c.kids, n)[Len(c.kids) + 1] = n
  BY <1>1, AppendProperties
<1> DEFINE kids == Append(c.kids, n)
           d == [c EXCEPT !.call = "rule", !.i = @ + 1, !.kids = kids]
           e == [c EXCEPT !.i = @ + 1, !.kids = kids]
<1> HIDE DEF kids
<1>3. /\ d.call = "rule" /\ d.nt = c.nt /\ d.a = c.a /\ d.i = c.i + 1 /\ d.start = c.start
      /\ d.kids = kids
  BY DEF RuleFrames
<1>4. /\ e.call = c.call /\ e.nt = c.nt /\ e.a = c.a /\ e.i = c.i + 1 /\ e.start = c.start
      /\ e.kids = kids
  BY DEF RuleFrames
<1> HIDE DEF d, e
<1>5. /\ Len(c.kids) \in Nat /\ Len(kids) = Len(c.kids) + 1
      /\ \A j \in 1..Len(c.kids) : kids[j] = c.kids[j]
      /\ kids[Len(c.kids) + 1] = n
  BY <1>2 DEF kids
<1>6. Grown(c, d, n) /\ (c.call = "rule" => Grown(c, e, n))
  BY <1>3, <1>4, <1>5 DEF Grown
<1> QED
  BY <1>6 DEF d, e, kids

(* The parts of an IF stay where they are when one more is found.          *)
LEMMA PartsGrow ==
    ASSUME NEW c, NEW d, NEW n, Grown(c, d, n), IfParts(c.kids),
           Len(c.kids) = 0 => IsCondition(n),
           Len(c.kids) = 2 => IsBody(n),
           Len(c.kids) = 3 => IsElse(n)
    PROVE  IfParts(d.kids)
<1> DEFINE k == Len(c.kids)
<1>1. k \in Nat /\ Len(d.kids) = k + 1
  BY DEF Grown
<1>2. d.kids[k + 1] = n /\ \A j \in 1..k : d.kids[j] = c.kids[j]
  BY DEF Grown
<1>3. /\ k >= 1 => IsCondition(c.kids[1])
      /\ k >= 3 => IsBody(c.kids[3])
      /\ k >= 4 => IsElse(c.kids[4])
  BY DEF IfParts
<1>4. (k = 0 => IsCondition(n)) /\ (k = 2 => IsBody(n)) /\ (k = 3 => IsElse(n))
  OBVIOUS
<1> HIDE DEF k
<1>5. k + 1 >= 1 => IsCondition(d.kids[1])
  <2>1. k = 0 => d.kids[1] = n
    BY <1>2
  <2>2. k >= 1 => d.kids[1] = c.kids[1]
    BY <1>1, <1>2
  <2> QED
    BY <1>1, <1>3, <1>4, <2>1, <2>2
<1>6. k + 1 >= 3 => IsBody(d.kids[3])
  <2>1. k = 2 => d.kids[3] = n
    BY <1>2
  <2>2. k >= 3 => d.kids[3] = c.kids[3]
    BY <1>1, <1>2
  <2> QED
    BY <1>1, <1>3, <1>4, <2>1, <2>2
<1>7. k + 1 >= 4 => IsElse(d.kids[4])
  <2>1. k = 3 => d.kids[4] = n
    BY <1>2
  <2>2. k >= 4 => d.kids[4] = c.kids[4]
    BY <1>1, <1>2
  <2> QED
    BY <1>1, <1>3, <1>4, <2>1, <2>2
<1> QED
  BY <1>1, <1>5, <1>6, <1>7 DEF IfParts

(* An entry has been found. *)
LEMMA IfGrows ==
    ASSUME NEW c, c.nt = "IF", IfFrame(c), NEW d, NEW n, Grown(c, d, n),
           c.i \in DOMAIN Rules[c.nt][c.a],
           EntryOf(c) = "VEXP" => IsCondition(n),
           EntryOf(c) = "CTHEN" => Doomed(c.start),
           EntryOf(c) = "IFBODY" => IsBody(n),
           EntryOf(c) = "IFELSE" => IsElse(n),
           Tainted(c) => c.i = 1
    PROVE  IfFrame(d)
<1>1. /\ d.call = "rule" /\ d.nt = c.nt /\ d.a = c.a /\ d.i = c.i + 1 /\ d.start = c.start
      /\ Len(d.kids) = Len(c.kids) + 1
  BY DEF Grown
<1>2. CASE Orderly(c) /\ c.a = 1
  <2>1. c.i \in 1..5 /\ Len(c.kids) = c.i - 1 /\ IfParts(c.kids)
    <3>1. DOMAIN Rules[c.nt][c.a] = 1..5
      BY <1>2, IfTable
    <3> QED
      BY <1>2, <3>1 DEF Orderly
  <2>2. /\ Len(c.kids) = 0 => IsCondition(n)
        /\ Len(c.kids) = 2 => IsBody(n)
        /\ Len(c.kids) = 3 => IsElse(n)
    <3>1. /\ c.i = 1 => EntryOf(c) = "VEXP"
          /\ c.i = 3 => EntryOf(c) = "IFBODY"
          /\ c.i = 4 => EntryOf(c) = "IFELSE"
      BY <1>2, IfTable
    <3>2. /\ Len(c.kids) = 0 => c.i = 1
          /\ Len(c.kids) = 2 => c.i = 3
          /\ Len(c.kids) = 3 => c.i = 4
      BY <2>1
    <3> QED
      BY <3>1, <3>2
  <2>3. IfParts(d.kids)
    BY <2>1, <2>2, PartsGrow
  <2>4. d.i >= 3 => Doomed(d.start)
    <3>1. c.i = 2 => EntryOf(c) = "CTHEN"
      BY <1>2, IfTable
    <3>2. c.i >= 3 => Doomed(c.start)
      BY <1>2 DEF Orderly
    <3>3. d.i >= 3 => c.i = 2 \/ c.i >= 3
      BY <1>1, <2>1
    <3> QED
      BY <1>1, <3>1, <3>2, <3>3
  <2>5. d.a = 1 /\ d.i \in 1..6 /\ Len(d.kids) = d.i + d.a - 2
    BY <1>1, <1>2, <2>1
  <2> QED
    BY <2>3, <2>4, <2>5 DEF IfFrame, Orderly
<1>3. CASE Orderly(c) /\ c.a = 2
  <2>1. c.i \in 1..4 /\ Len(c.kids) = c.i /\ IfParts(c.kids)
    <3>1. DOMAIN Rules[c.nt][c.a] = 1..4
      BY <1>3, IfTable
    <3> QED
      BY <1>3, <3>1 DEF Orderly
  <2>2. /\ Len(c.kids) = 0 => IsCondition(n)
        /\ Len(c.kids) = 2 => IsBody(n)
        /\ Len(c.kids) = 3 => IsElse(n)
    <3>1. /\ c.i = 2 => EntryOf(c) = "IFBODY"
          /\ c.i = 3 => EntryOf(c) = "IFELSE"
      BY <1>3, IfTable
    <3> QED
      BY <2>1, <3>1
  <2>3. IfParts(d.kids)
    BY <2>1, <2>2, PartsGrow
  <2>4. d.a = 2 /\ d.i \in 1..5 /\ Len(d.kids) = d.i + d.a - 2
    BY <1>1, <1>3, <2>1
  <2> QED
    BY <2>3, <2>4 DEF IfFrame, Orderly
<1>4. CASE Tainted(c) /\ Doomed(c.start)
  <2>1. c.a = 2 /\ c.i = 1 /\ Len(c.kids) = c.i - 1
    BY <1>4 DEF Tainted
  <2>2. Tainted(d) /\ Doomed(d.start)
    BY <1>1, <1>4, <2>1 DEF Tainted
  <2> QED
    BY <2>2 DEF IfFrame
<1> QED
  BY <1>2, <1>3, <1>4 DEF IfFrame, Orderly

(* The same for the ELSE part.                                             *)
LEMMA ElseGrows ==
    ASSUME NEW c, c.nt = "IFELSE", ElseFrame(c), NEW d, NEW n, Grown(c, d, n),
           c.i \in DOMAIN Rules[c.nt][c.a], EntryOf(c) # "NULL",
           EntryOf(c) = "ELSE" => n.t = "ELSE"
    PROVE  ElseFrame(d)
<1>1. /\ d.a = c.a /\ d.i = c.i + 1 /\ Len(d.kids) = Len(c.kids) + 1
      /\ \A j \in 1..Len(c.kids) : d.kids[j] = c.kids[j]
      /\ d.kids[Len(c.kids) + 1] = n
  BY DEF Grown
<1>2. c.a = 1 /\ c.i \in 1..3 /\ Len(c.kids) = c.i - 1
  BY ElseTable DEF ElseFrame
<1>3. c.i = 1 \/ c.i = 2
  <2>1. DOMAIN Rules[c.nt][c.a] = 1..2
    BY <1>2, ElseTable
  <2> QED
    BY <2>1
<1>4. CASE c.i = 1
  <2>1. d.kids[1] = n /\ n.t = "ELSE"
    BY <1>1, <1>2, <1>4, ElseTable
  <2> QED
    BY <1>1, <1>2, <1>4, <2>1 DEF ElseFrame
<1>5. CASE c.i = 2
  <2>1. d.kids[1] = c.kids[1] /\ c.kids[1].t = "ELSE"
    BY <1>1, <1>2, <1>5 DEF ElseFrame
  <2> QED
    BY <1>1, <1>2, <1>5, <2>1 DEF ElseFrame
<1> QED
  BY <1>3, <1>4, <1>5

-----------------------------------------------------------------------------
(* The next alternative, and the entries.                                  *)

(* An IF whose first alternative has failed: either there was no THEN, and *)
(* the condition stays, or the second alternative is going to fail.        *)
LEMMA IfFails ==
    ASSUME NEW S, NEW c \in RuleFrames(S), c.nt = "IF", Local(c),
           NEW q \in ParserState, NEW how,
           c.call \in {"rule", "entry"},
           c.a = 1 => \/ how = "token" /\ c.i = 2
                      \/ how = "expression" /\ c.i = 1 /\ Doomed(c.start)
                      \/ how = "rule" /\ Doomed(c.start)
    PROVE  Good(NextAlternative(c, q, how), c)
<1> DEFINE m == [q EXCEPT !.pos = c.start, !.err = @ /\ how = "token"]
           d == [c EXCEPT !.call = "rule", !.a = @ + 1, !.i = 1, !.kids = KidsKept(how, @)]
           out == Leave([q EXCEPT !.err = @ /\ how # "expression"])
<1>1. IfFrame(c)
  BY DEF Local, RuleFrame
<1>2. CASE c.a = 1
  <2>1. Len(Rules[c.nt]) = 2
    BY IfTable
  <2>2. NextAlternative(c, q, how) = Continue(m, <<d>>)
    BY <1>2, <2>1 DEF NextAlternative
  <2>3. /\ d.call = "rule" /\ d.nt = c.nt /\ d.a = 2 /\ d.i = 1 /\ d.start = c.start
        /\ d.kids = KidsKept(how, c.kids)
    BY <1>2 DEF RuleFrames
  <2> HIDE DEF d
  <2>4. Orderly(c)
    BY <1>1, <1>2 DEF IfFrame, Tainted
  <2>5. IfFrame(d)
    <3>1. CASE how = "token" /\ c.i = 2
      <4>1. d.kids = c.kids /\ Len(c.kids) = 1 /\ IfParts(c.kids)
        BY <1>2, <2>3, <2>4, <3>1 DEF KidsKept, Orderly
      <4> QED
        BY <2>3, <4>1 DEF IfFrame, Orderly
    <3>2. CASE how = "expression" /\ c.i = 1 /\ Doomed(c.start)
      <4>1. d.kids = c.kids /\ Len(c.kids) = 0
        BY <1>2, <2>3, <2>4, <3>2 DEF KidsKept, Orderly
      <4> QED
        BY <2>3, <3>2, <4>1 DEF IfFrame, Tainted
    <3>3. CASE how = "rule" /\ Doomed(c.start)
      <4>1. d.kids = <<>>
        BY <2>3, <3>3 DEF KidsKept
      <4>2. Len(d.kids) = 0
        BY <4>1
      <4> QED
        BY <2>3, <3>3, <4>2 DEF IfFrame, Tainted
    <3> QED
      BY <1>2, <3>1, <3>2, <3>3
  <2>6. WatchRule(d, Point(c.start, NoNode, <<>>))
    BY <2>3 DEF WatchRule, Point
  <2>7. m.pos = c.start
    BY DEF ParserState
  <2> HIDE DEF m
  <2>8. Good(Continue(m, <<d>>), c)
    BY <2>3, <2>5, <2>6, <2>7, RuleContinues
  <2> QED
    BY <2>2, <2>8
<1>3. CASE c.a = 2
  <2>1. Len(Rules[c.nt]) = 2
    BY IfTable
  <2>2. NextAlternative(c, q, how) = Return(NoNode, out)
    BY <1>3, <2>1 DEF NextAlternative
  <2> QED
    BY <2>2, NothingGood
<1> QED
  BY <1>1, <1>2, <1>3 DEF IfFrame, Orderly, Tainted

(* The same for an ELSE, whose second alternative is the empty one, and    *)
(* for any other rule.                                                     *)
LEMMA ElseFails ==
    ASSUME NEW S, NEW c \in RuleFrames(S), c.nt = "IFELSE", Local(c),
           NEW q \in ParserState, NEW how, c.call \in {"rule", "entry"},
           how = "rule" \/ c.i = 1
    PROVE  Good(NextAlternative(c, q, how), c)
<1> DEFINE m == [q EXCEPT !.pos = c.start, !.err = @ /\ how = "token"]
           d == [c EXCEPT !.call = "rule", !.a = @ + 1, !.i = 1, !.kids = KidsKept(how, @)]
           out == Leave([q EXCEPT !.err = @ /\ how # "expression"])
<1>1. ElseFrame(c)
  BY DEF Local, RuleFrame
<1>2. CASE c.a = 1
  <2>1. Len(Rules[c.nt]) = 2
    BY ElseTable
  <2>2. NextAlternative(c, q, how) = Continue(m, <<d>>)
    BY <1>2, <2>1 DEF NextAlternative
  <2>3. /\ d.call = "rule" /\ d.nt = c.nt /\ d.a = 2 /\ d.i = 1
        /\ d.kids = KidsKept(how, c.kids)
    BY <1>2 DEF RuleFrames
  <2> HIDE DEF d, m
  <2>4. d.kids = <<>>
    <3>1. how # "rule" => c.kids = <<>>
      <4> SUFFICES ASSUME how # "rule" PROVE c.kids = <<>>
        OBVIOUS
      <4>1. c.kids \in Seq(S) /\ Len(c.kids) = 0
        BY <1>1, <1>2 DEF ElseFrame, RuleFrames
      <4> QED
        BY <4>1
    <3> QED
      BY <2>3, <3>1 DEF KidsKept
  <2>5. ElseFrame(d)
    BY <2>3, <2>4 DEF ElseFrame
  <2>6. Good(Continue(m, <<d>>), c)
    BY <2>3, <2>5, RuleContinues
  <2> QED
    BY <2>2, <2>6
<1>3. CASE c.a = 2
  <2>1. Len(Rules[c.nt]) = 2
    BY ElseTable
  <2>2. NextAlternative(c, q, how) = Return(NoNode, out)
    BY <1>3, <2>1 DEF NextAlternative
  <2> QED
    BY <2>2, NothingGood
<1> QED
  BY <1>1, <1>2, <1>3 DEF ElseFrame

(* An alternative that fails, of a rule other than these two.              *)
LEMMA OtherFails ==
    ASSUME NEW S, NEW c \in RuleFrames(S), c.nt \notin {"IF", "IFELSE"}, Local(c),
           NEW q, NEW how, c.call \in {"rule", "entry"}
    PROVE  Good(NextAlternative(c, q, how), c)
<1> DEFINE m == [q EXCEPT !.pos = c.start, !.err = @ /\ how = "token"]
           d == [c EXCEPT !.call = "rule", !.a = @ + 1, !.i = 1, !.kids = KidsKept(how, @)]
           out == Leave([q EXCEPT !.err = @ /\ how # "expression"])
<1>1. NextAlternative(c, q, how) \in {Continue(m, <<d>>), Return(NoNode, out)}
  BY DEF NextAlternative
<1>2. d.call = "rule" /\ d.nt = c.nt
  BY DEF RuleFrames
<1> HIDE DEF m, d, out
<1>3. Good(Continue(m, <<d>>), c)
  BY <1>2, RuleContinues
<1> QED
  BY <1>1, <1>3, NothingGood

(* Where an IF is among its entries, and what it has at the end of them.   *)
LEMMA IfPlaces ==
    ASSUME NEW c, c.nt = "IF", IfFrame(c)
    PROVE  /\ c.a \in {1, 2}
           /\ c.i \in DOMAIN Rules[c.nt][c.a] =>
                 /\ EntryOf(c) \in {"VEXP", "CTHEN", "IFBODY", "IFELSE", "EOS"}
                 /\ EntryOf(c) = "VEXP" <=> c.i = 1
                 /\ EntryOf(c) = "CTHEN" <=> c.a = 1 /\ c.i = 2
                 /\ c.a = 1 /\ c.i \notin {1, 2} => Orderly(c) /\ Doomed(c.start)
           /\ c.i \notin DOMAIN Rules[c.nt][c.a] => IfParts(c.kids) /\ Len(c.kids) >= 4
<1>1. CASE c.a = 1
  <2>1. Orderly(c) /\ c.i \in 1..6
    BY <1>1 DEF IfFrame, Orderly, Tainted
  <2>2. DOMAIN Rules[c.nt][c.a] = 1..5
    BY <1>1, IfTable
  <2>3. CASE c.i \in 1..5
    <3>1. c.i = 1 \/ c.i = 2 \/ c.i = 3 \/ c.i = 4 \/ c.i = 5
      BY <2>3
    <3>2. /\ c.i = 1 => EntryOf(c) = "VEXP"
          /\ c.i = 2 => EntryOf(c) = "CTHEN"
          /\ c.i = 3 => EntryOf(c) = "IFBODY"
          /\ c.i = 4 => EntryOf(c) = "IFELSE"
          /\ c.i = 5 => EntryOf(c) = "EOS"
      BY <1>1, IfTable
    <3>3. c.i \notin {1, 2} => Doomed(c.start)
      <4>1. c.i \notin {1, 2} => c.i >= 3
        BY <3>1
      <4> QED
        BY <1>1, <2>1, <4>1 DEF Orderly
    <3> QED
      BY <1>1, <2>1, <2>2, <2>3, <3>1, <3>2, <3>3
  <2>4. CASE c.i = 6
    <3>1. Len(c.kids) = 5 /\ IfParts(c.kids)
      BY <1>1, <2>1, <2>4 DEF Orderly
    <3> QED
      BY <1>1, <2>2, <2>4, <3>1
  <2> QED
    BY <2>1, <2>3, <2>4
<1>2. CASE c.a = 2
  <2>1. DOMAIN Rules[c.nt][c.a] = 1..4
    BY <1>2, IfTable
  <2>2. CASE c.i \in 1..4
    <3>1. c.i = 1 \/ c.i = 2 \/ c.i = 3 \/ c.i = 4
      BY <2>2
    <3>2. /\ c.i = 1 => EntryOf(c) = "VEXP"
          /\ c.i = 2 => EntryOf(c) = "IFBODY"
          /\ c.i = 3 => EntryOf(c) = "IFELSE"
          /\ c.i = 4 => EntryOf(c) = "EOS"
      BY <1>2, IfTable
    <3> QED
      BY <1>2, <2>1, <2>2, <3>1, <3>2
  <2>3. CASE c.i \notin 1..4
    <3>1. Orderly(c)
      BY <2>3 DEF IfFrame, Tainted
    <3>2. c.i = 5 /\ Len(c.kids) = 5 /\ IfParts(c.kids)
      BY <1>2, <2>3, <3>1 DEF Orderly
    <3> QED
      BY <1>2, <2>1, <2>3, <3>2
  <2> QED
    BY <2>2, <2>3
<1> QED
  BY <1>1, <1>2 DEF IfFrame, Orderly, Tainted

(* The places within the ELSE part.                                        *)
LEMMA ElsePlaces ==
    ASSUME NEW c, c.nt = "IFELSE", ElseFrame(c)
    PROVE  /\ c.i \in DOMAIN Rules[c.nt][c.a] =>
                 /\ EntryOf(c) \in {"ELSE", "IFA", "NULL"}
                 /\ EntryOf(c) = "ELSE" => c.a = 1 /\ c.i = 1
                 /\ EntryOf(c) = "NULL" => c.kids = <<>>
           /\ c.i \notin DOMAIN Rules[c.nt][c.a] => c.kids[1].t = "ELSE" /\ Len(c.kids) = 2
<1>1. CASE c.a = 1
  <2>1. DOMAIN Rules[c.nt][c.a] = 1..2
    BY <1>1, ElseTable
  <2>2. c.i = 1 \/ c.i = 2 \/ c.i = 3
    BY <1>1 DEF ElseFrame
  <2>3. (c.i = 1 => EntryOf(c) = "ELSE") /\ (c.i = 2 => EntryOf(c) = "IFA")
    BY <1>1, ElseTable
  <2>4. c.i = 3 => c.kids[1].t = "ELSE" /\ Len(c.kids) = 2
    BY <1>1 DEF ElseFrame
  <2> QED
    BY <1>1, <2>1, <2>2, <2>3, <2>4
<1>2. CASE c.a = 2
  <2>1. DOMAIN Rules[c.nt][c.a] = 1..1 /\ (c.i = 1 => EntryOf(c) = "NULL")
    BY <1>2, ElseTable
  <2>2. c.i = 1 /\ c.kids = <<>>
    BY <1>2 DEF ElseFrame
  <2> QED
    BY <2>1, <2>2
<1> QED
  BY <1>1, <1>2 DEF ElseFrame

(* The end of an alternative, the empty production among them. *)
LEMMA EndGood ==
    ASSUME NEW c, c.call = "rule", Local(c), NEW m,
           \/ c.i \notin DOMAIN Rules[c.nt][c.a]
           \/ c.i \in DOMAIN Rules[c.nt][c.a] /\ EntryOf(c) = "NULL"
    PROVE  Good(Return(Group(c.kids), m), c)
<1>1. RuleFrame(c)
  BY DEF Local
<1>2. c.nt = "IF" => IfParts(c.kids) /\ Len(c.kids) >= 4
  BY <1>1, IfPlaces DEF RuleFrame
<1>3. c.nt = "IFELSE" => c.kids = <<>> \/ (c.kids[1].t = "ELSE" /\ Len(c.kids) = 2)
  BY <1>1, ElsePlaces DEF RuleFrame
<1> QED
  BY <1>2, <1>3, RuleEnds

(* An entry that is parsed by a call of its own. *)
LEMMA AskGood ==
    ASSUME NEW S, NEW c \in RuleFrames(S), c.call = "rule", Local(c), NEW q, NEW b, NEW n,
           c.i \in DOMAIN Rules[c.nt][c.a],
           \/ EntryOf(c) = "VEXP" /\ b = Expression(0)
           \/ IsRule(EntryOf(c)) /\ b = NonTerminal(EntryOf(c)),
           Watch(c, Point(q.pos, n, <<>>))
    PROVE  Good(Continue(q, <<b, [c EXCEPT !.call = "entry"]>>), c)
<1> DEFINE rest == [c EXCEPT !.call = "entry"]
           x == Point(q.pos, NoNode, <<b>>)
<1>1. /\ rest.nt = c.nt /\ rest.a = c.a /\ rest.i = c.i
      /\ rest.start = c.start /\ rest.kids = c.kids
  BY DEF RuleFrames
<1> HIDE DEF rest
<1>2. ASSUME c.nt = "IF" PROVE WatchEntry(rest, x)
  <2>1. /\ c.i = 1 => q.pos = c.start
        /\ Tainted(c) /\ c.i = 2 => TypeAt(q.pos) = "CTHEN"
    BY <1>2 DEF Watch, WatchRule, Point
  <2>2. IfFrame(c)
    BY <1>2 DEF Local, RuleFrame
  <2>3. EntryOf(c) = "VEXP" <=> c.i = 1
    BY <1>2, <2>2, IfPlaces
  <2>4. c.i = 1 => /\ Reached(c.start, x)
                   /\ \A k \in 1..Len(x.calls) : x.calls[k].call \in ExpressionCalls
    <3> SUFFICES ASSUME c.i = 1
                 PROVE  /\ Reached(c.start, x)
                        /\ \A k \in 1..Len(x.calls) : x.calls[k].call \in ExpressionCalls
      OBVIOUS
    <3>1. b = Expression(0)
      BY <2>3, EntryKinds
    <3>2. x = Started(c.start)
      BY <2>1, <3>1 DEF Started, Point
    <3>3. x.calls = <<Expression(0)>>
      BY <3>1 DEF Point
    <3>4. Expression(0).call \in ExpressionCalls
      BY DEF Expression, ExpressionCalls
    <3> HIDE DEF x
    <3> QED
      BY <3>2, <3>3, <3>4, ReachedStart
  <2>5. Tainted(c) /\ c.i = 2 => Ladder(x)
    <3> SUFFICES ASSUME Tainted(c), c.i = 2 PROVE Ladder(x)
      OBVIOUS
    <3>1. EntryOf(c) = "IFBODY"
      BY <1>2, IfTable DEF Tainted
    <3>2. b = NonTerminal("IFBODY")
      BY <3>1
    <3> QED
      BY <2>1, <3>2 DEF Ladder, Point
  <2> HIDE DEF x
  <2>6. Tainted(rest) <=> Tainted(c)
    BY <1>1 DEF Tainted
  <2> QED
    BY <1>1, <2>4, <2>5, <2>6 DEF WatchEntry
<1> QED
  BY <1>2, RuleAsks DEF rest

(* A token that an entry names. *)
LEMMA TokenGood ==
    ASSUME InputTyped, NEW S, Closed(S), NEW c \in RuleFrames(S), c.call = "rule", Local(c),
           NEW q \in ParserState, NEW n, Watch(c, Point(q.pos, n, <<>>)),
           c.i \in DOMAIN Rules[c.nt][c.a], PeekType(q) = EntryOf(c),
           EntryOf(c) \notin {"NULL", "VEXP"}, ~IsRule(EntryOf(c))
    PROVE  Good(Continue(Advance(q), <<[c EXCEPT !.i = @ + 1,
                                                 !.kids = Append(@, Leaf(Peek(q)))]>>), c)
<1> DEFINE leaf == Leaf(Peek(q))
           d == [c EXCEPT !.i = @ + 1, !.kids = Append(@, leaf)]
<1>1. RuleFrame(c)
  BY DEF Local
<1>2. leaf \in S
  BY PeekTyped, LeavesTyped DEF Closed
<1>3. leaf.t = EntryOf(c)
  BY DEF Leaf, NodeOf, PeekType
<1> HIDE DEF leaf
<1>4. Grown(c, d, leaf)
  BY <1>2, EntryGrows
<1> HIDE DEF d
<1>5. ASSUME c.nt = "IF" PROVE IfFrame(d) /\ WatchRule(d, Point(Advance(q).pos, NoNode, <<>>))
  <2>1. IfFrame(c)
    BY <1>1, <1>5 DEF RuleFrame
  <2>2. EntryOf(c) = "CTHEN" /\ c.a = 1 /\ c.i = 2
    BY <1>5, <2>1, EntryKinds, IfPlaces
  <2>3. Reached(c.start, Point(q.pos, c.kids[1], <<>>))
    BY <1>5, <2>2 DEF Watch, WatchRule, Point
  <2>4. TypeAt(q.pos) = "CTHEN"
    BY <2>2 DEF PeekType, Peek, TypeAt
  <2>5. Doomed(c.start)
    <3>1. /\ Point(q.pos, c.kids[1], <<>>).calls = <<>>
          /\ TypeAt(Point(q.pos, c.kids[1], <<>>).pos) = "CTHEN"
      BY <2>4 DEF Point
    <3> QED
      BY <2>3, <3>1, EndDecides
  <2>6. ~Tainted(c)
    BY <2>2 DEF Tainted
  <2>7. IfFrame(d)
    BY <1>4, <1>5, <2>1, <2>2, <2>5, <2>6, IfGrows
  <2>8. d.a = 1 /\ d.i = 3
    BY <1>4, <2>2 DEF Grown
  <2> QED
    BY <2>7, <2>8 DEF WatchRule, Tainted
<1>6. ASSUME c.nt = "IFELSE" PROVE ElseFrame(d)
  BY <1>1, <1>3, <1>4, <1>6, ElseGrows DEF RuleFrame
<1>7. Good(Continue(Advance(q), <<d>>), c)
  BY <1>4, <1>5, <1>6, RuleContinues DEF Grown
<1> QED
  BY <1>7 DEF d, leaf

(* A token that is not the one asked for fails the alternative.            *)
LEMMA NoTokenGood ==
    ASSUME NEW S, NEW c \in RuleFrames(S), c.call = "rule", Local(c),
           NEW q \in ParserState, c.i \in DOMAIN Rules[c.nt][c.a],
           EntryOf(c) \notin {"NULL", "VEXP"}, ~IsRule(EntryOf(c))
    PROVE  Good(NextAlternative(c, q, "token"), c)
<1>1. RuleFrame(c)
  BY DEF Local
<1>2. CASE c.nt = "IF"
  <2>1. EntryOf(c) = "CTHEN" /\ c.a = 1 /\ c.i = 2
    BY <1>1, <1>2, EntryKinds, IfPlaces DEF RuleFrame
  <2> QED
    BY <1>2, <2>1, IfFails
<1>3. CASE c.nt = "IFELSE"
  <2>1. EntryOf(c) = "ELSE" /\ c.i = 1
    BY <1>1, <1>3, EntryKinds, ElsePlaces DEF RuleFrame
  <2> QED
    BY <1>3, <2>1, ElseFails
<1>4. CASE c.nt \notin {"IF", "IFELSE"}
  BY <1>4, OtherFails
<1> QED
  BY <1>2, <1>3, <1>4

(* One entry of a rule, with its token or its call.                        *)
LEMMA EntryGood ==
    ASSUME InputTyped, NEW S, Closed(S), NEW c \in RuleFrames(S), c.call = "rule", Local(c),
           NEW q \in ParserState, NEW n, Watch(c, Point(q.pos, n, <<>>))
    PROVE  Good(Entry(c, q), c)
<1> DEFINE rest == [c EXCEPT !.call = "entry"]
           d == [c EXCEPT !.i = @ + 1, !.kids = Append(@, Leaf(Peek(q)))]
           e == EntryOf(c)
<1>1. CASE c.i \notin DOMAIN Rules[c.nt][c.a]
  <2>1. Entry(c, q) = Return(Group(c.kids), Leave(q))
    BY <1>1 DEF Entry
  <2> QED
    BY <1>1, <2>1, EndGood
<1>2. CASE c.i \in DOMAIN Rules[c.nt][c.a] /\ e = "NULL"
  <2>1. ~IsRule(e)
    BY <1>2, EntryKinds
  <2>2. Entry(c, q) = Return(Group(c.kids), q)
    BY <1>2, <2>1 DEF Entry, EntryOf
  <2> QED
    BY <1>2, <2>2, EndGood
<1>3. CASE c.i \in DOMAIN Rules[c.nt][c.a] /\ e = "VEXP"
  <2>1. ~IsRule(e)
    BY <1>3, EntryKinds
  <2>2. Entry(c, q) = Continue(q, <<Expression(0), rest>>)
    BY <1>3, <2>1 DEF Entry, EntryOf
  <2> QED
    BY <1>3, <2>2, AskGood
<1>4. CASE c.i \in DOMAIN Rules[c.nt][c.a] /\ IsRule(e)
  <2>1. e # "NULL" /\ e # "VEXP"
    BY <1>4, EntryKinds
  <2>2. Entry(c, q) = Continue(q, <<NonTerminal(e), rest>>)
    BY <1>4, <2>1 DEF Entry, EntryOf
  <2> QED
    BY <1>4, <2>2, AskGood
<1>5. CASE c.i \in DOMAIN Rules[c.nt][c.a] /\ e \notin {"NULL", "VEXP"} /\ ~IsRule(e)
  <2>1. Entry(c, q) = IF PeekType(q) = e THEN Continue(Advance(q), <<d>>)
                      ELSE NextAlternative(c, q, "token")
    BY <1>5 DEF Entry, EntryOf
  <2>2. PeekType(q) = e => Good(Continue(Advance(q), <<d>>), c)
    BY <1>5, TokenGood
  <2>3. Good(NextAlternative(c, q, "token"), c)
    BY <1>5, NoTokenGood
  <2> HIDE DEF d
  <2> QED
    BY <2>1, <2>2, <2>3
<1> QED
  BY <1>1, <1>2, <1>3, <1>4, <1>5

(* What an entry's call has returned. *)
LEMMA FoundGood ==
    ASSUME NEW S, NEW c \in RuleFrames(S), c.call = "entry", Local(c),
           NEW q \in ParserState, NEW n \in S, ~Failed(n), Takes(c, n),
           Watch(c, Point(q.pos, n, <<>>))
    PROVE  Good(Continue(q, <<[c EXCEPT !.call = "rule", !.i = @ + 1,
                                        !.kids = Append(@, n)]>>), c)
<1> DEFINE d == [c EXCEPT !.call = "rule", !.i = @ + 1, !.kids = Append(@, n)]
           x == Point(q.pos, n, <<>>)
<1>1. /\ RuleFrame(c) /\ c.i \in DOMAIN Rules[c.nt][c.a]
      /\ EntryOf(c) = "VEXP" \/ IsRule(EntryOf(c))
  BY DEF Local, RuleFrame
<1>2. Grown(c, d, n)
  BY EntryGrows
<1>3. x.pos = q.pos /\ x.node = n /\ x.calls = <<>>
  BY DEF Point
<1>4. /\ EntryOf(c) = "VEXP" => IsCondition(n)
      /\ EntryOf(c) # "VEXP" => IsResult(EntryOf(c), n)
  BY DEF Takes, WaitsForExpression, WaitsForRule, Awaited, IsExpression
<1> HIDE DEF d, x
<1>5. ASSUME c.nt = "IF" PROVE IfFrame(d) /\ WatchRule(d, Point(q.pos, NoNode, <<>>))
  <2>1. IfFrame(c)
    BY <1>1, <1>5 DEF RuleFrame
  <2>2. /\ EntryOf(c) = "IFBODY" => IsBody(n)
        /\ EntryOf(c) = "IFELSE" => IsElse(n)
    BY <1>4 DEF IsResult
  <2>3. EntryOf(c) # "CTHEN"
    BY <1>1, EntryKinds
  <2>4. WatchEntry(c, x)
    BY DEF Watch, x
  <2>5. Tainted(c) => c.i = 1
    <3> SUFFICES ASSUME Tainted(c), c.i # 1 PROVE FALSE
      OBVIOUS
    <3>1. c.i = 2
      BY DEF Tainted
    <3>2. Ladder(x)
      BY <1>5, <2>4, <3>1 DEF WatchEntry
    <3> QED
      BY <1>3, <3>2 DEF Ladder
  <2>6. IfFrame(d)
    BY <1>1, <1>2, <1>4, <1>5, <2>1, <2>2, <2>3, <2>5, IfGrows
  <2>7. c.i = 1 => Reached(c.start, x)
    BY <1>5, <2>4 DEF WatchEntry
  <2>8. d.nt = c.nt /\ d.a = c.a /\ d.i = c.i + 1 /\ d.start = c.start
        /\ Len(c.kids) \in Nat /\ Len(d.kids) = Len(c.kids) + 1
        /\ d.kids[Len(c.kids) + 1] = n
    BY <1>2 DEF Grown
  <2>9. c.i \in Nat
    BY DEF RuleFrames
  <2>10. d.i # 1
    <3>1. c.i # 0
      BY <2>1 DEF IfFrame, Orderly, Tainted
    <3> QED
      BY <2>8, <2>9, <3>1
  <2>11. d.i = 2 => c.i = 1
    BY <2>8, <2>9
  <2>12. d.a = 1 /\ d.i = 2 => Reached(d.start, Point(q.pos, d.kids[1], <<>>))
    <3> SUFFICES ASSUME d.a = 1, d.i = 2
                 PROVE  Reached(d.start, Point(q.pos, d.kids[1], <<>>))
      OBVIOUS
    <3>1. Len(c.kids) = 0
      BY <2>1, <2>8, <2>11 DEF IfFrame, Orderly, Tainted
    <3>2. d.kids[1] = n
      BY <2>8, <3>1
    <3> QED
      BY <2>7, <2>8, <2>11, <3>2 DEF x
  <2>13. Tainted(d) /\ d.i = 2 => TypeAt(q.pos) = "CTHEN"
    <3> SUFFICES ASSUME Tainted(d), d.i = 2 PROVE TypeAt(q.pos) = "CTHEN"
      OBVIOUS
    <3>1. d.a = 2 /\ Len(d.kids) = 1
      BY DEF Tainted
    <3>2. c.a = 2 /\ c.i = 1 /\ Len(c.kids) = 0
      BY <2>8, <2>11, <3>1
    <3>3. ~Orderly(c)
      BY <3>2 DEF Orderly
    <3>4. Doomed(c.start)
      BY <2>1, <3>3 DEF IfFrame
    <3> QED
      BY <1>3, <2>7, <3>2, <3>4 DEF Doomed
  <2> QED
    BY <2>6, <2>10, <2>12, <2>13 DEF WatchRule, Point
<1>6. ASSUME c.nt = "IFELSE" PROVE ElseFrame(d)
  <2>1. ElseFrame(c) /\ EntryOf(c) \notin {"ELSE", "NULL"}
    BY <1>1, <1>6, EntryKinds DEF RuleFrame
  <2> QED
    BY <1>1, <1>2, <1>6, <2>1, ElseGrows
<1>7. Good(Continue(q, <<d>>), c)
  BY <1>2, <1>5, <1>6, RuleContinues DEF Grown
<1> QED
  BY <1>7 DEF d

(* The node an entry waited for was not found.                             *)
LEMMA NotFoundGood ==
    ASSUME NEW S, NEW c \in RuleFrames(S), c.call = "entry", Local(c),
           NEW q \in ParserState, NEW n, Failed(n), Watch(c, Point(q.pos, n, <<>>))
    PROVE  Good(NextAlternative(c, q, IF EntryOf(c) = "VEXP" THEN "expression" ELSE "rule"), c)
<1> DEFINE how == IF EntryOf(c) = "VEXP" THEN "expression" ELSE "rule"
           x == Point(q.pos, n, <<>>)
<1>1. /\ RuleFrame(c) /\ c.i \in DOMAIN Rules[c.nt][c.a]
      /\ EntryOf(c) = "VEXP" \/ IsRule(EntryOf(c))
  BY DEF Local, RuleFrame
<1>2. x.node = n /\ x.calls = <<>> /\ WatchEntry(c, x)
  BY DEF Point, Watch
<1> HIDE DEF x
<1>3. CASE c.nt = "IF"
  <2>1. IfFrame(c)
    BY <1>1, <1>3 DEF RuleFrame
  <2>2. ASSUME c.a = 1
        PROVE  \/ how = "expression" /\ c.i = 1 /\ Doomed(c.start)
               \/ how = "rule" /\ Doomed(c.start)
    <3>1. CASE c.i = 1
      <4>1. Reached(c.start, x)
        BY <1>2, <1>3, <3>1 DEF WatchEntry
      <4>2. Doomed(c.start)
        BY <1>2, <4>1, EndDecides
      <4>3. EntryOf(c) = "VEXP"
        BY <1>1, <1>3, <2>1, <3>1, IfPlaces
      <4> QED
        BY <3>1, <4>2, <4>3
    <3>2. CASE c.i # 1
      <4>1. EntryOf(c) # "VEXP" /\ IsRule(EntryOf(c))
        BY <1>1, <1>3, <2>1, <3>2, IfPlaces
      <4>2. c.i # 2
        BY <1>1, <1>3, <2>1, <2>2, <4>1, IfPlaces, EntryKinds
      <4>3. Doomed(c.start)
        BY <1>1, <1>3, <2>1, <2>2, <3>2, <4>2, IfPlaces
      <4> QED
        BY <4>1, <4>3
    <3> QED
      BY <3>1, <3>2
  <2> HIDE DEF how
  <2>3. Good(NextAlternative(c, q, how), c)
    BY <1>3, <2>2, IfFails
  <2> QED
    BY <2>3 DEF how
<1>4. CASE c.nt = "IFELSE"
  <2>1. EntryOf(c) \notin {"ELSE", "NULL", "VEXP"}
    BY <1>1, <1>4, EntryKinds, ElsePlaces DEF RuleFrame
  <2>2. how = "rule"
    BY <2>1
  <2> HIDE DEF how
  <2>3. Good(NextAlternative(c, q, how), c)
    BY <1>4, <2>2, ElseFails
  <2> QED
    BY <2>3 DEF how
<1>5. CASE c.nt \notin {"IF", "IFELSE"}
  BY <1>5, OtherFails
<1> QED
  BY <1>3, <1>4, <1>5

(* A step of any call leaves what is its own in order. *)
LEMMA RuleGood ==
    ASSUME InputTyped, NEW S, Closed(S), NEW c \in RuleFrames(S), Local(c),
           NEW q \in ParserState, NEW n \in S, Takes(c, n), Watch(c, Point(q.pos, n, <<>>))
    PROVE  Good(Step(c, q, n), c)
<1> DEFINE how == IF EntryOf(c) = "VEXP" THEN "expression" ELSE "rule"
           d == [c EXCEPT !.call = "rule", !.i = @ + 1, !.kids = Append(@, n)]
<1>1. CASE c.call = "rule"
  <2>1. Step(c, q, n) = Entry(c, q)
    BY <1>1 DEF Step
  <2> QED
    BY <1>1, <2>1, EntryGood
<1>2. CASE c.call = "entry"
  <2>1. Step(c, q, n) = AfterEntry(c, q, n)
    BY <1>2 DEF Step
  <2>2. AfterEntry(c, q, n) = IF Failed(n) THEN NextAlternative(c, q, how)
                              ELSE Continue(q, <<d>>)
    BY DEF AfterEntry, EntryOf
  <2>3. CASE Failed(n)
    <3>1. Good(NextAlternative(c, q, how), c)
      BY <1>2, <2>3, NotFoundGood
    <3> QED
      BY <2>1, <2>2, <2>3, <3>1
  <2>4. CASE ~Failed(n)
    <3>1. Good(Continue(q, <<d>>), c)
      BY <1>2, <2>4, FoundGood
    <3> QED
      BY <2>1, <2>2, <2>4, <3>1
  <2> QED
    BY <2>3, <2>4
<1> QED
  BY <1>1, <1>2 DEF RuleFrames

(* Every step of the parser keeps the order of the calls and what is in    *)
(* their frames.                                                           *)
LEMMA StepGood ==
    ASSUME InputTyped, NEW S, Closed(S), NEW c \in Frames(S), Local(c),
           NEW q \in ParserState, NEW n \in S, Takes(c, n), IfNode(n),
           Watch(c, Point(q.pos, n, <<>>))
    PROVE  Good(Step(c, q, n), c)
<1>1. CASE c \in RuleFrames(S)
  BY <1>1, RuleGood
<1>2. CASE c \in ExpressionFrames(S)
  BY <1>2, ExpressionGood
<1>3. CASE c \in [call : {"statement"}]
  <2>1. Step(c, q, n) = parser_parse_statement(q) /\ c.call = "statement"
    BY <1>3 DEF Step
  <2> QED
    BY <2>1, ParseStatementGood
<1>4. CASE c \in [call : {"made"}, t : Type]
  <2>1. Step(c, q, n) = AfterRule(c, q, n) /\ c.call = "made"
    BY <1>4 DEF Step
  <2> QED
    BY <2>1, AfterRuleGood
<1>5. CASE c \in PrintFrames(S)
  <2>1. Step(c, q, n) \in {PrintOperands(c, q), AfterChannel(c, q, n), AfterOperand(c, q, n)}
    BY <1>5 DEF Step, PrintFrames
  <2> QED
    BY <1>5, <2>1, PrintGood
<1>6. CASE c \in BodyFrames(S)
  <2>1. CASE c.call = "body"
    <3>1. Step(c, q, n) = Body(c, q)
      BY <2>1 DEF Step
    <3> QED
      BY <1>6, <2>1, <3>1, BodyGood
  <2>2. CASE c.call = "body_statement"
    <3>1. Step(c, q, n) = AfterBodyStatement(c, q, n)
      BY <2>2 DEF Step
    <3> QED
      BY <1>6, <2>2, <3>1, BodyStatementGood
  <2> QED
    BY <1>6, <2>1, <2>2 DEF BodyFrames
<1>7. CASE c \in NonTerminals
  <2>1. Step(c, q, n) = parse_nonterminal(c, q) /\ c.call = "nonterminal"
    BY <1>7 DEF Step, NonTerminals
  <2> QED
    BY <2>1, NonTerminalGood
<1> QED
  BY <1>1, <1>2, <1>3, <1>4, <1>5, <1>6, <1>7
     DEF Frames, OtherFrames, StatementFrames, PrintFrames

-----------------------------------------------------------------------------
(* What a frame further down sees of a step.                               *)

(* Stacks joined with an empty one.                                        *)
LEMMA EmptyJoin ==
    ASSUME NEW F, NEW s \in Seq(F)
    PROVE  s \o <<>> = s /\ <<>> \o s = s
  BY ConcatEmptySeq

(* The THEN part that has to fail: THEN begins no statement. *)
LEMMA LadderOn ==
    ASSUME NEW q, NEW n, NEW cs, cs # <<>>, Ladder(Point(q.pos, n, cs))
    PROVE  LET r == Step(Head(cs), q, n)
           IN  Ladder(Point(r.p.pos, r.node, r.calls \o Tail(cs)))
<1> DEFINE body == [call |-> "body", kids |-> <<>>]
           after == [call |-> "body_statement", kids |-> <<>>]
           r == Step(Head(cs), q, n)
<1>1. \/ PeekType(q) = "CTHEN" /\ cs = <<NonTerminal("IFBODY")>>
      \/ PeekType(q) = "CTHEN" /\ cs = <<body>>
      \/ PeekType(q) = "CTHEN" /\ cs = <<StatementCall, after>>
      \/ Failed(n) /\ cs = <<after>>
  BY DEF Ladder, Point, TypeAt, PeekType, Peek
<1>2. CASE PeekType(q) = "CTHEN" /\ cs = <<NonTerminal("IFBODY")>>
  <2>1. Head(cs) = NonTerminal("IFBODY") /\ Tail(cs) = <<>>
    BY <1>2
  <2>2. r = Continue(q, <<body>>)
    <3>1. r = parse_nonterminal(NonTerminal("IFBODY"), q)
      BY <2>1 DEF Step, NonTerminal
    <3>2. parse_nonterminal(NonTerminal("IFBODY"), q) = IfBody(q)
      BY DEF parse_nonterminal, NonTerminal
    <3>3. IfBody(q) = Continue(q, <<body>>)
      BY <1>2 DEF IfBody
    <3> QED
      BY <3>1, <3>2, <3>3
  <2>3. r.p = q /\ r.calls = <<body>>
    BY <2>2 DEF Continue, Does
  <2>4. r.calls \o Tail(cs) = <<body>>
    <3>1. <<body>> \in Seq({body})
      OBVIOUS
    <3> QED
      BY <2>1, <2>3, <3>1, EmptyJoin
  <2> HIDE DEF r
  <2> QED
    BY <1>2, <2>3, <2>4 DEF Ladder, Point, TypeAt, PeekType, Peek, r
<1>3. CASE PeekType(q) = "CTHEN" /\ cs = <<body>>
  <2>1. Head(cs) = body /\ Tail(cs) = <<>>
    BY <1>3
  <2>2. r = Continue(q, <<StatementCall, after>>)
    <3>1. r = Body(body, q)
      BY <2>1 DEF Step
    <3>2. [body EXCEPT !.call = "body_statement"] = after
      OBVIOUS
    <3>3. Body(body, q) = Continue(q, <<StatementCall, [body EXCEPT !.call = "body_statement"]>>)
      BY <1>3 DEF Body, EndOfLine
    <3> QED
      BY <3>1, <3>2, <3>3
  <2>3. r.p = q /\ r.calls = <<StatementCall, after>>
    BY <2>2 DEF Continue, Does
  <2>4. r.calls \o Tail(cs) = <<StatementCall, after>>
    <3>1. <<StatementCall, after>> \in Seq({StatementCall, after})
      OBVIOUS
    <3> QED
      BY <2>1, <2>3, <3>1, EmptyJoin
  <2> HIDE DEF r
  <2> QED
    BY <1>3, <2>3, <2>4 DEF Ladder, Point, TypeAt, PeekType, Peek, r
<1>4. CASE PeekType(q) = "CTHEN" /\ cs = <<StatementCall, after>>
  <2>1. Head(cs) = StatementCall /\ Tail(cs) = <<after>>
    BY <1>4
  <2>2. r = Fail(Advance(q))
    <3>1. r = parser_parse_statement(q)
      BY <2>1 DEF Step, StatementCall
    <3>2. "CTHEN" \notin DOMAIN StatementRule
      BY GrammarAssumption
    <3> QED
      BY <1>4, <3>1, <3>2 DEF parser_parse_statement, EndOfStatement, EndOfLine
  <2>3. r.node = NoNode /\ r.calls = <<>>
    BY <2>2 DEF Fail, Return, Does
  <2>4. r.calls \o Tail(cs) = <<after>>
    <3>1. <<after>> \in Seq({after})
      OBVIOUS
    <3> QED
      BY <2>1, <2>3, <3>1, EmptyJoin
  <2> HIDE DEF r
  <2> QED
    BY <2>3, <2>4 DEF Ladder, Point, Failed, r
<1>5. CASE Failed(n) /\ cs = <<after>>
  <2>1. Head(cs) = after /\ Tail(cs) = <<>>
    BY <1>5
  <2>2. r = Return(NoNode, q)
    <3>1. r = AfterBodyStatement(after, q, n)
      BY <2>1 DEF Step
    <3> QED
      BY <1>5, <3>1 DEF AfterBodyStatement
  <2>3. r.node = NoNode /\ r.calls = <<>>
    BY <2>2 DEF Return, Does
  <2>4. r.calls \o Tail(cs) = <<>>
    BY <2>1, <2>3
  <2> HIDE DEF r
  <2> QED
    BY <2>3, <2>4 DEF Ladder, Point, Failed, r
<1> QED
  BY <1>1, <1>2, <1>3, <1>4, <1>5

(* The run of the condition goes on. *)
LEMMA ConditionOn ==
    ASSUME InputTyped, NEW S, Closed(S), NEW q \in ParserState, NEW n \in S, IfNode(n),
           NEW cs \in Seq(Frames(S)), cs # <<>>, Takes(Head(cs), n),
           NEW start, Reached(start, Point(q.pos, n, cs)),
           \A k \in 1..Len(cs) : cs[k].call \in ExpressionCalls
    PROVE  LET r == Step(Head(cs), q, n)
               s == r.calls \o Tail(cs)
           IN  /\ Reached(start, Point(r.p.pos, r.node, s))
               /\ \A k \in 1..Len(s) : s[k].call \in ExpressionCalls
<1> DEFINE c == Head(cs)
           r == Step(c, q, n)
           s == r.calls \o Tail(cs)
           x == Point(q.pos, n, cs)
<1>1. /\ c \in Frames(S) /\ c = cs[1] /\ Tail(cs) \in Seq(Frames(S))
      /\ Len(Tail(cs)) = Len(cs) - 1
      /\ \A k \in 1..Len(Tail(cs)) : Tail(cs)[k] = cs[k + 1]
      /\ Len(cs) \in Nat /\ Len(cs) >= 1
  OBVIOUS
<1>2. c.call \in ExpressionCalls
  BY <1>1
<1> HIDE DEF c
<1>3. c \in ExpressionFrames(S)
  BY <1>1, <1>2
     DEF Frames, RuleFrames, OtherFrames, StatementFrames, BodyFrames, NonTerminals,
         ExpressionCalls
<1>4. /\ \A k \in 1..Len(r.calls) : r.calls[k].call \in ExpressionCalls
      /\ r.calls \in Seq(ExpressionFrames(S))
  BY <1>3, ExpressionGood, StepExpressions DEF Quiet, c
<1>5. Reached(start, Point(r.p.pos, r.node, s))
  <2>1. At(q.pos) \in ParserState /\ Alike(q, At(q.pos))
    BY InputAssumption DEF At, ParserState, Alike
  <2>2. Same(r, Step(c, At(q.pos), n))
    BY <1>2, <2>1, StepSame
  <2>3. x.pos = q.pos /\ x.node = n /\ x.calls = cs
    BY DEF Point
  <2>4. Following(x) = Point(r.p.pos, r.node, s)
    BY <2>2, <2>3 DEF Following, Same, Alike, c
  <2>5. Reached(start, Following(x))
    <3>1. q.pos \in 1..(Len(tokens) + 1)
      BY DEF ParserState
    <3> QED
      BY <1>2, <2>3, <3>1, ReachedOn DEF c
  <2> QED
    BY <2>4, <2>5
<1>6. \A k \in 1..Len(s) : s[k].call \in ExpressionCalls
  <2> HIDE DEF r
  <2>1. r.calls \in Seq(Frames(S))
    <3>1. ExpressionFrames(S) \subseteq Frames(S)
      BY DEF Frames, OtherFrames
    <3> QED
      BY <1>4, <3>1, SeqMonotonic
  <2>2. /\ Len(s) = Len(r.calls) + Len(Tail(cs))
        /\ \A k \in 1..(Len(r.calls) + Len(Tail(cs))) :
              s[k] = IF k <= Len(r.calls) THEN r.calls[k] ELSE Tail(cs)[k - Len(r.calls)]
    BY <1>1, <2>1, ConcatProperties
  <2> HIDE DEF s
  <2> SUFFICES ASSUME NEW k \in 1..Len(s) PROVE s[k].call \in ExpressionCalls
    OBVIOUS
  <2>3. Len(r.calls) \in Nat /\ Len(Tail(cs)) \in Nat
    BY <1>1, <2>1
  <2>4. CASE k <= Len(r.calls)
    <3>1. k \in 1..Len(r.calls) /\ s[k] = r.calls[k]
      BY <2>2, <2>3, <2>4
    <3> QED
      BY <1>4, <3>1
  <2>5. CASE ~(k <= Len(r.calls))
    <3>1. k - Len(r.calls) \in 1..Len(Tail(cs)) /\ s[k] = Tail(cs)[k - Len(r.calls)]
      BY <2>2, <2>3, <2>5
    <3>2. PICK m \in 1..Len(Tail(cs)) : s[k] = Tail(cs)[m]
      BY <3>1
    <3>3. s[k] = cs[m + 1]
      BY <1>1, <3>2
    <3>4. m + 1 \in 1..Len(cs)
      BY <1>1
    <3> QED
      BY <3>3, <3>4
  <2> QED
    BY <2>4, <2>5
<1> QED
  BY <1>5, <1>6 DEF c

(* A step keeps what is known of a frame further down the stack.           *)
LEMMA WatchOn ==
    ASSUME InputTyped, NEW S, Closed(S), NEW q \in ParserState, NEW n \in S, IfNode(n),
           NEW cs \in Seq(Frames(S)), cs # <<>>, Takes(Head(cs), n),
           NEW d, d.call # "rule", Watch(d, Point(q.pos, n, cs))
    PROVE  LET r == Step(Head(cs), q, n)
           IN  Watch(d, Point(r.p.pos, r.node, r.calls \o Tail(cs)))
<1> DEFINE r == Step(Head(cs), q, n)
           s == r.calls \o Tail(cs)
           x == Point(q.pos, n, cs)
           y == Point(r.p.pos, r.node, s)
<1> HIDE DEF r
<1>1. x.calls = cs /\ y.calls = s
  BY DEF Point
<1>2. WatchEntry(d, x)
  BY DEF Watch
<1>3. WatchEntry(d, y)
  <2> SUFFICES ASSUME d.call = "entry", d.nt = "IF"
               PROVE  /\ d.i = 1 => /\ Reached(d.start, y)
                                    /\ \A k \in 1..Len(s) : s[k].call \in ExpressionCalls
                      /\ Tainted(d) /\ d.i = 2 => Ladder(y)
    BY <1>1 DEF WatchEntry
  <2>1. ASSUME d.i = 1
        PROVE  Reached(d.start, y) /\ \A k \in 1..Len(s) : s[k].call \in ExpressionCalls
    <3>1. Reached(d.start, x) /\ \A k \in 1..Len(cs) : cs[k].call \in ExpressionCalls
      BY <1>1, <1>2, <2>1 DEF WatchEntry
    <3> QED
      BY <3>1, ConditionOn DEF r
  <2>2. ASSUME Tainted(d), d.i = 2 PROVE Ladder(y)
    <3>1. Ladder(x)
      BY <1>2, <2>2 DEF WatchEntry
    <3> QED
      BY <3>1, LadderOn DEF r
  <2> QED
    BY <2>1, <2>2
<1> QED
  BY <1>3 DEF Watch, WatchRule, r

-----------------------------------------------------------------------------
(* The stack after a step.                                                 *)

(* The part of two joined stacks above a frame of the first. *)
LEMMA AboveFirst ==
    ASSUME NEW F, NEW u \in Seq(F), NEW t \in Seq(F), NEW k \in 1..Len(u)
    PROVE  SubSeq(u \o t, 1, k - 1) = SubSeq(u, 1, k - 1)
<1> DEFINE s == u \o t
<1>1. /\ s \in Seq(F) /\ Len(s) = Len(u) + Len(t)
      /\ \A i \in 1..(Len(u) + Len(t)) : s[i] = IF i <= Len(u) THEN u[i] ELSE t[i - Len(u)]
  BY ConcatProperties
<1>2. Len(u) \in Nat /\ Len(t) \in Nat /\ k \in Nat /\ k - 1 \in Int /\ 1 \in Int
  OBVIOUS
<1> HIDE DEF s
<1>3. \A i \in 1..(k - 1) : s[i] = u[i] /\ i \in 1..Len(u) /\ i \in 1..Len(s)
  BY <1>1, <1>2
<1>4. \A i \in 1..(k - 1) : s[i] \in F /\ u[i] \in F
  BY <1>1, <1>3, ElementOfSeq
<1>5. /\ SubSeq(s, 1, k - 1) \in Seq(F)
      /\ Len(SubSeq(s, 1, k - 1)) = IF 1 <= k - 1 THEN (k - 1) - 1 + 1 ELSE 0
      /\ \A i \in 1..((k - 1) - 1 + 1) : SubSeq(s, 1, k - 1)[i] = s[1 + i - 1]
  BY <1>2, <1>4, SubSeqProperties
<1>6. /\ SubSeq(u, 1, k - 1) \in Seq(F)
      /\ Len(SubSeq(u, 1, k - 1)) = IF 1 <= k - 1 THEN (k - 1) - 1 + 1 ELSE 0
      /\ \A i \in 1..((k - 1) - 1 + 1) : SubSeq(u, 1, k - 1)[i] = u[1 + i - 1]
  BY <1>2, <1>4, SubSeqProperties
<1>7. ASSUME NEW i \in 1..Len(SubSeq(s, 1, k - 1))
      PROVE  SubSeq(s, 1, k - 1)[i] = SubSeq(u, 1, k - 1)[i]
  <2>1. i \in 1..(k - 1) /\ i \in 1..((k - 1) - 1 + 1) /\ 1 + i - 1 = i
    BY <1>2, <1>5
  <2>2. SubSeq(s, 1, k - 1)[i] = s[i] /\ SubSeq(u, 1, k - 1)[i] = u[i]
    BY <1>5, <1>6, <2>1
  <2> QED
    BY <1>3, <2>1, <2>2
<1>8. SubSeq(s, 1, k - 1) = SubSeq(u, 1, k - 1)
  BY <1>5, <1>6, <1>7, SeqEqual
<1> QED
  BY <1>8 DEF s

(* The frames above one of a stack, from the top. *)
LEMMA AboveFront ==
    ASSUME NEW F, NEW cs \in Seq(F), NEW m \in 1..(Len(cs) - 1)
    PROVE  /\ SubSeq(cs, 1, m) \in Seq(F) /\ Len(SubSeq(cs, 1, m)) = m
           /\ \A i \in 1..m : SubSeq(cs, 1, m)[i] = cs[i]
           /\ SubSeq(cs, 1, m) # <<>> /\ Head(SubSeq(cs, 1, m)) = Head(cs)
<1> DEFINE v == SubSeq(cs, 1, m)
<1>3. Len(cs) \in Nat /\ m \in Nat /\ m >= 1 /\ m \in Int /\ 1 \in Int
  OBVIOUS
<1>1. cs # <<>> /\ Head(cs) = cs[1]
  OBVIOUS
<1>4. /\ v \in Seq(F) /\ Len(v) = m
      /\ \A i \in 1..m : v[i] = cs[i]
  <2>1. \A i \in 1..m : i \in 1..Len(cs)
    BY <1>3
  <2>2. \A i \in 1..m : cs[i] \in F
    BY <2>1, ElementOfSeq
  <2>3. /\ v \in Seq(F) /\ Len(v) = IF 1 <= m THEN m - 1 + 1 ELSE 0
        /\ \A i \in 1..(m - 1 + 1) : v[i] = cs[1 + i - 1]
    BY <1>3, <2>2, SubSeqProperties
  <2> HIDE DEF v
  <2>4. Len(v) = m /\ m - 1 + 1 = m /\ \A i \in 1..m : 1 + i - 1 = i
    BY <1>3, <2>3
  <2> QED
    BY <2>3, <2>4
<1> HIDE DEF v
<1>5. v # <<>> /\ Head(v) = Head(cs)
  <2>1. Len(v) # 0 /\ 1 \in 1..m
    BY <1>3, <1>4
  <2>2. v # <<>> /\ Head(v) = v[1]
    BY <1>4, <2>1
  <2> QED
    BY <1>1, <1>4, <2>1, <2>2
<1> QED
  BY <1>4, <1>5 DEF v

(* The frames above one of the second of two joined stacks.                *)
LEMMA AboveSecond ==
    ASSUME NEW F, NEW u \in Seq(F), NEW cs \in Seq(F), NEW m \in 1..(Len(cs) - 1)
    PROVE  SubSeq(u \o Tail(cs), 1, Len(u) + m - 1) = u \o Tail(SubSeq(cs, 1, m))
<1> DEFINE t == Tail(cs)
           s == u \o t
           v == SubSeq(cs, 1, m)
           w == Tail(v)
           k == Len(u) + m - 1
<1>1. /\ cs # <<>> /\ t \in Seq(F) /\ Len(t) = Len(cs) - 1
      /\ \A i \in 1..Len(t) : t[i] = cs[i + 1]
      /\ Head(cs) = cs[1]
  OBVIOUS
<1> HIDE DEF t
<1>2. /\ s \in Seq(F) /\ Len(s) = Len(u) + Len(t)
      /\ \A i \in 1..(Len(u) + Len(t)) : s[i] = IF i <= Len(u) THEN u[i] ELSE t[i - Len(u)]
  BY <1>1, ConcatProperties
<1>3. Len(u) \in Nat /\ Len(cs) \in Nat /\ m \in Nat /\ m >= 1 /\ m \in Int /\ 1 \in Int
  OBVIOUS
<1>4. /\ v \in Seq(F) /\ Len(v) = m /\ v # <<>>
      /\ \A i \in 1..m : v[i] = cs[i]
  BY AboveFront
<1> HIDE DEF v, s
<1>6. /\ w \in Seq(F) /\ Len(w) = m - 1
      /\ \A i \in 1..(m - 1) : w[i] = v[i + 1]
  BY <1>4
<1> HIDE DEF w
<1>7. /\ u \o w \in Seq(F) /\ Len(u \o w) = Len(u) + Len(w)
      /\ \A i \in 1..(Len(u) + Len(w)) :
            (u \o w)[i] = IF i <= Len(u) THEN u[i] ELSE w[i - Len(u)]
  BY <1>6, ConcatProperties
<1>8. k \in Nat /\ k = Len(u) + Len(w) /\ k <= Len(s) /\ k \in Int
  BY <1>1, <1>2, <1>3, <1>6
<1> HIDE DEF k
<1>9. /\ SubSeq(s, 1, k) \in Seq(F) /\ Len(SubSeq(s, 1, k)) = k
      /\ \A i \in 1..k : SubSeq(s, 1, k)[i] = s[i]
  <2>1. \A i \in 1..k : i \in 1..Len(s)
    BY <1>2, <1>8
  <2>2. \A i \in 1..k : s[i] \in F
    BY <1>2, <2>1, ElementOfSeq
  <2>3. /\ SubSeq(s, 1, k) \in Seq(F)
        /\ Len(SubSeq(s, 1, k)) = IF 1 <= k THEN k - 1 + 1 ELSE 0
        /\ \A i \in 1..(k - 1 + 1) : SubSeq(s, 1, k)[i] = s[1 + i - 1]
    BY <1>3, <1>8, <2>2, SubSeqProperties
  <2>4. k - 1 + 1 = k /\ (~(1 <= k) => k = 0) /\ \A i \in 1..k : 1 + i - 1 = i
    BY <1>8
  <2> QED
    BY <2>3, <2>4
<1>10. ASSUME NEW i \in 1..k PROVE SubSeq(s, 1, k)[i] = (u \o w)[i]
  <2>1. CASE i <= Len(u)
    <3>1. s[i] = u[i]
      BY <1>1, <1>2, <1>3, <2>1
    <3>2. (u \o w)[i] = u[i]
      BY <1>7, <1>8, <2>1
    <3> QED
      BY <1>9, <3>1, <3>2
  <2>2. CASE ~(i <= Len(u))
    <3>1. PICK j \in 1..(m - 1) : j = i - Len(u)
      <4>1. i \in Nat /\ i <= Len(u) + (m - 1)
        BY <1>6, <1>8
      <4>2. i - Len(u) \in 1..(m - 1)
        BY <1>3, <2>2, <4>1
      <4> QED
        BY <4>2
    <3>2. s[i] = t[j]
      <4>1. i \in 1..(Len(u) + Len(t))
        BY <1>2, <1>8
      <4>2. s[i] = t[i - Len(u)]
        BY <1>2, <2>2, <4>1
      <4> QED
        BY <3>1, <4>2
    <3>3. j \in 1..Len(t) /\ j + 1 \in 1..m
      BY <1>1, <1>3
    <3>4. t[j] = cs[j + 1] /\ w[j] = v[j + 1] /\ v[j + 1] = cs[j + 1]
      BY <1>1, <1>4, <1>6, <3>3
    <3>5. (u \o w)[i] = w[j]
      BY <1>7, <1>8, <2>2, <3>1
    <3> QED
      BY <1>9, <3>2, <3>4, <3>5
  <2> QED
    BY <2>1, <2>2
<1>11. SubSeq(s, 1, k) = u \o w
  BY <1>7, <1>8, <1>9, <1>10, SeqEqual
<1> QED
  BY <1>11 DEF s, t, v, w, k

(* A call that is answered waits for one kind of node. *)
LEMMA WaitsOnce ==
    ASSUME NEW d
    PROVE  /\ ~(WaitsForExpression(d) /\ WaitsForRule(d))
           /\ WaitsForExpression(d) \/ WaitsForRule(d) => d.call # "rule"
  BY DEF WaitsForExpression, WaitsForRule, ExpressionCalls

(* A step of the call on top keeps the whole stack in order.               *)
LEMMA StackOn ==
    ASSUME InputTyped, NEW S, Closed(S), NEW q \in ParserState, NEW n \in S, IfNode(n),
           NEW cs \in Seq(Frames(S)), cs # <<>>, InOrder(q.pos, n, cs),
           Opens(<<Head(cs)>>) <= q.depth
    PROVE  LET r == Step(Head(cs), q, n)
           IN  IfNode(r.node) /\ InOrder(r.p.pos, r.node, r.calls \o Tail(cs))
<1> DEFINE c == Head(cs)
           t == Tail(cs)
           r == Step(c, q, n)
           s == r.calls \o t
<1>1. /\ c \in Frames(S) /\ c = cs[1] /\ t \in Seq(Frames(S))
      /\ Len(t) = Len(cs) - 1
      /\ \A k \in 1..Len(t) : t[k] = cs[k + 1]
      /\ Len(cs) \in Nat /\ Len(cs) >= 1
  OBVIOUS
<1>2. Local(c) /\ Watch(c, Point(q.pos, n, <<>>)) /\ Takes(c, n)
  <2>1. 1 \in 1..Len(cs) /\ 1 - 1 = 0
    BY <1>1
  <2>2. SubSeq(cs, 1, 0) = <<>>
    OBVIOUS
  <2> QED
    BY <1>1, <2>1, <2>2 DEF InOrder
<1>3. Good(r, c) /\ Acts(r, c, q, S)
  BY <1>1, <1>2, StepGood, StepActs
<1> HIDE DEF r
<1>4. r.calls \in Seq(Frames(S)) /\ Len(r.calls) \in Nat
  BY <1>3 DEF Acts
<1> DEFINE L == Len(r.calls)
<1> HIDE DEF c, t
<1>5. /\ s \in Seq(Frames(S)) /\ Len(s) = L + Len(t)
      /\ \A i \in 1..(L + Len(t)) : s[i] = IF i <= L THEN r.calls[i] ELSE t[i - L]
  BY <1>1, <1>4, ConcatProperties
<1>6. /\ \A i \in 1..L : s[i] = r.calls[i]
      /\ \A m \in 1..Len(t) : s[L + m] = cs[m + 1]
  <2>1. ASSUME NEW i \in 1..L PROVE s[i] = r.calls[i]
    <3>1. i \in 1..(L + Len(t)) /\ i <= L
      BY <1>1, <1>4
    <3> QED
      BY <1>5, <3>1
  <2>2. ASSUME NEW m \in 1..Len(t) PROVE s[L + m] = cs[m + 1]
    <3>1. L + m \in 1..(L + Len(t)) /\ ~(L + m <= L) /\ (L + m) - L = m
      BY <1>1, <1>4
    <3> QED
      BY <1>1, <1>5, <3>1
  <2> QED
    BY <2>1, <2>2
<1> HIDE DEF s
<1>7. /\ IfNode(r.node)
      /\ L = 0 => Gives(c, r.node)
      /\ L # 0 => /\ Takes(r.calls[1], r.node)
                  /\ \A k \in 1..(L - 1) : Answers(r.calls[k], r.calls[k + 1])
                  /\ InPlace(r.calls[L], c)
  <2>1. L = 0 <=> r.calls = <<>>
    BY <1>4
  <2> QED
    BY <1>3, <2>1 DEF Good, Fine
<1>8. /\ \A j \in 1..(Len(cs) - 1) : Answers(cs[j], cs[j + 1])
      /\ \A j \in 1..Len(cs) : Local(cs[j]) /\ Watch(cs[j], Point(q.pos, n, SubSeq(cs, 1, j - 1)))
  BY DEF InOrder
<1>9. \A j \in 1..(Len(s) - 1) : Answers(s[j], s[j + 1])
  <2> SUFFICES ASSUME NEW j \in 1..(Len(s) - 1) PROVE Answers(s[j], s[j + 1])
    OBVIOUS
  <2>1. CASE j < L
    <3>1. j \in 1..L /\ j + 1 \in 1..L /\ j \in 1..(L - 1) /\ L # 0
      BY <1>4, <2>1
    <3> QED
      BY <1>6, <1>7, <3>1
  <2>2. CASE j = L
    <3>1. L \in 1..L /\ L # 0 /\ 1 \in 1..Len(t) /\ 1 \in 1..(Len(cs) - 1)
      BY <1>1, <1>4, <1>5, <2>2
    <3>2. s[j] = r.calls[L] /\ s[j + 1] = cs[2]
      <4>1. s[L] = r.calls[L] /\ s[L + 1] = cs[1 + 1]
        BY <1>6, <3>1
      <4>2. s[L + 1] = s[j + 1] /\ cs[1 + 1] = cs[2]
        BY <2>2
      <4> QED
        BY <2>2, <4>1, <4>2
    <3>3. Answers(c, cs[2]) /\ InPlace(r.calls[L], c)
      BY <1>1, <1>7, <1>8, <3>1
    <3>4. Answers(r.calls[L], cs[2])
      BY <3>3 DEF Answers, InPlace
    <3> QED
      BY <3>2, <3>4
  <2>3. CASE j > L
    <3>1. PICK m \in 1..(Len(t) - 1) : j = L + m
      <4>1. j - L \in 1..(Len(t) - 1) /\ j = L + (j - L)
        BY <1>1, <1>4, <1>5, <2>3
      <4> QED
        BY <4>1
    <3>2. m \in 1..Len(t) /\ m + 1 \in 1..Len(t) /\ m + 1 \in 1..(Len(cs) - 1)
          /\ j + 1 = L + (m + 1)
      <4>1. Len(t) \in Nat /\ m \in Nat /\ L \in Nat
        BY <1>1, <1>4
      <4>2. m >= 1 /\ m <= Len(t) - 1
        BY <1>1, <4>1
      <4>3. m + 1 >= 1 /\ m + 1 <= Len(t)
        BY <4>1, <4>2
      <4> HIDE DEF L
      <4>4. j + 1 = L + (m + 1)
        BY ONLY <3>1, <4>1
      <4> QED
        BY <1>1, <4>1, <4>2, <4>3, <4>4
    <3>3. s[j] = cs[m + 1] /\ s[j + 1] = cs[(m + 1) + 1]
      BY <1>6, <3>1, <3>2
    <3> QED
      BY <1>8, <3>2, <3>3
  <2> QED
    BY <1>1, <1>4, <1>5, <2>1, <2>2, <2>3
<1>10. s # <<>> => Takes(s[1], r.node)
  <2> SUFFICES ASSUME s # <<>> PROVE Takes(s[1], r.node)
    OBVIOUS
  <2>1. CASE L # 0
    <3>1. 1 \in 1..L
      BY <1>4, <2>1
    <3> QED
      BY <1>6, <1>7, <2>1, <3>1
  <2>2. CASE L = 0
    <3>1. 1 \in 1..Len(t) /\ 1 \in 1..(Len(cs) - 1)
      <4>1. Len(s) # 0
        BY <1>5
      <4> QED
        BY <1>1, <1>5, <2>2, <4>1
    <3>2. s[1] = cs[2]
      BY <1>6, <2>2, <3>1
    <3>3. Gives(c, r.node) /\ Answers(c, cs[2])
      BY <1>1, <1>7, <1>8, <2>2, <3>1
    <3>4. Takes(cs[2], r.node)
      BY <3>3, WaitsOnce DEF Takes, Gives, Answers
    <3> QED
      BY <3>2, <3>4
  <2> QED
    BY <2>1, <2>2
<1>11. ASSUME NEW j \in 1..Len(s)
       PROVE  Local(s[j]) /\ Watch(s[j], Point(r.p.pos, r.node, SubSeq(s, 1, j - 1)))
  <2>1. CASE j <= L
    <3>1. j \in 1..L
      BY <1>4, <2>1
    <3>2. SubSeq(s, 1, j - 1) = SubSeq(r.calls, 1, j - 1)
      BY <1>1, <1>4, <3>1, AboveFirst DEF s
    <3>3. /\ Local(r.calls[j])
          /\ Watch(r.calls[j], Point(r.p.pos, r.node, SubSeq(r.calls, 1, j - 1)))
      BY <1>3, <3>1 DEF Good
    <3> QED
      BY <1>6, <3>1, <3>2, <3>3
  <2>2. CASE j > L
    <3>1. PICK m \in 1..Len(t) : j = L + m
      <4>1. j - L \in 1..Len(t) /\ j = L + (j - L)
        BY <1>1, <1>4, <1>5, <2>2
      <4> QED
        BY <4>1
    <3>2. m \in 1..(Len(cs) - 1) /\ m + 1 \in 1..Len(cs) /\ (m + 1) - 1 = m
      BY <1>1
    <3>3. s[j] = cs[m + 1]
      BY <1>6, <3>1
    <3> DEFINE v == SubSeq(cs, 1, m)
    <3>4. /\ SubSeq(s, 1, j - 1) = r.calls \o Tail(v)
          /\ v \in Seq(Frames(S)) /\ v # <<>> /\ Head(v) = c
      <4>1. j - 1 = Len(r.calls) + m - 1
        BY <1>4, <3>1
      <4>2. r.calls \in Seq(Frames(S)) /\ cs \in Seq(Frames(S)) /\ m \in 1..(Len(cs) - 1)
        BY <1>4, <3>2
      <4>3. /\ SubSeq(r.calls \o Tail(cs), 1, Len(r.calls) + m - 1)
                = r.calls \o Tail(SubSeq(cs, 1, m))
            /\ SubSeq(cs, 1, m) \in Seq(Frames(S)) /\ SubSeq(cs, 1, m) # <<>>
            /\ Head(SubSeq(cs, 1, m)) = Head(cs)
        <5> DEFINE u == r.calls
                   F == Frames(S)
        <5> HIDE DEF u, F
        <5>1. u \in Seq(F) /\ cs \in Seq(F) /\ m \in 1..(Len(cs) - 1)
          BY <4>2 DEF u, F
        <5>2. SubSeq(u \o Tail(cs), 1, Len(u) + m - 1) = u \o Tail(SubSeq(cs, 1, m))
          BY ONLY <5>1, AboveSecond
        <5>3. /\ SubSeq(cs, 1, m) \in Seq(F) /\ SubSeq(cs, 1, m) # <<>>
              /\ Head(SubSeq(cs, 1, m)) = Head(cs)
          BY ONLY <5>1, AboveFront
        <5> QED
          BY <5>2, <5>3 DEF u, F
      <4>4. s = r.calls \o Tail(cs) /\ c = Head(cs)
        BY DEF s, t, c
      <4> QED
        BY <4>1, <4>3, <4>4
    <3> HIDE DEF v
    <3>5. Local(cs[m + 1]) /\ Watch(cs[m + 1], Point(q.pos, n, v))
      BY <1>8, <3>2 DEF v
    <3>6. cs[m + 1].call # "rule"
      <4>1. Answers(cs[m], cs[m + 1])
        BY <1>8, <3>2
      <4> QED
        BY <4>1, WaitsOnce DEF Answers
    <3>7. Watch(cs[m + 1], Point(r.p.pos, r.node, r.calls \o Tail(v)))
      BY <1>2, <3>4, <3>5, <3>6, WatchOn DEF r
    <3> QED
      BY <3>3, <3>4, <3>5, <3>7
  <2> QED
    BY <1>4, <1>5, <2>1, <2>2
<1>12. IfNode(r.node) /\ InOrder(r.p.pos, r.node, s)
  BY <1>7, <1>9, <1>10, <1>11 DEF InOrder
<1> QED
  BY <1>12 DEF c, t, r, s

-----------------------------------------------------------------------------
(* What is in the frames is only about the state through the tokens, and   *)
(* they do not change.                                                     *)
LEMMA LocalKept ==
    ASSUME tokens' = tokens, NEW CONSTANT c
    PROVE  Local(c)' <=> Local(c)
<1>1. Doomed(c.start)' <=> Doomed(c.start)
  BY ReachedKept
<1>2. Orderly(c)' <=> Orderly(c)
  BY <1>1 DEF Orderly
<1>3. IfFrame(c)' <=> IfFrame(c)
  BY <1>1, <1>2 DEF IfFrame
<1>4. RuleFrame(c)' <=> RuleFrame(c)
  BY <1>3 DEF RuleFrame
<1> QED
  BY <1>4 DEF Local

(* The same for what is between a rule and the place that has been         *)
(* reached.                                                                *)
LEMMA WatchKept ==
    ASSUME tokens' = tokens, NEW CONSTANT c, NEW CONSTANT x
    PROVE  Watch(c, x)' <=> Watch(c, x)
<1> DEFINE y == Point(x.pos, c.kids[1], <<>>)
<1>1. /\ Reached(c.start, x)' <=> Reached(c.start, x)
      /\ Reached(c.start, y)' <=> Reached(c.start, y)
  BY ReachedKept
<1>2. TypeAt(x.pos)' = TypeAt(x.pos)
  BY TypeKept
<1>3. Ladder(x)' <=> Ladder(x)
  BY <1>2 DEF Ladder
<1>4. WatchEntry(c, x)' <=> WatchEntry(c, x)
  BY <1>1, <1>3 DEF WatchEntry
<1>5. WatchRule(c, x)' <=> WatchRule(c, x)
  BY <1>1, <1>2 DEF WatchRule
<1> QED
  BY <1>4, <1>5 DEF Watch

(* And for the whole stack.                                                *)
LEMMA InOrderKept ==
    ASSUME tokens' = tokens, NEW CONSTANT pos, NEW CONSTANT n, NEW CONSTANT cs
    PROVE  InOrder(pos, n, cs)' <=> InOrder(pos, n, cs)
<1>1. ASSUME NEW CONSTANT j
      PROVE  /\ Local(cs[j])' <=> Local(cs[j])
             /\ Watch(cs[j], Point(pos, n, SubSeq(cs, 1, j - 1)))'
                    <=> Watch(cs[j], Point(pos, n, SubSeq(cs, 1, j - 1)))
  BY LocalKept, WatchKept
<1> QED
  BY <1>1 DEF InOrder

(* So what holds of the next state's stack, with the tokens of this one,   *)
(* holds in the next state.                                                *)
LEMMA InOrderNext ==
    ASSUME tokens' = tokens, IfNode(node'), InOrder(p'.pos, node', calls')
    PROVE  IfInv'
<1>1. PICK q, n, cs : q = p' /\ n = node' /\ cs = calls'
  OBVIOUS
<1>2. InOrder(q.pos, n, cs)'
  BY <1>1, InOrderKept
<1>3. InOrder(p.pos, node, calls)'
  BY <1>1, <1>2
<1> QED
  BY <1>3 DEF IfInv

(* A step of the parser within a statement.                                *)
LEMMA ParseStatementIf == ASSUME ParserIInv, IfInv, ParseStatement PROVE IfInv'
<1> DEFINE r == Step(Head(calls), p, node)
<1>1. /\ phase = "statement" /\ calls # <<>> /\ tokens' = tokens
      /\ p' = r.p /\ node' = r.node /\ calls' = r.calls \o Tail(calls)
  BY DEF ParseStatement
<1>2. InputTyped /\ p \in ParserState /\ Opens(calls) <= p.depth /\ p.depth \in Nat
  BY DEF ParserIInv, StateTyped, ParserState
<1>3. PICK S : Closed(S) /\ node \in S /\ StackTyped(S)
  BY DEF ParserIInv, StateTyped, TreesTyped
<1>4. calls \in Seq(Frames(S))
  BY <1>1, <1>3 DEF StackTyped
<1>5. Opens(<<Head(calls)>>) <= p.depth
  <2> DEFINE c == Head(calls)
             rest == Tail(calls)
  <2>1. /\ <<c>> \in Seq(Frames(S)) /\ rest \in Seq(Frames(S))
        /\ calls = <<c>> \o rest
    BY <1>1, <1>4, HeadAndTail
  <2> HIDE DEF c, rest
  <2>2. /\ Opens(calls) = Opens(<<c>>) + Opens(rest)
        /\ Opens(<<c>>) \in Nat /\ Opens(rest) \in Nat
    BY <2>1, OpensJoin, OpensNat
  <2>3. Opens(<<c>>) <= p.depth
    BY <1>2, <2>2
  <2> QED
    BY <2>3 DEF c
<1>6. IfNode(node) /\ InOrder(p.pos, node, calls)
  BY <1>1 DEF IfInv
<1>7. IfNode(r.node) /\ InOrder(r.p.pos, r.node, r.calls \o Tail(calls))
  BY <1>1, <1>2, <1>3, <1>4, <1>5, <1>6, StackOn
<1> HIDE DEF r
<1> QED
  BY <1>1, <1>7, InOrderNext

(* A statement begins with one call, above which there is nothing.         *)
LEMMA BeginStatementIf == ASSUME ParserIInv, IfInv, BeginStatement PROVE IfInv'
<1>1. /\ calls' = <<StatementCall>> /\ tokens' = tokens /\ p' = p /\ node' = node
      /\ IfNode(node)
  BY DEF BeginStatement, IfInv
<1>2. StatementCall.call = "statement"
  BY DEF StatementCall
<1>3. /\ Local(StatementCall) /\ \A x : Watch(StatementCall, x)
      /\ \A n : Takes(StatementCall, n)
  BY <1>2 DEF Local, Watch, WatchEntry, WatchRule, Takes, WaitsForExpression, WaitsForRule,
              ExpressionCalls
<1>4. \A pos, n : InOrder(pos, n, <<StatementCall>>)
  <2> DEFINE cs == <<StatementCall>>
  <2>1. Len(cs) = 1 /\ cs[1] = StatementCall
    OBVIOUS
  <2> HIDE DEF cs
  <2>2. \A j \in 1..(Len(cs) - 1) : FALSE
    BY <2>1
  <2>3. \A j \in 1..Len(cs) : cs[j] = StatementCall
    BY <2>1
  <2>4. \A pos, n : InOrder(pos, n, cs)
    BY <1>3, <2>1, <2>2, <2>3 DEF InOrder
  <2> QED
    BY <2>4 DEF cs
<1> QED
  BY <1>1, <1>4, InOrderNext

(* Outside a statement there is only the last node to speak of.            *)
LEMMA OtherwiseIf ==
    ASSUME IfInv, node' \in {node, NoNode}, phase' # "statement"
    PROVE  IfInv'
<1>1. IfNode(node)'
  BY NoNodeTaken DEF IfInv, IfNode, IfParts, IsCondition, IsBody, IsElse
<1> QED
  BY <1>1 DEF IfInv

(* The invariant that the parts of an IF rest on. *)
THEOREM IfInvariant == ParserSpec => [](ParserIInv /\ IfInv)
<1>1. ParserInit => IfInv
  BY NoNodeTaken DEF ParserInit, IfInv
<1>2. ASSUME ParserIInv, IfInv, [ParserNext]_parserVars
      PROVE  IfInv'
  <2>1. CASE SkipEmptyLine
    BY <1>2, <2>1, OtherwiseIf DEF SkipEmptyLine, OnLine
  <2>2. CASE RejectLine
    BY <1>2, <2>2, OtherwiseIf DEF RejectLine, Recover
  <2>3. CASE BeginLine
    BY <1>2, <2>3, OtherwiseIf DEF BeginLine, Recover
  <2>4. CASE EndLine
    BY <1>2, <2>4, OtherwiseIf DEF EndLine
  <2>5. CASE SkipColon
    BY <1>2, <2>5, OtherwiseIf DEF SkipColon, WithinLine
  <2>6. CASE BeginStatement
    BY <1>2, <2>6, BeginStatementIf
  <2>7. CASE ParseStatement
    BY <1>2, <2>7, ParseStatementIf
  <2>8. CASE EndStatement
    BY <1>2, <2>8, OtherwiseIf DEF EndStatement, Recover
  <2>9. CASE Finish
    BY <1>2, <2>9, OtherwiseIf DEF Finish
  <2>10. CASE ValidateNode
    BY <1>2, <2>10, OtherwiseIf DEF ValidateNode
  <2>11. CASE EndValidation
    BY <1>2, <2>11, OtherwiseIf DEF EndValidation
  <2>12. CASE UNCHANGED parserVars
    <3>1. UNCHANGED <<tokens, p, calls, node, phase>>
      BY <2>12 DEF parserVars
    <3>2. CASE phase = "statement"
      BY <1>2, <3>1, <3>2, InOrderNext DEF IfInv
    <3>3. CASE phase # "statement"
      BY <1>2, <3>1, <3>3, OtherwiseIf
    <3> QED
      BY <3>2, <3>3
  <2> QED
    BY <1>2, <2>1, <2>2, <2>3, <2>4, <2>5, <2>6, <2>7, <2>8, <2>9, <2>10, <2>11, <2>12
       DEF ParserNext
<1> QED
  BY <1>1, <1>2, ParserInvariant, PTL DEF ParserSpec

(* The code generator finds the parts of an IF where it looks for them:    *)
(* the condition is its first child, what follows THEN its third, and the  *)
(* ELSE part its fourth, also when the first alternative of the rule has   *)
(* failed and the second was parsed from the same token.                   *)
THEOREM IfHasItsParts == ParserSpec => []PartsOfIf
<1>1. IfNode(node) => PartsOfIf
  <2> SUFFICES ASSUME IfNode(node), node.k = "stmt", node.t = "IF" PROVE PartsOfIf
    BY DEF PartsOfIf
  <2>1. Len(node.kids) >= 4 /\ IfParts(node.kids)
    BY DEF IfNode
  <2>2. Len(node.kids) >= 1 /\ Len(node.kids) >= 3
    BY <2>1
  <2> QED
    BY <2>1, <2>2 DEF PartsOfIf, IfParts
<1>2. IfInv => PartsOfIf
  BY <1>1 DEF IfInv
<1> QED
  BY <1>2, IfInvariant, PTL
=============================================================================
