-------------------------------- MODULE Parser --------------------------------
(***************************************************************************)
(* parser.c: a parser driven by the tables of Grammar, that backtracks     *)
(* over the tokens of one program.                                         *)
(*                                                                         *)
(* A token is a record [t, v]: its type and its value, or the number that  *)
(* stands for its text.  The parser p holds what its functions change: the *)
(* place among the tokens (the Tokenizer they save and restore), the error *)
(* flag, recursion_depth and the number of the current line.               *)
(*                                                                         *)
(* A step goes from one call to the next within the functions that parse a *)
(* statement.  calls is the stack of the C program: the call that comes    *)
(* next, then where each function goes on when what it has called returns, *)
(* with its local variables.  What the last call returned is in node.      *)
(***************************************************************************)
EXTENDS Grammar, SequencesExt

CONSTANTS
    Inputs,         \* the token sequences that may be parsed
    MaxDepth,       \* 2000, the limit of recursion_depth
    MaxLine         \* 32767, the greatest line number

ASSUME InputAssumption ==
    /\ Inputs \subseteq Seq([t : STRING, v : Nat])
    /\ MaxDepth \in Nat /\ MaxLine \in Nat

VARIABLES
    tokens,         \* the input
    p,              \* the Parser
    calls,          \* the stack of the functions that parse a statement
    node,           \* the node that has just been returned to the first of them
    numbers,        \* line_numbers; the last one is previous_line_number
    root,           \* the children of the program node
    errors,         \* error_count
    phase           \* "line": at the start of a line; "statements": between
                    \* two on one line; "statement": within one;
                    \* "validating", then "parsed": after the last line
parserVars == <<tokens, p, calls, node, numbers, root, errors, phase>>

EOF == [t |-> "EOF", v |-> 0]
TokenAt(i) == IF i <= Len(tokens) THEN tokens[i] ELSE EOF
TypeAt(i) == TokenAt(i).t
Peek(q) == TokenAt(q.pos)
PeekType(q) == Peek(q).t
(* tokenizer_next: behind the last token there is nothing but EOF. *)
Advance(q) == [q EXCEPT !.pos = IF @ <= Len(tokens) THEN @ + 1 ELSE @]

EndOfLine == {"CCR", "EOF"}
EndOfStatement == EndOfLine \cup {"CEOS"}

(* Up to the first token of one of the types, which EOF is among. *)
ConsumeTo(q, stops) ==
    [q EXCEPT !.pos = Min({i \in @..(Len(tokens) + 1) : TypeAt(i) \in stops})]

-----------------------------------------------------------------------------
(* Parse nodes.                                                            *)

NodeOf(kind, tok, children) ==
    [k |-> kind, t |-> tok.t, v |-> tok.v, line |-> 0, kids |-> children]
NoToken == [t |-> "", v |-> 0]
NoNode == NodeOf("null", NoToken, <<>>)          \* NULL
Failed(n) == n = NoNode

Group(children) == NodeOf("group", NoToken, children)    \* NODE_EXPRESSION
UMinus == [t |-> "CUMINUS", v |-> 0]
(* A token on its own: a variable, a constant, anything else an operator.  *)
Leaf(tok) == NodeOf(IF tok.t = "IDENT" THEN "var"
                    ELSE IF tok.t \in {"NUMBER", "STRING"} THEN "const" ELSE "op",
                    tok, <<>>)

(* A function returns a node, or it makes calls, the last of which is the  *)
(* rest of its own.                                                        *)
Does(n, q, cs) == [node |-> n, p |-> q, calls |-> cs]
Return(n, q) == Does(n, q, <<>>)
Continue(q, cs) == Does(NoNode, q, cs)

set_error(q) == [q EXCEPT !.err = TRUE]
Fail(q) == Return(NoNode, set_error(q))

(* What closes a parenthesis; the node is kept without it. *)
match_or_error(q, expected) ==
    IF PeekType(q) = expected THEN Advance(q) ELSE set_error(q)

-----------------------------------------------------------------------------
(* Expressions: the parse actions, each followed by its rest c after the   *)
(* call that has returned n.                                               *)

Expression(min) == [call |-> "expression", min |-> min]

parse_variable(q) ==
    LET open == Advance(q)
        var  == NodeOf("var", Peek(q), <<>>)
    IN  CASE PeekType(open) # "CLPRN" -> Return(var, open)
          [] PeekType(open) = "CLPRN" /\ PeekType(Advance(open)) = "CRPRN" ->
                Return(var, Advance(Advance(open)))
          [] OTHER -> Continue(Advance(open), <<Expression(0),
                               [call |-> "subscript", tok |-> Peek(q), args |-> <<>>]>>)

(* One more subscript, or two. *)
AfterSubscript(c, q, n) ==
    LET args == Append(c.args, n)
    IN  IF PeekType(q) = "CCOM" /\ c.args = <<>>
        THEN Continue(Advance(q), <<Expression(0), [c EXCEPT !.args = args]>>)
        ELSE Return(NodeOf("var", c.tok, args), match_or_error(q, "CRPRN"))

parse_parenthesized(q) ==
    Continue(Advance(q), <<Expression(0), [call |-> "parenthesis"]>>)
AfterParenthesis(q, n) == Return(n, match_or_error(q, "CRPRN"))

parse_unary(q) ==
    Continue(Advance(q), <<Expression(UnaryPrecedence), [call |-> "sign", tok |-> Peek(q)]>>)
(* Unary plus leaves no node of its own. *)
AfterSign(c, q, n) ==
    LET op == IF c.tok.t = "CMINUS" THEN UMinus ELSE c.tok
    IN  Return(IF c.tok.t = "CPLUS" THEN n ELSE NodeOf("op", op, <<n>>), q)

CheckArity(tok, args, q) ==
    Return(NodeOf("call", tok, args),
           IF Len(args) \in Arity[tok.t][1]..Arity[tok.t][2] THEN q ELSE set_error(q))

parse_function_call(q) ==
    LET open == Advance(q)
        list == Advance(open)
    IN  CASE PeekType(open) # "CLPRN" -> CheckArity(Peek(q), <<>>, open)
          [] PeekType(open) = "CLPRN" /\ PeekType(list) = "CRPRN" ->
                CheckArity(Peek(q), <<>>, Advance(list))
          [] OTHER -> Continue(list, <<Expression(0),
                               [call |-> "argument", tok |-> Peek(q), args |-> <<>>]>>)

(* Without the closing parenthesis, the number of arguments is not checked. *)
AfterArgument(c, q, n) ==
    LET args == Append(c.args, n)
    IN  CASE PeekType(q) = "CCOM" ->
                Continue(Advance(q), <<Expression(0), [c EXCEPT !.args = args]>>)
          [] PeekType(q) = "CRPRN" -> CheckArity(c.tok, args, Advance(q))
          [] OTHER -> Return(NodeOf("call", c.tok, args), set_error(q))

(* Mutant: every operator associates to the right. *)
parse_binary_op_Right(q, left) ==
    Continue(Advance(q), <<Expression(LedPrecedence[PeekType(q)]),
                           [call |-> "operator", tok |-> Peek(q), left |-> left]>>)

(* The operand on the right of ^ takes in another ^: it is right           *)
(* associative, and the only operator that is.                             *)
parse_binary_op(q, left) ==
    LET prec == LedPrecedence[PeekType(q)]
    IN  Continue(Advance(q), <<Expression(IF PeekType(q) = "CEXP" THEN prec ELSE prec + 1),
                               [call |-> "operator", tok |-> Peek(q), left |-> left]>>)
AfterOperator(c, q, n) == Return(NodeOf("op", c.tok, <<c.left, n>>), q)

Nud(q) ==
    LET tok == Peek(q)
    IN  CASE tok.t \in {"NUMBER", "STRING"} -> Return(Leaf(tok), Advance(q))
          [] tok.t = "IDENT" -> parse_variable(q)
          [] tok.t = "CLPRN" -> parse_parenthesized(q)
          [] tok.t \in UnaryOps -> parse_unary(q)
          [] tok.t \in DOMAIN Arity -> parse_function_call(q)
          [] OTHER -> Fail(q)

Then(r, c) == [r EXCEPT !.calls = Append(@, c)]

parse_expression_pratt_prec(c, q) == Then(Nud(q), [call |-> "led", min |-> c.min])

(* The loop of that function over binary operators; left is n. *)
Led(c, q, n) ==
    LET op == PeekType(q)
    IN  IF ~Failed(n) /\ op \in DOMAIN LedPrecedence /\ LedPrecedence[op] >= c.min
        THEN Then(parse_binary_op(q, n), c) ELSE Return(n, q)

-----------------------------------------------------------------------------
(* Rules: parse_nonterminal.                                               *)

NonTerminal(nt) == [call |-> "nonterminal", nt |-> nt]
StatementCall == [call |-> "statement"]

IsRule(e) == e \in (DOMAIN Rules \cup {"STATEMENT"}) \ {"NULL", "VEXP"}

Leave(q) == [q EXCEPT !.depth = @ - 1]

(* Mutant: what a failed alternative has built is always dropped. *)
KidsKept_None(how, kids) == <<>>
(* What a failed alternative has built stays in the node, unless it failed *)
(* at a rule.                                                              *)
KidsKept(how, kids) == IF how = "rule" THEN <<>> ELSE kids

(* The entry has failed.  The next alternative starts where this one did;  *)
(* an error is forgotten, except where a token did not match.  After the   *)
(* last one the place is left as it is, and the error of a rule as well.   *)
NextAlternative(c, q, how) ==
    IF c.a < Len(Rules[c.nt])
    THEN Continue([q EXCEPT !.pos = c.start, !.err = @ /\ how = "token"],
                  <<[c EXCEPT !.call = "rule", !.a = @ + 1, !.i = 1,
                              !.kids = KidsKept(how, @)]>>)
    ELSE Return(NoNode, Leave([q EXCEPT !.err = @ /\ how # "expression"]))

(* Entry i of alternative a, or the end of it.  The empty production       *)
(* returns without restoring recursion_depth.                              *)
Entry(c, q) ==
    LET alternative == Rules[c.nt][c.a]
        more == c.i \in DOMAIN alternative
        e == alternative[c.i]
        rest == [c EXCEPT !.call = "entry"]
    IN  CASE ~more -> Return(Group(c.kids), Leave(q))
          [] more /\ e = "NULL" -> Return(Group(c.kids), q)
          [] more /\ e = "VEXP" -> Continue(q, <<Expression(0), rest>>)
          [] more /\ IsRule(e) -> Continue(q, <<NonTerminal(e), rest>>)
          [] OTHER -> IF PeekType(q) = e
                      THEN Continue(Advance(q), <<[c EXCEPT !.i = @ + 1,
                                                            !.kids = Append(@, Leaf(Peek(q)))]>>)
                      ELSE NextAlternative(c, q, "token")

AfterEntry(c, q, n) ==
    LET how == IF Rules[c.nt][c.a][c.i] = "VEXP" THEN "expression" ELSE "rule"
    IN  IF Failed(n) THEN NextAlternative(c, q, how)
        ELSE Continue(q, <<[c EXCEPT !.call = "rule", !.i = @ + 1, !.kids = Append(@, n)]>>)

(* The statements of a THEN, up to an ELSE or the end of the line.  The    *)
(* peek for an ELSE after a colon reads the token it has just restored, so *)
(* it never sees one: every colon is consumed.                             *)
Body(c, q) ==
    CASE PeekType(q) \in EndOfLine \cup {"ELSE"} -> Return(Group(c.kids), q)
      [] PeekType(q) = "CEOS" -> Continue(Advance(q), <<c>>)
      [] OTHER -> Continue(q, <<StatementCall, [c EXCEPT !.call = "body_statement"]>>)
AfterBodyStatement(c, q, n) ==
    LET kids == Append(c.kids, n)
    IN  CASE Failed(n) -> Return(NoNode, q)
          [] ~Failed(n) /\ PeekType(q) = "CEOS" ->
                Continue(Advance(q), <<[call |-> "body", kids |-> kids]>>)
          [] OTHER -> Return(Group(kids), q)

IfBody(q) == IF PeekType(q) = "NUMBER" THEN Return(Leaf(Peek(q)), Advance(q))
             ELSE Continue(q, <<[call |-> "body", kids |-> <<>>]>>)

RuleOf(nt, q) ==
    LET deeper == [q EXCEPT !.depth = @ + 1]
    IN  IF deeper.depth > MaxDepth THEN Fail(q)
        ELSE Continue(deeper, <<[call |-> "rule", nt |-> nt, a |-> 1, i |-> 1,
                                 start |-> q.pos, kids |-> <<>>]>>)

parse_nonterminal(c, q) ==
    CASE c.nt = "STATEMENT" -> Continue(q, <<StatementCall>>)
      [] c.nt = "REM_BODY" -> Return(NodeOf("stmt", [t |-> "REM", v |-> 0], <<>>),
                                     ConsumeTo(q, EndOfStatement))
      [] c.nt = "IFBODY" -> IfBody(q)
      [] OTHER -> RuleOf(c.nt, q)

-----------------------------------------------------------------------------
(* Statements: parser_parse_statement.                                     *)

Statement(t, children, q) ==
    [NodeOf("stmt", [t |-> t, v |-> 0], children) EXCEPT !.line = q.line]

ParsePrint(q) ==
    LET print == [call |-> "print", t |-> PeekType(q), kids |-> <<>>]
    IN  IF PeekType(Advance(q)) = "CPND"
        THEN Continue(Advance(Advance(q)), <<Expression(0), [print EXCEPT !.call = "channel"]>>)
        ELSE Continue(Advance(q), <<print>>)

(* A statement is returned even when its channel is in error. *)
AfterChannel(c, q, n) ==
    IF Failed(n) \/ PeekType(q) # "CCOM" THEN Return(Statement(c.t, <<>>, q), set_error(q))
    ELSE Continue(Advance(q), <<[c EXCEPT !.call = "print", !.kids = <<n>>]>>)

(* The operands of a PRINT, with or without separators between them.       *)
PrintOperands(c, q) ==
    CASE PeekType(q) \in EndOfStatement \cup {"ELSE"} -> Return(Statement(c.t, c.kids, q), q)
      [] PeekType(q) \in {"CSC", "CCOM"} ->
            Continue(Advance(q), <<[c EXCEPT !.kids = Append(@, Leaf(Peek(q)))]>>)
      [] OTHER -> Continue(q, <<Expression(0), [c EXCEPT !.call = "operand"]>>)
AfterOperand(c, q, n) ==
    IF Failed(n) THEN Return(Statement(c.t, c.kids, q), q)
    ELSE Continue(q, <<[c EXCEPT !.call = "print", !.kids = Append(@, n)]>>)

(* A statement that starts with an identifier, an implied LET, leaves it   *)
(* to the rule.  A token no statement starts with is skipped.              *)
parser_parse_statement(q) ==
    LET t == PeekType(q)
    IN  CASE t \in EndOfStatement -> Return(NoNode, q)
          [] t = "NUMBER" -> Fail(q)
          [] t \in {"PRINT", "QUESTION"} -> ParsePrint(q)
          [] t \notin DOMAIN StatementRule \cup EndOfStatement
                     \cup {"NUMBER", "PRINT", "QUESTION"} -> Fail(Advance(q))
          [] OTHER -> Continue(IF t = "IDENT" THEN q ELSE Advance(q),
                               <<NonTerminal(StatementRule[t]), [call |-> "made", t |-> t]>>)

(* The children of the rule's node become the statement's. *)
AfterRule(c, q, n) ==
    IF Failed(n) THEN Fail(q) ELSE Return(Statement(c.t, n.kids, q), q)

-----------------------------------------------------------------------------
(* The program: parser_parse_program.                                      *)

ParserInit ==
    /\ tokens \in Inputs
    /\ p = [pos |-> 1, err |-> FALSE, depth |-> 0, line |-> 0]
    /\ calls = <<>>
    /\ node = NoNode
    /\ numbers = <<>>
    /\ root = <<>>
    /\ errors = 0
    /\ phase = "line"

OnLine(types) == phase = "line" /\ PeekType(p) \in types
WithinLine(types) == phase = "statements" /\ PeekType(p) \in types

PastEndOfLine(q) == IF PeekType(q) = "CCR" THEN Advance(q) ELSE q

(* Skip to the next line, with the error reported and cleared. *)
Recover(q) ==
    /\ p' = [PastEndOfLine(ConsumeTo(q, EndOfLine)) EXCEPT !.err = FALSE]
    /\ errors' = errors + 1
    /\ phase' = "line"

SkipEmptyLine ==
    /\ OnLine({"CCR"})
    /\ p' = Advance(p)
    /\ UNCHANGED <<tokens, calls, node, numbers, root, errors, phase>>

RejectLine ==
    /\ phase = "line"
    /\ PeekType(p) \notin EndOfLine \cup {"NUMBER"}
    /\ Recover(p)
    /\ UNCHANGED <<tokens, calls, node, numbers, root>>

(* Mutants: only an equal number is refused; numbers are not bounded. *)
record_line_number_Duplicates(number) ==
    number <= MaxLine /\ number \notin ToSet(numbers)
record_line_number_AnyRange(number) == numbers = <<>> \/ number > Last(numbers)
(* record_line_number: no number after 0 is compared with it, but for the  *)
(* search for duplicates.                                                  *)
record_line_number(number) ==
    /\ number <= MaxLine
    /\ numbers # <<>> /\ Last(numbers) > 0 => number > Last(numbers)
    /\ number \notin ToSet(numbers)

(* A line number that is refused takes the line with it. *)
BeginLine ==
    /\ OnLine({"NUMBER"})
    /\ LET number == Peek(p).v
           q == [Advance(p) EXCEPT !.line = number]
       IN  IF record_line_number(number)
           THEN /\ p' = q
                /\ numbers' = Append(numbers, number)
                /\ phase' = "statements"
                /\ UNCHANGED errors
           ELSE Recover(q) /\ UNCHANGED numbers
    /\ UNCHANGED <<tokens, calls, node, root>>

EndLine ==
    /\ WithinLine(EndOfLine)
    /\ p' = PastEndOfLine(p)
    /\ phase' = "line"
    /\ UNCHANGED <<tokens, calls, node, numbers, root, errors>>

SkipColon ==
    /\ WithinLine({"CEOS"})
    /\ p' = Advance(p)
    /\ UNCHANGED <<tokens, calls, node, numbers, root, errors, phase>>

BeginStatement ==
    /\ phase = "statements"
    /\ PeekType(p) \notin EndOfStatement
    /\ calls' = <<StatementCall>>
    /\ phase' = "statement"
    /\ UNCHANGED <<tokens, p, node, numbers, root, errors>>

(* What the call, or the rest of one, on top of the stack does. *)
Step(c, q, n) ==
    CASE c.call = "expression"     -> parse_expression_pratt_prec(c, q)
      [] c.call = "led"            -> Led(c, q, n)
      [] c.call = "operator"       -> AfterOperator(c, q, n)
      [] c.call = "subscript"      -> AfterSubscript(c, q, n)
      [] c.call = "parenthesis"    -> AfterParenthesis(q, n)
      [] c.call = "sign"           -> AfterSign(c, q, n)
      [] c.call = "argument"       -> AfterArgument(c, q, n)
      [] c.call = "nonterminal"    -> parse_nonterminal(c, q)
      [] c.call = "rule"           -> Entry(c, q)
      [] c.call = "entry"          -> AfterEntry(c, q, n)
      [] c.call = "body"           -> Body(c, q)
      [] c.call = "body_statement" -> AfterBodyStatement(c, q, n)
      [] c.call = "statement"      -> parser_parse_statement(q)
      [] c.call = "made"           -> AfterRule(c, q, n)
      [] c.call = "print"          -> PrintOperands(c, q)
      [] c.call = "channel"        -> AfterChannel(c, q, n)
      [] c.call = "operand"        -> AfterOperand(c, q, n)

ParseStatement ==
    /\ phase = "statement" /\ calls # <<>>
    /\ \E r \in {Step(Head(calls), p, node)} :        \* the one result
          /\ p' = r.p
          /\ node' = r.node
          /\ calls' = r.calls \o Tail(calls)
    /\ UNCHANGED <<tokens, numbers, root, errors, phase>>

(* The statement is kept even if its error is only found in it or after    *)
(* it.                                                                     *)
EndStatement ==
    /\ phase = "statement" /\ calls = <<>>
    /\ root' = IF Failed(node) THEN root ELSE Append(root, node)
    /\ node' = NoNode
    /\ IF p.err \/ PeekType(p) \notin EndOfStatement THEN Recover(p)
       ELSE /\ p' = IF PeekType(p) = "EOF" THEN p ELSE Advance(p)
            /\ phase' = IF PeekType(p) = "CEOS" THEN "statements" ELSE "line"
            /\ UNCHANGED errors
    /\ UNCHANGED <<tokens, calls, numbers>>

(* The references to lines are validated unless there has been an error.   *)
Validation(n) == [call |-> "validate", node |-> n]
Finish ==
    /\ OnLine({"EOF"})
    /\ IF errors > 0 THEN phase' = "parsed" /\ UNCHANGED calls
       ELSE /\ phase' = "validating"
            /\ calls' = <<Validation(NodeOf("program", NoToken, root))>>
    /\ UNCHANGED <<tokens, p, node, numbers, root, errors>>

(* The children of a statement that are its references.  The targets of an *)
(* ON are deeper in its tree than the function looks: only a constant      *)
(* second child would be validated.                                        *)
Validated(n) ==
    IF n.k # "stmt" THEN {}
    ELSE IF n.t \in {"CGTO", "CGS"} THEN DOMAIN n.kids \cap {1}
    ELSE IF n.t = "ON" THEN DOMAIN n.kids \ {1} ELSE {}

(* validate_node_line_refs. *)
ValidateNode ==
    /\ phase = "validating" /\ calls # <<>>
    /\ LET n == Head(calls).node
           undefined == {i \in Validated(n) : /\ n.kids[i].k = "const"
                                              /\ n.kids[i].v \notin ToSet(numbers)}
       IN  /\ errors' = errors + Cardinality(undefined)
           /\ calls' = [i \in DOMAIN n.kids |-> Validation(n.kids[i])] \o Tail(calls)
    /\ UNCHANGED <<tokens, p, node, numbers, root, phase>>

EndValidation ==
    /\ phase = "validating" /\ calls = <<>>
    /\ phase' = "parsed"
    /\ UNCHANGED <<tokens, p, calls, node, numbers, root, errors>>

ParserNext ==
    \/ SkipEmptyLine \/ RejectLine \/ BeginLine \/ EndLine \/ SkipColon
    \/ BeginStatement \/ ParseStatement \/ EndStatement
    \/ Finish \/ ValidateNode \/ EndValidation

ParserSpec == ParserInit /\ [][ParserNext]_parserVars

-----------------------------------------------------------------------------
(* Properties.                                                             *)

(* The types, and the bounds of place, depth and numbers.  Each rule that  *)
(* is being parsed holds a level of recursion_depth, whatever alternatives *)
(* have failed within it.                                                  *)
OpenRules == {i \in DOMAIN calls : calls[i].call \in {"rule", "entry"}}
ParserTypeOK ==
    /\ \A i \in DOMAIN tokens : tokens[i].v \in Nat
    /\ p.pos \in 1..(Len(tokens) + 1) /\ p.err \in BOOLEAN
    /\ p.depth \in Cardinality(OpenRules)..MaxDepth /\ p.line \in Nat
    /\ \A i \in DOMAIN numbers : numbers[i] \in 0..MaxLine
    /\ \A i \in DOMAIN root : root[i].k = "stmt"
    /\ errors \in Nat
    /\ phase \in {"line", "statements", "statement", "validating", "parsed"}

(* The program handed to the code generators has its statements in         *)
(* strictly ascending order of lines, whatever lines were refused: what    *)
(* the binary search of the line map rests on.                             *)
LinesAscend ==
    /\ \A i, j \in DOMAIN numbers : i < j => numbers[i] < numbers[j]
    /\ \A i, j \in DOMAIN root : i < j => root[i].line <= root[j].line
    /\ \A i \in DOMAIN root : root[i].line \in ToSet(numbers)

(* Where the code generator looks for the parts of an IF: the condition    *)
(* first, the THEN part third, the ELSE part fourth, with THEN or without. *)
(* A THEN part of statements leaves nothing on the line but an ELSE.  Each *)
(* node of a tree has been returned when it was made.                      *)
IsCondition(n) == n.k \in {"var", "const", "op", "call"}
IsBody(n) == \/ n.k = "const"
             \/ n.k = "group" /\ \A kid \in ToSet(n.kids) : kid.k = "stmt"
IsElse(n) == n.kids = <<>> \/ (n.kids[1].t = "ELSE" /\ Len(n.kids) = 2)
PartsOfIf ==
    node.k = "stmt" /\ node.t = "IF" =>
        IsCondition(node.kids[1]) /\ IsBody(node.kids[3]) /\ IsElse(node.kids[4])
=============================================================================
