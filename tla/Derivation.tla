------------------------------ MODULE Derivation ------------------------------
(***************************************************************************)
(* The language of Grammar, read as a context-free grammar and without     *)
(* the parser: the places where a phrase that starts at token i may end.   *)
(* The properties compare with it what the parser accepts and builds.      *)
(***************************************************************************)
EXTENDS Parser, FiniteSetsExt

Token(i, types) == IF TypeAt(i) \in types THEN {i + 1} ELSE {}
AfterEach(ends, Op(_)) == UNION {Op(j) : j \in ends}

(* n expressions with commas between them.  E is ExpressionEnds.           *)
RECURSIVE ListEnds(_, _, _)
ListEnds(E, i, n) ==
    IF n = 0 THEN {i}
    ELSE AfterEach(E[i], LAMBDA j : IF n = 1 THEN {j}
                                    ELSE UNION {ListEnds(E, k, n - 1) : k \in Token(j, {"CCOM"})})

(* From least to most expressions, in parentheses. *)
InParentheses(E, i, least, most) ==
    LET lists == AfterEach(Token(i, {"CLPRN"}),
                           LAMBDA j : UNION {ListEnds(E, j, n) : n \in least..most})
    IN  AfterEach(lists, LAMBDA j : Token(j, {"CRPRN"}))

OperandEnds(E, i) ==
    LET t == TypeAt(i)
    IN  CASE t \in {"NUMBER", "STRING"} -> {i + 1}
          [] t = "IDENT" -> {i + 1} \cup InParentheses(E, i + 1, 0, 2)
          [] t = "CLPRN" -> InParentheses(E, i, 1, 1)
          [] t \in DOMAIN Arity ->
                InParentheses(E, i + 1, Arity[t][1], Arity[t][2])
                \cup (IF Arity[t][1] = 0 THEN {i + 1} ELSE {})
          [] OTHER -> {}

(* Operands, with any signs, and binary operators between them. *)
ExpressionEnds[i \in Nat] ==
    IF TypeAt(i) \in UnaryOps THEN ExpressionEnds[i + 1]
    ELSE LET operand   == OperandEnds(ExpressionEnds, i)
             operators == AfterEach(operand, LAMBDA j : Token(j, DOMAIN LedPrecedence))
         IN  operand \cup AfterEach(operators, LAMBDA j : ExpressionEnds[j])

(* The alternative of a rule, from entry k on.  P is PhraseEnds. *)
RECURSIVE SequenceEnds(_, _, _, _)
SequenceEnds(P, alternative, k, i) ==
    IF k > Len(alternative) THEN {i}
    ELSE AfterEach(P[alternative[k], i],
                   LAMBDA j : SequenceEnds(P, alternative, k + 1, j))

RuleEnds(P, nt, i) ==
    UNION {SequenceEnds(P, Rules[nt][a], 1, i) : a \in DOMAIN Rules[nt]}

RECURSIVE PrintEnds(_)
PrintEnds(i) ==
    {i} \cup AfterEach(Token(i, {"CSC", "CCOM"}) \cup ExpressionEnds[i], PrintEnds)

PrintStatementEnds(i) ==
    LET channel == AfterEach(Token(i + 1, {"CPND"}), LAMBDA j : ExpressionEnds[j])
        comma   == AfterEach(channel, LAMBDA j : Token(j, {"CCOM"}))
    IN  AfterEach({i + 1} \cup comma, PrintEnds)

StatementEnds(P, i) ==
    LET t == TypeAt(i)
    IN  CASE t \in {"PRINT", "QUESTION"} -> PrintStatementEnds(i)
          [] t \in DOMAIN StatementRule \ {"PRINT", "QUESTION"} ->
                RuleEnds(P, StatementRule[t], IF t = "IDENT" THEN i ELSE i + 1)
          [] OTHER -> {}

(* Statements with colons between and around them. *)
StatementsEnds(P, i) ==
    LET one == P["STATEMENT", i]
        next == AfterEach({i} \cup one, LAMBDA j : Token(j, {"CEOS"}))
    IN  {i} \cup one \cup AfterEach(next, LAMBDA j : P["STATEMENTS", j])

PhraseEnds[e \in STRING, i \in Nat] ==
    CASE e = "NULL" -> {i}
      [] e = "VEXP" -> ExpressionEnds[i]
      [] e = "STATEMENT" -> StatementEnds(PhraseEnds, i)
      [] e = "STATEMENTS" -> StatementsEnds(PhraseEnds, i)
      [] e = "REM_BODY" -> {Min({j \in i..(Len(tokens) + 1) : TypeAt(j) \in EndOfStatement})}
      [] e = "IFBODY" -> Token(i, {"NUMBER"}) \cup StatementsEnds(PhraseEnds, i)
      [] e \in DOMAIN Rules \ {"REM_BODY", "IFBODY"} -> RuleEnds(PhraseEnds, e, i)
      [] OTHER -> Token(i, {e})

-----------------------------------------------------------------------------
(* Lines.                                                                  *)

LineStarts == {1} \cup {i + 1 : i \in {j \in DOMAIN tokens : tokens[j].t = "CCR"}}
LineEnd(i) == Min({j \in i..(Len(tokens) + 1) : TypeAt(j) \in EndOfLine})
EmptyLine(i) == TypeAt(i) \in EndOfLine

(* A line's number counts for the lines below if no line above has a       *)
(* greater one, or the same.                                               *)
Numbered(i) == TypeAt(i) = "NUMBER" /\ tokens[i].v <= MaxLine
RECURSIVE Counts(_)
Counts(i) == /\ Numbered(i)
             /\ \A j \in LineStarts : j < i /\ Counts(j) => tokens[j].v < tokens[i].v

WellFormedLine(i) ==
    EmptyLine(i) \/ (Counts(i) /\ LineEnd(i) \in PhraseEnds["STATEMENTS", i + 1])

(* A line with a statement whose rule tries a rule and then another: an    *)
(* error of an expression before that place on the line is forgotten.      *)
Forgetful(i) == \E j \in i..LineEnd(i) : TypeAt(j) \in {"ELSE", "NEXT", "INPUT", "OPEN", "XIO"}

-----------------------------------------------------------------------------
(* The tree of an expression, by splitting its tokens from i to j at the   *)
(* operator that is applied last.                                          *)

RECURSIVE Nesting(_, _)
Nesting(i, k) ==             \* how many parentheses opened from i on hold k
    IF k <= i THEN 0
    ELSE Nesting(i, k - 1) + (IF TypeAt(k - 1) = "CLPRN" THEN 1 ELSE 0)
                           - (IF TypeAt(k) = "CRPRN" THEN 1 ELSE 0)

(* The binary operators outside parentheses: those that follow an operand. *)
Infix(i, j) == {k \in (i + 1)..(j - 1) :
                  /\ TypeAt(k) \in DOMAIN LedPrecedence
                  /\ TypeAt(k - 1) \in {"NUMBER", "STRING", "IDENT", "CRPRN"}
                  /\ Nesting(i, k) = 0}

(* Loose operators, which a sign or NOT binds tighter than, are applied    *)
(* from the left; then the signs; then ^, from the right.                  *)
RECURSIVE Reading(_, _)
Reading(i, j) ==
    LET infix  == Infix(i, j)
        loosest == Min({LedPrecedence[TypeAt(k)] : k \in infix})
        last   == IF loosest < UnaryPrecedence
                  THEN Max({k \in infix : LedPrecedence[TypeAt(k)] = loosest})
                  ELSE Min(infix)
        split  == NodeOf("op", tokens[last], <<Reading(i, last - 1), Reading(last + 1, j)>>)
        sign   == IF TypeAt(i) = "CMINUS" THEN UMinus ELSE tokens[i]
        signed == infix = {} \/ loosest > UnaryPrecedence
    IN  CASE TypeAt(i) \in UnaryOps /\ signed ->
                IF TypeAt(i) = "CPLUS" THEN Reading(i + 1, j)
                ELSE NodeOf("op", sign, <<Reading(i + 1, j)>>)
          [] infix # {} /\ ~(TypeAt(i) \in UnaryOps /\ signed) -> split
          [] infix = {} /\ TypeAt(i) = "CLPRN" -> Reading(i + 1, j - 1)
          [] OTHER -> Leaf(tokens[i])

(* The lines that assign an expression without calls and do no more.       *)
Assignments ==
    {i \in LineStarts :
        /\ TypeAt(i) = "NUMBER" /\ TypeAt(i + 1) = "IDENT" /\ TypeAt(i + 2) = "CEQ"
        /\ \A j \in i..LineEnd(i) : TypeAt(j) \notin {"CEOS"} \cup DOMAIN Arity}

-----------------------------------------------------------------------------
(* Properties.                                                             *)

(* One error is counted for each line that the grammar does not derive, or *)
(* whose number is out of place, and none for any other: no alternative is *)
(* given up too early, no error of one line is seen in another, and the    *)
(* rest of a line in error is skipped.  A line that is forgetful of errors *)
(* may be accepted without being derived.                                  *)
AcceptsWhatIsDerived ==
    phase = "line" =>
        LET wrong == {i \in LineStarts : i < p.pos /\ ~WellFormedLine(i)}
        IN  errors \in Cardinality({i \in wrong : ~Forgetful(i)})..Cardinality(wrong)

(* The tree of an accepted expression applies the operators in the order   *)
(* of their precedence, those of one precedence from the left, and powers  *)
(* from the right.                                                         *)
ExpressionsReadRight ==
    phase = "parsed" =>
        \A i \in Assignments :
            WellFormedLine(i) =>
                \E s \in ToSet(root) : /\ s.line = tokens[i].v
                                       /\ s.kids[3] = Reading(i + 3, LineEnd(i) - 1)
=============================================================================
