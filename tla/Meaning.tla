------------------------------- MODULE Meaning -------------------------------
(***************************************************************************)
(* What a BASIC expression means, with no stack and no bytecode: the       *)
(* reference that compile_expression and the handlers of VMExpr together   *)
(* are checked against.  The meaning of an expression is the set of values *)
(* it may have, with a failure when its evaluation may fail.  The          *)
(* definitions say what characterises the result, not how it is computed.  *)
(***************************************************************************)
EXTENDS Library

Failure(code) == [type |-> "failure", code |-> code]

Truth(p) == Num(IF p THEN 1 ELSE 0)

Prefix(s, t) == Len(s) <= Len(t) /\ SubSeq(t, 1, Len(s)) = s

(* Dictionary order of C strings. *)
Before(s, t) ==
    \/ Prefix(s, t) /\ s # t
    \/ \E common \in {SubSeq(s, 1, n) : n \in 0..Len(s)} :
          /\ Prefix(common, t)
          /\ Len(common) < Len(s) /\ Len(common) < Len(t)
          /\ s[Len(common) + 1] < t[Len(common) + 1]

Ordered(a, b) == IF a.type = "str" THEN Before(a.str, b.str) ELSE a.num < b.num

(* The contiguous parts of a text, as <<text before, part, text after>>.   *)
Cuts(s) == {<<SubSeq(s, 1, i), SubSeq(s, i + 1, j), SubSeq(s, j + 1, Len(s))>> :
               i \in 0..Len(s), j \in 0..Len(s)}

(* LEFT$, RIGHT$ and MID$ give the longest part of at most n characters    *)
(* that starts the text, ends it, or starts at character k.                *)
Longest(parts) == CHOOSE t \in parts : \A u \in parts : Len(u) <= Len(t)
LeftPart(s, n) ==
    Longest({c[2] : c \in {d \in Cuts(s) : d[1] = <<>>
                                           /\ (Len(d[2]) <= n \/ d[2] = <<>>)}})
RightPart(s, n) ==
    Longest({c[2] : c \in {d \in Cuts(s) : d[3] = <<>>
                                           /\ (Len(d[2]) <= n \/ d[2] = <<>>)
                                           /\ d[1] \o d[2] = s}})
MidPart(s, k, n) ==
    Longest({<<>>} \cup
            {c[2] : c \in {d \in Cuts(s) :
                              /\ d[1] \o d[2] \o d[3] = s
                              /\ Len(d[1]) = (IF k < 1 THEN 0 ELSE k - 1)
                              /\ Len(d[2]) <= n}})

(* The meaning of an operator applied to values.                           *)
Apply1(op, a) ==
    CASE op = "NEG"      -> {Num(0 - a.num)}
      [] op = "NOT"      -> {Truth(a.num = 0)}
      [] op = "FUNC_ABS" -> {Num(CHOOSE n \in {a.num, 0 - a.num} : n >= 0)}
      [] op = "FUNC_SGN" -> {Num(CHOOSE n \in {-1, 0, 1} :
                                   \/ n * a.num > 0
                                   \/ n = 0 /\ a.num = 0)}
      [] op = "FUNC_INT" -> {a}
      [] op \in {"FUNC_RND", "FUNC_SIN", "FUNC_COS", "FUNC_TAN", "FUNC_ATN", "FUNC_EXP"}
                          -> {Num(r) : r \in FloatResult}
      [] op = "FUNC_SQR" -> IF a.num < 0 THEN {Failure(ERR_ILLEGAL_FUNCTION)}
                             ELSE {Num(r) : r \in FloatResult}
      [] op = "FUNC_LOG" -> IF a.num <= 0 THEN {Failure(ERR_ILLEGAL_FUNCTION)}
                             ELSE {Num(r) : r \in FloatResult}
      [] op = "STR_LEN"  -> {Num(Len(a.str))}
      [] op = "STR_ASC"  -> {Num(c) : c \in IF a.str = <<>> THEN {0} ELSE {a.str[1]}}
      [] op = "STR_VAL"  -> {Num(Atof(a.str))}
      [] op = "STR_STR"  -> {Str(FormatG(a.num))}
      [] op = "STR_CHR"  -> {Str(IF a.num = 0 THEN <<>> ELSE <<a.num>>)}

Apply2(op, a, b) ==
    CASE op = "ADD" -> {Num(n) : n \in {m \in Number : m - b.num = a.num}}
      [] op = "SUB" -> {Num(n) : n \in {m \in Number : m + b.num = a.num}}
      [] op = "MUL" -> {Num(a.num * b.num)}
      [] op = "MOD" -> {Num(r) : r \in {s \in Number :
                          /\ s * s < b.num * b.num
                          /\ a.num * s >= 0
                          /\ \E q \in Number : q * b.num + s = a.num}}
      [] op = "DIV" -> IF b.num = 0 THEN {Failure(ERR_DIVISION_BY_ZERO)}
                       ELSE {Num(q) : q \in {r \in Number :      \* |a/b - q| < 1
                               (a.num - r * b.num) * (a.num - r * b.num)
                                  < b.num * b.num}}
      [] op = "AND" -> {Truth(a.num # 0 /\ b.num # 0)}
      [] op = "OR"  -> {Truth(~(a.num = 0 /\ b.num = 0))}
      [] op = "EQ"  -> {Truth(a = b)}
      [] op = "NE"  -> {Truth(a # b)}
      [] op = "LT"  -> {Truth(Ordered(a, b))}
      [] op = "GT"  -> {Truth(Ordered(b, a))}
      [] op = "LE"  -> {Truth(~Ordered(b, a))}
      [] op = "GE"  -> {Truth(~Ordered(a, b))}
      [] op = "STR_LEFT"  -> {Str(LeftPart(a.str, b.num))}
      [] op = "STR_RIGHT" -> {Str(RightPart(a.str, b.num))}
      [] op = "STR_MID_2" -> {Str(MidPart(a.str, b.num, Len(a.str)))}

(* A length below zero asks for all the rest. *)
Apply3(op, a, b, c) ==
    CASE op = "STR_MID" ->
           {Str(MidPart(a.str, b.num, IF c.num < 0 THEN Len(a.str) ELSE c.num))}

(* Arguments are evaluated from the left; the first to fail stops there.   *)
Apply(op, args) ==
    LET failing == {i \in DOMAIN args : args[i].type = "failure"}
    IN  IF failing # {} THEN {args[CHOOSE i \in failing : \A j \in failing : i <= j]}
        ELSE CASE Len(args) = 1 -> Apply1(op, args[1])
               [] Len(args) = 2 -> Apply2(op, args[1], args[2])
               [] Len(args) = 3 -> Apply3(op, args[1], args[2], args[3])

RECURSIVE Values(_, _, _, _)
Values(e, numVars, strVars, err) ==
    CASE e.k = "num" -> {Num(e.val)}
      [] e.k = "str" -> {Str(e.val)}
      [] e.k = "var" -> {IF e.slot \in StringSlot THEN Str(strVars[e.slot])
                         ELSE Num(numVars[e.slot])}
      [] e.k = "op" /\ e.args = <<>> -> {Num(err)}               \* ERR
      [] e.k = "op" /\ e.args # <<>> ->
           LET options == [i \in DOMAIN e.args |->
                              Values(e.args[i], numVars, strVars, err)]
               choices == {args \in [DOMAIN e.args -> UNION {options[i] :
                                              i \in DOMAIN options}] :
                             \A i \in DOMAIN args : args[i] \in options[i]}
           IN  UNION {Apply(e.op, args) : args \in choices}
=============================================================================
