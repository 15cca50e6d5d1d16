------------------------------- MODULE MCVMBasic -------------------------------
(***************************************************************************)
(* The refinement of Basic, over three families of compiled programs:      *)
(* assignments of every expression of two levels of operators over a few   *)
(* atoms; nested loops around subroutines; and statements that fail,       *)
(* before a trap and a handler.                                            *)
(*                                                                         *)
(* Their sources stay where Basic and the implementation are meant to      *)
(* agree: types match, STEP is 1, a trap is not line 1, RESTORE has no     *)
(* line and NEXT names no variable twice.                                  *)
(***************************************************************************)
EXTENDS VMBasic, MCPrograms

MCNumber == -30..75
MCSlot == {"A", "B", "I", "J", "K", "S"}
MCStringSlot == {"S"}

(* Expressions.                                                            *)
NumAtoms == {N(0), N(2), V("B")}                  \* B is -3
StrAtoms == {T(<<>>), T(<<50, 9>>), V("S")}       \* S is <<50, 9, 7>>

UnaryNum == {Fn(op, a) : op \in {"NEG", "NOT", "FUNC_ABS", "FUNC_SGN", "FUNC_INT",
                                 "FUNC_SQR", "FUNC_LOG", "FUNC_RND"}, a \in NumAtoms}
OfText   == {Fn(op, s) : op \in {"STR_LEN", "STR_ASC", "STR_VAL"}, s \in StrAtoms}
BinaryNum(xs, ys) == {Op(op, <<x, y>>) : op \in (BinaryOps \ {"POW"}) \cup CompareOps,
                                         x \in xs, y \in ys}
TextTests(xs, ys) == {Op(op, <<x, y>>) : op \in CompareOps, x \in xs, y \in ys}
Slices(ss, ns) == {Op(op, <<s, n>>) : op \in SliceOps, s \in ss, n \in ns}
Mids == {Op("STR_MID", <<s, n, m>>) : s \in StrAtoms, n \in NumAtoms, m \in NumAtoms}
Texts == {Fn("STR_CHR", N(2)), Fn("STR_CHR", N(0)), Fn("STR_STR", V("B"))}

SimpleNum == UnaryNum \cup BinaryNum(NumAtoms, {N(2), V("B"), N(0)})
NumExprs ==
    SimpleNum \cup OfText
    \cup {Op(op, <<x, y>>) : op \in {"SUB", "DIV"}, x \in SimpleNum, y \in {N(2)}}
    \cup {Op(op, <<x, y>>) : op \in {"SUB", "DIV"}, x \in {N(2)}, y \in SimpleNum}
    \cup TextTests(StrAtoms \cup Texts, StrAtoms)
    \cup {Op(op, <<Op("STR_LEFT", <<V("S"), x>>), V("S")>>) : op \in {"EQ", "LT"},
                                                              x \in SimpleNum}
StrExprs == Slices(StrAtoms \cup Texts, NumAtoms) \cup Mids \cup Texts
            \cup Slices({V("S")}, SimpleNum)

Assign(slot, e, trapped) ==
    Lines(<<Let("B", Fn("NEG", N(3))), Let("S", T(<<50, 9, 7>>)),
            IF trapped THEN Trap(5) ELSE Restore, Let(slot, e), Let("A", ERR)>>)

Assignments == {Assign("A", e, TRUE) : e \in NumExprs}
               \cup {Assign("A", e, FALSE) : e \in UnaryNum \cup BinaryNum({N(2)}, {N(0)})}
               \cup {Assign("S", e, TRUE) : e \in StrExprs}

(* Loops: two, nested, closed by one NEXT or by two, named or not, with a  *)
(* subroutine called from the inner one that counts, or picks by ON GOSUB  *)
(* how much to count, and has a loop of its own.                           *)
Bounds == {<<1, 1>>, <<0, 2>>, <<2, 1>>, <<-2, -1>>}

(* The body of a loop is run at least once: the test is in NEXT.           *)
Rounds(b) == IF b[2] < b[1] THEN 1 ELSE b[2] - b[1] + 1

Loop(slot, b) == For(slot, N(b[1]), N(b[2]))

Closings == {<<<<"J", "I">>>>, <<<<"J">>, <<"I">>>>, <<<<>>, <<>>>>}

(* 10 FOR I  20 FOR J  30 call  40 NEXT ...  60 END                        *)
(* 70 FOR K  80 A = A + 1  90 NEXT K  100 RETURN                           *)
Nested(i, j, k, closing, call) ==
    Source(<<<<10, Loop("I", i)>>, <<20, Loop("J", j)>>, <<30, call>>>>
           \o [c \in DOMAIN closing |-> <<40, NextOf(closing[c])>>]
           \o <<<<60, End>>,
                <<70, Loop("K", k)>>, <<80, Let("A", Plus(V("A"), N(1)))>>,
                <<90, NextOf(<<"K">>)>>, <<100, Return>>>>)

(* How many times the call, made once in each round, gets to line 80.      *)
CallKinds == {[stmt |-> Gosub(N(70)),             times |-> 1],
          [stmt |-> Gosub(Plus(N(35), N(35))), times |-> 1],
          [stmt |-> OnGosub(Plus(N(1), Op("LT", <<V("A"), N(0)>>)), <<70, 100>>),
           times |-> 1],
          [stmt |-> OnGosub(N(2), <<70, 100>>), times |-> 0],
          [stmt |-> OnGosub(N(3), <<70, 100>>), times |-> 0]}

Loops ==
    {[source |-> Nested(i, j, k, closing, call.stmt),
      counts |-> {[A |-> call.times * Rounds(i) * Rounds(j) * Rounds(k),
                   I |-> i[1] + Rounds(i)]}] :
        i \in Bounds, j \in {<<0, 2>>, <<2, 1>>}, k \in {<<1, 2>>},
        closing \in Closings, call \in CallKinds}

(* Failures, in the middle of an expression, a loop, a subroutine, an IF   *)
(* or a READ; the trap is on the second line.                              *)
Zero == Minus(V("A"), V("A"))

Failing == {Let("S", Op("STR_LEFT", <<V("S"), Over(N(1), Zero)>>)),
            IfElse(Op("EQ", <<T(<<9>>), Fn("STR_CHR", Over(N(1), Zero))>>),
                   <<Line(3)>>, <<Let("A", N(2))>>),
            Gosub(Plus(N(30), Zero)),
            ForStep("A", N(1), Over(N(1), Zero), N(1)),
            Return,
            NextOf(<<"I">>),
            Read(<<"A", "S", "B">>)}

Working == {For("I", N(1), N(1)), For("A", N(0), N(1)), Gosub(N(4)),
            Goto(Plus(N(4), Zero)),
            IfElse(V("A"), <<Line(4)>>, <<Pop>>),
            OnGoto(V("A"), <<4, 6>>), OnGosub(N(1), <<4>>),
            Randomize(N(1)), Simple("DEG"),
            Data(<<Num(1), Num(2)>>)}

Handlers == {<<Let("A", ERR), NextOf(<<>>)>>, <<Trap(5), Goto(N(3))>>,
             <<Return, Goto(N(4))>>, <<Restore, Return>>}

Failures ==
    {Lines(<<Let("S", T(<<66>>)), Trap(5), first, second>> \o handler) :
        first \in Failing \cup Working, second \in Failing \cup Working,
        handler \in Handlers}

BasicPrograms ==
    WithPlaces(Loaded(Loops \cup {[source |-> s, counts |-> {}] :
                                     s \in Assignments \cup Failures}))

-----------------------------------------------------------------------------
(* A program of nested loops stops: each NEXT that goes back is one of     *)
(* finitely many, and each subroutine returns.                             *)
Terminates == prog.counts # {} => <>~CanExecute

(* When it does, the loops have gone round as often as their bounds say,   *)
(* the loop variable is one step past the last round, and no frame of a    *)
(* loop or of a subroutine is left.                                        *)
LoopsCount ==
    ~vm.running => \A count \in prog.counts :
        /\ vm.errorCode = ERR_NONE
        /\ vm.numVars["A"] = count.A
        /\ vm.numVars["I"] = count.I
        /\ vm.forStack = <<>> /\ vm.callStack = <<>>
=============================================================================
