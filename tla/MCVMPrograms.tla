----------------------------- MODULE MCVMPrograms -----------------------------
(***************************************************************************)
(* Two families of programs, and three for opcodes that neither meets.  In *)
(* the first the control statements meet each other in any order: loops    *)
(* entered twice, left by GOTO or closed by the wrong NEXT, subroutines    *)
(* fallen into, recursion, POP.  In the second statements fail, in the     *)
(* middle of an expression, a loop, a subroutine or a READ, under a trap   *)
(* whose handler may fail again or arm the trap once more.                 *)
(***************************************************************************)
EXTENDS VM, MCPrograms

MCNumber == (-1..40) \cup {52, 53, 57}
MCSlot == {"A", "I", "S"}
MCStringSlot == {"S"}

Menu == {Let("A", Plus(V("A"), N(1))),
         If(Op("GT", <<V("A"), N(1)>>), Line(4)),
         Goto(N(1)),
         Gosub(N(3)),
         OnGosub(V("A"), <<3, 4>>),
         OnGoto(V("A"), <<3, 1>>),
         Return,
         Pop,
         For("I", N(1), N(2)),
         NextOf(<<"I">>),
         End}

Tangles == {Lines(s) : s \in [1..4 -> Menu]}

Zero == Minus(V("A"), V("A"))

(* Statements that fail, some of them with values on the operand stack.    *)
Failing == {Let("A", Plus(N(2), Over(N(1), Zero))),
            Let("A", Plus(N(2), Fn("FUNC_LOG", Zero))),
            Let("A", Fn("FUNC_SQR", Minus(Zero, N(1)))),
            Let("S", Op("STR_LEFT", <<V("S"), Over(N(1), Zero)>>)),
            If(Op("EQ", <<T(<<9>>), Fn("STR_CHR", Over(N(1), Zero))>>), Line(3)),
            Goto(Plus(N(30), Zero)),
            Gosub(Plus(N(30), Zero)),
            Return,
            NextOf(<<"I">>),
            Read(<<"A", "A">>)}

Working == {For("I", N(1), N(1)), For("A", N(0), N(1)), Gosub(N(4)),
            Gosub(Plus(N(4), Zero)),
            Goto(Plus(N(4), Zero)), Let("A", N(1)), Data(<<Num(1)>>),
            Let("S", Fn("STR_CHR", N(9)))}

Handlers == {<<Let("A", ERR), NextOf(<<>>)>>, <<Trap(5), Goto(N(3))>>,
             <<Let("A", ERR), Return>>, <<Return, Goto(N(3))>>, <<End, Return>>}

(* The trap is on the second line: one at pc 0 is never taken.             *)
Failures ==
    {Lines(<<Let("S", T(<<66>>)), Trap(5), first, second>> \o handler) :
        first \in Failing \cup Working, second \in Failing \cup Working,
        handler \in Handlers}

(* Results of libm, and the opcodes the compiler never emits.              *)
Inexact == {Lines(<<Let("A", Op("POW", <<N(2), Fn("FUNC_SIN", N(1))>>))>>)}
Raw(code) == [code |-> code, lines |-> <<>>, data |-> <<>>, source |-> <<>>]
Uncompiled ==
    {Raw(<<Instruction("NOP", 0), Instruction("TRAP", 5),
           Instruction("PUSH_CONST", 0), Instruction("POP", 0), Instruction(op, 0),
           Instruction("PUSH_CONST", 0), Instruction("DUP", 0),
           Instruction("DIV", 0), Instruction("POP", 0)>>) :
        op \in {"NOP", "TRAP_DISABLE"}}

TangledAndFailing ==
    Loaded(Sourced(Tangles \cup Failures \cup Inexact)) \cup Annotated(Uncompiled)
=============================================================================
