----------------------------- MODULE MCVMMachine -----------------------------
(***************************************************************************)
(* The machine on any code, well-typed or not.  Every opcode runs on every *)
(* small operand stack: up to three operands of either type are pushed,    *)
(* and its result is stored, copied or dropped, with a trap armed or not;  *)
(* the array opcodes run twice.  No compiler is needed to write such code, *)
(* and the opcodes no code generator emits are in it.                      *)
(*                                                                         *)
(* And programs with arrays: an array declared in one of several shapes or *)
(* not at all, then statements that write, read, copy, declare again or    *)
(* clear it, in bounds and out of them.                                    *)
(***************************************************************************)
EXTENDS VMArrays, MCPrograms

MCNumber == -40..140
MCSlot == {"A", "S"}
MCStringSlot == {"S"}

Plain(op) == Instruction(op, 0)

Operands == {Instruction("PUSH_CONST", 0), Instruction("PUSH_CONST", -2),
             Instruction("STR_PUSH", <<50, 65>>), Instruction("STR_PUSH", <<>>)}
Typed == {Instruction("PUSH_CONST", 1), Instruction("STR_PUSH", <<9>>)}

Pushes(operands, n) == UNION {[1..m -> operands] : m \in 0..n}

Opcodes ==
    {Plain(op) : op \in UnaryOps \cup BinaryOps \cup CompareOps
                        \cup StrToNumOps \cup NumToStrOps \cup SliceOps
                        \cup {"STR_MID", "RESTORE", "RESTORE_LINE", "DEG", "DUP",
                              "POP", "FN_ERR", "RANDOMIZE", "STR_CONCAT",
                              "JUMP_LINE", "GOSUB_LINE", "RETURN",
                              "POP_GOSUB", "TRAP_DISABLE", "HALT"}}
    \cup {Instruction(op, "A") : op \in {"PUSH_VAR", "POP_VAR", "FOR_INIT",
                                         "FOR_NEXT", "DATA_READ_NUM"}}
    \cup {Instruction(op, "S") : op \in {"STR_PUSH_VAR", "STR_POP_VAR",
                                         "DATA_READ_STR"}}
    \cup {Instruction(op, 2) : op \in {"JUMP_IF_FALSE", "JUMP_IF_TRUE"}}
    \cup {Instruction(op, 1) : op \in OnOps}

Endings == {<<Instruction("POP_VAR", "A")>>, <<Instruction("STR_POP_VAR", "S")>>,
             <<Plain("DUP"), Plain("POP"), Plain("POP")>>}

ArrayOpcodes == {Instruction(op, "A") : op \in NumArrayOps \cup DimOps}
                \cup {Instruction(op, "S") : op \in StrArrayOps \cup DimOps}

(* An ON needs the table that follows it. *)
WithTable(op) ==
    IF op.op \in OnOps THEN <<op, Instruction("NOP", 2)>> ELSE <<op>>

(* The handler is instruction 2, and what follows it when it is skipped.   *)
Code(armed, body) ==
    <<Instruction("TRAP", 2), Instruction("JUMP", 3), Plain("END"),
      Plain(IF armed THEN "NOP" ELSE "TRAP_DISABLE")>>
    \o body \o <<Plain("END")>>

Bodies ==
    {prefix \o WithTable(op) \o suffix :
        prefix \in Pushes(Operands, 2)
                  \cup [1..3 -> Operands \ {Instruction("STR_PUSH", <<>>)}],
        op \in Opcodes, suffix \in Endings}
    \cup
    {prefix \o <<first>> \o prefix \o <<second>> :
        prefix \in Pushes(Typed, 3), first \in ArrayOpcodes, second \in ArrayOpcodes}

RawPrograms ==
    {[code |-> Code(armed, body), lines |-> <<LineMapping(0, 2)>>, data |-> <<Num(7)>>] :
        armed \in BOOLEAN, body \in Bodies}

-----------------------------------------------------------------------------
(* Programs with arrays.                                                   *)

A(subs) == Elem("A", subs)
S(subs) == Elem("S", subs)

Declarations == {Dim("A", <<1, 2>>), Dim("S", <<1>>), Dim("S", <<1, 2>>), Clr}

Menu == Declarations \cup
    {Dim("A", <<2>>),
     LetElem("A", <<N(1)>>, N(7)),
     LetElem("A", <<N(0), N(2)>>, N(8)),
     LetElem("A", <<N(2), N(0)>>, Plus(A(<<N(0), N(2)>>), N(1))),
     LetElem("A", <<A(<<N(1)>>)>>, N(9)),
     LetElem("S", <<N(1)>>, T(<<9>>)),
     LetElem("S", <<N(1), N(0)>>, S(<<N(1)>>)),
     LetElem("S", <<Fn("NEG", N(1))>>, T(<<9>>)),
     Let("S", S(<<N(0), N(1)>>)),
     Let("A", A(<<N(11)>>))}

ArraySources ==
    {Lines(<<start, first, second, third, End, Let("A", ERR)>>) :
        start \in {Trap(6), Clr}, first \in Declarations,
        second \in Menu, third \in Menu}

MachinePrograms == Loaded(Sourced(ArraySources)) \cup Annotated(RawPrograms)
=============================================================================
