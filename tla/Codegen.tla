------------------------------- MODULE Codegen -------------------------------
(***************************************************************************)
(* The code generators of compiler.c.  A compile_ function is modelled by  *)
(* the calls it makes, in their order: a sequence, computed from a parse   *)
(* tree.  Calls of compiler_emit and its like change the CompilerState, a  *)
(* record; those of other compile_ functions become calls in their turn.   *)
(* The calls that are still to be made, the first one first, are the C     *)
(* program's stack.                                                        *)
(*                                                                         *)
(* A parse tree node is a record tagged by k.  Statements of one program   *)
(* line are separate children of the root and carry the line's number, as  *)
(* parser_parse_program leaves them.                                       *)
(***************************************************************************)
EXTENDS Bytecode, SequencesExt

(* compiler_state_new *)
NewCompilerState ==
    [code |-> <<>>, lines |-> <<>>, data |-> <<>>, fixups |-> <<>>,
     error |-> FALSE]

Word == 0..65535                                 \* uint16_t
Operand16(n) == n % 65536                        \* a place of the code as an operand
Placeholder == 65535                             \* the operand 0xFFFF

CodeLen(cs) == Len(cs.code)                      \* the next pc

compiler_emit(cs, op, arg) == [cs EXCEPT !.code = Append(@, Instruction(op, arg))]

compiler_add_line_mapping(cs, line) ==
    [cs EXCEPT !.lines = Append(@, LineMapping(line, CodeLen(cs)))]

compiler_add_jump_fixup(cs, pc, line) ==
    [cs EXCEPT !.fixups = Append(@, [pc |-> pc, line |-> line])]

Patch(cs, pc, target) == [cs EXCEPT !.code[pc + 1].arg = Operand16(target)]

(* A round of the binary search over the 0-based places from left to       *)
(* right; it ends when the line is in the middle, or nowhere.              *)
Middle(range) == range.left + (range.right - range.left) \div 2
Halved(lines, line, range) ==
    LET mid == Middle(range)
    IN  IF range.left > range.right \/ lines[mid + 1].line = line THEN range
        ELSE IF lines[mid + 1].line < line THEN [range EXCEPT !.left = mid + 1]
        ELSE [range EXCEPT !.right = mid - 1]

(* Rounds for all the lines are enough; -1 when the line is absent.        *)
compiler_find_line_offset(cs, line) ==
    LET Search[n \in 0..Len(cs.lines)] ==
            IF n = 0 THEN [left |-> 0, right |-> Len(cs.lines) - 1]
            ELSE Halved(cs.lines, line, Search[n - 1])
        range == Search[Len(cs.lines)]
    IN  IF range.left > range.right THEN -1 ELSE cs.lines[Middle(range) + 1].offset

(* Mutant: the placeholder is emitted and no fixup recorded. *)
EmitReference_NoFixup(cs, op, number) ==
    LET offset == compiler_find_line_offset(cs, number % 65536)
    IN  compiler_emit(cs, op, IF offset >= 0 THEN offset ELSE Placeholder)

(* The pattern of every reference to a line: the offset when the line has  *)
(* already been met, else a placeholder to be patched at the end.  The     *)
(* constant written in the source is cast to uint16_t.                     *)
EmitReference(cs, op, number) ==
    LET line == number % 65536
        offset == compiler_find_line_offset(cs, line)
    IN  IF offset >= 0 THEN compiler_emit(cs, op, Operand16(offset))
        ELSE compiler_add_jump_fixup(compiler_emit(cs, op, Placeholder),
                                     CodeLen(cs), line)

(* Mutant: a reference to an unknown line is passed over. *)
ResolveFixup_Lenient(cs, fixup) ==
    LET offset == compiler_find_line_offset(cs, fixup.line)
    IN  IF offset < 0 THEN cs ELSE Patch(cs, fixup.pc, offset)

(* Mutant: the offset is counted from 1. *)
ResolveFixup_FromOne(cs, fixup) ==
    LET offset == compiler_find_line_offset(cs, fixup.line)
    IN  IF offset < 0 THEN [cs EXCEPT !.error = TRUE]
        ELSE Patch(cs, fixup.pc, offset + 1)

(* Mutant: the line of the jump is patched, not the jump. *)
ResolveFixup_AtLine(cs, fixup) ==
    LET offset == compiler_find_line_offset(cs, fixup.line)
    IN  IF offset < 0 THEN [cs EXCEPT !.error = TRUE] ELSE Patch(cs, 0, offset)

(* One round of compiler_resolve_jumps. *)
ResolveFixup(cs, fixup) ==
    LET offset == compiler_find_line_offset(cs, fixup.line)
    IN  IF offset < 0 THEN [cs EXCEPT !.error = TRUE] ELSE Patch(cs, fixup.pc, offset)

-----------------------------------------------------------------------------
(* Calls.                                                                  *)

Emit(op, arg)     == [call |-> "emit", op |-> op, arg |-> arg]
EmitNoOperand(op) == Emit(op, 0)
Reference(op, number) == [call |-> "reference", op |-> op, number |-> number]
AddData(items)    == [call |-> "data", items |-> items]
PatchHere(pc)     == [call |-> "patch", pc |-> pc]   \* operand = code_len
Expression(e)     == [call |-> "expression", e |-> e]
Statement(s)      == [call |-> "statement", stmt |-> s]
NextOne(slots, i) == [call |-> "next", slots |-> slots, i |-> i]
PrintOne(e)       == [call |-> "print", e |-> e]
ThenPart(s)       == [call |-> "then", stmt |-> s]   \* the rest of an IF
ElsePart(s, test) == [call |-> "else", stmt |-> s, test |-> test]

Expressions(es) == [i \in DOMAIN es |-> Expression(es[i])]
Statements(ss)  == [i \in DOMAIN ss |-> Statement(ss[i])]

-----------------------------------------------------------------------------
(* Expressions.                                                            *)

IsString(slot) == slot \in StringSlot

(* The opcodes of an access with n subscripts. *)
ReadOp(slot, n) ==
    IF IsString(slot) THEN IF n = 2 THEN "STR_ARRAY_GET_2D" ELSE "STR_ARRAY_GET_1D"
                      ELSE IF n = 2 THEN "ARRAY_GET_2D" ELSE "ARRAY_GET_1D"
WriteOp(slot, n) ==
    IF IsString(slot) THEN IF n = 2 THEN "STR_ARRAY_SET_2D" ELSE "STR_ARRAY_SET_1D"
                      ELSE IF n = 2 THEN "ARRAY_SET_2D" ELSE "ARRAY_SET_1D"

compile_expression(e) ==
    CASE e.k = "num" -> <<Emit("PUSH_CONST", e.val)>>
      [] e.k = "str" -> <<Emit("STR_PUSH", e.val)>>
      [] e.k = "var" -> <<Emit(IF IsString(e.slot) THEN "STR_PUSH_VAR"
                               ELSE "PUSH_VAR", e.slot)>>
      [] e.k = "elem" ->
            Append(Expressions(e.subs), Emit(ReadOp(e.slot, Len(e.subs)), e.slot))
      [] e.k = "op"  ->      \* an operator or a function: arguments, opcode
            Append(Expressions(e.args), EmitNoOperand(e.op))

-----------------------------------------------------------------------------
(* Statements.                                                             *)

(* The subscripts of the destination, if any, come before the value. *)
compile_let_stmt(s) ==
    LET n == Len(s.subs)
    IN  Expressions(s.subs)
        \o <<Expression(s.e),
             Emit(IF n > 0 THEN WriteOp(s.slot, n)
                  ELSE IF IsString(s.slot) THEN "STR_POP_VAR" ELSE "POP_VAR", s.slot)>>

(* DIM of one array; the sizes are constants.                              *)
compile_dim(s) ==
    Append([i \in DOMAIN s.sizes |-> Emit("PUSH_CONST", s.sizes[i])],
           Emit(IF Len(s.sizes) = 2 THEN "DIM_2D" ELSE "DIM_1D", s.slot))

(* GOTO and GOSUB of a constant line, or of a line computed at run time. *)
CompileBranch(target, op, computed) ==
    IF target.k = "num" THEN <<Reference(op, target.val)>>
    ELSE <<Expression(target), EmitNoOperand(computed)>>

(* Only the constant targets enter the jump table. *)
IsConstant(e) == e.k = "num"
ConstantTargets(s) ==
    LET Upto[n \in 0..Len(s.targets)] ==
            IF n = 0 THEN <<>>
            ELSE IF IsConstant(s.targets[n]) THEN Append(Upto[n - 1], s.targets[n])
            ELSE Upto[n - 1]
    IN  Upto[Len(s.targets)]
compile_on(s) ==
    LET targets == ConstantTargets(s)
    IN  <<Expression(s.e),
          Emit(IF s.gosub THEN "ON_GOSUB" ELSE "ON_GOTO", Len(targets))>>
        \o [i \in DOMAIN targets |-> Reference("NOP", targets[i].val)]

(* Mutant: FOR_INIT without a step. *)
compile_for_NoStep(s) ==
    <<Expression(s.from), Expression(s.to), Emit("FOR_INIT", s.slot)>>

(* A parse tree may hold a STEP expression (s.step), but compile_for looks *)
(* for it where the end of the statement is: the step pushed is always 1.  *)
compile_for(s) ==
    <<Expression(s.from), Expression(s.to), Emit("PUSH_CONST", 1),
      Emit("FOR_INIT", s.slot)>>

(* A variable named twice is emitted once; none at all closes any loop. *)
NextVariable(slots, i) ==
    IF \E j \in 1..(i - 1) : slots[j] = slots[i] THEN <<>>
    ELSE <<Emit("FOR_NEXT", slots[i])>>
compile_next(s) ==
    IF s.slots = <<>> THEN <<Emit("FOR_NEXT", NoVar)>>
    ELSE [i \in DOMAIN s.slots |-> NextOne(s.slots, i)]

compile_read(s) ==
    [i \in DOMAIN s.slots |->
        Emit(IF IsString(s.slots[i]) THEN "DATA_READ_STR" ELSE "DATA_READ_NUM", s.slots[i])]

compile_restore_stmt(s) ==
    IF s.line = <<>> THEN <<Emit("RESTORE", 0)>>
    ELSE <<Expression(s.line[1]), EmitNoOperand("RESTORE_LINE")>>

compile_randomize_stmt(s) == <<Expression(s.e), EmitNoOperand("RANDOMIZE")>>

-----------------------------------------------------------------------------
(* PRINT, INPUT and files.                                                 *)

(* The opcodes of the parse tree's operator nodes; other opcodes of an     *)
(* expression come from function calls.                                    *)
OperatorOps == {"ADD", "SUB", "MUL", "DIV", "POW", "EQ", "NE", "LT", "LE", "GT",
                "GE", "AND", "OR", "NEG", "NOT"}
StringCalls == {"STR_LEFT", "STR_RIGHT", "STR_MID", "STR_MID_2", "STR_CHR", "STR_STR"}

IsOperatorNode(e) == e.k = "sep" \/ (e.k = "op" /\ e.op \in OperatorOps)
IsTab(e) == e.k = "op" /\ e.op = "TAB_FUNC"
IsStringItem(e) ==
    \/ e.k = "str"
    \/ e.k \in {"var", "elem"} /\ IsString(e.slot)
    \/ e.k = "op" /\ e.op \in StringCalls

(* A separator, TAB or an expression. *)
PrintItem(e) ==
    IF e.k = "sep" THEN IF e.sep = "," THEN <<EmitNoOperand("PRINT_TAB")>> ELSE <<>>
    ELSE IF IsTab(e) THEN <<Expression(e)>>
    ELSE <<Expression(e), EmitNoOperand(IF IsStringItem(e) THEN "PRINT_STR"
                                        ELSE "PRINT_NUM")>>

(* The channel of a PRINT # is its first child, and nothing else tells it  *)
(* from an item: it is taken for one when the next child is an operator,   *)
(* and an item for a channel when the next child is none.                  *)
HasChannel(s) ==
    Len(s.items) >= 2 /\ ~IsOperatorNode(s.items[1]) /\ ~IsOperatorNode(s.items[2])

(* A statement that ends in a separator, for which a TAB counts, does not  *)
(* end the line.                                                           *)
compile_print(s) ==
    LET items == IF HasChannel(s) THEN Tail(s.items) ELSE s.items
        open  == items # <<>> /\ (items[Len(items)].k = "sep" \/ IsTab(items[Len(items)]))
    IN  (IF HasChannel(s)
         THEN <<Expression(s.items[1]), EmitNoOperand("SET_PRINT_CHANNEL")>> ELSE <<>>)
        \o [i \in DOMAIN items |-> PrintOne(items[i])]
        \o (IF open THEN <<>> ELSE <<EmitNoOperand("PRINT_NEWLINE")>>)

(* The first string constant is the prompt; every variable of the          *)
(* statement, one in the channel's number included, is a destination.      *)
compile_input(s) ==
    (IF s.prompt = <<>> THEN <<>> ELSE <<Emit("INPUT_PROMPT", s.prompt[1])>>)
    \o [i \in DOMAIN s.slots |->
            Emit(IF IsString(s.slots[i]) THEN "INPUT_STR" ELSE "INPUT_NUM", s.slots[i])]

(* The statements that are an opcode on their operands (OPEN, CLOSE, PUT,  *)
(* POINT, XIO, POKE), and those that store what it leaves (GET, NOTE,      *)
(* STATUS), the last variable first.                                       *)
CompileIO(s) ==
    Append(Expressions(s.args), EmitNoOperand(s.op))
    \o [i \in DOMAIN s.into |-> Emit("POP_VAR", s.into[Len(s.into) + 1 - i])]

(* The expression a statement starts with, if it starts with one. *)
Leading(s) ==
    CASE s.k \in {"goto", "gosub"}    -> <<s.target>>
      [] s.k \in {"if", "on", "random"} -> <<s.e>>
      [] s.k = "restore"              -> s.line
      [] s.k \in {"line", "trap"}      -> <<[k |-> "num", val |-> s.line]>>
      [] s.k = "print" /\ s.items # <<>> -> <<s.items[1]>>
      [] s.k = "io" /\ s.op \in {"POKE", "XIO"} -> <<s.args[1]>>
      [] OTHER -> <<>>

(* IF: a bare line number in either branch is a GOTO.  So is, after ELSE,  *)
(* any statement that starts with a number: ELSE GOSUB 100 is compiled as  *)
(* ELSE 100.  ELSE has one statement at most.                              *)
compile_else(s) ==
    LET first == Leading(s)
    IN  IF first # <<>> /\ first[1].k = "num"
        THEN <<Reference("JUMP", first[1].val)>>
        ELSE <<Statement(s)>>

compile_if_then(s) == <<Expression(s.e), ThenPart(s)>>

(* What compile_if_then calls from the test on, and from the end of the    *)
(* THEN part on.  The two jumps have the operand 0 until they are patched. *)
CompileThen(cs, s) ==
    <<Emit("JUMP_IF_FALSE", 0)>> \o Statements(s.then) \o <<ElsePart(s, CodeLen(cs))>>
CompileElse(cs, s, test) ==
    IF s.else = <<>> THEN <<PatchHere(test)>>
    ELSE <<Emit("JUMP", 0), PatchHere(test)>> \o compile_else(s.else[1])
         \o <<PatchHere(CodeLen(cs))>>

compile_statement(s) ==
    CASE s.k = "let"     -> compile_let_stmt(s)
      [] s.k = "dim"     -> compile_dim(s)
      [] s.k = "if"      -> compile_if_then(s)
      [] s.k = "line"    -> <<Reference("JUMP", s.line)>>
      [] s.k = "goto"    -> CompileBranch(s.target, "JUMP", "JUMP_LINE")
      [] s.k = "gosub"   -> CompileBranch(s.target, "GOSUB", "GOSUB_LINE")
      [] s.k = "on"      -> compile_on(s)
      [] s.k = "for"     -> compile_for(s)
      [] s.k = "next"    -> compile_next(s)
      [] s.k = "trap"    -> <<Reference("TRAP", s.line)>>
      [] s.k = "read"    -> compile_read(s)
      [] s.k = "data"    -> <<AddData(s.items)>>
      [] s.k = "restore" -> compile_restore_stmt(s)
      [] s.k = "random"  -> compile_randomize_stmt(s)
      [] s.k = "simple"  -> <<EmitNoOperand(s.op)>>
      [] s.k = "print"   -> compile_print(s)
      [] s.k = "input"   -> compile_input(s)
      [] s.k = "io"      -> CompileIO(s)

-----------------------------------------------------------------------------
(* What a call does to the compiler's state, and the calls it makes.       *)
Effect(cs, c) ==
    CASE c.call = "emit"      -> compiler_emit(cs, c.op, c.arg)
      [] c.call = "reference" -> EmitReference(cs, c.op, c.number)
      [] c.call = "data"      -> [cs EXCEPT !.data = @ \o c.items]
      [] c.call = "patch"     -> Patch(cs, c.pc, CodeLen(cs))
      [] OTHER -> cs

Calls(cs, c) ==
    CASE c.call = "expression" -> compile_expression(c.e)
      [] c.call = "statement"  -> compile_statement(c.stmt)
      [] c.call = "next"       -> NextVariable(c.slots, c.i)
      [] c.call = "print"      -> PrintItem(c.e)
      [] c.call = "then"       -> CompileThen(cs, c.stmt)
      [] c.call = "else"       -> CompileElse(cs, c.stmt, c.test)
      [] OTHER -> <<>>

(* The CompiledProgram a successful compilation hands to the machine. *)
CompiledProgram(cs) == [code |-> cs.code, lines |-> cs.lines, data |-> cs.data]
=============================================================================
