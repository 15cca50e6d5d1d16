------------------------------- MODULE Compiler -------------------------------
(***************************************************************************)
(* compiler_compile as a state machine: the statements of the source one   *)
(* after the other, each call of a code generator a step, then the fixups, *)
(* which resolve the references to lines not yet met when they were        *)
(* compiled.  The checks relate the code to its source text.               *)
(***************************************************************************)
EXTENDS Codegen, Verifier

CONSTANTS
    ParseTree,      \* the expressions of the sources, and all parts of them
    StatementTree,  \* the statements, and all statements within them
    Depth,          \* how deep IFs are nested in a statement
    Sources         \* the programs that may be compiled

VARIABLES
    source,      \* root: the statements, with their lines
    cs,          \* the CompilerState
    todo,        \* the calls that are still to be made
    next,        \* i: the next child of root, then the next fixup, from 1
    phase        \* "compiling", "resolving", then "compiled" or "failed"

compilerVars == <<source, cs, todo, next, phase>>

-----------------------------------------------------------------------------
(* What the parser leaves.                                                 *)

ExpressionOps ==
    UnaryOps \cup BinaryOps \cup CompareOps \cup StrToNumOps \cup NumToStrOps
    \cup SliceOps \cup {"STR_MID", "FN_ERR", "FUNC_PEEK", "TAB_FUNC"}
SimpleOps == {"RETURN", "POP_GOSUB", "CLR", "DEG", "RAD", "END", "STOP"}
StatementOps == {"OPEN", "CLOSE", "PUT", "GET", "NOTE", "POINT", "STATUS", "XIO", "POKE"}
Separator == [k : {"sep"}, sep : {",", ";"}]

IsExpression(e) ==
    \/ e.k = "num" /\ e.val \in Number
    \/ e.k = "str" /\ e.val \in Text
    \/ e.k = "var" /\ e.slot \in Slot
    \/ e.k = "elem" /\ e.slot \in Slot /\ e.subs \in Seq(ParseTree)
                    /\ Len(e.subs) \in 1..2
    \/ e.k = "op" /\ e.op \in ExpressionOps /\ e.args \in Seq(ParseTree)

IsStatement(s) ==
    \/ s.k = "let" /\ s.slot \in Slot /\ s.e \in ParseTree
                   /\ s.subs \in Seq(ParseTree) /\ Len(s.subs) \in 0..2
    \/ s.k = "dim" /\ s.slot \in Slot /\ s.sizes \in Seq(Number) /\ Len(s.sizes) \in 1..2
    \/ s.k = "if" /\ s.e \in ParseTree /\ s.then \in Seq(StatementTree)
                  /\ s.else \in Seq(StatementTree) /\ Len(s.else) \in 0..1
                  /\ \A t \in ToSet(s.then) \cup ToSet(s.else) : Depth[t] < Depth[s]
    \/ s.k \in {"line", "trap"} /\ s.line \in Nat
    \/ s.k \in {"goto", "gosub"} /\ s.target \in ParseTree
    \/ s.k = "on" /\ s.e \in ParseTree /\ s.targets \in Seq(ParseTree)
                  /\ s.gosub \in BOOLEAN
    \/ s.k = "for" /\ s.slot \in Slot /\ s.from \in ParseTree /\ s.to \in ParseTree
    \/ s.k \in {"next", "read"} /\ s.slots \in Seq(Slot)
    \/ s.k = "data" /\ s.items \in Seq(DataEntryType)
    \/ s.k = "restore" /\ s.line \in Seq(ParseTree) /\ Len(s.line) \in 0..1
    \/ s.k = "random" /\ s.e \in ParseTree
    \/ s.k = "simple" /\ s.op \in SimpleOps
    \/ s.k = "print" /\ s.items \in Seq(ParseTree \cup Separator)
    \/ s.k = "input" /\ s.prompt \in Seq(Text) /\ Len(s.prompt) \in 0..1
                     /\ s.slots \in Seq(Slot)
    \/ s.k = "io" /\ s.op \in StatementOps /\ s.args \in Seq(ParseTree)
                  /\ s.args # <<>> /\ s.into \in Seq(Slot)

(* Lines do not descend (LinesAscend in Derivation); those of the          *)
(* statements that are separated by colons are the same.                   *)
ASSUME SyntaxAssumption ==
    /\ Number \subseteq Int /\ 1 \in Number
    /\ \A e \in ParseTree : IsExpression(e)
    /\ Depth \in [StatementTree -> Nat]
    /\ \A s \in StatementTree : IsStatement(s)
    /\ Sources \subseteq Seq([line : Word, stmt : StatementTree])
    /\ \A s \in Sources : \A i, j \in DOMAIN s : i < j => s[i].line <= s[j].line

-----------------------------------------------------------------------------
(* compiler_compile.                                                       *)

CompilerInit ==
    /\ source \in Sources
    /\ cs = NewCompilerState
    /\ todo = <<>>
    /\ next = 1
    /\ phase = "compiling"

(* A round of phases 2 and 3 of the function: the position of the line,    *)
(* then the statement.                                                     *)
CompileNextStatement ==
    /\ phase = "compiling" /\ todo = <<>>
    /\ next <= Len(source)
    /\ cs' = compiler_add_line_mapping(cs, source[next].line)
    /\ todo' = <<Statement(source[next].stmt)>>
    /\ next' = next + 1
    /\ UNCHANGED <<source, phase>>

(* The next call, of compile_statement and all that it calls.              *)
MakeCall ==
    /\ todo # <<>>
    /\ cs' = Effect(cs, Head(todo))
    /\ todo' = Calls(cs, Head(todo)) \o Tail(todo)
    /\ UNCHANGED <<source, next, phase>>

(* compiler_resolve_jumps, called when all statements have been compiled;  *)
(* the first fixup whose line is unknown ends it, and the program is freed.*)
ResolveJumps ==
    /\ phase = "compiling" /\ todo = <<>>
    /\ next > Len(source)
    /\ phase' = "resolving"
    /\ next' = 1
    /\ UNCHANGED <<source, cs, todo>>

ResolveNextFixup ==
    /\ phase = "resolving"
    /\ next <= Len(cs.fixups)
    /\ cs' = ResolveFixup(cs, cs.fixups[next])
    /\ next' = next + 1
    /\ phase' = IF cs'.error THEN "failed" ELSE phase
    /\ UNCHANGED <<source, todo>>

ReturnProgram ==
    /\ phase = "resolving"
    /\ next > Len(cs.fixups)
    /\ phase' = "compiled"
    /\ UNCHANGED <<source, cs, todo, next>>

CompilerNext ==
    \/ CompileNextStatement \/ MakeCall
    \/ ResolveJumps \/ ResolveNextFixup \/ ReturnProgram

CompilerSpec == CompilerInit /\ [][CompilerNext]_compilerVars

-----------------------------------------------------------------------------
(* The source, read without the compiler.                                  *)

(* The references a statement makes to lines, in the order of its text;    *)
(* Skip stands for the jump over an ELSE part.                             *)
Skip == [k |-> "skip"]
LineNumber(n) == [k |-> "num", val |-> n]

OwnReferences(s) ==
    CASE s.k \in {"line", "trap"} -> <<LineNumber(s.line)>>
      [] s.k \in {"goto", "gosub"} ->
            IF s.target.k = "num" THEN <<LineNumber(s.target.val)>> ELSE <<>>
      [] s.k = "on" -> [i \in DOMAIN ConstantTargets(s) |->
                           LineNumber(ConstantTargets(s)[i].val)]
      [] OTHER -> <<>>

References[s \in StatementTree] ==
    IF s.k = "if"
    THEN FlattenSeq([i \in DOMAIN s.then |-> References[s.then[i]]])
         \o (IF s.else = <<>> THEN <<>> ELSE <<Skip>> \o References[s.else[1]])
    ELSE OwnReferences(s)

(* The instructions whose operands refer to a place of the code: jumps and *)
(* the entries of jump tables.                                             *)
IsReference(inst) == inst.op \in {"JUMP", "GOSUB", "TRAP", "NOP"}

(* The code of statement i of the source, as 1-based first and last.       *)
FirstInst(i) == cs.lines[i].offset + 1
LastInst(i) == IF i = Len(cs.lines) THEN Len(cs.code) ELSE cs.lines[i + 1].offset

ReferencesIn(first, last) == {j \in first..last : IsReference(cs.code[j])}

(* Where the first statement of a line starts. *)
Defined(line) == \E i \in DOMAIN source : source[i].line = line
FirstOf(line) == CHOOSE i \in DOMAIN source :
                    /\ source[i].line = line
                    /\ \A j \in 1..(i - 1) : source[j].line # line
StartOf(line) == cs.lines[FirstOf(line)].offset

(* Each place of the code has a number of sixteen bits of its own.         *)
Fits == Len(cs.code) < Placeholder

(* The instructions, counted from 1, that are still to be patched: by the  *)
(* end of an IF part that is being compiled, or by a fixup.                *)
OwedByIf ==
    {todo[t].test + 1 : t \in {u \in DOMAIN todo : todo[u].call = "else"}}
    \cup {todo[t].pc + 1 : t \in {u \in DOMAIN todo : todo[u].call = "patch"}}
Unresolved ==
    CASE phase = "compiling" -> DOMAIN cs.fixups
      [] phase = "resolving" -> next..Len(cs.fixups)
      [] OTHER -> {}
OwedByFixup == {cs.fixups[f].pc + 1 : f \in Unresolved}

-----------------------------------------------------------------------------
(* Properties.                                                             *)

(* Every reference of the source has become the operand of an instruction  *)
(* of its own statement, and names the first instruction of its line: a    *)
(* reference backwards, one forwards patched at the end, one in either     *)
(* branch of an IF, one in the table of an ON.                             *)
ReferencesResolved ==
    phase = "compiled" /\ Fits =>
        \A i \in DOMAIN source :
            LET wanted == References[source[i].stmt]
                found  == ReferencesIn(FirstInst(i), LastInst(i))
            IN  /\ Cardinality(found) = Len(wanted)
                /\ \A j \in found :
                      LET ref == wanted[Cardinality({h \in found : h <= j})]
                      IN  ref # Skip => cs.code[j].arg = StartOf(ref.val)

(* While it runs, the compiler owes a patch to exactly the references that *)
(* hold the placeholder, and owes each only once; and to each jump of an   *)
(* IF that still has the operand 0.                                        *)
PatchesOwed ==
    phase # "failed" /\ Fits =>
        /\ OwedByFixup = {i \in DOMAIN cs.code : /\ IsReference(cs.code[i])
                                                /\ cs.code[i].arg = Placeholder}
        /\ \A f, g \in Unresolved : cs.fixups[f].pc = cs.fixups[g].pc => f = g
        /\ \A i \in DOMAIN cs.code :
              cs.code[i].op = "JUMP_IF_FALSE" /\ cs.code[i].arg = 0 => i \in OwedByIf

(* Compilation fails exactly when the source refers to a line it lacks.    *)
FailsOnUndefinedLine ==
    phase \in {"compiled", "failed"} =>
        (phase = "failed") =
            \E i \in DOMAIN source :
                \E r \in ToSet(References[source[i].stmt]) :
                    r # Skip /\ ~Defined(r.val)

(* The code passes the verifier when the source has no operand of a wrong  *)
(* type: every path leaves the operand stack as its statement found it,    *)
(* and every jump lands on the start of a statement.                       *)
CompiledCodeVerifies ==
    phase = "compiled" /\ Fits =>
        \A p \in Annotated({CompiledProgram(cs)}) : WellFormed(p) /\ p.typed

(* Code once emitted is final, but for the operands still owed a patch;    *)
(* so an offset noted in the line map or in an earlier operand stays true. *)
EmittedStaysStep ==
    /\ Len(cs'.code) >= Len(cs.code)
    /\ \A i \in DOMAIN cs.code :
          \/ cs'.code[i] = cs.code[i]
          \/ /\ cs'.code[i].op = cs.code[i].op
             /\ i \in OwedByIf \cup OwedByFixup

EmittedCodeStays == [][EmittedStaysStep]_compilerVars

-----------------------------------------------------------------------------
(* What the sources must be like for the properties to hold of them.       *)

(* A reference to a line of several statements may find any of them.       *)
OneStatementALine ==
    \A s \in Sources : \A i, j \in DOMAIN s : i < j => s[i].line < s[j].line

(* The number after an ELSE is a line, and line numbers fit 16 bits.       *)
PlainReferences ==
    \A s \in StatementTree :
        /\ s.k \in {"line", "trap"} => s.line \in Word
        /\ s.k \in {"goto", "gosub"} /\ s.target.k = "num" => s.target.val \in Word
        /\ s.k = "on" => \A i \in DOMAIN s.targets :
              s.targets[i].k = "num" => s.targets[i].val \in Word
        /\ s.k = "if" /\ s.else # <<>> =>
              LET first == Leading(s.else[1])
              IN  first = <<>> \/ first[1].k # "num"
                  \/ s.else[1].k \in {"line", "trap", "goto", "gosub"}

(* The types an expression leaves on the operand stack. *)
Yields(e) ==
    CASE e.k = "num" -> <<"num">>
      [] e.k = "str" -> <<"str">>
      [] e.k \in {"var", "elem"} -> IF IsString(e.slot) THEN <<"str">> ELSE <<"num">>
      [] e.k = "op" -> IF e.op = "TAB_FUNC" THEN <<>>
                       ELSE IF e.op \in StringCalls THEN <<"str">> ELSE <<"num">>

IsNumber(e) == Yields(e) = <<"num">>

(* The operands, types and all, that op leaves the types given of.         *)
Applies(op, args, types) ==
    /\ \A i \in DOMAIN args : Len(Yields(args[i])) = 1
    /\ LET stack == [i \in DOMAIN args |-> Yields(args[i])[1]]
       IN  Takes(op, stack) /\ Leaves(op, stack) = types

TypedExpression(e) ==
    /\ e.k = "elem" => \A i \in DOMAIN e.subs : IsNumber(e.subs[i])
    /\ e.k = "op" => Applies(e.op, e.args, Yields(e))

TypedStatement(s) ==
    /\ s.k = "let" => /\ \A i \in DOMAIN s.subs : IsNumber(s.subs[i])
                      /\ Yields(s.e) = IF IsString(s.slot) THEN <<"str">> ELSE <<"num">>
    /\ s.k \in {"if", "on", "random"} => IsNumber(s.e)
    /\ s.k \in {"goto", "gosub"} => IsNumber(s.target)
    /\ s.k = "for" => IsNumber(s.from) /\ IsNumber(s.to)
    /\ s.k = "restore" => s.line = <<>>
    /\ s.k = "print" /\ HasChannel(s) => IsNumber(s.items[1])
    /\ s.k = "io" => Applies(s.op, s.args, [i \in DOMAIN s.into |-> "num"])

TypesAgree ==
    /\ \A e \in ParseTree : TypedExpression(e)
    /\ \A s \in StatementTree : TypedStatement(s)
=============================================================================
