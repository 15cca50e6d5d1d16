------------------------------ MODULE StackTyping ------------------------------
(***************************************************************************)
(* What it takes for a compiled program to be safe to run: a verifier for  *)
(* bytecode, in the style of those of other stack machines.  Basset has    *)
(* none; its code generators are meant to emit only code that passes it.   *)
(*                                                                         *)
(* A program carries, beside the fields of CompiledProgram, the shape of   *)
(* the operand stack expected before each instruction (and at the end): a  *)
(* sequence of types, bottom first; shape[pc + 1] belongs to pc.  Another  *)
(* field, typed, says that the program passes the verifier.  Both are      *)
(* annotations that the code does not hold.                                *)
(***************************************************************************)
EXTENDS Bytecode

Below(s) == SubSeq(s, 1, Len(s) - 1)
Above(s, type) == Append(s, type)
TopIs(s, type) == s # <<>> /\ s[Len(s)] = type

(* Opcodes by what they do to the stack. *)
PushNumOps  == {"PUSH_CONST", "PUSH_VAR", "FN_ERR"}
PushStrOps  == {"STR_PUSH", "STR_PUSH_VAR"}
TakeNumOps  == {"POP_VAR", "RANDOMIZE", "JUMP_IF_FALSE", "JUMP_IF_TRUE",
                "JUMP_LINE", "GOSUB_LINE", "ON_GOTO", "ON_GOSUB"}
UnaryOps    == {"NEG", "NOT", "FUNC_SIN", "FUNC_COS", "FUNC_TAN", "FUNC_ATN",
                "FUNC_EXP", "FUNC_RND", "FUNC_ABS", "FUNC_SGN", "FUNC_INT",
                "FUNC_LOG", "FUNC_CLOG", "FUNC_SQR"}
BinaryOps   == {"ADD", "SUB", "MUL", "MOD", "DIV", "POW", "AND", "OR"}
CompareOps  == {"EQ", "NE", "LT", "LE", "GT", "GE"}
StrToNumOps == {"STR_LEN", "STR_ASC", "STR_VAL"}
NumToStrOps == {"STR_CHR", "STR_STR"}
SliceOps    == {"STR_LEFT", "STR_RIGHT", "STR_MID_2"}
NoEffectOps == {"JUMP", "GOSUB", "RETURN", "POP_GOSUB", "FOR_NEXT", "TRAP",
                "TRAP_DISABLE", "END", "STOP", "NOP", "DEG", "RAD", "RESTORE",
                "DATA_READ_NUM", "DATA_READ_STR", "CLR"}

(* The array opcodes: a type, an operation and a number of subscripts.     *)
DimOps      == {"DIM_1D", "DIM_2D"}
NumGetOps   == {"ARRAY_GET_1D", "ARRAY_GET_2D"}
StrGetOps   == {"STR_ARRAY_GET_1D", "STR_ARRAY_GET_2D"}
NumSetOps   == {"ARRAY_SET_1D", "ARRAY_SET_2D"}
StrSetOps   == {"STR_ARRAY_SET_1D", "STR_ARRAY_SET_2D"}
NumArrayOps == NumGetOps \cup NumSetOps
StrArrayOps == StrGetOps \cup StrSetOps
ArrayOps    == DimOps \cup NumArrayOps \cup StrArrayOps
Rank(op) == IF op \in {"DIM_2D", "ARRAY_GET_2D", "ARRAY_SET_2D",
                       "STR_ARRAY_GET_2D", "STR_ARRAY_SET_2D"} THEN 2 ELSE 1

(* The opcodes of input and output: the types each takes, the last on top, *)
(* and those it leaves.                                                    *)
IOPlainOps  == {"PRINT_NEWLINE", "PRINT_SPACE", "PRINT_TAB", "PRINT_NOSEP",
                "INPUT_PROMPT", "INPUT_NUM", "INPUT_STR"}
IONumOps    == {"SET_PRINT_CHANNEL", "PRINT_NUM", "TAB_FUNC", "CLOSE", "GET",
                "STATUS", "FUNC_PEEK", "NOTE"}
IOPairOps   == {"PUT", "POKE"}
IOOps == IOPlainOps \cup IONumOps \cup IOPairOps
            \cup {"PRINT_STR", "POINT", "OPEN", "XIO"}

IOTakes(op) ==
    CASE op \in IOPlainOps -> <<>>
      [] op \in IONumOps -> <<"num">>
      [] op \in IOPairOps -> <<"num", "num">>
      [] op = "PRINT_STR" -> <<"str">>
      [] op = "POINT" -> <<"num", "num", "num">>
      [] op = "OPEN" -> <<"num", "num", "num", "str">>
      [] op = "XIO" -> <<"num", "num", "num", "num", "str">>

IOLeaves(op) ==
    CASE op \in {"GET", "STATUS", "FUNC_PEEK"} -> <<"num">>
      [] op = "NOTE" -> <<"num", "num">>
      [] OTHER -> <<>>

Under(s, n) == SubSeq(s, 1, Len(s) - n)
EndsWith(s, types) ==
    Len(s) >= Len(types) /\ SubSeq(s, Len(s) - Len(types) + 1, Len(s)) = types

SubscriptsOn(s, n) == TopIs(s, "num") /\ (n = 2 => TopIs(Below(s), "num"))
BelowSubscripts(s, n) == IF n = 2 THEN Below(Below(s)) ELSE Below(s)

(* The operands an instruction needs on a stack of shape s. *)
Takes(op, s) ==
    \/ op \in NoEffectOps \cup PushNumOps \cup PushStrOps
    \/ op \in TakeNumOps \cup UnaryOps \cup NumToStrOps /\ TopIs(s, "num")
    \/ op \in StrToNumOps \cup {"STR_POP_VAR"} /\ TopIs(s, "str")
    \/ op \in BinaryOps /\ TopIs(s, "num") /\ TopIs(Below(s), "num")
    \/ op \in CompareOps /\ Len(s) >= 2 /\ s[Len(s)] = s[Len(s) - 1]
    \/ op \in SliceOps /\ TopIs(s, "num") /\ TopIs(Below(s), "str")
    \/ op = "STR_MID" /\ TopIs(s, "num")
                       /\ TopIs(Below(s), "num")
                       /\ TopIs(Below(Below(s)), "str")
    \/ op = "FOR_INIT" /\ TopIs(s, "num")
                        /\ TopIs(Below(s), "num")
                        /\ TopIs(Below(Below(s)), "num")
    \/ op \in DimOps \cup NumGetOps \cup StrGetOps /\ SubscriptsOn(s, Rank(op))
    \/ op \in NumSetOps /\ TopIs(s, "num") /\ SubscriptsOn(Below(s), Rank(op))
    \/ op \in StrSetOps /\ TopIs(s, "str") /\ SubscriptsOn(Below(s), Rank(op))
    \/ op \in IOOps /\ EndsWith(s, IOTakes(op))

(* The shape it leaves for the instruction that follows. *)
Leaves(op, s) ==
    CASE op \in NoEffectOps -> s
      [] op \in PushNumOps -> Above(s, "num")
      [] op \in PushStrOps -> Above(s, "str")
      [] op \in TakeNumOps \cup {"STR_POP_VAR"} -> Below(s)
      [] op \in UnaryOps \cup StrToNumOps -> Above(Below(s), "num")
      [] op \in NumToStrOps -> Above(Below(s), "str")
      [] op \in BinaryOps \cup CompareOps -> Above(Below(Below(s)), "num")
      [] op \in SliceOps -> Above(Below(Below(s)), "str")
      [] op = "STR_MID" -> Above(Below(Below(Below(s))), "str")
      [] op = "FOR_INIT" -> Below(Below(Below(s)))
      [] op \in DimOps -> BelowSubscripts(s, Rank(op))
      [] op \in NumGetOps -> Above(BelowSubscripts(s, Rank(op)), "num")
      [] op \in StrGetOps -> Above(BelowSubscripts(s, Rank(op)), "str")
      [] op \in NumSetOps \cup StrSetOps -> BelowSubscripts(Below(s), Rank(op))
      [] op \in IOOps -> Under(s, Len(IOTakes(op))) \o IOLeaves(op)
      [] OTHER -> s

-----------------------------------------------------------------------------
(* Control flow.                                                           *)

JumpOps    == {"JUMP", "JUMP_IF_FALSE", "JUMP_IF_TRUE", "GOSUB", "TRAP"}
OnOps      == {"ON_GOTO", "ON_GOSUB"}
ControlOps == JumpOps \cup OnOps \cup {"JUMP_LINE", "GOSUB_LINE", "RETURN",
                                       "FOR_INIT", "FOR_NEXT"}

(* pc is inside the jump table of an ON. *)
InTable(p, pc) ==
    \E i \in DOMAIN p.code : /\ p.code[i].op \in OnOps
                             /\ pc \in i..(i + p.code[i].arg - 1)

(* The places a statement may start at. *)
StatementStart(p, pc) ==
    /\ pc \in 0..Len(p.code)
    /\ p.shape[pc + 1] = <<>>
    /\ ~InTable(p, pc)

OperandOK(p, i) ==
    LET op == p.code[i].op
        arg == p.code[i].arg
    IN  /\ op = "PUSH_CONST" => arg \in Number
        /\ op = "STR_PUSH" => arg \in Text
        /\ op \in {"PUSH_VAR", "POP_VAR", "STR_PUSH_VAR", "STR_POP_VAR",
                   "FOR_INIT", "DATA_READ_NUM", "DATA_READ_STR", "INPUT_NUM",
                   "INPUT_STR"} => arg \in Slot
        /\ op = "INPUT_PROMPT" => arg \in Text
        /\ op \in DimOps => arg \in Slot
        /\ op \in NumArrayOps => arg \in Slot \ StringSlot
        /\ op \in StrArrayOps => arg \in StringSlot
        /\ op = "FOR_NEXT" => arg \in Slot \cup {NoVar}
        /\ op \in JumpOps => arg \in Nat
        /\ op \in OnOps => /\ arg \in Nat
                           /\ i + arg <= Len(p.code)
                           /\ \A k \in 1..arg : /\ p.code[i + k].op = "NOP"
                                                /\ p.code[i + k].arg \in Nat

(* What every output of the compiler satisfies, whatever its source. *)
WellFormed(p) ==
    /\ Len(p.code) \in Nat /\ DOMAIN p.code = 1..Len(p.code)
    /\ \A i \in DOMAIN p.code : OperandOK(p, i)
    /\ \A i \in DOMAIN p.lines : p.lines[i].offset \in Nat
    /\ Len(p.data) \in Nat /\ DOMAIN p.data = 1..Len(p.data)
    /\ \A i \in DOMAIN p.data : p.data[i] \in DataEntryType

(* What it satisfies when no operand of the source has the wrong type.     *)
WellTyped(p) ==
    /\ p.shape[1] = <<>>
    /\ \A i \in DOMAIN p.code :
          LET op == p.code[i].op
              arg == p.code[i].arg
          IN  /\ Takes(op, p.shape[i])
              /\ p.shape[i + 1] = Leaves(op, p.shape[i])
              /\ op \in ControlOps => p.shape[i + 1] = <<>>
              /\ op \in JumpOps => StatementStart(p, arg)
              /\ op \in OnOps => \A k \in 1..arg :
                                    StatementStart(p, p.code[i + k].arg)
    /\ \A i \in DOMAIN p.lines : StatementStart(p, p.lines[i].offset)
=============================================================================
