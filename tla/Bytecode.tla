------------------------------- MODULE Bytecode -------------------------------
(***************************************************************************)
(* What the compiler and the virtual machine share: the values, variable   *)
(* slots, instructions and compiled programs of bytecode.h and compiler.h. *)
(*                                                                         *)
(* An instruction carries the pooled constant itself rather than its index *)
(* in const_pool or string_pool: both pools only ever grow, so the index   *)
(* and the value determine each other.                                     *)
(***************************************************************************)
EXTENDS Integers, Sequences, FiniteSets

CONSTANTS
    Number,        \* the doubles told apart by the model: a set of integers
    Slot,          \* the variable slots of the compiled program
    StringSlot,    \* the slots whose variable's name contains a '$'
    NoVar          \* the operand 0xFFFF of a NEXT that names no variable

Char == 1..255             \* a char of a C string, never the terminator
Text == Seq(Char)          \* a C string

ASSUME SlotAssumption ==
    /\ IsFiniteSet(Slot)
    /\ StringSlot \subseteq Slot
    /\ NoVar \notin Slot

Num(n) == [type |-> "num", num |-> n]
Str(s) == [type |-> "str", str |-> s]
NullData == [type |-> "null"]        \* DATA_NULL, an empty DATA item
NumValue == [type : {"num"}, num : Number]
StrValue == [type : {"str"}, str : Text]
Value == NumValue \cup StrValue

Instruction(op, arg) == [op |-> op, arg |-> arg]

(* One DATA item, and one entry of the line map. *)
DataEntryType == Value \cup {NullData}
LineMapping(line, offset) == [line |-> line, offset |-> offset]
=============================================================================
