------------------------------- MODULE VMState -------------------------------
(***************************************************************************)
(* The state of the Basset virtual machine (struct VMState of vm.h) and    *)
(* the primitives every opcode handler of vm_execute is built from:        *)
(* vm_push, vm_pop, vm_pop_number, vm_pop_string, vm_call_push and so on.  *)
(*                                                                         *)
(* The C functions update *vm through a pointer.  Here each is an operator *)
(* from a machine record to a machine record (to a record [m, v] when the  *)
(* C function also returns a value), so that a handler is the composition  *)
(* of the calls the C handler makes, in the order it makes them.           *)
(***************************************************************************)
EXTENDS Library

CONSTANTS
    Programs,      \* the compiled programs that may be loaded
    MaxCalls,      \* bound: GOSUB stack entries explored
    MaxLoops       \* bound: FOR stack entries explored

ASSUME BoundAssumption == MaxCalls \in Nat /\ MaxLoops \in Nat

-----------------------------------------------------------------------------
(* Machine states.                                                         *)

ForLoopState == [var : Slot, limit : Number, step : Number, start : Nat]

Machine ==
    [pc            : Nat,
     running       : BOOLEAN,
     stack         : Seq(Value),
     callStack     : Seq(Nat),
     forStack      : Seq(ForLoopState),
     numVars       : [Slot -> Number],
     strVars       : [Slot -> Text],
     dataPointer   : Nat,
     trapLine      : Nat,
     trapEnabled   : BOOLEAN,
     trapTriggered : BOOLEAN,
     errorCode     : ErrorCode,
     heap          : Int]    \* strings allocated and not yet freed

(* The strings the operand stack owns. *)
StringsOn(stack) == Cardinality({i \in DOMAIN stack : stack[i].type = "str"})

vm_init ==
    [pc            |-> 0,
     running       |-> TRUE,
     stack         |-> <<>>,
     callStack     |-> <<>>,
     forStack      |-> <<>>,
     numVars       |-> [s \in Slot |-> 0],
     strVars       |-> [s \in Slot |-> <<>>],
     dataPointer   |-> 0,
     trapLine      |-> 0,
     trapEnabled   |-> FALSE,
     trapTriggered |-> FALSE,
     errorCode     |-> ERR_NONE,
     heap          |-> Cardinality(Slot)]

-----------------------------------------------------------------------------
(* Error handling.                                                         *)

(* Mutant: the strings are not freed with the stack that held them.        *)
vm_error_Leaks(m, code) ==
    IF m.trapEnabled /\ m.trapLine > 0
    THEN [m EXCEPT !.errorCode = code, !.stack = <<>>, !.pc = m.trapLine,
                   !.trapEnabled = FALSE, !.trapTriggered = TRUE]
    ELSE [m EXCEPT !.errorCode = code, !.running = FALSE]

(* An armed trap frees the operand stack, jumps and disarms; otherwise the *)
(* machine stops.  The GOSUB and FOR stacks are left as they are.          *)
vm_error(m, code) ==
    IF m.trapEnabled /\ m.trapLine > 0
    THEN [m EXCEPT !.errorCode     = code,
                   !.heap          = @ - StringsOn(m.stack),
                   !.stack         = <<>>,
                   !.pc            = m.trapLine,
                   !.trapEnabled   = FALSE,
                   !.trapTriggered = TRUE]
    ELSE [m EXCEPT !.errorCode = code, !.running = FALSE]

-----------------------------------------------------------------------------
(* The operand stack.  A popped string belongs to the caller, who must     *)
(* free it (Free) or hand it on; Alloc stands for a strdup.                *)

Alloc(m) == [m EXCEPT !.heap = @ + 1]
Free(m)  == [m EXCEPT !.heap = @ - 1]

vm_push(m, value) == [m EXCEPT !.stack = Append(@, value)]
vm_push_number(m, n) == vm_push(m, Num(n))

(* Every string pushed has just been allocated for the stack. *)
vm_push_string(m, s) == vm_push(Alloc(m), Str(s))

vm_pop(m) ==
    IF m.stack = <<>>
    THEN [m |-> vm_error(m, ERR_OVERFLOW), v |-> Num(0)]
    ELSE [m |-> [m EXCEPT !.stack = SubSeq(@, 1, Len(@) - 1)],
          v |-> m.stack[Len(m.stack)]]

(* A string where a number is due is freed, and 0 taken in its place. *)
vm_pop_number(m) ==
    LET p == vm_pop(m)
    IN  IF p.v.type = "num"
        THEN [m |-> p.m, v |-> p.v.num]
        ELSE [m |-> Free(vm_error(p.m, ERR_TYPE_MISMATCH)), v |-> 0]

(* A number where a string is due gives a fresh empty string. *)
vm_pop_string(m) ==
    LET p == vm_pop(m)
    IN  IF p.v.type = "str"
        THEN [m |-> p.m, v |-> p.v.str]
        ELSE [m |-> Alloc(vm_error(p.m, ERR_TYPE_MISMATCH)), v |-> <<>>]

-----------------------------------------------------------------------------
(* The GOSUB and FOR stacks.                                               *)

vm_call_push(m, return_addr) ==
    [m EXCEPT !.callStack = Append(@, return_addr)]

vm_call_pop(m) ==
    IF m.callStack = <<>>
    THEN [m |-> vm_error(m, ERR_RETURN_WITHOUT_GOSUB), v |-> 0]
    ELSE [m |-> [m EXCEPT !.callStack = SubSeq(@, 1, Len(@) - 1)],
          v |-> m.callStack[Len(m.callStack)]]

vm_for_push(m, state) == [m EXCEPT !.forStack = Append(@, state)]
vm_for_top(m) == m.forStack[Len(m.forStack)]

vm_for_pop(m) ==
    IF m.forStack = <<>> THEN m
    ELSE [m EXCEPT !.forStack = SubSeq(@, 1, Len(@) - 1)]

-----------------------------------------------------------------------------
(* The end of a handler.                                                   *)

SetPc(m, target) == [m EXCEPT !.pc = target]
Advance(m) == SetPc(m, m.pc + 1)             \* vm->pc++

(* Mutant: nothing resets the flag. *)
EndInstruction_KeepsFlag(m) == m

(* The tail of the loop of vm_execute: the trap flag never outlives the    *)
(* instruction that raised it.                                             *)
EndInstruction(m) == [m EXCEPT !.trapTriggered = FALSE]

-----------------------------------------------------------------------------
(* The running machine.                                                    *)

VARIABLES
    prog,      \* vm->program: chosen once, when the program is loaded
    vm         \* the rest of *vm

vars == <<prog, vm>>

(* The instruction at pc, and the loop condition of vm_execute.            *)
Inst == prog.code[vm.pc + 1]
CanExecute == vm.running /\ vm.pc < Len(prog.code)
Executing(op) == CanExecute /\ Inst.op = op
ExecutingOneOf(ops) == CanExecute /\ Inst.op \in ops

(* The handler leaves the machine as m. *)
Commit(m) == vm' = EndInstruction(m) /\ UNCHANGED prog

Init == prog \in Programs /\ vm = vm_init
=============================================================================
