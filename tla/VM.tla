---------------------------------- MODULE VM ----------------------------------
(***************************************************************************)
(* The virtual machine: vm_execute as a next-state relation, one step per  *)
(* instruction, and what a running program may rely on.                    *)
(***************************************************************************)
EXTENDS VMExpr, VMControl, StackTyping

ASSUME ProgramAssumption ==
    \A p \in Programs : WellFormed(p) /\ (p.typed => WellTyped(p))

ExprStep ==
    \/ OP_PUSH_CONST \/ OP_PUSH_VAR \/ OP_STR_PUSH_VAR \/ OP_STR_PUSH
    \/ OP_POP_VAR \/ OP_STR_POP_VAR \/ OP_DUP \/ OP_POP
    \/ OP_ADD_SUB_MUL_MOD \/ OP_DIV \/ OP_POW \/ OP_NEG
    \/ OP_COMPARE \/ OP_AND_OR \/ OP_NOT
    \/ OP_STR_LEFT_RIGHT \/ OP_STR_MID \/ OP_STR_MID_2
    \/ OP_STR_LEN_ASC_VAL \/ OP_STR_CHR_STR
    \/ OP_FUNC_FLOAT \/ OP_FUNC_RND \/ OP_FUNC_EXACT \/ OP_FUNC_DOMAIN \/ OP_FN_ERR
    \/ OP_DATA_READ \/ OP_RESTORE

ControlStep ==
    \/ OP_JUMP \/ OP_JUMP_IF \/ OP_JUMP_LINE \/ OP_GOSUB_LINE
    \/ OP_GOSUB \/ OP_RETURN \/ OP_POP_GOSUB \/ OP_ON_GOTO \/ OP_ON_GOSUB
    \/ OP_FOR_INIT \/ OP_FOR_NEXT
    \/ OP_TRAP \/ OP_TRAP_DISABLE \/ OP_END \/ OP_NOP \/ OP_RANDOMIZE

Next == ExprStep \/ ControlStep

Spec == Init /\ [][Next]_vars

(* vm_execute loops without waiting for anyone: it takes a step whenever   *)
(* its loop condition holds.                                               *)
FairSpec == Spec /\ WF_vars(Next)

-----------------------------------------------------------------------------
(* Invariants.                                                             *)

TypeOK == vm \in Machine /\ ~vm.trapTriggered

Types(stack) == [i \in 1..Len(stack) |-> stack[i].type]

(* The operand stack of a well-typed program has, before every             *)
(* instruction, the shape the verifier computed: no path through jumps,    *)
(* loops, subroutines, caught errors and trap handlers leaves a value      *)
(* behind or takes one too many.                                           *)
StackSound ==
    prog.typed /\ vm.running =>
        /\ vm.pc \in 0..Len(prog.code)
        /\ ~InTable(prog, vm.pc)
        /\ Types(vm.stack) = prog.shape[vm.pc + 1]

(* A return address follows a GOSUB, or the jump table of an ON GOSUB.     *)
ReturnAddress(p, r) ==
    \E i \in DOMAIN p.code :
        \/ p.code[i].op \in {"GOSUB", "GOSUB_LINE"} /\ r = i
        \/ p.code[i].op = "ON_GOSUB" /\ r = i + p.code[i].arg

(* A FOR frame goes back to the instruction after a FOR_INIT of its own    *)
(* variable.                                                               *)
LoopFrame(p, f) ==
    \E i \in DOMAIN p.code : /\ p.code[i].op = "FOR_INIT"
                             /\ p.code[i].arg = f.var
                             /\ f.start = i

(* Whatever has been left on the GOSUB and FOR stacks by a GOTO out of a   *)
(* loop or by an error, RETURN and NEXT can only go back to a place those  *)
(* statements set, and a trap only to the start of a statement.            *)
ControlSound ==
    prog.typed =>
        /\ \A i \in DOMAIN vm.callStack : ReturnAddress(prog, vm.callStack[i])
        /\ \A i \in DOMAIN vm.forStack : LoopFrame(prog, vm.forStack[i])
        /\ vm.trapEnabled => StatementStart(prog, vm.trapLine)

(* A well-typed program meets no type mismatch and no stack underflow, so  *)
(* none of the handlers that fail to test trap_triggered matters to it.    *)
NoTypeError ==
    prog.typed =>
        vm.errorCode \notin {ERR_OVERFLOW, ERR_TYPE_MISMATCH}

(* Every string allocated is on the operand stack or in a variable, and    *)
(* every other one has been freed: nothing leaks and nothing is freed      *)
(* twice, also when an error empties the stack.                            *)
HeapBalanced ==
    prog.typed =>
        vm.heap = Cardinality(Slot) + StringsOn(vm.stack)

(* Whatever the program, ill-typed ones and hand-made bytecode included,   *)
(* and whatever errors it meets: no string is freed while the operand      *)
(* stack or a variable still owns it, and none is freed twice.  (Leaks are *)
(* another matter: see the README.)                                        *)
NoDoubleFree == vm.heap >= Cardinality(Slot) + StringsOn(vm.stack)

-----------------------------------------------------------------------------
(* Action properties.                                                      *)

Armed == vm.trapEnabled /\ vm.trapLine > 0

(* An armed trap is lost in one of three ways only: an error takes the     *)
(* machine to the trap line with an empty operand stack, TRAP_DISABLE, or  *)
(* the program ends.  RETURN without GOSUB is the exception: it catches    *)
(* the error and then restarts the program.                                *)
TrapCatchesStep ==
    prog.typed /\ Armed =>
        \/ vm'.running /\ vm'.trapEnabled
        \/ /\ vm'.running
           /\ vm'.stack = <<>>
           /\ vm'.pc = vm.trapLine \/ (Inst.op = "RETURN" /\ vm'.pc = 0)
           /\ vm'.errorCode # ERR_NONE
        \/ Inst.op = "TRAP_DISABLE"
        \/ ~vm'.running /\ Inst.op \in {"END", "STOP", "HALT", "STR_CONCAT"}

TrapCatches == [][TrapCatchesStep]_vars

(* A caught error changes no variable and neither of the two control       *)
(* stacks: the handler finds the program as the failing statement left it. *)
CaughtErrorStep ==
    prog.typed /\ Armed /\ vm'.running /\ ~vm'.trapEnabled =>
        /\ vm'.numVars = vm.numVars
        /\ vm'.strVars = vm.strVars
        /\ vm'.forStack = vm.forStack
        /\ vm'.callStack = vm.callStack
        /\ vm'.dataPointer = vm.dataPointer

CaughtErrorKeepsState == [][CaughtErrorStep]_vars
=============================================================================
