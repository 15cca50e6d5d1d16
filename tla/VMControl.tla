------------------------------ MODULE VMControl ------------------------------
(***************************************************************************)
(* The opcode handlers of vm_execute that choose the next instruction, and *)
(* those that change the state such choices rest on: jumps, GOSUB and      *)
(* RETURN, ON, FOR and NEXT, TRAP, END.                                    *)
(***************************************************************************)
EXTENDS VMState

OP_JUMP ==
    /\ Executing("JUMP")
    /\ Commit(SetPc(vm, Inst.arg))

(* Unchecked: whatever pc an error has set is overwritten. *)
OP_JUMP_IF ==
    /\ ExecutingOneOf({"JUMP_IF_FALSE", "JUMP_IF_TRUE"})
    /\ LET cond  == vm_pop_number(vm)
           taken == (cond.v = 0) = (Inst.op = "JUMP_IF_FALSE")
       IN  Commit(IF taken THEN SetPc(cond.m, Inst.arg) ELSE Advance(cond.m))

-----------------------------------------------------------------------------
(* GOTO and GOSUB of a computed line.                                      *)

(* The offsets vm_find_line_offset may give for a line: when several       *)
(* entries of the map carry the line, its binary search stops at one.      *)
LineOffsets(line) ==
    {e.offset : e \in {prog.lines[i] : i \in
                        {j \in DOMAIN prog.lines : prog.lines[j].line = line}}}

OP_JUMP_LINE ==
    /\ Executing("JUMP_LINE")
    /\ LET p == vm_pop_number(vm)
           offsets == LineOffsets(p.v % 65536)
       IN  IF offsets = {} THEN Commit(vm_error(p.m, ERR_UNDEFINED_LINE))
           ELSE \E offset \in offsets : Commit(SetPc(p.m, offset))

(* The return address is computed from the pc the pop has left. *)
OP_GOSUB_LINE ==
    /\ Executing("GOSUB_LINE")
    /\ LET p == vm_pop_number(vm)
           offsets == LineOffsets(p.v % 65536)
       IN  IF offsets = {} THEN Commit(vm_error(p.m, ERR_UNDEFINED_LINE))
           ELSE /\ Len(vm.callStack) < MaxCalls
                /\ \E offset \in offsets :
                       Commit(SetPc(vm_call_push(p.m, p.m.pc + 1), offset))

-----------------------------------------------------------------------------
(* GOSUB, RETURN, ON.                                                      *)

OP_GOSUB ==
    /\ Executing("GOSUB")
    /\ Len(vm.callStack) < MaxCalls
    /\ Commit(SetPc(vm_call_push(vm, vm.pc + 1), Inst.arg))

(* vm->pc = vm_call_pop(vm): on an empty stack the 0 it returns is stored  *)
(* over the pc a trap has set.                                             *)
OP_RETURN ==
    /\ Executing("RETURN")
    /\ LET p == vm_call_pop(vm)
       IN  Commit(SetPc(p.m, p.v))

OP_POP_GOSUB ==
    /\ Executing("POP_GOSUB")
    /\ Commit(Advance(IF vm.callStack = <<>> THEN vm ELSE vm_call_pop(vm).m))

(* The table of count targets follows the instruction.  The handler reads  *)
(* it at, and skips it from, the pc the pop has left.                      *)
AfterTable(m) == SetPc(m, m.pc + Inst.arg + 1)
Target(m, index) == prog.code[m.pc + index + 1].arg

OP_ON_GOTO ==
    /\ Executing("ON_GOTO")
    /\ LET index == vm_pop_number(vm)
       IN  Commit(IF index.v \in 1..Inst.arg
                  THEN SetPc(index.m, Target(index.m, index.v))
                  ELSE AfterTable(index.m))

(* Mutant: the subroutine returns to the first entry of the table. *)
OP_ON_GOSUB_IntoTable ==
    /\ Executing("ON_GOSUB")
    /\ LET index == vm_pop_number(vm)
       IN  IF index.v \in 1..Inst.arg
           THEN /\ Len(vm.callStack) < MaxCalls
                /\ Commit(SetPc(vm_call_push(index.m, index.m.pc + 1),
                                Target(index.m, index.v)))
           ELSE Commit(AfterTable(index.m))

OP_ON_GOSUB ==
    /\ Executing("ON_GOSUB")
    /\ LET index == vm_pop_number(vm)
       IN  IF index.v \in 1..Inst.arg
           THEN /\ Len(vm.callStack) < MaxCalls
                /\ Commit(SetPc(vm_call_push(index.m, AfterTable(index.m).pc),
                                Target(index.m, index.v)))
           ELSE Commit(AfterTable(index.m))

-----------------------------------------------------------------------------
(* FOR and NEXT.                                                           *)

(* Mutant: the loop goes back to FOR_INIT itself. *)
OP_FOR_INIT_Again ==
    /\ Executing("FOR_INIT")
    /\ Len(vm.forStack) < MaxLoops
    /\ LET step  == vm_pop_number(vm)
           limit == vm_pop_number(step.m)
           start == vm_pop_number(limit.m)
           state == [var |-> Inst.arg, limit |-> limit.v, step |-> step.v,
                     start |-> start.m.pc]
       IN  Commit(Advance(vm_for_push(
             [start.m EXCEPT !.numVars[Inst.arg] = start.v], state)))

(* A frame is pushed whether or not one of the same loop is there already. *)
OP_FOR_INIT ==
    /\ Executing("FOR_INIT")
    /\ Len(vm.forStack) < MaxLoops
    /\ LET step  == vm_pop_number(vm)
           limit == vm_pop_number(step.m)
           start == vm_pop_number(limit.m)
           state == [var |-> Inst.arg, limit |-> limit.v, step |-> step.v,
                     start |-> start.m.pc + 1]
       IN  Commit(Advance(vm_for_push(
             [start.m EXCEPT !.numVars[Inst.arg] = start.v], state)))

(* Mutant: the last round is left out. *)
Done_Early(loop, value) == IF loop.step > 0 THEN value >= loop.limit
                                            ELSE value <= loop.limit

Done(loop, value) == IF loop.step > 0 THEN value > loop.limit
                                      ELSE value < loop.limit

(* Mutant: the variable is stepped before its name is checked. *)
OP_FOR_NEXT_StepsFirst ==
    /\ Executing("FOR_NEXT")
    /\ IF vm.forStack = <<>>
       THEN Commit(vm_error(vm, ERR_NEXT_WITHOUT_FOR))
       ELSE LET loop  == vm_for_top(vm)
                value == vm.numVars[loop.var] + loop.step
                stepped == [vm EXCEPT !.numVars[loop.var] = value]
            IN  IF Inst.arg \notin {NoVar, loop.var}
                THEN Commit(vm_error(stepped, ERR_FOR_NEXT_MISMATCH))
                ELSE Commit(IF Done(loop, value) THEN Advance(vm_for_pop(stepped))
                            ELSE SetPc(stepped, loop.start))

(* Mutant: the step is computed for the test and never stored. *)
OP_FOR_NEXT_NoStep ==
    /\ Executing("FOR_NEXT")
    /\ IF vm.forStack = <<>>
       THEN Commit(vm_error(vm, ERR_NEXT_WITHOUT_FOR))
       ELSE LET loop  == vm_for_top(vm)
                value == vm.numVars[loop.var] + loop.step
            IN  IF Inst.arg \notin {NoVar, loop.var}
                THEN Commit(vm_error(vm, ERR_FOR_NEXT_MISMATCH))
                ELSE Commit(IF Done(loop, value) THEN Advance(vm_for_pop(vm))
                            ELSE SetPc(vm, loop.start))

(* NEXT looks only at the innermost frame. *)
OP_FOR_NEXT ==
    /\ Executing("FOR_NEXT")
    /\ IF vm.forStack = <<>>
       THEN Commit(vm_error(vm, ERR_NEXT_WITHOUT_FOR))
       ELSE LET loop  == vm_for_top(vm)
                value == vm.numVars[loop.var] + loop.step
                stepped == [vm EXCEPT !.numVars[loop.var] = value]
            IN  IF Inst.arg \notin {NoVar, loop.var}
                THEN Commit(vm_error(vm, ERR_FOR_NEXT_MISMATCH))
                ELSE /\ value \in Number
                     /\ Commit(IF Done(loop, value)
                               THEN Advance(vm_for_pop(stepped))
                               ELSE SetPc(stepped, loop.start))

-----------------------------------------------------------------------------
(* TRAP, END and the rest.                                                 *)

OP_TRAP ==
    /\ Executing("TRAP")
    /\ Commit(Advance([vm EXCEPT !.trapLine = Inst.arg, !.trapEnabled = TRUE]))

OP_TRAP_DISABLE ==
    /\ Executing("TRAP_DISABLE")
    /\ Commit(Advance([vm EXCEPT !.trapEnabled = FALSE]))

(* HALT, STR_CONCAT and every unknown opcode reach the default case.       *)
OP_END ==
    /\ ExecutingOneOf({"END", "STOP", "HALT", "STR_CONCAT"})
    /\ Commit([vm EXCEPT !.running = FALSE])

(* The angle mode is abstracted with the functions that read it. *)
OP_NOP ==
    /\ ExecutingOneOf({"NOP", "DEG", "RAD"})
    /\ Commit(Advance(vm))

OP_RANDOMIZE ==
    /\ Executing("RANDOMIZE")
    /\ Commit(Advance(vm_pop_number(vm).m))
=============================================================================
