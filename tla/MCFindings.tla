------------------------------ MODULE MCFindings ------------------------------
(***************************************************************************)
(* Programs on which the machine does not do what its documents say.  Each *)
(* property below states a sentence of the documents, and each run checks  *)
(* one of them on the family of programs that goes against it.             *)
(***************************************************************************)
EXTENDS VMArrays, MCPrograms

MCNumber == (-1..40) \cup {52, 53, 57}
MCSlot == {"A", "I", "S"}
MCStringSlot == {"S"}

-----------------------------------------------------------------------------
(* FOR ... STEP: the step is the one written in the source.                *)

StepPrograms ==
    Loaded({[source |-> Lines(<<ForStep("I", N(1), N(4), N(step)), NextOf(<<"I">>)>>),
             step |-> step] : step \in {1, 2}})

(* README.md, "FOR/NEXT loops (with optional STEP)": a FOR frame has the   *)
(* step of its statement.                                                  *)
StepHonoured ==
    \A i \in DOMAIN vm.forStack : vm.forStack[i].step = prog.step

-----------------------------------------------------------------------------
(* RESTORE with a line: READ goes on from that line's DATA.                *)

RestorePrograms ==
    Loaded({[source |-> Lines(<<Data(<<Num(11)>>), Data(<<Num(12)>>), Read(<<"A", "A">>),
                                RestoreTo(line), Read(<<"I">>), End>>),
             firstItem |-> 10 + line] : line \in {1, 2}})

(* docs/Virtual_Machine.md, "RESTORE line: Sets data_ptr to first DATA     *)
(* item on/after that line".                                               *)
RestoreReadsItsLine ==
    ~vm.running => vm.numVars["I"] = prog.firstItem

-----------------------------------------------------------------------------
(* Where an error caught by a trap goes on.                                *)

(* A program that meets stmt with a trap armed; the handler is line 4.     *)
Trapped(stmt) ==
    Lines(<<Let("S", T(<<9>>)), Trap(4), stmt, Let("A", ERR), End>>)

(* The statements: two that are caught as they should, NOT of a string,    *)
(* one of the handlers that do not test trap_triggered, and RETURN.        *)
CaughtPrograms ==
    Loaded(Sourced({Trapped(s) : s \in {NextOf(<<>>), Let("A", Fn("STR_LEN", N(1))),
                                        Let("A", Fn("NOT", V("S"))), Return}}))

(* docs/Architecture.md, "Runtime errors jump to trap line when enabled",  *)
(* and the end of vm_execute, "Ignore any PC increments that happened      *)
(* after the error": the handler is entered at its first instruction.      *)
EntersHandlerStep ==
    vm.trapEnabled /\ ~vm'.trapEnabled /\ vm'.running =>
        Inst.op = "TRAP_DISABLE" \/ vm'.pc = vm.trapLine

EntersHandler == [][EntersHandlerStep]_vars

-----------------------------------------------------------------------------
(* CLR and the strings of an array.                                        *)

ClrPrograms ==
    Loaded(Sourced({Lines(<<Dim(slot, <<1>>), first, Clr, End>>) :
        slot \in {"A", "S"}, first \in {Let("A", N(1)), Let("S", T(<<9>>))}}))

(* docs/Virtual_Machine.md, "Arrays: Freed on OP_CLR or VM shutdown" and   *)
(* "Every strdup() has corresponding free()": every string allocated is    *)
(* owned by a variable, a cell or the operand stack.                       *)
NothingLeaks == vm.heap = StringsOwned
=============================================================================
