------------------------------- MODULE VMArrays -------------------------------
(***************************************************************************)
(* The machine with its arrays: DIM, the reads and writes of elements, and *)
(* CLR.  Every step of VM is a step here and leaves the arrays alone.      *)
(*                                                                         *)
(* ArrayData keeps its cells in one block of memory, row after row.  Two   *)
(* fields that the code keeps apart from it must agree with it: dim1 and   *)
(* dim2, which the bounds test reads; dim2 is 0 when there is one          *)
(* dimension.  The model leaves is_string to the slot, whose name decides  *)
(* it in vm_init and in the compiler's choice of opcode alike.             *)
(***************************************************************************)
EXTENDS VM

VARIABLE arrays

arrayVars == <<prog, vm, arrays>>

(* cells is <<>> for data == NULL: no array has fewer than one cell. *)
ArrayData(s) == [dim1 : Nat, dim2 : Nat,
                 cells : Seq(IF s \in StringSlot THEN Text ELSE Number)]

NoArray == [dim1 |-> 0, dim2 |-> 0, cells |-> <<>>]

Blank(s) == IF s \in StringSlot THEN <<>> ELSE 0

(* calloc, and a strdup("") for each cell of an array of strings.          *)
NewArray(s, dim1, dim2) ==
    [dim1 |-> dim1, dim2 |-> dim2,
     cells |-> [i \in 1..(IF dim2 = 0 THEN dim1 ELSE dim1 * dim2) |-> Blank(s)]]

(* The strings an array owns. *)
CellStrings(s, a) == IF s \in StringSlot THEN Len(a.cells) ELSE 0

(* The machine m ends the instruction, and a becomes the array of s. *)
CommitArray(m, s, a) ==
    /\ vm' = EndInstruction(m)
    /\ arrays' = [arrays EXCEPT ![s] = a]
    /\ UNCHANGED prog

-----------------------------------------------------------------------------
(* DIM.                                                                    *)

(* The old array is freed and a new one takes its place.  The strings      *)
(* freed are as many as the dimensions say to the DIM at hand: dim1 in     *)
(* DIM_1D and dim1 * dim2 in DIM_2D, whatever DIM has made the array.      *)
Redimension(m, s, freed, a) ==
    CommitArray(Advance([m EXCEPT !.heap = @ - freed + CellStrings(s, a)]), s, a)

FreedBy1D(s) == IF s \in StringSlot THEN arrays[s].dim1 ELSE 0
FreedBy2D(s) == IF s \in StringSlot THEN arrays[s].dim1 * arrays[s].dim2 ELSE 0

(* A size is a constant of the source, which has no sign.                  *)
OP_DIM_1D ==
    /\ Executing("DIM_1D")
    /\ LET s == Inst.arg
           size == vm_pop_number(vm)
       IN  /\ size.v >= 0
           /\ Redimension(size.m, s, FreedBy1D(s), NewArray(s, size.v + 1, 0))

(* Mutant: room for the columns of one row. *)
OP_DIM_2D_OneRow ==
    /\ Executing("DIM_2D")
    /\ LET s == Inst.arg
           col == vm_pop_number(vm)
           row == vm_pop_number(col.m)
       IN  /\ row.v >= 0 /\ col.v >= 0
           /\ Redimension(row.m, s, FreedBy2D(s),
                          [NewArray(s, col.v + 1, 0) EXCEPT !.dim1 = row.v + 1,
                                                            !.dim2 = col.v + 1])

OP_DIM_2D ==
    /\ Executing("DIM_2D")
    /\ LET s == Inst.arg
           col == vm_pop_number(vm)
           row == vm_pop_number(col.m)
       IN  /\ row.v >= 0 /\ col.v >= 0
           /\ Redimension(row.m, s, FreedBy2D(s),
                          NewArray(s, row.v + 1, col.v + 1))

-----------------------------------------------------------------------------
(* Elements.                                                               *)

DefaultDim == 11                  \* subscripts 0 to 10

(* An access to an array that no DIM has made makes one of its own rank.   *)
Accessed(s, rank) ==
    IF arrays[s].cells # <<>> THEN arrays[s]
    ELSE NewArray(s, DefaultDim, IF rank = 2 THEN DefaultDim ELSE 0)

(* The strings allocated for it. *)
AutoAlloc(m, s, a) ==
    [m EXCEPT !.heap = @ + CellStrings(s, a) - CellStrings(s, arrays[s])]

(* A negative subscript becomes a size_t above every dimension.            *)
Inside(subscript, dim) == subscript >= 0 /\ subscript < dim

(* Mutant: a column after the other. *)
CellIndex_ByColumn(a, row, col) == col * a.dim1 + row + 1

(* The place of element (row, col), counted from 1. *)
CellIndex(a, row, col) == row * a.dim2 + col + 1

(* Mutant: the flag is not tested. *)
SubscriptError_Unchecked(m) == Advance(vm_error(m, ERR_SUBSCRIPT_RANGE))

SubscriptError(m) ==
    LET failed == vm_error(m, ERR_SUBSCRIPT_RANGE)
    IN  IF failed.trapTriggered THEN failed ELSE Advance(failed)

(* A value popped is stored in a cell: it is an owned string in an array   *)
(* of strings, where it replaces the one the cell owned.                   *)
vm_pop_cell(m, s) == IF s \in StringSlot THEN vm_pop_string(m) ELSE vm_pop_number(m)
vm_push_cell(m, s, v) ==
    IF s \in StringSlot THEN vm_push_string(m, v) ELSE vm_push_number(m, v)
FreeCell(m, s) == IF s \in StringSlot THEN Free(m) ELSE m

GetCell(m, s, a, inside, i) ==
    CommitArray(IF inside THEN Advance(vm_push_cell(m, s, a.cells[i]))
                          ELSE SubscriptError(m), s, a)

(* Mutant: the value is freed whether it has been stored or not. *)
SetCell_FreesValue(m, s, a, inside, i, v) ==
    IF inside THEN CommitArray(Advance(FreeCell(FreeCell(m, s), s)), s,
                               [a EXCEPT !.cells[i] = v])
    ELSE CommitArray(FreeCell(SubscriptError(m), s), s, a)

(* Outside the bounds, a value that is a string is freed, unless a trap    *)
(* has caught the error: the handler ends before the free.                 *)
SetCell(m, s, a, inside, i, v) ==
    IF inside
    THEN CommitArray(Advance(FreeCell(m, s)), s, [a EXCEPT !.cells[i] = v])
    ELSE LET failed == SubscriptError(m)
         IN  CommitArray(IF failed.trapTriggered THEN failed
                         ELSE FreeCell(failed, s), s, a)

OP_ARRAY_GET_1D ==
    /\ ExecutingOneOf({"ARRAY_GET_1D", "STR_ARRAY_GET_1D"})
    /\ LET s == Inst.arg
           idx == vm_pop_number(vm)
           a == Accessed(s, 1)
       IN  GetCell(AutoAlloc(idx.m, s, a), s, a, Inside(idx.v, a.dim1), idx.v + 1)

(* The one access that looks at the depth of the stack first. *)
OP_ARRAY_SET_1D ==
    /\ ExecutingOneOf({"ARRAY_SET_1D", "STR_ARRAY_SET_1D"})
    /\ LET s == Inst.arg
           value == vm_pop_cell(vm, s)
           idx == vm_pop_number(value.m)
           a == Accessed(s, 1)
       IN  IF Len(vm.stack) < 2
           THEN CommitArray(vm_error(vm, ERR_OVERFLOW), s, arrays[s])
           ELSE SetCell(AutoAlloc(idx.m, s, a), s, a, Inside(idx.v, a.dim1),
                        idx.v + 1, value.v)

(* Mutant: the row is taken off the stack first. *)
OP_ARRAY_GET_2D_Swapped ==
    /\ ExecutingOneOf({"ARRAY_GET_2D", "STR_ARRAY_GET_2D"})
    /\ LET s == Inst.arg
           row == vm_pop_number(vm)
           col == vm_pop_number(row.m)
           a == Accessed(s, 2)
       IN  GetCell(AutoAlloc(col.m, s, a), s, a,
                   Inside(row.v, a.dim1) /\ Inside(col.v, a.dim2),
                   CellIndex(a, row.v, col.v))

OP_ARRAY_GET_2D ==
    /\ ExecutingOneOf({"ARRAY_GET_2D", "STR_ARRAY_GET_2D"})
    /\ LET s == Inst.arg
           col == vm_pop_number(vm)
           row == vm_pop_number(col.m)
           a == Accessed(s, 2)
       IN  GetCell(AutoAlloc(row.m, s, a), s, a,
                   Inside(row.v, a.dim1) /\ Inside(col.v, a.dim2),
                   CellIndex(a, row.v, col.v))

OP_ARRAY_SET_2D ==
    /\ ExecutingOneOf({"ARRAY_SET_2D", "STR_ARRAY_SET_2D"})
    /\ LET s == Inst.arg
           value == vm_pop_cell(vm, s)
           col == vm_pop_number(value.m)
           row == vm_pop_number(col.m)
           a == Accessed(s, 2)
       IN  SetCell(AutoAlloc(row.m, s, a), s, a,
                   Inside(row.v, a.dim1) /\ Inside(col.v, a.dim2),
                   CellIndex(a, row.v, col.v), value.v)

-----------------------------------------------------------------------------
(* CLR.  Every variable is cleared and every array forgotten.              *)
(*                                                                         *)
(* A string variable is freed and left NULL, which reads as the empty      *)
(* string and is not freed again: here it owns an empty string, so heap    *)
(* does not move.  The block of an array is freed, through u.data; data    *)
(* and str_data being one pointer, the strings in it are not.              *)
OP_CLR ==
    /\ Executing("CLR")
    /\ vm' = EndInstruction(Advance([vm EXCEPT !.numVars = [s \in Slot |-> 0],
                                               !.strVars = [s \in Slot |-> <<>>]]))
    /\ arrays' = [s \in Slot |-> NoArray]
    /\ UNCHANGED prog

-----------------------------------------------------------------------------
(* The machine.                                                            *)

ArrayInit == Init /\ arrays = [s \in Slot |-> NoArray]

ArrayStep ==
    \/ OP_DIM_1D \/ OP_DIM_2D
    \/ OP_ARRAY_GET_1D \/ OP_ARRAY_SET_1D \/ OP_ARRAY_GET_2D \/ OP_ARRAY_SET_2D
    \/ OP_CLR

ArrayNext == ArrayStep \/ (Next /\ UNCHANGED arrays)

ArraySpec == ArrayInit /\ [][ArrayNext]_arrayVars

-----------------------------------------------------------------------------
(* Invariants.                                                             *)

(* The dimensions of an array and its block agree, whatever DIM, CLR and   *)
(* first access have come before: every element the bounds test lets       *)
(* through is a cell of the block, also when an access counts the          *)
(* dimensions otherwise than the DIM did.  Without a block there are no    *)
(* dimensions, so a DIM frees nothing then.                                *)
ArraysShaped ==
    \A s \in Slot :
        LET a == arrays[s]
        IN  /\ a \in ArrayData(s)
            /\ a.cells = <<>> => a = NoArray
            /\ a.cells # <<>> =>
                  /\ a.dim1 \in DOMAIN a.cells
                  /\ a.dim2 > 0 => CellIndex(a, a.dim1 - 1, a.dim2 - 1)
                                       = Len(a.cells)

(* The cells that hold strings. *)
StringCells(all) == UNION {{s} \X DOMAIN all[s].cells : s \in StringSlot}

(* The strings that someone owns. *)
StringsOwned ==
    Cardinality(Slot) + StringsOn(vm.stack) + Cardinality(StringCells(arrays))

(* Whatever the program and its errors: no string is freed while the       *)
(* operand stack, a variable or a cell owns it, or after it has been freed *)
(* already.  In particular a DIM of an array that exists frees none of     *)
(* another array's strings, and no more than there are.                    *)
NoCellFreedTwice == vm.heap >= StringsOwned

-----------------------------------------------------------------------------
(* Action properties: an array is a function of its subscripts.            *)

ArrayRead  == {"ARRAY_GET_1D", "ARRAY_GET_2D", "STR_ARRAY_GET_1D", "STR_ARRAY_GET_2D"}
ArrayWrite == {"ARRAY_SET_1D", "ARRAY_SET_2D", "STR_ARRAY_SET_1D", "STR_ARRAY_SET_2D"}

(* The array of s, or the one that an access with n subscripts makes.      *)
Elements(array, s, n) ==
    LET a == IF array.cells # <<>> THEN array
             ELSE [dim1 |-> 11, dim2 |-> IF n = 2 THEN 11 ELSE 0,
                   cells |-> [i \in 1..(IF n = 2 THEN 121 ELSE 11) |-> Blank(s)]]
    IN  IF a.dim2 = 0 THEN [sub \in {<<i>> : i \in 0..(a.dim1 - 1)} |->
                                 a.cells[sub[1] + 1]]
        ELSE [sub \in (0..(a.dim1 - 1)) \X (0..(a.dim2 - 1)) |->
                 a.cells[sub[1] * a.dim2 + sub[2] + 1]]

(* The operands a program pushes: the subscripts, then the value.          *)
Operand(depth) ==
    LET v == vm.stack[Len(vm.stack) - depth]
    IN  IF v.type = "str" THEN v.str ELSE v.num

(* A write with as many subscripts as the array has dimensions changes     *)
(* that element, no other, and no other array; outside the bounds it       *)
(* changes none.                                                           *)
WriteStep ==
    prog.typed /\ Inst.op \in ArrayWrite =>
        LET n == Rank(Inst.op)
            s == Inst.arg
            before == Elements(arrays[s], s, n)
            after  == Elements(arrays'[s], s, n)
            sub == [k \in 1..n |-> Operand(n + 1 - k)]
        IN  /\ \A t \in Slot \ {s} : arrays'[t] = arrays[t]
            /\ \A other \in DOMAIN before : Len(other) = n =>
                  after[other] = IF other = sub THEN Operand(0) ELSE before[other]

WritesOneElement == [][WriteStep]_arrayVars

(* A read with as many subscripts as the array has dimensions pushes the   *)
(* element and changes none; outside the bounds it is an error, and pushes *)
(* nothing.                                                                *)
ReadStep ==
    prog.typed /\ Inst.op \in ArrayRead =>
        LET n == Rank(Inst.op)
            s == Inst.arg
            before == Elements(arrays[s], s, n)
            sub == [k \in 1..n |-> Operand(n - k)]
            element == IF s \in StringSlot THEN Str(before[sub]) ELSE Num(before[sub])
            below == SubSeq(vm.stack, 1, Len(vm.stack) - n)
        IN  /\ \A t \in Slot : Elements(arrays'[t], t, n) = Elements(arrays[t], t, n)
            /\ (\E other \in DOMAIN before : Len(other) = n) =>
                  IF sub \in DOMAIN before
                  THEN vm'.stack = Append(below, element) /\ vm'.errorCode = vm.errorCode
                  ELSE /\ vm'.errorCode = ERR_SUBSCRIPT_RANGE
                       /\ vm'.stack = IF vm'.running THEN <<>> ELSE below

ReadsElement == [][ReadStep]_arrayVars
=============================================================================
