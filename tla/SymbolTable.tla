------------------------------ MODULE SymbolTable ------------------------------
(***************************************************************************)
(* The symbol table and the pools of a compiled program (compiler.c): how  *)
(* a name, a number or a text becomes the operand of an instruction.       *)
(*                                                                         *)
(* The table is a sequence of variables and the pools are sequences; slots *)
(* and indices count from 0.  A name is a text; it is a string's when a    *)
(* '$' is in it.                                                           *)
(***************************************************************************)
EXTENDS Integers, FiniteSets, Sequences, SequencesExt

CONSTANTS
    MaxNumericVars,    \* MAX_NUMERIC_VARS, 128 in compiler.c
    MaxStringVars,     \* MAX_STRING_VARS, 128
    MaxArrays          \* MAX_ARRAYS, 64

(* Together they are far from what an operand of sixteen bits can hold.    *)
ASSUME LimitAssumption ==
    /\ MaxNumericVars \in Nat /\ MaxStringVars \in Nat /\ MaxArrays \in Nat
    /\ MaxNumericVars + MaxStringVars + MaxArrays < 65536

VarType == {"numeric", "string", "array"}
Dollar == 36

get_var_type(name) == IF Dollar \in ToSet(name) THEN "string" ELSE "numeric"

compiler_find_variable(vars, name) ==
    LET found == {i \in DOMAIN vars : vars[i].name = name}
    IN  IF found = {} THEN -1
        ELSE vars[CHOOSE i \in found : \A j \in found : i <= j].slot

Limit(type) == CASE type = "string"  -> MaxStringVars
                 [] type = "array"   -> MaxArrays
                 [] type = "numeric" -> MaxNumericVars

CountOf(vars, type) == Cardinality({i \in DOMAIN vars : vars[i].type = type})

(* Mutant: the slots of each type are counted apart. *)
compiler_add_variable_SlotsByType(vars, name, type) ==
    IF \/ compiler_find_variable(vars, name) >= 0
       \/ CountOf(vars, type) >= Limit(type)
    THEN vars
    ELSE Append(vars, [name |-> name, slot |-> CountOf(vars, type), type |-> type])

(* The table with name in it; past the limit the table is as it was, and   *)
(* the name has no slot.                                                   *)
compiler_add_variable(vars, name, type) ==
    IF \/ compiler_find_variable(vars, name) >= 0
       \/ CountOf(vars, type) >= Limit(type)
    THEN vars
    ELSE Append(vars, [name |-> name, slot |-> Len(vars), type |-> type])

(* compiler_add_const and compiler_add_string: the pool with an item in it *)
(* and the item's place.                                                   *)
Pooled(pool, item) == IF Contains(pool, item) THEN pool ELSE Append(pool, item)
IndexIn(pool, item) == SelectInSeq(pool, LAMBDA x : x = item) - 1

-----------------------------------------------------------------------------
(* discover_variables_in_tree, on one reference of the source: a DIM       *)
(* registers its variable as an array, then the variable itself is met.    *)
discover_variables(vars, ref) ==
    LET dim == IF ref.k = "dim" THEN compiler_add_variable(vars, ref.name, "array")
               ELSE vars
    IN  IF ref.k \in {"var", "dim"}
        THEN compiler_add_variable(dim, ref.name, get_var_type(ref.name))
        ELSE vars

(* An operand has sixteen bits: -1, for a name with no slot, is 65535.     *)
Operand16(n) == n % 65536
=============================================================================
