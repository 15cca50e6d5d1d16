-------------------------------- MODULE VMExpr --------------------------------
(***************************************************************************)
(* The opcode handlers of vm_execute that move and compute values: stack   *)
(* and variable transfer, arithmetic, comparison, logic, strings, numeric  *)
(* functions, ERR and READ.                                                *)
(*                                                                         *)
(* Some handlers test trap_triggered after popping and give up; the others *)
(* ("unchecked") carry on after an error: they pop from the stack vm_error *)
(* has emptied, push a result and step pc past the first instruction of    *)
(* the trap handler.  Which one a handler is decides most of what a TRAP   *)
(* does, so every test and every missing test is kept.                     *)
(***************************************************************************)
EXTENDS VMState

Smaller(a, b) == IF a < b THEN a ELSE b
AtLeastZero(a) == IF a < 0 THEN 0 ELSE a
Bool(p) == IF p THEN 1 ELSE 0

-----------------------------------------------------------------------------
(* Stack and variables.                                                    *)

OP_PUSH_CONST ==
    /\ Executing("PUSH_CONST")
    /\ Commit(Advance(vm_push_number(vm, Inst.arg)))

OP_PUSH_VAR ==
    /\ Executing("PUSH_VAR")
    /\ Commit(Advance(vm_push_number(vm, vm.numVars[Inst.arg])))

OP_STR_PUSH_VAR ==
    /\ Executing("STR_PUSH_VAR")
    /\ Commit(Advance(vm_push_string(vm, vm.strVars[Inst.arg])))

OP_STR_PUSH ==
    /\ Executing("STR_PUSH")
    /\ Commit(Advance(vm_push_string(vm, Inst.arg)))

OP_POP_VAR ==
    /\ Executing("POP_VAR")
    /\ LET p == vm_pop_number(vm)
       IN  Commit(Advance([p.m EXCEPT !.numVars[Inst.arg] = p.v]))

(* The string the variable held is freed, the popped one takes its place. *)
OP_STR_POP_VAR ==
    /\ Executing("STR_POP_VAR")
    /\ LET p == vm_pop_string(vm)
       IN  Commit(Advance(Free([p.m EXCEPT !.strVars[Inst.arg] = p.v])))

OP_DUP ==
    /\ Executing("DUP")
    /\ LET top == vm.stack[Len(vm.stack)]
       IN  Commit(Advance(
             IF vm.stack = <<>> THEN vm
             ELSE IF top.type = "str" THEN vm_push_string(vm, top.str)
             ELSE vm_push(vm, top)))

OP_POP ==
    /\ Executing("POP")
    /\ LET p == vm_pop(vm)
       IN  Commit(Advance(IF p.v.type = "str" THEN Free(p.m) ELSE p.m))

-----------------------------------------------------------------------------
(* Arithmetic.  Results outside Number are the bound of the model.         *)

(* fmod: the remainder has the sign of the dividend. *)
Fmod(a, b) ==
    LET remainder == (IF a < 0 THEN -a ELSE a) % (IF b < 0 THEN -b ELSE b)
    IN  IF a < 0 THEN -remainder ELSE remainder

(* Mutant: a difference of the operands in the order they are popped. *)
ArithResult_Swapped(op, a, b) ==
    CASE op = "ADD" -> a + b
      [] op = "SUB" -> b - a
      [] op = "MUL" -> a * b
      [] op = "MOD" -> Fmod(a, b)

ArithResult(op, a, b) ==
    CASE op = "ADD" -> a + b
      [] op = "SUB" -> a - b
      [] op = "MUL" -> a * b
      [] op = "MOD" -> Fmod(a, b)

OP_ADD_SUB_MUL_MOD ==
    /\ ExecutingOneOf({"ADD", "SUB", "MUL", "MOD"})
    /\ LET b == vm_pop_number(vm)
           a == vm_pop_number(b.m)
           result == ArithResult(Inst.op, a.v, b.v)
       IN  IF b.m.trapTriggered THEN Commit(b.m)
           ELSE IF a.m.trapTriggered THEN Commit(a.m)
           ELSE /\ Inst.op = "MOD" => b.v # 0          \* else not a number
                /\ result \in Number
                /\ Commit(Advance(vm_push_number(a.m, result)))

(* A quotient that is no integer stands for the integers around it. *)
Quotients(a, b) ==
    {q \in Number : IF b > 0 THEN b * (q - 1) < a /\ a < b * (q + 1)
                             ELSE b * (q - 1) > a /\ a > b * (q + 1)}

(* Mutant: the flag is not tested after the error either. *)
OP_DIV_Unchecked ==
    /\ Executing("DIV")
    /\ LET b == vm_pop_number(vm)
           a == vm_pop_number(b.m)
       IN  IF b.v = 0
           THEN Commit(Advance(vm_error(a.m, ERR_DIVISION_BY_ZERO)))
           ELSE \E q \in Quotients(a.v, b.v) :
                    Commit(Advance(vm_push_number(a.m, q)))

(* No test after the pops: only the zero divisor ends the handler early.   *)
(* The test there is of the flag, whichever of the errors has set it.      *)
OP_DIV ==
    /\ Executing("DIV")
    /\ LET b == vm_pop_number(vm)
           a == vm_pop_number(b.m)
           failed == vm_error(a.m, ERR_DIVISION_BY_ZERO)
       IN  IF b.v = 0
           THEN Commit(IF failed.trapTriggered THEN failed ELSE Advance(failed))
           ELSE \E q \in Quotients(a.v, b.v) :
                    Commit(Advance(vm_push_number(a.m, q)))

OP_POW ==
    /\ Executing("POW")
    /\ LET b == vm_pop_number(vm)
           a == vm_pop_number(b.m)
       IN  \E r \in FloatResult : Commit(Advance(vm_push_number(a.m, r)))

OP_NEG ==
    /\ Executing("NEG")
    /\ LET a == vm_pop_number(vm)
       IN  -a.v \in Number /\ Commit(Advance(vm_push_number(a.m, -a.v)))

-----------------------------------------------------------------------------
(* Comparison and logic: unchecked.                                        *)

(* strcmp(s, t) < 0 *)
TextLess(s, t) ==
    \E k \in 1..Len(t) :
        /\ k <= Len(s) + 1
        /\ \A i \in 1..(k - 1) : s[i] = t[i]
        /\ k = Len(s) + 1 \/ s[k] < t[k]

Related(op, a, b) ==
    LET less  == IF a.type = "str" THEN TextLess(a.str, b.str)
                                   ELSE a.num < b.num
        equal == IF a.type = "str" THEN a.str = b.str ELSE a.num = b.num
    IN  CASE op = "EQ" -> equal
          [] op = "NE" -> ~equal
          [] op = "LT" -> less
          [] op = "LE" -> less \/ equal
          [] op = "GT" -> ~(less \/ equal)
          [] op = "GE" -> ~less

(* Mutant: two strings are freed whatever the operands were. *)
OP_COMPARE_FreesBoth ==
    /\ ExecutingOneOf({"EQ", "NE", "LT", "LE", "GT", "GE"})
    /\ LET b == vm_pop(vm)
           a == vm_pop(b.m)
       IN  Commit(Advance(
             IF a.v.type # b.v.type
             THEN vm_push_number(Free(Free(vm_error(a.m, ERR_TYPE_MISMATCH))),
                                 Bool(Inst.op = "NE"))
             ELSE vm_push_number(IF a.v.type = "str" THEN Free(Free(a.m)) ELSE a.m,
                                 Bool(Related(Inst.op, a.v, b.v)))))

(* Operands of different types leave an error, the value of the operator   *)
(* on unequal operands, and the popped string unfreed.                     *)
OP_COMPARE ==
    /\ ExecutingOneOf({"EQ", "NE", "LT", "LE", "GT", "GE"})
    /\ LET b == vm_pop(vm)
           a == vm_pop(b.m)
           compared == IF a.v.type = "str" THEN Free(Free(a.m)) ELSE a.m
       IN  Commit(Advance(
             IF a.v.type # b.v.type
             THEN vm_push_number(vm_error(a.m, ERR_TYPE_MISMATCH),
                                 Bool(Inst.op = "NE"))
             ELSE vm_push_number(compared, Bool(Related(Inst.op, a.v, b.v)))))

OP_AND_OR ==
    /\ ExecutingOneOf({"AND", "OR"})
    /\ LET b == vm_pop_number(vm)
           a == vm_pop_number(b.m)
           holds == IF Inst.op = "AND" THEN a.v # 0 /\ b.v # 0
                                       ELSE a.v # 0 \/ b.v # 0
       IN  Commit(Advance(vm_push_number(a.m, Bool(holds))))

OP_NOT ==
    /\ Executing("NOT")
    /\ LET a == vm_pop_number(vm)
       IN  Commit(Advance(vm_push_number(a.m, Bool(a.v = 0))))

-----------------------------------------------------------------------------
(* Strings.                                                                *)

Left(s, n)  == SubSeq(s, 1, Smaller(AtLeastZero(n), Len(s)))
Right(s, n) == SubSeq(s, Len(s) - Smaller(AtLeastZero(n), Len(s)) + 1, Len(s))

(* start is 1-based; a negative len, like one that is too long, means the  *)
(* rest of the string.                                                     *)
Mid(s, start, len) ==
    LET skip == AtLeastZero(start - 1)
        take == IF len < 0 \/ len > Len(s) - skip THEN Len(s) - skip ELSE len
    IN  SubSeq(s, skip + 1, skip + take)

(* The result is pushed and the argument freed. *)
PushReplacing(m, s) == Advance(Free(vm_push_string(m, s)))

OP_STR_LEFT_RIGHT ==
    /\ ExecutingOneOf({"STR_LEFT", "STR_RIGHT"})
    /\ LET len == vm_pop_number(vm)
           str == vm_pop_string(len.m)
       IN  Commit(IF str.m.trapTriggered THEN str.m
                  ELSE IF Inst.op = "STR_LEFT"
                       THEN PushReplacing(str.m, Left(str.v, len.v))
                       ELSE PushReplacing(str.m, Right(str.v, len.v)))

OP_STR_MID ==
    /\ Executing("STR_MID")
    /\ LET len   == vm_pop_number(vm)
           start == vm_pop_number(len.m)
           str   == vm_pop_string(start.m)
       IN  Commit(IF str.m.trapTriggered THEN str.m
                  ELSE PushReplacing(str.m, Mid(str.v, start.v, len.v)))

OP_STR_MID_2 ==                                              \* unchecked
    /\ Executing("STR_MID_2")
    /\ LET start == vm_pop_number(vm)
           str   == vm_pop_string(start.m)
       IN  Commit(PushReplacing(str.m, Mid(str.v, start.v, -1)))

(* LEN, ASC and VAL: a number made from a string. *)
NumberFrom(op, s) ==
    CASE op = "STR_LEN" -> Len(s)
      [] op = "STR_ASC" -> IF s = <<>> THEN 0 ELSE s[1]
      [] op = "STR_VAL" -> Atof(s)

OP_STR_LEN_ASC_VAL ==
    /\ ExecutingOneOf({"STR_LEN", "STR_ASC", "STR_VAL"})
    /\ LET str == vm_pop_string(vm)
           result == NumberFrom(Inst.op, str.v)
       IN  IF str.m.trapTriggered THEN Commit(str.m)
           ELSE /\ result \in Number
                /\ Commit(Advance(vm_push_number(Free(str.m), result)))

(* CHR$ keeps eight bits; a zero char is the terminator of an empty text.  *)
Chr(code) == IF code % 256 = 0 THEN <<>> ELSE <<code % 256>>

OP_STR_CHR_STR ==                                            \* unchecked
    /\ ExecutingOneOf({"STR_CHR", "STR_STR"})
    /\ LET n == vm_pop_number(vm)
           result == IF Inst.op = "STR_CHR" THEN Chr(n.v) ELSE FormatG(n.v)
       IN  Commit(Advance(vm_push_string(n.m, result)))

-----------------------------------------------------------------------------
(* Numeric functions.                                                      *)

(* A libm result: the angle mode and the argument only choose among        *)
(* FloatResult.                                                            *)
OP_FUNC_FLOAT ==                                             \* unchecked
    /\ ExecutingOneOf({"FUNC_SIN", "FUNC_COS", "FUNC_TAN", "FUNC_ATN",
                       "FUNC_EXP"})
    /\ LET x == vm_pop_number(vm)
       IN  \E r \in FloatResult : Commit(Advance(vm_push_number(x.m, r)))

(* So do the seed, the last number given and the argument of RND.          *)
OP_FUNC_RND ==                                               \* unchecked
    /\ Executing("FUNC_RND")
    /\ LET x == vm_pop_number(vm)
       IN  \E r \in FloatResult : Commit(Advance(vm_push_number(x.m, r)))

ExactResult(op, x) ==
    CASE op = "FUNC_ABS" -> IF x < 0 THEN -x ELSE x
      [] op = "FUNC_SGN" -> IF x > 0 THEN 1 ELSE IF x < 0 THEN -1 ELSE 0
      [] op = "FUNC_INT" -> x

OP_FUNC_EXACT ==                                             \* unchecked
    /\ ExecutingOneOf({"FUNC_ABS", "FUNC_SGN", "FUNC_INT"})
    /\ LET x == vm_pop_number(vm)
           result == ExactResult(Inst.op, x.v)
       IN  result \in Number /\ Commit(Advance(vm_push_number(x.m, result)))

(* LOG, CLOG and SQR test the flag only after an argument they reject, and *)
(* push nothing for it.                                                    *)
OutsideDomain(op, x) == IF op = "FUNC_SQR" THEN x < 0 ELSE x <= 0

OP_FUNC_DOMAIN ==
    /\ ExecutingOneOf({"FUNC_LOG", "FUNC_CLOG", "FUNC_SQR"})
    /\ LET x == vm_pop_number(vm)
           failed == vm_error(x.m, ERR_ILLEGAL_FUNCTION)
       IN  IF OutsideDomain(Inst.op, x.v)
           THEN Commit(IF failed.trapTriggered THEN failed ELSE Advance(failed))
           ELSE \E r \in FloatResult : Commit(Advance(vm_push_number(x.m, r)))

OP_FN_ERR ==
    /\ Executing("FN_ERR")
    /\ Commit(Advance(vm_push_number(vm, vm.errorCode)))

-----------------------------------------------------------------------------
(* READ.                                                                   *)

OutOfData == vm.dataPointer >= Len(prog.data)
DataEntry == prog.data[vm.dataPointer + 1]
AfterDataEntry == [vm EXCEPT !.dataPointer = @ + 1]

DataAsNumber(entry) ==
    CASE entry.type = "num"  -> entry.num
      [] entry.type = "str"  -> Atof(entry.str)
      [] entry.type = "null" -> 0

DataAsText(entry) ==
    CASE entry.type = "num"  -> FormatG(entry.num)
      [] entry.type = "str"  -> entry.str
      [] entry.type = "null" -> <<>>

(* Mutant: pc is stepped after the error. *)
OP_DATA_READ_Unchecked ==
    /\ ExecutingOneOf({"DATA_READ_NUM", "DATA_READ_STR"})
    /\ IF OutOfData THEN Commit(Advance(vm_error(vm, ERR_OUT_OF_DATA)))
       ELSE IF Inst.op = "DATA_READ_NUM"
       THEN Commit(Advance([AfterDataEntry EXCEPT
                !.numVars[Inst.arg] = DataAsNumber(DataEntry)]))
       ELSE Commit(Advance([AfterDataEntry EXCEPT
                !.strVars[Inst.arg] = DataAsText(DataEntry)]))

OP_DATA_READ ==
    /\ ExecutingOneOf({"DATA_READ_NUM", "DATA_READ_STR"})
    /\ LET failed == vm_error(vm, ERR_OUT_OF_DATA)
       IN  IF OutOfData
           THEN Commit(IF failed.trapTriggered THEN failed ELSE Advance(failed))
           ELSE IF Inst.op = "DATA_READ_NUM"
           THEN /\ DataAsNumber(DataEntry) \in Number
                /\ Commit(Advance([AfterDataEntry EXCEPT
                     !.numVars[Inst.arg] = DataAsNumber(DataEntry)]))
           ELSE Commit(Advance(Alloc(Free([AfterDataEntry EXCEPT
                    !.strVars[Inst.arg] = DataAsText(DataEntry)]))))

(* RESTORE takes no operand from the stack, and RESTORE with a line, whose *)
(* line number the compiler has pushed, takes none either.                 *)
OP_RESTORE ==
    /\ ExecutingOneOf({"RESTORE", "RESTORE_LINE"})
    /\ Commit(Advance([vm EXCEPT !.dataPointer = 0]))
=============================================================================
