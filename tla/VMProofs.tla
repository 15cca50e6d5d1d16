------------------------------- MODULE VMProofs -------------------------------
(***************************************************************************)
(* Theorems about the virtual machine, for every program, every set of     *)
(* numbers and slots, and every bound.                                     *)
(*                                                                         *)
(* Every handler is a composition of primitives, so the proof follows the  *)
(* number of strings the handler holds from one primitive to the next:     *)
(* Owned(c, m, n), in which a pop of a string adds one to n and a Free or  *)
(* a push takes one away.  A handler that ends with n = 0 has freed        *)
(* nothing that it, the stack or one of the c other owners still owns.     *)
(***************************************************************************)
EXTENDS VM, FiniteSetTheorems, SequenceTheorems, WellFoundedInduction, TLAPS

-----------------------------------------------------------------------------
(* What the primitives of VMState return and preserve: all that the proofs *)
(* about the opcode handlers need to know of them.                         *)

(* 0, the value of an unset variable and of a failed pop, is a number. *)
LEMMA ZeroIsNumber == 0 \in Number
BY NumberAssumption DEF ErrorCode, ERR_NONE

(* An operand stack holds finitely many strings. *)
LEMMA StringsFinite ==
    ASSUME NEW stack \in Seq(Value)
    PROVE  IsFiniteSet({i \in DOMAIN stack : stack[i].type = "str"})
<1>1. DOMAIN stack = 1..Len(stack) /\ Len(stack) \in Nat
  OBVIOUS
<1>2. IsFiniteSet(1..Len(stack))
  BY <1>1, FS_Interval
<1> QED
  BY <1>1, <1>2, FS_Subset

(* The number of strings on an operand stack is a natural number. *)
LEMMA StringsOnType ==
    ASSUME NEW stack \in Seq(Value)
    PROVE  StringsOn(stack) \in Nat
BY StringsFinite, FS_CardinalityType DEF StringsOn

-----------------------------------------------------------------------------
(* Every primitive takes a machine state to a machine state.               *)

(* Replacing one field by a value of its type gives a machine state. *)
LEMMA FieldType ==
    ASSUME NEW m \in Machine
    PROVE  /\ \A x \in Nat : [m EXCEPT !.pc = x] \in Machine
           /\ \A x \in BOOLEAN : [m EXCEPT !.running = x] \in Machine
           /\ \A x \in Seq(Value) : [m EXCEPT !.stack = x] \in Machine
           /\ \A x \in Seq(Nat) : [m EXCEPT !.callStack = x] \in Machine
           /\ \A x \in Seq(ForLoopState) : [m EXCEPT !.forStack = x] \in Machine
           /\ \A x \in [Slot -> Number] : [m EXCEPT !.numVars = x] \in Machine
           /\ \A x \in [Slot -> Text] : [m EXCEPT !.strVars = x] \in Machine
           /\ \A x \in Nat : [m EXCEPT !.dataPointer = x] \in Machine
           /\ \A x \in Nat : [m EXCEPT !.trapLine = x] \in Machine
           /\ \A x \in BOOLEAN : [m EXCEPT !.trapEnabled = x] \in Machine
           /\ \A x \in BOOLEAN : [m EXCEPT !.trapTriggered = x] \in Machine
           /\ \A x \in ErrorCode : [m EXCEPT !.errorCode = x] \in Machine
           /\ \A x \in Int : [m EXCEPT !.heap = x] \in Machine
BY DEF Machine

(* The fields of a machine state have the types Machine gives them. *)
LEMMA MachineFields ==
    ASSUME NEW m \in Machine
    PROVE  /\ m.pc \in Nat
           /\ m.running \in BOOLEAN
           /\ m.stack \in Seq(Value)
           /\ m.callStack \in Seq(Nat)
           /\ m.forStack \in Seq(ForLoopState)
           /\ m.numVars \in [Slot -> Number]
           /\ m.strVars \in [Slot -> Text]
           /\ m.dataPointer \in Nat
           /\ m.trapLine \in Nat
           /\ m.trapEnabled \in BOOLEAN
           /\ m.trapTriggered \in BOOLEAN
           /\ m.errorCode \in ErrorCode
           /\ m.heap \in Int
BY DEF Machine

(* vm_error leaves a machine state, whether or not the trap is armed. *)
LEMMA ErrorType ==
    ASSUME NEW m \in Machine, NEW code \in ErrorCode
    PROVE  vm_error(m, code) \in Machine
<1>1. m.stack \in Seq(Value) /\ m.heap \in Int /\ m.trapLine \in Nat
  BY MachineFields
<1>2. PICK n \in Nat : n = StringsOn(m.stack)
  BY <1>1, StringsOnType
<1>3. m.heap - n \in Int
  BY <1>1, <1>2
<1>4. CASE m.trapEnabled /\ m.trapLine > 0
  <2> DEFINE m1 == [m EXCEPT !.errorCode = code]
             m2 == [m1 EXCEPT !.heap = m.heap - n]
             m3 == [m2 EXCEPT !.stack = <<>>]
             m4 == [m3 EXCEPT !.pc = m.trapLine]
             m5 == [m4 EXCEPT !.trapEnabled = FALSE]
             m6 == [m5 EXCEPT !.trapTriggered = TRUE]
  <2>1. m1 \in Machine
    BY FieldType
  <2>2. m2 \in Machine
    BY <2>1, <1>3, FieldType
  <2>3. m3 \in Machine
    <3>1. <<>> \in Seq(Value)
      OBVIOUS
    <3> QED
      BY <2>2, <3>1, FieldType
  <2>4. m4 \in Machine
    BY <2>3, <1>1, FieldType
  <2>5. m5 \in Machine
    BY <2>4, FieldType
  <2>6. m6 \in Machine
    BY <2>5, FieldType
  <2>7. [m EXCEPT !.errorCode     = code,
                  !.heap          = m.heap - n,
                  !.stack         = <<>>,
                  !.pc            = m.trapLine,
                  !.trapEnabled   = FALSE,
                  !.trapTriggered = TRUE] \in Machine
    BY <2>6
  <2> QED
    BY <1>2, <1>4, <2>7 DEF vm_error
<1>5. CASE ~(m.trapEnabled /\ m.trapLine > 0)
  BY <1>5 DEF vm_error, Machine
<1> QED
  BY <1>4, <1>5

(* The updates without a condition keep the type; the last resets the flag. *)
LEMMA UpdateType ==
    ASSUME NEW m \in Machine
    PROVE  /\ Alloc(m) \in Machine
           /\ Free(m) \in Machine
           /\ Advance(m) \in Machine
           /\ \A pc \in Nat : SetPc(m, pc) \in Machine
           /\ EndInstruction(m) \in Machine
           /\ ~EndInstruction(m).trapTriggered
<1>1. m.heap + 1 \in Int /\ m.heap - 1 \in Int /\ m.pc + 1 \in Nat
  BY MachineFields
<1>2. Alloc(m) \in Machine /\ Free(m) \in Machine
  BY <1>1, FieldType DEF Alloc, Free
<1>3. \A pc \in Nat : SetPc(m, pc) \in Machine
  BY FieldType DEF SetPc
<1>4. Advance(m) \in Machine
  BY <1>1, <1>3 DEF Advance
<1>5. EndInstruction(m) \in Machine
  BY FieldType DEF EndInstruction
<1>6. ~EndInstruction(m).trapTriggered
  BY DEF EndInstruction, Machine
<1> QED
  BY <1>2, <1>3, <1>4, <1>5, <1>6

(* Pushing a value, a number or a string keeps the type. *)
LEMMA PushType ==
    ASSUME NEW m \in Machine
    PROVE  /\ \A v \in Value : vm_push(m, v) \in Machine
           /\ \A n \in Number : vm_push_number(m, n) \in Machine
           /\ \A s \in Text : vm_push_string(m, s) \in Machine
<1>1. ASSUME NEW k \in Machine, NEW v \in Value
      PROVE  vm_push(k, v) \in Machine
  <2>1. Append(k.stack, v) \in Seq(Value)
    BY DEF Machine
  <2> QED
    BY <2>1 DEF vm_push, Machine
<1>2. \A n \in Number : Num(n) \in Value
  BY DEF Num, Value, NumValue
<1>3. \A s \in Text : Str(s) \in Value
  BY DEF Str, Value, StrValue
<1> QED
  BY <1>1, <1>2, <1>3, UpdateType DEF vm_push_number, vm_push_string

(* vm_pop leaves a machine state and returns a value, also when it fails. *)
LEMMA PopType ==
    ASSUME NEW m \in Machine
    PROVE  vm_pop(m).m \in Machine /\ vm_pop(m).v \in Value
<1>1. m.stack \in Seq(Value)
  BY DEF Machine
<1>2. CASE m.stack = <<>>
  <2>1. vm_error(m, ERR_OVERFLOW) \in Machine
    BY ErrorType DEF ErrorCode
  <2>2. Num(0) \in Value
    BY ZeroIsNumber DEF Num, Value, NumValue
  <2> QED
    BY <1>2, <2>1, <2>2 DEF vm_pop
<1>3. CASE m.stack # <<>>
  <2>1. Len(m.stack) \in 1..Len(m.stack)
    BY <1>1, <1>3
  <2>2. SubSeq(m.stack, 1, Len(m.stack) - 1) \in Seq(Value)
    BY <1>1, <2>1
  <2>3. [m EXCEPT !.stack = SubSeq(@, 1, Len(@) - 1)] \in Machine
    BY <2>2 DEF Machine
  <2>4. m.stack[Len(m.stack)] \in Value
    BY <1>1, <2>1
  <2> QED
    BY <1>3, <2>3, <2>4 DEF vm_pop
<1> QED
  BY <1>2, <1>3

(* vm_pop_number returns a number whatever was on the stack. *)
LEMMA PopNumberType ==
    ASSUME NEW m \in Machine
    PROVE  vm_pop_number(m).m \in Machine /\ vm_pop_number(m).v \in Number
<1> DEFINE p == vm_pop(m)
<1>1. p.m \in Machine /\ p.v \in Value
  BY PopType
<1>2. CASE p.v.type = "num"
  <2>1. p.v \in NumValue
    BY <1>1, <1>2 DEF Value, StrValue
  <2>2. p.v.num \in Number
    BY <2>1 DEF NumValue
  <2> QED
    BY <1>1, <1>2, <2>2 DEF vm_pop_number
<1>3. CASE p.v.type # "num"
  <2>1. vm_error(p.m, ERR_TYPE_MISMATCH) \in Machine
    BY <1>1, ErrorType DEF ErrorCode
  <2>2. Free(vm_error(p.m, ERR_TYPE_MISMATCH)) \in Machine
    BY <2>1, UpdateType
  <2> QED
    BY <1>3, <2>2, ZeroIsNumber DEF vm_pop_number
<1> QED
  BY <1>2, <1>3

(* vm_pop_string returns a string whatever was on the stack. *)
LEMMA PopStringType ==
    ASSUME NEW m \in Machine
    PROVE  vm_pop_string(m).m \in Machine /\ vm_pop_string(m).v \in Text
<1> DEFINE p == vm_pop(m)
<1>1. p.m \in Machine /\ p.v \in Value
  BY PopType
<1>2. CASE p.v.type = "str"
  <2>1. p.v \in StrValue
    BY <1>1, <1>2 DEF Value, NumValue
  <2>2. p.v.str \in Text
    BY <2>1 DEF StrValue
  <2> QED
    BY <1>1, <1>2, <2>2 DEF vm_pop_string
<1>3. CASE p.v.type # "str"
  <2>1. vm_error(p.m, ERR_TYPE_MISMATCH) \in Machine
    BY <1>1, ErrorType DEF ErrorCode
  <2>2. Alloc(vm_error(p.m, ERR_TYPE_MISMATCH)) \in Machine
    BY <2>1, UpdateType
  <2>3. <<>> \in Text
    BY DEF Text
  <2> QED
    BY <1>3, <2>2, <2>3 DEF vm_pop_string
<1> QED
  BY <1>2, <1>3

(* Pushing on and popping from the GOSUB stack keep the type. *)
LEMMA CallType ==
    ASSUME NEW m \in Machine
    PROVE  /\ \A r \in Nat : vm_call_push(m, r) \in Machine
           /\ vm_call_pop(m).m \in Machine
           /\ vm_call_pop(m).v \in Nat
<1>1. m.callStack \in Seq(Nat)
  BY DEF Machine
<1>2. ASSUME NEW r \in Nat PROVE vm_call_push(m, r) \in Machine
  <2>1. Append(m.callStack, r) \in Seq(Nat)
    BY <1>1
  <2> QED
    BY <2>1 DEF vm_call_push, Machine
<1>3. CASE m.callStack = <<>>
  <2>1. vm_error(m, ERR_RETURN_WITHOUT_GOSUB) \in Machine
    BY ErrorType DEF ErrorCode
  <2> QED
    BY <1>2, <1>3, <2>1 DEF vm_call_pop
<1>4. CASE m.callStack # <<>>
  <2>1. Len(m.callStack) \in 1..Len(m.callStack)
    BY <1>1, <1>4
  <2>2. SubSeq(m.callStack, 1, Len(m.callStack) - 1) \in Seq(Nat)
    BY <1>1, <2>1
  <2>3. [m EXCEPT !.callStack = SubSeq(@, 1, Len(@) - 1)] \in Machine
    BY <2>2 DEF Machine
  <2> QED
    BY <1>1, <1>2, <1>4, <2>1, <2>3 DEF vm_call_pop
<1> QED
  BY <1>3, <1>4

(* Pushing on and popping from the FOR stack keep the type. *)
LEMMA ForType ==
    ASSUME NEW m \in Machine
    PROVE  /\ \A f \in ForLoopState : vm_for_push(m, f) \in Machine
           /\ vm_for_pop(m) \in Machine
           /\ m.forStack # <<>> => vm_for_top(m) \in ForLoopState
<1>1. m.forStack \in Seq(ForLoopState)
  BY DEF Machine
<1>2. ASSUME NEW f \in ForLoopState PROVE vm_for_push(m, f) \in Machine
  <2>1. Append(m.forStack, f) \in Seq(ForLoopState)
    BY <1>1
  <2> QED
    BY <2>1 DEF vm_for_push, Machine
<1>3. CASE m.forStack = <<>>
  BY <1>2, <1>3 DEF vm_for_pop
<1>4. CASE m.forStack # <<>>
  <2>1. Len(m.forStack) \in 1..Len(m.forStack)
    BY <1>1, <1>4
  <2>2. SubSeq(m.forStack, 1, Len(m.forStack) - 1) \in Seq(ForLoopState)
    BY <1>1, <2>1
  <2>3. vm_for_pop(m) \in Machine
    BY <1>4, <2>2 DEF vm_for_pop, Machine
  <2>4. vm_for_top(m) \in ForLoopState
    BY <1>1, <2>1 DEF vm_for_top
  <2> QED
    BY <1>2, <2>3, <2>4
<1> QED
  BY <1>3, <1>4

-----------------------------------------------------------------------------
(* The ownership of strings.                                               *)

(* The strings on the operand stack, n more that the handler holds, and c  *)
(* that belong to others (the variables, the cells of arrays) are all      *)
(* allocated.                                                              *)
Owned(c, m, n) ==
    /\ m \in Machine
    /\ m.heap >= c + StringsOn(m.stack) + n

(* A string weighs 1 on the heap, a number nothing. *)
Weight(v) == IF v.type = "str" THEN 1 ELSE 0

(* There are finitely many variables. *)
LEMMA SlotCount == Cardinality(Slot) \in Nat
BY SlotAssumption, FS_CardinalityType

(* An empty stack holds no strings. *)
LEMMA StringsOnEmpty == StringsOn(<<>>) = 0
<1>1. {i \in DOMAIN <<>> : <<>>[i].type = "str"} = {}
  OBVIOUS
<1> QED
  BY <1>1, FS_EmptySet DEF StringsOn

(* Taking the top value off a stack takes its weight off the count. *)
LEMMA StringsOnFront ==
    ASSUME NEW stack \in Seq(Value), stack # <<>>
    PROVE  StringsOn(stack) = StringsOn(SubSeq(stack, 1, Len(stack) - 1))
                              + Weight(stack[Len(stack)])
<1> DEFINE n == Len(stack)
           front == SubSeq(stack, 1, n - 1)
           all == {i \in DOMAIN stack : stack[i].type = "str"}
           rest == {i \in DOMAIN front : front[i].type = "str"}
<1>1. n \in Nat /\ n >= 1 /\ DOMAIN stack = 1..n
  OBVIOUS
<1>2. front \in Seq(Value) /\ DOMAIN front = 1..(n - 1)
  BY <1>1
<1>3. \A i \in 1..(n - 1) : front[i] = stack[i]
  BY <1>1
<1>4. IsFiniteSet(rest)
  BY <1>2, StringsFinite
<1>5. Cardinality(rest) \in Nat
  BY <1>4, FS_CardinalityType
<1>6. n \notin rest
  BY <1>1, <1>2
<1>7. StringsOn(stack) = Cardinality(all) /\ StringsOn(front) = Cardinality(rest)
  BY DEF StringsOn
<1>8. CASE stack[n].type = "str"
  <2>1. all = rest \cup {n}
    BY <1>1, <1>2, <1>3, <1>8
  <2>2. Cardinality(all) = Cardinality(rest) + 1
    BY <1>4, <1>6, <2>1, FS_AddElement
  <2> QED
    BY <1>8, <1>7, <2>2 DEF Weight
<1>9. CASE stack[n].type # "str"
  <2>1. all = rest
    BY <1>1, <1>2, <1>3, <1>9
  <2> HIDE DEF all, rest, front
  <2> QED
    BY <1>5, <1>9, <1>7, <2>1 DEF Weight, front, n
<1> QED
  BY <1>8, <1>9

(* Pushing a value adds its weight. *)
LEMMA StringsOnAppend ==
    ASSUME NEW stack \in Seq(Value), NEW v \in Value
    PROVE  StringsOn(Append(stack, v)) = StringsOn(stack) + Weight(v)
<1> DEFINE longer == Append(stack, v)
<1>1. longer \in Seq(Value) /\ longer # <<>> /\ longer[Len(longer)] = v
  OBVIOUS
<1>2. SubSeq(longer, 1, Len(longer) - 1) = stack
  OBVIOUS
<1> QED
  BY <1>1, <1>2, StringsOnFront

(* To own n strings is to own any smaller number of them. *)
LEMMA OwnedWeaken ==
    ASSUME NEW c \in Int, NEW m, NEW n \in Int, NEW k \in Int, Owned(c, m, n), k <= n
    PROVE  Owned(c, m, k)
<1>1. m \in Machine /\ m.heap \in Int /\ StringsOn(m.stack) \in Nat
  BY MachineFields, StringsOnType DEF Owned
<1> QED
  BY <1>1 DEF Owned

(* vm_error frees exactly the strings it takes off the stack. *)
LEMMA ErrorOwned ==
    ASSUME NEW c \in Int, NEW m, NEW n \in Int, Owned(c, m, n), NEW code \in ErrorCode
    PROVE  Owned(c, vm_error(m, code), n)
<1>1. m \in Machine /\ m.heap \in Int /\ StringsOn(m.stack) \in Nat
  BY MachineFields, StringsOnType DEF Owned
<1>2. vm_error(m, code) \in Machine
  BY <1>1, ErrorType
<1>3. \/ /\ vm_error(m, code).heap = m.heap - StringsOn(m.stack)
         /\ vm_error(m, code).stack = <<>>
      \/ /\ vm_error(m, code).heap = m.heap
         /\ vm_error(m, code).stack = m.stack
  BY <1>1 DEF vm_error, Machine
<1> QED
  BY <1>1, <1>2, <1>3, StringsOnEmpty DEF Owned

(* An allocation is one string more in hand, a release one fewer. *)
LEMMA AllocOwned ==
    ASSUME NEW c \in Int, NEW m, NEW n \in Int, Owned(c, m, n)
    PROVE  Owned(c, Alloc(m), n + 1) /\ Owned(c, Free(m), n - 1)
<1>1. m \in Machine /\ m.heap \in Int /\ StringsOn(m.stack) \in Nat
  BY MachineFields, StringsOnType DEF Owned
<1>2. Alloc(m) \in Machine /\ Free(m) \in Machine
  BY <1>1, UpdateType
<1>3. /\ Alloc(m).heap = m.heap + 1 /\ Alloc(m).stack = m.stack
      /\ Free(m).heap = m.heap - 1 /\ Free(m).stack = m.stack
  BY <1>1 DEF Alloc, Free, Machine
<1> QED
  BY <1>1, <1>2, <1>3 DEF Owned

(* What neither the heap nor the stack shows leaves ownership alone. *)
LEMMA FrameOwned ==
    ASSUME NEW c \in Int, NEW m, NEW n \in Int, Owned(c, m, n),
           NEW k \in Machine, k.heap = m.heap, k.stack = m.stack
    PROVE  Owned(c, k, n)
BY DEF Owned

(* A value pushed is no longer in hand. *)
LEMMA PushOwned ==
    ASSUME NEW c \in Int, NEW m, NEW n \in Int, Owned(c, m, n), NEW v \in Value
    PROVE  Owned(c, vm_push(m, v), n - Weight(v))
<1>1. m \in Machine /\ m.heap \in Int /\ StringsOn(m.stack) \in Nat
      /\ m.stack \in Seq(Value)
  BY MachineFields, StringsOnType DEF Owned
<1>2. vm_push(m, v) \in Machine
  BY <1>1, PushType
<1>3. vm_push(m, v).heap = m.heap /\ vm_push(m, v).stack = Append(m.stack, v)
  BY <1>1 DEF vm_push, Machine
<1>4. StringsOn(vm_push(m, v).stack) = StringsOn(m.stack) + Weight(v)
  BY <1>1, <1>3, StringsOnAppend
<1>5. Weight(v) \in Int
  BY DEF Weight
<1> QED
  BY <1>1, <1>2, <1>3, <1>4, <1>5 DEF Owned

(* Pushing a number uses none of the strings in hand. *)
LEMMA PushNumberOwned ==
    ASSUME NEW c \in Int, NEW m, NEW n \in Int, Owned(c, m, n), NEW x \in Number
    PROVE  Owned(c, vm_push_number(m, x), n)
<1>1. Num(x) \in Value /\ Weight(Num(x)) = 0
  BY DEF Num, Value, NumValue, Weight
<1>2. Owned(c, vm_push(m, Num(x)), n - Weight(Num(x)))
  BY <1>1, PushOwned
<1> QED
  BY <1>1, <1>2 DEF vm_push_number

(* vm_push_string pushes a string allocated for it: none in hand is used. *)
LEMMA PushStringOwned ==
    ASSUME NEW c \in Int, NEW m, NEW n \in Int, Owned(c, m, n), NEW s \in Text
    PROVE  Owned(c, vm_push_string(m, s), n)
<1>1. Str(s) \in Value /\ Weight(Str(s)) = 1
  BY DEF Str, Value, StrValue, Weight
<1>2. Owned(c, Alloc(m), n + 1)
  BY AllocOwned
<1>3. Owned(c, vm_push(Alloc(m), Str(s)), (n + 1) - Weight(Str(s)))
  BY <1>1, <1>2, PushOwned
<1> QED
  BY <1>1, <1>3 DEF vm_push_string

(* Replacing the operand stack leaves the count of allocations alone. *)
LEMMA StackField ==
    ASSUME NEW m \in Machine, NEW stack
    PROVE  /\ [m EXCEPT !.stack = stack].heap = m.heap
           /\ [m EXCEPT !.stack = stack].stack = stack
BY DEF Machine

(* The value popped is in hand. *)
LEMMA PopOwned ==
    ASSUME NEW c \in Int, NEW m, NEW n \in Int, Owned(c, m, n)
    PROVE  Owned(c, vm_pop(m).m, n + Weight(vm_pop(m).v))
<1>1. m \in Machine /\ m.heap \in Int /\ m.stack \in Seq(Value)
  BY MachineFields DEF Owned
<1>2. CASE m.stack = <<>>
  <2>1. vm_pop(m) = [m |-> vm_error(m, ERR_OVERFLOW), v |-> Num(0)]
    BY <1>2 DEF vm_pop
  <2>2. Weight(vm_pop(m).v) = 0
    BY <2>1 DEF Num, Weight
  <2>3. Owned(c, vm_error(m, ERR_OVERFLOW), n)
    BY ErrorOwned DEF ErrorCode
  <2> QED
    BY <2>1, <2>2, <2>3
<1>3. CASE m.stack # <<>>
  <2> DEFINE front == SubSeq(m.stack, 1, Len(m.stack) - 1)
             top == m.stack[Len(m.stack)]
  <2>1. vm_pop(m) = [m |-> [m EXCEPT !.stack = front], v |-> top]
    BY <1>3 DEF vm_pop
  <2>2. vm_pop(m).m \in Machine
    BY <1>1, PopType
  <2> HIDE DEF front, top
  <2>3. vm_pop(m).m.heap = m.heap /\ vm_pop(m).m.stack = front
    <3>1. vm_pop(m).m = [m EXCEPT !.stack = front]
      BY <2>1
    <3> QED
      BY <1>1, <3>1, StackField
  <2>4. StringsOn(m.stack) = StringsOn(front) + Weight(top)
    BY <1>1, <1>3, StringsOnFront DEF front, top
  <2>5. StringsOn(front) \in Nat
    BY <2>2, <2>3, MachineFields, StringsOnType
  <2>6. Weight(top) \in Int
    BY DEF Weight
  <2>7. Owned(c, vm_pop(m).m, n + Weight(top))
    BY <1>1, <2>2, <2>3, <2>4, <2>5, <2>6 DEF Owned
  <2> QED
    BY <2>1, <2>7
<1> QED
  BY <1>2, <1>3

(* vm_pop_number frees the string it finds in the place of a number. *)
LEMMA PopNumberOwned ==
    ASSUME NEW c \in Int, NEW m, NEW n \in Int, Owned(c, m, n)
    PROVE  /\ Owned(c, vm_pop_number(m).m, n)
           /\ vm_pop_number(m).v \in Number
           /\ vm_pop_number(m).v \in Int
<1> DEFINE p == vm_pop(m)
<1>1. vm_pop_number(m).v \in Number /\ vm_pop_number(m).v \in Int
  BY PopNumberType, NumberAssumption DEF Owned
<1>2. p.v \in Value /\ Owned(c, p.m, n + Weight(p.v))
  BY PopType, PopOwned DEF Owned
<1>3. CASE p.v.type = "num"
  BY <1>1, <1>2, <1>3 DEF vm_pop_number, Weight
<1>4. CASE p.v.type # "num"
  <2>1. Weight(p.v) = 1
    BY <1>2, <1>4 DEF Value, NumValue, StrValue, Weight
  <2>2. Owned(c, vm_error(p.m, ERR_TYPE_MISMATCH), n + 1)
    BY <1>2, <2>1, ErrorOwned DEF ErrorCode
  <2>3. Owned(c, Free(vm_error(p.m, ERR_TYPE_MISMATCH)), (n + 1) - 1)
    BY <2>2, AllocOwned
  <2> QED
    BY <1>1, <1>4, <2>3 DEF vm_pop_number
<1> QED
  BY <1>1, <1>3, <1>4

(* vm_pop_string always hands over one string. *)
LEMMA PopStringOwned ==
    ASSUME NEW c \in Int, NEW m, NEW n \in Int, Owned(c, m, n)
    PROVE  Owned(c, vm_pop_string(m).m, n + 1) /\ vm_pop_string(m).v \in Text
<1> DEFINE p == vm_pop(m)
<1>1. vm_pop_string(m).v \in Text
  BY PopStringType DEF Owned
<1>2. p.v \in Value /\ Owned(c, p.m, n + Weight(p.v))
  BY PopType, PopOwned DEF Owned
<1>3. CASE p.v.type = "str"
  BY <1>1, <1>2, <1>3 DEF vm_pop_string, Weight
<1>4. CASE p.v.type # "str"
  <2>1. Weight(p.v) = 0
    BY <1>4 DEF Weight
  <2>2. Owned(c, vm_error(p.m, ERR_TYPE_MISMATCH), n)
    BY <1>2, <2>1, ErrorOwned DEF ErrorCode
  <2> QED
    BY <1>1, <1>4, <2>2, AllocOwned DEF vm_pop_string
<1> QED
  BY <1>1, <1>3, <1>4

-----------------------------------------------------------------------------
(* A number other than the 0 of a failed pop was really on the stack, and  *)
(* the pop has left pc alone.                                              *)
LEMMA PopNumberPc ==
    ASSUME NEW m \in Machine, vm_pop_number(m).v # 0
    PROVE  vm_pop_number(m).m.pc = m.pc
<1>1. vm_pop(m).v.type = "num"
  BY DEF vm_pop_number
<1>2. vm_pop_number(m) = [m |-> vm_pop(m).m, v |-> vm_pop(m).v.num]
  BY <1>1 DEF vm_pop_number
<1>3. m.stack # <<>>
  BY <1>2 DEF vm_pop, Num
<1>4. vm_pop(m).m = [m EXCEPT !.stack = SubSeq(m.stack, 1, Len(m.stack) - 1)]
  BY <1>3 DEF vm_pop
<1>5. vm_pop(m).m.pc = m.pc
  BY <1>4 DEF Machine
<1> QED
  BY <1>2, <1>5

-----------------------------------------------------------------------------
(* The inductive invariant.                                                *)

(* The program is a legal one and the machine has its type.                *)
Loaded == prog \in Programs /\ TypeOK

(* The machine has c strings, or more, beside those on the operand stack.  *)
InvAbove(c) == Loaded /\ vm.heap >= c + StringsOn(vm.stack)

(* The inductive invariant: neither half is inductive without the other,   *)
(* since a handler's type rests on its operands, and the heap's on types.  *)
(* The strings beside the operand stack are those of the variables; the    *)
(* handlers keep any other number of strings as well, which matters where  *)
(* arrays own some of them.                                                *)
IInv == Loaded /\ NoDoubleFree

LEMMA IInvIs == IInv <=> InvAbove(Cardinality(Slot))
BY DEF IInv, InvAbove, NoDoubleFree

LEMMA InvLoaded ==
    ASSUME NEW c \in Int, InvAbove(c)
    PROVE  Loaded
BY DEF InvAbove

(* The invariant says that no string is in hand between two instructions.  *)
LEMMA InvOwned ==
    ASSUME NEW c \in Int
    PROVE  InvAbove(c) <=> prog \in Programs /\ Owned(c, vm, 0) /\ ~vm.trapTriggered
<1>1. SUFFICES ASSUME vm \in Machine
               PROVE  vm.heap >= c + StringsOn(vm.stack) <=> Owned(c, vm, 0)
  BY DEF InvAbove, Loaded, TypeOK, Owned
<1>2. vm.stack \in Seq(Value) /\ vm.heap \in Int
  BY <1>1, MachineFields
<1>3. StringsOn(vm.stack) \in Nat
  BY <1>2, StringsOnType
<1> QED
  BY <1>1, <1>2, <1>3 DEF Owned

(* Whatever machine a handler commits, the next instruction finds the      *)
(* invariant if the handler's strings are accounted for.                   *)
LEMMA CommitAbove ==
    ASSUME NEW c \in Int, Loaded, NEW m, NEW n \in Nat, Owned(c, m, n), Commit(m)
    PROVE  InvAbove(c)'
<1>1. m \in Machine
  BY DEF Owned
<1>2. Owned(c, m, 0)
  BY OwnedWeaken
<1>3. EndInstruction(m) \in Machine /\ ~EndInstruction(m).trapTriggered
  BY <1>1, UpdateType
<1>4. /\ EndInstruction(m).heap = m.heap
      /\ EndInstruction(m).stack = m.stack
  BY <1>1 DEF EndInstruction, Machine
<1>5. Owned(c, EndInstruction(m), 0)
  BY <1>2, <1>3, <1>4, FrameOwned
<1>6. vm' = EndInstruction(m) /\ prog' = prog
  BY DEF Commit
<1>7. StringsOn(EndInstruction(m).stack) \in Nat /\ EndInstruction(m).heap \in Int
  BY <1>3, MachineFields, StringsOnType
<1>8. EndInstruction(m).heap >= c + StringsOn(EndInstruction(m).stack)
  BY <1>5, <1>7 DEF Owned
<1> QED
  BY <1>3, <1>6, <1>8 DEF InvAbove, Loaded, TypeOK

(* So they keep whatever number of strings there was.                      *)
LEMMA CommitInv ==
    ASSUME NEW c \in Int, InvAbove(c), NEW m, NEW n \in Nat, Owned(c, m, n), Commit(m)
    PROVE  InvAbove(c)'
BY InvLoaded, CommitAbove

(* An instruction about to be executed has a well-formed operand.          *)
LEMMA InstOperand ==
    ASSUME Loaded, CanExecute
    PROVE  /\ vm.pc + 1 \in DOMAIN prog.code
           /\ OperandOK(prog, vm.pc + 1)
<1>1. WellFormed(prog)
  BY ProgramAssumption DEF Loaded
<1>2. vm.pc \in Nat
  BY MachineFields DEF Loaded, TypeOK
<1>3. vm.pc + 1 \in 1..Len(prog.code)
  BY <1>1, <1>2 DEF CanExecute, WellFormed
<1> QED
  BY <1>1, <1>3 DEF WellFormed

(* The operand of the instruction about to be executed, by its opcode. *)
LEMMA InstArg ==
    ASSUME Loaded, CanExecute
    PROVE  /\ Inst.op = "PUSH_CONST" => Inst.arg \in Number
           /\ Inst.op = "STR_PUSH" => Inst.arg \in Text
           /\ Inst.op \in {"PUSH_VAR", "POP_VAR", "STR_PUSH_VAR",
                           "STR_POP_VAR", "FOR_INIT", "DATA_READ_NUM",
                           "DATA_READ_STR"} => Inst.arg \in Slot
           /\ Inst.op \in JumpOps => Inst.arg \in Nat
           /\ Inst.op \in OnOps =>
                 /\ Inst.arg \in Nat
                 /\ \A k \in 1..Inst.arg :
                       prog.code[vm.pc + 1 + k].arg \in Nat
<1>1. OperandOK(prog, vm.pc + 1)
  BY InstOperand
<1> QED
  BY <1>1 DEF OperandOK, Inst

(* A READ with data left reads an entry of a DATA statement. *)
LEMMA DataEntryTyped ==
    ASSUME Loaded, ~OutOfData
    PROVE  DataEntry \in DataEntryType
<1>1. WellFormed(prog)
  BY ProgramAssumption DEF Loaded
<1>2. vm.dataPointer \in Nat
  BY MachineFields DEF Loaded, TypeOK
<1>3. vm.dataPointer + 1 \in DOMAIN prog.data
  BY <1>1, <1>2 DEF OutOfData, WellFormed
<1> QED
  BY <1>1, <1>3 DEF WellFormed, DataEntry

-----------------------------------------------------------------------------
(* Stack and variables.                                                    *)

(* Every pc the program can be sent to is a natural number. *)
LEMMA AdvanceOwned ==
    ASSUME NEW c \in Int, NEW m, NEW n \in Int, Owned(c, m, n)
    PROVE  /\ Owned(c, Advance(m), n)
           /\ \A pc \in Nat : Owned(c, SetPc(m, pc), n)
<1>1. m \in Machine
  BY DEF Owned
<1>2. ASSUME NEW pc \in Nat PROVE Owned(c, SetPc(m, pc), n)
  <2>1. SetPc(m, pc) \in Machine
    BY <1>1, UpdateType
  <2>2. SetPc(m, pc).heap = m.heap /\ SetPc(m, pc).stack = m.stack
    BY <1>1 DEF SetPc, Machine
  <2> QED
    BY <2>1, <2>2, FrameOwned
<1>3. m.pc + 1 \in Nat
  BY <1>1, MachineFields
<1> QED
  BY <1>2, <1>3 DEF Advance

(* A number stored in a variable changes nothing else. *)
LEMMA StoreNumberOwned ==
    ASSUME NEW c \in Int, NEW m, NEW n \in Int, Owned(c, m, n), NEW s \in Slot, NEW x \in Number
    PROVE  Owned(c, [m EXCEPT !.numVars[s] = x], n)
<1> DEFINE new == [m.numVars EXCEPT ![s] = x]
<1>1. m \in Machine
  BY DEF Owned
<1>2. new \in [Slot -> Number]
  BY <1>1, MachineFields
<1>3. [m EXCEPT !.numVars = new] \in Machine
  BY <1>1, <1>2, FieldType
<1>4. [m EXCEPT !.numVars[s] = x] = [m EXCEPT !.numVars = new]
  OBVIOUS
<1>5. /\ [m EXCEPT !.numVars = new].heap = m.heap
      /\ [m EXCEPT !.numVars = new].stack = m.stack
  BY <1>1 DEF Machine
<1> QED
  BY <1>3, <1>4, <1>5, FrameOwned

(* The string a variable is given was in hand, the one it held is now. *)
LEMMA StoreStringOwned ==
    ASSUME NEW c \in Int, NEW m, NEW n \in Int, Owned(c, m, n), NEW s \in Slot, NEW x \in Text
    PROVE  Owned(c, [m EXCEPT !.strVars[s] = x], n)
<1> DEFINE new == [m.strVars EXCEPT ![s] = x]
<1>1. m \in Machine
  BY DEF Owned
<1>2. new \in [Slot -> Text]
  BY <1>1, MachineFields
<1>3. [m EXCEPT !.strVars = new] \in Machine
  BY <1>1, <1>2, FieldType
<1>4. [m EXCEPT !.strVars[s] = x] = [m EXCEPT !.strVars = new]
  OBVIOUS
<1>5. /\ [m EXCEPT !.strVars = new].heap = m.heap
      /\ [m EXCEPT !.strVars = new].stack = m.stack
  BY <1>1 DEF Machine
<1> QED
  BY <1>3, <1>4, <1>5, FrameOwned

(* The four pushes: the operand, or the variable it names, has the type    *)
(* pushed.                                                                 *)
LEMMA PushInv ==
    ASSUME NEW c \in Int, InvAbove(c),
           OP_PUSH_CONST \/ OP_PUSH_VAR \/ OP_STR_PUSH_VAR \/ OP_STR_PUSH
    PROVE  InvAbove(c)'
<1>1. Owned(c, vm, 0) /\ CanExecute
  BY InvOwned DEF OP_PUSH_CONST, OP_PUSH_VAR, OP_STR_PUSH_VAR, OP_STR_PUSH,
                   Executing
<1>2. vm.numVars \in [Slot -> Number] /\ vm.strVars \in [Slot -> Text]
  BY <1>1, MachineFields DEF Owned
<1>3. CASE OP_PUSH_CONST
  <2>1. Inst.arg \in Number
    BY <1>1, <1>3, InvLoaded, InstArg DEF OP_PUSH_CONST, Executing
  <2>2. Owned(c, Advance(vm_push_number(vm, Inst.arg)), 0)
    BY <1>1, <2>1, PushNumberOwned, AdvanceOwned
  <2> QED
    BY <1>3, <2>2, CommitInv DEF OP_PUSH_CONST
<1>4. CASE OP_PUSH_VAR
  <2>1. Inst.arg \in Slot
    BY <1>1, <1>4, InvLoaded, InstArg DEF OP_PUSH_VAR, Executing
  <2>2. vm.numVars[Inst.arg] \in Number
    BY <1>2, <2>1
  <2>3. Owned(c, Advance(vm_push_number(vm, vm.numVars[Inst.arg])), 0)
    BY <1>1, <2>2, PushNumberOwned, AdvanceOwned
  <2> QED
    BY <1>4, <2>3, CommitInv DEF OP_PUSH_VAR
<1>5. CASE OP_STR_PUSH_VAR
  <2>1. Inst.arg \in Slot
    BY <1>1, <1>5, InvLoaded, InstArg DEF OP_STR_PUSH_VAR, Executing
  <2>2. vm.strVars[Inst.arg] \in Text
    BY <1>2, <2>1
  <2>3. Owned(c, Advance(vm_push_string(vm, vm.strVars[Inst.arg])), 0)
    BY <1>1, <2>2, PushStringOwned, AdvanceOwned
  <2> QED
    BY <1>5, <2>3, CommitInv DEF OP_STR_PUSH_VAR
<1>6. CASE OP_STR_PUSH
  <2>1. Inst.arg \in Text
    BY <1>1, <1>6, InvLoaded, InstArg DEF OP_STR_PUSH, Executing
  <2>2. Owned(c, Advance(vm_push_string(vm, Inst.arg)), 0)
    BY <1>1, <2>1, PushStringOwned, AdvanceOwned
  <2> QED
    BY <1>6, <2>2, CommitInv DEF OP_STR_PUSH
<1> QED
  BY <1>3, <1>4, <1>5, <1>6

(* POP_VAR, STR_POP_VAR, DUP and POP. *)
LEMMA StoreInv ==
    ASSUME NEW c \in Int, InvAbove(c), OP_POP_VAR \/ OP_STR_POP_VAR
    PROVE  InvAbove(c)'
<1>1. Owned(c, vm, 0) /\ CanExecute
  BY InvOwned DEF OP_POP_VAR, OP_STR_POP_VAR, Executing
<1>2. CASE OP_POP_VAR
  <2> DEFINE p == vm_pop_number(vm)
             next == [p.m EXCEPT !.numVars[Inst.arg] = p.v]
  <2>1. Inst.arg \in Slot
    BY <1>1, <1>2, InvLoaded, InstArg DEF OP_POP_VAR, Executing
  <2>2. Owned(c, p.m, 0) /\ p.v \in Number
    BY <1>1, PopNumberOwned
  <2>3. Owned(c, next, 0)
    BY <2>1, <2>2, StoreNumberOwned
  <2>4. Owned(c, Advance(next), 0)
    BY <2>3, AdvanceOwned
  <2>5. Commit(Advance(next))
    BY <1>2 DEF OP_POP_VAR
  <2> QED
    BY <2>4, <2>5, CommitInv
<1>3. CASE OP_STR_POP_VAR
  <2> DEFINE p == vm_pop_string(vm)
             next == [p.m EXCEPT !.strVars[Inst.arg] = p.v]
  <2>1. Inst.arg \in Slot
    BY <1>1, <1>3, InvLoaded, InstArg DEF OP_STR_POP_VAR, Executing
  <2>2. Owned(c, p.m, 0 + 1) /\ p.v \in Text
    BY <1>1, PopStringOwned
  <2>3. Owned(c, next, 1)
    BY <2>1, <2>2, StoreStringOwned
  <2>4. Owned(c, Free(next), 1 - 1)
    BY <2>3, AllocOwned
  <2>5. Owned(c, Advance(Free(next)), 0)
    BY <2>4, AdvanceOwned
  <2>6. Commit(Advance(Free(next)))
    BY <1>3 DEF OP_STR_POP_VAR
  <2> QED
    BY <2>5, <2>6, CommitInv
<1> QED
  BY <1>1, <1>2, <1>3

(* DUP: the copy of a string is one more allocation, for the stack. *)
LEMMA DupInv ==
    ASSUME NEW c \in Int, InvAbove(c), OP_DUP
    PROVE  InvAbove(c)'
<1> DEFINE top == vm.stack[Len(vm.stack)]
<1>1. Owned(c, vm, 0) /\ vm.stack \in Seq(Value)
  BY InvOwned, MachineFields DEF Owned
<1>2. CASE vm.stack = <<>>
  <2>1. Commit(Advance(vm))
    BY <1>2 DEF OP_DUP
  <2> QED
    BY <1>1, <2>1, AdvanceOwned, CommitInv
<1>3. CASE vm.stack # <<>> /\ top.type = "str"
  <2>1. top \in StrValue
    BY <1>1, <1>3 DEF Value, NumValue
  <2>2. top.str \in Text
    BY <2>1 DEF StrValue
  <2>3. Owned(c, Advance(vm_push_string(vm, top.str)), 0)
    BY <1>1, <2>2, PushStringOwned, AdvanceOwned
  <2>4. Commit(Advance(vm_push_string(vm, top.str)))
    BY <1>3 DEF OP_DUP
  <2> QED
    BY <2>3, <2>4, CommitInv
<1>4. CASE vm.stack # <<>> /\ top.type # "str"
  <2>1. top \in Value /\ Weight(top) = 0
    BY <1>1, <1>4 DEF Weight
  <2>2. Owned(c, vm_push(vm, top), 0 - Weight(top))
    BY <1>1, <2>1, PushOwned
  <2>3. Owned(c, Advance(vm_push(vm, top)), 0)
    BY <2>1, <2>2, AdvanceOwned
  <2>4. Commit(Advance(vm_push(vm, top)))
    BY <1>4 DEF OP_DUP
  <2> QED
    BY <2>3, <2>4, CommitInv
<1> QED
  BY <1>2, <1>3, <1>4

(* POP: a string taken off the stack is freed. *)
LEMMA PopInv ==
    ASSUME NEW c \in Int, InvAbove(c), OP_POP
    PROVE  InvAbove(c)'
<1> DEFINE p == vm_pop(vm)
           next == IF p.v.type = "str" THEN Free(p.m) ELSE p.m
<1>1. Owned(c, vm, 0)
  BY InvOwned
<1>2. Owned(c, p.m, 0 + Weight(p.v))
  BY <1>1, PopOwned
<1>3. CASE p.v.type = "str"
  <2>1. Owned(c, p.m, 1)
    BY <1>2, <1>3 DEF Weight
  <2>2. Owned(c, Free(p.m), 1 - 1)
    BY <2>1, AllocOwned
  <2>3. Owned(c, Advance(Free(p.m)), 0)
    BY <2>2, AdvanceOwned
  <2>4. Commit(Advance(Free(p.m)))
    BY <1>3 DEF OP_POP
  <2> QED
    BY <2>3, <2>4, CommitInv
<1>4. CASE p.v.type # "str"
  <2>1. Owned(c, p.m, 0)
    BY <1>2, <1>4 DEF Weight
  <2>2. Owned(c, Advance(p.m), 0)
    BY <2>1, AdvanceOwned
  <2>3. Commit(Advance(p.m))
    BY <1>4 DEF OP_POP
  <2> QED
    BY <2>2, <2>3, CommitInv
<1> QED
  BY <1>3, <1>4

-----------------------------------------------------------------------------
(* Arithmetic, comparison and logic.                                       *)

(* What most handlers do with two numbers, or with one. *)
LEMMA PopTwoNumbers ==
    ASSUME NEW c \in Int, NEW m, NEW n \in Int, Owned(c, m, n)
    PROVE  LET b == vm_pop_number(m)
               a == vm_pop_number(b.m)
           IN  /\ Owned(c, b.m, n) /\ b.v \in Number
               /\ Owned(c, a.m, n) /\ a.v \in Number
BY PopNumberOwned

(* A handler that ends by pushing a number holds no string. *)
LEMMA PushNumberCommit ==
    ASSUME NEW c \in Int, InvAbove(c), NEW m, Owned(c, m, 0), NEW x \in Number,
           Commit(Advance(vm_push_number(m, x)))
    PROVE  InvAbove(c)'
<1>1. Owned(c, Advance(vm_push_number(m, x)), 0)
  BY PushNumberOwned, AdvanceOwned
<1> QED
  BY <1>1, CommitInv

(* The 1 and 0 of a condition are numbers. *)
LEMMA BoolNumber == \A p \in BOOLEAN : Bool(p) \in Number
<1>1. 1 \in Number
  BY NumberAssumption DEF ErrorCode, ERR_NEXT_WITHOUT_FOR
<1> QED
  BY <1>1, ZeroIsNumber DEF Bool

(* ADD, SUB, MUL and MOD, which give up when a pop has sprung the trap. *)
LEMMA ArithInv ==
    ASSUME NEW c \in Int, InvAbove(c), OP_ADD_SUB_MUL_MOD
    PROVE  InvAbove(c)'
<1> DEFINE b == vm_pop_number(vm)
           a == vm_pop_number(b.m)
           result == ArithResult(Inst.op, a.v, b.v)
<1>1. Owned(c, b.m, 0) /\ Owned(c, a.m, 0)
  BY InvOwned, PopTwoNumbers
<1>2. CASE b.m.trapTriggered
  <2>1. Commit(b.m)
    BY <1>2 DEF OP_ADD_SUB_MUL_MOD
  <2> QED
    BY <1>1, <2>1, CommitInv
<1>3. CASE ~b.m.trapTriggered /\ a.m.trapTriggered
  <2>1. Commit(a.m)
    BY <1>3 DEF OP_ADD_SUB_MUL_MOD
  <2> QED
    BY <1>1, <2>1, CommitInv
<1>4. CASE ~b.m.trapTriggered /\ ~a.m.trapTriggered
  <2>1. result \in Number /\ Commit(Advance(vm_push_number(a.m, result)))
    BY <1>4 DEF OP_ADD_SUB_MUL_MOD
  <2> HIDE DEF a, b, result
  <2> QED
    BY <1>1, <2>1, PushNumberCommit
<1> QED
  BY <1>2, <1>3, <1>4

(* A handler that ends early after an error, or steps past it. *)
LEMMA FailedCommit ==
    ASSUME NEW c \in Int, InvAbove(c), NEW m, Owned(c, m, 0), NEW code \in ErrorCode,
           Commit(IF vm_error(m, code).trapTriggered
                  THEN vm_error(m, code) ELSE Advance(vm_error(m, code)))
    PROVE  InvAbove(c)'
<1>1. Owned(c, vm_error(m, code), 0)
  BY ErrorOwned
<1>2. Owned(c, Advance(vm_error(m, code)), 0)
  BY <1>1, AdvanceOwned
<1> QED
  BY <1>1, <1>2, CommitInv

(* DIV, by zero or not. *)
LEMMA DivInv ==
    ASSUME NEW c \in Int, InvAbove(c), OP_DIV
    PROVE  InvAbove(c)'
<1> DEFINE b == vm_pop_number(vm)
           a == vm_pop_number(b.m)
           failed == vm_error(a.m, ERR_DIVISION_BY_ZERO)
<1>1. Owned(c, a.m, 0)
  BY InvOwned, PopTwoNumbers
<1>2. CASE b.v = 0
  <2>1. Commit(IF failed.trapTriggered THEN failed ELSE Advance(failed))
    BY <1>2 DEF OP_DIV
  <2>2. ERR_DIVISION_BY_ZERO \in ErrorCode
    BY DEF ErrorCode
  <2> QED
    BY <1>1, <2>1, <2>2, FailedCommit
<1>3. CASE b.v # 0
  <2>1. PICK q \in Quotients(a.v, b.v) : Commit(Advance(vm_push_number(a.m, q)))
    BY <1>3 DEF OP_DIV
  <2>2. q \in Number
    BY <2>1 DEF Quotients
  <2> QED
    BY <1>1, <2>1, <2>2, PushNumberCommit
<1> QED
  BY <1>2, <1>3

(* POW and NEG. *)
LEMMA PowNegInv ==
    ASSUME NEW c \in Int, InvAbove(c), OP_POW \/ OP_NEG
    PROVE  InvAbove(c)'
<1>1. CASE OP_POW
  <2> DEFINE b == vm_pop_number(vm)
             a == vm_pop_number(b.m)
  <2>1. Owned(c, a.m, 0)
    BY InvOwned, PopTwoNumbers
  <2>2. PICK r \in FloatResult : Commit(Advance(vm_push_number(a.m, r)))
    BY <1>1 DEF OP_POW
  <2>3. r \in Number
    BY NumberAssumption
  <2> QED
    BY <2>1, <2>2, <2>3, PushNumberCommit
<1>2. CASE OP_NEG
  <2> DEFINE a == vm_pop_number(vm)
  <2>1. Owned(c, a.m, 0)
    BY InvOwned, PopNumberOwned
  <2>2. -a.v \in Number /\ Commit(Advance(vm_push_number(a.m, -a.v)))
    BY <1>2 DEF OP_NEG
  <2> QED
    BY <2>1, <2>2, PushNumberCommit
<1> QED
  BY <1>1, <1>2

(* Operands of different types: one of them may be a string that nobody    *)
(* frees.  That is a leak, and the reason why NoDoubleFree is not an       *)
(* equality.                                                               *)
LEMMA CompareInv ==
    ASSUME NEW c \in Int, InvAbove(c), OP_COMPARE
    PROVE  InvAbove(c)'
<1> DEFINE b == vm_pop(vm)
           a == vm_pop(b.m)
<1>1. Owned(c, b.m, 0 + Weight(b.v)) /\ b.v \in Value
  BY InvOwned, PopOwned, PopType DEF Owned
<1>2. Weight(b.v) \in Nat /\ Weight(a.v) \in Nat
  BY DEF Weight
<1>3. Owned(c, a.m, Weight(b.v) + Weight(a.v)) /\ a.v \in Value
  BY <1>1, <1>2, PopOwned, PopType DEF Owned
<1>4. Owned(c, a.m, 0)
  BY <1>2, <1>3, OwnedWeaken
<1>5. CASE a.v.type # b.v.type
  <2> DEFINE failed == vm_error(a.m, ERR_TYPE_MISMATCH)
  <2>1. Owned(c, failed, 0)
    BY <1>4, ErrorOwned DEF ErrorCode
  <2>2. Bool(Inst.op = "NE") \in Number
    BY BoolNumber
  <2>3. Commit(Advance(vm_push_number(failed, Bool(Inst.op = "NE"))))
    BY <1>5 DEF OP_COMPARE
  <2> QED
    BY <2>1, <2>2, <2>3, PushNumberCommit
<1>6. CASE a.v.type = b.v.type
  <2> DEFINE compared == IF a.v.type = "str" THEN Free(Free(a.m)) ELSE a.m
             result == Bool(Related(Inst.op, a.v, b.v))
  <2>1. Owned(c, compared, 0)
    <3>1. CASE a.v.type = "str"
      <4>1. Owned(c, a.m, 2)
        BY <1>3, <1>6, <3>1 DEF Weight
      <4>2. Owned(c, Free(a.m), 2 - 1)
        BY <4>1, AllocOwned
      <4>3. Owned(c, Free(Free(a.m)), 1 - 1)
        BY <4>2, AllocOwned
      <4> QED
        BY <3>1, <4>3
    <3>2. CASE a.v.type # "str"
      BY <1>4, <3>2
    <3> QED
      BY <3>1, <3>2
  <2>2. result \in Number
    BY BoolNumber, ZeroIsNumber DEF Bool
  <2>3. Commit(Advance(vm_push_number(compared, result)))
    BY <1>6 DEF OP_COMPARE
  <2> HIDE DEF compared, result
  <2> QED
    BY <2>1, <2>2, <2>3, PushNumberCommit
<1> QED
  BY <1>5, <1>6

(* AND, OR and NOT. *)
LEMMA LogicInv ==
    ASSUME NEW c \in Int, InvAbove(c), OP_AND_OR \/ OP_NOT
    PROVE  InvAbove(c)'
<1>1. CASE OP_AND_OR
  <2> DEFINE b == vm_pop_number(vm)
             a == vm_pop_number(b.m)
             holds == IF Inst.op = "AND" THEN a.v # 0 /\ b.v # 0
                                         ELSE a.v # 0 \/ b.v # 0
  <2>1. Owned(c, a.m, 0)
    BY InvOwned, PopTwoNumbers
  <2>2. Bool(holds) \in Number
    BY BoolNumber
  <2>3. Commit(Advance(vm_push_number(a.m, Bool(holds))))
    BY <1>1 DEF OP_AND_OR
  <2> QED
    BY <2>1, <2>2, <2>3, PushNumberCommit
<1>2. CASE OP_NOT
  <2> DEFINE a == vm_pop_number(vm)
  <2>1. Owned(c, a.m, 0)
    BY InvOwned, PopNumberOwned
  <2>2. Bool(a.v = 0) \in Number
    BY BoolNumber
  <2>3. Commit(Advance(vm_push_number(a.m, Bool(a.v = 0))))
    BY <1>2 DEF OP_NOT
  <2> QED
    BY <2>1, <2>2, <2>3, PushNumberCommit
<1> QED
  BY <1>1, <1>2

-----------------------------------------------------------------------------
(* Strings.                                                                *)

(* LEFT$, RIGHT$ and MID$ of a text are texts, for arguments of any size:  *)
(* in the clamped range every index is one of the text's own.              *)
LEMMA SliceType ==
    ASSUME NEW s \in Text, NEW len \in Int, NEW start \in Int
    PROVE  Left(s, len) \in Text /\ Right(s, len) \in Text
           /\ Mid(s, start, len) \in Text
<1>1. Len(s) \in Nat /\ s \in Seq(Char)
  BY DEF Text
<1>2. \A i, j \in Int : 1 <= i /\ j <= Len(s) => SubSeq(s, i, j) \in Seq(Char)
  BY <1>1
<1>3. Left(s, len) \in Text
  <2>1. Smaller(AtLeastZero(len), Len(s)) \in 0..Len(s)
    BY <1>1 DEF Smaller, AtLeastZero
  <2> QED
    BY <1>1, <1>2, <2>1 DEF Left, Text
<1>4. Right(s, len) \in Text
  <2>1. Smaller(AtLeastZero(len), Len(s)) \in 0..Len(s)
    BY <1>1 DEF Smaller, AtLeastZero
  <2> QED
    BY <1>1, <1>2, <2>1 DEF Right, Text
<1>5. Mid(s, start, len) \in Text
  <2> DEFINE skip == AtLeastZero(start - 1)
             take == IF len < 0 \/ len > Len(s) - skip
                     THEN Len(s) - skip ELSE len
  <2>1. skip \in Nat
    BY DEF AtLeastZero
  <2>2. take \in Int /\ skip + take <= Len(s)
    BY <1>1, <2>1
  <2> HIDE DEF skip, take
  <2>3. SubSeq(s, skip + 1, skip + take) \in Seq(Char)
    BY <1>2, <2>1, <2>2
  <2> QED
    BY <2>3 DEF Mid, Text, skip, take
<1> QED
  BY <1>3, <1>4, <1>5

(* The replaced string is freed, the new one belongs to the stack. *)
LEMMA PushReplacingCommit ==
    ASSUME NEW c \in Int, InvAbove(c), NEW m, Owned(c, m, 1), NEW s \in Text,
           Commit(PushReplacing(m, s))
    PROVE  InvAbove(c)'
<1>1. Owned(c, vm_push_string(m, s), 1)
  BY PushStringOwned
<1>2. Owned(c, Free(vm_push_string(m, s)), 1 - 1)
  BY <1>1, AllocOwned
<1>3. Owned(c, PushReplacing(m, s), 0)
  BY <1>2, AdvanceOwned DEF PushReplacing
<1> QED
  BY <1>3, CommitInv

(* LEFT$, RIGHT$ and MID$. *)
LEMMA SliceInv ==
    ASSUME NEW c \in Int, InvAbove(c), OP_STR_LEFT_RIGHT \/ OP_STR_MID \/ OP_STR_MID_2
    PROVE  InvAbove(c)'
<1>1. Owned(c, vm, 0) /\ Number \subseteq Int
  BY InvOwned, NumberAssumption
<1>2. CASE OP_STR_LEFT_RIGHT
  <2> DEFINE len == vm_pop_number(vm)
             str == vm_pop_string(len.m)
  <2>1. Owned(c, len.m, 0) /\ len.v \in Int
    BY <1>1, PopNumberOwned
  <2>2. Owned(c, str.m, 0 + 1) /\ str.v \in Text
    BY <2>1, PopStringOwned
  <2>3. Left(str.v, len.v) \in Text /\ Right(str.v, len.v) \in Text
    BY <2>1, <2>2, SliceType
  <2>4. \/ Commit(str.m)
        \/ Commit(PushReplacing(str.m, Left(str.v, len.v)))
        \/ Commit(PushReplacing(str.m, Right(str.v, len.v)))
    BY <1>2 DEF OP_STR_LEFT_RIGHT
  <2> HIDE DEF len, str
  <2> QED
    BY <2>2, <2>3, <2>4, CommitInv, PushReplacingCommit
<1>3. CASE OP_STR_MID
  <2> DEFINE len   == vm_pop_number(vm)
             start == vm_pop_number(len.m)
             str   == vm_pop_string(start.m)
  <2>1. Owned(c, len.m, 0) /\ len.v \in Int
    BY <1>1, PopNumberOwned
  <2>2. Owned(c, start.m, 0) /\ start.v \in Int
    BY <1>1, <2>1, PopNumberOwned
  <2>3. Owned(c, str.m, 0 + 1) /\ str.v \in Text
    BY <2>2, PopStringOwned
  <2>4. Mid(str.v, start.v, len.v) \in Text
    BY <2>1, <2>2, <2>3, SliceType
  <2>5. Commit(str.m) \/ Commit(PushReplacing(str.m, Mid(str.v, start.v, len.v)))
    BY <1>3 DEF OP_STR_MID
  <2> HIDE DEF len, start, str
  <2> QED
    BY <2>3, <2>4, <2>5, CommitInv, PushReplacingCommit
<1>4. CASE OP_STR_MID_2
  <2> DEFINE start == vm_pop_number(vm)
             str   == vm_pop_string(start.m)
  <2>1. Owned(c, start.m, 0) /\ start.v \in Int
    BY <1>1, PopNumberOwned
  <2>2. Owned(c, str.m, 0 + 1) /\ str.v \in Text
    BY <2>1, PopStringOwned
  <2>3. Mid(str.v, start.v, -1) \in Text
    BY <2>1, <2>2, SliceType
  <2>4. Commit(PushReplacing(str.m, Mid(str.v, start.v, -1)))
    BY <1>4 DEF OP_STR_MID_2
  <2> HIDE DEF start, str
  <2> QED
    BY <2>2, <2>3, <2>4, PushReplacingCommit
<1> QED
  BY <1>2, <1>3, <1>4

(* LEN, ASC and VAL: on an error the popped string is not freed (a leak). *)
LEMMA NumberFromStringInv ==
    ASSUME NEW c \in Int, InvAbove(c), OP_STR_LEN_ASC_VAL
    PROVE  InvAbove(c)'
<1> DEFINE str == vm_pop_string(vm)
           result == NumberFrom(Inst.op, str.v)
<1>1. Owned(c, str.m, 0 + 1)
  BY InvOwned, PopStringOwned
<1>2. Owned(c, Free(str.m), 1 - 1)
  BY <1>1, AllocOwned
<1>3. \/ Commit(str.m)
      \/ /\ result \in Number
         /\ Commit(Advance(vm_push_number(Free(str.m), result)))
  BY DEF OP_STR_LEN_ASC_VAL
<1> HIDE DEF str, result
<1> QED
  BY <1>1, <1>2, <1>3, CommitInv, PushNumberCommit

(* CHR$ and STR$. *)
LEMMA StringFromNumberInv ==
    ASSUME NEW c \in Int, InvAbove(c), OP_STR_CHR_STR
    PROVE  InvAbove(c)'
<1> DEFINE n == vm_pop_number(vm)
           result == IF Inst.op = "STR_CHR" THEN Chr(n.v) ELSE FormatG(n.v)
<1>1. Owned(c, n.m, 0) /\ n.v \in Number /\ n.v \in Int
  BY InvOwned, PopNumberOwned, NumberAssumption
<1>2. Chr(n.v) \in Text
  <2>1. PICK char \in 0..255 : char = n.v % 256
    BY <1>1
  <2>2. char # 0 => char \in Char
    BY DEF Char
  <2>3. <<>> \in Seq(Char) /\ (char # 0 => <<char>> \in Seq(Char))
    BY <2>2
  <2> QED
    BY <2>1, <2>3 DEF Chr, Text
<1>3. result \in Text
  BY <1>1, <1>2, FormatAssumption
<1>4. Commit(Advance(vm_push_string(n.m, result)))
  BY DEF OP_STR_CHR_STR
<1> HIDE DEF n, result
<1>5. Owned(c, Advance(vm_push_string(n.m, result)), 0)
  BY <1>1, <1>3, PushStringOwned, AdvanceOwned
<1> QED
  BY <1>4, <1>5, CommitInv

-----------------------------------------------------------------------------
(* Numeric functions, ERR, READ.                                           *)

(* The numeric functions without a domain check, and ERR. *)
LEMMA FunctionInv ==
    ASSUME NEW c \in Int, InvAbove(c), OP_FUNC_FLOAT \/ OP_FUNC_RND \/ OP_FUNC_EXACT \/ OP_FN_ERR
    PROVE  InvAbove(c)'
<1> DEFINE x == vm_pop_number(vm)
<1>1. Owned(c, vm, 0) /\ Owned(c, x.m, 0)
  BY InvOwned, PopNumberOwned
<1>2. CASE OP_FUNC_FLOAT \/ OP_FUNC_RND
  <2>1. PICK r \in FloatResult : Commit(Advance(vm_push_number(x.m, r)))
    BY <1>2 DEF OP_FUNC_FLOAT, OP_FUNC_RND
  <2>2. r \in Number
    BY NumberAssumption
  <2> QED
    BY <1>1, <2>1, <2>2, PushNumberCommit
<1>3. CASE OP_FUNC_EXACT
  <2> DEFINE result == ExactResult(Inst.op, x.v)
  <2>1. result \in Number /\ Commit(Advance(vm_push_number(x.m, result)))
    BY <1>3 DEF OP_FUNC_EXACT
  <2> HIDE DEF x, result
  <2> QED
    BY <1>1, <2>1, PushNumberCommit
<1>4. CASE OP_FN_ERR
  <2>1. vm.errorCode \in Number
    BY <1>1, MachineFields, NumberAssumption DEF Owned
  <2>2. Commit(Advance(vm_push_number(vm, vm.errorCode)))
    BY <1>4 DEF OP_FN_ERR
  <2> QED
    BY <1>1, <2>1, <2>2, PushNumberCommit
<1> QED
  BY <1>2, <1>3, <1>4

(* LOG, CLOG and SQR, in and out of their domain. *)
LEMMA DomainInv ==
    ASSUME NEW c \in Int, InvAbove(c), OP_FUNC_DOMAIN
    PROVE  InvAbove(c)'
<1> DEFINE x == vm_pop_number(vm)
           failed == vm_error(x.m, ERR_ILLEGAL_FUNCTION)
<1>1. Owned(c, x.m, 0)
  BY InvOwned, PopNumberOwned
<1>2. CASE OutsideDomain(Inst.op, x.v)
  <2>1. Commit(IF failed.trapTriggered THEN failed ELSE Advance(failed))
    BY <1>2 DEF OP_FUNC_DOMAIN
  <2>2. ERR_ILLEGAL_FUNCTION \in ErrorCode
    BY DEF ErrorCode
  <2> QED
    BY <1>1, <2>1, <2>2, FailedCommit
<1>3. CASE ~OutsideDomain(Inst.op, x.v)
  <2>1. PICK r \in FloatResult : Commit(Advance(vm_push_number(x.m, r)))
    BY <1>3 DEF OP_FUNC_DOMAIN
  <2>2. r \in Number
    BY NumberAssumption
  <2> QED
    BY <1>1, <2>1, <2>2, PushNumberCommit
<1> QED
  BY <1>2, <1>3

(* Whatever the DATA item, READ takes a text for a string variable.        *)
LEMMA DataAsTextType ==
    \A entry \in DataEntryType : DataAsText(entry) \in Text
<1> SUFFICES ASSUME NEW entry \in DataEntryType
             PROVE  DataAsText(entry) \in Text
  OBVIOUS
<1>1. CASE entry \in NumValue
  <2>1. entry.type = "num" /\ entry.num \in Number
    BY <1>1 DEF NumValue
  <2>2. DataAsText(entry) = FormatG(entry.num)
    BY <2>1 DEF DataAsText
  <2> QED
    BY <2>1, <2>2, FormatAssumption
<1>2. CASE entry \in StrValue
  <2>1. entry.type = "str" /\ entry.str \in Text
    BY <1>2 DEF StrValue
  <2> QED
    BY <2>1 DEF DataAsText
<1>3. CASE entry = NullData
  <2>1. DataAsText(entry) = <<>>
    BY <1>3 DEF DataAsText, NullData
  <2> QED
    BY <2>1 DEF Text
<1> QED
  BY <1>1, <1>2, <1>3 DEF DataEntryType, Value

(* READ into a number, into a string, and past the end of the data. *)
LEMMA ReadInv ==
    ASSUME NEW c \in Int, InvAbove(c), OP_DATA_READ
    PROVE  InvAbove(c)'
<1> DEFINE failed == vm_error(vm, ERR_OUT_OF_DATA)
<1>1. Owned(c, vm, 0) /\ vm \in Machine /\ CanExecute
  BY InvOwned DEF Owned, OP_DATA_READ, ExecutingOneOf
<1>2. Inst.op \in {"DATA_READ_NUM", "DATA_READ_STR"}
  BY DEF OP_DATA_READ, ExecutingOneOf
<1>3. Inst.arg \in Slot
  BY <1>1, <1>2, InvLoaded, InstArg
<1>4. Owned(c, AfterDataEntry, 0)
  <2>1. vm.dataPointer + 1 \in Nat
    BY <1>1, MachineFields
  <2>2. AfterDataEntry \in Machine
    BY <1>1, <2>1, FieldType DEF AfterDataEntry
  <2>3. AfterDataEntry.heap = vm.heap /\ AfterDataEntry.stack = vm.stack
    BY <1>1 DEF AfterDataEntry, Machine
  <2> QED
    BY <1>1, <2>2, <2>3, FrameOwned
<1>5. CASE OutOfData
  <2>1. Commit(IF failed.trapTriggered THEN failed ELSE Advance(failed))
    BY <1>5 DEF OP_DATA_READ
  <2>2. ERR_OUT_OF_DATA \in ErrorCode
    BY DEF ErrorCode
  <2> QED
    BY <1>1, <2>1, <2>2, FailedCommit
<1>6. CASE ~OutOfData /\ Inst.op = "DATA_READ_NUM"
  <2> DEFINE number == DataAsNumber(DataEntry)
             next == [AfterDataEntry EXCEPT !.numVars[Inst.arg] = number]
  <2>1. number \in Number /\ Commit(Advance(next))
    BY <1>6 DEF OP_DATA_READ
  <2> HIDE DEF number
  <2>2. Owned(c, next, 0)
    BY <1>3, <1>4, <2>1, StoreNumberOwned
  <2>3. Owned(c, Advance(next), 0)
    BY <2>2, AdvanceOwned
  <2> QED
    BY <2>1, <2>3, CommitInv
<1>7. CASE ~OutOfData /\ Inst.op # "DATA_READ_NUM"
  <2> DEFINE text == DataAsText(DataEntry)
             next == [AfterDataEntry EXCEPT !.strVars[Inst.arg] = text]
  <2>1. text \in Text
    BY <1>7, InvLoaded, DataEntryTyped, DataAsTextType
  <2>2. Commit(Advance(Alloc(Free(next))))
    BY <1>7 DEF OP_DATA_READ
  <2> HIDE DEF text
  <2>3. Owned(c, next, 0)
    BY <1>3, <1>4, <2>1, StoreStringOwned
  <2>4. Owned(c, Free(next), 0 - 1)
    BY <2>3, AllocOwned
  <2>5. Owned(c, Alloc(Free(next)), (0 - 1) + 1)
    BY <2>4, AllocOwned
  <2>6. Owned(c, Advance(Alloc(Free(next))), 0)
    BY <2>5, AdvanceOwned
  <2> QED
    BY <2>2, <2>6, CommitInv
<1> QED
  BY <1>5, <1>6, <1>7

(* RESTORE. *)
LEMMA RestoreInv ==
    ASSUME NEW c \in Int, InvAbove(c), OP_RESTORE
    PROVE  InvAbove(c)'
<1> DEFINE next == [vm EXCEPT !.dataPointer = 0]
<1>1. Owned(c, vm, 0) /\ vm \in Machine
  BY InvOwned DEF Owned
<1>2. next \in Machine
  BY <1>1, FieldType
<1>3. next.heap = vm.heap /\ next.stack = vm.stack
  BY <1>1 DEF Machine
<1>4. Owned(c, Advance(next), 0)
  <2> HIDE DEF next
  <2>1. Owned(c, next, 0)
    BY <1>1, <1>2, <1>3, FrameOwned
  <2> QED
    BY <2>1, AdvanceOwned
<1>5. Commit(Advance(next))
  BY DEF OP_RESTORE
<1> QED
  BY <1>4, <1>5, CommitInv

-----------------------------------------------------------------------------
(* Control.                                                                *)

(* The GOSUB and FOR stacks hold no strings. *)
LEMMA CallOwned ==
    ASSUME NEW c \in Int, NEW m, NEW n \in Int, Owned(c, m, n)
    PROVE  /\ \A r \in Nat : Owned(c, vm_call_push(m, r), n)
           /\ Owned(c, vm_call_pop(m).m, n)
           /\ vm_call_pop(m).v \in Nat
<1>1. m \in Machine
  BY DEF Owned
<1>2. ASSUME NEW r \in Nat PROVE Owned(c, vm_call_push(m, r), n)
  <2>1. vm_call_push(m, r) \in Machine
    BY <1>1, CallType
  <2>2. /\ vm_call_push(m, r).heap = m.heap
        /\ vm_call_push(m, r).stack = m.stack
    BY <1>1 DEF vm_call_push, Machine
  <2> QED
    BY <2>1, <2>2, FrameOwned
<1>3. vm_call_pop(m).m \in Machine /\ vm_call_pop(m).v \in Nat
  BY <1>1, CallType
<1>4. CASE m.callStack = <<>>
  <2>1. Owned(c, vm_error(m, ERR_RETURN_WITHOUT_GOSUB), n)
    BY ErrorOwned DEF ErrorCode
  <2> QED
    BY <1>2, <1>3, <1>4, <2>1 DEF vm_call_pop
<1>5. CASE m.callStack # <<>>
  <2> DEFINE front == SubSeq(m.callStack, 1, Len(m.callStack) - 1)
  <2>1. vm_call_pop(m).m = [m EXCEPT !.callStack = front]
    BY <1>5 DEF vm_call_pop
  <2> HIDE DEF front
  <2>2. vm_call_pop(m).m.heap = m.heap /\ vm_call_pop(m).m.stack = m.stack
    BY <1>1, <2>1 DEF Machine
  <2>3. Owned(c, vm_call_pop(m).m, n)
    BY <1>3, <2>2, FrameOwned
  <2> QED
    BY <1>2, <1>3, <2>3
<1> QED
  BY <1>4, <1>5

(* Nor does a FOR frame. *)
LEMMA ForOwned ==
    ASSUME NEW c \in Int, NEW m, NEW n \in Int, Owned(c, m, n)
    PROVE  /\ \A f \in ForLoopState : Owned(c, vm_for_push(m, f), n)
           /\ Owned(c, vm_for_pop(m), n)
<1>1. m \in Machine
  BY DEF Owned
<1>2. ASSUME NEW f \in ForLoopState PROVE Owned(c, vm_for_push(m, f), n)
  <2>1. vm_for_push(m, f) \in Machine
    BY <1>1, ForType
  <2>2. vm_for_push(m, f).heap = m.heap /\ vm_for_push(m, f).stack = m.stack
    BY <1>1 DEF vm_for_push, Machine
  <2> QED
    BY <2>1, <2>2, FrameOwned
<1>3. vm_for_pop(m) \in Machine
  BY <1>1, ForType
<1>4. vm_for_pop(m).heap = m.heap /\ vm_for_pop(m).stack = m.stack
  BY <1>1 DEF vm_for_pop, Machine
<1>5. Owned(c, vm_for_pop(m), n)
  BY <1>3, <1>4, FrameOwned
<1> QED
  BY <1>2, <1>5

(* JUMP and the conditional jumps. *)
LEMMA JumpInv ==
    ASSUME NEW c \in Int, InvAbove(c), OP_JUMP \/ OP_JUMP_IF
    PROVE  InvAbove(c)'
<1>1. Owned(c, vm, 0) /\ CanExecute
  BY InvOwned DEF OP_JUMP, OP_JUMP_IF, Executing, ExecutingOneOf
<1>2. Inst.arg \in Nat
  <2>1. Inst.op \in JumpOps
    BY DEF OP_JUMP, OP_JUMP_IF, Executing, ExecutingOneOf, JumpOps
  <2> QED
    BY <1>1, <2>1, InvLoaded, InstArg
<1>3. CASE OP_JUMP
  <2>1. Owned(c, SetPc(vm, Inst.arg), 0)
    BY <1>1, <1>2, AdvanceOwned
  <2> QED
    BY <1>3, <2>1, CommitInv DEF OP_JUMP
<1>4. CASE OP_JUMP_IF
  <2> DEFINE cond == vm_pop_number(vm)
  <2>1. Owned(c, cond.m, 0)
    BY <1>1, PopNumberOwned
  <2>2. Owned(c, SetPc(cond.m, Inst.arg), 0) /\ Owned(c, Advance(cond.m), 0)
    BY <1>2, <2>1, AdvanceOwned
  <2>3. Commit(SetPc(cond.m, Inst.arg)) \/ Commit(Advance(cond.m))
    BY <1>4 DEF OP_JUMP_IF
  <2> QED
    BY <2>2, <2>3, CommitInv
<1> QED
  BY <1>3, <1>4

(* What a line number is found at is an offset. *)
LEMMA LineOffsetsType ==
    ASSUME Loaded
    PROVE  \A line : LineOffsets(line) \subseteq Nat
<1>1. WellFormed(prog)
  BY ProgramAssumption DEF Loaded
<1> QED
  BY <1>1 DEF WellFormed, LineOffsets

(* GOTO and GOSUB of a computed line, found or not. *)
LEMMA LineInv ==
    ASSUME NEW c \in Int, InvAbove(c), OP_JUMP_LINE \/ OP_GOSUB_LINE
    PROVE  InvAbove(c)'
<1> DEFINE p == vm_pop_number(vm)
           offsets == LineOffsets(p.v % 65536)
           failed == vm_error(p.m, ERR_UNDEFINED_LINE)
<1>1. Owned(c, p.m, 0)
  BY InvOwned, PopNumberOwned
<1>2. offsets \subseteq Nat
  BY InvLoaded, LineOffsetsType
<1>3. Owned(c, failed, 0)
  BY <1>1, ErrorOwned DEF ErrorCode
<1>4. CASE offsets = {}
  <2>1. Commit(failed)
    BY <1>4 DEF OP_JUMP_LINE, OP_GOSUB_LINE
  <2> QED
    BY <1>3, <2>1, CommitInv
<1>5. CASE offsets # {} /\ OP_JUMP_LINE
  <2>1. PICK offset \in offsets : Commit(SetPc(p.m, offset))
    BY <1>5 DEF OP_JUMP_LINE
  <2>2. Owned(c, SetPc(p.m, offset), 0)
    BY <1>1, <1>2, AdvanceOwned
  <2> QED
    BY <2>1, <2>2, CommitInv
<1>6. CASE offsets # {} /\ OP_GOSUB_LINE
  <2> DEFINE called == vm_call_push(p.m, p.m.pc + 1)
  <2>1. PICK offset \in offsets : Commit(SetPc(called, offset))
    BY <1>6 DEF OP_GOSUB_LINE
  <2>2. p.m.pc + 1 \in Nat
    BY <1>1, MachineFields DEF Owned
  <2>3. Owned(c, called, 0)
    <3>1. \A r \in Nat : Owned(c, vm_call_push(p.m, r), 0)
      BY <1>1, CallOwned
    <3> HIDE DEF p
    <3> QED
      BY <2>2, <3>1
  <2> HIDE DEF called
  <2>4. Owned(c, SetPc(called, offset), 0)
    BY <1>2, <2>3, AdvanceOwned
  <2> QED
    BY <2>1, <2>4, CommitInv
<1> QED
  BY <1>4, <1>5, <1>6

(* GOSUB, RETURN (also without a GOSUB) and POP. *)
LEMMA CallInv ==
    ASSUME NEW c \in Int, InvAbove(c), OP_GOSUB \/ OP_RETURN \/ OP_POP_GOSUB
    PROVE  InvAbove(c)'
<1>1. Owned(c, vm, 0) /\ vm.pc + 1 \in Nat
  BY InvOwned, MachineFields DEF Owned
<1> DEFINE p == vm_call_pop(vm)
<1>2. Owned(c, p.m, 0) /\ p.v \in Nat
  BY <1>1, CallOwned
<1>3. CASE OP_GOSUB
  <2>1. Inst.arg \in Nat
    BY <1>3, InvLoaded, InstArg DEF OP_GOSUB, Executing, JumpOps
  <2>2. Owned(c, vm_call_push(vm, vm.pc + 1), 0)
    BY <1>1, CallOwned
  <2>3. Owned(c, SetPc(vm_call_push(vm, vm.pc + 1), Inst.arg), 0)
    BY <2>1, <2>2, AdvanceOwned
  <2> QED
    BY <1>3, <2>3, CommitInv DEF OP_GOSUB
<1>4. CASE OP_RETURN
  <2>1. Owned(c, SetPc(p.m, p.v), 0)
    BY <1>2, AdvanceOwned
  <2>2. Commit(SetPc(p.m, p.v))
    BY <1>4 DEF OP_RETURN
  <2> QED
    BY <2>1, <2>2, CommitInv
<1>5. CASE OP_POP_GOSUB
  <2>1. Owned(c, Advance(vm), 0) /\ Owned(c, Advance(p.m), 0)
    BY <1>1, <1>2, AdvanceOwned
  <2>2. Commit(Advance(vm)) \/ Commit(Advance(p.m))
    BY <1>5 DEF OP_POP_GOSUB
  <2> QED
    BY <2>1, <2>2, CommitInv
<1> QED
  BY <1>3, <1>4, <1>5

(* The table entry an ON reads is one of those its operand announces: a    *)
(* pop that failed returns 0, which is no index.                           *)
LEMMA TableTarget ==
    ASSUME Loaded, CanExecute, Inst.op \in OnOps,
           vm_pop_number(vm).v \in 1..Inst.arg
    PROVE  Target(vm_pop_number(vm).m, vm_pop_number(vm).v) \in Nat
<1> DEFINE index == vm_pop_number(vm)
<1>1. vm \in Machine /\ vm.pc \in Nat
  BY MachineFields DEF Loaded, TypeOK
<1>2. Inst.arg \in Nat
      /\ \A k \in 1..Inst.arg : prog.code[vm.pc + 1 + k].arg \in Nat
  BY InstArg
<1>3. index.m.pc = vm.pc
  <2>1. index.v # 0
    BY <1>2
  <2> QED
    BY <1>1, <2>1, PopNumberPc
<1>4. index.v \in Int /\ vm.pc + index.v + 1 = vm.pc + 1 + index.v
  BY <1>1, <1>2
<1> HIDE DEF index
<1> QED
  BY <1>2, <1>3, <1>4 DEF Target, index

(* ON GOTO and ON GOSUB, the index in range or not. *)
LEMMA OnInv ==
    ASSUME NEW c \in Int, InvAbove(c), OP_ON_GOTO \/ OP_ON_GOSUB
    PROVE  InvAbove(c)'
<1> DEFINE index == vm_pop_number(vm)
           target == Target(index.m, index.v)
<1>1. CanExecute /\ Inst.op \in OnOps
  BY DEF OP_ON_GOTO, OP_ON_GOSUB, Executing, OnOps
<1>2. Owned(c, index.m, 0) /\ Inst.arg \in Nat
  BY <1>1, InvOwned, PopNumberOwned, InvLoaded, InstArg
<1>3. index.m.pc + Inst.arg + 1 \in Nat
  BY <1>2, MachineFields DEF Owned
<1>4. Owned(c, AfterTable(index.m), 0) /\ AfterTable(index.m).pc \in Nat
  <2>1. Owned(c, AfterTable(index.m), 0)
    <3> HIDE DEF index, target
    <3> QED
      BY <1>2, <1>3, AdvanceOwned DEF AfterTable
  <2> QED
    BY <2>1, MachineFields DEF Owned
<1>5. CASE index.v \notin 1..Inst.arg
  <2>1. Commit(AfterTable(index.m))
    BY <1>5 DEF OP_ON_GOTO, OP_ON_GOSUB
  <2> QED
    BY <1>4, <2>1, CommitInv
<1>6. CASE index.v \in 1..Inst.arg
  <2> DEFINE called == vm_call_push(index.m, AfterTable(index.m).pc)
  <2>1. target \in Nat
    BY <1>1, <1>6, InvLoaded, TableTarget
  <2>2. Owned(c, called, 0)
    BY <1>2, <1>4, CallOwned
  <2>3. Commit(SetPc(index.m, target)) \/ Commit(SetPc(called, target))
    BY <1>6 DEF OP_ON_GOTO, OP_ON_GOSUB
  <2> HIDE DEF index, target, called
  <2>4. Owned(c, SetPc(index.m, target), 0)
    BY <1>2, <2>1, AdvanceOwned
  <2>5. Owned(c, SetPc(called, target), 0)
    BY <2>1, <2>2, AdvanceOwned
  <2> QED
    BY <2>3, <2>4, <2>5, CommitInv
<1> QED
  BY <1>5, <1>6

(* FOR: the frame takes its fields from the three popped numbers. *)
LEMMA ForInitInv ==
    ASSUME NEW c \in Int, InvAbove(c), OP_FOR_INIT
    PROVE  InvAbove(c)'
<1> DEFINE step  == vm_pop_number(vm)
           limit == vm_pop_number(step.m)
           start == vm_pop_number(limit.m)
           state == [var |-> Inst.arg, limit |-> limit.v, step |-> step.v,
                     start |-> start.m.pc + 1]
           stored == [start.m EXCEPT !.numVars[Inst.arg] = start.v]
<1>1. Owned(c, step.m, 0) /\ step.v \in Number
  BY InvOwned, PopNumberOwned
<1>2. Owned(c, limit.m, 0) /\ limit.v \in Number
  BY <1>1, PopNumberOwned
<1>3. Owned(c, start.m, 0) /\ start.v \in Number
  BY <1>2, PopNumberOwned
<1>4. Inst.arg \in Slot
  BY InvLoaded, InstArg DEF OP_FOR_INIT, Executing
<1>5. start.m.pc + 1 \in Nat
  BY <1>3, MachineFields DEF Owned
<1>6. Commit(Advance(vm_for_push(stored, state)))
  BY DEF OP_FOR_INIT
<1> HIDE DEF step, limit, start
<1>7. state \in ForLoopState
  BY <1>1, <1>2, <1>4, <1>5 DEF ForLoopState
<1>8. Owned(c, stored, 0)
  BY <1>3, <1>4, StoreNumberOwned
<1> HIDE DEF stored, state
<1>9. Owned(c, Advance(vm_for_push(stored, state)), 0)
  <2>1. /\ \A f \in ForLoopState : Owned(c, vm_for_push(stored, f), 0)
        /\ Owned(c, vm_for_pop(stored), 0)
    BY <1>8, ForOwned
  <2>2. Owned(c, vm_for_push(stored, state), 0)
    BY <1>7, <2>1
  <2> QED
    BY <2>2, AdvanceOwned
<1> QED
  BY <1>6, <1>9, CommitInv

(* NEXT: an error, another round, or the end of the loop. *)
LEMMA ForNextInv ==
    ASSUME NEW c \in Int, InvAbove(c), OP_FOR_NEXT
    PROVE  InvAbove(c)'
<1>1. Owned(c, vm, 0) /\ vm \in Machine
  BY InvOwned DEF Owned
<1>2. CASE vm.forStack = <<>>
  <2>1. Owned(c, vm_error(vm, ERR_NEXT_WITHOUT_FOR), 0)
    BY <1>1, ErrorOwned DEF ErrorCode
  <2>2. Commit(vm_error(vm, ERR_NEXT_WITHOUT_FOR))
    BY <1>2 DEF OP_FOR_NEXT
  <2> QED
    BY <2>1, <2>2, CommitInv
<1>3. CASE vm.forStack # <<>>
  <2> DEFINE loop  == vm_for_top(vm)
             value == vm.numVars[loop.var] + loop.step
             stepped == [vm EXCEPT !.numVars[loop.var] = value]
  <2>1. loop \in ForLoopState
    BY <1>1, <1>3, ForType
  <2>2. loop.var \in Slot /\ loop.start \in Nat
    BY <2>1 DEF ForLoopState
  <2>3. \/ Commit(vm_error(vm, ERR_FOR_NEXT_MISMATCH))
        \/ /\ value \in Number
           /\ \/ Commit(Advance(vm_for_pop(stepped)))
              \/ Commit(SetPc(stepped, loop.start))
    BY <1>3 DEF OP_FOR_NEXT
  <2> HIDE DEF loop, value
  <2>4. Owned(c, vm_error(vm, ERR_FOR_NEXT_MISMATCH), 0)
    BY <1>1, ErrorOwned DEF ErrorCode
  <2>5. value \in Number => Owned(c, stepped, 0)
    BY <1>1, <2>2, StoreNumberOwned
  <2> HIDE DEF stepped
  <2>6. value \in Number => /\ Owned(c, Advance(vm_for_pop(stepped)), 0)
                            /\ Owned(c, SetPc(stepped, loop.start), 0)
    BY <2>2, <2>5, ForOwned, AdvanceOwned
  <2> QED
    BY <2>3, <2>4, <2>6, CommitInv
<1> QED
  BY <1>2, <1>3

(* TRAP, its end, and END. *)
LEMMA TrapInv ==
    ASSUME NEW c \in Int, InvAbove(c), OP_TRAP \/ OP_TRAP_DISABLE \/ OP_END
    PROVE  InvAbove(c)'
<1>1. Owned(c, vm, 0) /\ vm \in Machine
  BY InvOwned DEF Owned
<1>2. CASE OP_TRAP
  <2> DEFINE armed == [vm EXCEPT !.trapLine = Inst.arg, !.trapEnabled = TRUE]
             lined == [vm EXCEPT !.trapLine = Inst.arg]
  <2>1. Inst.arg \in Nat
    BY <1>2, InvLoaded, InstArg DEF OP_TRAP, Executing, JumpOps
  <2>2. lined \in Machine
    BY <1>1, <2>1, FieldType
  <2>3. [lined EXCEPT !.trapEnabled = TRUE] \in Machine
    BY <2>2, FieldType
  <2>4. armed \in Machine
    BY <2>3
  <2>5. armed.heap = vm.heap /\ armed.stack = vm.stack
    BY <1>1 DEF Machine
  <2>6. Commit(Advance(armed))
    BY <1>2 DEF OP_TRAP
  <2> HIDE DEF armed
  <2>7. Owned(c, Advance(armed), 0)
    BY <1>1, <2>4, <2>5, FrameOwned, AdvanceOwned
  <2> QED
    BY <2>6, <2>7, CommitInv
<1>3. CASE OP_TRAP_DISABLE
  <2> DEFINE disarmed == [vm EXCEPT !.trapEnabled = FALSE]
  <2>1. disarmed \in Machine
    BY <1>1, FieldType
  <2>2. disarmed.heap = vm.heap /\ disarmed.stack = vm.stack
    BY <1>1 DEF Machine
  <2>3. Commit(Advance(disarmed))
    BY <1>3 DEF OP_TRAP_DISABLE
  <2> HIDE DEF disarmed
  <2>4. Owned(c, Advance(disarmed), 0)
    BY <1>1, <2>1, <2>2, FrameOwned, AdvanceOwned
  <2> QED
    BY <2>3, <2>4, CommitInv
<1>4. CASE OP_END
  <2> DEFINE stopped == [vm EXCEPT !.running = FALSE]
  <2>1. stopped \in Machine
    BY <1>1, FieldType
  <2>2. stopped.heap = vm.heap /\ stopped.stack = vm.stack
    BY <1>1 DEF Machine
  <2>3. Commit(stopped)
    BY <1>4 DEF OP_END
  <2> HIDE DEF stopped
  <2>4. Owned(c, stopped, 0)
    BY <1>1, <2>1, <2>2, FrameOwned
  <2> QED
    BY <2>3, <2>4, CommitInv
<1> QED
  BY <1>2, <1>3, <1>4

(* The opcodes that do nothing here, and RANDOMIZE. *)
LEMMA NopInv ==
    ASSUME NEW c \in Int, InvAbove(c), OP_NOP \/ OP_RANDOMIZE
    PROVE  InvAbove(c)'
<1> DEFINE p == vm_pop_number(vm)
<1>1. Owned(c, vm, 0) /\ Owned(c, p.m, 0)
  BY InvOwned, PopNumberOwned
<1>2. Owned(c, Advance(vm), 0) /\ Owned(c, Advance(p.m), 0)
  BY <1>1, AdvanceOwned
<1>3. Commit(Advance(vm)) \/ Commit(Advance(p.m))
  BY DEF OP_NOP, OP_RANDOMIZE
<1> QED
  BY <1>2, <1>3, CommitInv

-----------------------------------------------------------------------------
(* The theorems.                                                           *)

(* A loaded program starts with one empty string for each variable.        *)
LEMMA InitInv == Init => IInv
<1> SUFFICES ASSUME Init PROVE IInv
  OBVIOUS
<1>1. [s \in Slot |-> 0] \in [Slot -> Number]
  BY ZeroIsNumber
<1>2. [s \in Slot |-> <<>>] \in [Slot -> Text]
  BY DEF Text
<1>3. ERR_NONE \in ErrorCode
  BY DEF ErrorCode
<1>4. vm_init \in Machine
  BY <1>1, <1>2, <1>3, SlotCount DEF vm_init, Machine
<1>5. /\ vm_init.heap = Cardinality(Slot)
      /\ vm_init.stack = <<>>
      /\ ~vm_init.trapTriggered
  BY DEF vm_init
<1> QED
  BY <1>4, <1>5, SlotCount, StringsOnEmpty DEF Init, IInv, Loaded, TypeOK, NoDoubleFree

(* Every instruction keeps the invariant.                                  *)
LEMMA NextAbove ==
    ASSUME NEW c \in Int, InvAbove(c), [Next]_vars
    PROVE  InvAbove(c)'
<1>1. CASE ExprStep
  BY <1>1, PushInv, StoreInv, DupInv, PopInv, ArithInv, DivInv, PowNegInv,
     CompareInv, LogicInv, SliceInv, NumberFromStringInv, StringFromNumberInv,
     FunctionInv, DomainInv, ReadInv, RestoreInv DEF ExprStep
<1>2. CASE ControlStep
  BY <1>2, JumpInv, LineInv, CallInv, OnInv, ForInitInv, ForNextInv, TrapInv,
     NopInv DEF ControlStep
<1>3. CASE UNCHANGED vars
  BY <1>3 DEF vars, InvAbove, Loaded, TypeOK
<1> QED
  BY <1>1, <1>2, <1>3 DEF Next

LEMMA NextInv == IInv /\ [Next]_vars => IInv'
<1>1. Cardinality(Slot) \in Int
  BY SlotCount
<1> QED
  BY <1>1, NextAbove, IInvIs DEF IInv, InvAbove, NoDoubleFree

(* So it keeps the types, and the legality of the program.                 *)
LEMMA NextLoaded == Loaded /\ [Next]_vars => Loaded'
<1> SUFFICES ASSUME Loaded, [Next]_vars PROVE Loaded'
  OBVIOUS
<1>1. vm.heap \in Int /\ vm.stack \in Seq(Value)
  BY MachineFields DEF Loaded, TypeOK
<1>2. StringsOn(vm.stack) \in Nat
  BY <1>1, StringsOnType
<1>3. PICK c \in Int : c = vm.heap - StringsOn(vm.stack)
  BY <1>1, <1>2
<1>4. InvAbove(c)
  BY <1>1, <1>2, <1>3 DEF InvAbove
<1>5. InvAbove(c)'
  BY <1>4, NextAbove
<1> QED
  BY <1>5 DEF InvAbove

(* The invariant of the virtual machine, for every well-formed program. *)
THEOREM InvariantHolds == Spec => []IInv
BY InitInv, NextInv, PTL DEF Spec

(* Type correctness: the machine of vm_execute never leaves its types,     *)
(* whatever well-formed program it runs, ill-typed ones included, and      *)
(* trap_triggered is clear before every instruction.                       *)
THEOREM TypeCorrect == Spec => []TypeOK
<1>1. IInv => TypeOK
  BY DEF IInv, Loaded
<1> QED
  BY <1>1, InvariantHolds, PTL

(* Memory safety of the strings: no handler of vm_execute frees a string   *)
(* the operand stack or a variable still owns, or frees one twice,         *)
(* whatever errors occur and whether or not a trap catches them.           *)
THEOREM NeverFreedTwice == Spec => []NoDoubleFree
<1>1. IInv => NoDoubleFree
  BY DEF IInv
<1> QED
  BY <1>1, InvariantHolds, PTL

-----------------------------------------------------------------------------
(* Programs that pass the verifier of StackTyping, all of them: the        *)
(* operand stack, the control stacks, the strings and the traps.           *)
(*                                                                         *)
(* A handler is followed from one primitive to the next by a refinement of *)
(* Owned: Follows(m, k, s, n) says that the machine m has an operand stack *)
(* of the shape s, holds exactly n strings more than k beside its stack,   *)
(* and agrees with k in every other field.  When the shape is the one that *)
(* the verifier computed, the pops find the operands they expect, no error *)
(* of type arises, and the count of strings is exact.  OrdinarySafe and    *)
(* ErrorSafe end the argument for a handler that succeeds and for one that *)
(* fails.                                                                  *)
(*                                                                         *)
(* The other half of the argument is about places: StatementStart holds of *)
(* whatever RETURN, NEXT, ON, a computed GOTO and a trap can put in pc.    *)
(*                                                                         *)
(* The invariant and what keeps it come first, then one lemma for each     *)
(* handler of vm_execute, then the theorems.                               *)

(* The shape of a stack is a sequence of types as long as the stack. *)
LEMMA TypesShape ==
    ASSUME NEW stack \in Seq(Value)
    PROVE  /\ Types(stack) \in Seq({"num", "str"})
           /\ Len(Types(stack)) = Len(stack)
           /\ \A i \in 1..Len(stack) : Types(stack)[i] = stack[i].type
<1>1. \A i \in 1..Len(stack) : stack[i] \in Value
  OBVIOUS
<1>2. \A v \in Value : v.type \in {"num", "str"}
  BY DEF Value, NumValue, StrValue
<1> QED
  BY <1>1, <1>2 DEF Types

(* A pop takes the top type off the shape. *)
LEMMA TypesFront ==
    ASSUME NEW stack \in Seq(Value), stack # <<>>
    PROVE  Types(SubSeq(stack, 1, Len(stack) - 1)) = Below(Types(stack))
<1> DEFINE n == Len(stack) - 1
           front == SubSeq(stack, 1, n)
           s == Types(stack)
<1>1. Len(stack) \in Nat /\ n \in Nat /\ \A i \in 1..n : stack[i] \in Value
  OBVIOUS
<1>2. front \in Seq(Value) /\ Len(front) = n
      /\ \A i \in 1..n : front[i] = stack[i]
  <2> HIDE DEF n
  <2>1. /\ SubSeq(stack, 1, n) \in Seq(Value)
        /\ Len(SubSeq(stack, 1, n)) = IF 1 <= n THEN n - 1 + 1 ELSE 0
        /\ \A i \in 1..(n - 1 + 1) : SubSeq(stack, 1, n)[i] = stack[1 + i - 1]
    BY <1>1, SubSeqProperties
  <2> QED
    BY <1>1, <2>1
<1>3. s \in Seq({"num", "str"}) /\ Len(s) = Len(stack)
      /\ \A i \in 1..n : s[i] = stack[i].type
  BY TypesShape
<1> HIDE DEF n, front, s
<1>4. /\ Types(front) \in Seq({"num", "str"})
      /\ Len(Types(front)) = n
      /\ \A i \in 1..n : Types(front)[i] = stack[i].type
  BY <1>2, TypesShape
<1>5. \A i \in 1..n : s[i] \in {"num", "str"}
  BY <1>1, <1>3, ElementOfSeq DEF n
<1>6. /\ SubSeq(s, 1, n) \in Seq({"num", "str"})
      /\ Len(SubSeq(s, 1, n)) = n
      /\ \A i \in 1..n : SubSeq(s, 1, n)[i] = stack[i].type
  BY <1>1, <1>3, <1>5, SubSeqProperties
<1>7. Types(front) = SubSeq(s, 1, n)
  BY <1>4, <1>6, SeqEqual
<1> QED
  BY <1>3, <1>7 DEF Below, n, front, s

(* A push puts the type of the value on top of the shape. *)
LEMMA TypesAppend ==
    ASSUME NEW stack \in Seq(Value), NEW v \in Value
    PROVE  Types(Append(stack, v)) = Above(Types(stack), v.type)
<1> DEFINE longer == Append(stack, v)
           n == Len(stack) + 1
<1>0. v.type \in {"num", "str"}
  BY DEF Value, NumValue, StrValue
<1>1. longer \in Seq(Value) /\ Len(longer) = n /\ longer[n] = v
      /\ \A i \in 1..Len(stack) : longer[i] = stack[i]
  OBVIOUS
<1>2. Types(longer) \in Seq({"num", "str"}) /\ Len(Types(longer)) = n
      /\ Types(longer)[n] = v.type
      /\ \A i \in 1..Len(stack) : Types(longer)[i] = stack[i].type
  <2>1. Len(stack) \in Nat /\ n \in 1..n /\ \A i \in 1..Len(stack) : i \in 1..n
    OBVIOUS
  <2> HIDE DEF longer
  <2>2. /\ Types(longer) \in Seq({"num", "str"})
        /\ Len(Types(longer)) = Len(longer)
        /\ \A i \in 1..Len(longer) : Types(longer)[i] = longer[i].type
    BY <1>1, TypesShape
  <2> HIDE DEF n
  <2> QED
    BY <1>1, <2>1, <2>2
<1>3. Above(Types(stack), v.type) \in Seq({"num", "str"})
      /\ Len(Above(Types(stack), v.type)) = n
      /\ Above(Types(stack), v.type)[n] = v.type
      /\ \A i \in 1..Len(stack) : Above(Types(stack), v.type)[i] = stack[i].type
  BY <1>0, TypesShape DEF Above
<1> HIDE DEF longer, n
<1>4. \A i \in 1..n : Types(longer)[i] = Above(Types(stack), v.type)[i]
  BY <1>2, <1>3 DEF n
<1> QED
  BY <1>2, <1>3, <1>4, SeqEqual DEF longer

(* Only the empty stack has the empty shape. *)
LEMMA TypesEmpty ==
    ASSUME NEW stack \in Seq(Value)
    PROVE  Types(stack) = <<>> <=> stack = <<>>
BY TypesShape

(* The operands that the verifier demands, opcode by opcode; an opcode that *)
(* no code generator emits is refused.                                     *)
LEMMA TakesWhat ==
    ASSUME NEW op, NEW s, Takes(op, s)
    PROVE  /\ op \in TakeNumOps \cup UnaryOps \cup NumToStrOps => TopIs(s, "num")
           /\ op \in StrToNumOps \cup {"STR_POP_VAR"} => TopIs(s, "str")
           /\ op \in BinaryOps => TopIs(s, "num") /\ TopIs(Below(s), "num")
           /\ op \in CompareOps => Len(s) >= 2 /\ s[Len(s)] = s[Len(s) - 1]
           /\ op \in SliceOps => TopIs(s, "num") /\ TopIs(Below(s), "str")
           /\ op = "STR_MID" => /\ TopIs(s, "num")
                                /\ TopIs(Below(s), "num")
                                /\ TopIs(Below(Below(s)), "str")
           /\ op = "FOR_INIT" => /\ TopIs(s, "num")
                                 /\ TopIs(Below(s), "num")
                                 /\ TopIs(Below(Below(s)), "num")
           /\ op \notin {"DUP", "POP", "HALT", "STR_CONCAT", "RESTORE_LINE"}
BY DEF Takes, PushNumOps, PushStrOps, TakeNumOps, UnaryOps, BinaryOps, CompareOps,
       StrToNumOps, NumToStrOps, SliceOps, NoEffectOps, DimOps, NumGetOps,
       StrGetOps, NumSetOps, StrSetOps, IOOps, IOPlainOps, IONumOps, IOPairOps

(* The shape that the verifier expects after an instruction. *)
LEMMA LeavesWhat ==
    ASSUME NEW op, NEW s
    PROVE  /\ op \in NoEffectOps => Leaves(op, s) = s
           /\ op \in PushNumOps => Leaves(op, s) = Above(s, "num")
           /\ op \in PushStrOps => Leaves(op, s) = Above(s, "str")
           /\ op \in TakeNumOps \cup {"STR_POP_VAR"} => Leaves(op, s) = Below(s)
           /\ op \in UnaryOps \cup StrToNumOps => Leaves(op, s) = Above(Below(s), "num")
           /\ op \in NumToStrOps => Leaves(op, s) = Above(Below(s), "str")
           /\ op \in BinaryOps \cup CompareOps => Leaves(op, s) = Above(Below(Below(s)), "num")
           /\ op \in SliceOps => Leaves(op, s) = Above(Below(Below(s)), "str")
           /\ op = "STR_MID" => Leaves(op, s) = Above(Below(Below(Below(s))), "str")
           /\ op = "FOR_INIT" => Leaves(op, s) = Below(Below(Below(s)))
BY DEF Leaves, PushNumOps, PushStrOps, TakeNumOps, UnaryOps, BinaryOps, CompareOps,
       StrToNumOps, NumToStrOps, SliceOps, NoEffectOps, DimOps, NumGetOps,
       StrGetOps, NumSetOps, StrSetOps, IOOps, IOPlainOps, IONumOps, IOPairOps

-----------------------------------------------------------------------------
(* The handler's machine.                                                  *)

(* What the heap holds beside the strings on the operand stack. *)
Balance(m) == m.heap - StringsOn(m.stack)

(* A handler that started from the machine k has reached m: its operand    *)
(* stack has shape s, the handler has n strings in hand, and nothing else  *)
(* has changed.                                                            *)
Follows(m, k, s, n) ==
    /\ m \in Machine /\ k \in Machine
    /\ Types(m.stack) = s
    /\ Balance(m) = Balance(k) + n
    /\ m.pc = k.pc
    /\ m.running = k.running
    /\ m.callStack = k.callStack
    /\ m.forStack = k.forStack
    /\ m.numVars = k.numVars
    /\ m.strVars = k.strVars
    /\ m.dataPointer = k.dataPointer
    /\ m.trapLine = k.trapLine
    /\ m.trapEnabled = k.trapEnabled
    /\ m.trapTriggered = k.trapTriggered
    /\ m.errorCode = k.errorCode

(* A shape is a sequence of types, and the balance an integer. *)
LEMMA FollowsType ==
    ASSUME NEW m, NEW k, NEW s, NEW n \in Int, Follows(m, k, s, n)
    PROVE  /\ m.stack \in Seq(Value) /\ m.heap \in Int
           /\ StringsOn(m.stack) \in Nat
           /\ Balance(m) \in Int /\ Balance(k) \in Int
           /\ s \in Seq({"num", "str"}) /\ Len(s) = Len(m.stack)
           /\ (s = <<>> <=> m.stack = <<>>)
           /\ \A i \in 1..Len(s) : s[i] = m.stack[i].type
<1>1. m \in Machine /\ k \in Machine /\ Types(m.stack) = s
  BY DEF Follows
<1>2. /\ m.stack \in Seq(Value) /\ m.heap \in Int
      /\ k.stack \in Seq(Value) /\ k.heap \in Int
  BY <1>1, MachineFields
<1>3. StringsOn(m.stack) \in Nat /\ StringsOn(k.stack) \in Nat
  BY <1>2, StringsOnType
<1>4. Balance(m) \in Int /\ Balance(k) \in Int
  BY <1>2, <1>3 DEF Balance
<1>5. /\ s \in Seq({"num", "str"}) /\ Len(s) = Len(m.stack)
      /\ \A i \in 1..Len(s) : s[i] = m.stack[i].type
  BY <1>1, <1>2, TypesShape
<1>6. s = <<>> <=> m.stack = <<>>
  BY <1>1, <1>2, TypesEmpty
<1> QED
  BY <1>2, <1>3, <1>4, <1>5, <1>6

(* Before its first primitive a handler's machine is the machine.          *)
LEMMA FollowsSelf ==
    ASSUME NEW m \in Machine
    PROVE  Follows(m, m, Types(m.stack), 0)
<1>1. m.stack \in Seq(Value) /\ m.heap \in Int
  BY MachineFields
<1>2. Balance(m) \in Int
  BY <1>1, StringsOnType DEF Balance
<1>3. Balance(m) = Balance(m) + 0
  BY <1>2
<1> QED
  BY <1>3 DEF Follows

(* A new operand stack and a new count of allocations: what is left to     *)
(* show is the shape and the balance.                                      *)
LEMMA FollowsFrame ==
    ASSUME NEW m, NEW k, NEW s, NEW n \in Int, Follows(m, k, s, n),
           NEW stack \in Seq(Value), NEW heap \in Int, NEW d \in Int,
           heap - StringsOn(stack) = Balance(m) + d,
           NEW new, new = [m EXCEPT !.stack = stack, !.heap = heap]
    PROVE  Follows(new, k, Types(stack), n + d)
<1> DEFINE half == [m EXCEPT !.stack = stack]
<1>1. m \in Machine /\ k \in Machine /\ Balance(m) = Balance(k) + n
  BY DEF Follows
<1>2. half \in Machine
  BY <1>1, FieldType
<1>3. [half EXCEPT !.heap = heap] \in Machine
  BY <1>2, FieldType
<1>4. new = [half EXCEPT !.heap = heap]
  OBVIOUS
<1>5. new \in Machine
  BY <1>3, <1>4
<1>6. new.stack = stack /\ new.heap = heap
  BY <1>1 DEF Machine
<1>7. Balance(new) = Balance(k) + (n + d)
  BY <1>1, <1>6, FollowsType DEF Balance
<1> QED
  BY <1>1, <1>5, <1>6, <1>7 DEF Follows, Machine

(* A pop of a value that is there. *)
LEMMA PopFollows ==
    ASSUME NEW m, NEW k, NEW s, NEW n \in Int, Follows(m, k, s, n), s # <<>>
    PROVE  /\ vm_pop(m).v \in Value
           /\ vm_pop(m).v.type = s[Len(s)]
           /\ Follows(vm_pop(m).m, k, Below(s), n + Weight(vm_pop(m).v))
<1> DEFINE front == SubSeq(m.stack, 1, Len(m.stack) - 1)
           top == m.stack[Len(m.stack)]
<1>1. /\ m \in Machine /\ m.stack \in Seq(Value) /\ m.stack # <<>>
      /\ m.heap \in Int /\ Types(m.stack) = s
  BY FollowsType DEF Follows
<1>2. vm_pop(m) = [m |-> [m EXCEPT !.stack = front], v |-> top]
  BY <1>1 DEF vm_pop
<1>3. front \in Seq(Value) /\ top \in Value
  <2>1. vm_pop(m).m \in Machine /\ vm_pop(m).v \in Value
    BY <1>1, PopType
  <2> HIDE DEF front, top
  <2>2. vm_pop(m).m = [m EXCEPT !.stack = front] /\ vm_pop(m).v = top
    BY <1>2
  <2>3. vm_pop(m).m.stack = front
    BY <1>1, <2>2, StackField
  <2> QED
    BY <2>1, <2>2, <2>3, MachineFields
<1>4. top.type = s[Len(s)]
  <2>1. Len(m.stack) \in 1..Len(m.stack)
    BY <1>1
  <2> QED
    BY <1>1, <2>1, TypesShape
<1>5. Types(front) = Below(s)
  BY <1>1, TypesFront
<1>6. StringsOn(m.stack) = StringsOn(front) + Weight(top)
  BY <1>1, StringsOnFront
<1> HIDE DEF front, top
<1>7. Weight(top) \in Int /\ StringsOn(front) \in Nat
  BY <1>3, StringsOnType DEF Weight
<1>8. m.heap - StringsOn(front) = Balance(m) + Weight(top)
  BY <1>1, <1>6, <1>7 DEF Balance
<1>9. [m EXCEPT !.stack = front] = [m EXCEPT !.stack = front, !.heap = m.heap]
  BY <1>1 DEF Machine
<1>10. Follows([m EXCEPT !.stack = front], k, Types(front), n + Weight(top))
  BY <1>1, <1>3, <1>7, <1>8, <1>9, FollowsFrame
<1> QED
  BY <1>2, <1>3, <1>4, <1>5, <1>10

(* A number that is on top. *)
LEMMA PopNumberFollows ==
    ASSUME NEW m, NEW k, NEW s, NEW n \in Int, Follows(m, k, s, n),
           TopIs(s, "num")
    PROVE  /\ Follows(vm_pop_number(m).m, k, Below(s), n)
           /\ vm_pop_number(m).v \in Number /\ vm_pop_number(m).v \in Int
<1>1. vm_pop(m).v.type = "num"
      /\ Follows(vm_pop(m).m, k, Below(s), n + Weight(vm_pop(m).v))
  BY PopFollows DEF TopIs
<1>2. n + Weight(vm_pop(m).v) = n
  BY <1>1 DEF Weight
<1>3. vm_pop_number(m).m = vm_pop(m).m
  BY <1>1 DEF vm_pop_number
<1>4. vm_pop_number(m).v \in Number
  BY PopNumberType DEF Follows
<1> QED
  BY <1>1, <1>2, <1>3, <1>4, NumberAssumption

(* A string that is on top. *)
LEMMA PopStringFollows ==
    ASSUME NEW m, NEW k, NEW s, NEW n \in Int, Follows(m, k, s, n),
           TopIs(s, "str")
    PROVE  /\ Follows(vm_pop_string(m).m, k, Below(s), n + 1)
           /\ vm_pop_string(m).v \in Text
<1>1. vm_pop(m).v.type = "str"
      /\ Follows(vm_pop(m).m, k, Below(s), n + Weight(vm_pop(m).v))
  BY PopFollows DEF TopIs
<1>2. n + Weight(vm_pop(m).v) = n + 1
  BY <1>1 DEF Weight
<1>3. vm_pop_string(m).m = vm_pop(m).m
  BY <1>1 DEF vm_pop_string
<1>4. vm_pop_string(m).v \in Text
  BY PopStringType DEF Follows
<1> QED
  BY <1>1, <1>2, <1>3, <1>4

(* An allocation and a release. *)
LEMMA AllocFollows ==
    ASSUME NEW m, NEW k, NEW s, NEW n \in Int, Follows(m, k, s, n)
    PROVE  Follows(Alloc(m), k, s, n + 1) /\ Follows(Free(m), k, s, n - 1)
<1>1. /\ m \in Machine /\ m.stack \in Seq(Value) /\ m.heap \in Int
      /\ StringsOn(m.stack) \in Nat /\ Types(m.stack) = s
  BY FollowsType DEF Follows
<1>2. ASSUME NEW d \in Int
      PROVE  Follows([m EXCEPT !.heap = m.heap + d], k, s, n + d)
  <2>1. (m.heap + d) - StringsOn(m.stack) = Balance(m) + d
    BY <1>1 DEF Balance
  <2>2. [m EXCEPT !.heap = m.heap + d]
           = [m EXCEPT !.stack = m.stack, !.heap = m.heap + d]
    BY <1>1 DEF Machine
  <2>3. m.heap + d \in Int
    BY <1>1
  <2>4. Follows([m EXCEPT !.heap = m.heap + d], k, Types(m.stack), n + d)
    BY <1>1, <2>1, <2>2, <2>3, FollowsFrame
  <2> QED
    BY <1>1, <2>4
<1>3. Follows([m EXCEPT !.heap = m.heap + 1], k, s, n + 1)
  BY <1>2
<1>4. Follows([m EXCEPT !.heap = m.heap + (-1)], k, s, n + (-1))
  BY <1>2
<1>5. m.heap + (-1) = m.heap - 1 /\ n + (-1) = n - 1
  BY <1>1
<1> QED
  BY <1>3, <1>4, <1>5 DEF Alloc, Free

(* A push of a value. *)
LEMMA PushFollows ==
    ASSUME NEW m, NEW k, NEW s, NEW n \in Int, Follows(m, k, s, n),
           NEW v \in Value
    PROVE  Follows(vm_push(m, v), k, Above(s, v.type), n - Weight(v))
<1> DEFINE longer == Append(m.stack, v)
<1>1. /\ m \in Machine /\ m.stack \in Seq(Value) /\ m.heap \in Int
      /\ StringsOn(m.stack) \in Nat /\ Types(m.stack) = s
  BY FollowsType DEF Follows
<1>2. StringsOn(longer) = StringsOn(m.stack) + Weight(v) /\ Weight(v) \in Int
  BY <1>1, StringsOnAppend DEF Weight
<1>3. longer \in Seq(Value) /\ Types(longer) = Above(s, v.type)
  BY <1>1, TypesAppend
<1> HIDE DEF longer
<1>4. m.heap - StringsOn(longer) = Balance(m) + (-Weight(v))
  BY <1>1, <1>2 DEF Balance
<1>5. [m EXCEPT !.stack = longer] = [m EXCEPT !.stack = longer, !.heap = m.heap]
  BY <1>1 DEF Machine
<1>6. Follows([m EXCEPT !.stack = longer], k, Types(longer), n + (-Weight(v)))
  <2>1. -Weight(v) \in Int
    BY <1>2
  <2> QED
    BY <1>1, <1>3, <1>4, <1>5, <2>1, FollowsFrame
<1>7. n + (-Weight(v)) = n - Weight(v)
  BY <1>2
<1>8. vm_push(m, v) = [m EXCEPT !.stack = longer]
  BY DEF vm_push, longer
<1> QED
  BY <1>3, <1>6, <1>7, <1>8

(* Of a number, and of a string allocated for it: none in hand is used.    *)
LEMMA PushTypedFollows ==
    ASSUME NEW m, NEW k, NEW s, NEW n \in Int, Follows(m, k, s, n)
    PROVE  /\ \A x \in Number : Follows(vm_push_number(m, x), k, Above(s, "num"), n)
           /\ \A x \in Text : Follows(vm_push_string(m, x), k, Above(s, "str"), n)
<1>1. ASSUME NEW x \in Number
      PROVE  Follows(vm_push_number(m, x), k, Above(s, "num"), n)
  <2>1. Num(x) \in Value /\ Num(x).type = "num" /\ Weight(Num(x)) = 0
    BY DEF Num, Value, NumValue, Weight
  <2>2. n - Weight(Num(x)) = n
    BY <2>1
  <2>3. Follows(vm_push(m, Num(x)), k, Above(s, Num(x).type), n - Weight(Num(x)))
    BY <2>1, PushFollows
  <2> QED
    BY <2>1, <2>2, <2>3 DEF vm_push_number
<1>2. ASSUME NEW x \in Text
      PROVE  Follows(vm_push_string(m, x), k, Above(s, "str"), n)
  <2>1. Str(x) \in Value /\ Str(x).type = "str" /\ Weight(Str(x)) = 1
    BY DEF Str, Value, StrValue, Weight
  <2>2. (n + 1) - Weight(Str(x)) = n
    BY <2>1
  <2>3. Follows(Alloc(m), k, s, n + 1)
    BY AllocFollows
  <2>4. Follows(vm_push(Alloc(m), Str(x)), k, Above(s, Str(x).type),
                (n + 1) - Weight(Str(x)))
    BY <2>1, <2>3, PushFollows
  <2> QED
    BY <2>1, <2>2, <2>4 DEF vm_push_string
<1> QED
  BY <1>1, <1>2

(* The other fields change in the same way on both sides. *)
LEMMA FieldFollows ==
    ASSUME NEW m, NEW k, NEW s, NEW n \in Int, Follows(m, k, s, n)
    PROVE  /\ \A x \in Nat : Follows([m EXCEPT !.pc = x], [k EXCEPT !.pc = x], s, n)
           /\ \A x \in Seq(Nat) : Follows([m EXCEPT !.callStack = x],
                                          [k EXCEPT !.callStack = x], s, n)
           /\ \A x \in Seq(ForLoopState) : Follows([m EXCEPT !.forStack = x],
                                                   [k EXCEPT !.forStack = x], s, n)
           /\ \A x \in [Slot -> Number] : Follows([m EXCEPT !.numVars = x],
                                                  [k EXCEPT !.numVars = x], s, n)
           /\ \A x \in [Slot -> Text] : Follows([m EXCEPT !.strVars = x],
                                                [k EXCEPT !.strVars = x], s, n)
<1>1. m \in Machine /\ k \in Machine
  BY DEF Follows
<1>2. ASSUME NEW x \in Nat
      PROVE  Follows([m EXCEPT !.pc = x], [k EXCEPT !.pc = x], s, n)
  <2>1. [m EXCEPT !.pc = x] \in Machine /\ [k EXCEPT !.pc = x] \in Machine
    BY <1>1, FieldType
  <2> QED
    BY <1>1, <2>1 DEF Follows, Balance, Machine
<1>3. ASSUME NEW x \in Seq(Nat)
      PROVE  Follows([m EXCEPT !.callStack = x], [k EXCEPT !.callStack = x], s, n)
  <2>1. [m EXCEPT !.callStack = x] \in Machine /\ [k EXCEPT !.callStack = x] \in Machine
    BY <1>1, FieldType
  <2> QED
    BY <1>1, <2>1 DEF Follows, Balance, Machine
<1>4. ASSUME NEW x \in Seq(ForLoopState)
      PROVE  Follows([m EXCEPT !.forStack = x], [k EXCEPT !.forStack = x], s, n)
  <2>1. [m EXCEPT !.forStack = x] \in Machine /\ [k EXCEPT !.forStack = x] \in Machine
    BY <1>1, FieldType
  <2> QED
    BY <1>1, <2>1 DEF Follows, Balance, Machine
<1>5. ASSUME NEW x \in [Slot -> Number]
      PROVE  Follows([m EXCEPT !.numVars = x], [k EXCEPT !.numVars = x], s, n)
  <2>1. [m EXCEPT !.numVars = x] \in Machine /\ [k EXCEPT !.numVars = x] \in Machine
    BY <1>1, FieldType
  <2> QED
    BY <1>1, <2>1 DEF Follows, Balance, Machine
<1>6. ASSUME NEW x \in [Slot -> Text]
      PROVE  Follows([m EXCEPT !.strVars = x], [k EXCEPT !.strVars = x], s, n)
  <2>1. [m EXCEPT !.strVars = x] \in Machine /\ [k EXCEPT !.strVars = x] \in Machine
    BY <1>1, FieldType
  <2> QED
    BY <1>1, <2>1 DEF Follows, Balance, Machine
<1> QED
  BY <1>2, <1>3, <1>4, <1>5, <1>6

(* The next instruction, a jump, and the stores into a variable. *)
LEMMA UpdateFollows ==
    ASSUME NEW m, NEW k, NEW s, NEW n \in Int, Follows(m, k, s, n)
    PROVE  /\ Follows(Advance(m), Advance(k), s, n)
           /\ \A x \in Nat : Follows(SetPc(m, x), SetPc(k, x), s, n)
           /\ \A v \in Slot, x \in Number :
                 Follows([m EXCEPT !.numVars[v] = x], [k EXCEPT !.numVars[v] = x], s, n)
           /\ \A v \in Slot, x \in Text :
                 Follows([m EXCEPT !.strVars[v] = x], [k EXCEPT !.strVars[v] = x], s, n)
<1>1. m \in Machine /\ k \in Machine /\ m.pc = k.pc
      /\ m.numVars = k.numVars /\ m.strVars = k.strVars
  BY DEF Follows
<1>2. k.pc \in Nat /\ k.numVars \in [Slot -> Number] /\ k.strVars \in [Slot -> Text]
  BY <1>1, MachineFields
<1>3. \A x \in Nat : Follows(SetPc(m, x), SetPc(k, x), s, n)
  BY FieldFollows DEF SetPc
<1>4. Follows(Advance(m), Advance(k), s, n)
  BY <1>1, <1>2, <1>3 DEF Advance
<1>5. ASSUME NEW v \in Slot, NEW x \in Number
      PROVE  Follows([m EXCEPT !.numVars[v] = x], [k EXCEPT !.numVars[v] = x], s, n)
  <2> DEFINE new == [k.numVars EXCEPT ![v] = x]
  <2>1. new \in [Slot -> Number]
    BY <1>2
  <2>2. [m EXCEPT !.numVars[v] = x] = [m EXCEPT !.numVars = new]
    BY <1>1
  <2>3. [k EXCEPT !.numVars[v] = x] = [k EXCEPT !.numVars = new]
    OBVIOUS
  <2> HIDE DEF new
  <2> QED
    BY <2>1, <2>2, <2>3, FieldFollows
<1>6. ASSUME NEW v \in Slot, NEW x \in Text
      PROVE  Follows([m EXCEPT !.strVars[v] = x], [k EXCEPT !.strVars[v] = x], s, n)
  <2> DEFINE new == [k.strVars EXCEPT ![v] = x]
  <2>1. new \in [Slot -> Text]
    BY <1>2
  <2>2. [m EXCEPT !.strVars[v] = x] = [m EXCEPT !.strVars = new]
    BY <1>1
  <2>3. [k EXCEPT !.strVars[v] = x] = [k EXCEPT !.strVars = new]
    OBVIOUS
  <2> HIDE DEF new
  <2> QED
    BY <2>1, <2>2, <2>3, FieldFollows
<1> QED
  BY <1>3, <1>4, <1>5, <1>6

(* What vm_error changes and what it leaves alone.                         *)
LEMMA ErrorFields ==
    ASSUME NEW m \in Machine, NEW code \in ErrorCode, NEW e, e = vm_error(m, code)
    PROVE  /\ e \in Machine /\ e.errorCode = code
           /\ Balance(e) = Balance(m)
           /\ e.callStack = m.callStack /\ e.forStack = m.forStack
           /\ e.numVars = m.numVars /\ e.strVars = m.strVars
           /\ e.dataPointer = m.dataPointer /\ e.trapLine = m.trapLine
           /\ m.trapEnabled /\ m.trapLine > 0 =>
                 /\ e.running = m.running /\ e.stack = <<>> /\ e.pc = m.trapLine
                 /\ ~e.trapEnabled /\ e.trapTriggered
           /\ ~(m.trapEnabled /\ m.trapLine > 0) =>
                 /\ ~e.running
                 /\ e.trapEnabled = m.trapEnabled /\ e.trapTriggered = m.trapTriggered
<1>1. /\ m.stack \in Seq(Value) /\ m.heap \in Int
      /\ e \in Machine
  BY MachineFields, ErrorType
<1>2. StringsOn(m.stack) \in Nat
  BY <1>1, StringsOnType
<1>3. CASE m.trapEnabled /\ m.trapLine > 0
  <2>1. /\ e.heap = m.heap - StringsOn(m.stack) /\ e.stack = <<>> /\ e.pc = m.trapLine
        /\ e.running = m.running /\ ~e.trapEnabled /\ e.trapTriggered
        /\ e.errorCode = code
        /\ e.callStack = m.callStack /\ e.forStack = m.forStack
        /\ e.numVars = m.numVars /\ e.strVars = m.strVars
        /\ e.dataPointer = m.dataPointer /\ e.trapLine = m.trapLine
    BY <1>3 DEF vm_error, Machine
  <2>2. Balance(e) = Balance(m)
    BY <1>1, <1>2, <2>1, StringsOnEmpty DEF Balance
  <2> QED
    BY <1>1, <1>3, <2>1, <2>2
<1>4. CASE ~(m.trapEnabled /\ m.trapLine > 0)
  <2>1. e = [m EXCEPT !.errorCode = code, !.running = FALSE]
    BY <1>4 DEF vm_error
  <2>2. /\ e.heap = m.heap /\ e.stack = m.stack /\ ~e.running /\ e.errorCode = code
        /\ e.callStack = m.callStack /\ e.forStack = m.forStack
        /\ e.numVars = m.numVars /\ e.strVars = m.strVars
        /\ e.dataPointer = m.dataPointer /\ e.trapLine = m.trapLine
        /\ e.trapEnabled = m.trapEnabled /\ e.trapTriggered = m.trapTriggered
    BY <2>1 DEF Machine
  <2>3. Balance(e) = Balance(m)
    BY <2>2 DEF Balance
  <2> QED
    BY <1>1, <1>4, <2>2, <2>3
<1> QED
  BY <1>3, <1>4

-----------------------------------------------------------------------------
(* What a step must keep.                                                  *)

(* The verifier expects a stack of shape s before the instruction at pc.   *)
Fits(pc, s) == /\ pc \in 0..Len(prog.code)
               /\ ~InTable(prog, pc)
               /\ prog.shape[pc + 1] = s

(* The two control stacks and the trap lead to places the verifier knows,  *)
(* and the last error was none that a well-typed program can make.         *)
ControlFits(m) ==
    /\ \A i \in DOMAIN m.callStack : ReturnAddress(prog, m.callStack[i])
    /\ \A i \in DOMAIN m.forStack : LoopFrame(prog, m.forStack[i])
    /\ m.trapEnabled => StatementStart(prog, m.trapLine)
    /\ m.errorCode \notin {ERR_OVERFLOW, ERR_TYPE_MISMATCH}

SafeAt(m) == /\ m.running => Fits(m.pc, Types(m.stack))
             /\ ControlFits(m)

(* The inductive invariant of a machine that runs verified code.           *)
SoundInv == /\ Loaded
            /\ prog.typed => SafeAt(vm)

(* It is the three invariants of VM. *)
LEMMA SoundInvIs == SoundInv <=> Loaded /\ StackSound /\ ControlSound /\ NoTypeError
BY DEF SoundInv, SafeAt, Fits, ControlFits, StackSound, ControlSound, NoTypeError

(* A step of a well-typed program is safe if the machine it leaves is, and *)
(* if an armed trap does what it should.                                   *)
SafeStep == /\ prog' = prog
            /\ SafeAt(vm')
            /\ TrapCatchesStep
            /\ CaughtErrorStep

(* The fields EndInstruction leaves alone. *)
LEMMA EndFields ==
    ASSUME NEW m \in Machine
    PROVE  LET e == EndInstruction(m)
           IN  /\ e.pc = m.pc /\ e.running = m.running /\ e.stack = m.stack
               /\ e.callStack = m.callStack /\ e.forStack = m.forStack
               /\ e.numVars = m.numVars /\ e.strVars = m.strVars
               /\ e.dataPointer = m.dataPointer /\ e.trapLine = m.trapLine
               /\ e.trapEnabled = m.trapEnabled /\ e.errorCode = m.errorCode
               /\ e.heap = m.heap
BY DEF EndInstruction, Machine

(* A handler that meets no error and leaves the trap as it is.             *)
LEMMA OrdinarySafe ==
    ASSUME SoundInv, prog.typed,
           NEW m, NEW k, NEW s, NEW n \in Int, Follows(m, k, s, n),
           Fits(k.pc, s), ControlFits(k), k.running,
           vm.trapEnabled => k.trapEnabled,
           vm' = EndInstruction(m), prog' = prog
    PROVE  SafeStep /\ Balance(vm') = Balance(k) + n
<1>1. /\ m \in Machine /\ Types(m.stack) = s /\ Balance(m) = Balance(k) + n
      /\ m.pc = k.pc /\ m.running = k.running /\ m.trapEnabled = k.trapEnabled
      /\ m.callStack = k.callStack /\ m.forStack = k.forStack
      /\ m.trapLine = k.trapLine /\ m.errorCode = k.errorCode
  BY DEF Follows
<1>2. /\ vm'.pc = k.pc /\ vm'.running = k.running /\ vm'.stack = m.stack
      /\ vm'.callStack = k.callStack /\ vm'.forStack = k.forStack
      /\ vm'.trapLine = k.trapLine /\ vm'.trapEnabled = k.trapEnabled
      /\ vm'.errorCode = k.errorCode /\ vm'.heap = m.heap
  BY <1>1, EndFields
<1>3. Balance(vm') = Balance(k) + n
  BY <1>1, <1>2 DEF Balance
<1>4. SafeAt(vm')
  BY <1>1, <1>2 DEF SafeAt, ControlFits
<1>5. TrapCatchesStep /\ CaughtErrorStep
  BY <1>2 DEF TrapCatchesStep, CaughtErrorStep, Armed
<1> QED
  BY <1>3, <1>4, <1>5 DEF SafeStep

(* A handler that has popped its operands and fails: with the trap armed   *)
(* it goes to the trap line, where a statement starts; otherwise it stops. *)
LEMMA ErrorSafe ==
    ASSUME SoundInv, prog.typed, vm.running,
           NEW m, NEW s, NEW n \in Int, Follows(m, vm, s, n),
           NEW code \in ErrorCode,
           code \notin {ERR_NONE, ERR_OVERFLOW, ERR_TYPE_MISMATCH},
           NEW e, \/ e = vm_error(m, code)
                  \/ e = Advance(vm_error(m, code)) /\ ~vm_error(m, code).trapTriggered,
           vm' = EndInstruction(e), prog' = prog
    PROVE  SafeStep /\ Balance(vm') = Balance(vm) + n
<1> DEFINE f == vm_error(m, code)
<1>1. /\ m \in Machine /\ Balance(m) = Balance(vm) + n
      /\ m.running = vm.running /\ m.trapEnabled = vm.trapEnabled
      /\ m.callStack = vm.callStack /\ m.forStack = vm.forStack
      /\ m.numVars = vm.numVars /\ m.strVars = vm.strVars
      /\ m.dataPointer = vm.dataPointer /\ m.trapLine = vm.trapLine
  BY DEF Follows
<1>2. /\ f \in Machine /\ f.errorCode = code
      /\ Balance(f) = Balance(vm) + n
      /\ f.callStack = vm.callStack /\ f.forStack = vm.forStack
      /\ f.numVars = vm.numVars /\ f.strVars = vm.strVars
      /\ f.dataPointer = vm.dataPointer /\ f.trapLine = vm.trapLine
      /\ Armed => /\ f.running /\ f.stack = <<>> /\ f.pc = vm.trapLine
                  /\ ~f.trapEnabled /\ f.trapTriggered
      /\ ~Armed => ~f.running /\ f.trapEnabled = vm.trapEnabled
  <2> HIDE DEF f
  <2>1. /\ f \in Machine /\ f.errorCode = code
        /\ Balance(f) = Balance(m)
        /\ f.callStack = m.callStack /\ f.forStack = m.forStack
        /\ f.numVars = m.numVars /\ f.strVars = m.strVars
        /\ f.dataPointer = m.dataPointer /\ f.trapLine = m.trapLine
        /\ m.trapEnabled /\ m.trapLine > 0 =>
              /\ f.running = m.running /\ f.stack = <<>> /\ f.pc = m.trapLine
              /\ ~f.trapEnabled /\ f.trapTriggered
        /\ ~(m.trapEnabled /\ m.trapLine > 0) =>
              ~f.running /\ f.trapEnabled = m.trapEnabled
    BY <1>1, ErrorFields, ZenonT(60) DEF f
  <2> QED
    BY <1>1, <2>1 DEF Armed
<1> HIDE DEF f
<1>3. /\ e \in Machine
      /\ e.running = f.running /\ e.stack = f.stack /\ e.trapEnabled = f.trapEnabled
      /\ e.errorCode = f.errorCode /\ e.heap = f.heap
      /\ e.callStack = f.callStack /\ e.forStack = f.forStack
      /\ e.numVars = f.numVars /\ e.strVars = f.strVars
      /\ e.dataPointer = f.dataPointer /\ e.trapLine = f.trapLine
      /\ Armed => e.pc = vm.trapLine
  <2>1. CASE e = f
    BY <1>2, <2>1
  <2>2. CASE e = Advance(f) /\ ~f.trapTriggered
    <3>1. ~Armed /\ e \in Machine
      BY <1>2, <2>2, UpdateType
    <3> QED
      BY <1>2, <2>2, <3>1 DEF Advance, SetPc, Machine
  <2> QED
    BY <2>1, <2>2 DEF f
<1>4. /\ vm'.running = f.running /\ vm'.stack = f.stack
      /\ vm'.trapEnabled = f.trapEnabled /\ vm'.trapLine = vm.trapLine
      /\ vm'.errorCode = code /\ vm'.heap = f.heap
      /\ vm'.callStack = vm.callStack /\ vm'.forStack = vm.forStack
      /\ vm'.numVars = vm.numVars /\ vm'.strVars = vm.strVars
      /\ vm'.dataPointer = vm.dataPointer
      /\ Armed => vm'.pc = vm.trapLine
  BY <1>2, <1>3, EndFields
<1>5. Balance(vm') = Balance(vm) + n
  BY <1>2, <1>4 DEF Balance
<1>6. ControlFits(vm) /\ SafeAt(vm)
  BY DEF SoundInv, SafeAt
<1>7. ControlFits(vm')
  <2>1. vm'.trapEnabled => vm.trapEnabled
    BY <1>2, <1>4 DEF Armed
  <2> QED
    BY <1>4, <1>6, <2>1 DEF ControlFits
<1>8. vm'.running => Fits(vm'.pc, Types(vm'.stack))
  <2>1. SUFFICES ASSUME Armed PROVE Fits(vm'.pc, Types(vm'.stack))
    BY <1>2, <1>4
  <2>2. StatementStart(prog, vm.trapLine)
    BY <1>6, <2>1 DEF Armed, ControlFits
  <2>3. Types(<<>>) = <<>>
    BY DEF Types
  <2> QED
    BY <1>2, <1>4, <2>1, <2>2, <2>3 DEF StatementStart, Fits
<1>9. TrapCatchesStep /\ CaughtErrorStep
  BY <1>2, <1>4 DEF TrapCatchesStep, CaughtErrorStep
<1> QED
  BY <1>5, <1>7, <1>8, <1>9 DEF SafeStep, SafeAt

-----------------------------------------------------------------------------
(* The places of a program.                                                *)

(* A set of natural numbers has a least element. *)
LEMMA LeastNat ==
    ASSUME NEW S \in SUBSET Nat, S # {}
    PROVE  \E x \in S : \A y \in S : x <= y
<1> DEFINE R == OpToRel(<, Nat)
<1>1. IsWellFoundedOn(R, Nat)
  BY NatLessThanWellFounded
<1>2. PICK x \in S : \A y \in S : ~(<<y, x>> \in R)
  <2> HIDE DEF R
  <2> QED
    BY <1>1, WFMin
<1>3. \A y \in S : ~(y < x)
  BY <1>2 DEF OpToRel
<1> QED
  BY <1>3

(* What a place inside a jump table holds: an entry, which is a NOP.       *)
LEMMA TableEntry ==
    ASSUME NEW p, WellFormed(p), NEW pc \in Nat, InTable(p, pc)
    PROVE  pc + 1 \in DOMAIN p.code /\ p.code[pc + 1].op = "NOP"
<1>1. PICK i \in DOMAIN p.code : /\ p.code[i].op \in OnOps
                                 /\ pc \in i..(i + p.code[i].arg - 1)
  BY DEF InTable
<1>2. /\ Len(p.code) \in Nat /\ i \in 1..Len(p.code) /\ p.code[i].arg \in Nat
      /\ i + p.code[i].arg <= Len(p.code)
      /\ \A k \in 1..p.code[i].arg : p.code[i + k].op = "NOP"
  BY <1>1 DEF WellFormed, OperandOK
<1>3. PICK n \in Nat : n = p.code[i].arg
  BY <1>2
<1>4. pc >= i /\ pc <= i + n - 1 /\ i \in Nat
  BY <1>1, <1>2, <1>3
<1>5. PICK k \in 1..n : i + k = pc + 1
  <2>1. pc + 1 - i \in 1..n /\ i + (pc + 1 - i) = pc + 1
    BY <1>4
  <2> QED
    BY <2>1
<1>6. pc + 1 \in 1..Len(p.code) /\ p.code[i + k].op = "NOP"
  BY <1>2, <1>3, <1>4, <1>5, SMTT(30)
<1> QED
  BY <1>5, <1>6 DEF WellFormed

(* A place follows an ON or a place inside the table when it is inside.    *)
LEMMA IntoTable ==
    ASSUME NEW p, WellFormed(p), NEW i \in DOMAIN p.code, InTable(p, i)
    PROVE  p.code[i].op \in OnOps \/ InTable(p, i - 1)
<1>1. PICK j \in DOMAIN p.code : /\ p.code[j].op \in OnOps
                                 /\ i \in j..(j + p.code[j].arg - 1)
  BY DEF InTable
<1>2. /\ i \in Nat /\ j \in Nat /\ p.code[j].arg \in Nat
  BY <1>1 DEF WellFormed, OperandOK
<1>3. CASE i = j
  BY <1>1, <1>3
<1>4. CASE i # j
  <2>1. i - 1 \in j..(j + p.code[j].arg - 1)
    BY <1>1, <1>2, <1>4
  <2> QED
    BY <1>1, <2>1 DEF InTable
<1> QED
  BY <1>3, <1>4

(* So what follows any other instruction outside a table is outside too.   *)
LEMMA NotInTable ==
    ASSUME NEW p, WellFormed(p), NEW i \in DOMAIN p.code,
           p.code[i].op \notin OnOps \cup {"NOP"}
    PROVE  ~InTable(p, i)
<1> SUFFICES ASSUME InTable(p, i) PROVE FALSE
  OBVIOUS
<1>1. i \in Nat /\ i - 1 \in Nat /\ (i - 1) + 1 = i
  BY DEF WellFormed
<1>2. InTable(p, i - 1)
  BY IntoTable
<1>3. p.code[i].op = "NOP"
  BY <1>1, <1>2, TableEntry
<1> QED
  BY <1>3

(* A statement starts after the table of an ON: the NOPs of the table keep *)
(* the empty stack that the ON leaves.                                     *)
LEMMA TableEnd ==
    ASSUME NEW p, WellFormed(p), WellTyped(p), NEW i \in DOMAIN p.code,
           p.code[i].op \in OnOps
    PROVE  StatementStart(p, i + p.code[i].arg)
<1>0. PICK n \in Nat : n = p.code[i].arg
  BY DEF WellFormed, OperandOK
<1>1. /\ Len(p.code) \in Nat /\ DOMAIN p.code = 1..Len(p.code) /\ i \in Nat
      /\ i + n <= Len(p.code)
      /\ \A k \in 1..n : p.code[i + k].op = "NOP"
  BY <1>0 DEF WellFormed, OperandOK
<1>2. p.shape[i + 1] = <<>>
  BY DEF WellTyped, ControlOps
<1>3. \A k \in 1..n : p.shape[i + k + 1] = p.shape[i + k]
  <2>1. SUFFICES ASSUME NEW k \in 1..n
                 PROVE  p.shape[i + k + 1] = p.shape[i + k]
    OBVIOUS
  <2>2. i + k \in DOMAIN p.code /\ p.code[i + k].op = "NOP"
    BY <1>1
  <2>3. p.shape[(i + k) + 1] = Leaves("NOP", p.shape[i + k])
    BY <2>2 DEF WellTyped
  <2>4. Leaves("NOP", p.shape[i + k]) = p.shape[i + k]
    BY LeavesWhat DEF NoEffectOps
  <2> QED
    BY <2>3, <2>4
<1>4. p.shape[i + n + 1] = <<>>
  <2> DEFINE S == {k \in 0..n : p.shape[i + k + 1] # <<>>}
  <2> SUFFICES ASSUME p.shape[i + n + 1] # <<>> PROVE FALSE
    OBVIOUS
  <2>1. n \in S
    OBVIOUS
  <2>2. S \in SUBSET Nat
    BY <1>1
  <2>3. PICK k \in S : \A y \in S : k <= y
    BY <2>1, <2>2, LeastNat
  <2>4. k # 0
    BY <1>1, <1>2, <2>3
  <2>5. k \in 1..n /\ k - 1 \in 0..n /\ k - 1 \notin S /\ i + (k - 1) + 1 = i + k
    <3>1. k \in 0..n /\ i \in Nat
      BY <1>1
    <3>2. k \in 1..n /\ k - 1 \in 0..n /\ i + (k - 1) + 1 = i + k /\ ~(k <= k - 1)
      BY <2>4, <3>1
    <3> QED
      BY <2>3, <3>2
  <2>6. p.shape[i + k] = <<>>
    BY <2>5
  <2>7. p.shape[i + k + 1] = <<>>
    BY <1>3, <2>5, <2>6
  <2> QED
    BY <2>3, <2>7
<1>5. ~InTable(p, i + n)
  <2> SUFFICES ASSUME InTable(p, i + n) PROVE FALSE
    OBVIOUS
  <2>1. PICK j \in DOMAIN p.code : /\ p.code[j].op \in OnOps
                                   /\ i + n \in j..(j + p.code[j].arg - 1)
    BY DEF InTable
  <2>2. j \in Nat /\ p.code[j].arg \in Nat
    BY <2>1 DEF WellFormed, OperandOK
  <2>3a. PICK q \in Nat : q = p.code[j].arg /\ j <= i + n /\ i + n <= j + q - 1
    BY <1>1, <2>1, <2>2
  <2>3. j # i
    BY <1>0, <1>1, <2>3a
  <2>4. ~(j > i)
    <3> SUFFICES ASSUME j > i PROVE FALSE
      OBVIOUS
    <3>1. PICK k \in 1..n : i + k = j
      <4>1. j - i \in 1..n /\ i + (j - i) = j
        <5>1. i \in Nat /\ j \in Nat
          BY <1>1, <2>2
        <5> QED
          BY <2>3a, <5>1
      <4> QED
        BY <4>1
    <3>2. p.code[i + k].op = "NOP"
      BY <1>1, <3>1
    <3> QED
      BY <2>1, <3>1, <3>2 DEF OnOps
  <2>5. ~(j < i)
    <3> SUFFICES ASSUME j < i PROVE FALSE
      OBVIOUS
    <3>1. i - 1 \in j..(j + p.code[j].arg - 1) /\ i - 1 \in Nat /\ (i - 1) + 1 = i
      BY <1>1, <2>2, <2>3a, SMTT(30)
    <3>2. InTable(p, i - 1)
      BY <2>1, <3>1 DEF InTable
    <3>3. p.code[i].op = "NOP"
      BY <3>1, <3>2, TableEntry
    <3> QED
      BY <3>3 DEF OnOps
  <2> QED
    BY <1>1, <2>2, <2>3, <2>4, <2>5
<1>6. i + n \in 0..Len(p.code)
  BY <1>1
<1> QED
  BY <1>0, <1>4, <1>5, <1>6 DEF StatementStart

(* RETURN and NEXT go back to where a statement starts. *)
LEMMA ReturnStart ==
    ASSUME NEW p, WellFormed(p), WellTyped(p)
    PROVE  /\ \A r : ReturnAddress(p, r) => StatementStart(p, r)
           /\ \A f : LoopFrame(p, f) => StatementStart(p, f.start)
<1>1. ASSUME NEW i \in DOMAIN p.code,
             p.code[i].op \in {"GOSUB", "GOSUB_LINE", "FOR_INIT"}
      PROVE  StatementStart(p, i)
  <2>1. p.code[i].op \in ControlOps /\ p.code[i].op \notin OnOps \cup {"NOP"}
    BY <1>1 DEF ControlOps, JumpOps, OnOps
  <2>2. p.shape[i + 1] = <<>>
    BY <2>1 DEF WellTyped
  <2>3. ~InTable(p, i)
    BY <2>1, NotInTable
  <2>4. i \in 0..Len(p.code)
    BY DEF WellFormed
  <2> QED
    BY <2>2, <2>3, <2>4 DEF StatementStart
<1>2. ASSUME NEW i \in DOMAIN p.code, p.code[i].op = "ON_GOSUB"
      PROVE  StatementStart(p, i + p.code[i].arg)
  BY <1>2, TableEnd DEF OnOps
<1> QED
  BY <1>1, <1>2 DEF ReturnAddress, LoopFrame

(* The program starts with a statement. *)
LEMMA ProgramStart ==
    ASSUME NEW p, WellFormed(p), WellTyped(p)
    PROVE  StatementStart(p, 0)
<1>1. p.shape[0 + 1] = <<>> /\ 0 \in 0..Len(p.code)
  BY DEF WellFormed, WellTyped
<1>2. ~InTable(p, 0)
  BY DEF WellFormed, InTable
<1> QED
  BY <1>1, <1>2 DEF StatementStart

(* A well-typed program is one the verifier has passed. *)
LEMMA TypedProgram ==
    ASSUME SoundInv, prog.typed
    PROVE  /\ WellFormed(prog) /\ WellTyped(prog)
           /\ vm \in Machine /\ ControlFits(vm)
           /\ vm.running => Fits(vm.pc, Types(vm.stack))
BY ProgramAssumption DEF SoundInv, Loaded, TypeOK, SafeAt

(* What the verifier knows of the instruction about to be executed, whose  *)
(* operand stack it finds as the verifier expects.                         *)
LEMMA Verified ==
    ASSUME SoundInv, prog.typed, CanExecute
    PROVE  LET s == Types(vm.stack)
               i == vm.pc + 1
           IN  /\ vm.running /\ vm.pc \in Nat /\ i \in DOMAIN prog.code
               /\ Follows(vm, vm, s, 0) /\ ControlFits(vm)
               /\ Takes(Inst.op, s)
               /\ prog.shape[i + 1] = Leaves(Inst.op, s)
               /\ Inst.op \in ControlOps => Leaves(Inst.op, s) = <<>>
               /\ Inst.op \in JumpOps => StatementStart(prog, Inst.arg)
               /\ Inst.op \in OnOps => \A k \in 1..Inst.arg :
                                          StatementStart(prog, prog.code[i + k].arg)
<1> DEFINE s == Types(vm.stack)
           i == vm.pc + 1
<1>1. vm.running /\ vm.pc \in Nat /\ i \in DOMAIN prog.code
  BY TypedProgram, MachineFields, InstOperand DEF CanExecute, SoundInv
<1>2. Follows(vm, vm, s, 0) /\ ControlFits(vm) /\ prog.shape[i] = s
  BY <1>1, TypedProgram, FollowsSelf DEF Fits
<1>3. WellTyped(prog) /\ Inst = prog.code[i]
  BY TypedProgram DEF Inst
<1> HIDE DEF i, s
<1>4. /\ Takes(Inst.op, s)
      /\ prog.shape[i + 1] = Leaves(Inst.op, s)
      /\ Inst.op \in ControlOps => Leaves(Inst.op, s) = <<>>
      /\ Inst.op \in JumpOps => StatementStart(prog, Inst.arg)
      /\ Inst.op \in OnOps => \A k \in 1..Inst.arg :
                                 StatementStart(prog, prog.code[i + k].arg)
  BY <1>1, <1>2, <1>3 DEF WellTyped
<1> QED
  BY <1>1, <1>2, <1>4 DEF i, s

(* The instruction that follows finds the stack this one should leave.     *)
LEMMA NextFits ==
    ASSUME SoundInv, prog.typed, CanExecute, Inst.op \notin OnOps
    PROVE  Fits(vm.pc + 1, Leaves(Inst.op, Types(vm.stack)))
<1> DEFINE i == vm.pc + 1
<1>1. /\ vm.pc \in Nat /\ i \in DOMAIN prog.code /\ i - 1 = vm.pc
      /\ prog.shape[i + 1] = Leaves(Inst.op, Types(vm.stack))
  BY Verified
<1>2. WellFormed(prog) /\ ~InTable(prog, vm.pc) /\ Inst = prog.code[i]
  BY TypedProgram DEF Fits, CanExecute, Inst
<1>3. ~InTable(prog, i)
  <2> HIDE DEF i
  <2> QED
    BY <1>1, <1>2, IntoTable
<1>4. i \in 0..Len(prog.code)
  BY <1>1, <1>2 DEF WellFormed
<1> QED
  BY <1>1, <1>3, <1>4 DEF Fits

(* Where a statement starts the operand stack is empty. *)
LEMMA StartFits ==
    ASSUME NEW pc, StatementStart(prog, pc)
    PROVE  Fits(pc, <<>>)
BY DEF StatementStart, Fits

(* A handler may have stored in variables or read DATA, and nothing else.  *)
SameControl(k) ==
    /\ k \in Machine
    /\ k.pc = vm.pc /\ k.running = vm.running
    /\ k.callStack = vm.callStack /\ k.forStack = vm.forStack
    /\ k.trapEnabled = vm.trapEnabled /\ k.trapLine = vm.trapLine
    /\ k.errorCode = vm.errorCode
    /\ k.heap = vm.heap /\ k.stack = vm.stack

(* The machine with which the instruction that follows starts. *)
LEMMA AdvanceFits ==
    ASSUME SoundInv, prog.typed, CanExecute, Inst.op \notin OnOps,
           NEW k, SameControl(k)
    PROVE  /\ Fits(Advance(k).pc, Leaves(Inst.op, Types(vm.stack)))
           /\ ControlFits(Advance(k)) /\ Advance(k).running
           /\ Advance(k).trapEnabled = vm.trapEnabled
           /\ Balance(Advance(k)) = Balance(vm)
<1>1. vm.running /\ ControlFits(vm)
  BY TypedProgram DEF CanExecute
<1>2. /\ Advance(k).pc = vm.pc + 1 /\ Advance(k).running = vm.running
      /\ Advance(k).callStack = vm.callStack /\ Advance(k).forStack = vm.forStack
      /\ Advance(k).trapEnabled = vm.trapEnabled /\ Advance(k).trapLine = vm.trapLine
      /\ Advance(k).errorCode = vm.errorCode
      /\ Advance(k).heap = vm.heap /\ Advance(k).stack = vm.stack
  BY DEF SameControl, Advance, SetPc, Machine
<1> QED
  BY <1>1, <1>2, NextFits DEF ControlFits, Balance

(* Every handler that takes its operands off the stack, stores in          *)
(* variables, and pushes what the verifier expects.                        *)
LEMMA PlainSafe ==
    ASSUME SoundInv, prog.typed, CanExecute, Inst.op \notin OnOps,
           NEW k, SameControl(k), NEW m, NEW n \in Int,
           Follows(m, k, Leaves(Inst.op, Types(vm.stack)), n),
           vm' = EndInstruction(Advance(m)), prog' = prog
    PROVE  SafeStep /\ Balance(vm') = Balance(vm) + n
<1>1. Follows(Advance(m), Advance(k), Leaves(Inst.op, Types(vm.stack)), n)
  BY UpdateFollows
<1>2. SafeStep /\ Balance(vm') = Balance(Advance(k)) + n
  BY <1>1, AdvanceFits, OrdinarySafe
<1> QED
  BY <1>2, AdvanceFits

(* Such machines. *)
LEMMA SameControlIs ==
    ASSUME SoundInv
    PROVE  /\ SameControl(vm)
           /\ \A x \in [Slot -> Number] : SameControl([vm EXCEPT !.numVars = x])
           /\ \A x \in [Slot -> Text] : SameControl([vm EXCEPT !.strVars = x])
<1>1. vm \in Machine
  BY DEF SoundInv, Loaded, TypeOK
<1>2. ASSUME NEW x \in [Slot -> Number] PROVE SameControl([vm EXCEPT !.numVars = x])
  <2>1. [vm EXCEPT !.numVars = x] \in Machine
    BY <1>1, FieldType
  <2> QED
    BY <1>1, <2>1 DEF SameControl, Machine
<1>3. ASSUME NEW x \in [Slot -> Text] PROVE SameControl([vm EXCEPT !.strVars = x])
  <2>1. [vm EXCEPT !.strVars = x] \in Machine
    BY <1>1, FieldType
  <2> QED
    BY <1>1, <2>1 DEF SameControl, Machine
<1> QED
  BY <1>1, <1>2, <1>3 DEF SameControl

-----------------------------------------------------------------------------
(* The handlers of VM: they commit a machine, and the balance is kept.     *)

SoundStep == SafeStep /\ Balance(vm') = Balance(vm)

(* The same as PlainSafe, for a handler that accounts for its strings. *)
LEMMA PlainSound ==
    ASSUME SoundInv, prog.typed, CanExecute, Inst.op \notin OnOps,
           NEW k, SameControl(k),
           NEW m, Follows(m, k, Leaves(Inst.op, Types(vm.stack)), 0),
           Commit(Advance(m))
    PROVE  SoundStep
<1>1. vm' = EndInstruction(Advance(m)) /\ prog' = prog
  BY DEF Commit
<1>2. SafeStep /\ Balance(vm') = Balance(vm) + 0
  BY <1>1, PlainSafe
<1>3. Balance(vm) \in Int
  BY Verified, FollowsType
<1> QED
  BY <1>2, <1>3 DEF SoundStep

(* And for one that fails: e is the machine vm_error leaves, stepped past  *)
(* the instruction only if no trap has caught the error.                   *)
LEMMA ErrorSound ==
    ASSUME SoundInv, prog.typed, vm.running,
           NEW m, NEW s, Follows(m, vm, s, 0), NEW code \in ErrorCode,
           code \notin {ERR_NONE, ERR_OVERFLOW, ERR_TYPE_MISMATCH},
           \/ Commit(vm_error(m, code))
           \/ Commit(IF vm_error(m, code).trapTriggered
                     THEN vm_error(m, code) ELSE Advance(vm_error(m, code)))
    PROVE  SoundStep
<1>1. PICK e : /\ \/ e = vm_error(m, code)
                  \/ e = Advance(vm_error(m, code)) /\ ~vm_error(m, code).trapTriggered
               /\ vm' = EndInstruction(e) /\ prog' = prog
  BY DEF Commit
<1>2. SafeStep /\ Balance(vm') = Balance(vm) + 0
  BY <1>1, ErrorSafe
<1>3. Balance(vm) \in Int
  BY FollowsType
<1> QED
  BY <1>2, <1>3 DEF SoundStep

(* The operand, by its opcode, for the handlers of VM. *)
LEMMA Operands ==
    ASSUME SoundInv, CanExecute
    PROVE  /\ vm.numVars \in [Slot -> Number] /\ vm.strVars \in [Slot -> Text]
           /\ vm.errorCode \in Number
           /\ Inst.op = "PUSH_CONST" => Inst.arg \in Number
           /\ Inst.op = "STR_PUSH" => Inst.arg \in Text
           /\ Inst.op \in {"PUSH_VAR", "POP_VAR", "STR_PUSH_VAR",
                           "STR_POP_VAR", "FOR_INIT", "DATA_READ_NUM",
                           "DATA_READ_STR"} => Inst.arg \in Slot
BY InstArg, MachineFields, NumberAssumption DEF SoundInv, Loaded, TypeOK

(* The pushes. *)
LEMMA PushSound ==
    ASSUME SoundInv, prog.typed,
           OP_PUSH_CONST \/ OP_PUSH_VAR \/ OP_STR_PUSH_VAR \/ OP_STR_PUSH \/ OP_FN_ERR
    PROVE  SoundStep
<1> DEFINE s == Types(vm.stack)
<1>1. CanExecute /\ Inst.op \in PushNumOps \cup PushStrOps
  BY DEF OP_PUSH_CONST, OP_PUSH_VAR, OP_STR_PUSH_VAR, OP_STR_PUSH, OP_FN_ERR,
         Executing, PushNumOps, PushStrOps
<1>2. Inst.op \notin OnOps /\ Follows(vm, vm, s, 0)
  BY <1>1, Verified DEF PushNumOps, PushStrOps, OnOps
<1>3. CASE Inst.op \in PushNumOps
  <2>1. PICK x \in Number : Commit(Advance(vm_push_number(vm, x)))
    BY <1>1, <1>3, Operands DEF OP_PUSH_CONST, OP_PUSH_VAR, OP_STR_PUSH_VAR,
       OP_STR_PUSH, OP_FN_ERR, Executing, PushNumOps
  <2>2. Follows(vm_push_number(vm, x), vm, Above(s, "num"), 0)
    BY <1>2, PushTypedFollows
  <2>3. Leaves(Inst.op, s) = Above(s, "num")
    BY <1>3, LeavesWhat
  <2> QED
    BY <1>1, <1>2, <2>1, <2>2, <2>3, SameControlIs, PlainSound
<1>4. CASE Inst.op \in PushStrOps
  <2>1. PICK x \in Text : Commit(Advance(vm_push_string(vm, x)))
    BY <1>1, <1>4, Operands DEF OP_PUSH_CONST, OP_PUSH_VAR, OP_STR_PUSH_VAR,
       OP_STR_PUSH, OP_FN_ERR, Executing, PushStrOps
  <2>2. Follows(vm_push_string(vm, x), vm, Above(s, "str"), 0)
    BY <1>2, PushTypedFollows
  <2>3. Leaves(Inst.op, s) = Above(s, "str")
    BY <1>4, LeavesWhat
  <2> QED
    BY <1>1, <1>2, <2>1, <2>2, <2>3, SameControlIs, PlainSound
<1> QED
  BY <1>1, <1>3, <1>4

(* A number or a string stored in a variable. *)
LEMMA StoreSound ==
    ASSUME SoundInv, prog.typed, OP_POP_VAR \/ OP_STR_POP_VAR
    PROVE  SoundStep
<1> DEFINE s == Types(vm.stack)
<1>1. /\ CanExecute /\ Inst.arg \in Slot /\ Inst.op \notin OnOps
      /\ Inst.op \in {"POP_VAR", "STR_POP_VAR"}
  BY Operands DEF OP_POP_VAR, OP_STR_POP_VAR, Executing, OnOps
<1>2. /\ Follows(vm, vm, s, 0) /\ Takes(Inst.op, s)
      /\ Leaves(Inst.op, s) = Below(s)
  BY <1>1, Verified, LeavesWhat DEF TakeNumOps
<1>3. CASE OP_POP_VAR
  <2> DEFINE p == vm_pop_number(vm)
             new == [vm.numVars EXCEPT ![Inst.arg] = p.v]
             k == [vm EXCEPT !.numVars[Inst.arg] = p.v]
             stored == [p.m EXCEPT !.numVars[Inst.arg] = p.v]
  <2>1. TopIs(s, "num")
    BY <1>2, <1>3, TakesWhat DEF OP_POP_VAR, Executing, TakeNumOps
  <2>2. Follows(p.m, vm, Below(s), 0) /\ p.v \in Number
    BY <1>2, <2>1, PopNumberFollows
  <2>3. Commit(Advance(stored))
    BY <1>3 DEF OP_POP_VAR
  <2>4. new \in [Slot -> Number]
    BY <1>1, <2>2, Operands
  <2> HIDE DEF p
  <2>5. Follows(stored, k, Below(s), 0)
    BY <1>1, <2>2, UpdateFollows
  <2>6. k = [vm EXCEPT !.numVars = new]
    OBVIOUS
  <2>7. SameControl(k)
    BY <2>4, <2>6, SameControlIs
  <2> HIDE DEF k, stored
  <2> QED
    BY <1>1, <1>2, <2>3, <2>5, <2>7, PlainSound
<1>4. CASE OP_STR_POP_VAR
  <2> DEFINE p == vm_pop_string(vm)
             new == [vm.strVars EXCEPT ![Inst.arg] = p.v]
             k == [vm EXCEPT !.strVars[Inst.arg] = p.v]
             stored == [p.m EXCEPT !.strVars[Inst.arg] = p.v]
  <2>1. TopIs(s, "str")
    BY <1>2, <1>4, TakesWhat DEF OP_STR_POP_VAR, Executing
  <2>2. Follows(p.m, vm, Below(s), 0 + 1) /\ p.v \in Text
    BY <1>2, <2>1, PopStringFollows
  <2>3. Commit(Advance(Free(stored)))
    BY <1>4 DEF OP_STR_POP_VAR
  <2>4. new \in [Slot -> Text]
    BY <1>1, <2>2, Operands
  <2> HIDE DEF p
  <2>5. Follows(stored, k, Below(s), 1)
    BY <1>1, <2>2, UpdateFollows
  <2>6. k = [vm EXCEPT !.strVars = new]
    OBVIOUS
  <2>7. SameControl(k)
    BY <2>4, <2>6, SameControlIs
  <2> HIDE DEF k, stored
  <2>8. Follows(Free(stored), k, Below(s), 1 - 1)
    BY <2>5, AllocFollows
  <2> QED
    BY <1>1, <1>2, <2>3, <2>7, <2>8, PlainSound
<1> QED
  BY <1>3, <1>4

-----------------------------------------------------------------------------
(* Arithmetic, comparison and logic.                                       *)

(* A handler that ends by pushing its result. *)
LEMMA ResultSound ==
    ASSUME SoundInv, prog.typed, CanExecute, Inst.op \notin OnOps,
           NEW m, NEW s, Follows(m, vm, s, 0),
           \/ /\ Leaves(Inst.op, Types(vm.stack)) = Above(s, "num")
              /\ \E x \in Number : Commit(Advance(vm_push_number(m, x)))
           \/ /\ Leaves(Inst.op, Types(vm.stack)) = Above(s, "str")
              /\ \E x \in Text : Commit(Advance(vm_push_string(m, x)))
    PROVE  SoundStep
<1>1. /\ \A x \in Number : Follows(vm_push_number(m, x), vm, Above(s, "num"), 0)
      /\ \A x \in Text : Follows(vm_push_string(m, x), vm, Above(s, "str"), 0)
  BY PushTypedFollows
<1> QED
  BY <1>1, SameControlIs, PlainSound

(* The two operands of a binary operator. *)
LEMMA TwoNumbers ==
    ASSUME NEW m, NEW k, NEW s, NEW n \in Int, Follows(m, k, s, n),
           TopIs(s, "num"), TopIs(Below(s), "num")
    PROVE  LET b == vm_pop_number(m)
               a == vm_pop_number(b.m)
           IN  /\ Follows(b.m, k, Below(s), n) /\ b.v \in Number /\ b.v \in Int
               /\ Follows(a.m, k, Below(Below(s)), n) /\ a.v \in Number /\ a.v \in Int
BY PopNumberFollows

(* No error has sprung the trap. *)
LEMMA NoTrap ==
    ASSUME SoundInv, NEW m, NEW s, NEW n, Follows(m, vm, s, n)
    PROVE  ~m.trapTriggered
BY DEF SoundInv, Loaded, TypeOK, Follows

(* ADD, SUB, MUL, MOD, DIV, POW, AND and OR. *)
LEMMA BinarySound ==
    ASSUME SoundInv, prog.typed,
           OP_ADD_SUB_MUL_MOD \/ OP_DIV \/ OP_POW \/ OP_AND_OR
    PROVE  SoundStep
<1> DEFINE s == Types(vm.stack)
           b == vm_pop_number(vm)
           a == vm_pop_number(b.m)
<1>1. CanExecute /\ Inst.op \in BinaryOps
  BY DEF OP_ADD_SUB_MUL_MOD, OP_DIV, OP_POW, OP_AND_OR, Executing,
         ExecutingOneOf, BinaryOps
<1>2. Inst.op \notin OnOps
  BY <1>1 DEF BinaryOps, OnOps
<1>3. vm.running /\ Follows(vm, vm, s, 0) /\ Takes(Inst.op, s)
  BY <1>1, Verified
<1>4. /\ TopIs(s, "num") /\ TopIs(Below(s), "num")
      /\ Leaves(Inst.op, s) = Above(Below(Below(s)), "num")
  BY <1>1, <1>3, TakesWhat, LeavesWhat
<1>5. /\ Follows(b.m, vm, Below(s), 0) /\ Follows(a.m, vm, Below(Below(s)), 0)
      /\ ~b.m.trapTriggered /\ ~a.m.trapTriggered
  BY <1>3, <1>4, TwoNumbers, NoTrap
<1>6. CASE \E x \in Number : Commit(Advance(vm_push_number(a.m, x)))
  BY <1>1, <1>2, <1>4, <1>5, <1>6, ResultSound
<1>7. CASE OP_ADD_SUB_MUL_MOD
  BY <1>5, <1>6, <1>7 DEF OP_ADD_SUB_MUL_MOD
<1>8. CASE OP_DIV
  <2>1. CASE b.v = 0
    <3> DEFINE failed == vm_error(a.m, ERR_DIVISION_BY_ZERO)
    <3>1. Commit(IF failed.trapTriggered THEN failed ELSE Advance(failed))
      BY <1>8, <2>1 DEF OP_DIV
    <3>2. ERR_DIVISION_BY_ZERO \in ErrorCode
          /\ ERR_DIVISION_BY_ZERO \notin {ERR_NONE, ERR_OVERFLOW, ERR_TYPE_MISMATCH}
      BY DEF ErrorCode, ERR_DIVISION_BY_ZERO, ERR_NONE, ERR_OVERFLOW, ERR_TYPE_MISMATCH
    <3> QED
      BY <1>3, <1>5, <3>1, <3>2, ErrorSound
  <2>2. CASE b.v # 0
    <3>1. \E q \in Quotients(a.v, b.v) : Commit(Advance(vm_push_number(a.m, q)))
      BY <1>8, <2>2 DEF OP_DIV
    <3>2. Quotients(a.v, b.v) \subseteq Number
      BY DEF Quotients
    <3> QED
      BY <1>6, <3>1, <3>2
  <2> QED
    BY <2>1, <2>2
<1>9. CASE OP_POW
  BY <1>6, <1>9, NumberAssumption DEF OP_POW
<1>10. CASE OP_AND_OR
  <2>1. \E c \in BOOLEAN : Commit(Advance(vm_push_number(a.m, Bool(c))))
    BY <1>10 DEF OP_AND_OR
  <2> QED
    BY <1>6, <2>1, BoolNumber
<1> QED
  BY <1>7, <1>8, <1>9, <1>10

(* A char of CHR$ is a char of a string, and NUL ends an empty one. *)
LEMMA ChrType == \A n \in Int : Chr(n) \in Text
<1> SUFFICES ASSUME NEW n \in Int PROVE Chr(n) \in Text
  OBVIOUS
<1>1. PICK c \in 0..255 : c = n % 256
  OBVIOUS
<1>2. c # 0 => c \in Char
  BY DEF Char
<1>3. <<>> \in Seq(Char) /\ (c # 0 => <<c>> \in Seq(Char))
  BY <1>2
<1> QED
  BY <1>1, <1>3 DEF Chr, Text

(* The operators and functions of one number, and those that make a string *)
(* of one.                                                                 *)
LEMMA UnarySound ==
    ASSUME SoundInv, prog.typed,
           OP_NEG \/ OP_NOT \/ OP_STR_CHR_STR \/ OP_FUNC_FLOAT \/ OP_FUNC_RND
           \/ OP_FUNC_EXACT \/ OP_FUNC_DOMAIN
    PROVE  SoundStep
<1> DEFINE s == Types(vm.stack)
           x == vm_pop_number(vm)
<1>1. CanExecute /\ Inst.op \in UnaryOps \cup NumToStrOps
  BY DEF OP_NEG, OP_NOT, OP_STR_CHR_STR, OP_FUNC_FLOAT, OP_FUNC_RND,
         OP_FUNC_EXACT, OP_FUNC_DOMAIN, Executing, ExecutingOneOf, UnaryOps,
         NumToStrOps
<1>2. Inst.op \notin OnOps
  BY <1>1 DEF UnaryOps, NumToStrOps, OnOps
<1>3. vm.running /\ Follows(vm, vm, s, 0) /\ Takes(Inst.op, s)
  BY <1>1, Verified
<1>4. TopIs(s, "num")
  BY <1>1, <1>3, TakesWhat
<1>5. Follows(x.m, vm, Below(s), 0) /\ x.v \in Number /\ x.v \in Int
  BY <1>3, <1>4, PopNumberFollows
<1>6. CASE /\ Inst.op \in UnaryOps
           /\ \E r \in Number : Commit(Advance(vm_push_number(x.m, r)))
  <2>1. Leaves(Inst.op, s) = Above(Below(s), "num")
    BY <1>6, LeavesWhat
  <2> QED
    BY <1>1, <1>2, <1>5, <1>6, <2>1, ResultSound
<1>7. CASE OP_NEG
  BY <1>6, <1>7 DEF OP_NEG, Executing, UnaryOps
<1>8. CASE OP_NOT
  <2>1. Commit(Advance(vm_push_number(x.m, Bool(x.v = 0)))) /\ Inst.op \in UnaryOps
    BY <1>8 DEF OP_NOT, Executing, UnaryOps
  <2> QED
    BY <1>6, <2>1, BoolNumber
<1>9. CASE OP_STR_CHR_STR
  <2> DEFINE result == IF Inst.op = "STR_CHR" THEN Chr(x.v) ELSE FormatG(x.v)
  <2>1. Commit(Advance(vm_push_string(x.m, result))) /\ Inst.op \in NumToStrOps
    BY <1>9 DEF OP_STR_CHR_STR, ExecutingOneOf, NumToStrOps
  <2>2. Leaves(Inst.op, s) = Above(Below(s), "str")
    BY <2>1, LeavesWhat
  <2>3. result \in Text
    BY <1>5, ChrType, FormatAssumption
  <2> HIDE DEF result
  <2> QED
    BY <1>1, <1>2, <1>5, <2>1, <2>2, <2>3, ResultSound
<1>10. CASE OP_FUNC_FLOAT \/ OP_FUNC_RND
  BY <1>6, <1>10, NumberAssumption
     DEF OP_FUNC_FLOAT, OP_FUNC_RND, Executing, ExecutingOneOf, UnaryOps
<1>11. CASE OP_FUNC_EXACT
  BY <1>6, <1>11 DEF OP_FUNC_EXACT, ExecutingOneOf, UnaryOps
<1>12. CASE OP_FUNC_DOMAIN
  <2>1. CASE OutsideDomain(Inst.op, x.v)
    <3> DEFINE failed == vm_error(x.m, ERR_ILLEGAL_FUNCTION)
    <3>1. Commit(IF failed.trapTriggered THEN failed ELSE Advance(failed))
      BY <1>12, <2>1 DEF OP_FUNC_DOMAIN
    <3>2. ERR_ILLEGAL_FUNCTION \in ErrorCode
          /\ ERR_ILLEGAL_FUNCTION \notin {ERR_NONE, ERR_OVERFLOW, ERR_TYPE_MISMATCH}
      BY DEF ErrorCode, ERR_ILLEGAL_FUNCTION, ERR_NONE, ERR_OVERFLOW, ERR_TYPE_MISMATCH
    <3> QED
      BY <1>3, <1>5, <3>1, <3>2, ErrorSound
  <2>2. CASE ~OutsideDomain(Inst.op, x.v)
    BY <1>6, <1>12, <2>2, NumberAssumption
       DEF OP_FUNC_DOMAIN, ExecutingOneOf, UnaryOps
  <2> QED
    BY <2>1, <2>2
<1> QED
  BY <1>7, <1>8, <1>9, <1>10, <1>11, <1>12

(* Two operands of one type: two numbers, or two strings, both freed. *)
LEMMA CompareSound ==
    ASSUME SoundInv, prog.typed, OP_COMPARE
    PROVE  SoundStep
<1> DEFINE s == Types(vm.stack)
           b == vm_pop(vm)
           a == vm_pop(b.m)
           compared == IF a.v.type = "str" THEN Free(Free(a.m)) ELSE a.m
           result == Bool(Related(Inst.op, a.v, b.v))
<1>1. CanExecute /\ Inst.op \in CompareOps /\ Inst.op \notin OnOps
  BY DEF OP_COMPARE, ExecutingOneOf, CompareOps, OnOps
<1>2. Follows(vm, vm, s, 0) /\ Takes(Inst.op, s)
  BY <1>1, Verified
<1>3. /\ Len(s) >= 2 /\ s[Len(s)] = s[Len(s) - 1]
      /\ Leaves(Inst.op, s) = Above(Below(Below(s)), "num")
      /\ s \in Seq({"num", "str"})
  BY <1>1, <1>2, TakesWhat, LeavesWhat, FollowsType
<1>4. s # <<>> /\ Below(s) # <<>> /\ Below(s)[Len(Below(s))] = s[Len(s) - 1]
  <2> HIDE DEF s
  <2>1. s # <<>> /\ \A i \in 1..Len(s) : s[i] \in {"num", "str"}
    BY <1>3
  <2>2. PICK n \in Nat : n + 1 = Len(s) /\ n >= 1
    <3>1. Len(s) - 1 \in Nat /\ (Len(s) - 1) + 1 = Len(s) /\ Len(s) - 1 >= 1
      BY <1>3
    <3> QED
      BY <3>1
  <2>3. Len(s) - 1 = n /\ Below(s) = SubSeq(s, 1, n)
    BY <1>3, <2>2 DEF Below
  <2>4. Len(SubSeq(s, 1, n)) = n /\ SubSeq(s, 1, n)[n] = s[n]
    BY <1>3, <2>1, <2>2
  <2> QED
    BY <2>1, <2>2, <2>3, <2>4
<1>5. /\ Follows(b.m, vm, Below(s), 0 + Weight(b.v))
      /\ b.v \in Value /\ b.v.type = s[Len(s)]
  BY <1>2, <1>4, PopFollows
<1>6. Weight(b.v) \in Int /\ 0 + Weight(b.v) = Weight(b.v)
  BY DEF Weight
<1>7. /\ Follows(a.m, vm, Below(Below(s)), Weight(b.v) + Weight(a.v))
      /\ a.v \in Value /\ a.v.type = b.v.type
  BY <1>3, <1>4, <1>5, <1>6, PopFollows
<1>8. Commit(Advance(vm_push_number(compared, result)))
  BY <1>7 DEF OP_COMPARE
<1>9. Follows(compared, vm, Below(Below(s)), 0)
  <2> HIDE DEF a, b, s
  <2>1. CASE a.v.type = "str"
    <3>1. Weight(b.v) + Weight(a.v) = 2
      BY <1>7, <2>1 DEF Weight
    <3>2. Follows(Free(a.m), vm, Below(Below(s)), 2 - 1)
      BY <1>7, <3>1, AllocFollows
    <3>3. Follows(Free(Free(a.m)), vm, Below(Below(s)), 1 - 1)
      BY <3>2, AllocFollows
    <3> QED
      BY <2>1, <3>3
  <2>2. CASE a.v.type # "str"
    <3>1. Weight(b.v) + Weight(a.v) = 0
      BY <1>7, <2>2 DEF Weight
    <3> QED
      BY <1>7, <2>2, <3>1
  <2> QED
    BY <2>1, <2>2
<1>10. result \in Number
  BY BoolNumber, ZeroIsNumber DEF Bool
<1> HIDE DEF compared, result
<1> QED
  BY <1>1, <1>3, <1>8, <1>9, <1>10, ResultSound

-----------------------------------------------------------------------------
(* Strings.                                                                *)

(* The result takes the place of the argument. *)
LEMMA ReplaceSound ==
    ASSUME SoundInv, prog.typed, CanExecute, Inst.op \notin OnOps,
           NEW m, NEW s, Follows(m, vm, s, 1),
           Leaves(Inst.op, Types(vm.stack)) = Above(s, "str"),
           NEW x \in Text, Commit(PushReplacing(m, x))
    PROVE  SoundStep
<1>1. Follows(vm_push_string(m, x), vm, Above(s, "str"), 1)
  BY PushTypedFollows
<1>2. Follows(Free(vm_push_string(m, x)), vm, Above(s, "str"), 1 - 1)
  BY <1>1, AllocFollows
<1> QED
  BY <1>2, SameControlIs, PlainSound DEF PushReplacing

(* LEFT$, RIGHT$ and MID$. *)
LEMMA SliceSound ==
    ASSUME SoundInv, prog.typed, OP_STR_LEFT_RIGHT \/ OP_STR_MID \/ OP_STR_MID_2
    PROVE  SoundStep
<1> DEFINE s == Types(vm.stack)
<1>1. CanExecute /\ Inst.op \in SliceOps \cup {"STR_MID"} /\ Inst.op \notin OnOps
  BY DEF OP_STR_LEFT_RIGHT, OP_STR_MID, OP_STR_MID_2, Executing, ExecutingOneOf,
         SliceOps, OnOps
<1>2. Follows(vm, vm, s, 0) /\ Takes(Inst.op, s)
  BY <1>1, Verified
<1> HIDE DEF s
<1>3. CASE OP_STR_LEFT_RIGHT
  <2> DEFINE len == vm_pop_number(vm)
             str == vm_pop_string(len.m)
  <2>1. Inst.op \in SliceOps
    BY <1>3 DEF OP_STR_LEFT_RIGHT, ExecutingOneOf, SliceOps
  <2>2. /\ TopIs(s, "num") /\ TopIs(Below(s), "str")
        /\ Leaves(Inst.op, s) = Above(Below(Below(s)), "str")
    BY <1>2, <2>1, TakesWhat, LeavesWhat
  <2>3. Follows(len.m, vm, Below(s), 0) /\ len.v \in Int
    BY <1>2, <2>2, PopNumberFollows
  <2>4. Follows(str.m, vm, Below(Below(s)), 0 + 1) /\ str.v \in Text
    BY <2>2, <2>3, PopStringFollows
  <2>5. ~str.m.trapTriggered
    BY <2>4, NoTrap
  <2>6. Left(str.v, len.v) \in Text /\ Right(str.v, len.v) \in Text
    BY <2>3, <2>4, SliceType, ZenonT(60)
  <2>7. \/ Commit(PushReplacing(str.m, Left(str.v, len.v)))
        \/ Commit(PushReplacing(str.m, Right(str.v, len.v)))
    BY <1>3, <2>5 DEF OP_STR_LEFT_RIGHT
  <2> HIDE DEF len, str
  <2> QED
    BY <1>1, <2>2, <2>4, <2>6, <2>7, ReplaceSound DEF s
<1>4. CASE OP_STR_MID
  <2> DEFINE len   == vm_pop_number(vm)
             start == vm_pop_number(len.m)
             str   == vm_pop_string(start.m)
  <2>1. Inst.op = "STR_MID"
    BY <1>4 DEF OP_STR_MID, Executing
  <2>2. /\ TopIs(s, "num") /\ TopIs(Below(s), "num") /\ TopIs(Below(Below(s)), "str")
        /\ Leaves(Inst.op, s) = Above(Below(Below(Below(s))), "str")
    BY <1>2, <2>1, TakesWhat, LeavesWhat
  <2>3. /\ len.v \in Int
        /\ Follows(start.m, vm, Below(Below(s)), 0) /\ start.v \in Int
    BY <1>2, <2>2, TwoNumbers
  <2>4. Follows(str.m, vm, Below(Below(Below(s))), 0 + 1) /\ str.v \in Text
    BY <2>2, <2>3, PopStringFollows
  <2>5. ~str.m.trapTriggered
    BY <2>4, NoTrap
  <2>6. Mid(str.v, start.v, len.v) \in Text
    BY <2>3, <2>4, SliceType, SMTT(30)
  <2>7. Commit(PushReplacing(str.m, Mid(str.v, start.v, len.v)))
    BY <1>4, <2>5 DEF OP_STR_MID
  <2> HIDE DEF len, start, str
  <2> QED
    BY <1>1, <2>2, <2>4, <2>6, <2>7, ReplaceSound DEF s
<1>5. CASE OP_STR_MID_2
  <2> DEFINE start == vm_pop_number(vm)
             str   == vm_pop_string(start.m)
  <2>1. Inst.op \in SliceOps
    BY <1>5 DEF OP_STR_MID_2, Executing, SliceOps
  <2>2. /\ TopIs(s, "num") /\ TopIs(Below(s), "str")
        /\ Leaves(Inst.op, s) = Above(Below(Below(s)), "str")
    BY <1>2, <2>1, TakesWhat, LeavesWhat
  <2>3. Follows(start.m, vm, Below(s), 0) /\ start.v \in Int
    BY <1>2, <2>2, PopNumberFollows
  <2>4. Follows(str.m, vm, Below(Below(s)), 0 + 1) /\ str.v \in Text
    BY <2>2, <2>3, PopStringFollows
  <2>5. Mid(str.v, start.v, -1) \in Text
    BY <2>3, <2>4, SliceType, SMTT(30)
  <2>6. Commit(PushReplacing(str.m, Mid(str.v, start.v, -1)))
    BY <1>5 DEF OP_STR_MID_2
  <2> HIDE DEF start, str
  <2> QED
    BY <1>1, <2>2, <2>4, <2>5, <2>6, ReplaceSound DEF s
<1> QED
  BY <1>3, <1>4, <1>5

(* LEN, ASC and VAL free the string. *)
LEMMA NumberFromStringSound ==
    ASSUME SoundInv, prog.typed, OP_STR_LEN_ASC_VAL
    PROVE  SoundStep
<1> DEFINE s == Types(vm.stack)
           str == vm_pop_string(vm)
           result == NumberFrom(Inst.op, str.v)
<1>1. CanExecute /\ Inst.op \in StrToNumOps /\ Inst.op \notin OnOps
  BY DEF OP_STR_LEN_ASC_VAL, ExecutingOneOf, StrToNumOps, OnOps
<1>2. Follows(vm, vm, s, 0) /\ Takes(Inst.op, s)
  BY <1>1, Verified
<1>3. TopIs(s, "str") /\ Leaves(Inst.op, s) = Above(Below(s), "num")
  BY <1>1, <1>2, TakesWhat, LeavesWhat
<1>4. Follows(str.m, vm, Below(s), 0 + 1)
  BY <1>2, <1>3, PopStringFollows
<1>5. ~str.m.trapTriggered /\ Follows(Free(str.m), vm, Below(s), 1 - 1)
  <2> HIDE DEF s, str
  <2>1. Follows(str.m, vm, Below(s), 1)
    BY <1>4
  <2>2. ~str.m.trapTriggered
    BY <2>1, NoTrap
  <2>3. Follows(Free(str.m), vm, Below(s), 1 - 1)
    BY <2>1, AllocFollows
  <2> QED
    BY <2>2, <2>3
<1>6. result \in Number /\ Commit(Advance(vm_push_number(Free(str.m), result)))
  BY <1>5 DEF OP_STR_LEN_ASC_VAL
<1> HIDE DEF str, result
<1> QED
  BY <1>1, <1>3, <1>5, <1>6, ResultSound

-----------------------------------------------------------------------------
(* READ and RESTORE.                                                       *)

(* A handler that leaves the operand stack alone. *)
LEMMA NoEffectSound ==
    ASSUME SoundInv, prog.typed, CanExecute, Inst.op \in NoEffectOps,
           NEW k, SameControl(k),
           Commit(Advance(k)) \/ Commit(Advance(Alloc(Free(k))))
    PROVE  SoundStep
<1>1. k \in Machine /\ k.stack = vm.stack
  BY DEF SameControl
<1>2. Follows(k, k, Types(vm.stack), 0)
  BY <1>1, FollowsSelf
<1>3. Follows(Free(k), k, Types(vm.stack), 0 - 1)
  BY <1>2, AllocFollows
<1>4. Follows(Alloc(Free(k)), k, Types(vm.stack), (0 - 1) + 1)
  BY <1>3, AllocFollows
<1>5. Leaves(Inst.op, Types(vm.stack)) = Types(vm.stack)
  BY LeavesWhat
<1>6. Inst.op \notin OnOps
  BY DEF NoEffectOps, OnOps
<1> QED
  BY <1>2, <1>4, <1>5, <1>6, PlainSound

(* READ, when there is DATA left and when there is none. *)
LEMMA ReadSound ==
    ASSUME SoundInv, prog.typed, OP_DATA_READ
    PROVE  SoundStep
<1> DEFINE failed == vm_error(vm, ERR_OUT_OF_DATA)
           next == AfterDataEntry
<1>1. CanExecute /\ Inst.op \in NoEffectOps /\ Inst.arg \in Slot
  BY Operands DEF OP_DATA_READ, ExecutingOneOf, NoEffectOps
<1>2. /\ vm.running /\ Follows(vm, vm, Types(vm.stack), 0)
      /\ vm \in Machine /\ vm.dataPointer + 1 \in Nat
  BY <1>1, Verified, MachineFields DEF Follows
<1>3. CASE OutOfData
  <2>1. Commit(IF failed.trapTriggered THEN failed ELSE Advance(failed))
    BY <1>3 DEF OP_DATA_READ
  <2>2. ERR_OUT_OF_DATA \in ErrorCode
        /\ ERR_OUT_OF_DATA \notin {ERR_NONE, ERR_OVERFLOW, ERR_TYPE_MISMATCH}
    BY DEF ErrorCode, ERR_OUT_OF_DATA, ERR_NONE, ERR_OVERFLOW, ERR_TYPE_MISMATCH
  <2> QED
    BY <1>2, <2>1, <2>2, ErrorSound
<1>4. next \in Machine
  BY <1>2, FieldType DEF AfterDataEntry
<1>5. /\ next.pc = vm.pc /\ next.running = vm.running
      /\ next.callStack = vm.callStack /\ next.forStack = vm.forStack
      /\ next.trapEnabled = vm.trapEnabled /\ next.trapLine = vm.trapLine
      /\ next.errorCode = vm.errorCode
      /\ next.heap = vm.heap /\ next.stack = vm.stack
      /\ next.numVars = vm.numVars /\ next.strVars = vm.strVars
  BY <1>2 DEF AfterDataEntry, Machine
<1> HIDE DEF next
<1>6. CASE ~OutOfData /\ Inst.op = "DATA_READ_NUM"
  <2> DEFINE x == DataAsNumber(DataEntry)
             new == [next.numVars EXCEPT ![Inst.arg] = x]
             k == [next EXCEPT !.numVars[Inst.arg] = x]
  <2>1. x \in Number /\ Commit(Advance(k))
    BY <1>6 DEF OP_DATA_READ, next
  <2> HIDE DEF x
  <2>2. new \in [Slot -> Number]
    BY <1>1, <1>4, <2>1, MachineFields
  <2>3. k = [next EXCEPT !.numVars = new]
    OBVIOUS
  <2> HIDE DEF new, k
  <2>4. k \in Machine
    BY <1>4, <2>2, <2>3, FieldType
  <2>5. SameControl(k)
    BY <1>4, <1>5, <2>3, <2>4 DEF SameControl, Machine
  <2> QED
    BY <1>1, <2>1, <2>5, NoEffectSound
<1>7. CASE ~OutOfData /\ Inst.op # "DATA_READ_NUM"
  <2> DEFINE x == DataAsText(DataEntry)
             new == [next.strVars EXCEPT ![Inst.arg] = x]
             k == [next EXCEPT !.strVars[Inst.arg] = x]
  <2>1. Commit(Advance(Alloc(Free(k))))
    BY <1>7 DEF OP_DATA_READ, next
  <2>2. x \in Text
    BY <1>7, DataEntryTyped, DataAsTextType DEF SoundInv
  <2> HIDE DEF x
  <2>3. new \in [Slot -> Text]
    BY <1>1, <1>4, <2>2, MachineFields
  <2>4. k = [next EXCEPT !.strVars = new]
    OBVIOUS
  <2> HIDE DEF new, k
  <2>5. k \in Machine
    BY <1>4, <2>3, <2>4, FieldType
  <2>6. SameControl(k)
    BY <1>4, <1>5, <2>4, <2>5 DEF SameControl, Machine
  <2> QED
    BY <1>1, <2>1, <2>6, NoEffectSound
<1> QED
  BY <1>3, <1>6, <1>7

(* RESTORE, NOP and what is abstracted to a NOP; DUP and POP are never     *)
(* emitted.                                                                *)
LEMMA QuietSound ==
    ASSUME SoundInv, prog.typed, OP_RESTORE \/ OP_NOP \/ OP_DUP \/ OP_POP
    PROVE  SoundStep
<1>1. CanExecute
  BY DEF OP_RESTORE, OP_NOP, OP_DUP, OP_POP, Executing, ExecutingOneOf
<1>2. vm \in Machine /\ Takes(Inst.op, Types(vm.stack))
  BY <1>1, Verified DEF Follows
<1>3. Inst.op \notin {"DUP", "POP", "HALT", "STR_CONCAT", "RESTORE_LINE"}
  BY <1>2, TakesWhat
<1>4. CASE OP_RESTORE
  <2> DEFINE k == [vm EXCEPT !.dataPointer = 0]
  <2>1. Inst.op \in NoEffectOps /\ Commit(Advance(k))
    BY <1>3, <1>4 DEF OP_RESTORE, ExecutingOneOf, NoEffectOps
  <2>2. k \in Machine
    BY <1>2, FieldType
  <2>3. SameControl(k)
    BY <1>2, <2>2 DEF SameControl, Machine
  <2> HIDE DEF k
  <2> QED
    BY <1>1, <2>1, <2>3, NoEffectSound
<1>5. CASE OP_NOP
  <2>1. Inst.op \in NoEffectOps /\ Commit(Advance(vm))
    BY <1>5 DEF OP_NOP, ExecutingOneOf, NoEffectOps
  <2> QED
    BY <1>1, <2>1, SameControlIs, NoEffectSound
<1>6. ~OP_DUP /\ ~OP_POP
  BY <1>3 DEF OP_DUP, OP_POP, Executing
<1> QED
  BY <1>4, <1>5, <1>6

(* RANDOMIZE frees nothing and leaves nothing. *)
LEMMA RandomizeSound ==
    ASSUME SoundInv, prog.typed, OP_RANDOMIZE
    PROVE  SoundStep
<1> DEFINE s == Types(vm.stack)
           x == vm_pop_number(vm)
<1>1. CanExecute /\ Inst.op \in TakeNumOps /\ Inst.op \notin OnOps
  BY DEF OP_RANDOMIZE, Executing, TakeNumOps, OnOps
<1>2. Follows(vm, vm, s, 0) /\ Takes(Inst.op, s)
  BY <1>1, Verified
<1>3. TopIs(s, "num") /\ Leaves(Inst.op, s) = Below(s)
  BY <1>1, <1>2, TakesWhat, LeavesWhat
<1>4. Follows(x.m, vm, Below(s), 0)
  BY <1>2, <1>3, PopNumberFollows
<1>5. Commit(Advance(x.m))
  BY DEF OP_RANDOMIZE
<1> QED
  BY <1>1, <1>3, <1>4, <1>5, SameControlIs, PlainSound

-----------------------------------------------------------------------------
(* Jumps and subroutines.                                                  *)

(* The machine runs on, as sound as it was, from wherever it is sent. *)
Continues(k) == /\ k \in Machine
                /\ ControlFits(k)
                /\ k.running
                /\ vm.trapEnabled => k.trapEnabled
                /\ Balance(k) = Balance(vm)

(* To the start of a statement, or to the next instruction. *)
LEMMA GotoSound ==
    ASSUME SoundInv, prog.typed, NEW m, NEW k, NEW s, Follows(m, k, s, 0),
           Continues(k), NEW pc \in Nat, Fits(pc, s),
           Commit(SetPc(m, pc))
    PROVE  SoundStep
<1>1. Follows(SetPc(m, pc), SetPc(k, pc), s, 0)
  BY UpdateFollows
<1>2. /\ SetPc(k, pc).pc = pc /\ SetPc(k, pc).running = k.running
      /\ SetPc(k, pc).callStack = k.callStack /\ SetPc(k, pc).forStack = k.forStack
      /\ SetPc(k, pc).trapEnabled = k.trapEnabled
      /\ SetPc(k, pc).trapLine = k.trapLine
      /\ SetPc(k, pc).errorCode = k.errorCode
      /\ SetPc(k, pc).heap = k.heap /\ SetPc(k, pc).stack = k.stack
  BY DEF Continues, SetPc, Machine
<1>3. /\ Fits(SetPc(k, pc).pc, s) /\ ControlFits(SetPc(k, pc))
      /\ SetPc(k, pc).running
      /\ vm.trapEnabled => SetPc(k, pc).trapEnabled
      /\ Balance(SetPc(k, pc)) = Balance(vm)
  BY <1>2 DEF Continues, ControlFits, Balance
<1>4. vm' = EndInstruction(SetPc(m, pc)) /\ prog' = prog
  BY DEF Commit
<1>5. SafeStep /\ Balance(vm') = Balance(SetPc(k, pc)) + 0
  BY <1>1, <1>3, <1>4, OrdinarySafe
<1>6. Balance(vm) \in Int
  BY <1>1, <1>3, FollowsType
<1> QED
  BY <1>3, <1>5, <1>6 DEF SoundStep

(* What a control instruction finds and leaves: nothing, but for the one   *)
(* number that some of them take.                                          *)
LEMMA ControlOperands ==
    ASSUME SoundInv, prog.typed, CanExecute, Inst.op \in ControlOps
    PROVE  /\ vm.running /\ Continues(vm) /\ vm.pc \in Nat
           /\ vm.pc + 1 \in DOMAIN prog.code /\ Inst = prog.code[vm.pc + 1]
           /\ Inst.op \in JumpOps => Inst.arg \in Nat /\ Fits(Inst.arg, <<>>)
           /\ Inst.op \in NoEffectOps => Follows(vm, vm, <<>>, 0)
           /\ Inst.op \in TakeNumOps =>
                 /\ Follows(vm_pop_number(vm).m, vm, <<>>, 0)
                 /\ vm_pop_number(vm).v \in Int
           /\ Inst.op \notin OnOps => Fits(vm.pc + 1, <<>>)
<1> DEFINE s == Types(vm.stack)
<1>1. /\ vm.running /\ vm.pc \in Nat /\ vm.pc + 1 \in DOMAIN prog.code
      /\ Follows(vm, vm, s, 0) /\ ControlFits(vm)
      /\ Takes(Inst.op, s) /\ Leaves(Inst.op, s) = <<>>
      /\ Inst.op \in JumpOps => StatementStart(prog, Inst.arg)
  BY Verified
<1>2. Continues(vm)
  BY <1>1 DEF Continues, Follows
<1>3. Inst.op \in JumpOps => Inst.arg \in Nat /\ Fits(Inst.arg, <<>>)
  BY <1>1, InstArg, StartFits DEF SoundInv
<1>4. Inst.op \in NoEffectOps => Follows(vm, vm, <<>>, 0)
  BY <1>1, LeavesWhat
<1>5. Inst.op \in TakeNumOps =>
         /\ Follows(vm_pop_number(vm).m, vm, <<>>, 0)
         /\ vm_pop_number(vm).v \in Int
  <2> SUFFICES ASSUME Inst.op \in TakeNumOps
               PROVE  /\ Follows(vm_pop_number(vm).m, vm, <<>>, 0)
                      /\ vm_pop_number(vm).v \in Int
    OBVIOUS
  <2>1. TopIs(s, "num") /\ Leaves(Inst.op, s) = Below(s)
    BY <1>1, TakesWhat, LeavesWhat
  <2>2. Follows(vm_pop_number(vm).m, vm, Below(s), 0)
        /\ vm_pop_number(vm).v \in Int
    BY <1>1, <2>1, PopNumberFollows
  <2> QED
    BY <1>1, <2>1, <2>2
<1>6. Inst.op \notin OnOps => Fits(vm.pc + 1, <<>>)
  BY <1>1, NextFits
<1> QED
  BY <1>1, <1>2, <1>3, <1>4, <1>5, <1>6 DEF Inst

(* GOTO, IF. *)
LEMMA JumpSound ==
    ASSUME SoundInv, prog.typed, OP_JUMP \/ OP_JUMP_IF
    PROVE  SoundStep
<1>1. CanExecute /\ Inst.op \in JumpOps /\ Inst.op \in ControlOps
      /\ Inst.op \notin OnOps
  BY DEF OP_JUMP, OP_JUMP_IF, Executing, ExecutingOneOf, JumpOps, ControlOps, OnOps
<1>2. /\ Continues(vm) /\ vm.pc \in Nat
      /\ Inst.arg \in Nat /\ Fits(Inst.arg, <<>>) /\ Fits(vm.pc + 1, <<>>)
  BY <1>1, ControlOperands
<1>3. CASE OP_JUMP
  <2>1. Inst.op \in NoEffectOps /\ Commit(SetPc(vm, Inst.arg))
    BY <1>3 DEF OP_JUMP, Executing, NoEffectOps
  <2>2. Follows(vm, vm, <<>>, 0)
    BY <1>1, <2>1, ControlOperands
  <2> QED
    BY <1>2, <2>1, <2>2, GotoSound
<1>4. CASE OP_JUMP_IF
  <2> DEFINE cond == vm_pop_number(vm)
  <2>1. Inst.op \in TakeNumOps
    BY <1>4 DEF OP_JUMP_IF, ExecutingOneOf, TakeNumOps
  <2>2. Follows(cond.m, vm, <<>>, 0) /\ cond.m.pc = vm.pc
    BY <1>1, <2>1, ControlOperands DEF Follows
  <2>3. Commit(SetPc(cond.m, Inst.arg)) \/ Commit(SetPc(cond.m, vm.pc + 1))
    BY <1>4, <2>2 DEF OP_JUMP_IF, Advance
  <2> HIDE DEF cond
  <2>4. vm.pc + 1 \in Nat
    BY <1>2
  <2> QED
    BY <1>2, <2>2, <2>3, <2>4, GotoSound
<1> QED
  BY <1>3, <1>4

(* A return address pushed on both sides. *)
LEMMA CallFollows ==
    ASSUME NEW m, NEW k, NEW s, NEW n \in Int, Follows(m, k, s, n), NEW r \in Nat
    PROVE  Follows(vm_call_push(m, r), vm_call_push(k, r), s, n)
<1> DEFINE longer == Append(k.callStack, r)
<1>1. k \in Machine /\ m.callStack = k.callStack
  BY DEF Follows
<1>2. longer \in Seq(Nat)
  BY <1>1, MachineFields
<1>3. /\ vm_call_push(m, r) = [m EXCEPT !.callStack = longer]
      /\ vm_call_push(k, r) = [k EXCEPT !.callStack = longer]
  BY <1>1 DEF vm_call_push
<1> HIDE DEF longer
<1> QED
  BY <1>2, <1>3, FieldFollows

(* One that RETURN may go to. *)
LEMMA CallContinues ==
    ASSUME Continues(vm), NEW r \in Nat, ReturnAddress(prog, r)
    PROVE  Continues(vm_call_push(vm, r))
<1> DEFINE k == vm_call_push(vm, r)
<1>1. vm \in Machine /\ vm.callStack \in Seq(Nat) /\ ControlFits(vm)
  BY MachineFields DEF Continues
<1>2. k \in Machine
  BY <1>1, CallType
<1>3. /\ k.callStack = Append(vm.callStack, r)
      /\ k.running = vm.running /\ k.forStack = vm.forStack
      /\ k.trapEnabled = vm.trapEnabled /\ k.trapLine = vm.trapLine
      /\ k.errorCode = vm.errorCode /\ k.heap = vm.heap /\ k.stack = vm.stack
  BY <1>1 DEF vm_call_push, Machine
<1> HIDE DEF k
<1>4. \A i \in DOMAIN k.callStack : ReturnAddress(prog, k.callStack[i])
  <2>1. \A i \in DOMAIN Append(vm.callStack, r) :
           \/ i \in DOMAIN vm.callStack
              /\ Append(vm.callStack, r)[i] = vm.callStack[i]
           \/ Append(vm.callStack, r)[i] = r
    BY <1>1
  <2> QED
    BY <1>1, <1>3, <2>1 DEF ControlFits
<1>5. ControlFits(k)
  BY <1>1, <1>3, <1>4 DEF ControlFits
<1> QED
  BY <1>2, <1>3, <1>5 DEF Continues, Balance, k

(* GOTO and GOSUB of a computed line: the offset of a line is the start of *)
(* a statement, and what follows the GOSUB is too.                         *)
LEMMA LineSound ==
    ASSUME SoundInv, prog.typed, OP_JUMP_LINE \/ OP_GOSUB_LINE
    PROVE  SoundStep
<1> DEFINE p == vm_pop_number(vm)
           offsets == LineOffsets(p.v % 65536)
<1>1. /\ CanExecute /\ Inst.op \in {"JUMP_LINE", "GOSUB_LINE"}
      /\ Inst.op \in TakeNumOps /\ Inst.op \in ControlOps
      /\ Inst.op \notin OnOps /\ Inst.op \notin JumpOps
  BY DEF OP_JUMP_LINE, OP_GOSUB_LINE, Executing, TakeNumOps, ControlOps, OnOps, JumpOps
<1>2. /\ vm.running /\ Continues(vm) /\ vm.pc \in Nat
      /\ vm.pc + 1 \in DOMAIN prog.code /\ Inst = prog.code[vm.pc + 1]
      /\ Follows(p.m, vm, <<>>, 0)
  BY <1>1, ControlOperands
<1>3. p.m.pc = vm.pc /\ vm.pc + 1 \in Nat
  BY <1>2 DEF Follows
<1>4. \A offset \in offsets : offset \in Nat /\ Fits(offset, <<>>)
  <2>1. \A offset \in offsets : StatementStart(prog, offset)
    BY TypedProgram DEF WellTyped, LineOffsets
  <2>2. \A offset \in offsets : offset \in Nat
    BY TypedProgram DEF WellFormed, LineOffsets
  <2> QED
    BY <2>1, <2>2, StartFits
<1> HIDE DEF p, offsets
<1>5. CASE offsets = {}
  <2>1. Commit(vm_error(p.m, ERR_UNDEFINED_LINE))
    BY <1>5 DEF OP_JUMP_LINE, OP_GOSUB_LINE, p, offsets
  <2>2. ERR_UNDEFINED_LINE \in ErrorCode
        /\ ERR_UNDEFINED_LINE \notin {ERR_NONE, ERR_OVERFLOW, ERR_TYPE_MISMATCH}
    BY DEF ErrorCode, ERR_UNDEFINED_LINE, ERR_NONE, ERR_OVERFLOW, ERR_TYPE_MISMATCH
  <2> QED
    BY <1>2, <2>1, <2>2, ErrorSound
<1>6. CASE offsets # {} /\ OP_JUMP_LINE
  <2>1. PICK offset \in offsets : Commit(SetPc(p.m, offset))
    BY <1>6 DEF OP_JUMP_LINE, p, offsets
  <2> QED
    BY <1>2, <1>4, <2>1, GotoSound
<1>7. CASE offsets # {} /\ OP_GOSUB_LINE
  <2>1. PICK offset \in offsets :
           Commit(SetPc(vm_call_push(p.m, vm.pc + 1), offset))
    BY <1>3, <1>7 DEF OP_GOSUB_LINE, p, offsets
  <2>2. ReturnAddress(prog, vm.pc + 1)
    BY <1>2, <1>7 DEF ReturnAddress, OP_GOSUB_LINE, Executing
  <2>3. Continues(vm_call_push(vm, vm.pc + 1))
    BY <1>2, <1>3, <2>2, CallContinues
  <2>4. Follows(vm_call_push(p.m, vm.pc + 1), vm_call_push(vm, vm.pc + 1), <<>>, 0)
    BY <1>2, <1>3, CallFollows
  <2> QED
    BY <1>4, <2>1, <2>3, <2>4, GotoSound
<1> QED
  BY <1>5, <1>6, <1>7

(* GOSUB. *)
LEMMA GosubSound ==
    ASSUME SoundInv, prog.typed, OP_GOSUB
    PROVE  SoundStep
<1>1. CanExecute /\ Inst.op = "GOSUB"
      /\ Inst.op \in JumpOps /\ Inst.op \in ControlOps /\ Inst.op \in NoEffectOps
  BY DEF OP_GOSUB, Executing, JumpOps, ControlOps, NoEffectOps
<1>2. /\ Continues(vm) /\ vm.pc \in Nat
      /\ vm.pc + 1 \in DOMAIN prog.code /\ Inst = prog.code[vm.pc + 1]
      /\ Inst.arg \in Nat /\ Fits(Inst.arg, <<>>)
      /\ Follows(vm, vm, <<>>, 0)
  BY <1>1, ControlOperands
<1>3. vm.pc + 1 \in Nat /\ ReturnAddress(prog, vm.pc + 1)
  BY <1>1, <1>2 DEF ReturnAddress
<1>4. Continues(vm_call_push(vm, vm.pc + 1))
  BY <1>2, <1>3, CallContinues
<1>5. Follows(vm_call_push(vm, vm.pc + 1), vm_call_push(vm, vm.pc + 1), <<>>, 0)
  BY <1>2, <1>3, CallFollows
<1>6. Commit(SetPc(vm_call_push(vm, vm.pc + 1), Inst.arg))
  BY DEF OP_GOSUB
<1> QED
  BY <1>2, <1>4, <1>5, <1>6, GotoSound

(* A return address popped: the machine continues, and the address is the  *)
(* start of a statement.                                                   *)
LEMMA CallPopped ==
    ASSUME SoundInv, prog.typed, Continues(vm), vm.callStack # <<>>,
           NEW s, Follows(vm, vm, s, 0)
    PROVE  LET p == vm_call_pop(vm)
           IN  /\ Continues(p.m) /\ Follows(p.m, p.m, s, 0) /\ p.m.pc = vm.pc
               /\ p.v \in Nat /\ Fits(p.v, <<>>)
<1> DEFINE p == vm_call_pop(vm)
           n == Len(vm.callStack) - 1
           front == SubSeq(vm.callStack, 1, n)
<1>1. vm \in Machine /\ vm.callStack \in Seq(Nat) /\ ControlFits(vm)
  BY MachineFields DEF Continues
<1>2. p.m \in Machine /\ p.v \in Nat
  BY <1>1, CallType
<1>3. p.m = [vm EXCEPT !.callStack = front] /\ p.v = vm.callStack[Len(vm.callStack)]
  BY DEF vm_call_pop
<1>4. /\ Len(vm.callStack) \in DOMAIN vm.callStack
      /\ \A i \in DOMAIN front : i \in DOMAIN vm.callStack /\ front[i] = vm.callStack[i]
  BY <1>1
<1> HIDE DEF p, front
<1>5. /\ p.m.callStack = front
      /\ p.m.running = vm.running /\ p.m.forStack = vm.forStack
      /\ p.m.trapEnabled = vm.trapEnabled /\ p.m.trapLine = vm.trapLine
      /\ p.m.errorCode = vm.errorCode /\ p.m.pc = vm.pc
      /\ p.m.heap = vm.heap /\ p.m.stack = vm.stack
  BY <1>1, <1>3 DEF Machine
<1>6. ControlFits(p.m)
  BY <1>1, <1>4, <1>5 DEF ControlFits
<1>7. Continues(p.m)
  BY <1>2, <1>5, <1>6 DEF Continues, Balance
<1>8. Follows(p.m, p.m, s, 0)
  <2>1. Types(p.m.stack) = s
    BY <1>5 DEF Follows
  <2> QED
    BY <1>2, <2>1, FollowsSelf
<1>9. Fits(p.v, <<>>)
  <2>1. ReturnAddress(prog, p.v)
    BY <1>1, <1>3, <1>4 DEF ControlFits
  <2>2. StatementStart(prog, p.v)
    BY <2>1, TypedProgram, ReturnStart
  <2> QED
    BY <2>2, StartFits
<1> QED
  BY <1>2, <1>5, <1>7, <1>8, <1>9 DEF p

(* POP. *)
LEMMA PopGosubSound ==
    ASSUME SoundInv, prog.typed, OP_POP_GOSUB
    PROVE  SoundStep
<1> DEFINE s == Types(vm.stack)
<1>1. CanExecute /\ Inst.op \in NoEffectOps /\ Inst.op \notin OnOps
  BY DEF OP_POP_GOSUB, Executing, NoEffectOps, OnOps
<1>2. /\ vm.running /\ vm.pc \in Nat /\ Follows(vm, vm, s, 0) /\ ControlFits(vm)
      /\ Leaves(Inst.op, s) = s
  BY <1>1, Verified, LeavesWhat
<1>3. Continues(vm) /\ Fits(vm.pc + 1, s) /\ vm.pc + 1 \in Nat
  BY <1>1, <1>2, NextFits DEF Continues, Follows
<1> HIDE DEF s
<1>4. CASE vm.callStack = <<>>
  <2>1. Commit(SetPc(vm, vm.pc + 1))
    BY <1>4 DEF OP_POP_GOSUB, Advance
  <2> QED
    BY <1>2, <1>3, <2>1, GotoSound
<1>5. CASE vm.callStack # <<>>
  <2> DEFINE p == vm_call_pop(vm)
  <2>1. Continues(p.m) /\ Follows(p.m, p.m, s, 0) /\ p.m.pc = vm.pc
    BY <1>2, <1>3, <1>5, CallPopped
  <2>2. Commit(SetPc(p.m, vm.pc + 1))
    BY <1>5, <2>1 DEF OP_POP_GOSUB, Advance
  <2> HIDE DEF p
  <2> QED
    BY <1>3, <2>1, <2>2, GotoSound
<1> QED
  BY <1>4, <1>5

(* RETURN, which with an empty stack and an armed trap starts the program  *)
(* again.                                                                  *)
LEMMA ReturnSound ==
    ASSUME SoundInv, prog.typed, OP_RETURN
    PROVE  SoundStep
<1>1. CanExecute /\ Inst.op = "RETURN"
      /\ Inst.op \in ControlOps /\ Inst.op \in NoEffectOps
  BY DEF OP_RETURN, Executing, ControlOps, NoEffectOps
<1>2. /\ Continues(vm) /\ vm \in Machine /\ Follows(vm, vm, <<>>, 0) /\ ControlFits(vm)
  BY <1>1, ControlOperands DEF Continues
<1>3. CASE vm.callStack # <<>>
  <2> DEFINE p == vm_call_pop(vm)
  <2>1. Continues(p.m) /\ Follows(p.m, p.m, <<>>, 0) /\ p.v \in Nat /\ Fits(p.v, <<>>)
    BY <1>2, <1>3, CallPopped
  <2>2. Commit(SetPc(p.m, p.v))
    BY DEF OP_RETURN
  <2> HIDE DEF p
  <2> QED
    BY <2>1, <2>2, GotoSound
<1>4. CASE vm.callStack = <<>>
  <2> DEFINE f == vm_error(vm, ERR_RETURN_WITHOUT_GOSUB)
  <2>1. ERR_RETURN_WITHOUT_GOSUB \in ErrorCode
        /\ ERR_RETURN_WITHOUT_GOSUB \notin {ERR_NONE, ERR_OVERFLOW, ERR_TYPE_MISMATCH}
    BY DEF ErrorCode, ERR_RETURN_WITHOUT_GOSUB, ERR_NONE, ERR_OVERFLOW,
           ERR_TYPE_MISMATCH
  <2>2. vm' = EndInstruction(SetPc(f, 0)) /\ prog' = prog
    BY <1>4 DEF OP_RETURN, vm_call_pop, Commit
  <2> HIDE DEF f
  <2>3. /\ f \in Machine /\ f.errorCode = ERR_RETURN_WITHOUT_GOSUB
        /\ Balance(f) = Balance(vm)
        /\ f.callStack = vm.callStack /\ f.forStack = vm.forStack
        /\ f.numVars = vm.numVars /\ f.strVars = vm.strVars
        /\ f.dataPointer = vm.dataPointer /\ f.trapLine = vm.trapLine
        /\ vm.trapEnabled /\ vm.trapLine > 0 =>
              /\ f.running = vm.running /\ f.stack = <<>> /\ f.pc = vm.trapLine
              /\ ~f.trapEnabled /\ f.trapTriggered
        /\ ~(vm.trapEnabled /\ vm.trapLine > 0) =>
              /\ ~f.running
              /\ f.trapEnabled = vm.trapEnabled
              /\ f.trapTriggered = vm.trapTriggered
    BY <1>2, <2>1, ErrorFields DEF f
  <2>4. SetPc(f, 0) \in Machine
    BY <2>3, UpdateType
  <2>5. /\ vm'.pc = 0 /\ vm'.errorCode = ERR_RETURN_WITHOUT_GOSUB
        /\ vm'.running = f.running /\ vm'.stack = f.stack /\ vm'.heap = f.heap
        /\ vm'.callStack = vm.callStack /\ vm'.forStack = vm.forStack
        /\ vm'.numVars = vm.numVars /\ vm'.strVars = vm.strVars
        /\ vm'.dataPointer = vm.dataPointer /\ vm'.trapLine = vm.trapLine
        /\ vm'.trapEnabled = f.trapEnabled
    <3>1. /\ SetPc(f, 0).pc = 0 /\ SetPc(f, 0).errorCode = f.errorCode
          /\ SetPc(f, 0).running = f.running /\ SetPc(f, 0).stack = f.stack
          /\ SetPc(f, 0).heap = f.heap
          /\ SetPc(f, 0).callStack = f.callStack /\ SetPc(f, 0).forStack = f.forStack
          /\ SetPc(f, 0).numVars = f.numVars /\ SetPc(f, 0).strVars = f.strVars
          /\ SetPc(f, 0).dataPointer = f.dataPointer
          /\ SetPc(f, 0).trapLine = f.trapLine
          /\ SetPc(f, 0).trapEnabled = f.trapEnabled
      BY <2>3 DEF SetPc, Machine
    <3> QED
      BY <2>2, <2>3, <2>4, <3>1, EndFields
  <2>6. Balance(vm') = Balance(vm)
    BY <2>3, <2>5 DEF Balance
  <2>7. vm'.trapEnabled => vm.trapEnabled
    BY <2>3, <2>5
  <2>8. ControlFits(vm')
    BY <1>2, <2>1, <2>5, <2>7 DEF ControlFits
  <2>9. vm'.running => Fits(vm'.pc, Types(vm'.stack))
    <3>1. Fits(0, <<>>)
      BY TypedProgram, ProgramStart, StartFits
    <3>2. Types(<<>>) = <<>>
      BY DEF Types
    <3> QED
      BY <2>3, <2>5, <3>1, <3>2
  <2>10. TrapCatchesStep /\ CaughtErrorStep
    BY <1>1, <1>2, <2>1, <2>3, <2>5
       DEF TrapCatchesStep, CaughtErrorStep, Armed, Continues
  <2> QED
    BY <2>2, <2>6, <2>8, <2>9, <2>10 DEF SoundStep, SafeStep, SafeAt
<1> QED
  BY <1>3, <1>4

-----------------------------------------------------------------------------
(* ON.                                                                     *)

(* Where ON goes: to the start of a statement, from the table or after it. *)
LEMMA OnTargets ==
    ASSUME SoundInv, prog.typed, CanExecute, Inst.op \in OnOps
    PROVE  LET index == vm_pop_number(vm)
           IN  /\ Continues(vm) /\ Follows(index.m, vm, <<>>, 0)
               /\ index.v \in 1..Inst.arg =>
                     /\ Target(index.m, index.v) \in Nat
                     /\ Fits(Target(index.m, index.v), <<>>)
               /\ index.m.pc + Inst.arg + 1 \in Nat
               /\ Fits(index.m.pc + Inst.arg + 1, <<>>)
               /\ Inst.op = "ON_GOSUB" =>
                     ReturnAddress(prog, index.m.pc + Inst.arg + 1)
<1> DEFINE index == vm_pop_number(vm)
           i == vm.pc + 1
<1>1. Inst.op \in ControlOps /\ Inst.op \in TakeNumOps
  BY DEF OnOps, ControlOps, TakeNumOps
<1>2. /\ Continues(vm) /\ vm.pc \in Nat
      /\ i \in DOMAIN prog.code /\ Inst = prog.code[i]
      /\ Follows(index.m, vm, <<>>, 0)
  BY <1>1, ControlOperands
<1>3. index.m.pc = vm.pc
  BY <1>2 DEF Follows
<1>4. Inst.arg \in Nat /\ \A k \in 1..Inst.arg : prog.code[i + k].arg \in Nat
  BY InstArg DEF SoundInv
<1>5. \A k \in 1..Inst.arg : StatementStart(prog, prog.code[i + k].arg)
  BY Verified
<1>6. StatementStart(prog, i + Inst.arg)
  BY <1>2, TypedProgram, TableEnd
<1> HIDE DEF index
<1>7. PICK n \in Nat : n = Inst.arg
  BY <1>4
<1>8. index.m.pc + Inst.arg + 1 = i + Inst.arg /\ i + Inst.arg \in Nat
  BY <1>2, <1>3, <1>7
<1>9. ASSUME index.v \in 1..Inst.arg
      PROVE  /\ Target(index.m, index.v) \in Nat
             /\ Fits(Target(index.m, index.v), <<>>)
  <2>1. PICK k \in 1..Inst.arg : k = index.v
    BY <1>9
  <2>2. vm.pc + k + 1 = i + k
    <3>1. k \in Int
      BY <1>7, <2>1
    <3> QED
      BY <1>2, <3>1
  <2>3. Target(index.m, index.v) = prog.code[i + k].arg
    BY <1>3, <2>1, <2>2 DEF Target
  <2> QED
    BY <1>4, <1>5, <2>1, <2>3, StartFits
<1>10. Fits(i + Inst.arg, <<>>)
  BY <1>6, StartFits
<1>11. Inst.op = "ON_GOSUB" => ReturnAddress(prog, i + Inst.arg)
  BY <1>2 DEF ReturnAddress
<1> QED
  BY <1>2, <1>8, <1>9, <1>10, <1>11 DEF index

(* ON GOTO and ON GOSUB, in range and out of it. *)
LEMMA OnSound ==
    ASSUME SoundInv, prog.typed, OP_ON_GOTO \/ OP_ON_GOSUB
    PROVE  SoundStep
<1> DEFINE index == vm_pop_number(vm)
           after == index.m.pc + Inst.arg + 1
           target == Target(index.m, index.v)
<1>1. CanExecute /\ Inst.op \in OnOps
  BY DEF OP_ON_GOTO, OP_ON_GOSUB, Executing, OnOps
<1>2. /\ Continues(vm) /\ Follows(index.m, vm, <<>>, 0)
      /\ index.v \in 1..Inst.arg => target \in Nat /\ Fits(target, <<>>)
      /\ after \in Nat
      /\ Fits(after, <<>>)
      /\ Inst.op = "ON_GOSUB" => ReturnAddress(prog, after)
  BY <1>1, OnTargets
<1>3. AfterTable(index.m) = SetPc(index.m, after) /\ AfterTable(index.m).pc = after
  BY <1>2 DEF AfterTable, SetPc, Follows, Machine
<1>4. \/ Commit(SetPc(index.m, after))
      \/ /\ index.v \in 1..Inst.arg
         /\ Commit(SetPc(index.m, target))
      \/ /\ index.v \in 1..Inst.arg /\ Inst.op = "ON_GOSUB"
         /\ Commit(SetPc(vm_call_push(index.m, after), target))
  <2> HIDE DEF after, target
  <2>1. CASE OP_ON_GOTO
    BY <1>3, <2>1 DEF OP_ON_GOTO, target
  <2>2. CASE OP_ON_GOSUB
    BY <1>3, <2>2 DEF OP_ON_GOSUB, Executing, target
  <2> QED
    BY <2>1, <2>2
<1> HIDE DEF index, after, target
<1>5. CASE Commit(SetPc(index.m, after))
  BY <1>2, <1>5, GotoSound
<1>6. CASE index.v \in 1..Inst.arg /\ Commit(SetPc(index.m, target))
  BY <1>2, <1>6, GotoSound
<1>7. CASE /\ index.v \in 1..Inst.arg /\ Inst.op = "ON_GOSUB"
           /\ Commit(SetPc(vm_call_push(index.m, after), target))
  <2>1. Continues(vm_call_push(vm, after))
    BY <1>2, <1>7, CallContinues
  <2>2. Follows(vm_call_push(index.m, after), vm_call_push(vm, after), <<>>, 0)
    BY <1>2, CallFollows
  <2> QED
    BY <1>2, <1>7, <2>1, <2>2, GotoSound
<1> QED
  BY <1>4, <1>5, <1>6, <1>7

-----------------------------------------------------------------------------
(* FOR and NEXT.                                                           *)

(* FOR takes start, limit and step, and pushes a frame that goes back to   *)
(* the statement after it.                                                 *)
LEMMA ForInitSound ==
    ASSUME SoundInv, prog.typed, OP_FOR_INIT
    PROVE  SoundStep
<1> DEFINE s == Types(vm.stack)
           step == vm_pop_number(vm)
           limit == vm_pop_number(step.m)
           start == vm_pop_number(limit.m)
           state == [var |-> Inst.arg, limit |-> limit.v, step |-> step.v,
                     start |-> start.m.pc + 1]
           assigned == [vm.numVars EXCEPT ![Inst.arg] = start.v]
           loops == Append(vm.forStack, state)
           k == [[vm EXCEPT !.numVars = assigned] EXCEPT !.forStack = loops]
           m == [[start.m EXCEPT !.numVars = assigned] EXCEPT !.forStack = loops]
<1>1. CanExecute /\ Inst.op = "FOR_INIT" /\ Inst.op \in ControlOps
      /\ Inst.op \notin OnOps /\ Inst.arg \in Slot
  BY Operands DEF OP_FOR_INIT, Executing, ControlOps, OnOps
<1>2. /\ Continues(vm) /\ vm.pc \in Nat /\ Fits(vm.pc + 1, <<>>)
      /\ vm.pc + 1 \in DOMAIN prog.code /\ Inst = prog.code[vm.pc + 1]
  BY <1>1, ControlOperands
<1>3. /\ vm \in Machine /\ vm.numVars \in [Slot -> Number]
      /\ vm.forStack \in Seq(ForLoopState) /\ ControlFits(vm)
  BY <1>2, MachineFields DEF Continues
<1>4. /\ Follows(vm, vm, s, 0) /\ TopIs(s, "num") /\ TopIs(Below(s), "num")
      /\ TopIs(Below(Below(s)), "num")
      /\ Below(Below(Below(s))) = <<>>
  <2>1. Follows(vm, vm, s, 0) /\ Takes(Inst.op, s) /\ Leaves(Inst.op, s) = <<>>
    BY <1>1, Verified
  <2> QED
    BY <1>1, <2>1, TakesWhat, LeavesWhat
<1>5. /\ step.v \in Number /\ limit.v \in Number
      /\ Follows(limit.m, vm, Below(Below(s)), 0)
  BY <1>4, TwoNumbers
<1>6. Follows(start.m, vm, <<>>, 0) /\ start.v \in Number
  BY <1>4, <1>5, PopNumberFollows
<1>7. /\ start.m \in Machine /\ start.m.pc = vm.pc
      /\ start.m.numVars = vm.numVars /\ start.m.forStack = vm.forStack
  BY <1>6 DEF Follows
<1>8. Commit(Advance(vm_for_push(
         [start.m EXCEPT !.numVars[Inst.arg] = start.v], state)))
  BY DEF OP_FOR_INIT
<1> HIDE DEF step, limit, start
<1>9. state \in ForLoopState
  <2>1. start.m.pc + 1 \in Nat
    BY <1>2, <1>7
  <2> QED
    BY <1>1, <1>5, <2>1 DEF ForLoopState
<1>10. LoopFrame(prog, state)
  BY <1>1, <1>2, <1>7 DEF LoopFrame
<1>11. vm_for_push([start.m EXCEPT !.numVars[Inst.arg] = start.v], state) = m
  <2> HIDE DEF state
  <2>1. [start.m EXCEPT !.numVars[Inst.arg] = start.v] = [start.m EXCEPT !.numVars = assigned]
    BY <1>7
  <2> HIDE DEF assigned
  <2>2. [start.m EXCEPT !.numVars = assigned].forStack = vm.forStack
    BY <1>7 DEF Machine
  <2> QED
    BY <2>1, <2>2 DEF vm_for_push
<1>12. assigned \in [Slot -> Number] /\ loops \in Seq(ForLoopState)
  BY <1>1, <1>3, <1>6, <1>9
<1>13. \A i \in DOMAIN loops : LoopFrame(prog, loops[i])
  <2> HIDE DEF state
  <2>1. \A i \in DOMAIN loops : \/ i \in DOMAIN vm.forStack /\ loops[i] = vm.forStack[i]
                                \/ loops[i] = state
    BY <1>3, <1>9
  <2> QED
    BY <1>3, <1>10, <2>1 DEF ControlFits
<1> HIDE DEF assigned, loops, state
<1>14. Follows(m, k, <<>>, 0)
  <2> DEFINE m1 == [start.m EXCEPT !.numVars = assigned]
             k1 == [vm EXCEPT !.numVars = assigned]
  <2>1. Follows(m1, k1, <<>>, 0)
    BY <1>6, <1>12, FieldFollows
  <2> HIDE DEF m1, k1
  <2>2. Follows([m1 EXCEPT !.forStack = loops], [k1 EXCEPT !.forStack = loops], <<>>, 0)
    BY <1>12, <2>1, FieldFollows
  <2> QED
    BY <2>2 DEF m1, k1
<1>15. /\ k.callStack = vm.callStack /\ k.forStack = loops
       /\ k.running = vm.running /\ k.pc = vm.pc
       /\ k.trapEnabled = vm.trapEnabled /\ k.trapLine = vm.trapLine
       /\ k.errorCode = vm.errorCode /\ k.heap = vm.heap /\ k.stack = vm.stack
  BY <1>3 DEF Machine
<1>16. k \in Machine /\ m.pc = k.pc
  BY <1>14 DEF Follows
<1> HIDE DEF k, m
<1>17. ControlFits(k)
  BY <1>3, <1>13, <1>15 DEF ControlFits
<1>18. Continues(k)
  BY <1>2, <1>15, <1>16, <1>17 DEF Continues, Balance
<1>19. Commit(SetPc(m, vm.pc + 1)) /\ vm.pc + 1 \in Nat
  BY <1>2, <1>8, <1>11, <1>15, <1>16 DEF Advance
<1> QED
  BY <1>2, <1>14, <1>18, <1>19, GotoSound

(* NEXT: without a loop, of another variable, the last round, another one. *)
LEMMA ForNextSound ==
    ASSUME SoundInv, prog.typed, OP_FOR_NEXT
    PROVE  SoundStep
<1> DEFINE loop == vm_for_top(vm)
           value == vm.numVars[loop.var] + loop.step
           stepped == [vm EXCEPT !.numVars[loop.var] = value]
<1>1. CanExecute /\ Inst.op \in ControlOps /\ Inst.op \in NoEffectOps
      /\ Inst.op \notin OnOps
  BY DEF OP_FOR_NEXT, Executing, ControlOps, NoEffectOps, OnOps
<1>2. /\ vm.running /\ Continues(vm) /\ vm.pc \in Nat /\ Fits(vm.pc + 1, <<>>)
      /\ Follows(vm, vm, <<>>, 0)
  BY <1>1, ControlOperands
<1>3. /\ vm \in Machine /\ vm.numVars \in [Slot -> Number]
      /\ vm.forStack \in Seq(ForLoopState) /\ ControlFits(vm)
  BY <1>2, MachineFields DEF Continues
<1>4. CASE Commit(vm_error(vm, ERR_NEXT_WITHOUT_FOR))
  <2>1. ERR_NEXT_WITHOUT_FOR \in ErrorCode
        /\ ERR_NEXT_WITHOUT_FOR \notin {ERR_NONE, ERR_OVERFLOW, ERR_TYPE_MISMATCH}
    BY DEF ErrorCode, ERR_NEXT_WITHOUT_FOR, ERR_NONE, ERR_OVERFLOW, ERR_TYPE_MISMATCH
  <2> QED
    BY <1>2, <1>4, <2>1, ErrorSound
<1>5. CASE Commit(vm_error(vm, ERR_FOR_NEXT_MISMATCH))
  <2>1. ERR_FOR_NEXT_MISMATCH \in ErrorCode
        /\ ERR_FOR_NEXT_MISMATCH \notin {ERR_NONE, ERR_OVERFLOW, ERR_TYPE_MISMATCH}
    BY DEF ErrorCode, ERR_FOR_NEXT_MISMATCH, ERR_NONE, ERR_OVERFLOW, ERR_TYPE_MISMATCH
  <2> QED
    BY <1>2, <1>5, <2>1, ErrorSound
<1>6. CASE /\ vm.forStack # <<>> /\ value \in Number
           /\ \/ Commit(Advance(vm_for_pop(stepped)))
              \/ Commit(SetPc(stepped, loop.start))
  <2> DEFINE assigned == [vm.numVars EXCEPT ![loop.var] = value]
             n == Len(vm.forStack) - 1
             front == SubSeq(vm.forStack, 1, n)
             popped == [stepped EXCEPT !.forStack = front]
  <2>1. /\ Len(vm.forStack) \in DOMAIN vm.forStack
        /\ front \in Seq(ForLoopState)
        /\ \A i \in DOMAIN front : i \in DOMAIN vm.forStack /\ front[i] = vm.forStack[i]
        /\ loop = vm.forStack[Len(vm.forStack)] /\ loop \in ForLoopState
    BY <1>3, <1>6 DEF vm_for_top
  <2>2. loop.var \in Slot /\ loop.start \in Nat
    BY <2>1 DEF ForLoopState
  <2>3. Fits(loop.start, <<>>)
    <3>1. LoopFrame(prog, loop)
      BY <1>3, <2>1 DEF ControlFits
    <3> QED
      BY <3>1, TypedProgram, ReturnStart, StartFits
  <2>4. assigned \in [Slot -> Number]
    BY <1>3, <1>6, <2>2
  <2>5. stepped = [vm EXCEPT !.numVars = assigned]
    OBVIOUS
  <2> HIDE DEF assigned, loop, value, stepped, front
  <2>6. /\ stepped \in Machine
        /\ stepped.callStack = vm.callStack /\ stepped.forStack = vm.forStack
        /\ stepped.running = vm.running /\ stepped.pc = vm.pc
        /\ stepped.trapEnabled = vm.trapEnabled /\ stepped.trapLine = vm.trapLine
        /\ stepped.errorCode = vm.errorCode
        /\ stepped.heap = vm.heap /\ stepped.stack = vm.stack
    <3>1. stepped \in Machine
      BY <1>3, <2>4, <2>5, FieldType
    <3> QED
      BY <1>3, <2>5, <3>1 DEF Machine
  <2>7. Continues(stepped)
    BY <1>2, <1>3, <2>6 DEF Continues, ControlFits, Balance
  <2>8. Types(vm.stack) = <<>>
    BY <1>2 DEF Follows
  <2>9. Follows(stepped, stepped, <<>>, 0)
    <3>1. Types(stepped.stack) = <<>>
      BY <2>6, <2>8
    <3> QED
      BY <2>6, <3>1, FollowsSelf
  <2>10. CASE Commit(SetPc(stepped, loop.start))
    BY <2>2, <2>3, <2>7, <2>9, <2>10, GotoSound
  <2>11. CASE Commit(Advance(vm_for_pop(stepped)))
    <3>1. popped \in Machine
      BY <2>1, <2>6, FieldType
    <3>2. /\ popped.callStack = vm.callStack /\ popped.forStack = front
          /\ popped.running = vm.running /\ popped.pc = vm.pc
          /\ popped.trapEnabled = vm.trapEnabled /\ popped.trapLine = vm.trapLine
          /\ popped.errorCode = vm.errorCode
          /\ popped.heap = vm.heap /\ popped.stack = vm.stack
      BY <2>6 DEF Machine
    <3>3. ControlFits(popped)
      BY <1>3, <2>1, <3>2 DEF ControlFits
    <3>4. vm_for_pop(stepped) = popped
      BY <1>6, <2>6 DEF vm_for_pop, front
    <3> HIDE DEF popped
    <3>5. Continues(popped)
      BY <1>2, <3>1, <3>2, <3>3 DEF Continues, Balance
    <3>6. Follows(popped, popped, <<>>, 0)
      <4>1. Types(popped.stack) = <<>>
        BY <2>8, <3>2
      <4> QED
        BY <3>1, <4>1, FollowsSelf
    <3>7. Commit(SetPc(popped, vm.pc + 1)) /\ vm.pc + 1 \in Nat
      BY <1>2, <2>11, <3>2, <3>4 DEF Advance
    <3> QED
      BY <1>2, <3>5, <3>6, <3>7, GotoSound
  <2> QED
    BY <1>6, <2>10, <2>11
<1>7. \/ Commit(vm_error(vm, ERR_NEXT_WITHOUT_FOR))
      \/ Commit(vm_error(vm, ERR_FOR_NEXT_MISMATCH))
      \/ /\ vm.forStack # <<>> /\ value \in Number
         /\ \/ Commit(Advance(vm_for_pop(stepped)))
            \/ Commit(SetPc(stepped, loop.start))
  <2>1. CASE vm.forStack = <<>> \/ Inst.arg \notin {NoVar, loop.var}
    BY <2>1 DEF OP_FOR_NEXT
  <2>2. CASE vm.forStack # <<>> /\ Inst.arg \in {NoVar, loop.var}
    <3>1. /\ value \in Number
          /\ Commit(IF Done(loop, value) THEN Advance(vm_for_pop(stepped))
                                         ELSE SetPc(stepped, loop.start))
      BY <2>2 DEF OP_FOR_NEXT
    <3> HIDE DEF value, loop, stepped
    <3> QED
      BY <2>2, <3>1
  <2> QED
    BY <2>1, <2>2
<1> QED
  BY <1>4, <1>5, <1>6, <1>7

-----------------------------------------------------------------------------
(* TRAP, END.                                                              *)

(* TRAP: the operand is the start of a statement. *)
LEMMA TrapSound ==
    ASSUME SoundInv, prog.typed, OP_TRAP
    PROVE  SoundStep
<1> DEFINE k == [vm EXCEPT !.trapLine = Inst.arg, !.trapEnabled = TRUE]
<1>1. CanExecute /\ Inst.op \in JumpOps /\ Inst.op \in NoEffectOps
      /\ Inst.op \in ControlOps /\ Inst.op \notin OnOps
  BY DEF OP_TRAP, Executing, ControlOps, JumpOps, NoEffectOps, OnOps
<1>2. /\ Continues(vm) /\ vm.pc \in Nat /\ Fits(vm.pc + 1, <<>>)
      /\ Inst.arg \in Nat /\ Follows(vm, vm, <<>>, 0)
  BY <1>1, ControlOperands
<1>3. vm \in Machine /\ ControlFits(vm) /\ StatementStart(prog, Inst.arg)
  BY <1>1, <1>2, Verified DEF Continues
<1>4. k \in Machine
  <2> DEFINE half == [vm EXCEPT !.trapLine = Inst.arg]
  <2>1. half \in Machine
    BY <1>2, <1>3, FieldType
  <2>2. [half EXCEPT !.trapEnabled = TRUE] \in Machine
    <3> HIDE DEF half
    <3> QED
      BY <2>1, FieldType
  <2> QED
    BY <2>2
<1>5. /\ k.callStack = vm.callStack /\ k.forStack = vm.forStack
      /\ k.running = vm.running /\ k.pc = vm.pc
      /\ k.trapEnabled = TRUE /\ k.trapLine = Inst.arg
      /\ k.errorCode = vm.errorCode /\ k.heap = vm.heap /\ k.stack = vm.stack
  BY <1>3 DEF Machine
<1>6. Commit(Advance(k))
  BY DEF OP_TRAP
<1> HIDE DEF k
<1>7. ControlFits(k)
  BY <1>3, <1>5 DEF ControlFits
<1>8. Continues(k)
  BY <1>2, <1>4, <1>5, <1>7 DEF Continues, Balance
<1>9. Follows(k, k, <<>>, 0)
  <2>1. Types(k.stack) = <<>>
    BY <1>2, <1>5 DEF Follows
  <2> QED
    BY <1>4, <2>1, FollowsSelf
<1>10. Commit(SetPc(k, vm.pc + 1)) /\ vm.pc + 1 \in Nat
  BY <1>2, <1>5, <1>6 DEF Advance
<1> QED
  BY <1>2, <1>8, <1>9, <1>10, GotoSound

(* The trap disabled, the program ended: an armed trap is lost, but by the *)
(* statement that says so.                                                 *)
LEMMA StopSound ==
    ASSUME SoundInv, prog.typed, OP_TRAP_DISABLE \/ OP_END
    PROVE  SoundStep
<1> DEFINE s == Types(vm.stack)
<1>1. CanExecute
  BY DEF OP_TRAP_DISABLE, OP_END, Executing, ExecutingOneOf
<1>2. /\ vm.running /\ vm.pc \in Nat /\ ControlFits(vm) /\ vm \in Machine
  BY <1>1, Verified DEF Follows
<1>3. CASE OP_TRAP_DISABLE
  <2> DEFINE k == [vm EXCEPT !.trapEnabled = FALSE]
  <2>1. Inst.op = "TRAP_DISABLE" /\ Inst.op \in NoEffectOps /\ Inst.op \notin OnOps
    BY <1>3 DEF OP_TRAP_DISABLE, Executing, NoEffectOps, OnOps
  <2>2. Fits(vm.pc + 1, s)
    <3>1. Fits(vm.pc + 1, Leaves(Inst.op, s)) /\ Leaves(Inst.op, s) = s
      BY <1>1, <2>1, NextFits, LeavesWhat
    <3> QED
      BY <3>1
  <2>3. vm' = EndInstruction(Advance(k)) /\ prog' = prog
    BY <1>3 DEF OP_TRAP_DISABLE, Commit
  <2>4. k \in Machine
    BY <1>2, FieldType
  <2>5. Advance(k) \in Machine
    BY <2>4, UpdateType
  <2>6. /\ Advance(k).callStack = vm.callStack /\ Advance(k).forStack = vm.forStack
        /\ Advance(k).running = vm.running /\ Advance(k).pc = vm.pc + 1
        /\ Advance(k).trapEnabled = FALSE /\ Advance(k).trapLine = vm.trapLine
        /\ Advance(k).errorCode = vm.errorCode
        /\ Advance(k).heap = vm.heap /\ Advance(k).stack = vm.stack
        /\ Advance(k).numVars = vm.numVars /\ Advance(k).strVars = vm.strVars
        /\ Advance(k).dataPointer = vm.dataPointer
    BY <1>2 DEF Advance, SetPc, Machine
  <2> HIDE DEF k
  <2>7. /\ vm'.callStack = vm.callStack /\ vm'.forStack = vm.forStack
        /\ vm'.running = vm.running /\ vm'.pc = vm.pc + 1
        /\ vm'.trapEnabled = FALSE /\ vm'.trapLine = vm.trapLine
        /\ vm'.errorCode = vm.errorCode
        /\ vm'.heap = vm.heap /\ vm'.stack = vm.stack
        /\ vm'.numVars = vm.numVars /\ vm'.strVars = vm.strVars
        /\ vm'.dataPointer = vm.dataPointer
    BY <2>3, <2>5, <2>6, EndFields
  <2>8. SafeAt(vm') /\ Balance(vm') = Balance(vm)
    BY <1>2, <2>2, <2>7 DEF SafeAt, ControlFits, Balance
  <2>9. TrapCatchesStep /\ CaughtErrorStep
    BY <2>1, <2>7 DEF TrapCatchesStep, CaughtErrorStep
  <2> QED
    BY <2>3, <2>8, <2>9 DEF SoundStep, SafeStep
<1>4. CASE OP_END
  <2> DEFINE k == [vm EXCEPT !.running = FALSE]
  <2>1. Inst.op \in {"END", "STOP", "HALT", "STR_CONCAT"}
        /\ vm' = EndInstruction(k) /\ prog' = prog
    BY <1>4 DEF OP_END, ExecutingOneOf, Commit
  <2>2. k \in Machine
    BY <1>2, FieldType
  <2>3. /\ k.callStack = vm.callStack /\ k.forStack = vm.forStack
        /\ k.running = FALSE
        /\ k.trapEnabled = vm.trapEnabled /\ k.trapLine = vm.trapLine
        /\ k.errorCode = vm.errorCode
        /\ k.heap = vm.heap /\ k.stack = vm.stack
    BY <1>2 DEF Machine
  <2> HIDE DEF k
  <2>4. /\ vm'.callStack = vm.callStack /\ vm'.forStack = vm.forStack
        /\ vm'.running = FALSE
        /\ vm'.trapEnabled = vm.trapEnabled /\ vm'.trapLine = vm.trapLine
        /\ vm'.errorCode = vm.errorCode
        /\ vm'.heap = vm.heap /\ vm'.stack = vm.stack
    BY <2>1, <2>2, <2>3, EndFields
  <2>5. SafeAt(vm') /\ Balance(vm') = Balance(vm)
    BY <1>2, <2>4 DEF SafeAt, ControlFits, Balance
  <2>6. TrapCatchesStep /\ CaughtErrorStep
    BY <2>1, <2>4 DEF TrapCatchesStep, CaughtErrorStep
  <2> QED
    BY <2>1, <2>5, <2>6 DEF SoundStep, SafeStep
<1> QED
  BY <1>3, <1>4

-----------------------------------------------------------------------------
(* The machine as a whole.                                                 *)

(* Every step of a well-typed program is sound, and keeps what the heap    *)
(* holds beside the operand stack.                                         *)
LEMMA NextSound ==
    ASSUME SoundInv, Next, prog.typed
    PROVE  SoundStep
<1>1. CASE ExprStep
  BY <1>1, PushSound, StoreSound, BinarySound, UnarySound, CompareSound,
     SliceSound, NumberFromStringSound, ReadSound, QuietSound DEF ExprStep
<1>2. CASE ControlStep
  BY <1>2, JumpSound, LineSound, GosubSound, ReturnSound, PopGosubSound, OnSound,
     ForInitSound, ForNextSound, TrapSound, StopSound, QuietSound, RandomizeSound
     DEF ControlStep
<1> QED
  BY <1>1, <1>2 DEF Next

(* No handler loads another program. *)
LEMMA NextKeepsProgram ==
    ASSUME Next
    PROVE  prog' = prog
BY SMTT(30) DEF Next, ExprStep, ControlStep, Commit,
       OP_PUSH_CONST, OP_PUSH_VAR, OP_STR_PUSH_VAR, OP_STR_PUSH, OP_POP_VAR,
       OP_STR_POP_VAR, OP_DUP, OP_POP, OP_ADD_SUB_MUL_MOD, OP_DIV, OP_POW, OP_NEG,
       OP_COMPARE, OP_AND_OR, OP_NOT, OP_STR_LEFT_RIGHT, OP_STR_MID, OP_STR_MID_2,
       OP_STR_LEN_ASC_VAL, OP_STR_CHR_STR, OP_FUNC_FLOAT, OP_FUNC_RND,
       OP_FUNC_EXACT, OP_FUNC_DOMAIN, OP_FN_ERR, OP_DATA_READ, OP_RESTORE,
       OP_JUMP, OP_JUMP_IF, OP_JUMP_LINE, OP_GOSUB_LINE, OP_GOSUB, OP_RETURN,
       OP_POP_GOSUB, OP_ON_GOTO, OP_ON_GOSUB, OP_FOR_INIT, OP_FOR_NEXT, OP_TRAP,
       OP_TRAP_DISABLE, OP_END, OP_NOP, OP_RANDOMIZE

(* What the heap holds beside the operand stack: the string of each        *)
(* variable.                                                               *)
BalanceInv == prog.typed => Balance(vm) = Cardinality(Slot)

(* That is the invariant of VM. *)
LEMMA BalanceInvIs == Loaded => (BalanceInv <=> HeapBalanced)
<1> SUFFICES ASSUME Loaded PROVE BalanceInv <=> HeapBalanced
  OBVIOUS
<1>1. vm.stack \in Seq(Value) /\ vm.heap \in Int
  BY MachineFields DEF Loaded, TypeOK
<1>2. StringsOn(vm.stack) \in Nat /\ Cardinality(Slot) \in Nat
  BY <1>1, StringsOnType, SlotCount
<1> QED
  BY <1>1, <1>2 DEF BalanceInv, HeapBalanced, Balance

(* A loaded program is sound: an empty stack, at the start of a statement. *)
LEMMA InitSound == Init => SoundInv /\ BalanceInv
<1> SUFFICES ASSUME Init PROVE SoundInv /\ BalanceInv
  OBVIOUS
<1>1. Loaded
  BY InitInv DEF IInv
<1>2. /\ vm.pc = 0 /\ vm.running /\ vm.stack = <<>> /\ vm.callStack = <<>>
      /\ vm.forStack = <<>> /\ ~vm.trapEnabled /\ vm.errorCode = ERR_NONE
      /\ vm.heap = Cardinality(Slot)
  BY DEF Init, vm_init
<1>3. ASSUME prog.typed PROVE SafeAt(vm)
  <2>1. WellFormed(prog) /\ WellTyped(prog)
    BY <1>3, ProgramAssumption DEF Init
  <2>2. Fits(0, <<>>)
    BY <2>1, ProgramStart, StartFits
  <2>3. Types(<<>>) = <<>>
    BY DEF Types
  <2>4. ControlFits(vm)
    BY <1>2 DEF ControlFits, ERR_NONE, ERR_OVERFLOW, ERR_TYPE_MISMATCH
  <2> QED
    BY <1>2, <2>2, <2>3, <2>4 DEF SafeAt
<1>4. BalanceInv
  BY <1>2, SlotCount, StringsOnEmpty DEF BalanceInv, Balance
<1> QED
  BY <1>1, <1>3, <1>4 DEF SoundInv

(* Every instruction keeps it, and does what it should with the trap.      *)
LEMMA StepSound ==
    SoundInv /\ BalanceInv /\ [Next]_vars =>
        /\ SoundInv' /\ BalanceInv'
        /\ [TrapCatchesStep]_vars /\ [CaughtErrorStep]_vars
<1> SUFFICES ASSUME SoundInv, BalanceInv, [Next]_vars
             PROVE  /\ SoundInv' /\ BalanceInv'
                    /\ [TrapCatchesStep]_vars /\ [CaughtErrorStep]_vars
  OBVIOUS
<1>1. Loaded'
  BY NextLoaded DEF SoundInv
<1>2. CASE UNCHANGED vars
  <2>1. prog' = prog /\ vm' = vm
    BY <1>2 DEF vars
  <2>2. SoundInv' /\ BalanceInv'
    BY <1>1, <2>1 DEF SoundInv, SafeAt, Fits, ControlFits, BalanceInv, Balance
  <2> QED
    BY <1>2, <2>2
<1>3. CASE Next /\ prog.typed
  <2>1. /\ prog' = prog /\ SafeAt(vm') /\ Balance(vm') = Balance(vm)
        /\ TrapCatchesStep /\ CaughtErrorStep
    BY <1>3, NextSound DEF SoundStep, SafeStep
  <2>2. SafeAt(vm)'
    BY <2>1 DEF SafeAt, Fits, ControlFits
  <2>3. BalanceInv'
    BY <1>3, <2>1 DEF BalanceInv, Balance
  <2> QED
    BY <1>1, <2>1, <2>2, <2>3 DEF SoundInv
<1>4. CASE Next /\ ~prog.typed
  <2>1. prog' = prog
    BY <1>4, NextKeepsProgram
  <2>2. TrapCatchesStep /\ CaughtErrorStep
    BY <1>4 DEF TrapCatchesStep, CaughtErrorStep
  <2> QED
    BY <1>1, <1>4, <2>1, <2>2 DEF SoundInv, BalanceInv
<1> QED
  BY <1>2, <1>3, <1>4

(* The inductive invariant, for every program. *)
THEOREM SoundInvariantHolds == Spec => [](SoundInv /\ BalanceInv)
BY InitSound, StepSound, PTL DEF Spec

(* The operand stack: whenever a program that the verifier passes runs,    *)
(* the stack has the shape the verifier computed for the instruction at    *)
(* pc, whatever jumps, loops, subroutines, errors and traps led there.     *)
THEOREM StackIsSound == Spec => []StackSound
<1>1. SoundInv => StackSound
  BY SoundInvIs
<1> QED
  BY <1>1, SoundInvariantHolds, PTL

(* The control stacks and the trap lead only to places GOSUB, FOR and TRAP *)
(* have set.                                                               *)
THEOREM ControlIsSound == Spec => []ControlSound
<1>1. SoundInv => ControlSound
  BY SoundInvIs
<1> QED
  BY <1>1, SoundInvariantHolds, PTL

(* No stack underflow and no type mismatch, so the handlers that do not    *)
(* test trap_triggered after a pop never need to.                          *)
THEOREM TypesNeverMismatch == Spec => []NoTypeError
<1>1. SoundInv => NoTypeError
  BY SoundInvIs
<1> QED
  BY <1>1, SoundInvariantHolds, PTL

(* Every string is accounted for: no leak, no double free.                 *)
THEOREM HeapIsBalanced == Spec => []HeapBalanced
<1>1. SoundInv /\ BalanceInv => HeapBalanced
  BY BalanceInvIs DEF SoundInv
<1> QED
  BY <1>1, SoundInvariantHolds, PTL

(* An armed trap is lost only to an error that reaches its line with an    *)
(* empty stack, to TRAP_DISABLE, to the end of the program, and in the one *)
(* known way, a RETURN without GOSUB.                                      *)
THEOREM TrapsCatch == Spec => TrapCatches
<1>1. SoundInv /\ BalanceInv /\ [Next]_vars => [TrapCatchesStep]_vars
  BY StepSound
<1> QED
  BY <1>1, SoundInvariantHolds, PTL DEF Spec, TrapCatches

(* A caught error changes no variable and no control stack.                *)
THEOREM CaughtErrorsKeepState == Spec => CaughtErrorKeepsState
<1>1. SoundInv /\ BalanceInv /\ [Next]_vars => [CaughtErrorStep]_vars
  BY StepSound
<1> QED
  BY <1>1, SoundInvariantHolds, PTL DEF Spec, CaughtErrorKeepsState
=============================================================================
