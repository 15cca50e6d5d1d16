------------------------- MODULE CompilerSoundProofs -------------------------
(***************************************************************************)
(* The references of a source, and what becomes of them in its code.       *)
(***************************************************************************)
EXTENDS CompilerProofs

-----------------------------------------------------------------------------
(* The references of a statement and of the calls that compile it.         *)

Ref == [k : {"skip"}] \cup [k : {"num"}, val : Word]

(* Sequences put together, in either order.                                *)
LEMMA JoinThree ==
    ASSUME NEW S, NEW p \in Seq(S), NEW q \in Seq(S), NEW r \in Seq(S)
    PROVE  /\ p \o <<>> = p /\ p \o q \in Seq(S) /\ (p \o q) \o r \in Seq(S)
           /\ (p \o q) \o r = p \o (q \o r)
OBVIOUS

(* A reference to a line has the line's number, and is no jump over ELSE.  *)
LEMMA RefFields ==
    /\ Skip \in Ref /\ Skip.k = "skip"
    /\ \A n \in Word : LineNumber(n) \in Ref
    /\ \A n : LineNumber(n).val = n /\ LineNumber(n) # Skip
    /\ \A r \in Ref : r # Skip => r.k = "num" /\ r.val \in Word /\ r = LineNumber(r.val)
<1>1. Skip \in Ref /\ Skip.k = "skip"
  BY DEF Ref, Skip
<1>2. \A n \in Word : LineNumber(n) \in Ref
  BY DEF Ref, LineNumber
<1>3. \A n : LineNumber(n).val = n /\ LineNumber(n).k = "num"
  BY DEF LineNumber
<1>4. ASSUME NEW r \in Ref, r # Skip
      PROVE  r.k = "num" /\ r.val \in Word /\ r = LineNumber(r.val)
  BY <1>4 DEF Ref, Skip, LineNumber
<1> QED
  BY <1>1, <1>2, <1>3, <1>4

(* The table of an ON: a reference for each constant among the targets.    *)
LEMMA TableTyped ==
    ASSUME PlainReferences, NEW s \in StatementTree, s.k = "on"
    PROVE  /\ ConstantTargets(s) \in Seq(ParseTree) /\ Len(ConstantTargets(s)) \in Nat
           /\ DOMAIN ConstantTargets(s) = 1..Len(ConstantTargets(s))
           /\ \A i \in 1..Len(ConstantTargets(s)) :
                 ConstantTargets(s)[i].val \in Word /\ ConstantTargets(s)[i].val \in Int
<1> DEFINE C == {e \in ParseTree : IsConstant(e) /\ \E j \in DOMAIN s.targets : e = s.targets[j]}
           ct == ConstantTargets(s)
<1>1. s.targets \in Seq(ParseTree)
  BY SyntaxAssumption DEF IsStatement
<1>2. ct \in Seq(C)
  BY <1>1, ConstantTargetsTyped
<1>3. \A e \in C : e \in ParseTree /\ e.val \in Word /\ e.val \in Int
  <2>1. ASSUME NEW e \in C PROVE e \in ParseTree /\ e.val \in Word /\ e.val \in Int
    <3>1. e \in ParseTree /\ e.k = "num"
      BY DEF IsConstant
    <3>2. PICK j \in DOMAIN s.targets : e = s.targets[j]
      OBVIOUS
    <3>3. \A i \in DOMAIN s.targets : s.targets[i].k = "num" => s.targets[i].val \in Word
      BY DEF PlainReferences
    <3> QED
      BY <3>1, <3>2, <3>3, ConstantTyped
  <2> QED
    BY <2>1
<1> HIDE DEF C, ct
<1>4. Len(ct) \in Nat /\ DOMAIN ct = 1..Len(ct) /\ \A i \in 1..Len(ct) : ct[i] \in C
  BY <1>2, SeqTyped
<1>5. ct \in Seq(ParseTree)
  <2>1. C \subseteq ParseTree
    BY <1>3
  <2> QED
    BY <1>2, <2>1
<1> QED
  BY <1>3, <1>4, <1>5 DEF ct

(* The references that a statement makes itself.                           *)
LEMMA OwnTyped ==
    ASSUME PlainReferences, NEW s \in StatementTree
    PROVE  OwnReferences(s) \in Seq(Ref)
<1>1. IsStatement(s)
  BY SyntaxAssumption
<1>2. CASE s.k \in {"line", "trap"}
  <2>1. s.line \in Word
    BY <1>2 DEF PlainReferences
  <2>2. LineNumber(s.line) \in Ref
    BY <2>1, RefFields
  <2>3. OwnReferences(s) = <<LineNumber(s.line)>>
    BY <1>2 DEF OwnReferences
  <2> QED
    BY <2>2, <2>3
<1>3. CASE s.k \in {"goto", "gosub"}
  <2>1. CASE s.target.k = "num"
    <3>1. s.target.val \in Word
      BY <1>3, <2>1 DEF PlainReferences
    <3>2. LineNumber(s.target.val) \in Ref
      BY <3>1, RefFields
    <3>3. OwnReferences(s) = <<LineNumber(s.target.val)>>
      BY <1>3, <2>1 DEF OwnReferences
    <3> QED
      BY <3>2, <3>3
  <2>2. CASE s.target.k # "num"
    BY <1>3, <2>2 DEF OwnReferences
  <2> QED
    BY <2>1, <2>2
<1>4. CASE s.k = "on"
  <2> DEFINE ct == ConstantTargets(s)
  <2>1. Len(ct) \in Nat /\ DOMAIN ct = 1..Len(ct) /\ \A i \in 1..Len(ct) : ct[i].val \in Word
    BY <1>4, TableTyped
  <2>2. OwnReferences(s) = [i \in DOMAIN ct |-> LineNumber(ct[i].val)]
    BY <1>4 DEF OwnReferences
  <2> HIDE DEF ct
  <2>3. \A i \in 1..Len(ct) : LineNumber(ct[i].val) \in Ref
    BY <2>1, RefFields
  <2> QED
    BY <2>1, <2>2, <2>3
<1>5. CASE s.k \notin {"line", "trap", "goto", "gosub", "on"}
  BY <1>5 DEF OwnReferences
<1> QED
  BY <1>2, <1>3, <1>4, <1>5

(* The references of the statements within an IF.                          *)
LEMMA IfReferences ==
    ASSUME NEW s \in StatementTree, s.k = "if"
    PROVE  References[s] = FlattenSeq([i \in DOMAIN s.then |-> References[s.then[i]]])
                           \o (IF s.else = <<>> THEN <<>>
                               ELSE <<Skip>> \o References[s.else[1]])
BY ReferencesUnfold DEF ReferencesFrom

(* All references of a statement.                                          *)
LEMMA ReferencesTyped ==
    ASSUME PlainReferences, NEW s \in StatementTree
    PROVE  References[s] \in Seq(Ref)
<1> DEFINE G == {n \in Nat : \A t \in StatementTree : Depth[t] < n => References[t] \in Seq(Ref)}
<1>1. \A t \in StatementTree : Depth[t] \in Nat
  BY SyntaxAssumption
<1>2. 0 \in G
  BY <1>1
<1>3. ASSUME NEW n \in Nat, n \in G PROVE n + 1 \in G
  <2> SUFFICES ASSUME NEW t \in StatementTree, Depth[t] < n + 1 PROVE References[t] \in Seq(Ref)
    OBVIOUS
  <2>1. ASSUME NEW u \in StatementTree, Depth[u] < Depth[t] PROVE References[u] \in Seq(Ref)
    BY <1>1, <1>3, <2>1
  <2>2. CASE t.k = "if"
    <3> DEFINE C == [i \in DOMAIN t.then |-> References[t.then[i]]]
               skip == IF t.else = <<>> THEN <<>> ELSE <<Skip>> \o References[t.else[1]]
    <3>1. C \in Seq(Seq(Ref))
      <4>1. t.then \in Seq(StatementTree)
        BY <2>2, IfParts
      <4>2. DOMAIN t.then = 1..Len(t.then) /\ Len(t.then) \in Nat
        BY <4>1
      <4>3. \A i \in 1..Len(t.then) : References[t.then[i]] \in Seq(Ref)
        BY <2>1, <2>2, IfParts
      <4> QED
        BY <4>2, <4>3
    <3>2. FlattenSeq(C) \in Seq(Ref)
      <4> HIDE DEF C
      <4>1. PICK F \in [0..Len(C) -> Seq(Ref)] : FlattenSeq(C) = F[Len(C)]
        BY <3>1, FlattenPrefixes
      <4>2. Len(C) \in 0..Len(C)
        BY <3>1
      <4> QED
        BY <4>1, <4>2
    <3>3. skip \in Seq(Ref)
      <4>1. t.else # <<>> => References[t.else[1]] \in Seq(Ref)
        BY <2>1, <2>2, IfParts
      <4>2. <<Skip>> \in Seq(Ref)
        BY RefFields
      <4> QED
        BY <4>1, <4>2
    <3>4. References[t] = FlattenSeq(C) \o skip
      BY <2>2, IfReferences
    <3> HIDE DEF C, skip
    <3> QED
      BY <3>2, <3>3, <3>4
  <2>3. CASE t.k # "if"
    BY <2>3, OwnTyped, ReferencesUnfold DEF ReferencesFrom
  <2> QED
    BY <2>2, <2>3
<1>4. Depth[s] + 1 \in Nat /\ Depth[s] < Depth[s] + 1
  BY <1>1
<1> HIDE DEF G
<1>5. Depth[s] + 1 \in G
  BY <1>2, <1>3, <1>4, SetInduction
<1> QED
  BY <1>4, <1>5 DEF G

(* The references that a call will have made when all that it calls has    *)
(* been done.                                                              *)
CallRefs(c) ==
    CASE c.call = "emit" -> IF c.op = "JUMP" THEN <<Skip>> ELSE <<>>
      [] c.call = "reference" -> <<LineNumber(c.number)>>
      [] c.call \in {"statement", "then"} -> References[c.stmt]
      [] c.call = "else" -> IF c.stmt.else = <<>> THEN <<>>
                            ELSE <<Skip>> \o References[c.stmt.else[1]]
      [] OTHER -> <<>>

(* The references before a call, and after it. *)
RefStep == {x \in CallType \X Seq(Ref) \X Seq(Ref) :
              /\ x[3] = x[2] \o CallRefs(x[1])
              /\ x[1].call = "reference" => x[1].number \in Word}

(* The members of that set.                                                *)
LEMMA RefStepIs ==
    ASSUME NEW c, NEW s, NEW u
    PROVE  <<c, s, u>> \in RefStep <=>
              /\ c \in CallType /\ s \in Seq(Ref) /\ u \in Seq(Ref)
              /\ u = s \o CallRefs(c)
              /\ c.call = "reference" => c.number \in Word
BY DEF RefStep

(* A quiet call makes none.                                                *)
LEMMA QuietRefs ==
    ASSUME NEW c \in QuietCall
    PROVE  /\ c \in CallType /\ CallRefs(c) = <<>> /\ c.call # "reference"
           /\ c.call = "emit" => c.op \notin JumpOps \cup {"NOP"}
<1>1. c \in CallType
  BY QuietIsPlain, PlainIsPlain
<1>2. c.call \in {"emit", "expression", "data", "next", "print"}
  BY DEF QuietCall, PlainEmit, ExpressionCall
<1>3. c.call = "emit" => c.op \notin JumpOps \cup {"NOP"}
  BY DEF QuietCall, PlainEmit, ExpressionCall
<1> QED
  BY <1>1, <1>2, <1>3 DEF CallRefs, JumpOps

(* Nor do quiet calls, one after the other.                                *)
LEMMA QuietChain ==
    ASSUME NEW q \in Seq(QuietCall), NEW s \in Seq(Ref)
    PROVE  Chain(RefStep, q, s, s)
<1>1. Len(q) \in Nat /\ \A i \in 1..Len(q) : q[i] \in QuietCall
  OBVIOUS
<1>2. ASSUME NEW c \in QuietCall PROVE <<c, s, s>> \in RefStep
  <2>1. s \o <<>> = s
    OBVIOUS
  <2> QED
    BY <2>1, QuietRefs, RefStepIs
<1>3. \A i \in 1..Len(q) : <<q[i], s, s>> \in RefStep
  BY <1>1, <1>2
<1> QED
  BY <1>1, <1>3, ChainLoop

(* A reference to a line makes one.                                        *)
LEMMA ReferenceChain ==
    ASSUME NEW op \in ReferenceOps, NEW n \in Word, NEW s \in Seq(Ref)
    PROVE  /\ <<Reference(op, n), s, s \o <<LineNumber(n)>>>> \in RefStep
           /\ Chain(RefStep, <<Reference(op, n)>>, s, s \o <<LineNumber(n)>>)
<1> DEFINE c == Reference(op, n)
           e == <<LineNumber(n)>>
<1>1. n \in Int
  BY WordRange
<1>2. c \in CallType
  BY <1>1, OnePlain, PlainIsPlain
<1>3. c.call = "reference" /\ c.number = n /\ CallRefs(c) = e
  BY DEF Reference, CallRefs
<1>4. e \in Seq(Ref)
  BY RefFields
<1> HIDE DEF c, e
<1>5. s \o e \in Seq(Ref)
  BY <1>4
<1>6. <<c, s, s \o e>> \in RefStep
  BY <1>2, <1>3, <1>5, RefStepIs
<1> QED
  BY <1>6, ChainOne DEF c, e

(* A statement makes its references, in the order of its text.             *)
LEMMA StatementRefs ==
    ASSUME PlainReferences, NEW s \in StatementTree, NEW b \in Seq(Ref)
    PROVE  Chain(RefStep, compile_statement(s), b, b \o References[s])
<1>1. IsStatement(s) /\ References[s] \in Seq(Ref) /\ b \o References[s] \in Seq(Ref)
  BY SyntaxAssumption, ReferencesTyped
<1>2. s.k # "if" => References[s] = OwnReferences(s)
  BY ReferencesUnfold DEF ReferencesFrom
<1>3. CASE s.k \notin {"if", "line", "trap", "goto", "gosub", "on"}
  <2>1. References[s] = <<>> /\ b \o <<>> = b
    BY <1>2, <1>3 DEF OwnReferences
  <2>2. compile_statement(s) \in Seq(QuietCall)
    BY <1>3, StatementQuiet
  <2> QED
    BY <2>1, <2>2, QuietChain
<1>4. CASE s.k \in {"line", "trap"}
  <2>1. s.line \in Word
    BY <1>4 DEF PlainReferences
  <2>2. PICK op \in {"JUMP", "TRAP"} : compile_statement(s) = <<Reference(op, s.line)>>
    BY <1>4 DEF compile_statement
  <2>3. References[s] = <<LineNumber(s.line)>>
    BY <1>2, <1>4 DEF OwnReferences
  <2>4. op \in ReferenceOps
    BY DEF ReferenceOps
  <2> QED
    BY <2>1, <2>2, <2>3, <2>4, ReferenceChain
<1>5. CASE s.k \in {"goto", "gosub"}
  <2>1. PICK op \in ReferenceOps, computed \in NoOperandOps :
           compile_statement(s) = CompileBranch(s.target, op, computed)
    BY <1>5 DEF compile_statement, ReferenceOps, NoOperandOps
  <2>2. s.target \in ParseTree
    BY <1>1, <1>5 DEF IsStatement
  <2>3. CASE s.target.k = "num"
    <3>1. s.target.val \in Word
      BY <1>5, <2>3 DEF PlainReferences
    <3>2. References[s] = <<LineNumber(s.target.val)>>
      BY <1>2, <1>5, <2>3 DEF OwnReferences
    <3>3. compile_statement(s) = <<Reference(op, s.target.val)>>
      BY <2>1, <2>3 DEF CompileBranch
    <3> QED
      BY <3>1, <3>2, <3>3, ReferenceChain
  <2>4. CASE s.target.k # "num"
    <3>1. References[s] = <<>> /\ b \o <<>> = b
      BY <1>2, <1>5, <2>4 DEF OwnReferences
    <3>2. compile_statement(s) \in Seq(QuietCall)
      BY <2>1, <2>2, <2>4, BranchQuiet
    <3> QED
      BY <3>1, <3>2, QuietChain
  <2> QED
    BY <2>3, <2>4
<1>6. CASE s.k = "on"
  <2> DEFINE ct == ConstantTargets(s)
             n == Len(ct)
             table == [i \in 1..n |-> Reference("NOP", ct[i].val)]
             start == <<Expression(s.e), Emit(IF s.gosub THEN "ON_GOSUB" ELSE "ON_GOTO", n)>>
             refs == [i \in 1..n |-> LineNumber(ct[i].val)]
             upto(i) == SubSeq(refs, 1, i)
             at == [i \in 1..(n + 1) |-> b \o upto(i - 1)]
  <2>1. n \in Nat /\ DOMAIN ct = 1..n /\ \A i \in 1..n : ct[i].val \in Word
    BY <1>6, TableTyped
  <2>2. compile_statement(s) = start \o table
    BY <1>6, <2>1 DEF compile_statement, compile_on
  <2>3. References[s] = refs
    BY <1>2, <1>6, <2>1 DEF OwnReferences
  <2>4. start \in Seq(QuietCall)
    <3> DEFINE op == IF s.gosub THEN "ON_GOSUB" ELSE "ON_GOTO"
    <3>1. op \in Opcode /\ op \notin JumpOps \cup {"NOP"}
      BY DEF Opcode, OnOps, JumpOps
    <3>2. OperandFits(op, n) /\ n \in Operand
      BY <2>1 DEF OperandFits, Operand, StrArrayOps, StrGetOps, StrSetOps, NumArrayOps,
              NumGetOps, NumSetOps, DimOps, OnOps, VariableOps
    <3>3. Expression(s.e) \in QuietCall
      BY <1>1, <1>6, OneQuiet DEF IsStatement
    <3> HIDE DEF op, n
    <3>4. Emit(op, n) \in QuietCall
      BY <3>1, <3>2, EmitQuiet
    <3> QED
      BY <3>3, <3>4 DEF op
  <2>5. \A i \in 1..n : LineNumber(ct[i].val) \in Ref
    BY <2>1, RefFields
  <2> HIDE DEF ct, n, start
  <2>6. refs \in Seq(Ref) /\ Len(refs) = n
    BY <2>1, <2>5
  <2>7. ASSUME NEW i \in 1..n
        PROVE  /\ upto(i) = upto(i - 1) \o <<LineNumber(ct[i].val)>>
               /\ upto(i - 1) \in Seq(Ref)
    <3>1. refs[i] = LineNumber(ct[i].val)
      OBVIOUS
    <3> HIDE DEF refs
    <3>2. upto(i - 1) \in Seq(Ref) /\ upto(i) = Append(upto(i - 1), refs[i])
      BY <2>1, <2>6
    <3>3. Append(upto(i - 1), refs[i]) = upto(i - 1) \o <<refs[i]>>
      BY <2>6, <3>2
    <3> QED
      BY <3>1, <3>2, <3>3
  <2>8. upto(0) = <<>> /\ upto(n) = refs
    <3> HIDE DEF refs
    <3> QED
      BY <2>1, <2>6
  <2> HIDE DEF upto
  <2>9. ASSUME NEW i \in 1..n PROVE <<table[i], at[i], at[i + 1]>> \in RefStep
    <3> DEFINE e == <<LineNumber(ct[i].val)>>
    <3>1. i \in 1..(n + 1) /\ i + 1 \in 1..(n + 1) /\ (i + 1) - 1 = i
      BY <2>1
    <3>2. at[i] = b \o upto(i - 1) /\ at[i + 1] = b \o upto(i)
      BY <3>1
    <3>3. upto(i) = upto(i - 1) \o e /\ upto(i - 1) \in Seq(Ref)
      BY <2>7
    <3>4. e \in Seq(Ref)
      BY <2>5
    <3> HIDE DEF e, at
    <3>5. b \o upto(i) = (b \o upto(i - 1)) \o e
      BY <3>3, <3>4
    <3>6. at[i] \in Seq(Ref) /\ at[i + 1] = at[i] \o e
      BY <3>2, <3>3, <3>5
    <3>7. "NOP" \in ReferenceOps /\ table[i] = Reference("NOP", ct[i].val)
      BY DEF ReferenceOps
    <3> HIDE DEF table
    <3> QED
      BY <2>1, <3>6, <3>7, ReferenceChain DEF e
  <2>10. at[1] = b /\ at[n + 1] = b \o refs /\ Len(table) = n
    <3>1. 1 \in 1..(n + 1) /\ n + 1 \in 1..(n + 1) /\ 1 - 1 = 0 /\ (n + 1) - 1 = n
      BY <2>1
    <3> QED
      BY <2>1, <2>8, <3>1
  <2> HIDE DEF at, refs
  <2>11. Chain(RefStep, table, b, b \o refs)
    <3> HIDE DEF table
    <3> QED
      BY <2>9, <2>10 DEF Chain
  <2>12. Chain(RefStep, start, b, b)
    BY <2>4, QuietChain
  <2>13. table \in Seq(CallType) /\ start \in Seq(CallType)
    <3>1. \A i \in 1..n : ct[i].val \in Int
      BY <2>1, WordRange
    <3>2. \A i \in 1..n : Reference("NOP", ct[i].val) \in CallType
      BY <3>1, OnePlain, PlainIsPlain DEF ReferenceOps
    <3>3. table \in Seq(CallType)
      BY <2>1, <3>2
    <3> QED
      BY <2>4, <3>3, QuietIsPlain, PlainSequence
  <2> HIDE DEF table
  <2> QED
    BY <2>2, <2>3, <2>11, <2>12, <2>13, ChainJoin
<1>7. CASE s.k = "if"
  <2> DEFINE one == <<Expression(s.e)>>
             two == <<ThenPart(s)>>
  <2>1. compile_statement(s) = one \o two
    BY <1>7 DEF compile_statement, compile_if_then
  <2>2. Expression(s.e) \in QuietCall /\ ThenPart(s) \in CallType
    BY <1>7, IfParts, OneQuiet, OnePlain, PlainIsPlain DEF IfStatement
  <2>3. one \in Seq(QuietCall) /\ one \in Seq(CallType) /\ two \in Seq(CallType)
    BY <2>2, QuietRefs
  <2>4. Chain(RefStep, one, b, b)
    BY <2>3, QuietChain
  <2>5. <<ThenPart(s), b, b \o References[s]>> \in RefStep
    <3>1. ThenPart(s).call = "then" /\ CallRefs(ThenPart(s)) = References[s]
      BY DEF ThenPart, CallRefs
    <3> QED
      BY <1>1, <2>2, <3>1, RefStepIs
  <2>6. Chain(RefStep, two, b, b \o References[s])
    BY <2>5, ChainOne
  <2> HIDE DEF one, two
  <2> QED
    BY <2>1, <2>3, <2>4, <2>6, ChainJoin
<1> QED
  BY <1>3, <1>4, <1>5, <1>6, <1>7

(* A statement that is still to be compiled makes its references.          *)
LEMMA StatementStep ==
    ASSUME PlainReferences, NEW s \in StatementTree, NEW b \in Seq(Ref)
    PROVE  <<Statement(s), b, b \o References[s]>> \in RefStep
<1>1. Statement(s) \in CallType /\ Statement(s).call = "statement"
      /\ CallRefs(Statement(s)) = References[s]
  BY OnePlain, PlainIsPlain DEF Statement, CallRefs
<1>2. References[s] \in Seq(Ref)
  BY ReferencesTyped
<1>3. b \o References[s] \in Seq(Ref)
  BY <1>2
<1> QED
  BY <1>1, <1>3, RefStepIs

(* The THEN part makes the references of its statements; those of the ELSE *)
(* part are left to the call at its end.                                   *)
LEMMA ThenRefs ==
    ASSUME PlainReferences, NEW s \in StatementTree, s.k = "if", NEW st \in StateType,
           NEW b \in Seq(Ref)
    PROVE  Chain(RefStep, CompileThen(st, s), b, b \o References[s])
<1> DEFINE jump == Emit("JUMP_IF_FALSE", 0)
           C == [i \in DOMAIN s.then |-> References[s.then[i]]]
           m == Len(s.then)
           skip == IF s.else = <<>> THEN <<>> ELSE <<Skip>> \o References[s.else[1]]
           body == Statements(s.then)
           last == ElsePart(s, Len(st.code))
           first == <<jump>>
           end == <<last>>
<1>1. s.then \in Seq(StatementTree) /\ m \in Nat /\ DOMAIN s.then = 1..m
      /\ \A i \in 1..m : s.then[i] \in StatementTree
  BY IfParts
<1>2. C \in Seq(Seq(Ref)) /\ Len(C) = m /\ \A i \in 1..m : C[i] = References[s.then[i]]
  <2>1. \A i \in 1..m : References[s.then[i]] \in Seq(Ref)
    BY <1>1, ReferencesTyped
  <2> QED
    BY <1>1, <2>1
<1>3. skip \in Seq(Ref)
  <2>1. s.else # <<>> => References[s.else[1]] \in Seq(Ref)
    BY IfParts, ReferencesTyped
  <2>2. <<Skip>> \in Seq(Ref)
    BY RefFields
  <2> QED
    BY <2>1, <2>2
<1>4. References[s] = FlattenSeq(C) \o skip
  BY IfReferences
<1>5. body \in Seq(CallType) /\ Len(body) = m
      /\ \A i \in 1..m : body[i] = Statement(s.then[i])
  BY <1>1, StatementsPlain, PlainSequence
<1>6. jump \in CallType /\ CallRefs(jump) = <<>> /\ jump.call = "emit"
  BY DEF CallType, IfJump, Emit, CallRefs
<1>7. last \in CallType /\ CallRefs(last) = skip /\ last.call = "else"
  <2>1. Len(st.code) \in Nat
    BY StateFields
  <2> QED
    BY <2>1 DEF ElsePart, CallType, ElseCall, CallRefs, IfStatement
<1>8. CompileThen(st, s) = first \o body \o end
  BY DEF CompileThen, CodeLen
<1> HIDE DEF C, m, skip, body, jump, last
<1>9. PICK F \in [0..m -> Seq(Ref)] : /\ F[0] = <<>>
                                      /\ \A i \in 1..m : F[i] = F[i - 1] \o C[i]
                                      /\ FlattenSeq(C) = F[m]
  BY <1>2, FlattenPrefixes
<1> DEFINE at == [i \in 1..(m + 1) |-> b \o F[i - 1]]
<1>10. ASSUME NEW i \in 1..m PROVE <<body[i], at[i], at[i + 1]>> \in RefStep
  <2>1. i \in 1..(m + 1) /\ i + 1 \in 1..(m + 1) /\ (i + 1) - 1 = i /\ i - 1 \in 0..m
    BY <1>1
  <2>2. at[i] = b \o F[i - 1] /\ at[i + 1] = b \o F[i] /\ F[i - 1] \in Seq(Ref)
    BY <2>1
  <2>3. F[i] = F[i - 1] \o C[i] /\ C[i] \in Seq(Ref)
    BY <1>2, <1>9
  <2> DEFINE here == at[i]
             there == at[i + 1]
             before == F[i - 1]
             refs == C[i]
             t == s.then[i]
  <2>4. /\ here = b \o before /\ there = b \o (before \o refs)
        /\ before \in Seq(Ref) /\ refs \in Seq(Ref)
    BY <2>2, <2>3
  <2>5. t \in StatementTree /\ refs = References[t] /\ body[i] = Statement(t)
    BY <1>1, <1>2, <1>5
  <2> HIDE DEF at, here, there, before, refs, t
  <2>6. here \in Seq(Ref) /\ there = here \o refs
    BY <2>4, JoinThree
  <2>7. <<body[i], here, there>> \in RefStep
    BY <2>5, <2>6, StatementStep
  <2> QED
    BY <2>7 DEF here, there
<1>11. at[1] = b /\ at[m + 1] = b \o F[m] /\ F[m] \in Seq(Ref)
  <2>1. 1 \in 1..(m + 1) /\ m + 1 \in 1..(m + 1) /\ 1 - 1 = 0 /\ (m + 1) - 1 = m /\ m \in 0..m
    BY <1>1
  <2> QED
    BY <1>9, <2>1
<1> HIDE DEF at
<1>12. Chain(RefStep, body, b, b \o F[m])
  BY <1>5, <1>10, <1>11 DEF Chain
<1>13. Chain(RefStep, first, b, b)
  <2>1. b \o <<>> = b
    OBVIOUS
  <2>2. <<jump, b, b>> \in RefStep
    BY <1>6, <2>1, RefStepIs
  <2> QED
    BY <2>2, ChainOne
<1>14. Chain(RefStep, end, b \o F[m], b \o References[s])
  <2>1. b \o References[s] = (b \o F[m]) \o skip /\ b \o References[s] \in Seq(Ref)
        /\ b \o F[m] \in Seq(Ref)
    <3> DEFINE all == F[m]
    <3>1. all \in Seq(Ref) /\ References[s] = all \o skip
      BY <1>4, <1>9, <1>11
    <3> HIDE DEF all
    <3>2. b \o References[s] = (b \o all) \o skip /\ b \o References[s] \in Seq(Ref)
          /\ b \o all \in Seq(Ref)
      BY <1>3, <3>1, JoinThree
    <3> QED
      BY <3>2 DEF all
  <2>2. <<last, b \o F[m], b \o References[s]>> \in RefStep
    BY <1>7, <2>1, RefStepIs
  <2> QED
    BY <2>2, ChainOne
<1>15. first \in Seq(CallType) /\ end \in Seq(CallType) /\ first \o body \in Seq(CallType)
  BY <1>5, <1>6, <1>7
<1> HIDE DEF first, end
<1>16. Chain(RefStep, first \o body, b, b \o F[m])
  BY <1>5, <1>12, <1>13, <1>15, ChainJoin
<1> DEFINE both == first \o body
<1>17. both \in Seq(CallType) /\ Chain(RefStep, both, b, b \o F[m])
       /\ CompileThen(st, s) = both \o end
  BY <1>8, <1>15, <1>16
<1> HIDE DEF both
<1> QED
  BY <1>14, <1>15, <1>17, ChainJoin

(* The statement of an ELSE, or the jump that stands for it.               *)
LEMMA ElseStatementRefs ==
    ASSUME PlainReferences, NEW s \in StatementTree, s.k = "if", s.else # <<>>,
           NEW b \in Seq(Ref)
    PROVE  Chain(RefStep, compile_else(s.else[1]), b, b \o References[s.else[1]])
<1> DEFINE t == s.else[1]
           first == Leading(t)
<1>1. t \in StatementTree
  BY IfParts
<1>2. CASE first # <<>> /\ first[1].k = "num"
  <2>1. t.k \in {"line", "trap", "goto", "gosub"}
    BY <1>2 DEF PlainReferences
  <2>2. References[t] = OwnReferences(t)
    BY <1>1, <2>1, ReferencesUnfold DEF ReferencesFrom
  <2>3. References[t] = <<LineNumber(first[1].val)>> /\ first[1].val \in Word
    <3>1. CASE t.k \in {"line", "trap"}
      <4>1. first = <<[k |-> "num", val |-> t.line]>>
        BY <3>1 DEF Leading
      <4>2. first[1].val = t.line
        BY <4>1
      <4>3. t.line \in Word
        BY <1>1, <3>1 DEF PlainReferences
      <4> QED
        BY <2>2, <3>1, <4>2, <4>3 DEF OwnReferences
    <3>2. CASE t.k \in {"goto", "gosub"}
      <4>1. first[1] = t.target
        BY <3>2 DEF Leading
      <4>2. t.target.k = "num"
        BY <1>2, <4>1
      <4>3. t.target.val \in Word
        BY <1>1, <3>2, <4>2 DEF PlainReferences
      <4> QED
        BY <2>2, <3>2, <4>1, <4>2, <4>3 DEF OwnReferences
    <3> QED
      BY <2>1, <3>1, <3>2
  <2>4. compile_else(t) = <<Reference("JUMP", first[1].val)>>
    BY <1>2 DEF compile_else
  <2>5. "JUMP" \in ReferenceOps
    BY DEF ReferenceOps
  <2> QED
    BY <2>3, <2>4, <2>5, ReferenceChain
<1>3. CASE ~(first # <<>> /\ first[1].k = "num")
  <2>1. compile_else(t) = <<Statement(t)>>
    BY <1>3 DEF compile_else
  <2> QED
    BY <1>1, <2>1, StatementStep, ChainOne
<1> QED
  BY <1>2, <1>3

(* A patch makes no reference.                                             *)
LEMMA PatchRefs ==
    ASSUME NEW pc \in Nat, NEW b \in Seq(Ref)
    PROVE  PatchHere(pc) \in CallType /\ <<PatchHere(pc), b, b>> \in RefStep
<1>1. PatchHere(pc) \in CallType /\ PatchHere(pc).call = "patch"
      /\ CallRefs(PatchHere(pc)) = <<>>
  BY DEF PatchHere, CallType, PatchCall, CallRefs
<1>2. b \o <<>> = b
  OBVIOUS
<1> QED
  BY <1>1, <1>2, RefStepIs

(* The end of the THEN part makes the references of the ELSE part.         *)
LEMMA ElseRefs ==
    ASSUME PlainReferences, NEW s \in StatementTree, s.k = "if", NEW st \in StateType,
           NEW test \in Nat, NEW b \in Seq(Ref)
    PROVE  Chain(RefStep, CompileElse(st, s, test), b,
                 b \o (IF s.else = <<>> THEN <<>> ELSE <<Skip>> \o References[s.else[1]]))
<1>1. CASE s.else = <<>>
  <2>1. CompileElse(st, s, test) = <<PatchHere(test)>> /\ b \o <<>> = b
    BY <1>1 DEF CompileElse
  <2> QED
    BY <1>1, <2>1, PatchRefs, ChainOne
<1>2. CASE s.else # <<>>
  <2> DEFINE t == s.else[1]
             jump == Emit("JUMP", 0)
             start == <<jump>>
             tested == <<PatchHere(test)>>
             body == compile_else(t)
             end == <<PatchHere(Len(st.code))>>
             skipped == b \o <<Skip>>
             done == skipped \o References[t]
  <2>1. t \in StatementTree
    BY <1>2, IfParts
  <2>2. CompileElse(st, s, test) = (start \o tested) \o body \o end
    BY <1>2 DEF CompileElse, CodeLen
  <2>3. References[t] \in Seq(Ref) /\ <<Skip>> \in Seq(Ref)
    BY <2>1, ReferencesTyped, RefFields
  <2>4. skipped \in Seq(Ref) /\ done \in Seq(Ref)
        /\ done = b \o (<<Skip>> \o References[t])
    <3> DEFINE skip == <<Skip>>
               more == References[t]
    <3>1. skip \in Seq(Ref) /\ more \in Seq(Ref) /\ skipped = b \o skip
          /\ done = (b \o skip) \o more
      BY <2>3
    <3> HIDE DEF skip, more, done, skipped
    <3>2. skipped \in Seq(Ref) /\ done \in Seq(Ref) /\ done = b \o (skip \o more)
      BY <3>1, JoinThree
    <3> QED
      BY <3>2 DEF skip, more
  <2>5. <<jump, b, skipped>> \in RefStep /\ jump \in CallType
    <3>1. jump \in CallType /\ jump.call = "emit" /\ CallRefs(jump) = <<Skip>>
      BY DEF CallType, IfJump, Emit, CallRefs
    <3> QED
      BY <2>4, <3>1, RefStepIs
  <2>6. Len(st.code) \in Nat
    BY StateFields
  <2>7. /\ body \in Seq(CallType) /\ start \in Seq(CallType) /\ tested \in Seq(CallType)
        /\ end \in Seq(CallType)
    <3>1. PatchHere(test) \in CallType /\ PatchHere(Len(st.code)) \in CallType
      BY <2>6, PatchRefs
    <3>2. body \in Seq(CallType)
      BY <2>1, ElsePlain, PlainSequence
    <3> HIDE DEF body, jump
    <3> QED
      BY <2>5, <3>1, <3>2
  <2>8. Chain(RefStep, start, b, skipped)
    BY <2>5, ChainOne
  <2> HIDE DEF skipped
  <2>9. Chain(RefStep, tested, skipped, skipped)
    BY <2>4, PatchRefs, ChainOne
  <2>10. Chain(RefStep, body, skipped, done)
    BY <1>2, <2>4, ElseStatementRefs
  <2> HIDE DEF done
  <2>11. Chain(RefStep, end, done, done)
    BY <2>4, <2>6, PatchRefs, ChainOne
  <2> HIDE DEF body, end, start, tested
  <2> DEFINE two == start \o tested
             three == two \o body
  <2>12. two \in Seq(CallType) /\ Chain(RefStep, two, b, skipped)
    BY <2>7, <2>8, <2>9, ChainJoin
  <2> HIDE DEF two
  <2>13. three \in Seq(CallType) /\ Chain(RefStep, three, b, done)
    BY <2>7, <2>10, <2>12, ChainJoin
  <2>14. CompileElse(st, s, test) = three \o end
    BY <2>2 DEF two
  <2> HIDE DEF three
  <2>15. Chain(RefStep, CompileElse(st, s, test), b, done)
    BY <2>7, <2>11, <2>13, <2>14, ChainJoin
  <2>16. done = b \o (IF s.else = <<>> THEN <<>> ELSE <<Skip>> \o References[s.else[1]])
    BY <1>2, <2>4
  <2> QED
    BY <2>15, <2>16
<1> QED
  BY <1>1, <1>2

(* A call and the calls it makes come to the same references.              *)
LEMMA CallKeepsRefs ==
    ASSUME PlainReferences, NEW st \in StateType, NEW c, NEW b, NEW u,
           <<c, b, u>> \in RefStep, c.call \notin {"emit", "reference"}
    PROVE  Chain(RefStep, Calls(st, c), b, u)
<1>1. c \in CallType /\ b \in Seq(Ref) /\ u = b \o CallRefs(c) /\ b \o <<>> = b
  <2>1. c \in CallType /\ b \in Seq(Ref) /\ u = b \o CallRefs(c)
    BY RefStepIs
  <2> QED
    BY <2>1
<1>2. CASE c.call \in {"expression", "next", "print"}
  <2>1. CallRefs(c) = <<>>
    BY <1>2 DEF CallRefs
  <2>2. Calls(st, c) \in Seq(QuietCall)
    <3>1. CASE c.call = "expression"
      <4>1. c.e \in ParseTree
        BY <1>1, <3>1 DEF CallType, PlainCall, QuietCall, PlainEmit, ReferenceCall,
                ExpressionCall, StatementCall, IfJump, PatchCall, ElseCall, Emit
      <4> QED
        BY <3>1, <4>1, ExpressionQuiet DEF Calls
    <3>2. CASE c.call = "next"
      <4>1. c.slots \in Seq(Slot) /\ c.i \in 1..Len(c.slots)
        BY <1>1, <3>2 DEF CallType, PlainCall, QuietCall, PlainEmit, ReferenceCall,
                ExpressionCall, StatementCall, IfJump, PatchCall, ElseCall, Emit
      <4>2. NextVariable(c.slots, c.i) \in Seq(QuietCall)
        BY <4>1, NextVariableQuiet
      <4> QED
        BY <3>2, <4>2 DEF Calls
    <3>3. CASE c.call = "print"
      <4>1. c.e \in ParseTree \cup Separator
        BY <1>1, <3>3 DEF CallType, PlainCall, QuietCall, PlainEmit, ReferenceCall,
                ExpressionCall, StatementCall, IfJump, PatchCall, ElseCall, Emit
      <4> QED
        BY <3>3, <4>1, PrintItemQuiet DEF Calls
    <3> QED
      BY <1>2, <3>1, <3>2, <3>3
  <2> QED
    BY <1>1, <2>1, <2>2, QuietChain
<1>3. CASE c.call \in {"data", "patch"}
  <2>1. Calls(st, c) = <<>> /\ CallRefs(c) = <<>>
    BY <1>3 DEF Calls, CallRefs
  <2> QED
    BY <1>1, <2>1, ChainNone
<1>4. CASE c.call = "statement"
  <2>1. c.stmt \in StatementTree
    BY <1>1, <1>4 DEF CallType, PlainCall, QuietCall, PlainEmit, ReferenceCall,
            ExpressionCall, StatementCall, IfJump, PatchCall, ElseCall, Emit
  <2>2. Calls(st, c) = compile_statement(c.stmt) /\ CallRefs(c) = References[c.stmt]
    BY <1>4 DEF Calls, CallRefs
  <2> QED
    BY <1>1, <2>1, <2>2, StatementRefs
<1>5. CASE c.call = "then"
  <2>1. c.stmt \in IfStatement
    BY <1>1, <1>5, CallKinds
  <2>2. Calls(st, c) = CompileThen(st, c.stmt) /\ CallRefs(c) = References[c.stmt]
    BY <1>5 DEF Calls, CallRefs
  <2> QED
    BY <1>1, <2>1, <2>2, ThenRefs DEF IfStatement
<1>6. CASE c.call = "else"
  <2>1. c.stmt \in IfStatement /\ c.test \in Nat
    BY <1>1, <1>6, CallKinds
  <2>2. /\ Calls(st, c) = CompileElse(st, c.stmt, c.test)
        /\ CallRefs(c) = IF c.stmt.else = <<>> THEN <<>>
                         ELSE <<Skip>> \o References[c.stmt.else[1]]
    BY <1>6 DEF Calls, CallRefs
  <2> QED
    BY <1>1, <2>1, <2>2, ElseRefs DEF IfStatement
<1>7. c.call \in {"expression", "next", "print", "data", "patch", "statement", "then",
                  "else"}
  BY <1>1, CallKinds
<1> QED
  BY <1>2, <1>3, <1>4, <1>5, <1>6, <1>7

(* The references of a call are references.                                *)
LEMMA CallRefsTyped ==
    ASSUME PlainReferences, NEW c \in CallType, c.call = "reference" => c.number \in Word
    PROVE  CallRefs(c) \in Seq(Ref)
<1>1. CASE c.call = "reference"
  <2>1. LineNumber(c.number) \in Ref
    BY <1>1, RefFields
  <2> QED
    BY <1>1, <2>1 DEF CallRefs
<1>2. CASE c.call \in {"statement", "then"}
  <2>1. c.stmt \in StatementTree
    BY <1>2 DEF CallType, PlainCall, QuietCall, PlainEmit, ReferenceCall,
            ExpressionCall, StatementCall, IfJump, PatchCall, ElseCall, Emit, IfStatement
  <2> QED
    BY <1>2, <2>1, ReferencesTyped DEF CallRefs
<1>3. CASE c.call = "else"
  <2>1. c.stmt \in IfStatement
    BY <1>3, CallKinds
  <2>2. c.stmt.else # <<>> => References[c.stmt.else[1]] \in Seq(Ref)
    BY <2>1, IfParts, ReferencesTyped DEF IfStatement
  <2>3. <<Skip>> \in Seq(Ref)
    BY RefFields
  <2> QED
    BY <1>3, <2>2, <2>3 DEF CallRefs
<1>4. CASE c.call = "emit"
  <2>1. <<Skip>> \in Seq(Ref)
    BY RefFields
  <2> QED
    BY <1>4, <2>1 DEF CallRefs
<1>5. CASE c.call \notin {"reference", "statement", "then", "else", "emit"}
  BY <1>5 DEF CallRefs
<1> QED
  BY <1>1, <1>2, <1>3, <1>4, <1>5

(* References once made are among those in the end.                        *)
LEMMA ChainKeeps ==
    ASSUME PlainReferences, NEW q \in Seq(CallType), NEW s \in Seq(Ref), NEW u,
           Chain(RefStep, q, s, u)
    PROVE  u \in Seq(Ref) /\ ToSet(s) \subseteq ToSet(u)
<1> DEFINE n == Len(q)
<1>1. PICK b : /\ b[1] = s /\ b[n + 1] = u
               /\ \A i \in 1..n : <<q[i], b[i], b[i + 1]>> \in RefStep
  BY DEF Chain
<1>2. n \in Nat
  OBVIOUS
<1> DEFINE G == {i \in Nat : i <= n => b[i + 1] \in Seq(Ref) /\ ToSet(s) \subseteq ToSet(b[i + 1])}
<1>3. 0 \in G
  BY <1>1
<1>4. ASSUME NEW i \in Nat, i \in G PROVE i + 1 \in G
  <2> SUFFICES ASSUME i + 1 <= n
               PROVE  b[i + 1 + 1] \in Seq(Ref) /\ ToSet(s) \subseteq ToSet(b[i + 1 + 1])
    OBVIOUS
  <2> DEFINE c == q[i + 1]
             e == CallRefs(c)
             before == b[i + 1]
             after == b[i + 1 + 1]
  <2>1. i + 1 \in 1..n
    BY <1>2
  <2>2. <<c, before, after>> \in RefStep
    BY <1>1, <2>1
  <2>3. before \in Seq(Ref) /\ ToSet(s) \subseteq ToSet(before)
    BY <1>2, <1>4
  <2> HIDE DEF c, before, after
  <2>4. c \in CallType /\ after \in Seq(Ref) /\ after = before \o e
        /\ (c.call = "reference" => c.number \in Word)
    BY <2>2, RefStepIs
  <2>5. e \in Seq(Ref)
    BY <2>4, CallRefsTyped
  <2> HIDE DEF e
  <2>6. ToSet(after) = ToSet(before) \cup ToSet(e)
    BY <2>3, <2>4, <2>5, ToSetJoin
  <2> QED
    BY <2>3, <2>4, <2>6 DEF after
<1> HIDE DEF G
<1>5. n \in G
  BY <1>2, <1>3, <1>4, SetInduction
<1> QED
  BY <1>1, <1>2, <1>5 DEF G

-----------------------------------------------------------------------------
(* The invariant.                                                          *)

(* The operand of instruction j is a place of the line, or a fixup for the *)
(* line is still to set it; and nothing else will.                         *)
Bound(j, line) ==
    /\ \/ \E k \in DOMAIN cs.lines : /\ cs.lines[k].line = line
                                     /\ cs.code[j].arg = Operand16(cs.lines[k].offset)
       \/ \E f \in Unresolved : cs.fixups[f].pc + 1 = j
    /\ \A f \in DOMAIN cs.fixups : cs.fixups[f].pc + 1 = j => cs.fixups[f].line = line
    /\ \A c \in ToSet(todo) : c.call = "patch" => c.pc + 1 # j

(* The references D are the operands of the instructions P, in that order, *)
(* and those are all the jumps in the code of statement i.                 *)
Placed(i, D, P) ==
    /\ D \in Seq(Ref) /\ P \in [1..Len(D) -> 1..Len(cs.code)]
    /\ \A m, n \in 1..Len(D) : m < n => P[m] < P[n]
    /\ ReferencesIn(FirstInst(i), LastInst(i)) = {P[n] : n \in 1..Len(D)}
    /\ \A n \in 1..Len(D) : D[n] # Skip => Bound(P[n], D[n].val)

RefsOf(i) == References[source[i].stmt]

(* So it is for all references of the statements that have been compiled,  *)
(* and for those of the last one that have been met so far: the calls that *)
(* are still to be made will make the others.                              *)
DonePlaced ==
    \A i \in DOMAIN cs.lines : i < Len(cs.lines) => \E P : Placed(i, RefsOf(i), P)
LastPlaced ==
    cs.lines # <<>> =>
        \E D, P : /\ Placed(Len(cs.lines), D, P)
                  /\ Chain(RefStep, todo, D, RefsOf(Len(cs.lines)))

(* The line of a fixup comes from the source. *)
FixupsWanted ==
    \A f \in DOMAIN cs.fixups :
        \E i \in DOMAIN source : LineNumber(cs.fixups[f].line) \in ToSet(RefsOf(i))

Undefined ==
    \E i \in DOMAIN source : \E r \in ToSet(RefsOf(i)) : r # Skip /\ ~Defined(r.val)

RefsInv ==
    /\ todo # <<>> => cs.lines # <<>>
    /\ FixupsWanted
    /\ phase # "failed" => DonePlaced /\ LastPlaced
    /\ phase = "failed" => Undefined

-----------------------------------------------------------------------------
(* What keeps the references in their places.                              *)

(* The code of a statement.                                                *)
LEMMA Segment ==
    ASSUME TypeInv, LinesInv, NEW i \in DOMAIN cs.lines
    PROVE  /\ i \in 1..Len(cs.lines) /\ Len(cs.lines) \in Nat /\ Len(cs.code) \in Nat
           /\ FirstInst(i) \in Nat /\ FirstInst(i) >= 1
           /\ LastInst(i) \in Nat /\ LastInst(i) <= Len(cs.code)
           /\ \A j \in ReferencesIn(FirstInst(i), LastInst(i)) :
                 j \in 1..Len(cs.code) /\ IsReference(cs.code[j])
<1>1. cs \in StateType
  BY DEF TypeInv
<1>2. cs.lines \in LinesType /\ Len(cs.code) \in Nat
  BY <1>1, StateFields
<1>3. /\ DOMAIN cs.lines = 1..Len(cs.lines) /\ Len(cs.lines) \in Nat
      /\ \A k \in DOMAIN cs.lines : cs.lines[k].offset \in Nat
  BY <1>2, LinesTyped
<1>4. FirstInst(i) \in Nat /\ FirstInst(i) >= 1
  BY <1>3 DEF FirstInst
<1>5. LastInst(i) \in Nat /\ LastInst(i) <= Len(cs.code)
  <2>1. CASE i = Len(cs.lines)
    BY <1>2, <2>1 DEF LastInst
  <2>2. CASE i # Len(cs.lines)
    <3>1. i + 1 \in DOMAIN cs.lines
      BY <1>3, <2>2
    <3> QED
      BY <1>3, <2>2, <3>1 DEF LastInst, LinesInv
  <2> QED
    BY <2>1, <2>2
<1>6. \A j \in ReferencesIn(FirstInst(i), LastInst(i)) :
         j \in 1..Len(cs.code) /\ IsReference(cs.code[j])
  BY <1>2, <1>4, <1>5 DEF ReferencesIn
<1> QED
  BY <1>2, <1>3, <1>4, <1>5, <1>6

(* A step that keeps opcodes and places keeps the jumps of a statement.    *)
LEMMA SegmentKept ==
    ASSUME TypeInv, LinesInv, NEW i \in DOMAIN cs.lines,
           \A j \in 1..Len(cs.code) : cs'.code[j].op = cs.code[j].op,
           FirstInst(i)' = FirstInst(i), LastInst(i)' = LastInst(i)
    PROVE  ReferencesIn(FirstInst(i), LastInst(i))' = ReferencesIn(FirstInst(i), LastInst(i))
<1> DEFINE first == FirstInst(i)
           last == LastInst(i)
<1>1. first \in Nat /\ first >= 1 /\ last \in Nat /\ last <= Len(cs.code) /\ Len(cs.code) \in Nat
  BY Segment
<1>2. /\ ReferencesIn(first, last) = {j \in first..last : IsReference(cs.code[j])}
      /\ ReferencesIn(FirstInst(i), LastInst(i))' =
            {j \in FirstInst(i)'..LastInst(i)' : IsReference(cs'.code[j])}
  BY DEF ReferencesIn, IsReference
<1> HIDE DEF first, last
<1>3. {j \in first..last : IsReference(cs'.code[j])} = {j \in first..last : IsReference(cs.code[j])}
  BY <1>1 DEF IsReference
<1> QED
  BY <1>2, <1>3 DEF first, last

(* Then the references stay where they are, if their operands may.         *)
LEMMA PlacedKept ==
    ASSUME TypeInv, LinesInv, NEW i \in DOMAIN cs.lines, NEW D, NEW P, Placed(i, D, P),
           Len(cs'.code) \in Nat, Len(cs'.code) >= Len(cs.code),
           ReferencesIn(FirstInst(i), LastInst(i))' = ReferencesIn(FirstInst(i), LastInst(i)),
           \A j \in 1..Len(cs.code) : \A line \in Word :
              IsReference(cs.code[j]) /\ Bound(j, line) => Bound(j, line)'
    PROVE  Placed(i, D, P)'
<1>1. /\ D \in Seq(Ref) /\ P \in [1..Len(D) -> 1..Len(cs.code)]
      /\ \A m, n \in 1..Len(D) : m < n => P[m] < P[n]
      /\ ReferencesIn(FirstInst(i), LastInst(i)) = {P[n] : n \in 1..Len(D)}
      /\ \A n \in 1..Len(D) : D[n] # Skip => Bound(P[n], D[n].val)
  BY DEF Placed
<1>2. P \in [1..Len(D) -> 1..Len(cs'.code)]
  <2>1. Len(cs.code) \in Nat
    BY Segment
  <2>2. 1..Len(cs.code) \subseteq 1..Len(cs'.code)
    BY <2>1
  <2> QED
    BY <1>1, <2>2
<1>3. ASSUME NEW n \in 1..Len(D), D[n] # Skip PROVE Bound(P[n], D[n].val)'
  <2>1. D[n] \in Ref /\ P[n] \in 1..Len(cs.code)
    BY <1>1
  <2>2. D[n].val \in Word
    BY <1>3, <2>1, RefFields
  <2>3. IsReference(cs.code[P[n]])
    <3>1. P[n] \in ReferencesIn(FirstInst(i), LastInst(i))
      BY <1>1
    <3> QED
      BY <3>1, Segment
  <2>4. Bound(P[n], D[n].val)
    BY <1>1, <1>3
  <2> DEFINE j == P[n]
             line == D[n].val
  <2>5. j \in 1..Len(cs.code) /\ line \in Word /\ IsReference(cs.code[j]) /\ Bound(j, line)
    BY <2>1, <2>2, <2>3, <2>4
  <2> HIDE DEF j, line
  <2>6. Bound(j, line)'
    BY <2>5
  <2> QED
    BY <2>6 DEF j, line
<1>4. ReferencesIn(FirstInst(i), LastInst(i))' = {P[n] : n \in 1..Len(D)}
  BY <1>1
<1> QED
  BY <1>1, <1>2, <1>3, <1>4 DEF Placed

(* A reference that is added.                                              *)
LEMMA PlacedGrows ==
    ASSUME TypeInv, LinesInv, NEW i \in DOMAIN cs.lines, NEW D, NEW P, Placed(i, D, P),
           NEW L, L = Len(cs.code), Len(cs'.code) = L + 1, NEW r \in Ref,
           ReferencesIn(FirstInst(i), LastInst(i))' =
              ReferencesIn(FirstInst(i), LastInst(i)) \cup {L + 1},
           \A j \in 1..Len(cs.code) : \A line \in Word :
              IsReference(cs.code[j]) /\ Bound(j, line) => Bound(j, line)',
           r # Skip => Bound(L + 1, r.val)'
    PROVE  \E Q : Placed(i, D \o <<r>>, Q)'
<1>0. PICK d : d = Len(D)
  OBVIOUS
<1>1. /\ D \in Seq(Ref) /\ P \in [1..d -> 1..L]
      /\ \A m, n \in 1..d : m < n => P[m] < P[n]
      /\ ReferencesIn(FirstInst(i), LastInst(i)) = {P[n] : n \in 1..d}
      /\ \A n \in 1..d : D[n] # Skip => Bound(P[n], D[n].val)
  BY <1>0 DEF Placed
<1>2. L \in Nat /\ d \in Nat
  BY <1>0, <1>1, Segment
<1>3. PICK E : /\ E = D \o <<r>> /\ E \in Seq(Ref) /\ Len(E) = d + 1 /\ E[d + 1] = r
               /\ \A n \in 1..d : E[n] = D[n]
  <2> DEFINE F == D \o <<r>>
  <2>1. D \in Seq(Ref)
    BY <1>1
  <2>2. /\ F \in Seq(Ref) /\ Len(F) = d + 1 /\ F[d + 1] = r
        /\ \A n \in 1..d : F[n] = D[n]
    BY <1>0, <1>2, <2>1
  <2> HIDE DEF F
  <2> QED
    BY <2>2 DEF F
<1>4. PICK Q : /\ Q \in [1..(d + 1) -> 1..(L + 1)] /\ Q[d + 1] = L + 1
               /\ \A n \in 1..d : Q[n] = P[n] /\ n # d + 1 /\ n \in 1..(d + 1)
  <2> DEFINE R == [n \in 1..(d + 1) |-> IF n = d + 1 THEN L + 1 ELSE P[n]]
  <2>1. /\ R \in [1..(d + 1) -> 1..(L + 1)] /\ R[d + 1] = L + 1
        /\ \A n \in 1..d : R[n] = P[n] /\ n # d + 1 /\ n \in 1..(d + 1)
    BY <1>1, <1>2
  <2> HIDE DEF R
  <2> QED
    BY <2>1
<1>5. ASSUME NEW m \in 1..(d + 1), NEW n \in 1..(d + 1), m < n PROVE Q[m] < Q[n]
  <2>1. m \in 1..d /\ Q[m] = P[m] /\ P[m] \in 1..L
    BY <1>1, <1>2, <1>4, <1>5
  <2>2. CASE n = d + 1
    BY <1>2, <1>4, <2>1, <2>2
  <2>3. CASE n # d + 1
    <3>1. n \in 1..d /\ Q[n] = P[n]
      BY <1>2, <1>4, <2>3
    <3> QED
      BY <1>1, <1>5, <2>1, <3>1
  <2> QED
    BY <2>2, <2>3
<1>6. ReferencesIn(FirstInst(i), LastInst(i))' = {Q[n] : n \in 1..(d + 1)}
  <2>1. {Q[n] : n \in 1..(d + 1)} = {P[n] : n \in 1..d} \cup {L + 1}
    <3>1. ASSUME NEW n \in 1..(d + 1) PROVE Q[n] \in {P[m] : m \in 1..d} \cup {L + 1}
      <4>1. CASE n = d + 1
        BY <1>4, <4>1
      <4>2. CASE n # d + 1
        <5>1. n \in 1..d
          BY <1>2, <4>2
        <5> QED
          BY <1>4, <5>1
      <4> QED
        BY <4>1, <4>2
    <3>2. \A n \in 1..d : P[n] \in {Q[m] : m \in 1..(d + 1)}
      BY <1>4
    <3>3. L + 1 \in {Q[m] : m \in 1..(d + 1)}
      BY <1>2, <1>4
    <3> QED
      BY <3>1, <3>2, <3>3
  <2> QED
    BY <1>0, <1>1, <2>1
<1>7. ASSUME NEW n \in 1..(d + 1), E[n] # Skip PROVE Bound(Q[n], E[n].val)'
  <2>1. CASE n = d + 1
    <3>1. E[n] = r /\ Q[n] = L + 1
      BY <1>3, <1>4, <2>1
    <3> QED
      BY <1>0, <1>7, <3>1
  <2>2. CASE n # d + 1
    <3>1. n \in 1..d /\ Q[n] = P[n] /\ E[n] = D[n] /\ D[n] \in Ref /\ P[n] \in 1..L
      BY <1>1, <1>2, <1>3, <1>4, <2>2
    <3> DEFINE j == P[n]
               line == D[n].val
    <3>2. j \in 1..L /\ line \in Word /\ Bound(j, line)
      BY <1>1, <1>7, <3>1, RefFields
    <3>3. IsReference(cs.code[j])
      <4>1. j \in ReferencesIn(FirstInst(i), LastInst(i))
        BY <1>1, <3>1
      <4> QED
        BY <4>1, Segment
    <3>4. Q[n] = j /\ E[n].val = line
      BY <3>1
    <3> HIDE DEF j, line
    <3>5. Bound(j, line)'
      BY <1>0, <3>2, <3>3
    <3> QED
      BY <3>4, <3>5
  <2> QED
    BY <2>1, <2>2
<1>8. Placed(i, E, Q)'
  <2>1. Len(cs'.code) = L + 1 /\ Len(E) = d + 1
    BY <1>0, <1>3
  <2> QED
    BY <1>3, <1>4, <1>5, <1>6, <1>7, <2>1 DEF Placed
<1> QED
  BY <1>3, <1>8

(* A call leaves the fixups as they are, or adds one for what it emits.    *)
LEMMA FixupsMade ==
    ASSUME NEW c, NEW q, NEW rest, MadeCall(c, q, rest), NEW L, L = Len(cs.code)
    PROVE  /\ \A f \in DOMAIN cs.fixups : f \in DOMAIN cs'.fixups /\ cs'.fixups[f] = cs.fixups[f]
           /\ \A f \in DOMAIN cs'.fixups :
                 \/ f \in DOMAIN cs.fixups /\ cs'.fixups[f] = cs.fixups[f]
                 \/ /\ c.call = "reference" /\ cs'.fixups[f].pc = L
                    /\ cs'.fixups[f].line = c.number % 65536
<1>1. /\ cs \in StateType /\ cs' = Effect(cs, c) /\ c \in CallType
  BY DEF MadeCall
<1> DEFINE nt == cs'
<1>2. /\ c.call = "emit" \/ c.call = "patch" \/ c.call \notin {"emit", "reference", "patch"}
            => nt.fixups = cs.fixups
      /\ c.call = "reference" => ReferenceMade(nt, cs, c.op, c.number % 65536)
  BY <1>1, EffectTyped
<1> HIDE DEF nt
<1>3. CASE nt.fixups = cs.fixups
  BY <1>3 DEF nt
<1>4. CASE /\ c.call = "reference"
           /\ nt.fixups = Append(cs.fixups, [pc |-> Len(cs.code), line |-> c.number % 65536])
  <2> DEFINE e == [pc |-> Len(cs.code), line |-> c.number % 65536]
             s == cs.fixups
             t == nt.fixups
  <2>1. s \in Seq(FixupType)
    BY <1>1, StateFields
  <2>2. e.pc = L /\ e.line = c.number % 65536 /\ t = Append(s, e)
    BY <1>4
  <2> HIDE DEF e, s, t
  <2>3. /\ Len(s) \in Nat /\ DOMAIN s = 1..Len(s) /\ DOMAIN t = 1..(Len(s) + 1)
        /\ \A i \in 1..Len(s) : t[i] = s[i]
        /\ t[Len(s) + 1] = e
    BY <2>1, <2>2, AppendAt
  <2>4. \A f \in DOMAIN s : f \in DOMAIN t /\ t[f] = s[f]
    BY <2>3
  <2>5. \A f \in DOMAIN t : \/ f \in DOMAIN s /\ t[f] = s[f]
                            \/ t[f] = e
    BY <2>3
  <2> QED
    BY <1>4, <2>2, <2>4, <2>5 DEF s, t, nt
<1>5. \/ nt.fixups = cs.fixups
      \/ /\ c.call = "reference"
         /\ nt.fixups = Append(cs.fixups, [pc |-> Len(cs.code), line |-> c.number % 65536])
  BY <1>2 DEF ReferenceMade
<1> QED
  BY <1>3, <1>4, <1>5

(* The patches that a call makes are of the jumps of its IF.               *)
LEMMA PatchesMade ==
    ASSUME JumpsInv, NEW c, NEW q, NEW rest, MadeCall(c, q, rest),
           NEW x \in ToSet(todo'), x.call = "patch", NEW L, L = Len(cs.code)
    PROVE  \/ x \in ToSet(rest)
           \/ c.call = "else" /\ x.pc = L
           \/ c.call = "else" /\ x.pc < L /\ cs.code[x.pc + 1].op = "JUMP_IF_FALSE"
<1>1. /\ cs \in StateType /\ c \in CallType /\ q = Calls(cs, c) /\ CallsMade(todo', q, rest)
      /\ todo # <<>> /\ todo[1] = c /\ ToSet(todo) = {c} \cup ToSet(rest)
  BY DEF MadeCall
<1>2. ToSet(todo') = ToSet(q) \cup ToSet(rest)
  BY <1>1 DEF CallsMade
<1> SUFFICES ASSUME x \in ToSet(q)
             PROVE  \/ c.call = "else" /\ x.pc = L
                    \/ c.call = "else" /\ x.pc < L /\ cs.code[x.pc + 1].op = "JUMP_IF_FALSE"
  BY <1>2
<1>3. x \notin PlainCall
  BY PlainIsPlain
<1>4. CASE c.call # "else"
  <2>1. \/ ToSet(q) \subseteq PlainCall
        \/ /\ q[1] = Emit("JUMP_IF_FALSE", 0)
           /\ ToSet(q) \subseteq {q[1], ElsePart(c.stmt, Len(cs.code))} \cup PlainCall
    BY <1>1, <1>4, CallsAre
  <2> QED
    BY <1>3, <2>1, PatchesAre
<1>5. CASE c.call = "else"
  <2>1. /\ q # <<>> /\ c.test \in Nat
        /\ ToSet(Tail(q)) \subseteq {PatchHere(c.test), PatchHere(Len(cs.code))} \cup PlainCall
        /\ \/ q[1] = PatchHere(c.test) /\ ToSet(q) = {PatchHere(c.test)}
           \/ /\ q[1] = Emit("JUMP", 0)
              /\ ToSet(q) = {Emit("JUMP", 0)} \cup ToSet(Tail(q))
    <3>1. /\ c.stmt \in IfStatement /\ c.test \in Nat
      BY <1>1, <1>5, CallKinds
    <3> DEFINE st == cs
    <3>2. st \in StateType /\ q = Calls(st, c)
      BY <1>1
    <3>3. \/ q[1] = PatchHere(c.test) /\ ToSet(q) = {PatchHere(c.test)}
          \/ /\ q[1] = Emit("JUMP", 0)
             /\ ToSet(q) = {Emit("JUMP", 0)} \cup ToSet(Tail(q))
      BY <1>1, <1>5, <3>2, PlainIsPlain, CallsAre
    <3> QED
      BY <1>1, <1>5, <3>1, <3>3, ElseCalls
  <2>2. x = PatchHere(c.test) \/ x = PatchHere(L)
    BY <1>3, <2>1, PatchesAre
  <2>3. CASE x = PatchHere(c.test)
    <3>1. x.pc = c.test
      BY <2>3, PatchesAre
    <3>2. \/ c.test < L /\ cs.code[c.test + 1].op = "JUMP_IF_FALSE"
          \/ c.test = L /\ Emits("JUMP_IF_FALSE")
      BY <1>1, <1>5 DEF JumpsInv
    <3>3. ~Emits("JUMP_IF_FALSE")
      BY <1>1, <1>5, PatchesAre DEF Emits
    <3> QED
      BY <1>5, <3>1, <3>2, <3>3
  <2>4. CASE x = PatchHere(L)
    BY <1>5, <2>4, PatchesAre
  <2> QED
    BY <2>2, <2>3, <2>4
<1> QED
  BY <1>4, <1>5

(* A call leaves every reference bound to its line.                        *)
LEMMA BoundAfterCall ==
    ASSUME TypeInv, JumpsInv, NEW c, NEW q, NEW rest, MadeCall(c, q, rest),
           NEW L, L = Len(cs.code), NEW j \in 1..L, IsReference(cs.code[j]),
           NEW line, Bound(j, line)
    PROVE  Bound(j, line)'
<1>1. /\ cs \in StateType /\ cs' = Effect(cs, c) /\ c \in CallType
      /\ phase = "compiling" /\ phase' = phase /\ ToSet(todo) = {c} \cup ToSet(rest)
      /\ L \in Nat
  BY StateFields DEF MadeCall
<1>2. cs'.lines = cs.lines
  BY <1>1, EffectTyped
<1>3. cs'.code[j] = cs.code[j]
  <2> DEFINE nt == cs'
  <2>1. c.call # "patch" => \A i \in 1..L : nt.code[i] = cs.code[i]
    BY <1>1, CodeGrows
  <2>2. c.call = "patch" => \A i \in 1..L : i # c.pc + 1 => nt.code[i] = cs.code[i]
    BY <1>1, EffectTyped
  <2>3. c.call = "patch" => c.pc + 1 # j
    BY <1>1 DEF Bound
  <2> QED
    BY <2>1, <2>2, <2>3
<1>4. /\ \A f \in DOMAIN cs.fixups : f \in DOMAIN cs'.fixups /\ cs'.fixups[f] = cs.fixups[f]
      /\ \A f \in DOMAIN cs'.fixups :
            \/ f \in DOMAIN cs.fixups /\ cs'.fixups[f] = cs.fixups[f]
            \/ cs'.fixups[f].pc = L
  BY FixupsMade
<1>5. Unresolved = DOMAIN cs.fixups /\ Unresolved' = DOMAIN cs'.fixups
  BY <1>1 DEF Unresolved
<1>6. ASSUME NEW x \in ToSet(todo'), x.call = "patch" PROVE x.pc + 1 # j
  <2>1. \/ x \in ToSet(rest)
        \/ x.pc = L
        \/ cs.code[x.pc + 1].op = "JUMP_IF_FALSE"
    BY <1>6, PatchesMade
  <2>2. CASE x \in ToSet(rest)
    BY <1>1, <1>6, <2>2 DEF Bound
  <2>3. CASE x.pc = L
    BY <1>1, <2>3
  <2>4. CASE cs.code[x.pc + 1].op = "JUMP_IF_FALSE"
    BY <2>4 DEF IsReference
  <2> QED
    BY <2>1, <2>2, <2>3, <2>4
<1>7. \A f \in DOMAIN cs'.fixups : cs'.fixups[f].pc + 1 = j => cs'.fixups[f].line = line
  <2> SUFFICES ASSUME NEW f \in DOMAIN cs'.fixups, cs'.fixups[f].pc + 1 = j
               PROVE  cs'.fixups[f].line = line
    OBVIOUS
  <2>1. f \in DOMAIN cs.fixups /\ cs'.fixups[f] = cs.fixups[f]
    BY <1>1, <1>4
  <2> QED
    BY <2>1 DEF Bound
<1>8. \/ \E k \in DOMAIN cs'.lines : /\ cs'.lines[k].line = line
                                     /\ cs'.code[j].arg = Operand16(cs'.lines[k].offset)
      \/ \E f \in Unresolved' : cs'.fixups[f].pc + 1 = j
  <2>1. CASE \E k \in DOMAIN cs.lines : /\ cs.lines[k].line = line
                                        /\ cs.code[j].arg = Operand16(cs.lines[k].offset)
    BY <1>2, <1>3, <2>1
  <2>2. CASE \E f \in Unresolved : cs.fixups[f].pc + 1 = j
    BY <1>4, <1>5, <2>2
  <2> QED
    BY <2>1, <2>2 DEF Bound
<1> QED
  BY <1>6, <1>7, <1>8 DEF Bound

(* The jumps of the last statement, when an instruction is added.          *)
LEMMA SegmentGrows ==
    ASSUME TypeInv, LinesInv, NEW i \in DOMAIN cs.lines, i = Len(cs.lines),
           cs'.lines = cs.lines, NEW L, L = Len(cs.code), Len(cs'.code) = L + 1,
           \A j \in 1..L : cs'.code[j].op = cs.code[j].op
    PROVE  /\ IsReference(cs'.code[L + 1]) =>
                 ReferencesIn(FirstInst(i), LastInst(i))' =
                    ReferencesIn(FirstInst(i), LastInst(i)) \cup {L + 1}
           /\ ~IsReference(cs'.code[L + 1]) =>
                 ReferencesIn(FirstInst(i), LastInst(i))' =
                    ReferencesIn(FirstInst(i), LastInst(i))
<1> DEFINE first == cs.lines[i].offset + 1
<1>1. /\ ReferencesIn(FirstInst(i), LastInst(i)) = {j \in first..L : IsReference(cs.code[j])}
      /\ ReferencesIn(FirstInst(i), LastInst(i))' =
            {j \in first..(L + 1) : IsReference(cs'.code[j])}
  BY DEF ReferencesIn, FirstInst, LastInst, IsReference
<1>2. first \in Nat /\ first >= 1 /\ first <= L + 1 /\ L \in Nat
  <2>1. FirstInst(i) \in Nat /\ FirstInst(i) >= 1 /\ L \in Nat
    BY Segment
  <2>2. cs.lines[i].offset <= L
    BY DEF LinesInv
  <2>3. cs.lines \in LinesType
    BY StateFields DEF TypeInv
  <2>4. cs.lines[i].offset \in Nat
    BY <2>3, LinesTyped
  <2> QED
    BY <2>1, <2>2, <2>4 DEF FirstInst
<1> HIDE DEF first
<1>3. \A j \in first..L : IsReference(cs'.code[j]) <=> IsReference(cs.code[j])
  BY <1>2 DEF IsReference
<1>4. {j \in first..(L + 1) : IsReference(cs'.code[j])}
      = {j \in first..L : IsReference(cs.code[j])}
        \cup {j \in {L + 1} : IsReference(cs'.code[j])}
  BY <1>2, <1>3
<1> QED
  BY <1>1, <1>4

(* A call leaves the references of the statements before the last one.     *)
LEMMA CallKeepsDone ==
    ASSUME TypeInv, LinesInv, JumpsInv, NEW c, NEW q, NEW rest, MadeCall(c, q, rest),
           DonePlaced
    PROVE  DonePlaced'
<1> DEFINE nt == cs'
<1>1. cs \in StateType /\ nt = Effect(cs, c) /\ c \in CallType /\ source' = source
  BY DEF MadeCall
<1>2. nt.lines = cs.lines
  BY <1>1, EffectTyped
<1>3. /\ Len(nt.code) \in Nat /\ Len(nt.code) >= Len(cs.code)
      /\ \A j \in 1..Len(cs.code) : nt.code[j].op = cs.code[j].op
  BY <1>1, CodeGrows
<1> HIDE DEF nt
<1> SUFFICES ASSUME NEW i \in DOMAIN cs'.lines, i < Len(cs'.lines)
             PROVE  (\E P : Placed(i, RefsOf(i), P))'
  BY DEF DonePlaced
<1>4. i \in DOMAIN cs.lines /\ i < Len(cs.lines)
  BY <1>2 DEF nt
<1>5. PICK P : Placed(i, RefsOf(i), P)
  BY <1>4 DEF DonePlaced
<1>6. PICK D : D = RefsOf(i)
  OBVIOUS
<1>7. D = RefsOf(i)'
  BY <1>1, <1>6 DEF RefsOf
<1>8. FirstInst(i)' = FirstInst(i) /\ LastInst(i)' = LastInst(i)
  BY <1>2, <1>4 DEF FirstInst, LastInst, nt
<1>9. ReferencesIn(FirstInst(i), LastInst(i))' = ReferencesIn(FirstInst(i), LastInst(i))
  BY <1>3, <1>4, <1>8, SegmentKept DEF nt
<1>10. \A j \in 1..Len(cs.code) : \A line \in Word :
          IsReference(cs.code[j]) /\ Bound(j, line) => Bound(j, line)'
  BY BoundAfterCall
<1>11. Placed(i, D, P)
  BY <1>5, <1>6
<1>12. Placed(i, D, P)'
  BY <1>3, <1>4, <1>9, <1>10, <1>11, PlacedKept DEF nt
<1> QED
  BY <1>7, <1>12

(* What the next call adds to the references of the last statement.        *)
LEMMA LastStep ==
    ASSUME LastPlaced, cs.lines # <<>>, NEW c, NEW q, NEW rest, MadeCall(c, q, rest)
    PROVE  \E D, P, t : /\ Placed(Len(cs.lines), D, P) /\ <<c, D, t>> \in RefStep
                        /\ Chain(RefStep, rest, t, RefsOf(Len(cs.lines)))
<1>1. PICK D, P : /\ Placed(Len(cs.lines), D, P)
                  /\ Chain(RefStep, todo, D, RefsOf(Len(cs.lines)))
  BY DEF LastPlaced
<1>2. /\ todo \in Seq(CallType) /\ todo # <<>> /\ c \in CallType /\ rest \in Seq(CallType)
      /\ todo = <<c>> \o rest
  BY DEF MadeCall
<1>3. Tail(todo) = rest /\ todo[1] = c
  BY <1>2, ToSetFirst
<1>4. Head(todo) = c
  BY <1>2, <1>3
<1>5. \E t : /\ <<Head(todo), D, t>> \in RefStep
             /\ Chain(RefStep, Tail(todo), t, RefsOf(Len(cs.lines)))
  BY <1>1, <1>2, ChainHead
<1> QED
  BY <1>1, <1>3, <1>4, <1>5

(* The operand of a reference, when it is emitted.                         *)
LEMMA NewBound ==
    ASSUME TypeInv, LinesInv, FixupsInv, JumpsInv, NEW c, NEW q, NEW rest,
           MadeCall(c, q, rest), NEW L, L = Len(cs.code),
           c.call = "reference", c.number \in Word
    PROVE  Bound(L + 1, c.number)'
<1> DEFINE nt == cs'
<1>1. /\ cs \in StateType /\ nt = Effect(cs, c) /\ c \in CallType
      /\ phase = "compiling" /\ phase' = phase /\ ToSet(todo) = {c} \cup ToSet(rest)
      /\ todo # <<>> /\ todo[1] = c /\ L \in Nat
  BY StateFields DEF MadeCall
<1>2. c.number \in Int /\ c.number % 65536 = c.number
  BY WordRange, WordCut
<1>3. nt.lines = cs.lines /\ ReferenceMade(nt, cs, c.op, c.number)
  BY <1>1, <1>2, EffectTyped
<1> HIDE DEF nt
<1>4. Unresolved' = DOMAIN cs'.fixups
  BY <1>1 DEF Unresolved
<1>5. \/ \E k \in DOMAIN nt.lines : /\ nt.lines[k].line = c.number
                                    /\ nt.code[L + 1].arg = Operand16(nt.lines[k].offset)
      \/ \E f \in DOMAIN nt.fixups : nt.fixups[f].pc + 1 = L + 1
  <2> DEFINE offset == compiler_find_line_offset(cs, c.number)
  <2>1. CASE offset \in Nat
    <3>1. nt.code = Append(cs.code, Instruction(c.op, Operand16(offset)))
      BY <1>3, <2>1 DEF ReferenceMade
    <3>2. \E k \in DOMAIN cs.lines : cs.lines[k].line = c.number /\ cs.lines[k].offset = offset
      BY <1>2, <2>1, SearchOfMap
    <3> HIDE DEF offset
    <3> DEFINE s == cs.code
               e == Instruction(c.op, Operand16(offset))
               t == nt.code
    <3>3. s \in Seq(InstType) /\ t = Append(s, e) /\ e.arg = Operand16(offset)
      BY <1>1, <3>1, StateFields, InstructionFields
    <3> HIDE DEF s, e, t
    <3>4. t[Len(s) + 1] = e
      BY <3>3, AppendAt
    <3> QED
      BY <1>3, <3>2, <3>3, <3>4 DEF s, t
  <2>2. CASE offset = -1
    <3>1. nt.fixups = Append(cs.fixups, [pc |-> Len(cs.code), line |-> c.number])
      BY <1>3, <2>2 DEF ReferenceMade
    <3> HIDE DEF offset
    <3> DEFINE s == cs.fixups
               e == [pc |-> Len(cs.code), line |-> c.number]
               t == nt.fixups
    <3>2. s \in Seq(FixupType) /\ t = Append(s, e) /\ e.pc = L
      BY <1>1, <3>1, StateFields
    <3> HIDE DEF s, e, t
    <3>3. t[Len(s) + 1] = e /\ Len(s) + 1 \in DOMAIN t
      BY <3>2, AppendAt
    <3> QED
      BY <3>2, <3>3 DEF t
  <2> QED
    BY <1>3, <2>1, <2>2 DEF ReferenceMade
<1>6. ASSUME NEW f \in DOMAIN cs'.fixups, cs'.fixups[f].pc + 1 = L + 1
      PROVE  cs'.fixups[f].line = c.number
  <2>1. \/ f \in DOMAIN cs.fixups /\ cs'.fixups[f] = cs.fixups[f]
        \/ cs'.fixups[f].line = c.number
    BY <1>2, FixupsMade
  <2>2. CASE f \in DOMAIN cs.fixups /\ cs'.fixups[f] = cs.fixups[f]
    <3>1. cs.fixups[f].pc < L
      BY <2>2 DEF FixupsInv
    <3>2. cs.fixups[f].pc \in Nat
      <4>1. cs.fixups[f] \in FixupType
        BY <1>1, <2>2, StateFields
      <4> QED
        BY <4>1 DEF FixupType
    <3> QED
      BY <1>1, <1>6, <2>2, <3>1, <3>2
  <2> QED
    BY <2>1, <2>2
<1>7. ASSUME NEW x \in ToSet(todo'), x.call = "patch" PROVE x.pc + 1 # L + 1
  <2>1. x \in ToSet(rest)
    BY <1>7, PatchesMade
  <2>2. \/ x.pc < L
        \/ x.pc = L /\ Emits("JUMP")
    BY <1>1, <1>7, <2>1 DEF JumpsInv
  <2>3. ~Emits("JUMP")
    BY <1>1, PatchesAre DEF Emits
  <2>4. x \in CallType
    BY <2>1 DEF MadeCall
  <2>5. x.pc \in Nat
    BY <1>7, <2>4, CallKinds, PlainIsPlain
  <2> QED
    BY <1>1, <2>2, <2>3, <2>5
<1> QED
  BY <1>4, <1>5, <1>6, <1>7 DEF Bound, nt

(* A call that is no reference and no JUMP leaves those of the last one.   *)
LEMMA LastKept ==
    ASSUME TypeInv, LinesInv, JumpsInv, NEW c, NEW q, NEW rest, MadeCall(c, q, rest),
           NEW N, N = Len(cs.lines), N \in DOMAIN cs.lines, NEW D, NEW P, Placed(N, D, P),
           c.call # "reference", ~(c.call = "emit" /\ c.op = "JUMP")
    PROVE  Placed(N, D, P)'
<1> DEFINE nt == cs'
<1>1. cs \in StateType /\ nt = Effect(cs, c) /\ c \in CallType
  BY DEF MadeCall
<1>2. nt.lines = cs.lines
  BY <1>1, EffectTyped
<1>3. /\ Len(nt.code) \in Nat /\ Len(nt.code) >= Len(cs.code) /\ Len(cs.code) \in Nat
      /\ \A j \in 1..Len(cs.code) : nt.code[j].op = cs.code[j].op
  BY <1>1, CodeGrows
<1>4. \A j \in 1..Len(cs.code) : \A line \in Word :
         IsReference(cs.code[j]) /\ Bound(j, line) => Bound(j, line)'
  BY BoundAfterCall
<1>5. PICK L : L = Len(cs.code)
  OBVIOUS
<1>6. ReferencesIn(FirstInst(N), LastInst(N))' = ReferencesIn(FirstInst(N), LastInst(N))
  <2>1. CASE c.call = "emit"
    <3>1. Len(nt.code) = L + 1 /\ nt.code[L + 1].op = c.op
      BY <1>1, <1>5, <2>1, CallEmits
    <3>2. c.op \notin {"JUMP", "GOSUB", "TRAP", "NOP"}
      <4>1. \/ c.op \in {"JUMP_IF_FALSE", "JUMP"}
            \/ c \in PlainEmit
        BY <1>1, <2>1, CallKinds, PlainIsPlain
      <4> QED
        BY <2>1, <4>1 DEF PlainEmit, JumpOps
    <3>3. ~IsReference(nt.code[L + 1])
      BY <3>1, <3>2 DEF IsReference
    <3> HIDE DEF nt
    <3>4. /\ Len(cs'.code) = L + 1 /\ ~IsReference(cs'.code[L + 1]) /\ cs'.lines = cs.lines
          /\ \A j \in 1..L : cs'.code[j].op = cs.code[j].op
      BY <1>2, <1>3, <1>5, <3>1, <3>3 DEF nt
    <3> QED
      BY <1>5, <3>4, SegmentGrows
  <2>2. CASE c.call # "emit"
    <3>1. nt.code = cs.code \/ Len(nt.code) = Len(cs.code)
      BY <1>1, <2>2, EffectTyped
    <3> HIDE DEF nt
    <3>2. Len(cs'.code) = Len(cs.code) /\ cs'.lines = cs.lines
      BY <1>2, <3>1 DEF nt
    <3>3. FirstInst(N)' = FirstInst(N) /\ LastInst(N)' = LastInst(N)
      BY <3>2 DEF FirstInst, LastInst
    <3> QED
      BY <1>3, <3>3, SegmentKept DEF nt
  <2> QED
    BY <2>1, <2>2
<1> HIDE DEF nt
<1>7. Len(cs'.code) \in Nat /\ Len(cs'.code) >= Len(cs.code)
  BY <1>3 DEF nt
<1> QED
  BY <1>4, <1>6, <1>7, PlacedKept

(* The JUMP over an ELSE part, or a reference, is added to them.           *)
LEMMA LastGrows ==
    ASSUME TypeInv, LinesInv, JumpsInv, FixupsInv, NEW c, NEW q, NEW rest,
           MadeCall(c, q, rest), NEW N, N = Len(cs.lines), N \in DOMAIN cs.lines,
           NEW D, NEW P, Placed(N, D, P),
           c.call = "reference" \/ (c.call = "emit" /\ c.op = "JUMP"),
           c.call = "reference" => c.number \in Word,
           NEW r, r = IF c.call = "reference" THEN LineNumber(c.number) ELSE Skip
    PROVE  \E Q : Placed(N, D \o <<r>>, Q)'
<1> DEFINE nt == cs'
<1>1. cs \in StateType /\ nt = Effect(cs, c) /\ c \in CallType
  BY DEF MadeCall
<1>2. nt.lines = cs.lines
  BY <1>1, EffectTyped
<1>3. \A j \in 1..Len(cs.code) : nt.code[j].op = cs.code[j].op
  BY <1>1, CodeGrows
<1>4. \A j \in 1..Len(cs.code) : \A line \in Word :
         IsReference(cs.code[j]) /\ Bound(j, line) => Bound(j, line)'
  BY BoundAfterCall
<1>5. PICK L : L = Len(cs.code)
  OBVIOUS
<1>6. Len(nt.code) = L + 1 /\ IsReference(nt.code[L + 1])
  <2>1. CASE c.call = "emit"
    <3>1. Len(nt.code) = L + 1 /\ nt.code[L + 1].op = c.op
      BY <1>1, <1>5, <2>1, CallEmits
    <3> QED
      BY <2>1, <3>1 DEF IsReference
  <2>2. CASE c.call = "reference"
    <3>1. ReferenceMade(nt, cs, c.op, c.number % 65536)
      BY <1>1, <2>2, EffectTyped
    <3>2. c.op \in ReferenceOps
      BY <1>1, <2>2, CallKinds, PlainIsPlain DEF ReferenceCall
    <3>3. PICK arg : nt.code = Append(cs.code, Instruction(c.op, arg))
      BY <3>1 DEF ReferenceMade
    <3> DEFINE s == cs.code
               e == Instruction(c.op, arg)
               t == nt.code
    <3>4. s \in Seq(InstType) /\ t = Append(s, e) /\ e.op = c.op
      BY <1>1, <3>3, StateFields, InstructionFields
    <3> HIDE DEF s, e, t
    <3>5. t[Len(s) + 1] = e /\ Len(t) = Len(s) + 1
      BY <3>4, AppendAt
    <3> QED
      BY <1>5, <3>2, <3>4, <3>5 DEF s, t, IsReference, ReferenceOps
  <2> QED
    BY <2>1, <2>2
<1> HIDE DEF nt
<1>7. /\ Len(cs'.code) = L + 1 /\ IsReference(cs'.code[L + 1]) /\ cs'.lines = cs.lines
      /\ \A j \in 1..L : cs'.code[j].op = cs.code[j].op
  BY <1>2, <1>3, <1>5, <1>6 DEF nt
<1>8. ReferencesIn(FirstInst(N), LastInst(N))' =
         ReferencesIn(FirstInst(N), LastInst(N)) \cup {L + 1}
  BY <1>5, <1>7, SegmentGrows
<1>9. r \in Ref
  BY RefFields
<1>10. r # Skip => Bound(L + 1, r.val)'
  <2>1. CASE c.call = "reference"
    <3>1. r.val = c.number
      BY <2>1, RefFields
    <3>2. Bound(L + 1, c.number)'
      BY <1>5, <2>1, NewBound
    <3> QED
      BY <3>1, <3>2
  <2>2. CASE c.call # "reference"
    BY <2>2
  <2> QED
    BY <2>1, <2>2
<1> QED
  BY <1>4, <1>5, <1>7, <1>8, <1>9, <1>10, PlacedGrows

(* A call leads on to the references of the last statement.                *)
LEMMA CallKeepsLast ==
    ASSUME PlainReferences, TypeInv, LinesInv, FixupsInv, JumpsInv,
           NEW c, NEW q, NEW rest, MadeCall(c, q, rest), LastPlaced, cs.lines # <<>>
    PROVE  LastPlaced'
<1> DEFINE nt == cs'
<1>1. /\ cs \in StateType /\ nt = Effect(cs, c) /\ c \in CallType /\ source' = source
      /\ q = Calls(cs, c) /\ q \in Seq(CallType) /\ rest \in Seq(CallType)
      /\ todo' = q \o rest
  BY DEF MadeCall
<1>2. nt.lines = cs.lines
  BY <1>1, EffectTyped
<1> HIDE DEF nt
<1>3. PICK N : N = Len(cs.lines)
  OBVIOUS
<1>4. N \in DOMAIN cs.lines /\ Len(cs'.lines) = N
  <2>1. cs.lines \in LinesType
    BY <1>1, StateFields
  <2> QED
    BY <1>2, <1>3, <2>1 DEF nt, LinesType
<1>5. PICK W : W = RefsOf(N)
  OBVIOUS
<1>6. (RefsOf(N) = W)'
  BY <1>1, <1>5 DEF RefsOf
<1>7. PICK D, P, t : Placed(N, D, P) /\ <<c, D, t>> \in RefStep /\ Chain(RefStep, rest, t, W)
  BY <1>3, <1>5, LastStep
<1>8. /\ D \in Seq(Ref) /\ t = D \o CallRefs(c) /\ D \o <<>> = D
      /\ (c.call = "reference" => c.number \in Word)
  <2>1. D \in Seq(Ref) /\ t = D \o CallRefs(c) /\ (c.call = "reference" => c.number \in Word)
    BY <1>7, RefStepIs
  <2> QED
    BY <2>1
<1>9. \E E : (\E Q : Placed(N, E, Q)') /\ Chain(RefStep, q \o rest, E, W)
  <2>1. CASE c.call \notin {"emit", "reference"}
    <3>1. Chain(RefStep, q, D, t)
      BY <1>1, <1>7, <2>1, CallKeepsRefs
    <3>2. Chain(RefStep, q \o rest, D, W)
      BY <1>1, <1>7, <3>1, ChainJoin
    <3>3. Placed(N, D, P)'
      BY <1>3, <1>4, <1>7, <2>1, LastKept
    <3> QED
      BY <3>2, <3>3
  <2>2. CASE c.call \in {"emit", "reference"}
    <3>1. q = <<>>
      BY <1>1, <2>2 DEF Calls
    <3>2. q \o rest = rest
      BY <1>1, <3>1
    <3>3. CASE c.call = "emit" /\ c.op # "JUMP"
      <4>1. CallRefs(c) = <<>>
        BY <3>3 DEF CallRefs
      <4>2. t = D
        BY <1>8, <4>1
      <4>3. Placed(N, D, P)'
        BY <1>3, <1>4, <1>7, <3>3, LastKept
      <4> QED
        BY <1>7, <3>2, <4>2, <4>3
    <3>4. CASE c.call = "reference" \/ (c.call = "emit" /\ c.op = "JUMP")
      <4>1. PICK r : /\ r = IF c.call = "reference" THEN LineNumber(c.number) ELSE Skip
                     /\ CallRefs(c) = <<r>>
        BY <3>4 DEF CallRefs
      <4>2. \E Q : Placed(N, D \o <<r>>, Q)'
        BY <1>3, <1>4, <1>7, <1>8, <3>4, <4>1, LastGrows
      <4>3. t = D \o <<r>>
        BY <1>8, <4>1
      <4> QED
        BY <1>7, <3>2, <4>2, <4>3
    <3>5. \/ c.call = "emit" /\ c.op # "JUMP"
          \/ c.call = "reference" \/ (c.call = "emit" /\ c.op = "JUMP")
      BY <2>2
    <3> QED
      BY <3>3, <3>4, <3>5
  <2> QED
    BY <2>1, <2>2
<1>10. PICK E, Q : Placed(N, E, Q)' /\ Chain(RefStep, q \o rest, E, W)
  BY <1>9
<1>11. (Len(cs.lines) = N)'
  BY <1>4
<1>12. Chain(RefStep, todo, E, W)'
  BY <1>1, <1>10 DEF Chain
<1> QED
  BY <1>6, <1>10, <1>11, <1>12 DEF LastPlaced

(* The line of a new fixup comes from the last statement.                  *)
LEMMA CallKeepsWanted ==
    ASSUME PlainReferences, TypeInv, NEW c, NEW q, NEW rest, MadeCall(c, q, rest),
           LastPlaced, cs.lines # <<>>, FixupsWanted
    PROVE  FixupsWanted'
<1>1. source' = source /\ rest \in Seq(CallType) /\ c \in CallType
  BY DEF MadeCall
<1>2. \A i : RefsOf(i)' = RefsOf(i)
  BY <1>1 DEF RefsOf
<1>3. PICK L : L = Len(cs.code)
  OBVIOUS
<1> SUFFICES ASSUME NEW f \in DOMAIN cs'.fixups
             PROVE  \E i \in DOMAIN source :
                       LineNumber(cs'.fixups[f].line) \in ToSet(References[source[i].stmt])
  BY <1>1 DEF FixupsWanted, RefsOf, LineNumber
<1>4. \/ f \in DOMAIN cs.fixups /\ cs'.fixups[f] = cs.fixups[f]
      \/ c.call = "reference" /\ cs'.fixups[f].line = c.number % 65536
  BY <1>3, FixupsMade
<1>5. CASE f \in DOMAIN cs.fixups /\ cs'.fixups[f] = cs.fixups[f]
  BY <1>5 DEF FixupsWanted, RefsOf
<1>6. CASE c.call = "reference" /\ cs'.fixups[f].line = c.number % 65536
  <2>1. PICK D, P, t : /\ <<c, D, t>> \in RefStep
                       /\ Chain(RefStep, rest, t, RefsOf(Len(cs.lines)))
    BY LastStep
  <2>2. D \in Seq(Ref) /\ t \in Seq(Ref) /\ t = D \o CallRefs(c) /\ c.number \in Word
    BY <1>6, <2>1, RefStepIs
  <2>3. CallRefs(c) = <<LineNumber(c.number)>> /\ LineNumber(c.number) \in Ref
    BY <1>6, <2>2, RefFields DEF CallRefs
  <2>4. LineNumber(c.number) \in ToSet(t)
    <3> DEFINE r == LineNumber(c.number)
    <3>1. r \in Ref /\ t = D \o <<r>>
      BY <2>2, <2>3
    <3> HIDE DEF r
    <3>2. ToSet(t) = ToSet(D) \cup {r}
      BY <2>2, <3>1, ToSetEnds
    <3> QED
      BY <3>2 DEF r
  <2>5. LineNumber(c.number) \in ToSet(RefsOf(Len(cs.lines)))
    BY <1>1, <2>1, <2>2, <2>4, ChainKeeps
  <2>6. cs'.fixups[f].line = c.number
    <3>1. c.number \in Int /\ c.number % 65536 = c.number
      <4>1. c.number \in Word
        BY <2>2
      <4> QED
        BY <4>1, WordRange, WordCut
    <3> QED
      BY <1>6, <3>1
  <2>7. Len(cs.lines) \in DOMAIN source
    <3>1. cs.lines \in LinesType
      BY StateFields DEF TypeInv
    <3>2. Len(cs.lines) \in Nat /\ Len(cs.lines) # 0
      BY <3>1 DEF LinesType
    <3>3. source \in Sources /\ Len(cs.lines) <= Len(source)
      BY DEF TypeInv
    <3> QED
      BY <3>2, <3>3, SourceTyped
  <2> QED
    BY <2>5, <2>6, <2>7 DEF RefsOf
<1> QED
  BY <1>4, <1>5, <1>6

-----------------------------------------------------------------------------
(* The references stay in their places.                                    *)

(* Before the first statement.                                             *)
LEMMA RefsAtFirst == CompilerInit => RefsInv
<1> SUFFICES ASSUME CompilerInit PROVE RefsInv
  OBVIOUS
<1>1. cs.lines = <<>> /\ cs.fixups = <<>> /\ todo = <<>> /\ phase = "compiling"
  BY DEF CompilerInit, NewCompilerState
<1> QED
  BY <1>1 DEF RefsInv, FixupsWanted, DonePlaced, LastPlaced

(* A call of a code generator.                                             *)
LEMMA RefsMakeCall ==
    ASSUME PlainReferences, CompilerInv, RefsInv, MakeCall
    PROVE  RefsInv'
<1>1. TypeInv /\ LinesInv /\ FixupsInv /\ JumpsInv
  BY DEF CompilerInv
<1>2. PICK c, q, rest : MadeCall(c, q, rest)
  BY <1>1, CallStep
<1>3. /\ cs \in StateType /\ cs' = Effect(cs, c) /\ c \in CallType
      /\ phase = "compiling" /\ phase' = phase /\ todo # <<>>
  BY <1>2 DEF MadeCall
<1>4. cs.lines # <<>> /\ FixupsWanted /\ DonePlaced /\ LastPlaced
  BY <1>3 DEF RefsInv
<1>5. cs'.lines = cs.lines
  <2> DEFINE nt == cs'
  <2>1. nt.lines = cs.lines
    BY <1>3, EffectTyped
  <2> QED
    BY <2>1
<1>6. FixupsWanted'
  BY <1>1, <1>2, <1>4, CallKeepsWanted
<1>7. DonePlaced'
  BY <1>1, <1>2, <1>4, CallKeepsDone
<1>8. LastPlaced'
  BY <1>1, <1>2, <1>4, CallKeepsLast
<1> QED
  BY <1>3, <1>4, <1>5, <1>6, <1>7, <1>8 DEF RefsInv

(* A step after the last call that only patches references.                *)
LEMMA RefsFrame ==
    ASSUME TypeInv, LinesInv, RefsInv, phase # "failed", phase' # "failed",
           cs'.lines = cs.lines, cs'.fixups = cs.fixups, source' = source,
           todo = <<>>, todo' = todo, Len(cs'.code) = Len(cs.code),
           \A j \in 1..Len(cs.code) : cs'.code[j].op = cs.code[j].op,
           \A j \in 1..Len(cs.code) : \A line \in Word :
              IsReference(cs.code[j]) /\ Bound(j, line) => Bound(j, line)'
    PROVE  RefsInv'
<1>1. FixupsWanted /\ DonePlaced /\ LastPlaced
  BY DEF RefsInv
<1>2. cs.lines \in LinesType /\ Len(cs.code) \in Nat
  BY StateFields DEF TypeInv
<1>3. Len(cs.lines) \in Nat /\ DOMAIN cs.lines = 1..Len(cs.lines)
  BY <1>2, LinesTyped
<1>4. ASSUME NEW i \in DOMAIN cs.lines, NEW D, NEW P, Placed(i, D, P)
      PROVE  Placed(i, D, P)'
  <2>1. FirstInst(i)' = FirstInst(i) /\ LastInst(i)' = LastInst(i)
    BY DEF FirstInst, LastInst
  <2>2. ReferencesIn(FirstInst(i), LastInst(i))' = ReferencesIn(FirstInst(i), LastInst(i))
    BY <2>1, SegmentKept
  <2>3. Len(cs'.code) \in Nat /\ Len(cs'.code) >= Len(cs.code)
    BY <1>2
  <2> QED
    BY <1>4, <2>2, <2>3, PlacedKept
<1>5. FixupsWanted'
  BY <1>1 DEF FixupsWanted, RefsOf
<1>6. DonePlaced'
  <2> SUFFICES ASSUME NEW i \in DOMAIN cs'.lines, i < Len(cs'.lines)
               PROVE  (\E P : Placed(i, RefsOf(i), P))'
    BY DEF DonePlaced
  <2>1. PICK D : D = RefsOf(i)
    OBVIOUS
  <2>2. (D = RefsOf(i))'
    BY <2>1 DEF RefsOf
  <2>3. i \in DOMAIN cs.lines /\ i < Len(cs.lines)
    OBVIOUS
  <2>4. PICK P : Placed(i, D, P)
    BY <1>1, <2>1, <2>3 DEF DonePlaced
  <2>5. Placed(i, D, P)'
    BY <1>4, <2>3, <2>4
  <2> QED
    BY <2>2, <2>5
<1>7. LastPlaced'
  <2> SUFFICES ASSUME cs'.lines # <<>>
               PROVE  (\E D, P : /\ Placed(Len(cs.lines), D, P)
                                 /\ Chain(RefStep, todo, D, RefsOf(Len(cs.lines))))'
    BY DEF LastPlaced
  <2>1. PICK N : N = Len(cs.lines)
    OBVIOUS
  <2>2. PICK W : W = RefsOf(N)
    OBVIOUS
  <2>3. (N = Len(cs.lines))' /\ (W = RefsOf(N))'
    BY <2>1, <2>2 DEF RefsOf
  <2>4. N \in DOMAIN cs.lines
    <3>1. cs.lines # <<>>
      OBVIOUS
    <3> QED
      BY <1>2, <1>3, <2>1, <3>1 DEF LinesType
  <2>5. PICK D, P : Placed(N, D, P) /\ Chain(RefStep, todo, D, W)
    BY <1>1, <2>1, <2>2 DEF LastPlaced
  <2>6. Placed(N, D, P)'
    BY <1>4, <2>4, <2>5
  <2>7. Chain(RefStep, todo, D, W)'
    BY <2>5 DEF Chain
  <2> QED
    BY <2>3, <2>6, <2>7
<1> QED
  BY <1>5, <1>6, <1>7 DEF RefsInv

(* All statements have been compiled.                                      *)
LEMMA RefsResolveJumps ==
    ASSUME CompilerInv, RefsInv, ResolveJumps
    PROVE  RefsInv'
<1>1. TypeInv /\ LinesInv
  BY DEF CompilerInv
<1>2. /\ phase = "compiling" /\ phase' = "resolving" /\ next' = 1 /\ todo = <<>>
      /\ UNCHANGED <<source, cs, todo>>
  BY DEF ResolveJumps
<1>3. Unresolved' = Unresolved
  <2>1. DOMAIN cs.fixups = 1..Len(cs.fixups)
    BY <1>1, StateFields DEF TypeInv
  <2> QED
    BY <1>2, <2>1 DEF Unresolved
<1>4. ASSUME NEW j, NEW line, Bound(j, line) PROVE Bound(j, line)'
  BY <1>2, <1>3, <1>4 DEF Bound
<1> QED
  BY <1>1, <1>2, <1>4, RefsFrame

(* All fixups have been resolved.                                          *)
LEMMA RefsReturnProgram ==
    ASSUME CompilerInv, RefsInv, ReturnProgram
    PROVE  RefsInv'
<1>1. TypeInv /\ LinesInv
  BY DEF CompilerInv
<1>2. /\ phase = "resolving" /\ phase' = "compiled" /\ next > Len(cs.fixups)
      /\ UNCHANGED <<source, cs, todo, next>>
  BY DEF ReturnProgram
<1>3. todo = <<>> /\ next \in Nat /\ Len(cs.fixups) \in Nat
  BY <1>1, <1>2, StateFields DEF TypeInv
<1>4. Unresolved = {}
  BY <1>2, <1>3 DEF Unresolved
<1>5. ASSUME NEW j, NEW line, Bound(j, line) PROVE Bound(j, line)'
  BY <1>2, <1>4, <1>5 DEF Bound
<1> QED
  BY <1>1, <1>2, <1>3, <1>5, RefsFrame

(* A fixup is resolved, or its line is not in the source.                  *)
LEMMA RefsNextFixup ==
    ASSUME CompilerInv, RefsInv, ResolveNextFixup
    PROVE  RefsInv'
<1>1. TypeInv /\ LinesInv /\ FixupsInv
  BY DEF CompilerInv
<1>2. phase = "resolving" /\ next' = next + 1 /\ UNCHANGED <<source, todo>>
  BY DEF ResolveNextFixup
<1>3. todo = <<>> /\ cs \in StateType /\ source \in Sources /\ Len(cs.lines) = Len(source)
  BY <1>1, <1>2 DEF TypeInv
<1>4. /\ next \in 1..Len(cs.fixups) /\ cs.fixups[next] \in FixupType
      /\ cs'.lines = cs.lines /\ cs'.fixups = cs.fixups
      /\ Len(cs'.code) = Len(cs.code)
  BY <1>1, FixupEffect
<1>5. /\ Len(cs.code) \in Nat /\ Len(cs.fixups) \in Nat
      /\ DOMAIN cs.fixups = 1..Len(cs.fixups)
      /\ \A f \in 1..Len(cs.fixups) : cs.fixups[f].pc \in Nat
  BY <1>3, StateFields DEF FixupType
<1>6. PICK line : line = cs.fixups[next].line
  OBVIOUS
<1>7. CASE /\ \A k \in DOMAIN cs.lines : cs.lines[k].line # line
           /\ phase' = "failed"
  <2>1. DOMAIN cs.lines = DOMAIN source
    <3>1. cs.lines \in LinesType
      BY <1>3, StateFields
    <3> QED
      BY <1>3, <3>1, LinesTyped, SourceTyped
  <2>2. ~Defined(line)
    BY <1>1, <1>7, <2>1 DEF Defined, LinesInv
  <2>3. PICK i \in DOMAIN source : LineNumber(line) \in ToSet(RefsOf(i))
    BY <1>4, <1>5, <1>6 DEF RefsInv, FixupsWanted
  <2>4. LineNumber(line) # Skip /\ LineNumber(line).val = line
    BY RefFields
  <2>5. Undefined
    BY <2>2, <2>3, <2>4 DEF Undefined
  <2>6. Undefined'
    BY <1>2, <2>5 DEF Undefined, RefsOf, Defined
  <2>7. FixupsWanted'
    BY <1>2, <1>4 DEF RefsInv, FixupsWanted, RefsOf
  <2> QED
    BY <1>2, <1>3, <1>7, <2>6, <2>7 DEF RefsInv
<1>8. CASE \E k \in DOMAIN cs.lines :
              /\ cs.lines[k].line = line
              /\ \A i \in 1..Len(cs.code) :
                    cs'.code[i] = IF i = cs.fixups[next].pc + 1
                                  THEN Instruction(cs.code[i].op,
                                                   Operand16(cs.lines[k].offset))
                                  ELSE cs.code[i]
              /\ phase' = "resolving"
  <2>1. PICK k \in DOMAIN cs.lines :
              /\ cs.lines[k].line = line
              /\ \A i \in 1..Len(cs.code) :
                    cs'.code[i] = IF i = cs.fixups[next].pc + 1
                                  THEN Instruction(cs.code[i].op,
                                                   Operand16(cs.lines[k].offset))
                                  ELSE cs.code[i]
              /\ phase' = "resolving"
    BY <1>8
  <2>2. Unresolved = next..Len(cs.fixups) /\ Unresolved' = (next + 1)..Len(cs.fixups)
    BY <1>2, <1>4, <2>1 DEF Unresolved
  <2>3. ASSUME NEW j \in 1..Len(cs.code), NEW l, Bound(j, l) PROVE Bound(j, l)'
    <3>1. /\ \/ \E m \in DOMAIN cs'.lines :
                   /\ cs'.lines[m].line = l
                   /\ cs'.code[j].arg = Operand16(cs'.lines[m].offset)
             \/ \E f \in Unresolved' : cs'.fixups[f].pc + 1 = j
      <4>1. CASE j = cs.fixups[next].pc + 1
        <5>1. line = l
          BY <1>4, <1>5, <1>6, <2>3, <4>1 DEF Bound
        <5>2. cs'.code[j].arg = Operand16(cs.lines[k].offset)
          BY <2>1, <4>1, InstructionFields
        <5> QED
          BY <1>4, <2>1, <5>1, <5>2
      <4>2. CASE j # cs.fixups[next].pc + 1
        <5>1. cs'.code[j] = cs.code[j]
          BY <2>1, <4>2
        <5>2. CASE \E m \in DOMAIN cs.lines : /\ cs.lines[m].line = l
                                              /\ cs.code[j].arg = Operand16(cs.lines[m].offset)
          BY <1>4, <5>1, <5>2
        <5>3. CASE \E f \in Unresolved : cs.fixups[f].pc + 1 = j
          <6>1. PICK f \in Unresolved : cs.fixups[f].pc + 1 = j
            BY <5>3
          <6>2. f # next
            BY <4>2, <6>1
          <6>3. f \in (next + 1)..Len(cs.fixups)
            BY <1>4, <1>5, <2>2, <6>2
          <6> QED
            BY <1>4, <2>2, <6>1, <6>3
        <5> QED
          BY <2>3, <5>2, <5>3 DEF Bound
      <4> QED
        BY <4>1, <4>2
    <3>2. /\ \A f \in DOMAIN cs'.fixups : cs'.fixups[f].pc + 1 = j => cs'.fixups[f].line = l
          /\ \A c \in ToSet(todo') : c.call = "patch" => c.pc + 1 # j
      BY <1>2, <1>4, <2>3 DEF Bound
    <3> QED
      BY <3>1, <3>2 DEF Bound
  <2>4. \A j \in 1..Len(cs.code) : cs'.code[j].op = cs.code[j].op
    BY <2>1, InstructionFields
  <2>5. phase # "failed" /\ phase' # "failed"
    BY <1>2, <2>1
  <2> QED
    BY <1>1, <1>2, <1>3, <1>4, <2>3, <2>4, <2>5, RefsFrame
<1>9. \/ /\ \A k \in DOMAIN cs.lines : cs.lines[k].line # line
         /\ phase' = "failed"
      \/ \E k \in DOMAIN cs.lines :
              /\ cs.lines[k].line = line
              /\ \A i \in 1..Len(cs.code) :
                    cs'.code[i] = IF i = cs.fixups[next].pc + 1
                                  THEN Instruction(cs.code[i].op,
                                                   Operand16(cs.lines[k].offset))
                                  ELSE cs.code[i]
              /\ phase' = "resolving"
  BY <1>1, <1>6, FixupEffect
<1> QED
  BY <1>7, <1>8, <1>9

(* The next statement starts where the code ends.                          *)
LEMMA RefsNextStatement ==
    ASSUME PlainReferences, CompilerInv, RefsInv, CompileNextStatement
    PROVE  RefsInv'
<1>1. TypeInv /\ LinesInv
  BY DEF CompilerInv
<1>2. /\ phase = "compiling" /\ todo = <<>> /\ next <= Len(source)
      /\ cs' = compiler_add_line_mapping(cs, source[next].line)
      /\ todo' = <<Statement(source[next].stmt)>>
      /\ source' = source /\ phase' = phase
  BY DEF CompileNextStatement
<1>3. PICK N, L : N = Len(cs.lines) /\ L = Len(cs.code)
  OBVIOUS
<1>4. source \in Sources /\ cs \in StateType /\ next \in Nat /\ next >= 1 /\ next = N + 1
  BY <1>1, <1>2, <1>3 DEF TypeInv
<1>5. /\ source[next].line \in Word /\ source[next].stmt \in StatementTree
      /\ next \in DOMAIN source
  BY <1>2, <1>4, SourceTyped
<1>6. PICK e : e = LineMapping(source[next].line, L)
  OBVIOUS
<1>7. cs'.code = cs.code /\ cs'.fixups = cs.fixups /\ cs'.lines = Append(cs.lines, e)
  BY <1>2, <1>3, <1>4, <1>5, <1>6, LinesEffect
<1>8. /\ N \in Nat /\ L \in Nat /\ DOMAIN cs.lines = 1..N /\ Len(cs'.lines) = N + 1
      /\ DOMAIN cs'.lines = 1..(N + 1)
      /\ \A k \in 1..N : cs'.lines[k] = cs.lines[k]
      /\ cs'.lines[N + 1] = e /\ e.offset = L
  <2>1. cs.lines \in LinesType
    BY <1>4, StateFields
  <2>2. cs.lines \in Seq([line : Word, offset : Nat])
    BY <2>1 DEF LinesType
  <2>3. N \in Nat /\ L \in Nat /\ DOMAIN cs.lines = 1..N
    BY <1>3, <1>4, <2>1, LinesTyped, StateFields
  <2>4. /\ Len(cs'.lines) = N + 1 /\ DOMAIN cs'.lines = 1..(N + 1)
        /\ \A k \in 1..N : cs'.lines[k] = cs.lines[k]
        /\ cs'.lines[N + 1] = e
    BY <1>3, <1>7, <2>2, AppendAt
  <2> QED
    BY <1>6, <2>3, <2>4 DEF LineMapping
<1>9. FixupsWanted /\ DonePlaced /\ LastPlaced
  BY <1>2 DEF RefsInv
<1>10. \A c \in ToSet(todo') : c.call # "patch"
  <2>1. ToSet(todo') = {Statement(source[next].stmt)}
    BY <1>2 DEF ToSet
  <2> QED
    BY <2>1 DEF Statement
<1>11. Unresolved' = Unresolved
  BY <1>2, <1>7 DEF Unresolved
<1>12. ASSUME NEW j, NEW line, Bound(j, line) PROVE Bound(j, line)'
  <2>1. \/ \E k \in DOMAIN cs'.lines : /\ cs'.lines[k].line = line
                                       /\ cs'.code[j].arg = Operand16(cs'.lines[k].offset)
        \/ \E f \in Unresolved' : cs'.fixups[f].pc + 1 = j
    <3>1. CASE \E k \in DOMAIN cs.lines : /\ cs.lines[k].line = line
                                          /\ cs.code[j].arg = Operand16(cs.lines[k].offset)
      <4>1. PICK k \in 1..N : /\ cs.lines[k].line = line
                              /\ cs.code[j].arg = Operand16(cs.lines[k].offset)
        BY <1>8, <3>1
      <4>2. k \in DOMAIN cs'.lines /\ cs'.lines[k] = cs.lines[k]
        BY <1>8
      <4> QED
        BY <1>7, <4>1, <4>2
    <3>2. CASE \E f \in Unresolved : cs.fixups[f].pc + 1 = j
      BY <1>7, <1>11, <3>2
    <3> QED
      BY <1>12, <3>1, <3>2 DEF Bound
  <2>2. \A f \in DOMAIN cs'.fixups : cs'.fixups[f].pc + 1 = j => cs'.fixups[f].line = line
    BY <1>7, <1>12 DEF Bound
  <2> QED
    BY <1>10, <2>1, <2>2 DEF Bound
<1>13. FixupsWanted'
  BY <1>2, <1>7, <1>9 DEF FixupsWanted, RefsOf
<1>14. ASSUME NEW i \in 1..N PROVE (\E P : Placed(i, RefsOf(i), P))'
  <2>1. PICK D : D = RefsOf(i)
    OBVIOUS
  <2>2. (D = RefsOf(i))'
    BY <1>2, <2>1 DEF RefsOf
  <2>3. \E P : Placed(i, D, P)
    <3>1. CASE i < N
      BY <1>3, <1>8, <1>9, <2>1, <3>1 DEF DonePlaced
    <3>2. CASE i = N
      <4>1. cs.lines # <<>>
        BY <1>3, <1>8
      <4>2. PICK E, P : Placed(i, E, P) /\ Chain(RefStep, <<>>, E, D)
        BY <1>2, <1>3, <1>9, <2>1, <3>2, <4>1 DEF LastPlaced
      <4>3. E = D
        BY <4>2, ChainNone
      <4> QED
        BY <4>2, <4>3
    <3> QED
      BY <1>8, <3>1, <3>2
  <2>4. FirstInst(i)' = FirstInst(i) /\ LastInst(i)' = LastInst(i)
    <3>1. FirstInst(i)' = FirstInst(i)
      BY <1>8 DEF FirstInst
    <3>2. CASE i = N
      <4>1. LastInst(i) = L
        BY <1>3, <3>2 DEF LastInst
      <4>2. i # Len(cs'.lines) /\ cs'.lines[i + 1] = e
        BY <1>8, <3>2
      <4>3. LastInst(i)' = L
        BY <1>8, <4>2 DEF LastInst
      <4> QED
        BY <3>1, <4>1, <4>3
    <3>3. CASE i # N
      <4>1. i + 1 \in 1..N /\ i # Len(cs'.lines) /\ i # Len(cs.lines)
        BY <1>3, <1>8, <3>3
      <4>2. cs'.lines[i + 1] = cs.lines[i + 1]
        BY <1>8, <4>1
      <4> QED
        BY <3>1, <4>1, <4>2 DEF LastInst
    <3> QED
      BY <3>2, <3>3
  <2>5. i \in DOMAIN cs.lines
    BY <1>8
  <2>6. \A j \in 1..Len(cs.code) : cs'.code[j].op = cs.code[j].op
    BY <1>7
  <2>7. ReferencesIn(FirstInst(i), LastInst(i))' = ReferencesIn(FirstInst(i), LastInst(i))
    BY <1>1, <2>4, <2>5, <2>6, SegmentKept
  <2>8. PICK P : Placed(i, D, P)
    BY <2>3
  <2>9. Len(cs'.code) \in Nat /\ Len(cs'.code) >= Len(cs.code)
    BY <1>3, <1>7, <1>8
  <2>10. Placed(i, D, P)'
    BY <1>1, <1>12, <2>5, <2>7, <2>8, <2>9, PlacedKept
  <2> QED
    BY <2>2, <2>10
<1>15. DonePlaced'
  <2>1. \A i \in DOMAIN cs'.lines : i < Len(cs'.lines) => i \in 1..N
    BY <1>8
  <2> QED
    BY <1>14, <2>1 DEF DonePlaced
<1>16. LastPlaced'
  <2>1. PICK M, W : M = N + 1 /\ W = References[source[next].stmt]
    OBVIOUS
  <2>2. (M = Len(cs.lines))' /\ (W = RefsOf(M))'
    BY <1>2, <1>4, <1>8, <2>1 DEF RefsOf
  <2>3. PICK D : D = <<>>
    OBVIOUS
  <2>4. PICK P : P = [n \in 1..0 |-> 1]
    OBVIOUS
  <2>5. D \in Seq(Ref) /\ Len(D) = 0 /\ 1..Len(D) = {}
    BY <2>3
  <2>6. P \in [1..Len(D) -> 1..Len(cs'.code)]
    BY <2>4, <2>5
  <2>7. ReferencesIn(FirstInst(M), LastInst(M))' = {}
    <3>1. FirstInst(M)' = L + 1 /\ LastInst(M)' = L
      BY <1>3, <1>7, <1>8, <2>1 DEF FirstInst, LastInst
    <3> QED
      BY <1>8, <3>1 DEF ReferencesIn
  <2>8. Placed(M, D, P)'
    <3>1. {P[n] : n \in 1..Len(D)} = {}
      BY <2>5
    <3> QED
      BY <2>5, <2>6, <2>7, <3>1 DEF Placed
  <2>9. Chain(RefStep, <<Statement(source[next].stmt)>>, D, W)
    <3>1. W \in Seq(Ref)
      BY <1>5, <2>1, ReferencesTyped
    <3>2. D \o W = W
      BY <2>3, <3>1
    <3> QED
      BY <1>5, <2>1, <2>5, <3>2, StatementStep, ChainOne
  <2>10. Chain(RefStep, todo, D, W)'
    BY <1>2, <2>9 DEF Chain
  <2> QED
    BY <2>2, <2>8, <2>10 DEF LastPlaced
<1>17. cs'.lines # <<>>
  BY <1>8
<1> QED
  BY <1>2, <1>13, <1>15, <1>16, <1>17 DEF RefsInv

(* What holds of every step.                                               *)
LEMMA RefsKept ==
    ASSUME PlainReferences, CompilerInv, RefsInv, [CompilerNext]_compilerVars
    PROVE  RefsInv'
<1>1. ASSUME UNCHANGED compilerVars PROVE RefsInv'
  <2>1. source' = source /\ cs' = cs /\ todo' = todo /\ next' = next /\ phase' = phase
    BY <1>1 DEF compilerVars
  <2>2. ASSUME NEW j, NEW line, Bound(j, line) PROVE Bound(j, line)'
    BY <2>1, <2>2 DEF Bound, Unresolved
  <2>3. ASSUME NEW i PROVE FirstInst(i)' = FirstInst(i) /\ LastInst(i)' = LastInst(i)
    BY <2>1 DEF FirstInst, LastInst
  <2>4. ASSUME NEW i, NEW D, NEW P, Placed(i, D, P) PROVE Placed(i, D, P)'
    <3>1. ReferencesIn(FirstInst(i), LastInst(i))' = ReferencesIn(FirstInst(i), LastInst(i))
      BY <2>1, <2>3 DEF ReferencesIn, IsReference
    <3> QED
      BY <2>1, <2>2, <2>4, <3>1 DEF Placed
  <2>5. ASSUME NEW i PROVE RefsOf(i)' = RefsOf(i)
    BY <2>1 DEF RefsOf
  <2>6. FixupsWanted => FixupsWanted'
    BY <2>1 DEF FixupsWanted, RefsOf
  <2>7. Undefined => Undefined'
    BY <2>1 DEF Undefined, RefsOf, Defined
  <2>8. DonePlaced => DonePlaced'
    <3> SUFFICES ASSUME DonePlaced, NEW i \in DOMAIN cs.lines, i < Len(cs.lines)
                 PROVE  (\E P : Placed(i, RefsOf(i), P))'
      BY <2>1 DEF DonePlaced
    <3>1. PICK D : D = RefsOf(i)
      OBVIOUS
    <3>2. (D = RefsOf(i))'
      BY <2>5, <3>1
    <3>3. \E P : Placed(i, D, P)'
      BY <2>4, <3>1 DEF DonePlaced
    <3> QED
      BY <3>2, <3>3
  <2>9. LastPlaced => LastPlaced'
    <3> SUFFICES ASSUME LastPlaced, cs.lines # <<>>
                 PROVE  (\E D, P : /\ Placed(Len(cs.lines), D, P)
                                   /\ Chain(RefStep, todo, D, RefsOf(Len(cs.lines))))'
      BY <2>1 DEF LastPlaced
    <3>1. PICK N, W : N = Len(cs.lines) /\ W = RefsOf(N)
      OBVIOUS
    <3>2. (N = Len(cs.lines) /\ W = RefsOf(N))'
      BY <2>1, <2>5, <3>1
    <3>3. PICK D, P : Placed(N, D, P) /\ Chain(RefStep, todo, D, W)
      BY <3>1 DEF LastPlaced
    <3>4. Placed(N, D, P)'
      BY <2>4, <3>3
    <3>5. Chain(RefStep, todo, D, W)'
      BY <2>1, <3>3 DEF Chain
    <3> QED
      BY <3>2, <3>4, <3>5
  <2> QED
    BY <2>1, <2>6, <2>7, <2>8, <2>9 DEF RefsInv
<1> QED
  BY <1>1, RefsNextStatement, RefsMakeCall, RefsResolveJumps, RefsNextFixup,
     RefsReturnProgram DEF CompilerNext

(* The references of the source stay in their places and with their lines, *)
(* when each of them is a line number.                                     *)
THEOREM ReferencesInvariant ==
    ASSUME PlainReferences
    PROVE  CompilerSpec => [](CompilerInv /\ RefsInv)
<1>1. CompilerInit => CompilerInv /\ RefsInv
  BY InvAtFirst, RefsAtFirst
<1>2. CompilerInv /\ RefsInv /\ [CompilerNext]_compilerVars => (CompilerInv /\ RefsInv)'
  BY InvKept, RefsKept
<1> QED
  BY <1>1, <1>2, PTL DEF CompilerSpec

-----------------------------------------------------------------------------
(* What follows.                                                           *)

(* In the end the references of each statement are in its code.            *)
LEMMA AllPlaced ==
    ASSUME TypeInv, RefsInv, phase = "compiled", NEW i \in DOMAIN source
    PROVE  i \in DOMAIN cs.lines /\ \E P : Placed(i, RefsOf(i), P)
<1>1. /\ source \in Sources /\ cs \in StateType /\ todo = <<>>
      /\ Len(cs.lines) = Len(source)
  BY DEF TypeInv
<1>2. DOMAIN cs.lines = 1..Len(cs.lines) /\ Len(cs.lines) \in Nat
  <2>1. cs.lines \in LinesType
    BY <1>1, StateFields
  <2> QED
    BY <2>1, LinesTyped
<1>3. i \in DOMAIN cs.lines
  BY <1>1, <1>2, SourceTyped
<1>4. DonePlaced /\ LastPlaced
  BY DEF RefsInv
<1>5. CASE i < Len(cs.lines)
  BY <1>3, <1>4, <1>5 DEF DonePlaced
<1>6. CASE i = Len(cs.lines)
  <2>1. cs.lines # <<>>
    BY <1>2, <1>3
  <2>2. PICK D, P : Placed(i, D, P) /\ Chain(RefStep, <<>>, D, RefsOf(i))
    BY <1>1, <1>4, <1>6, <2>1 DEF LastPlaced
  <2>3. D = RefsOf(i)
    BY <2>2, ChainNone
  <2> QED
    BY <1>3, <2>2, <2>3
<1> QED
  BY <1>2, <1>3, <1>5, <1>6

(* Then the operand of a reference is a place of its line.                 *)
LEMMA PlacesAreBound ==
    ASSUME TypeInv, LinesInv, phase = "compiled", NEW j, NEW line, Bound(j, line)
    PROVE  \E k \in DOMAIN cs.lines : /\ k \in DOMAIN source /\ source[k].line = line
                                      /\ cs.lines[k].line = line
                                      /\ cs.code[j].arg = Operand16(cs.lines[k].offset)
<1>1. Unresolved = {}
  BY DEF Unresolved
<1>2. PICK k \in DOMAIN cs.lines : /\ cs.lines[k].line = line
                                   /\ cs.code[j].arg = Operand16(cs.lines[k].offset)
  BY <1>1 DEF Bound
<1>3. DOMAIN cs.lines = DOMAIN source
  <2>1. /\ source \in Sources /\ cs \in StateType /\ Len(cs.lines) = Len(source)
    BY DEF TypeInv
  <2>2. cs.lines \in LinesType
    BY <2>1, StateFields
  <2> QED
    BY <2>1, <2>2, LinesTyped, SourceTyped
<1> QED
  BY <1>2, <1>3 DEF LinesInv

(* Compilation fails if a reference has no line, and only then.            *)
THEOREM FailsForLackOfALine ==
    ASSUME PlainReferences
    PROVE  CompilerSpec => []FailsOnUndefinedLine
<1>1. ASSUME CompilerInv, RefsInv PROVE FailsOnUndefinedLine
  <2>1. TypeInv /\ LinesInv
    BY <1>1 DEF CompilerInv
  <2>2. phase = "failed" => Undefined
    BY <1>1 DEF RefsInv
  <2>3. ASSUME phase = "compiled", NEW i \in DOMAIN source, NEW r \in ToSet(RefsOf(i)),
               r # Skip
        PROVE  Defined(r.val)
    <3>1. PICK P : Placed(i, RefsOf(i), P)
      BY <1>1, <2>1, <2>3, AllPlaced
    <3>2. PICK D : D = RefsOf(i)
      OBVIOUS
    <3>3. D \in Seq(Ref) /\ \A n \in 1..Len(D) : D[n] # Skip => Bound(P[n], D[n].val)
      BY <3>1, <3>2 DEF Placed
    <3>4. PICK n \in 1..Len(D) : D[n] = r
      BY <2>3, <3>2, <3>3 DEF ToSet
    <3>5. Bound(P[n], r.val)
      BY <2>3, <3>3, <3>4
    <3>6. \E k \in DOMAIN source : source[k].line = r.val
      BY <2>1, <2>3, <3>5, PlacesAreBound
    <3> QED
      BY <3>6 DEF Defined
  <2>4. phase = "compiled" => ~Undefined
    BY <2>3 DEF Undefined
  <2> QED
    BY <2>2, <2>4 DEF FailsOnUndefinedLine, Undefined, RefsOf
<1> QED
  BY <1>1, ReferencesInvariant, PTL

(* How many values an ascending function has.                              *)
LEMMA CountAscending ==
    ASSUME NEW n \in Nat, NEW P, \A m \in 1..n : P[m] \in Nat,
           \A l, m \in 1..n : l < m => P[l] < P[m]
    PROVE  Cardinality({P[m] : m \in 1..n}) = n
<1> DEFINE S == {P[m] : m \in 1..n}
           F == [m \in 1..n |-> P[m]]
<1>1. F \in [1..n -> S] /\ \A m \in 1..n : F[m] = P[m]
  OBVIOUS
<1>2. \A t \in S : \E m \in 1..n : F[m] = t
  OBVIOUS
<1>3. \A l, m \in 1..n : F[l] = F[m] => l = m
  <2> SUFFICES ASSUME NEW l \in 1..n, NEW m \in 1..n, P[l] = P[m] PROVE l = m
    BY <1>1
  <2>1. ~(l < m) /\ ~(m < l)
    OBVIOUS
  <2> QED
    BY <2>1
<1> HIDE DEF S, F
<1>4. F \in Bijection(1..n, S)
  BY <1>1, <1>2, <1>3 DEF Bijection, Injection, Surjection, IsInjective
<1> QED
  BY <1>4, FS_CountingElements DEF ExistsBijection, S

(* No two statements have the same line, so the one found is the first.    *)
LEMMA OnlyOne ==
    ASSUME OneStatementALine, source \in Sources, NEW k \in DOMAIN source, NEW line,
           source[k].line = line
    PROVE  FirstOf(line) = k
<1>1. \A i, j \in DOMAIN source : i < j => source[i].line < source[j].line
  BY DEF OneStatementALine
<1>2. /\ DOMAIN source = 1..Len(source) /\ Len(source) \in Nat
      /\ \A i \in 1..Len(source) : source[i].line \in Int
  <2>1. /\ DOMAIN source = 1..Len(source) /\ Len(source) \in Nat
        /\ \A i \in 1..Len(source) : source[i].line \in Word
    BY SourceTyped
  <2> QED
    BY <2>1, WordRange
<1>3. \A i \in DOMAIN source : source[i].line = line => i = k
  <2> SUFFICES ASSUME NEW i \in DOMAIN source, source[i].line = line PROVE i = k
    OBVIOUS
  <2>1. ~(i < k) /\ ~(k < i)
    BY <1>1, <1>2
  <2> QED
    BY <1>2, <2>1
<1>4. \A j \in 1..(k - 1) : source[j].line # line
  BY <1>2, <1>3
<1>5. k = CHOOSE i \in DOMAIN source : /\ source[i].line = line
                                       /\ \A j \in 1..(i - 1) : source[j].line # line
  BY <1>3, <1>4
<1> QED
  BY <1>5 DEF FirstOf

(* Every reference of the source becomes the operand of an instruction of  *)
(* its own statement, in the order of the text, and names the first        *)
(* instruction of its line.                                                *)
THEOREM ReferencesAreResolved ==
    ASSUME PlainReferences, OneStatementALine
    PROVE  CompilerSpec => []ReferencesResolved
<1>1. ASSUME CompilerInv, RefsInv PROVE ReferencesResolved
  <2> SUFFICES ASSUME phase = "compiled", Fits, NEW i \in DOMAIN source
               PROVE  LET wanted == References[source[i].stmt]
                          found == ReferencesIn(FirstInst(i), LastInst(i))
                      IN  /\ Cardinality(found) = Len(wanted)
                          /\ \A j \in found :
                                LET ref == wanted[Cardinality({h \in found : h <= j})]
                                IN  ref # Skip => cs.code[j].arg = StartOf(ref.val)
    BY DEF ReferencesResolved
  <2> DEFINE wanted == References[source[i].stmt]
             found == ReferencesIn(FirstInst(i), LastInst(i))
  <2>0. wanted = RefsOf(i) /\ found = ReferencesIn(FirstInst(i), LastInst(i))
    BY DEF RefsOf
  <2> HIDE DEF wanted, found
  <2>1. TypeInv /\ LinesInv
    BY <1>1 DEF CompilerInv
  <2>2. source \in Sources /\ cs \in StateType
    BY <2>1 DEF TypeInv
  <2>3. PICK P, k : Placed(i, wanted, P) /\ k = Len(wanted)
    BY <1>1, <2>0, <2>1, AllPlaced
  <2>4. /\ k \in Nat /\ found = {P[n] : n \in 1..k}
        /\ \A n \in 1..k : P[n] \in Nat
        /\ \A m, n \in 1..k : m < n => P[m] < P[n]
        /\ \A n \in 1..k : wanted[n] # Skip => Bound(P[n], wanted[n].val)
    <3>1. Len(cs.code) \in Nat
      BY <2>2, StateFields
    <3>2. /\ wanted \in Seq(Ref) /\ P \in [1..k -> 1..Len(cs.code)]
          /\ found = {P[n] : n \in 1..k}
          /\ \A m, n \in 1..k : m < n => P[m] < P[n]
          /\ \A n \in 1..k : wanted[n] # Skip => Bound(P[n], wanted[n].val)
      BY <2>0, <2>3 DEF Placed
    <3>3. \A n \in 1..k : P[n] \in Nat
      BY <3>1, <3>2
    <3>4. k \in Nat
      BY <2>3, <3>2
    <3> QED
      BY <3>2, <3>3, <3>4
  <2>5. Cardinality(found) = k
    BY <2>4, CountAscending
  <2>6. ASSUME NEW n \in 1..k PROVE Cardinality({h \in found : h <= P[n]}) = n
    <3>1. {h \in found : h <= P[n]} = {P[m] : m \in 1..n}
      <4>1. ASSUME NEW m \in 1..k, P[m] <= P[n] PROVE m \in 1..n
        <5>1. ~(n < m)
          BY <2>4, <4>1
        <5> QED
          BY <2>4, <5>1
      <4>2. ASSUME NEW m \in 1..n PROVE m \in 1..k /\ P[m] <= P[n]
        <5>1. m \in 1..k
          BY <2>4
        <5>2. m < n => P[m] < P[n]
          BY <2>4, <5>1
        <5>3. m = n \/ m < n
          OBVIOUS
        <5> QED
          BY <2>4, <5>1, <5>2, <5>3
      <4> QED
        BY <2>4, <4>1, <4>2
    <3>2. /\ n \in Nat /\ \A m \in 1..n : P[m] \in Nat
          /\ \A l, m \in 1..n : l < m => P[l] < P[m]
      BY <2>4
    <3> QED
      BY <3>1, <3>2, CountAscending
  <2>7. ASSUME NEW n \in 1..k, wanted[n] # Skip
        PROVE  cs.code[P[n]].arg = StartOf(wanted[n].val)
    <3>1. PICK line : line = wanted[n].val /\ Bound(P[n], line)
      BY <2>4, <2>7
    <3>2. PICK m \in DOMAIN cs.lines : /\ m \in DOMAIN source /\ source[m].line = line
                                       /\ cs.lines[m].line = line
                                       /\ cs.code[P[n]].arg = Operand16(cs.lines[m].offset)
      BY <2>1, <3>1, PlacesAreBound
    <3>3. FirstOf(line) = m
      BY <2>2, <3>2, OnlyOne
    <3>4. cs.lines[m].offset \in Nat /\ cs.lines[m].offset < Placeholder
      <4>1. cs.lines \in LinesType /\ Len(cs.code) \in Nat
        BY <2>2, StateFields
      <4>2. cs.lines[m].offset \in Nat
        BY <4>1, LinesTyped
      <4>3. cs.lines[m].offset <= Len(cs.code)
        BY <2>1 DEF LinesInv
      <4> QED
        BY <4>1, <4>2, <4>3 DEF Fits, Placeholder
    <3>5. Operand16(cs.lines[m].offset) = cs.lines[m].offset
      BY <3>4, PlaceFits
    <3> QED
      BY <3>1, <3>2, <3>3, <3>5 DEF StartOf
  <2>8. ASSUME NEW j \in found
        PROVE  LET ref == wanted[Cardinality({h \in found : h <= j})]
               IN  ref # Skip => cs.code[j].arg = StartOf(ref.val)
    <3>1. PICK n \in 1..k : j = P[n]
      BY <2>4
    <3>2. Cardinality({h \in found : h <= j}) = n
      BY <2>6, <3>1
    <3> QED
      BY <2>7, <3>1, <3>2
  <2> QED
    BY <2>3, <2>5, <2>8 DEF wanted, found
<1> QED
  BY <1>1, ReferencesInvariant, PTL
=============================================================================
