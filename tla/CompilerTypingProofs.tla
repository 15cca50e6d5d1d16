------------------------- MODULE CompilerTypingProofs -------------------------
(***************************************************************************)
(* What the compiler emits passes the verifier, for every source whose     *)
(* operands have the types their operators take.                           *)
(*                                                                         *)
(* A point is the shape of the operand stack and the number of entries of  *)
(* an ON's table that are due.  Each call takes one point to another: what *)
(* an expression does to the stack is to add the types it yields, and a    *)
(* statement does nothing (TypeStep).  What a call does is what the calls  *)
(* do that it makes in its turn (CallKeepsTyping), and what an emitted     *)
(* instruction does on the operands above any other stack (Framed).  So    *)
(* the code so far is typed, and the calls that remain take its last point *)
(* to the empty stack (CodeTyped).                                         *)
(*                                                                         *)
(* Places where the stack is empty, outside all tables, remain such when   *)
(* code is added or patched; the operands of jumps, and the line map, name *)
(* only such places, but for the operands that are owed a patch (Landed).  *)
(***************************************************************************)
EXTENDS CompilerSoundProofs

-----------------------------------------------------------------------------
(* Shapes of the operand stack.                                            *)

StackType == Seq({"num", "str"})

(* The top of a stack does not depend on what lies beneath.                *)
LEMMA TopJoin ==
    ASSUME NEW s \in StackType, NEW t \in StackType, t # <<>>
    PROVE  /\ s \o t \in StackType /\ Below(s \o t) = s \o Below(t)
           /\ Below(t) \in StackType
           /\ \A x : TopIs(s \o t, x) <=> TopIs(t, x)
<1>1. /\ s \in Seq({"num", "str"}) /\ t \in Seq({"num", "str"}) /\ Len(t) \in Nat
      /\ Len(t) # 0 /\ Len(s \o t) = Len(s) + Len(t) /\ Len(s) \in Nat
      /\ s \o t \in Seq({"num", "str"}) /\ s \o t # <<>>
  BY DEF StackType
<1>2. Below(s \o t) = s \o Below(t)
  BY <1>1 DEF Below
<1>3. (s \o t)[Len(s) + Len(t)] = t[Len(t)]
  BY <1>1
<1>4. Below(t) \in Seq({"num", "str"})
  BY <1>1 DEF Below
<1> QED
  BY <1>1, <1>2, <1>3, <1>4 DEF TopIs, StackType

(* So it is with what is put on it.                                        *)
LEMMA AboveJoin ==
    ASSUME NEW s \in StackType, NEW t \in StackType, NEW x \in {"num", "str"}
    PROVE  Above(s \o t, x) = s \o Above(t, x) /\ Above(t, x) \in StackType
           /\ Above(s, x) = s \o <<x>>
<1>1. s \in Seq({"num", "str"}) /\ t \in Seq({"num", "str"})
  BY DEF StackType
<1>2. Append(s \o t, x) = s \o Append(t, x) /\ Append(t, x) \in Seq({"num", "str"})
  BY <1>1
<1>3. Append(s, x) = s \o <<x>>
  BY <1>1
<1> QED
  BY <1>2, <1>3 DEF Above, StackType

(* The top two operands, and those below them.                             *)
LEMMA TopTwo ==
    ASSUME NEW t \in StackType
    PROVE  /\ \A x : TopIs(t, x) => t # <<>>
           /\ <<>> \in StackType
BY DEF TopIs, StackType

-----------------------------------------------------------------------------
(* The rules of the verifier, for the operands on top of a stack.          *)

(* What each class of opcodes takes.                                       *)
LEMMA TakesWhat ==
    ASSUME NEW op, NEW s
    PROVE  /\ op \in NoEffectOps \cup PushNumOps \cup PushStrOps => Takes(op, s)
           /\ op \in TakeNumOps \cup UnaryOps \cup NumToStrOps /\ TopIs(s, "num") => Takes(op, s)
           /\ op \in StrToNumOps \cup {"STR_POP_VAR"} /\ TopIs(s, "str") => Takes(op, s)
           /\ op \in BinaryOps /\ TopIs(s, "num") /\ TopIs(Below(s), "num") => Takes(op, s)
           /\ op \in CompareOps /\ Len(s) >= 2 /\ s[Len(s)] = s[Len(s) - 1] => Takes(op, s)
           /\ op \in SliceOps /\ TopIs(s, "num") /\ TopIs(Below(s), "str") => Takes(op, s)
           /\ op = "STR_MID" /\ TopIs(s, "num") /\ TopIs(Below(s), "num")
                 /\ TopIs(Below(Below(s)), "str") => Takes(op, s)
           /\ op = "FOR_INIT" /\ TopIs(s, "num") /\ TopIs(Below(s), "num")
                 /\ TopIs(Below(Below(s)), "num") => Takes(op, s)
           /\ op \in DimOps \cup NumGetOps \cup StrGetOps /\ SubscriptsOn(s, Rank(op))
                 => Takes(op, s)
           /\ op \in NumSetOps /\ TopIs(s, "num") /\ SubscriptsOn(Below(s), Rank(op))
                 => Takes(op, s)
           /\ op \in StrSetOps /\ TopIs(s, "str") /\ SubscriptsOn(Below(s), Rank(op))
                 => Takes(op, s)
           /\ op \in IOOps /\ EndsWith(s, IOTakes(op)) => Takes(op, s)
BY DEF Takes

(* What each leaves.                                                       *)
LEMMA LeavesWhat ==
    ASSUME NEW op, NEW s
    PROVE  /\ op \in NoEffectOps => Leaves(op, s) = s
           /\ op \in PushNumOps => Leaves(op, s) = Above(s, "num")
           /\ op \in PushStrOps => Leaves(op, s) = Above(s, "str")
           /\ op \in TakeNumOps \cup {"STR_POP_VAR"} => Leaves(op, s) = Below(s)
           /\ op \in UnaryOps \cup StrToNumOps => Leaves(op, s) = Above(Below(s), "num")
           /\ op \in NumToStrOps => Leaves(op, s) = Above(Below(s), "str")
           /\ op \in BinaryOps \cup CompareOps => Leaves(op, s) = Above(Below(Below(s)), "num")
           /\ op \in SliceOps => Leaves(op, s) = Above(Below(Below(s)), "str")
           /\ op = "STR_MID" => Leaves(op, s) = Above(Below(Below(Below(s))), "str")
           /\ op = "FOR_INIT" => Leaves(op, s) = Below(Below(Below(s)))
           /\ op \in DimOps => Leaves(op, s) = BelowSubscripts(s, Rank(op))
           /\ op \in NumGetOps => Leaves(op, s) = Above(BelowSubscripts(s, Rank(op)), "num")
           /\ op \in StrGetOps => Leaves(op, s) = Above(BelowSubscripts(s, Rank(op)), "str")
           /\ op \in NumSetOps \cup StrSetOps =>
                 Leaves(op, s) = BelowSubscripts(Below(s), Rank(op))
<1> HIDE DEF Above
<1> QED
  BY DEF Leaves, PushNumOps, PushStrOps, TakeNumOps, UnaryOps, BinaryOps, CompareOps,
         StrToNumOps, NumToStrOps, SliceOps, NoEffectOps, DimOps, NumGetOps,
         StrGetOps, NumSetOps, StrSetOps, IOOps, IOPlainOps, IONumOps, IOPairOps

(* The opcodes of input and output have their own tables.                  *)
LEMMA IOLeavesWhat ==
    ASSUME NEW op \in IOOps, NEW s
    PROVE  /\ Leaves(op, s) = Under(s, Len(IOTakes(op))) \o IOLeaves(op)
           /\ IOTakes(op) \in StackType /\ IOLeaves(op) \in StackType
<1>1. Leaves(op, s) = Under(s, Len(IOTakes(op))) \o IOLeaves(op)
  <2>1. op \notin NoEffectOps \cup PushNumOps \cup PushStrOps \cup TakeNumOps
                  \cup UnaryOps \cup NumToStrOps \cup StrToNumOps \cup BinaryOps
                  \cup CompareOps \cup SliceOps
                  \cup {"STR_POP_VAR", "STR_MID", "FOR_INIT"}
    BY DEF PushNumOps, PushStrOps, TakeNumOps, UnaryOps, BinaryOps, CompareOps,
           StrToNumOps, NumToStrOps, SliceOps, NoEffectOps, IOOps, IOPlainOps,
           IONumOps, IOPairOps
  <2>2. op \notin DimOps \cup NumGetOps \cup StrGetOps \cup NumSetOps \cup StrSetOps
    BY DEF DimOps, NumGetOps, StrGetOps, NumSetOps, StrSetOps, IOOps, IOPlainOps,
           IONumOps, IOPairOps
  <2> QED
    BY <2>1, <2>2 DEF Leaves
<1>2. IOTakes(op) \in StackType
  <2>1. IOTakes(op) \in {<<>>, <<"num">>, <<"num", "num">>, <<"str">>, <<"num", "num", "num">>,
                         <<"num", "num", "num", "str">>, <<"num", "num", "num", "num", "str">>}
    BY DEF IOTakes, IOPlainOps, IONumOps, IOPairOps, IOOps
  <2>2. /\ <<>> \in StackType /\ <<"num">> \in StackType /\ <<"num", "num">> \in StackType
        /\ <<"str">> \in StackType /\ <<"num", "num", "num">> \in StackType
        /\ <<"num", "num", "num", "str">> \in StackType
        /\ <<"num", "num", "num", "num", "str">> \in StackType
    BY DEF StackType
  <2> QED
    BY <2>1, <2>2
<1>3. IOLeaves(op) \in StackType
  <2>1. IOLeaves(op) \in {<<>>, <<"num">>, <<"num", "num">>}
    BY DEF IOLeaves
  <2>2. <<>> \in StackType /\ <<"num">> \in StackType /\ <<"num", "num">> \in StackType
    BY DEF StackType
  <2> QED
    BY <2>1, <2>2
<1> QED
  BY <1>1, <1>2, <1>3

(* A rule that lets an opcode act on a stack lets it act on any stack that *)
(* has the first one on top, and what lies beneath stays.                  *)
LEMMA Framed ==
    ASSUME NEW op, NEW s \in StackType, NEW t \in StackType, Takes(op, t)
    PROVE  /\ Takes(op, s \o t) /\ Leaves(op, s \o t) = s \o Leaves(op, t)
           /\ Leaves(op, t) \in StackType
<1> DEFINE st == s \o t
           b == Below(t)
           c == Below(b)
           d == Below(c)
<1>0. st \in StackType /\ s \o <<>> = s
  BY DEF StackType
<1>1. t # <<>> => /\ b \in StackType /\ Below(st) = s \o b
                  /\ \A x : TopIs(st, x) <=> TopIs(t, x)
  BY TopJoin
<1> HIDE DEF st, b
<1>2. ASSUME t # <<>>, b # <<>>
      PROVE  /\ c \in StackType /\ Below(Below(st)) = s \o c
             /\ \A x : TopIs(Below(st), x) <=> TopIs(b, x)
  <2>1. b \in StackType /\ Below(st) = s \o b
    BY <1>1, <1>2
  <2>2. /\ Below(b) \in StackType /\ Below(s \o b) = s \o Below(b)
        /\ \A x : TopIs(s \o b, x) <=> TopIs(b, x)
    BY <1>2, <2>1, TopJoin
  <2> QED
    BY <2>1, <2>2
<1> HIDE DEF c
<1>3. ASSUME t # <<>>, b # <<>>, c # <<>>
      PROVE  /\ d \in StackType /\ Below(Below(Below(st))) = s \o d
             /\ \A x : TopIs(Below(Below(st)), x) <=> TopIs(c, x)
  <2>1. c \in StackType /\ Below(Below(st)) = s \o c
    BY <1>2, <1>3
  <2>2. /\ Below(c) \in StackType /\ Below(s \o c) = s \o Below(c)
        /\ \A x : TopIs(s \o c, x) <=> TopIs(c, x)
    BY <1>3, <2>1, TopJoin
  <2> QED
    BY <2>1, <2>2
<1> HIDE DEF d
<1>4. \A w, x : TopIs(w, x) => w # <<>>
  BY DEF TopIs
<1>5. \A w \in StackType : \A x \in {"num", "str"} :
         Above(s \o w, x) = s \o Above(w, x) /\ Above(w, x) \in StackType
  BY AboveJoin
<1> SUFFICES /\ Takes(op, st) /\ Leaves(op, st) = s \o Leaves(op, t)
             /\ Leaves(op, t) \in StackType
  BY DEF st
<1>b. Below(t) = b /\ Below(b) = c /\ Below(c) = d /\ st = s \o t
  BY DEF b, c, d, st
<1>6. CASE op \in NoEffectOps
  <2>1. Leaves(op, st) = st /\ Leaves(op, t) = t
    BY <1>6, LeavesWhat
  <2>2. Takes(op, st)
    BY <1>6, TakesWhat
  <2>3. t \in StackType /\ st = s \o t
    BY <1>6, <1>b
  <2> QED
    BY <1>b, <2>1, <2>2, <2>3
<1>7. CASE op \in PushNumOps
  <2>1. Leaves(op, st) = Above(st, "num") /\ Leaves(op, t) = Above(t, "num")
    BY <1>7, LeavesWhat
  <2>2. Takes(op, st)
    BY <1>7, TakesWhat
  <2>3. t \in StackType /\ st = s \o t
    BY <1>7, <1>b
  <2>4. Above(s \o t, "num") = s \o Above(t, "num") /\ Above(t, "num") \in StackType
    BY <1>5, <2>3
  <2> QED
    BY <1>b, <2>1, <2>2, <2>3, <2>4
<1>8. CASE op \in PushStrOps
  <2>1. Leaves(op, st) = Above(st, "str") /\ Leaves(op, t) = Above(t, "str")
    BY <1>8, LeavesWhat
  <2>2. Takes(op, st)
    BY <1>8, TakesWhat
  <2>3. t \in StackType /\ st = s \o t
    BY <1>8, <1>b
  <2>4. Above(s \o t, "str") = s \o Above(t, "str") /\ Above(t, "str") \in StackType
    BY <1>5, <2>3
  <2> QED
    BY <1>b, <2>1, <2>2, <2>3, <2>4
<1>9. CASE op \in TakeNumOps /\ TopIs(t, "num")
  <2>1. Leaves(op, st) = Below(st) /\ Leaves(op, t) = Below(t)
    BY <1>9, LeavesWhat
  <2>2. Takes(op, st)
    BY <1>1, <1>4, <1>9, TakesWhat
  <2>3. b \in StackType /\ Below(st) = s \o b
    BY <1>1, <1>4, <1>9, <1>b
  <2> QED
    BY <1>b, <2>1, <2>2, <2>3
<1>10. CASE op \in UnaryOps /\ TopIs(t, "num")
  <2>1. Leaves(op, st) = Above(Below(st), "num") /\ Leaves(op, t) = Above(Below(t), "num")
    BY <1>10, LeavesWhat
  <2>2. Takes(op, st)
    BY <1>1, <1>4, <1>10, TakesWhat
  <2>3. b \in StackType /\ Below(st) = s \o b
    BY <1>1, <1>4, <1>10, <1>b
  <2>4. Above(s \o b, "num") = s \o Above(b, "num") /\ Above(b, "num") \in StackType
    BY <1>5, <2>3
  <2> QED
    BY <1>b, <2>1, <2>2, <2>3, <2>4
<1>11. CASE op \in NumToStrOps /\ TopIs(t, "num")
  <2>1. Leaves(op, st) = Above(Below(st), "str") /\ Leaves(op, t) = Above(Below(t), "str")
    BY <1>11, LeavesWhat
  <2>2. Takes(op, st)
    BY <1>1, <1>4, <1>11, TakesWhat
  <2>3. b \in StackType /\ Below(st) = s \o b
    BY <1>1, <1>4, <1>11, <1>b
  <2>4. Above(s \o b, "str") = s \o Above(b, "str") /\ Above(b, "str") \in StackType
    BY <1>5, <2>3
  <2> QED
    BY <1>b, <2>1, <2>2, <2>3, <2>4
<1>12. CASE op \in StrToNumOps /\ TopIs(t, "str")
  <2>1. Leaves(op, st) = Above(Below(st), "num") /\ Leaves(op, t) = Above(Below(t), "num")
    BY <1>12, LeavesWhat
  <2>2. Takes(op, st)
    BY <1>1, <1>4, <1>12, TakesWhat
  <2>3. b \in StackType /\ Below(st) = s \o b
    BY <1>1, <1>4, <1>12, <1>b
  <2>4. Above(s \o b, "num") = s \o Above(b, "num") /\ Above(b, "num") \in StackType
    BY <1>5, <2>3
  <2> QED
    BY <1>b, <2>1, <2>2, <2>3, <2>4
<1>13. CASE op = "STR_POP_VAR" /\ TopIs(t, "str")
  <2>1. Leaves(op, st) = Below(st) /\ Leaves(op, t) = Below(t)
    BY <1>13, LeavesWhat
  <2>2. Takes(op, st)
    BY <1>1, <1>4, <1>13, TakesWhat
  <2>3. b \in StackType /\ Below(st) = s \o b
    BY <1>1, <1>4, <1>13, <1>b
  <2> QED
    BY <1>b, <2>1, <2>2, <2>3
<1>14. CASE op \in BinaryOps /\ TopIs(t, "num") /\ TopIs(b, "num")
  <2>1. /\ Leaves(op, st) = Above(Below(Below(st)), "num")
        /\ Leaves(op, t) = Above(Below(Below(t)), "num")
    BY <1>14, LeavesWhat
  <2>2. Takes(op, st)
    BY <1>1, <1>2, <1>4, <1>14, TakesWhat
  <2>3. c \in StackType /\ Below(Below(st)) = s \o c
    BY <1>1, <1>2, <1>4, <1>14, <1>b
  <2>4. Above(s \o c, "num") = s \o Above(c, "num") /\ Above(c, "num") \in StackType
    BY <1>5, <2>3
  <2> QED
    BY <1>b, <2>1, <2>2, <2>3, <2>4
<1>15. CASE op \in CompareOps /\ Len(t) >= 2 /\ t[Len(t)] = t[Len(t) - 1]
  <2>1. /\ Leaves(op, st) = Above(Below(Below(st)), "num")
        /\ Leaves(op, t) = Above(Below(Below(t)), "num")
    BY <1>15, LeavesWhat
  <2>a. /\ t # <<>> /\ b # <<>>
        /\ Len(st) >= 2 /\ st[Len(st)] = st[Len(st) - 1]
    <3>1. /\ t \in Seq({"num", "str"}) /\ s \in Seq({"num", "str"}) /\ Len(t) \in Nat
          /\ Len(s) \in Nat
      BY DEF StackType
    <3>2. t # <<>> /\ b # <<>>
      <4>1. Len(t) - 1 >= 1 /\ Len(SubSeq(t, 1, Len(t) - 1)) = Len(t) - 1
        BY <1>15, <3>1
      <4> HIDE DEF Below
      <4> QED
        BY <1>15, <3>1, <4>1, <1>b DEF Below
    <3>4. Len(s \o t) = Len(s) + Len(t) /\ (s \o t)[Len(s) + Len(t)] = t[Len(t)]
          /\ (s \o t)[Len(s) + Len(t) - 1] = t[Len(t) - 1]
      BY <1>15, <3>1
    <3> QED
      BY <1>15, <3>1, <3>2, <3>4, <1>b
  <2>2. Takes(op, st)
    BY <1>1, <1>2, <2>a, <1>15, TakesWhat
  <2>3. c \in StackType /\ Below(Below(st)) = s \o c
    BY <1>1, <1>2, <2>a, <1>15, <1>b
  <2>4. Above(s \o c, "num") = s \o Above(c, "num") /\ Above(c, "num") \in StackType
    BY <1>5, <2>3
  <2> QED
    BY <1>b, <2>1, <2>2, <2>3, <2>4
<1>16. CASE op \in SliceOps /\ TopIs(t, "num") /\ TopIs(b, "str")
  <2>1. /\ Leaves(op, st) = Above(Below(Below(st)), "str")
        /\ Leaves(op, t) = Above(Below(Below(t)), "str")
    BY <1>16, LeavesWhat
  <2>2. Takes(op, st)
    BY <1>1, <1>2, <1>4, <1>16, TakesWhat
  <2>3. c \in StackType /\ Below(Below(st)) = s \o c
    BY <1>1, <1>2, <1>4, <1>16, <1>b
  <2>4. Above(s \o c, "str") = s \o Above(c, "str") /\ Above(c, "str") \in StackType
    BY <1>5, <2>3
  <2> QED
    BY <1>b, <2>1, <2>2, <2>3, <2>4
<1>17. CASE op = "STR_MID" /\ TopIs(t, "num") /\ TopIs(b, "num") /\ TopIs(c, "str")
  <2>1. /\ Leaves(op, st) = Above(Below(Below(Below(st))), "str")
        /\ Leaves(op, t) = Above(Below(Below(Below(t))), "str")
    BY <1>17, LeavesWhat
  <2>2. Takes(op, st)
    BY <1>1, <1>2, <1>3, <1>4, <1>17, TakesWhat
  <2>3. d \in StackType /\ Below(Below(Below(st))) = s \o d
    BY <1>1, <1>2, <1>3, <1>4, <1>17, <1>b
  <2>4. Above(s \o d, "str") = s \o Above(d, "str") /\ Above(d, "str") \in StackType
    BY <1>5, <2>3
  <2> QED
    BY <1>b, <2>1, <2>2, <2>3, <2>4
<1>18. CASE op = "FOR_INIT" /\ TopIs(t, "num") /\ TopIs(b, "num") /\ TopIs(c, "num")
  <2>1. Leaves(op, st) = Below(Below(Below(st))) /\ Leaves(op, t) = Below(Below(Below(t)))
    BY <1>18, LeavesWhat
  <2>2. Takes(op, st)
    BY <1>1, <1>2, <1>3, <1>4, <1>18, TakesWhat
  <2>3. d \in StackType /\ Below(Below(Below(st))) = s \o d
    BY <1>1, <1>2, <1>3, <1>4, <1>18, <1>b
  <2> QED
    BY <1>b, <2>1, <2>2, <2>3
<1>19. CASE op \in DimOps /\ SubscriptsOn(t, Rank(op))
  <2>1. /\ Leaves(op, st) = BelowSubscripts(st, Rank(op))
        /\ Leaves(op, t) = BelowSubscripts(t, Rank(op))
    BY <1>19, LeavesWhat
  <2>2. /\ SubscriptsOn(st, Rank(op)) /\ BelowSubscripts(t, Rank(op)) \in StackType
        /\ BelowSubscripts(st, Rank(op)) = s \o BelowSubscripts(t, Rank(op))
    BY <1>1, <1>2, <1>3, <1>4, <1>19, <1>b DEF SubscriptsOn, BelowSubscripts
  <2>3. Takes(op, st)
    BY <1>1, <1>4, <1>19, <2>2, TakesWhat
  <2> QED
    BY <1>b, <2>1, <2>2, <2>3
<1>20. CASE op \in NumGetOps /\ SubscriptsOn(t, Rank(op))
  <2>1. /\ Leaves(op, st) = Above(BelowSubscripts(st, Rank(op)), "num")
        /\ Leaves(op, t) = Above(BelowSubscripts(t, Rank(op)), "num")
    BY <1>20, LeavesWhat
  <2>2. /\ SubscriptsOn(st, Rank(op)) /\ BelowSubscripts(t, Rank(op)) \in StackType
        /\ BelowSubscripts(st, Rank(op)) = s \o BelowSubscripts(t, Rank(op))
    BY <1>1, <1>2, <1>3, <1>4, <1>20, <1>b DEF SubscriptsOn, BelowSubscripts
  <2>3. Takes(op, st)
    BY <1>1, <1>4, <1>20, <2>2, TakesWhat
  <2> DEFINE w == BelowSubscripts(t, Rank(op))
  <2>4. w \in StackType
    BY <2>2
  <2> HIDE DEF w
  <2>5. Above(s \o w, "num") = s \o Above(w, "num") /\ Above(w, "num") \in StackType
    BY <1>5, <2>4
  <2> QED
    BY <1>b, <2>1, <2>2, <2>3, <2>5 DEF w
<1>21. CASE op \in StrGetOps /\ SubscriptsOn(t, Rank(op))
  <2>1. /\ Leaves(op, st) = Above(BelowSubscripts(st, Rank(op)), "str")
        /\ Leaves(op, t) = Above(BelowSubscripts(t, Rank(op)), "str")
    BY <1>21, LeavesWhat
  <2>2. /\ SubscriptsOn(st, Rank(op)) /\ BelowSubscripts(t, Rank(op)) \in StackType
        /\ BelowSubscripts(st, Rank(op)) = s \o BelowSubscripts(t, Rank(op))
    BY <1>1, <1>2, <1>3, <1>4, <1>21, <1>b DEF SubscriptsOn, BelowSubscripts
  <2>3. Takes(op, st)
    BY <1>1, <1>4, <1>21, <2>2, TakesWhat
  <2> DEFINE w == BelowSubscripts(t, Rank(op))
  <2>4. w \in StackType
    BY <2>2
  <2> HIDE DEF w
  <2>5. Above(s \o w, "str") = s \o Above(w, "str") /\ Above(w, "str") \in StackType
    BY <1>5, <2>4
  <2> QED
    BY <1>b, <2>1, <2>2, <2>3, <2>5 DEF w
<1>22. CASE op \in NumSetOps /\ TopIs(t, "num") /\ SubscriptsOn(b, Rank(op))
  <2>1. /\ Leaves(op, st) = BelowSubscripts(Below(st), Rank(op))
        /\ Leaves(op, t) = BelowSubscripts(Below(t), Rank(op))
    BY <1>22, LeavesWhat
  <2>2. /\ SubscriptsOn(Below(st), Rank(op)) /\ BelowSubscripts(b, Rank(op)) \in StackType
        /\ BelowSubscripts(Below(st), Rank(op)) = s \o BelowSubscripts(b, Rank(op))
    BY <1>1, <1>2, <1>3, <1>4, <1>22, <1>b DEF SubscriptsOn, BelowSubscripts
  <2>3. Takes(op, st)
    BY <1>1, <1>4, <1>22, <2>2, TakesWhat
  <2> QED
    BY <1>b, <2>1, <2>2, <2>3
<1>23. CASE op \in StrSetOps /\ TopIs(t, "str") /\ SubscriptsOn(b, Rank(op))
  <2>1. /\ Leaves(op, st) = BelowSubscripts(Below(st), Rank(op))
        /\ Leaves(op, t) = BelowSubscripts(Below(t), Rank(op))
    BY <1>23, LeavesWhat
  <2>2. /\ SubscriptsOn(Below(st), Rank(op)) /\ BelowSubscripts(b, Rank(op)) \in StackType
        /\ BelowSubscripts(Below(st), Rank(op)) = s \o BelowSubscripts(b, Rank(op))
    BY <1>1, <1>2, <1>3, <1>4, <1>23, <1>b DEF SubscriptsOn, BelowSubscripts
  <2>3. Takes(op, st)
    BY <1>1, <1>4, <1>23, <2>2, TakesWhat
  <2> QED
    BY <1>b, <2>1, <2>2, <2>3
<1>24. CASE op \in IOOps /\ EndsWith(t, IOTakes(op))
  <2> DEFINE types == IOTakes(op)
             left == IOLeaves(op)
             n == Len(types)
  <2>1. types \in StackType /\ left \in StackType
        /\ Leaves(op, t) = Under(t, n) \o left /\ Leaves(op, st) = Under(st, n) \o left
    BY <1>24, IOLeavesWhat
  <2>2. EndsWith(t, types)
    BY <1>24
  <2> HIDE DEF types, left
  <2>3. n \in Nat /\ n <= Len(t) /\ SubSeq(t, Len(t) - n + 1, Len(t)) = types
    BY <2>1, <2>2 DEF StackType, EndsWith
  <2> HIDE DEF n
  <2>4. /\ Under(st, n) = s \o Under(t, n) /\ Under(t, n) \in StackType
        /\ SubSeq(st, Len(st) - n + 1, Len(st)) = SubSeq(t, Len(t) - n + 1, Len(t))
        /\ Len(st) >= n
    <3>1. /\ t \in Seq({"num", "str"}) /\ s \in Seq({"num", "str"}) /\ Len(t) \in Nat
          /\ Len(s) \in Nat /\ Len(s \o t) = Len(s) + Len(t)
      BY DEF StackType
    <3>2. Under(t, n) \in StackType
      BY <2>3, <3>1 DEF Under, StackType
    <3>3. SubSeq(s \o t, 1, Len(s) + Len(t) - n) = s \o SubSeq(t, 1, Len(t) - n)
      <4> DEFINE m == Len(t) - n
                 low == SubSeq(t, 1, m)
                 p == SubSeq(s \o t, 1, Len(s) + m)
      <4>1. m \in Nat /\ m <= Len(t) /\ low \in Seq({"num", "str"}) /\ Len(low) = m
            /\ \A i \in 1..m : low[i] = t[i]
        BY <2>3, <3>1
      <4>2. s \o t \in Seq({"num", "str"}) /\ Len(s) + m \in Nat /\ Len(s) + m <= Len(s \o t)
        BY <3>1, <4>1
      <4> HIDE DEF m
      <4>3. p \in Seq({"num", "str"}) /\ Len(p) = Len(s) + m
            /\ \A i \in 1..(Len(s) + m) : p[i] = (s \o t)[i]
        BY <3>1, <4>1, <4>2
      <4> HIDE DEF p, low
      <4>4. s \o low \in Seq({"num", "str"}) /\ Len(s \o low) = Len(s) + m
        BY <3>1, <4>1
      <4>7. ASSUME NEW i \in 1..(Len(s) + m) PROVE (s \o low)[i] = (s \o t)[i]
        <5>1. CASE i <= Len(s)
          BY <3>1, <4>1, <5>1
        <5>2. CASE i > Len(s)
          <6>1. i - Len(s) \in 1..m
            BY <3>1, <4>1, <5>2
          <6>2. (s \o low)[i] = low[i - Len(s)]
            BY <3>1, <4>1, <5>2, <6>1
          <6>3. (s \o t)[i] = t[i - Len(s)]
            BY <3>1, <4>1, <5>2, <6>1
          <6> QED
            BY <4>1, <6>1, <6>2, <6>3
        <5> QED
          BY <3>1, <4>1, <5>1, <5>2
      <4>5. p = s \o low
        <5> DEFINE q == s \o low
        <5>1. q \in Seq({"num", "str"}) /\ Len(q) = Len(p)
              /\ \A i \in 1..Len(p) : p[i] = q[i]
          BY <4>3, <4>4, <4>7
        <5> HIDE DEF q
        <5>2. p = q
          BY <4>3, <5>1, SeqEqual
        <5> QED
          BY <5>2 DEF q
      <4>6. Len(s) + Len(t) - n = Len(s) + m
        BY <2>3, <3>1 DEF m
      <4> QED
        BY <4>5, <4>6 DEF p, low, m
    <3>4. SubSeq(s \o t, Len(s) + Len(t) - n + 1, Len(s) + Len(t))
             = SubSeq(t, Len(t) - n + 1, Len(t))
      BY <2>3, <3>1
    <3>5. ASSUME NEW u, u = s \o t
          PROVE  /\ Under(u, n) = s \o Under(t, n) /\ Len(u) >= n
                 /\ SubSeq(u, Len(u) - n + 1, Len(u)) = SubSeq(t, Len(t) - n + 1, Len(t))
      <4>1. Len(u) = Len(s) + Len(t)
        BY <3>1, <3>5
      <4>2. SubSeq(u, 1, Len(s) + Len(t) - n) = s \o SubSeq(t, 1, Len(t) - n)
        BY <3>3, <3>5
      <4>3. SubSeq(u, Len(s) + Len(t) - n + 1, Len(s) + Len(t))
               = SubSeq(t, Len(t) - n + 1, Len(t))
        BY <3>4, <3>5
      <4>4. Under(u, n) = SubSeq(u, 1, Len(u) - n) /\ Under(t, n) = SubSeq(t, 1, Len(t) - n)
        BY DEF Under
      <4>5. Len(u) >= n
        BY <2>3, <3>1, <4>1
      <4>6. Len(u) - n = Len(s) + Len(t) - n
        BY <2>3, <3>1, <4>1
      <4> QED
        BY <4>1, <4>2, <4>3, <4>4, <4>5, <4>6
    <3> QED
      BY <3>2, <3>5, <1>b
  <2>5. EndsWith(st, types)
    BY <2>3, <2>4 DEF EndsWith, n
  <2>6. /\ (s \o Under(t, n)) \o left = s \o (Under(t, n) \o left)
        /\ Under(t, n) \o left \in StackType
    BY <2>1, <2>4 DEF StackType
  <2>7. Takes(op, st)
    BY <1>24, <2>5, TakesWhat DEF types
  <2> QED
    BY <2>1, <2>4, <2>6, <2>7
<1> QED
  BY <1>6, <1>7, <1>8, <1>9, <1>10, <1>11, <1>12, <1>13, <1>14, <1>15,
     <1>16, <1>17, <1>18, <1>19, <1>20, <1>21, <1>22, <1>23, <1>24 DEF Takes, b, c

-----------------------------------------------------------------------------
(* What single opcodes do.                                                 *)

(* op takes operands of these types, all that there are, and leaves those. *)
Acts(op, types, left) == Takes(op, types) /\ Leaves(op, types) = left

(* Stacks of a few operands.                                               *)
LEMMA SmallStacks ==
    ASSUME NEW x \in {"num", "str"}, NEW y \in {"num", "str"}, NEW z \in {"num", "str"}
    PROVE  /\ <<>> \in StackType /\ <<x>> \in StackType /\ <<x, y>> \in StackType
           /\ <<x, y, z>> \in StackType
           /\ Below(<<x>>) = <<>> /\ Below(<<x, y>>) = <<x>> /\ Below(<<x, y, z>>) = <<x, y>>
           /\ TopIs(<<x>>, x) /\ TopIs(<<x, y>>, y) /\ TopIs(<<x, y, z>>, z)
           /\ Above(<<>>, x) = <<x>>
<1>1. /\ <<>> \in StackType /\ <<x>> \in StackType /\ <<x, y>> \in StackType
      /\ <<x, y, z>> \in StackType
  BY DEF StackType
<1>2. Below(<<x>>) = <<>>
  BY DEF Below
<1>a. ASSUME NEW s \in Seq({"num", "str"}), NEW e \in {"num", "str"}
      PROVE  Below(Append(s, e)) = s
  <2>1. Len(Append(s, e)) - 1 = Len(s)
    OBVIOUS
  <2>2. SubSeq(Append(s, e), 1, Len(s)) = s
    OBVIOUS
  <2> QED
    BY <2>1, <2>2 DEF Below
<1>3. Below(<<x, y>>) = <<x>>
  <2>1. <<x>> \in Seq({"num", "str"}) /\ Append(<<x>>, y) = <<x, y>>
    <3>1. PICK p, q : p = Append(<<x>>, y) /\ q = <<x, y>>
      OBVIOUS
    <3>2. p \in Seq({"num", "str"}) /\ Len(p) = 2 /\ p[1] = x /\ p[2] = y
      BY <3>1
    <3>3. q \in Seq({"num", "str"}) /\ Len(q) = 2 /\ q[1] = x /\ q[2] = y
      BY <3>1
    <3>4. \A i \in 1..Len(p) : p[i] = q[i]
      BY <3>2, <3>3
    <3>5. p = q
      BY <3>2, <3>3, <3>4, SeqEqual
    <3>6. Append(<<x>>, y) = <<x, y>>
      BY <3>1, <3>5, Zenon
    <3>7. <<x>> \in Seq({"num", "str"})
      OBVIOUS
    <3> QED
      BY <3>6, <3>7, Zenon
  <2> QED
    BY <1>a, <2>1
<1>4. Below(<<x, y, z>>) = <<x, y>>
  <2>1. <<x, y>> \in Seq({"num", "str"}) /\ Append(<<x, y>>, z) = <<x, y, z>>
    <3>1. PICK p, q : p = Append(<<x, y>>, z) /\ q = <<x, y, z>>
      OBVIOUS
    <3>2. p \in Seq({"num", "str"}) /\ Len(p) = 3 /\ p[1] = x /\ p[2] = y /\ p[3] = z
      BY <3>1
    <3>3. q \in Seq({"num", "str"}) /\ Len(q) = 3 /\ q[1] = x /\ q[2] = y /\ q[3] = z
      BY <3>1
    <3>4. \A i \in 1..Len(p) : p[i] = q[i]
      BY <3>2, <3>3
    <3>5. p = q
      BY <3>2, <3>3, <3>4, SeqEqual
    <3>6. Append(<<x, y>>, z) = <<x, y, z>>
      BY <3>1, <3>5, Zenon
    <3>7. <<x, y>> \in Seq({"num", "str"})
      OBVIOUS
    <3> QED
      BY <3>6, <3>7, Zenon
  <2> QED
    BY <1>a, <2>1
<1>5. TopIs(<<x>>, x) /\ TopIs(<<x, y>>, y) /\ TopIs(<<x, y, z>>, z)
  BY DEF TopIs
<1>6. Above(<<>>, x) = <<x>>
  BY DEF Above
<1> QED
  BY <1>1, <1>2, <1>3, <1>4, <1>5, <1>6

(* The opcodes that the code generators emit outside expressions.          *)
LEMMA PlainActs ==
    ASSUME NEW op
    PROVE  /\ op \in NoEffectOps => Acts(op, <<>>, <<>>)
           /\ op \in PushNumOps => Acts(op, <<>>, <<"num">>)
           /\ op \in PushStrOps => Acts(op, <<>>, <<"str">>)
           /\ op \in TakeNumOps => Acts(op, <<"num">>, <<>>)
           /\ op = "STR_POP_VAR" => Acts(op, <<"str">>, <<>>)
           /\ op = "FOR_INIT" => Acts(op, <<"num", "num", "num">>, <<>>)
<1> USE SmallStacks, TakesWhat, LeavesWhat DEF Acts
<1>1. op \in NoEffectOps => Acts(op, <<>>, <<>>)
  OBVIOUS
<1>2. op \in PushNumOps => Acts(op, <<>>, <<"num">>)
  OBVIOUS
<1>3. op \in PushStrOps => Acts(op, <<>>, <<"str">>)
  OBVIOUS
<1>4. op \in TakeNumOps => Acts(op, <<"num">>, <<>>)
  OBVIOUS
<1>5. op = "STR_POP_VAR" => Acts(op, <<"str">>, <<>>)
  OBVIOUS
<1>6. op = "FOR_INIT" => Acts(op, <<"num", "num", "num">>, <<>>)
  OBVIOUS
<1> QED
  BY <1>1, <1>2, <1>3, <1>4, <1>5, <1>6

(* Those of input and output.                                              *)
LEMMA IOActs ==
    ASSUME NEW op
    PROVE  /\ op \in IOPlainOps => Acts(op, <<>>, <<>>)
           /\ op \in {"SET_PRINT_CHANNEL", "PRINT_NUM"} => Acts(op, <<"num">>, <<>>)
           /\ op = "PRINT_STR" => Acts(op, <<"str">>, <<>>)
<1>1. ASSUME NEW types, types \in {<<>>, <<"num">>, <<"str">>},
             op \in IOOps, IOTakes(op) = types, IOLeaves(op) = <<>>
      PROVE  Acts(op, types, <<>>)
  <2> DEFINE n == Len(types)
  <2>a. types \in Seq({"num", "str"})
    <3>1. /\ <<>> \in Seq({"num", "str"}) /\ <<"num">> \in Seq({"num", "str"})
          /\ <<"str">> \in Seq({"num", "str"})
      OBVIOUS
    <3> QED
      BY <1>1, <3>1
  <2>b. n \in Nat /\ n - n = 0 /\ n - n + 1 = 1 /\ n >= n
    BY <2>a
  <2>c. SubSeq(types, 1, n) = types /\ SubSeq(types, 1, 0) = <<>>
    BY <2>a
  <2>1. Len(types) \in Nat /\ SubSeq(types, 1, Len(types)) = types
        /\ SubSeq(types, Len(types) - Len(types) + 1, Len(types)) = types
        /\ Len(types) >= Len(types) /\ SubSeq(types, 1, Len(types) - Len(types)) = <<>>
    BY <2>b, <2>c
  <2>2. EndsWith(types, types) /\ Under(types, Len(types)) = <<>>
    BY <2>1 DEF EndsWith, Under
  <2>3. Takes(op, types)
    BY <1>1, <2>2, TakesWhat
  <2>4. Leaves(op, types) = <<>> \o <<>>
    BY <1>1, <2>2, IOLeavesWhat
  <2> QED
    BY <2>3, <2>4 DEF Acts
<1>l. op \notin {"GET", "STATUS", "FUNC_PEEK", "NOTE"} => IOLeaves(op) = <<>>
  BY DEF IOLeaves
<1>2. op \in IOPlainOps => op \in IOOps /\ IOTakes(op) = <<>> /\ IOLeaves(op) = <<>>
  <2>1. op \in IOPlainOps => op \notin {"GET", "STATUS", "FUNC_PEEK", "NOTE"} \cup IONumOps
                                     \cup IOPairOps \cup {"PRINT_STR", "POINT", "OPEN", "XIO"}
    BY DEF IOPlainOps, IONumOps, IOPairOps
  <2>2. op \in IOPlainOps => IOTakes(op) = <<>>
    BY <2>1 DEF IOTakes
  <2> QED
    BY <1>l, <2>1, <2>2 DEF IOOps
<1>3. op \in {"SET_PRINT_CHANNEL", "PRINT_NUM"} =>
         op \in IOOps /\ IOTakes(op) = <<"num">> /\ IOLeaves(op) = <<>>
  <2>1. op \in {"SET_PRINT_CHANNEL", "PRINT_NUM"} =>
           op \in IONumOps /\ op \notin {"GET", "STATUS", "FUNC_PEEK", "NOTE"}
                                      \cup IOPlainOps \cup IOPairOps
                                      \cup {"PRINT_STR", "POINT", "OPEN", "XIO"}
    BY DEF IOPlainOps, IONumOps, IOPairOps
  <2>2. op \in {"SET_PRINT_CHANNEL", "PRINT_NUM"} => IOTakes(op) = <<"num">>
    BY <2>1 DEF IOTakes
  <2> QED
    BY <1>l, <2>1, <2>2 DEF IOOps
<1>4. op = "PRINT_STR" => op \in IOOps /\ IOTakes(op) = <<"str">> /\ IOLeaves(op) = <<>>
  BY DEF IOOps, IOTakes, IOLeaves, IONumOps, IOPairOps, IOPlainOps
<1> QED
  BY <1>1, <1>2, <1>3, <1>4

(* The type of a variable.                                                 *)
TypeOf(slot) == IF IsString(slot) THEN "str" ELSE "num"

(* The opcodes of arrays, for one subscript and for two.                   *)
LEMMA ArrayActs ==
    ASSUME NEW slot
    PROVE  /\ Acts("DIM_1D", <<"num">>, <<>>) /\ Acts("DIM_2D", <<"num", "num">>, <<>>)
           /\ Acts(ReadOp(slot, 1), <<"num">>, <<TypeOf(slot)>>)
           /\ Acts(ReadOp(slot, 2), <<"num", "num">>, <<TypeOf(slot)>>)
           /\ Acts(WriteOp(slot, 1), <<"num", TypeOf(slot)>>, <<>>)
           /\ Acts(WriteOp(slot, 2), <<"num", "num", TypeOf(slot)>>, <<>>)
<1>1. /\ SubscriptsOn(<<"num">>, 1) /\ SubscriptsOn(<<"num", "num">>, 2)
      /\ BelowSubscripts(<<"num">>, 1) = <<>> /\ BelowSubscripts(<<"num", "num">>, 2) = <<>>
  BY SmallStacks DEF SubscriptsOn, BelowSubscripts
<1>2. /\ \A op \in {"DIM_1D", "ARRAY_GET_1D", "STR_ARRAY_GET_1D", "ARRAY_SET_1D",
                    "STR_ARRAY_SET_1D"} : Rank(op) = 1
      /\ \A op \in {"DIM_2D", "ARRAY_GET_2D", "STR_ARRAY_GET_2D", "ARRAY_SET_2D",
                    "STR_ARRAY_SET_2D"} : Rank(op) = 2
  BY DEF Rank
<1>3. Acts("DIM_1D", <<"num">>, <<>>) /\ Acts("DIM_2D", <<"num", "num">>, <<>>)
  BY <1>1, <1>2, TakesWhat, LeavesWhat DEF Acts, DimOps
<1>4. TypeOf(slot) \in {"num", "str"}
  BY DEF TypeOf
<1>5. CASE IsString(slot)
  <2>1. TypeOf(slot) = "str"
    BY <1>5 DEF TypeOf
  <2>2. /\ ReadOp(slot, 1) = "STR_ARRAY_GET_1D" /\ ReadOp(slot, 2) = "STR_ARRAY_GET_2D"
        /\ WriteOp(slot, 1) = "STR_ARRAY_SET_1D" /\ WriteOp(slot, 2) = "STR_ARRAY_SET_2D"
    BY <1>5 DEF ReadOp, WriteOp
  <2>3. Acts("STR_ARRAY_GET_1D", <<"num">>, <<"str">>)
        /\ Acts("STR_ARRAY_GET_2D", <<"num", "num">>, <<"str">>)
    BY <1>1, <1>2, SmallStacks, TakesWhat, LeavesWhat DEF Acts, StrGetOps
  <2>4. Acts("STR_ARRAY_SET_1D", <<"num", "str">>, <<>>)
        /\ Acts("STR_ARRAY_SET_2D", <<"num", "num", "str">>, <<>>)
    BY <1>1, <1>2, SmallStacks, TakesWhat, LeavesWhat DEF Acts, StrSetOps
  <2> QED
    BY <1>3, <2>1, <2>2, <2>3, <2>4
<1>6. CASE ~IsString(slot)
  <2>1. TypeOf(slot) = "num"
    BY <1>6 DEF TypeOf
  <2>2. /\ ReadOp(slot, 1) = "ARRAY_GET_1D" /\ ReadOp(slot, 2) = "ARRAY_GET_2D"
        /\ WriteOp(slot, 1) = "ARRAY_SET_1D" /\ WriteOp(slot, 2) = "ARRAY_SET_2D"
    BY <1>6 DEF ReadOp, WriteOp
  <2>3. Acts("ARRAY_GET_1D", <<"num">>, <<"num">>)
        /\ Acts("ARRAY_GET_2D", <<"num", "num">>, <<"num">>)
    BY <1>1, <1>2, SmallStacks, TakesWhat, LeavesWhat DEF Acts, NumGetOps
  <2>4. Acts("ARRAY_SET_1D", <<"num", "num">>, <<>>)
        /\ Acts("ARRAY_SET_2D", <<"num", "num", "num">>, <<>>)
    BY <1>1, <1>2, SmallStacks, TakesWhat, LeavesWhat DEF Acts, NumSetOps
  <2> QED
    BY <1>3, <2>1, <2>2, <2>3, <2>4
<1> QED
  BY <1>5, <1>6

-----------------------------------------------------------------------------
(* The stack before a call and after it.                                   *)

(* op takes a stack of shape s to one of shape u, as the verifier asks.    *)
Step(op, s, u) == Takes(op, s) /\ u = Leaves(op, s) /\ (op \in ControlOps => u = <<>>)

(* The shape of the stack, and how many entries of the table of an ON are  *)
(* still to be emitted.                                                    *)
Point == [stack : StackType, due : Nat]
At(s) == [stack |-> s, due |-> 0]
InOn(n) == [stack |-> <<>>, due |-> n]

(* What a call does to them when all that it calls has been done.          *)
EmitGoes(c, x, y) ==
    /\ Step(c.op, x.stack, y.stack)
    /\ x.due = 0 /\ y.due = IF c.op \in OnOps THEN c.arg ELSE 0
ReferenceGoes(c, x, y) ==
    /\ x.stack = <<>> /\ y.stack = <<>>
    /\ IF c.op = "NOP" THEN x.due = y.due + 1 ELSE x.due = 0 /\ y.due = 0
PlainGoes(x, y, from, to) == x = At(from) /\ y = At(to)
Goes(c, x, y) ==
    CASE c.call = "emit"       -> EmitGoes(c, x, y)
      [] c.call = "reference"  -> ReferenceGoes(c, x, y)
      [] c.call = "expression" -> PlainGoes(x, y, x.stack, x.stack \o Yields(c.e))
      [] c.call = "then"       -> PlainGoes(x, y, <<"num">>, <<>>)
      [] OTHER                 -> PlainGoes(x, y, <<>>, <<>>)

TypeStep == {w \in CallType \X Point \X Point : Goes(w[1], w[2], w[3])}

(* The members of that set.                                                *)
LEMMA TypeStepIs ==
    ASSUME NEW c, NEW x, NEW y
    PROVE  <<c, x, y>> \in TypeStep <=>
              c \in CallType /\ x \in Point /\ y \in Point /\ Goes(c, x, y)
<1> HIDE DEF Goes
<1> QED
  BY DEF TypeStep

(* Points.                                                                 *)
LEMMA PointFields ==
    /\ \A s \in StackType : At(s) \in Point /\ At(s).stack = s /\ At(s).due = 0
    /\ \A n \in Nat : InOn(n) \in Point /\ InOn(n).stack = <<>> /\ InOn(n).due = n
    /\ At(<<>>) = InOn(0)
    /\ \A x \in Point : x.stack \in StackType /\ x.due \in Nat
    /\ \A x \in Point : x.due = 0 => x = At(x.stack)
    /\ \A x \in Point : x.stack = <<>> => x = InOn(x.due)
<1>1. <<>> \in StackType
  BY DEF StackType
<1> QED
  BY <1>1 DEF Point, At, InOn

(* An instruction acts on top of any stack.                                *)
LEMMA EmitStep ==
    ASSUME NEW op, NEW arg, Emit(op, arg) \in CallType, op \notin OnOps,
           NEW s \in StackType, NEW types \in StackType, NEW left,
           Acts(op, types, left), op \in ControlOps => s = <<>> /\ left = <<>>
    PROVE  /\ left \in StackType /\ s \o types \in StackType /\ s \o left \in StackType
           /\ <<Emit(op, arg), At(s \o types), At(s \o left)>> \in TypeStep
<1> DEFINE x == At(s \o types)
           y == At(s \o left)
           c == Emit(op, arg)
<1>1. /\ Takes(op, s \o types) /\ Leaves(op, s \o types) = s \o left /\ left \in StackType
  <2>1. Takes(op, types) /\ Leaves(op, types) = left
    BY DEF Acts
  <2> QED
    BY <2>1, Framed
<1>2. s \o types \in StackType /\ s \o left \in StackType
  BY <1>1 DEF StackType
<1>3. op \in ControlOps => s \o left = <<>>
  OBVIOUS
<1>4. Step(op, s \o types, s \o left)
  BY <1>1, <1>3 DEF Step
<1>5. x \in Point /\ y \in Point /\ x.stack = s \o types /\ y.stack = s \o left
      /\ x.due = 0 /\ y.due = 0
  BY <1>2, PointFields
<1>6. c.call = "emit" /\ c.op = op
  BY DEF Emit
<1> HIDE DEF x, y, c, Step
<1>7. EmitGoes(c, x, y)
  BY <1>4, <1>5, <1>6 DEF EmitGoes
<1>8. Goes(c, x, y)
  BY <1>6, <1>7 DEF Goes
<1>9. <<c, x, y>> \in TypeStep
  BY <1>5, <1>8, TypeStepIs DEF c
<1> QED
  BY <1>1, <1>2, <1>9 DEF x, y, c

(* An expression leaves its value.                                         *)
LEMMA ExpressionStep ==
    ASSUME NEW e \in ParseTree, NEW s \in StackType
    PROVE  /\ Yields(e) \in StackType /\ s \o Yields(e) \in StackType
           /\ <<Expression(e), At(s), At(s \o Yields(e))>> \in TypeStep
<1> DEFINE c == Expression(e)
           u == s \o Yields(e)
<1>1. Yields(e) \in StackType
  <2>1. Yields(e) \in {<<>>, <<"num">>, <<"str">>}
    <3>1. e.k \in {"num", "str", "var", "elem", "op"}
      BY SyntaxAssumption DEF IsExpression
    <3> QED
      BY <3>1 DEF Yields
  <2>2. <<>> \in StackType /\ <<"num">> \in StackType /\ <<"str">> \in StackType
    BY SmallStacks
  <2> QED
    BY <2>1, <2>2
<1>2. u \in StackType
  BY <1>1 DEF StackType
<1>3. c \in CallType
  BY OneQuiet, QuietIsPlain, PlainIsPlain
<1>4. c.call = "expression" /\ c.e = e
  BY DEF Expression
<1> HIDE DEF c
<1>5. Goes(c, At(s), At(u))
  BY <1>4, PointFields DEF Goes, PlainGoes
<1>6. At(s) \in Point /\ At(u) \in Point
  BY <1>2, PointFields
<1>7. <<c, At(s), At(u)>> \in TypeStep
  BY <1>3, <1>5, <1>6, TypeStepIs
<1> QED
  BY <1>1, <1>2, <1>7 DEF c

(* Expressions that leave a value each leave all of them.                  *)
LEMMA ExpressionsChain ==
    ASSUME NEW es \in Seq(ParseTree), NEW s \in StackType, NEW types \in StackType,
           Len(types) = Len(es), \A i \in 1..Len(es) : Yields(es[i]) = <<types[i]>>
    PROVE  Chain(TypeStep, Expressions(es), At(s), At(s \o types))
<1> DEFINE n == Len(es)
           q == Expressions(es)
           b == [i \in 1..(n + 1) |-> At(s \o SubSeq(types, 1, i - 1))]
<1>1. n \in Nat /\ \A i \in 1..n : es[i] \in ParseTree
  BY SeqTyped
<1>2. Len(q) = n /\ \A i \in 1..n : q[i] = Expression(es[i])
  BY ExpressionsQuiet
<1>3. b[1] = At(s) /\ b[n + 1] = At(s \o types)
  <2>1. 1 \in 1..(n + 1) /\ n + 1 \in 1..(n + 1) /\ 1 - 1 = 0 /\ (n + 1) - 1 = n
    BY <1>1
  <2>2. SubSeq(types, 1, 0) = <<>> /\ SubSeq(types, 1, n) = types /\ s \o <<>> = s
    BY <1>1 DEF StackType
  <2> QED
    BY <2>1, <2>2
<1>4. ASSUME NEW i \in 1..n PROVE <<q[i], b[i], b[i + 1]>> \in TypeStep
  <2> DEFINE low == SubSeq(types, 1, i - 1)
             e == es[i]
  <2>1. i \in 1..(n + 1) /\ i + 1 \in 1..(n + 1) /\ (i + 1) - 1 = i
    BY <1>1
  <2>2. b[i] = At(s \o low) /\ b[i + 1] = At(s \o SubSeq(types, 1, i))
    BY <2>1
  <2>3. low \in StackType /\ SubSeq(types, 1, i) = low \o <<types[i]>>
    <3>1. types \in Seq({"num", "str"}) /\ i \in 1..Len(types)
      BY <1>1 DEF StackType
    <3>2. low \in Seq({"num", "str"}) /\ SubSeq(types, 1, i) = Append(low, types[i])
      BY <3>1
    <3>3. Append(low, types[i]) = low \o <<types[i]>>
      BY <3>1, <3>2
    <3> QED
      BY <3>2, <3>3 DEF StackType
  <2> HIDE DEF low, b
  <2>4. Yields(e) = <<types[i]>> /\ e \in ParseTree
    BY <1>1
  <2>5. s \o low \in StackType /\ (s \o low) \o <<types[i]>> = s \o (low \o <<types[i]>>)
    <3>1. <<types[i]>> \in Seq({"num", "str"})
      BY <1>1 DEF StackType
    <3>2. s \in Seq({"num", "str"}) /\ low \in Seq({"num", "str"})
      BY <2>3 DEF StackType
    <3> HIDE DEF low
    <3> QED
      BY <3>1, <3>2 DEF StackType
  <2>6. <<Expression(e), At(s \o low), At((s \o low) \o Yields(e))>> \in TypeStep
    BY <2>4, <2>5, ExpressionStep
  <2> QED
    BY <1>2, <2>2, <2>3, <2>4, <2>5, <2>6
<1> HIDE DEF b, q
<1>5. \E d : /\ d[1] = At(s) /\ d[Len(q) + 1] = At(s \o types)
             /\ \A i \in 1..Len(q) : <<q[i], d[i], d[i + 1]>> \in TypeStep
  BY <1>2, <1>3, <1>4
<1> QED
  BY <1>5 DEF Chain, q

-----------------------------------------------------------------------------
(* The calls of an expression.                                             *)

(* Short sequences, put together.                                          *)
LEMMA JoinTuples ==
    ASSUME NEW a, NEW b, NEW c
    PROVE  <<a>> \o <<b>> = <<a, b>> /\ <<a, b>> \o <<c>> = <<a, b, c>>
<1> DEFINE S == {a, b, c}
<1>1. <<a>> \in Seq(S) /\ <<b>> \in Seq(S) /\ <<c>> \in Seq(S) /\ <<a, b>> \in Seq(S)
      /\ <<a, b, c>> \in Seq(S)
  OBVIOUS
<1> HIDE DEF S
<1>2. <<a>> \o <<b>> = <<a, b>>
  <2>1. PICK p, q : p = <<a>> \o <<b>> /\ q = <<a, b>>
    OBVIOUS
  <2>2. p \in Seq(S) /\ Len(p) = 2 /\ p[1] = a /\ p[2] = b
    BY <1>1, <2>1
  <2>3. q \in Seq(S) /\ Len(q) = 2 /\ q[1] = a /\ q[2] = b
    BY <1>1, <2>1
  <2>4. p = q
    BY <2>2, <2>3, SeqEqual
  <2> QED
    BY <2>1, <2>4, Zenon
<1>3. <<a, b>> \o <<c>> = <<a, b, c>>
  <2>1. PICK p, q : p = <<a, b>> \o <<c>> /\ q = <<a, b, c>>
    OBVIOUS
  <2>2. p \in Seq(S) /\ Len(p) = 3 /\ p[1] = a /\ p[2] = b /\ p[3] = c
    BY <1>1, <2>1
  <2>3. q \in Seq(S) /\ Len(q) = 3 /\ q[1] = a /\ q[2] = b /\ q[3] = c
    BY <1>1, <2>1
  <2>4. p = q
    BY <2>2, <2>3, SeqEqual
  <2> QED
    BY <2>1, <2>4, Zenon
<1> QED
  BY <1>2, <1>3, Zenon

(* The same, and what they are together.                                   *)
LEMMA ChainBoth ==
    ASSUME NEW R, NEW C, NEW p \in Seq(C), NEW q \in Seq(C), NEW s, NEW t, NEW u,
           Chain(R, p, s, t), Chain(R, q, t, u)
    PROVE  p \o q \in Seq(C) /\ Chain(R, p \o q, s, u)
<1>1. p \o q \in Seq(C)
  OBVIOUS
<1> QED
  BY <1>1, ChainJoin

(* Two calls.                                                              *)
LEMMA ChainTwo ==
    ASSUME NEW R, NEW C, NEW c \in C, NEW d \in C, NEW s, NEW t, NEW u,
           <<c, s, t>> \in R, <<d, t, u>> \in R
    PROVE  Chain(R, <<c, d>>, s, u)
<1>1. <<c>> \in Seq(C) /\ <<d>> \in Seq(C)
  OBVIOUS
<1>2. Chain(R, <<c>>, s, t) /\ Chain(R, <<d>>, t, u)
  BY ChainOne
<1>3. Chain(R, <<c>> \o <<d>>, s, u)
  BY <1>1, <1>2, ChainJoin
<1>4. <<c>> \o <<d>> = <<c, d>>
  BY JoinTuples, Zenon
<1> QED
  BY <1>3, <1>4

(* Calls with one more call.                                               *)
LEMMA ChainLast ==
    ASSUME NEW R, NEW C, NEW q \in Seq(C), NEW c \in C, NEW s, NEW t, NEW u,
           Chain(R, q, s, t), <<c, t, u>> \in R
    PROVE  /\ Append(q, c) \in Seq(C) /\ Append(q, c) = q \o <<c>>
           /\ Chain(R, Append(q, c), s, u)
<1>1. <<c>> \in Seq(C) /\ Append(q, c) = q \o <<c>> /\ Append(q, c) \in Seq(C)
  OBVIOUS
<1>2. Chain(R, <<c>>, t, u)
  BY ChainOne
<1>3. Chain(R, q \o <<c>>, s, u)
  BY <1>1, <1>2, ChainJoin
<1> QED
  BY <1>1, <1>3

(* Numbers on the stack.                                                   *)
Nums(n) == [i \in 1..n |-> "num"]

(* Some of them.                                                           *)
LEMMA NumsAre ==
    /\ \A n \in Nat : Nums(n) \in StackType /\ Len(Nums(n)) = n
                      /\ \A i \in 1..n : Nums(n)[i] = "num"
    /\ \A n \in Nat : Nums(n + 1) = Nums(n) \o <<"num">>
    /\ Nums(0) = <<>> /\ Nums(1) = <<"num">> /\ Nums(2) = <<"num", "num">>
<1>1. ASSUME NEW n \in Nat
      PROVE  /\ Nums(n) \in StackType /\ Len(Nums(n)) = n
             /\ \A i \in 1..n : Nums(n)[i] = "num"
  BY DEF Nums, StackType
<1>2. ASSUME NEW n \in Nat PROVE Nums(n + 1) = Nums(n) \o <<"num">>
  <2>1. PICK p, q : p = Nums(n + 1) /\ q = Nums(n) \o <<"num">>
    OBVIOUS
  <2>2. p \in Seq({"num", "str"}) /\ Len(p) = n + 1 /\ \A i \in 1..(n + 1) : p[i] = "num"
    BY <1>1, <2>1 DEF StackType
  <2>3. Nums(n) \in Seq({"num", "str"}) /\ Len(Nums(n)) = n /\ \A i \in 1..n : Nums(n)[i] = "num"
    BY <1>1 DEF StackType
  <2>4. q \in Seq({"num", "str"}) /\ Len(q) = n + 1
    BY <2>1, <2>3
  <2>5. \A i \in 1..(n + 1) : q[i] = "num"
    BY <2>1, <2>3
  <2>6. p = q
    BY <2>2, <2>4, <2>5, SeqEqual
  <2> QED
    BY <2>1, <2>6
<1>3. Nums(0) = <<>>
  BY DEF Nums
<1>4. Nums(1) = <<"num">>
  <2>1. Nums(0 + 1) = <<>> \o <<"num">>
    BY <1>2, <1>3
  <2> QED
    BY <2>1
<1>5. Nums(2) = <<"num", "num">>
  <2>1. Nums(1 + 1) = <<"num">> \o <<"num">>
    BY <1>2, <1>4
  <2>2. <<"num">> \o <<"num">> = <<"num", "num">>
    BY JoinTuples, Zenon
  <2> QED
    BY <2>1, <2>2
<1> QED
  BY <1>1, <1>2, <1>3, <1>4, <1>5

(* A single value.                                                         *)
LEMMA YieldsOne ==
    ASSUME NEW e \in ParseTree, Len(Yields(e)) = 1
    PROVE  Yields(e)[1] \in {"num", "str"} /\ Yields(e) = <<Yields(e)[1]>>
<1>1. e.k \in {"num", "str", "var", "elem", "op"}
  BY SyntaxAssumption DEF IsExpression
<1>2. Yields(e) \in {<<>>, <<"num">>, <<"str">>}
  BY <1>1 DEF Yields
<1>3. Len(<<>>) = 0
  OBVIOUS
<1> QED
  BY <1>2, <1>3

(* Arguments of the right types are put on the stack, for their opcode.    *)
LEMMA ArgumentsChain ==
    ASSUME NEW op, NEW args \in Seq(ParseTree), NEW left, Applies(op, args, left),
           NEW s \in StackType
    PROVE  \E types \in StackType :
              /\ Acts(op, types, left)
              /\ Chain(TypeStep, Expressions(args), At(s), At(s \o types))
<1> DEFINE types == [i \in DOMAIN args |-> Yields(args[i])[1]]
           n == Len(args)
<1>1. n \in Nat /\ DOMAIN args = 1..n /\ \A i \in 1..n : args[i] \in ParseTree
  BY SeqTyped
<1>2. \A i \in 1..n : Len(Yields(args[i])) = 1
  BY <1>1 DEF Applies
<1>3. \A i \in 1..n : Yields(args[i])[1] \in {"num", "str"}
                      /\ Yields(args[i]) = <<Yields(args[i])[1]>>
  BY <1>1, <1>2, YieldsOne
<1>4. types \in StackType /\ Len(types) = n
      /\ \A i \in 1..n : Yields(args[i]) = <<types[i]>>
  BY <1>1, <1>3 DEF StackType
<1>5. Acts(op, types, left)
  BY DEF Applies, Acts
<1> HIDE DEF types
<1>6. Chain(TypeStep, Expressions(args), At(s), At(s \o types))
  BY <1>4, ExpressionsChain
<1> QED
  BY <1>4, <1>5, <1>6

(* An opcode of an expression or of a statement transfers no control.      *)
LEMMA NoControl ==
    \A op \in ExpressionOps \cup StatementOps \cup DimOps \cup NumArrayOps \cup StrArrayOps
              \cup {"PUSH_CONST", "STR_PUSH", "PUSH_VAR", "STR_PUSH_VAR", "POP_VAR",
                    "STR_POP_VAR", "RANDOMIZE"} :
       op \notin ControlOps /\ op \notin OnOps
<1>1. ASSUME NEW op \in ExpressionOps PROVE op \notin ControlOps /\ op \notin OnOps
  BY DEF ControlOps, OnOps, JumpOps, ExpressionOps, UnaryOps, BinaryOps, CompareOps,
         StrToNumOps, NumToStrOps, SliceOps
<1>2. ASSUME NEW op \in StatementOps PROVE op \notin ControlOps /\ op \notin OnOps
  BY DEF ControlOps, OnOps, JumpOps, StatementOps
<1>3. ASSUME NEW op \in DimOps \cup NumArrayOps \cup StrArrayOps
      PROVE  op \notin ControlOps /\ op \notin OnOps
  BY DEF ControlOps, OnOps, JumpOps, DimOps, NumArrayOps, StrArrayOps, NumGetOps, NumSetOps,
         StrGetOps, StrSetOps
<1>4. ASSUME NEW op \in {"PUSH_CONST", "STR_PUSH", "PUSH_VAR", "STR_PUSH_VAR", "POP_VAR",
                         "STR_POP_VAR", "RANDOMIZE"}
      PROVE  op \notin ControlOps /\ op \notin OnOps
  BY DEF ControlOps, OnOps, JumpOps
<1> QED
  BY <1>1, <1>2, <1>3, <1>4

(* Subscripts are put on the stack.                                        *)
LEMMA SubscriptsChain ==
    ASSUME NEW es \in Seq(ParseTree), \A i \in DOMAIN es : IsNumber(es[i])
    PROVE  \A s \in StackType :
              Chain(TypeStep, Expressions(es), At(s), At(s \o Nums(Len(es))))
<1>1. Len(es) \in Nat /\ DOMAIN es = 1..Len(es)
  OBVIOUS
<1>2. \A i \in 1..Len(es) : Yields(es[i]) = <<Nums(Len(es))[i]>>
  BY <1>1, NumsAre DEF IsNumber
<1>3. Nums(Len(es)) \in StackType /\ Len(Nums(Len(es))) = Len(es)
  BY <1>1, NumsAre
<1> QED
  BY <1>2, <1>3, ExpressionsChain

(* What an array's element yields.                                         *)
LEMMA ReadActs ==
    ASSUME NEW slot \in Slot, NEW n \in 1..2
    PROVE  /\ Acts(ReadOp(slot, n), Nums(n), <<TypeOf(slot)>>)
           /\ Acts(WriteOp(slot, n), Nums(n) \o <<TypeOf(slot)>>, <<>>)
           /\ Nums(n) \o <<TypeOf(slot)>> \in StackType
           /\ ReadOp(slot, n) \in NumArrayOps \cup StrArrayOps
           /\ WriteOp(slot, n) \in NumArrayOps \cup StrArrayOps
<1>1. n = 1 \/ n = 2
  OBVIOUS
<1>2. TypeOf(slot) \in {"num", "str"}
  BY DEF TypeOf
<1>3. PICK type \in {"num", "str"} : type = TypeOf(slot)
  BY <1>2
<1>4. <<"num">> \o <<type>> = <<"num", type>>
  BY JoinTuples, Zenon
<1>5. <<"num", "num">> \o <<type>> = <<"num", "num", type>>
  BY JoinTuples, Zenon
<1>6. Nums(n) \o <<type>> \in StackType
  BY <1>1, <1>4, <1>5, NumsAre, SmallStacks
<1>7. Acts(ReadOp(slot, n), Nums(n), <<type>>)
  BY <1>1, <1>3, NumsAre, ArrayActs
<1>8. Acts(WriteOp(slot, n), Nums(n) \o <<type>>, <<>>)
  BY <1>1, <1>3, <1>4, <1>5, NumsAre, ArrayActs
<1>9. ReadOp(slot, n) \in NumArrayOps \cup StrArrayOps
      /\ WriteOp(slot, n) \in NumArrayOps \cup StrArrayOps
  BY DEF ReadOp, WriteOp, NumArrayOps, StrArrayOps, NumGetOps, NumSetOps, StrGetOps, StrSetOps
<1> QED
  BY <1>3, <1>6, <1>7, <1>8, <1>9

(* The calls of an expression leave its value.                             *)
LEMMA ExpressionTyped ==
    ASSUME NEW e \in ParseTree, TypedExpression(e), NEW s \in StackType
    PROVE  Chain(TypeStep, compile_expression(e), At(s), At(s \o Yields(e)))
<1>1. IsExpression(e)
  BY SyntaxAssumption
<1>2. \A c \in QuietCall : c \in CallType
  BY QuietIsPlain, PlainIsPlain
<1>3. s \o <<>> = s /\ <<>> \in StackType
  BY DEF StackType
<1>4. ASSUME NEW op, NEW arg, NEW left, compile_expression(e) = <<Emit(op, arg)>>,
             Emit(op, arg) \in QuietCall, op \notin ControlOps, op \notin OnOps,
             Acts(op, <<>>, left), Yields(e) = left
      PROVE  Chain(TypeStep, compile_expression(e), At(s), At(s \o Yields(e)))
  <2>1. <<Emit(op, arg), At(s \o <<>>), At(s \o left)>> \in TypeStep
    BY <1>2, <1>3, <1>4, EmitStep
  <2> QED
    BY <1>3, <1>4, <2>1, ChainOne
<1>5. CASE e.k = "num" /\ e.val \in Number
  <2>1. compile_expression(e) = <<Emit("PUSH_CONST", e.val)>> /\ Yields(e) = <<"num">>
    BY <1>5 DEF compile_expression, Yields
  <2>2. Acts("PUSH_CONST", <<>>, <<"num">>)
    BY PlainActs DEF PushNumOps
  <2> QED
    BY <1>4, <1>5, <2>1, <2>2, NoControl, ConstantQuiet
<1>6. CASE e.k = "str" /\ e.val \in Text
  <2>1. compile_expression(e) = <<Emit("STR_PUSH", e.val)>> /\ Yields(e) = <<"str">>
    BY <1>6 DEF compile_expression, Yields
  <2>2. Acts("STR_PUSH", <<>>, <<"str">>)
    BY PlainActs DEF PushStrOps
  <2> QED
    BY <1>4, <1>6, <2>1, <2>2, NoControl, ConstantQuiet
<1>7. CASE e.k = "var" /\ e.slot \in Slot
  <2> DEFINE op == IF IsString(e.slot) THEN "STR_PUSH_VAR" ELSE "PUSH_VAR"
  <2>1. compile_expression(e) = <<Emit(op, e.slot)>> /\ Yields(e) = <<TypeOf(e.slot)>>
    BY <1>7 DEF compile_expression, Yields, TypeOf
  <2>2. Acts(op, <<>>, <<TypeOf(e.slot)>>)
    BY PlainActs DEF PushStrOps, PushNumOps, TypeOf
  <2>3. Emit(op, e.slot) \in QuietCall
    BY <1>7, VariableQuiet DEF VariableOps
  <2>4. op \notin ControlOps /\ op \notin OnOps
    BY NoControl
  <2> HIDE DEF op
  <2> QED
    BY <1>4, <2>1, <2>2, <2>3, <2>4
<1>8. CASE e.k = "elem" /\ e.slot \in Slot /\ e.subs \in Seq(ParseTree) /\ Len(e.subs) \in 1..2
  <2> DEFINE n == Len(e.subs)
             op == ReadOp(e.slot, n)
             q == Expressions(e.subs)
             c == Emit(op, e.slot)
  <2>1. compile_expression(e) = Append(q, c) /\ Yields(e) = <<TypeOf(e.slot)>>
    BY <1>8 DEF compile_expression, Yields, TypeOf
  <2>2. Acts(op, Nums(n), <<TypeOf(e.slot)>>) /\ op \in NumArrayOps \cup StrArrayOps
    BY <1>8, ReadActs
  <2>3. op \notin ControlOps /\ op \notin OnOps
    BY <2>2, NoControl
  <2>4. c \in QuietCall
    BY <1>8, AccessQuiet
  <2>5. n \in Nat /\ Nums(n) \in StackType
    <3>1. n \in Nat
      BY <1>8
    <3> HIDE DEF n
    <3> QED
      BY <3>1, NumsAre
  <2>6. q \in Seq(QuietCall)
    BY <1>8, ExpressionsQuiet
  <2>7. Chain(TypeStep, q, At(s), At(s \o Nums(n)))
    BY <1>8, SubscriptsChain DEF TypedExpression
  <2> HIDE DEF n, op, q
  <2>8. <<c, At(s \o Nums(n)), At(s \o <<TypeOf(e.slot)>>)>> \in TypeStep
    BY <1>2, <2>2, <2>3, <2>4, <2>5, EmitStep
  <2> HIDE DEF c
  <2>9. Chain(TypeStep, Append(q, c), At(s), At(s \o <<TypeOf(e.slot)>>))
    BY <2>4, <2>6, <2>7, <2>8, ChainLast
  <2> QED
    BY <2>1, <2>9
<1>9. CASE e.k = "op" /\ e.op \in ExpressionOps /\ e.args \in Seq(ParseTree)
  <2> DEFINE q == Expressions(e.args)
             c == Emit(e.op, 0)
  <2>1. compile_expression(e) = Append(q, c)
    BY <1>9 DEF compile_expression, EmitNoOperand
  <2>2. Applies(e.op, e.args, Yields(e))
    BY <1>9 DEF TypedExpression
  <2>3. PICK types \in StackType : /\ Acts(e.op, types, Yields(e))
                                   /\ Chain(TypeStep, q, At(s), At(s \o types))
    BY <1>9, <2>2, ArgumentsChain
  <2>4. c \in QuietCall
    BY <1>9, EmitNoOperandQuiet DEF NoOperandOps, EmitNoOperand
  <2>5. q \in Seq(QuietCall)
    BY <1>9, ExpressionsQuiet
  <2>6. e.op \notin ControlOps /\ e.op \notin OnOps
    BY <1>9, NoControl
  <2>7. <<c, At(s \o types), At(s \o Yields(e))>> \in TypeStep
    BY <1>2, <2>3, <2>4, <2>6, EmitStep
  <2> HIDE DEF c, q
  <2>8. Chain(TypeStep, Append(q, c), At(s), At(s \o Yields(e)))
    BY <2>3, <2>4, <2>5, <2>7, ChainLast
  <2> QED
    BY <2>1, <2>8
<1> QED
  BY <1>1, <1>5, <1>6, <1>7, <1>8, <1>9 DEF IsExpression

-----------------------------------------------------------------------------
(* The calls of a statement.                                               *)

Empty == At(<<>>)

(* An opcode that takes all operands there are.                            *)
LEMMA TakeAllStep ==
    ASSUME NEW op, NEW arg, Emit(op, arg) \in CallType, op \notin OnOps,
           NEW types \in StackType, Acts(op, types, <<>>)
    PROVE  <<Emit(op, arg), At(types), Empty>> \in TypeStep
<1>1. <<>> \in StackType /\ <<>> \o types = types /\ <<>> \o <<>> = <<>>
  BY DEF StackType
<1>2. <<Emit(op, arg), At(<<>> \o types), At(<<>> \o <<>>)>> \in TypeStep
  <2>1. op \in ControlOps => <<>> = <<>> /\ <<>> = <<>>
    OBVIOUS
  <2> QED
    BY <1>1, EmitStep
<1> QED
  BY <1>1, <1>2 DEF Empty

(* Calls whose code leaves the stack empty.                                *)
LEMMA IdleStep ==
    ASSUME NEW c \in CallType
    PROVE  /\ c.call \notin {"emit", "reference", "expression", "then"} =>
                 <<c, Empty, Empty>> \in TypeStep
           /\ c.call = "reference" /\ c.op # "NOP" => <<c, Empty, Empty>> \in TypeStep
<1>1. Empty \in Point /\ Empty.stack = <<>> /\ Empty.due = 0
  BY PointFields, SmallStacks DEF Empty
<1>2. c.call \notin {"emit", "reference", "expression", "then"} => Goes(c, Empty, Empty)
  BY DEF Goes, PlainGoes, Empty
<1>3. c.call = "reference" /\ c.op # "NOP" => Goes(c, Empty, Empty)
  BY <1>1 DEF Goes, ReferenceGoes
<1> QED
  BY <1>1, <1>2, <1>3, TypeStepIs

(* A number and the opcode that takes it.                                  *)
LEMMA NumberChain ==
    ASSUME NEW e \in ParseTree, IsNumber(e), NEW op, NEW arg, Emit(op, arg) \in CallType,
           op \notin OnOps, Acts(op, <<"num">>, <<>>)
    PROVE  Chain(TypeStep, <<Expression(e), Emit(op, arg)>>, Empty, Empty)
<1>1. <<"num">> \in StackType /\ <<>> \in StackType /\ <<>> \o <<"num">> = <<"num">>
  BY SmallStacks
<1>2. <<Expression(e), Empty, At(<<"num">>)>> \in TypeStep
  <2>1. <<Expression(e), At(<<>>), At(<<>> \o Yields(e))>> \in TypeStep
    BY <1>1, ExpressionStep
  <2> QED
    BY <1>1, <2>1 DEF IsNumber, Empty
<1>3. <<Emit(op, arg), At(<<"num">>), Empty>> \in TypeStep
  BY <1>1, TakeAllStep
<1>4. Expression(e) \in CallType
  BY OneQuiet, QuietIsPlain, PlainIsPlain
<1> QED
  BY <1>2, <1>3, <1>4, ChainTwo

(* An opcode without operands.                                             *)
LEMMA SingleStep ==
    ASSUME NEW op, NEW arg, Emit(op, arg) \in CallType, op \in NoEffectOps \cup IOPlainOps
    PROVE  <<Emit(op, arg), Empty, Empty>> \in TypeStep
<1>1. Acts(op, <<>>, <<>>)
  BY PlainActs, IOActs
<1>2. op \notin OnOps
  BY DEF OnOps, NoEffectOps, IOPlainOps
<1> QED
  BY <1>1, <1>2, SmallStacks, TakeAllStep DEF Empty

(* LET.                                                                    *)
LEMMA LetTyped ==
    ASSUME NEW s, s.slot \in Slot, s.e \in ParseTree, s.subs \in Seq(ParseTree),
           Len(s.subs) \in 0..2, \A i \in DOMAIN s.subs : IsNumber(s.subs[i]),
           Yields(s.e) = <<TypeOf(s.slot)>>
    PROVE  Chain(TypeStep, compile_let_stmt(s), Empty, Empty)
<1> DEFINE n == Len(s.subs)
           op == IF n > 0 THEN WriteOp(s.slot, n)
                 ELSE IF IsString(s.slot) THEN "STR_POP_VAR" ELSE "POP_VAR"
           subs == Expressions(s.subs)
           c == Emit(op, s.slot)
           types == Nums(n) \o <<TypeOf(s.slot)>>
<1>1. n \in 0..2 /\ n \in Nat
  OBVIOUS
<1>2. subs \in Seq(QuietCall) /\ Chain(TypeStep, subs, Empty, At(Nums(n)))
  <2>1. Chain(TypeStep, Expressions(s.subs), At(<<>>), At(<<>> \o Nums(Len(s.subs))))
    BY SubscriptsChain, SmallStacks
  <2>2. <<>> \o Nums(n) = Nums(n)
    <3> HIDE DEF n
    <3>1. Nums(n) \in Seq({"num", "str"})
      BY <1>1, NumsAre DEF StackType
    <3> QED
      BY <3>1
  <2> QED
    BY <2>1, <2>2, ExpressionsQuiet DEF Empty
<1>3. Nums(n) \in StackType
  <2> HIDE DEF n
  <2> QED
    BY <1>1, NumsAre
<1>4. <<Expression(s.e), At(Nums(n)), At(types)>> \in TypeStep /\ types \in StackType
  BY <1>3, ExpressionStep
<1>5. c \in QuietCall
  BY <1>1, AccessQuiet, VariableQuiet DEF VariableOps
<1>6. Acts(op, types, <<>>) /\ op \notin OnOps
  <2>1. CASE n = 0
    <3>1. Nums(0) = <<>> /\ <<>> \o <<TypeOf(s.slot)>> = <<TypeOf(s.slot)>>
      BY NumsAre
    <3>2. types = <<TypeOf(s.slot)>>
      BY <2>1, <3>1
    <3>3. op = IF IsString(s.slot) THEN "STR_POP_VAR" ELSE "POP_VAR"
      BY <2>1
    <3>4. Acts("STR_POP_VAR", <<"str">>, <<>>) /\ Acts("POP_VAR", <<"num">>, <<>>)
      BY PlainActs DEF TakeNumOps
    <3>5. op \notin OnOps
      BY <3>3, NoControl
    <3> HIDE DEF op, types
    <3> QED
      BY <3>2, <3>3, <3>4, <3>5 DEF TypeOf
  <2>2. CASE n # 0
    <3>1. n \in 1..2 /\ op = WriteOp(s.slot, n)
      BY <1>1, <2>2
    <3> HIDE DEF n, op
    <3>2. Acts(op, types, <<>>) /\ op \in NumArrayOps \cup StrArrayOps
      BY <3>1, ReadActs
    <3> QED
      BY <3>2, NoControl
  <2> QED
    BY <2>1, <2>2
<1>7. compile_let_stmt(s) = subs \o <<Expression(s.e), c>>
  BY DEF compile_let_stmt
<1> HIDE DEF subs, op, types
<1>8. <<c, At(types), Empty>> \in TypeStep
  BY <1>4, <1>5, <1>6, TakeAllStep, QuietIsPlain, PlainIsPlain
<1>9. Expression(s.e) \in QuietCall
  BY OneQuiet
<1> HIDE DEF c, n
<1>10. Chain(TypeStep, <<Expression(s.e), c>>, At(Nums(n)), Empty)
  BY <1>4, <1>5, <1>8, <1>9, ChainTwo
<1>11. <<Expression(s.e), c>> \in Seq(QuietCall)
  BY <1>5, <1>9
<1>12. Chain(TypeStep, subs \o <<Expression(s.e), c>>, Empty, Empty)
  <2> DEFINE q == <<Expression(s.e), c>>
  <2>1. q \in Seq(QuietCall) /\ Chain(TypeStep, q, At(Nums(n)), Empty)
    BY <1>10, <1>11
  <2> HIDE DEF q
  <2>2. Chain(TypeStep, subs \o q, Empty, Empty)
    BY <1>2, <2>1, ChainJoin
  <2> QED
    BY <2>2 DEF q
<1> QED
  BY <1>7, <1>12

(* Numbers are put on the stack.                                           *)
LEMMA NumbersChain ==
    ASSUME NEW n \in Nat, NEW q, Len(q) = n,
           \A i \in 1..n : \E a \in Number : q[i] = Emit("PUSH_CONST", a)
    PROVE  Chain(TypeStep, q, Empty, At(Nums(n)))
<1> DEFINE b == [i \in 1..(n + 1) |-> At(Nums(i - 1))]
<1>1. b[1] = Empty /\ b[n + 1] = At(Nums(n))
  BY NumsAre DEF Empty
<1>2. ASSUME NEW i \in 1..n PROVE <<q[i], b[i], b[i + 1]>> \in TypeStep
  <2>1. i - 1 \in Nat /\ i \in 1..(n + 1) /\ i + 1 \in 1..(n + 1) /\ (i + 1) - 1 = i
        /\ (i - 1) + 1 = i
    OBVIOUS
  <2>2. PICK a \in Number : q[i] = Emit("PUSH_CONST", a)
    OBVIOUS
  <2>3. Emit("PUSH_CONST", a) \in CallType
    BY ConstantQuiet, QuietIsPlain, PlainIsPlain
  <2>4. Nums(i - 1) \in StackType /\ Nums(i) = Nums(i - 1) \o <<"num">>
    BY <2>1, NumsAre
  <2>5. Acts("PUSH_CONST", <<>>, <<"num">>)
    BY PlainActs DEF PushNumOps
  <2>6. PICK low : low = Nums(i - 1)
    OBVIOUS
  <2>7. low \in StackType /\ low \o <<>> = low /\ <<>> \in StackType
    BY <2>4, <2>6 DEF StackType
  <2>8. <<Emit("PUSH_CONST", a), At(low \o <<>>), At(low \o <<"num">>)>> \in TypeStep
    BY <2>3, <2>5, <2>7, NoControl, EmitStep
  <2>9. b[i] = At(low) /\ b[i + 1] = At(low \o <<"num">>)
    BY <2>1, <2>4, <2>6
  <2> HIDE DEF b
  <2> QED
    BY <2>2, <2>7, <2>8, <2>9
<1> HIDE DEF b
<1>3. \E d : /\ d[1] = Empty /\ d[Len(q) + 1] = At(Nums(n))
             /\ \A i \in 1..Len(q) : <<q[i], d[i], d[i + 1]>> \in TypeStep
  BY <1>1, <1>2
<1> QED
  BY <1>3 DEF Chain

(* DIM.                                                                    *)
LEMMA DimTyped ==
    ASSUME NEW s, s.slot \in Slot, s.sizes \in Seq(Number), Len(s.sizes) \in 1..2
    PROVE  Chain(TypeStep, compile_dim(s), Empty, Empty)
<1> DEFINE sizes == [i \in DOMAIN s.sizes |-> Emit("PUSH_CONST", s.sizes[i])]
           op == IF Len(s.sizes) = 2 THEN "DIM_2D" ELSE "DIM_1D"
           last == Emit(op, s.slot)
           n == Len(s.sizes)
<1>1. DOMAIN s.sizes = 1..n /\ n \in Nat /\ n \in 1..2 /\ \A i \in 1..n : s.sizes[i] \in Number
  OBVIOUS
<1>2. Len(sizes) = n /\ \A i \in 1..n : \E a \in Number : sizes[i] = Emit("PUSH_CONST", a)
  BY <1>1
<1>3. sizes \in Seq(QuietCall)
  BY <1>1, ConstantQuiet
<1>4. last \in QuietCall
  BY VariableQuiet DEF DimOps
<1>5. compile_dim(s) = Append(sizes, last)
  BY DEF compile_dim
<1>6. Acts(op, Nums(n), <<>>) /\ op \notin OnOps /\ Nums(n) \in StackType
  <2>1. op \in DimOps
    BY DEF DimOps
  <2>2. (n = 1 /\ op = "DIM_1D") \/ (n = 2 /\ op = "DIM_2D")
    BY <1>1
  <2> HIDE DEF n, op
  <2>3. Acts(op, Nums(n), <<>>)
    BY <2>2, NumsAre, ArrayActs
  <2> QED
    BY <1>1, <2>1, <2>3, NoControl, NumsAre
<1> HIDE DEF sizes, n, op
<1>7. Chain(TypeStep, sizes, Empty, At(Nums(n)))
  BY <1>1, <1>2, NumbersChain
<1>8. <<last, At(Nums(n)), Empty>> \in TypeStep
  BY <1>4, <1>6, TakeAllStep, QuietIsPlain, PlainIsPlain
<1> HIDE DEF last
<1>9. Chain(TypeStep, Append(sizes, last), Empty, Empty)
  BY <1>3, <1>4, <1>7, <1>8, ChainLast
<1> QED
  BY <1>5, <1>9

(* FOR.                                                                    *)
LEMMA ForTyped ==
    ASSUME NEW s, s.slot \in Slot, s.from \in ParseTree, s.to \in ParseTree,
           IsNumber(s.from), IsNumber(s.to)
    PROVE  Chain(TypeStep, compile_for(s), Empty, Empty)
<1> DEFINE a == Expression(s.from)
           b == Expression(s.to)
           c == Emit("PUSH_CONST", 1)
           d == Emit("FOR_INIT", s.slot)
<1>1. a \in CallType /\ b \in CallType /\ c \in CallType /\ d \in CallType
  <2>1. a \in QuietCall /\ b \in QuietCall
    BY OneQuiet
  <2>2. c \in QuietCall
    BY ConstantQuiet, SyntaxAssumption
  <2>3. d \in QuietCall
    BY VariableQuiet DEF VariableOps
  <2> HIDE DEF a, b, c, d
  <2> QED
    BY <2>1, <2>2, <2>3, QuietIsPlain, PlainIsPlain
<1>2. /\ <<>> \in StackType /\ <<"num">> \in StackType /\ <<"num", "num">> \in StackType
      /\ <<"num", "num", "num">> \in StackType
  BY SmallStacks
<1>3. <<>> \o <<"num">> = <<"num">> /\ <<"num">> \o <<"num">> = <<"num", "num">>
      /\ <<"num", "num">> \o <<"num">> = <<"num", "num", "num">>
      /\ <<"num", "num">> \o <<>> = <<"num", "num">>
  <2>1. <<>> \o <<"num">> = <<"num">> /\ <<"num", "num">> \o <<>> = <<"num", "num">>
    OBVIOUS
  <2>2. <<"num">> \o <<"num">> = <<"num", "num">>
        /\ <<"num", "num">> \o <<"num">> = <<"num", "num", "num">>
    BY JoinTuples, Zenon
  <2> QED
    BY <2>1, <2>2, Zenon
<1>4. <<a, Empty, At(<<"num">>)>> \in TypeStep
  <2>1. <<a, At(<<>>), At(<<>> \o Yields(s.from))>> \in TypeStep
    BY <1>2, ExpressionStep
  <2> QED
    BY <1>3, <2>1, Zenon DEF IsNumber, Empty
<1>5. <<b, At(<<"num">>), At(<<"num", "num">>)>> \in TypeStep
  <2>1. <<b, At(<<"num">>), At(<<"num">> \o Yields(s.to))>> \in TypeStep
    BY <1>2, ExpressionStep
  <2> QED
    BY <1>3, <2>1, Zenon DEF IsNumber
<1>6. <<c, At(<<"num", "num">>), At(<<"num", "num", "num">>)>> \in TypeStep
  <2>1. Acts("PUSH_CONST", <<>>, <<"num">>)
    BY PlainActs DEF PushNumOps
  <2>2. <<c, At(<<"num", "num">> \o <<>>), At(<<"num", "num">> \o <<"num">>)>> \in TypeStep
    BY <1>1, <1>2, <2>1, NoControl, EmitStep
  <2> QED
    BY <1>3, <2>2, Zenon
<1>7. <<d, At(<<"num", "num", "num">>), Empty>> \in TypeStep
  <2>1. Acts("FOR_INIT", <<"num", "num", "num">>, <<>>)
    BY PlainActs
  <2>2. "FOR_INIT" \notin OnOps
    BY DEF OnOps
  <2> QED
    BY <1>1, <1>2, <2>1, <2>2, TakeAllStep
<1>8. compile_for(s) = <<a, b, c, d>>
  BY DEF compile_for
<1> HIDE DEF a, b, c, d
<1>9. Chain(TypeStep, <<a, b>>, Empty, At(<<"num", "num">>))
      /\ Chain(TypeStep, <<c, d>>, At(<<"num", "num">>), Empty)
  BY <1>1, <1>4, <1>5, <1>6, <1>7, ChainTwo
<1>10. <<a, b>> \in Seq(CallType) /\ <<c, d>> \in Seq(CallType)
  BY <1>1
<1>11. <<a, b>> \o <<c, d>> = <<a, b, c, d>>
  <2>1. PICK p, q : p = <<a, b>> \o <<c, d>> /\ q = <<a, b, c, d>>
    OBVIOUS
  <2>2. p \in Seq(CallType) /\ Len(p) = 4 /\ p[1] = a /\ p[2] = b /\ p[3] = c /\ p[4] = d
    BY <1>10, <2>1
  <2>3. q \in Seq(CallType) /\ Len(q) = 4 /\ q[1] = a /\ q[2] = b /\ q[3] = c /\ q[4] = d
    BY <1>1, <2>1
  <2>4. p = q
    BY <2>2, <2>3, SeqEqual
  <2> QED
    BY <2>1, <2>4, Zenon
<1>12. Chain(TypeStep, <<a, b>> \o <<c, d>>, Empty, Empty)
  <2>1. PICK p, q : p = <<a, b>> /\ q = <<c, d>>
    OBVIOUS
  <2>2. /\ p \in Seq(CallType) /\ q \in Seq(CallType)
        /\ Chain(TypeStep, p, Empty, At(<<"num", "num">>))
        /\ Chain(TypeStep, q, At(<<"num", "num">>), Empty)
    BY <1>9, <1>10, <2>1, Zenon
  <2>3. Chain(TypeStep, p \o q, Empty, Empty)
    BY <2>2, ChainJoin
  <2> QED
    BY <2>1, <2>3, Zenon
<1> QED
  BY <1>8, <1>11, <1>12, Zenon

(* NEXT, and one variable of it.                                           *)
LEMMA NextTyped ==
    /\ \A s : s.slots \in Seq(Slot) => Chain(TypeStep, compile_next(s), Empty, Empty)
    /\ \A slots \in Seq(Slot) : \A i \in 1..Len(slots) :
          Chain(TypeStep, NextVariable(slots, i), Empty, Empty)
<1>1. ASSUME NEW arg, Emit("FOR_NEXT", arg) \in QuietCall
      PROVE  Chain(TypeStep, <<Emit("FOR_NEXT", arg)>>, Empty, Empty)
  <2>1. Emit("FOR_NEXT", arg) \in CallType /\ "FOR_NEXT" \in NoEffectOps
    BY <1>1, QuietIsPlain, PlainIsPlain DEF NoEffectOps
  <2> QED
    BY <2>1, SingleStep, ChainOne
<1>2. ASSUME NEW s, s.slots \in Seq(Slot)
      PROVE  Chain(TypeStep, compile_next(s), Empty, Empty)
  <2>1. CASE s.slots = <<>>
    <3>1. compile_next(s) = <<Emit("FOR_NEXT", NoVar)>>
      BY <2>1 DEF compile_next
    <3>2. <<Emit("FOR_NEXT", NoVar)>> \in Seq(QuietCall)
      BY <1>2, <3>1, NextQuiet
    <3>3. Emit("FOR_NEXT", NoVar) \in QuietCall
      <4>1. PICK p : p = <<Emit("FOR_NEXT", NoVar)>>
        OBVIOUS
      <4>2. p \in Seq(QuietCall) /\ 1 \in 1..Len(p) /\ p[1] = Emit("FOR_NEXT", NoVar)
        BY <3>2, <4>1
      <4> QED
        BY <4>2
    <3> QED
      BY <1>1, <3>1, <3>3
  <2>2. CASE s.slots # <<>>
    <3> DEFINE q == compile_next(s)
    <3>1. Len(s.slots) \in Nat /\ DOMAIN s.slots = 1..Len(s.slots)
      BY <1>2
    <3>2. q = [i \in DOMAIN s.slots |-> NextOne(s.slots, i)]
      BY <2>2 DEF compile_next
    <3>3. Len(q) \in Nat /\ \A i \in 1..Len(q) : i \in 1..Len(s.slots) /\ q[i] = NextOne(s.slots, i)
      BY <3>1, <3>2
    <3>4. ASSUME NEW i \in 1..Len(s.slots)
          PROVE  <<NextOne(s.slots, i), Empty, Empty>> \in TypeStep
      <4>1. NextOne(s.slots, i) \in CallType
        BY <1>2, OneQuiet, QuietIsPlain, PlainIsPlain
      <4>2. NextOne(s.slots, i).call = "next"
        BY DEF NextOne
      <4> QED
        BY <4>1, <4>2, IdleStep
    <3>5. \A i \in 1..Len(q) : <<q[i], Empty, Empty>> \in TypeStep
      BY <3>3, <3>4
    <3> QED
      BY <3>3, <3>5, ChainLoop
  <2> QED
    BY <2>1, <2>2
<1>3. ASSUME NEW slots \in Seq(Slot), NEW i \in 1..Len(slots)
      PROVE  Chain(TypeStep, NextVariable(slots, i), Empty, Empty)
  <2>1. slots[i] \in Slot
    OBVIOUS
  <2>2. Emit("FOR_NEXT", slots[i]) \in QuietCall
    BY <2>1, VariableQuiet
  <2>3. NextVariable(slots, i) = <<>> \/ NextVariable(slots, i) = <<Emit("FOR_NEXT", slots[i])>>
    BY DEF NextVariable
  <2>4. Chain(TypeStep, <<>>, Empty, Empty)
    BY ChainNone
  <2> QED
    BY <1>1, <2>2, <2>3, <2>4
<1> QED
  BY <1>2, <1>3

(* Instructions that need no operands, one after the other.                *)
LEMMA SinglesChain ==
    ASSUME NEW q \in Seq(QuietCall),
           \A i \in 1..Len(q) : \E op \in NoEffectOps \cup IOPlainOps : \E arg : q[i] = Emit(op, arg)
    PROVE  Chain(TypeStep, q, Empty, Empty)
<1>1. Len(q) \in Nat /\ \A i \in 1..Len(q) : q[i] \in QuietCall
  OBVIOUS
<1>2. ASSUME NEW i \in 1..Len(q) PROVE <<q[i], Empty, Empty>> \in TypeStep
  <2>1. q[i] \in CallType
    BY <1>1, QuietIsPlain, PlainIsPlain
  <2>2. PICK op \in NoEffectOps \cup IOPlainOps : \E arg : q[i] = Emit(op, arg)
    OBVIOUS
  <2>3. PICK arg : q[i] = Emit(op, arg)
    BY <2>2
  <2> QED
    BY <2>1, <2>2, <2>3, SingleStep
<1> QED
  BY <1>1, <1>2, ChainLoop

(* READ.                                                                   *)
LEMMA ReadTyped ==
    ASSUME NEW s, s.slots \in Seq(Slot)
    PROVE  Chain(TypeStep, compile_read(s), Empty, Empty)
<1> DEFINE q == compile_read(s)
           op(i) == IF IsString(s.slots[i]) THEN "DATA_READ_STR" ELSE "DATA_READ_NUM"
<1>1. Len(s.slots) \in Nat /\ DOMAIN s.slots = 1..Len(s.slots)
  OBVIOUS
<1>2. q = [i \in DOMAIN s.slots |-> Emit(op(i), s.slots[i])]
  BY DEF compile_read
<1>3. \A i \in 1..Len(s.slots) : op(i) \in NoEffectOps \cup IOPlainOps
  BY DEF NoEffectOps
<1>4. q \in Seq(QuietCall)
  BY ReadQuiet
<1> HIDE DEF op
<1>5. Len(q) = Len(s.slots) /\ \A i \in 1..Len(q) : q[i] = Emit(op(i), s.slots[i])
  BY <1>1, <1>2
<1> HIDE DEF q
<1>6. \A i \in 1..Len(q) : \E o \in NoEffectOps \cup IOPlainOps : \E arg : q[i] = Emit(o, arg)
  BY <1>3, <1>5
<1> QED
  BY <1>4, <1>6, SinglesChain DEF q

(* INPUT.                                                                  *)
LEMMA InputTyped ==
    ASSUME NEW s, s.prompt \in Seq(Text), Len(s.prompt) \in 0..1, s.slots \in Seq(Slot)
    PROVE  Chain(TypeStep, compile_input(s), Empty, Empty)
<1> DEFINE prompt == IF s.prompt = <<>> THEN <<>> ELSE <<Emit("INPUT_PROMPT", s.prompt[1])>>
           op(i) == IF IsString(s.slots[i]) THEN "INPUT_STR" ELSE "INPUT_NUM"
           each == [i \in DOMAIN s.slots |-> Emit(op(i), s.slots[i])]
<1>1. prompt \in Seq(QuietCall)
  <2>1. s.prompt # <<>> => s.prompt[1] \in Text
    OBVIOUS
  <2>2. s.prompt # <<>> => Emit("INPUT_PROMPT", s.prompt[1]) \in QuietCall
    BY <2>1, ConstantQuiet
  <2> QED
    BY <2>2
<1>2. \A i \in 1..Len(prompt) :
         \E o \in NoEffectOps \cup IOPlainOps : \E arg : prompt[i] = Emit(o, arg)
  <2>1. "INPUT_PROMPT" \in NoEffectOps \cup IOPlainOps
    BY DEF IOPlainOps
  <2>2. CASE s.prompt = <<>>
    BY <2>2
  <2>3. CASE s.prompt # <<>>
    <3>1. prompt = <<Emit("INPUT_PROMPT", s.prompt[1])>>
      BY <2>3
    <3> HIDE DEF prompt
    <3>2. \A i \in 1..Len(prompt) : prompt[i] = Emit("INPUT_PROMPT", s.prompt[1])
      BY <3>1
    <3> QED
      BY <2>1, <3>2
  <2> QED
    BY <2>2, <2>3
<1>3. Len(s.slots) \in Nat /\ DOMAIN s.slots = 1..Len(s.slots)
      /\ \A i \in 1..Len(s.slots) : s.slots[i] \in Slot
  OBVIOUS
<1>4. \A i \in 1..Len(s.slots) : op(i) \in NoEffectOps \cup IOPlainOps /\ op(i) \in VariableOps
  BY DEF IOPlainOps, VariableOps
<1> HIDE DEF op
<1>5. each \in Seq(QuietCall) /\ Len(each) = Len(s.slots)
      /\ \A i \in 1..Len(each) : each[i] = Emit(op(i), s.slots[i])
  <2>1. \A i \in 1..Len(s.slots) : Emit(op(i), s.slots[i]) \in QuietCall
    BY <1>3, <1>4, VariableQuiet
  <2> QED
    BY <1>3, <2>1
<1>6. compile_input(s) = prompt \o each
  BY DEF compile_input, op
<1> HIDE DEF prompt, each
<1>7. \A i \in 1..Len(each) : \E o \in NoEffectOps \cup IOPlainOps : \E arg : each[i] = Emit(o, arg)
  BY <1>4, <1>5
<1>8. Chain(TypeStep, prompt, Empty, Empty) /\ Chain(TypeStep, each, Empty, Empty)
  BY <1>1, <1>2, <1>5, <1>7, SinglesChain
<1> QED
  BY <1>1, <1>5, <1>6, <1>8, ChainJoin

(* What an item of a PRINT comes to.                                       *)
LEMMA PrintItemTyped ==
    ASSUME NEW e \in ParseTree \cup Separator
    PROVE  Chain(TypeStep, PrintItem(e), Empty, Empty)
<1>1. ASSUME NEW op \in {"PRINT_TAB", "PRINT_STR", "PRINT_NUM"}
      PROVE  EmitNoOperand(op) \in CallType /\ op \notin OnOps
  <2>1. op \in NoOperandOps /\ op \notin OnOps
    BY DEF NoOperandOps, OnOps
  <2> QED
    BY <2>1, EmitNoOperandQuiet, QuietIsPlain, PlainIsPlain
<1>2. Chain(TypeStep, <<>>, Empty, Empty)
  BY ChainNone
<1>3. CASE e.k = "sep"
  <2>1. PrintItem(e) = <<EmitNoOperand("PRINT_TAB")>> \/ PrintItem(e) = <<>>
    BY <1>3 DEF PrintItem
  <2>2. "PRINT_TAB" \in NoEffectOps \cup IOPlainOps
    BY DEF IOPlainOps
  <2>3. <<EmitNoOperand("PRINT_TAB"), Empty, Empty>> \in TypeStep
    BY <1>1, <2>2, SingleStep DEF EmitNoOperand
  <2> QED
    BY <1>2, <2>1, <2>3, ChainOne
<1>4. CASE e.k # "sep"
  <2>1. e \in ParseTree
    BY <1>4 DEF Separator
  <2>2. /\ <<>> \in StackType /\ <<"num">> \in StackType /\ <<"str">> \in StackType
        /\ <<>> \o <<>> = <<>>
    BY SmallStacks
  <2>3. <<Expression(e), Empty, At(<<>> \o Yields(e))>> \in TypeStep
    BY <2>1, <2>2, ExpressionStep DEF Empty
  <2>4. CASE IsTab(e)
    <3>1. Yields(e) = <<>> /\ PrintItem(e) = <<Expression(e)>>
      BY <1>4, <2>4 DEF IsTab, Yields, PrintItem
    <3>2. <<Expression(e), Empty, Empty>> \in TypeStep
      BY <2>2, <2>3, <3>1 DEF Empty
    <3> QED
      BY <3>1, <3>2, ChainOne
  <2>5. CASE ~IsTab(e)
    <3>1. e.k \in {"num", "str", "var", "elem", "op"}
      BY <2>1, SyntaxAssumption DEF IsExpression
    <3>2. PICK op \in {"PRINT_STR", "PRINT_NUM"} :
             op = IF IsStringItem(e) THEN "PRINT_STR" ELSE "PRINT_NUM"
      OBVIOUS
    <3>3. PrintItem(e) = <<Expression(e), EmitNoOperand(op)>>
      BY <1>4, <2>5, <3>2 DEF PrintItem
    <3>4. Yields(e) = IF IsStringItem(e) THEN <<"str">> ELSE <<"num">>
      BY <2>5, <3>1 DEF Yields, IsStringItem, IsTab
    <3>5. PICK types \in StackType : types = Yields(e) /\ types \in {<<"num">>, <<"str">>}
      BY <2>2, <3>4
    <3>6. Acts(op, types, <<>>)
      BY <3>2, <3>4, <3>5, IOActs
    <3>7. <<>> \o types = types
      BY <3>5
    <3>8. <<EmitNoOperand(op), At(types), Empty>> \in TypeStep
      BY <1>1, <3>6, TakeAllStep DEF EmitNoOperand
    <3>9. <<Expression(e), Empty, At(types)>> \in TypeStep
      BY <2>3, <3>5, <3>7
    <3>10. Expression(e) \in CallType /\ EmitNoOperand(op) \in CallType
      BY <1>1, <2>1, OneQuiet, QuietIsPlain, PlainIsPlain
    <3> QED
      BY <3>3, <3>8, <3>9, <3>10, ChainTwo
  <2> QED
    BY <2>4, <2>5
<1> QED
  BY <1>3, <1>4

(* PRINT.                                                                  *)
LEMMA PrintTyped ==
    ASSUME NEW s, s.items \in Seq(ParseTree \cup Separator),
           HasChannel(s) => IsNumber(s.items[1])
    PROVE  Chain(TypeStep, compile_print(s), Empty, Empty)
<1> DEFINE items == IF HasChannel(s) THEN Tail(s.items) ELSE s.items
           open == items # <<>> /\ (items[Len(items)].k = "sep" \/ IsTab(items[Len(items)]))
           channel == IF HasChannel(s)
                      THEN <<Expression(s.items[1]), EmitNoOperand("SET_PRINT_CHANNEL")>>
                      ELSE <<>>
           each == [i \in DOMAIN items |-> PrintOne(items[i])]
           end == IF open THEN <<>> ELSE <<EmitNoOperand("PRINT_NEWLINE")>>
<1>0. Chain(TypeStep, <<>>, Empty, Empty)
  BY ChainNone
<1>1. EmitNoOperand("SET_PRINT_CHANNEL") \in QuietCall
      /\ EmitNoOperand("PRINT_NEWLINE") \in QuietCall
  BY EmitNoOperandQuiet DEF NoOperandOps
<1>2. channel \in Seq(QuietCall) /\ Chain(TypeStep, channel, Empty, Empty)
  <2>1. CASE ~HasChannel(s)
    BY <1>0, <2>1
  <2>2. CASE HasChannel(s)
    <3>1. s.items[1] \in ParseTree /\ IsNumber(s.items[1])
      BY <2>2, PrintParts
    <3>2. Expression(s.items[1]) \in QuietCall
      BY <3>1, OneQuiet
    <3>3. channel = <<Expression(s.items[1]), EmitNoOperand("SET_PRINT_CHANNEL")>>
      BY <2>2
    <3>4. Acts("SET_PRINT_CHANNEL", <<"num">>, <<>>) /\ "SET_PRINT_CHANNEL" \notin OnOps
      BY IOActs DEF OnOps
    <3>5. Emit("SET_PRINT_CHANNEL", 0) \in CallType
      BY <1>1, QuietIsPlain, PlainIsPlain DEF EmitNoOperand
    <3>6. Chain(TypeStep, <<Expression(s.items[1]), Emit("SET_PRINT_CHANNEL", 0)>>, Empty, Empty)
      BY <3>1, <3>4, <3>5, NumberChain
    <3> QED
      BY <1>1, <3>2, <3>3, <3>6 DEF EmitNoOperand
  <2> QED
    BY <2>1, <2>2
<1>3. items \in Seq(ParseTree \cup Separator)
  BY PrintParts
<1>4. each \in Seq(QuietCall) /\ Chain(TypeStep, each, Empty, Empty)
  <2> HIDE DEF items
  <2>1. DOMAIN items = 1..Len(items) /\ Len(items) \in Nat
        /\ \A i \in 1..Len(items) : items[i] \in ParseTree \cup Separator
    BY <1>3
  <2>2. ASSUME NEW i \in 1..Len(items)
        PROVE  PrintOne(items[i]) \in QuietCall /\ <<PrintOne(items[i]), Empty, Empty>> \in TypeStep
    <3>1. PrintOne(items[i]) \in QuietCall
      BY <2>1, OneQuiet
    <3>2. PrintOne(items[i]) \in CallType
      BY <3>1, QuietIsPlain, PlainIsPlain
    <3>3. PrintOne(items[i]).call = "print"
      BY DEF PrintOne
    <3> QED
      BY <3>1, <3>2, <3>3, IdleStep
  <2>3. each \in Seq(QuietCall) /\ Len(each) = Len(items)
        /\ \A i \in 1..Len(each) : each[i] = PrintOne(items[i])
    <3> DEFINE k == Len(items)
               f(i) == PrintOne(items[i])
    <3>1. k \in Nat /\ \A i \in 1..k : f(i) \in QuietCall
      BY <2>1, <2>2
    <3>2. each = [i \in 1..k |-> f(i)]
      BY <2>1
    <3> HIDE DEF k, f, each
    <3>3. each \in Seq(QuietCall) /\ Len(each) = k /\ \A i \in 1..Len(each) : each[i] = f(i)
      BY <3>1, <3>2
    <3> QED
      BY <3>3 DEF k, f
  <2> HIDE DEF each
  <2>4. \A i \in 1..Len(each) : <<each[i], Empty, Empty>> \in TypeStep
    BY <2>2, <2>3
  <2> QED
    BY <2>1, <2>3, <2>4, ChainLoop
<1>5. end \in Seq(QuietCall) /\ Chain(TypeStep, end, Empty, Empty)
  <2>1. Emit("PRINT_NEWLINE", 0) \in CallType
    BY <1>1, QuietIsPlain, PlainIsPlain DEF EmitNoOperand
  <2>2. "PRINT_NEWLINE" \in NoEffectOps \cup IOPlainOps
    BY DEF IOPlainOps
  <2>3. Chain(TypeStep, <<Emit("PRINT_NEWLINE", 0)>>, Empty, Empty)
    BY <2>1, <2>2, SingleStep, ChainOne
  <2> HIDE DEF open
  <2>4. end = <<>> \/ end = <<EmitNoOperand("PRINT_NEWLINE")>>
    OBVIOUS
  <2>5. <<EmitNoOperand("PRINT_NEWLINE")>> \in Seq(QuietCall)
    BY <1>1
  <2> QED
    BY <1>0, <2>3, <2>4, <2>5 DEF EmitNoOperand
<1>6. compile_print(s) = channel \o each \o end
  BY DEF compile_print
<1> HIDE DEF channel, each, end
<1>7. channel \o each \in Seq(QuietCall) /\ Chain(TypeStep, channel \o each, Empty, Empty)
  BY <1>2, <1>4, ChainJoin
<1>8. Chain(TypeStep, (channel \o each) \o end, Empty, Empty)
  BY <1>5, <1>7, ChainJoin
<1> QED
  BY <1>6, <1>8

(* RESTORE without a line.                                                 *)
LEMMA RestoreTyped ==
    ASSUME NEW s, s.line = <<>>
    PROVE  Chain(TypeStep, compile_restore_stmt(s), Empty, Empty)
<1>1. compile_restore_stmt(s) = <<Emit("RESTORE", 0)>>
  BY DEF compile_restore_stmt
<1>2. Emit("RESTORE", 0) \in CallType
  <2>1. s.line \in Seq(ParseTree) /\ Len(s.line) \in 0..1
    OBVIOUS
  <2>2. <<Emit("RESTORE", 0)>> \in Seq(QuietCall)
    BY <1>1, <2>1, RestoreQuiet
  <2>3. Emit("RESTORE", 0) \in QuietCall
    <3>1. PICK q \in Seq(QuietCall) : q = <<Emit("RESTORE", 0)>>
      BY <2>2
    <3>2. q[1] \in QuietCall /\ q[1] = Emit("RESTORE", 0)
      BY <3>1
    <3> QED
      BY <3>2
  <2> QED
    BY <2>3, QuietIsPlain, PlainIsPlain
<1>3. "RESTORE" \in NoEffectOps \cup IOPlainOps
  BY DEF NoEffectOps
<1> QED
  BY <1>1, <1>2, <1>3, SingleStep, ChainOne

(* RANDOMIZE, and a branch to a line that is computed.                     *)
LEMMA ComputedTyped ==
    ASSUME NEW e \in ParseTree, IsNumber(e),
           NEW op \in {"RANDOMIZE", "JUMP_LINE", "GOSUB_LINE"}
    PROVE  Chain(TypeStep, <<Expression(e), EmitNoOperand(op)>>, Empty, Empty)
<1>1. op \in NoOperandOps /\ op \notin OnOps /\ op \in TakeNumOps
  BY DEF NoOperandOps, OnOps, TakeNumOps
<1>2. Emit(op, 0) \in CallType
  BY <1>1, EmitNoOperandQuiet, QuietIsPlain, PlainIsPlain DEF EmitNoOperand
<1>3. Acts(op, <<"num">>, <<>>)
  BY <1>1, PlainActs
<1> QED
  BY <1>1, <1>2, <1>3, NumberChain DEF EmitNoOperand

(* A reference to a line, outside of the table of an ON.                   *)
LEMMA ReferenceTyped ==
    ASSUME NEW op \in ReferenceOps \ {"NOP"}, NEW n \in Int
    PROVE  Chain(TypeStep, <<Reference(op, n)>>, Empty, Empty)
<1>1. Reference(op, n) \in CallType
  BY OnePlain, PlainIsPlain
<1>2. Reference(op, n).call = "reference" /\ Reference(op, n).op # "NOP"
  BY DEF Reference
<1> QED
  BY <1>1, <1>2, IdleStep, ChainOne

(* GOTO and GOSUB.                                                         *)
LEMMA BranchTyped ==
    ASSUME NEW target \in ParseTree, IsNumber(target), NEW op \in ReferenceOps \ {"NOP"},
           NEW computed \in {"JUMP_LINE", "GOSUB_LINE"}
    PROVE  Chain(TypeStep, CompileBranch(target, op, computed), Empty, Empty)
<1>1. CASE target.k = "num"
  <2>1. target.val \in Int
    BY <1>1, ConstantTyped
  <2> QED
    BY <1>1, <2>1, ReferenceTyped DEF CompileBranch
<1>2. CASE target.k # "num"
  BY <1>2, ComputedTyped DEF CompileBranch
<1> QED
  BY <1>1, <1>2

(* ON.                                                                     *)
LEMMA OnTyped ==
    ASSUME NEW s, s.e \in ParseTree, s.targets \in Seq(ParseTree), s.gosub \in BOOLEAN,
           IsNumber(s.e)
    PROVE  Chain(TypeStep, compile_on(s), Empty, Empty)
<1> DEFINE ct == ConstantTargets(s)
           n == Len(ct)
           table == [i \in DOMAIN ct |-> Reference("NOP", ct[i].val)]
           op == IF s.gosub THEN "ON_GOSUB" ELSE "ON_GOTO"
           C == {e \in ParseTree : IsConstant(e) /\ \E j \in DOMAIN s.targets : e = s.targets[j]}
<1>1. ct \in Seq(C)
  BY ConstantTargetsTyped
<1>2. n \in Nat /\ DOMAIN ct = 1..n /\ \A i \in 1..n : ct[i] \in C
  <2> HIDE DEF C, ct
  <2> QED
    BY <1>1, SeqTyped
<1>3. \A i \in 1..n : Reference("NOP", ct[i].val) \in PlainCall
  <2>1. ASSUME NEW e \in C PROVE Reference("NOP", e.val) \in PlainCall
    <3>1. e \in ParseTree /\ e.k = "num"
      BY DEF IsConstant
    <3> QED
      BY <3>1, ConstantTyped, OnePlain DEF ReferenceOps
  <2> HIDE DEF C, ct
  <2> QED
    BY <1>2, <2>1
<1>4. table \in Seq(PlainCall) /\ Len(table) = n
      /\ \A i \in 1..n : table[i] = Reference("NOP", ct[i].val)
  <2> HIDE DEF C, ct
  <2> QED
    BY <1>2, <1>3
<1>5. Emit(op, n) \in PlainCall
  <2>1. op \in Opcode /\ op \notin JumpOps \cup {"NOP"}
    BY DEF Opcode, OnOps, JumpOps
  <2>2. OperandFits(op, n) /\ n \in Operand
    BY <1>2 DEF OperandFits, Operand, StrArrayOps, StrGetOps, StrSetOps, NumArrayOps,
            NumGetOps, NumSetOps, DimOps, OnOps, VariableOps
  <2> HIDE DEF op, ct
  <2> QED
    BY <2>1, <2>2, EmitQuiet, QuietIsPlain
<1>6. Expression(s.e) \in PlainCall
  BY OneQuiet, QuietIsPlain
<1>7. compile_on(s) = <<Expression(s.e), Emit(op, n)>> \o table
  BY DEF compile_on
<1>8. op \in OnOps /\ op \in TakeNumOps
  BY DEF OnOps, TakeNumOps
<1> HIDE DEF op, ct, C, table
<1>9. <<Expression(s.e), Empty, At(<<"num">>)>> \in TypeStep
  <2>1. <<>> \in StackType /\ <<>> \o <<"num">> = <<"num">>
    BY SmallStacks
  <2>2. <<Expression(s.e), At(<<>>), At(<<>> \o Yields(s.e))>> \in TypeStep
    BY <2>1, ExpressionStep
  <2> QED
    BY <2>1, <2>2 DEF IsNumber, Empty
<1> HIDE DEF n
<1>10. <<Emit(op, n), At(<<"num">>), InOn(n)>> \in TypeStep
  <2>1. Acts(op, <<"num">>, <<>>)
    BY <1>8, PlainActs
  <2>2. Step(op, <<"num">>, <<>>)
    BY <2>1 DEF Acts, Step
  <2>3. At(<<"num">>) \in Point /\ At(<<"num">>).stack = <<"num">> /\ At(<<"num">>).due = 0
    BY SmallStacks, PointFields
  <2>4. InOn(n) \in Point /\ InOn(n).stack = <<>> /\ InOn(n).due = n
    BY <1>2, PointFields
  <2>5. Emit(op, n).call = "emit" /\ Emit(op, n).op = op /\ Emit(op, n).arg = n
    BY DEF Emit
  <2>6. PICK c, x, y : c = Emit(op, n) /\ x = At(<<"num">>) /\ y = InOn(n)
    OBVIOUS
  <2>7. EmitGoes(c, x, y)
    BY <1>8, <2>2, <2>3, <2>4, <2>5, <2>6 DEF EmitGoes
  <2>8. Goes(c, x, y)
    BY <2>5, <2>6, <2>7 DEF Goes
  <2>9. c \in CallType
    BY <1>5, <2>6, PlainIsPlain
  <2> QED
    BY <2>3, <2>4, <2>6, <2>8, <2>9, TypeStepIs
<1>11. Chain(TypeStep, table, InOn(n), Empty)
  <2> DEFINE b == [i \in 1..(n + 1) |-> InOn(n + 1 - i)]
  <2>1. b[1] = InOn(n) /\ b[n + 1] = Empty
    <3>1. 1 \in 1..(n + 1) /\ n + 1 \in 1..(n + 1) /\ n + 1 - 1 = n /\ n + 1 - (n + 1) = 0
      BY <1>2
    <3> QED
      BY <3>1, PointFields DEF Empty
  <2>2. ASSUME NEW i \in 1..n PROVE <<table[i], b[i], b[i + 1]>> \in TypeStep
    <3> DEFINE k == n - i
    <3>1. k \in Nat /\ k + 1 \in Nat /\ i \in 1..(n + 1) /\ i + 1 \in 1..(n + 1)
          /\ n + 1 - i = k + 1 /\ n + 1 - (i + 1) = k
      BY <1>2
    <3>2. PICK c, x, y : c = table[i] /\ x = InOn(k + 1) /\ y = InOn(k)
      OBVIOUS
    <3>3. x \in Point /\ x.stack = <<>> /\ x.due = k + 1 /\ y \in Point /\ y.stack = <<>> /\ y.due = k
      BY <3>1, <3>2, PointFields
    <3>4. c.call = "reference" /\ c.op = "NOP" /\ c \in CallType
      BY <1>3, <1>4, <3>2, PlainIsPlain DEF Reference
    <3>5. Goes(c, x, y)
      BY <3>3, <3>4 DEF Goes, ReferenceGoes
    <3>6. b[i] = x /\ b[i + 1] = y
      BY <3>1, <3>2
    <3> QED
      BY <3>2, <3>3, <3>4, <3>5, <3>6, TypeStepIs
  <2> HIDE DEF b
  <2> QED
    BY <1>4, <2>1, <2>2 DEF Chain
<1>12. Chain(TypeStep, <<Expression(s.e), Emit(op, n)>>, Empty, InOn(n))
  BY <1>5, <1>6, <1>9, <1>10, ChainTwo
<1>13. <<Expression(s.e), Emit(op, n)>> \in Seq(PlainCall)
  BY <1>5, <1>6
<1> QED
  BY <1>4, <1>7, <1>11, <1>12, <1>13, ChainJoin

(* Variables that take the numbers there are.                              *)
LEMMA PopsChain ==
    ASSUME NEW n \in Nat, NEW q \in Seq(QuietCall), Len(q) = n,
           \A i \in 1..n : \E arg : q[i] = Emit("POP_VAR", arg)
    PROVE  Chain(TypeStep, q, At(Nums(n)), Empty)
<1> DEFINE b == [i \in 1..(n + 1) |-> At(Nums(n + 1 - i))]
<1>1. b[1] = At(Nums(n)) /\ b[n + 1] = Empty
  <2>1. 1 \in 1..(n + 1) /\ n + 1 \in 1..(n + 1) /\ n + 1 - 1 = n /\ n + 1 - (n + 1) = 0
    OBVIOUS
  <2> QED
    BY <2>1, NumsAre DEF Empty
<1>2. ASSUME NEW i \in 1..n PROVE <<q[i], b[i], b[i + 1]>> \in TypeStep
  <2> DEFINE k == n - i
  <2>1. k \in Nat /\ k + 1 \in Nat /\ i \in 1..(n + 1) /\ i + 1 \in 1..(n + 1)
        /\ n + 1 - i = k + 1 /\ n + 1 - (i + 1) = k
    OBVIOUS
  <2>2. b[i] = At(Nums(k + 1)) /\ b[i + 1] = At(Nums(k))
    BY <2>1
  <2> HIDE DEF k, b
  <2>3. Nums(k) \in StackType /\ Nums(k + 1) = Nums(k) \o <<"num">>
    BY <2>1, NumsAre
  <2>4. PICK s \in StackType : s = Nums(k)
    BY <2>3
  <2>5. s \o <<>> = s /\ <<"num">> \in StackType
    BY SmallStacks DEF StackType
  <2>6. PICK arg : q[i] = Emit("POP_VAR", arg)
    OBVIOUS
  <2>7. q[i] \in CallType
    <3>1. q[i] \in QuietCall
      OBVIOUS
    <3> QED
      BY <3>1, QuietIsPlain, PlainIsPlain
  <2>8. Acts("POP_VAR", <<"num">>, <<>>)
    BY PlainActs DEF TakeNumOps
  <2>9. "POP_VAR" \notin OnOps /\ "POP_VAR" \notin ControlOps
    BY NoControl
  <2>10. <<Emit("POP_VAR", arg), At(s \o <<"num">>), At(s \o <<>>)>> \in TypeStep
    BY <2>5, <2>6, <2>7, <2>8, <2>9, EmitStep
  <2> QED
    BY <2>2, <2>3, <2>4, <2>5, <2>6, <2>10
<1> HIDE DEF b
<1> QED
  BY <1>1, <1>2 DEF Chain

(* The statements that are an opcode.                                      *)
LEMMA IOTyped ==
    ASSUME NEW s, s.op \in StatementOps, s.args \in Seq(ParseTree), s.into \in Seq(Slot),
           Applies(s.op, s.args, [i \in DOMAIN s.into |-> "num"])
    PROVE  Chain(TypeStep, CompileIO(s), Empty, Empty)
<1> DEFINE n == Len(s.into)
           each == [i \in DOMAIN s.into |-> Emit("POP_VAR", s.into[n + 1 - i])]
           q == Expressions(s.args)
           c == Emit(s.op, 0)
<1>1. n \in Nat /\ DOMAIN s.into = 1..n
  OBVIOUS
<1>2. each \in Seq(QuietCall) /\ Len(each) = n
      /\ \A i \in 1..n : each[i] = Emit("POP_VAR", s.into[n + 1 - i])
  <2>1. \A i \in 1..n : s.into[n + 1 - i] \in Slot
    BY <1>1
  <2>2. \A i \in 1..n : Emit("POP_VAR", s.into[n + 1 - i]) \in QuietCall
    BY <2>1, VariableQuiet DEF VariableOps
  <2> QED
    BY <1>1, <2>2
<1>3. CompileIO(s) = Append(q, c) \o each
  BY DEF CompileIO, EmitNoOperand
<1>4. q \in Seq(QuietCall)
  BY ExpressionsQuiet
<1>5. c \in QuietCall /\ c \in CallType
  BY EmitNoOperandQuiet, QuietIsPlain, PlainIsPlain DEF NoOperandOps, EmitNoOperand
<1>6. [i \in DOMAIN s.into |-> "num"] = Nums(n)
  BY <1>1 DEF Nums
<1> HIDE DEF n, each, q
<1>7. <<>> \in StackType /\ \A t \in StackType : <<>> \o t = t
  BY DEF StackType
<1>8. PICK types \in StackType : /\ Acts(s.op, types, Nums(n))
                                 /\ Chain(TypeStep, q, At(<<>>), At(<<>> \o types))
  BY <1>6, <1>7, ArgumentsChain DEF q
<1>9. Nums(n) \in StackType
  BY <1>1, NumsAre
<1>10. s.op \notin OnOps /\ s.op \notin ControlOps
  BY NoControl
<1>11. <<c, At(<<>> \o types), At(<<>> \o Nums(n))>> \in TypeStep
  BY <1>5, <1>7, <1>8, <1>10, EmitStep
<1>12. <<c, At(types), At(Nums(n))>> \in TypeStep /\ Chain(TypeStep, q, Empty, At(types))
  BY <1>7, <1>8, <1>9, <1>11 DEF Empty
<1> HIDE DEF c
<1>13. Append(q, c) \in Seq(QuietCall) /\ Chain(TypeStep, Append(q, c), Empty, At(Nums(n)))
  BY <1>4, <1>5, <1>12, ChainLast
<1>14. Chain(TypeStep, each, At(Nums(n)), Empty)
  <2>1. \A i \in 1..n : \E arg : each[i] = Emit("POP_VAR", arg)
    BY <1>2
  <2> QED
    BY <1>1, <1>2, <2>1, PopsChain
<1> QED
  BY <1>2, <1>3, <1>13, <1>14, ChainJoin

(* IF: the test, and what follows it.                                      *)
LEMMA IfTyped ==
    ASSUME NEW s \in IfStatement, IsNumber(s.e)
    PROVE  Chain(TypeStep, compile_if_then(s), Empty, Empty)
<1>1. s.e \in ParseTree
  BY IfParts DEF IfStatement
<1>2. <<>> \in StackType /\ <<"num">> \in StackType /\ <<>> \o <<"num">> = <<"num">>
  BY SmallStacks
<1>3. <<Expression(s.e), Empty, At(<<"num">>)>> \in TypeStep
  <2>1. <<Expression(s.e), At(<<>>), At(<<>> \o Yields(s.e))>> \in TypeStep
    BY <1>1, <1>2, ExpressionStep
  <2> QED
    BY <1>2, <2>1 DEF IsNumber, Empty
<1>4. Expression(s.e) \in CallType /\ ThenPart(s) \in CallType
  BY <1>1, OneQuiet, OnePlain, QuietIsPlain, PlainIsPlain
<1>5. <<ThenPart(s), At(<<"num">>), Empty>> \in TypeStep
  <2>1. PICK c : c = ThenPart(s)
    OBVIOUS
  <2>2. c.call = "then"
    BY <2>1 DEF ThenPart
  <2>3. Goes(c, At(<<"num">>), Empty)
    BY <2>2 DEF Goes, PlainGoes, Empty
  <2>4. At(<<"num">>) \in Point /\ Empty \in Point
    BY <1>2, PointFields DEF Empty
  <2> QED
    BY <1>4, <2>1, <2>3, <2>4, TypeStepIs
<1> QED
  BY <1>3, <1>4, <1>5, ChainTwo DEF compile_if_then

(* What a statement comes to leaves the stack as it found it, empty.       *)
LEMMA StatementTyped ==
    ASSUME NEW s \in StatementTree, TypedStatement(s)
    PROVE  Chain(TypeStep, compile_statement(s), Empty, Empty)
<1>1. IsStatement(s)
  BY SyntaxAssumption
<1>2. CASE s.k = "let"
  <2>1. /\ s.slot \in Slot /\ s.e \in ParseTree /\ s.subs \in Seq(ParseTree)
        /\ Len(s.subs) \in 0..2 /\ compile_statement(s) = compile_let_stmt(s)
    BY <1>1, <1>2 DEF IsStatement, compile_statement
  <2>2. (\A i \in DOMAIN s.subs : IsNumber(s.subs[i])) /\ Yields(s.e) = <<TypeOf(s.slot)>>
    BY <1>2 DEF TypedStatement, TypeOf
  <2> QED
    BY <2>1, <2>2, LetTyped
<1>3. CASE s.k = "dim"
  BY <1>1, <1>3, DimTyped DEF IsStatement, compile_statement
<1>4. CASE s.k = "if"
  BY <1>4, IfTyped DEF IfStatement, TypedStatement, compile_statement
<1>5. CASE s.k \in {"line", "trap"}
  <2>1. s.line \in Int
    BY <1>1, <1>5 DEF IsStatement
  <2> QED
    BY <1>5, <2>1, ReferenceTyped DEF compile_statement, ReferenceOps
<1>6. CASE s.k \in {"goto", "gosub"}
  <2>1. s.target \in ParseTree /\ IsNumber(s.target)
    BY <1>1, <1>6 DEF IsStatement, TypedStatement
  <2> QED
    BY <1>6, <2>1, BranchTyped DEF compile_statement, ReferenceOps
<1>7. CASE s.k = "on"
  BY <1>1, <1>7, OnTyped DEF IsStatement, compile_statement, TypedStatement
<1>8. CASE s.k = "for"
  BY <1>1, <1>8, ForTyped DEF IsStatement, compile_statement, TypedStatement
<1>9. CASE s.k \in {"next", "read"}
  BY <1>1, <1>9, NextTyped, ReadTyped DEF IsStatement, compile_statement
<1>10. CASE s.k = "data"
  <2>1. s.items \in Seq(DataEntryType) /\ compile_statement(s) = <<AddData(s.items)>>
    BY <1>1, <1>10 DEF IsStatement, compile_statement
  <2>2. AddData(s.items) \in CallType
    BY <2>1, OneQuiet, QuietIsPlain, PlainIsPlain
  <2>3. AddData(s.items).call = "data"
    BY DEF AddData
  <2> QED
    BY <2>1, <2>2, <2>3, IdleStep, ChainOne
<1>11. CASE s.k = "restore"
  BY <1>11, RestoreTyped DEF compile_statement, TypedStatement
<1>12. CASE s.k = "random"
  BY <1>1, <1>12, ComputedTyped
     DEF IsStatement, compile_statement, compile_randomize_stmt, TypedStatement
<1>13. CASE s.k = "simple"
  <2>1. s.op \in SimpleOps /\ compile_statement(s) = <<Emit(s.op, 0)>>
    BY <1>1, <1>13 DEF IsStatement, compile_statement, EmitNoOperand
  <2>2. s.op \in NoEffectOps \cup IOPlainOps
    BY <2>1 DEF SimpleOps, NoEffectOps
  <2>3. Emit(s.op, 0) \in CallType
    BY <2>1, EmitNoOperandQuiet, QuietIsPlain, PlainIsPlain DEF NoOperandOps, EmitNoOperand
  <2> QED
    BY <2>1, <2>2, <2>3, SingleStep, ChainOne
<1>14. CASE s.k = "print"
  BY <1>1, <1>14, PrintTyped DEF IsStatement, compile_statement, TypedStatement
<1>15. CASE s.k = "input"
  BY <1>1, <1>15, InputTyped DEF IsStatement, compile_statement
<1>16. CASE s.k = "io"
  BY <1>1, <1>16, IOTyped DEF IsStatement, compile_statement, TypedStatement
<1> QED
  BY <1>1, <1>2, <1>3, <1>4, <1>5, <1>6, <1>7, <1>8, <1>9, <1>10, <1>11, <1>12, <1>13, <1>14,
     <1>15, <1>16 DEF IsStatement

-----------------------------------------------------------------------------
(* The calls of any call.                                                  *)

(* The calls that are idle leave the stack empty.                          *)
LEMMA IdleCall ==
    /\ \A s \in StatementTree : Statement(s) \in CallType
                                /\ <<Statement(s), Empty, Empty>> \in TypeStep
    /\ \A pc \in Nat : PatchHere(pc) \in CallType /\ <<PatchHere(pc), Empty, Empty>> \in TypeStep
    /\ \A s \in IfStatement, pc \in Nat : /\ ElsePart(s, pc) \in CallType
                                          /\ <<ElsePart(s, pc), Empty, Empty>> \in TypeStep
<1>1. ASSUME NEW s \in StatementTree
      PROVE  Statement(s) \in CallType /\ <<Statement(s), Empty, Empty>> \in TypeStep
  <2>1. Statement(s) \in CallType
    BY OnePlain, PlainIsPlain
  <2>2. Statement(s).call = "statement"
    BY DEF Statement
  <2> QED
    BY <2>1, <2>2, IdleStep
<1>2. ASSUME NEW pc \in Nat
      PROVE  PatchHere(pc) \in CallType /\ <<PatchHere(pc), Empty, Empty>> \in TypeStep
  <2>1. PatchHere(pc) \in CallType
    BY DEF PatchHere, CallType, PatchCall
  <2>2. PatchHere(pc).call = "patch"
    BY DEF PatchHere
  <2> QED
    BY <2>1, <2>2, IdleStep
<1>3. ASSUME NEW s \in IfStatement, NEW pc \in Nat
      PROVE  ElsePart(s, pc) \in CallType /\ <<ElsePart(s, pc), Empty, Empty>> \in TypeStep
  <2>1. ElsePart(s, pc) \in CallType
    BY DEF ElsePart, CallType, ElseCall
  <2>2. ElsePart(s, pc).call = "else"
    BY DEF ElsePart
  <2> QED
    BY <2>1, <2>2, IdleStep
<1> QED
  BY <1>1, <1>2, <1>3

(* The rest of an IF takes the test.                                       *)
LEMMA ThenTyped ==
    ASSUME NEW st \in StateType, NEW s \in IfStatement
    PROVE  Chain(TypeStep, CompileThen(st, s), At(<<"num">>), Empty)
<1> DEFINE first == Emit("JUMP_IF_FALSE", 0)
           body == Statements(s.then)
           last == ElsePart(s, Len(st.code))
<1>1. s.then \in Seq(StatementTree)
  BY IfParts DEF IfStatement
<1>2. first \in CallType
  BY DEF CallType, IfJump
<1>3. <<first, At(<<"num">>), Empty>> \in TypeStep
  <2>1. Acts("JUMP_IF_FALSE", <<"num">>, <<>>) /\ "JUMP_IF_FALSE" \notin OnOps
    BY PlainActs DEF TakeNumOps, OnOps
  <2> QED
    BY <1>2, <2>1, SmallStacks, TakeAllStep
<1>4. /\ body \in Seq(PlainCall) /\ Len(body) = Len(s.then)
      /\ \A i \in 1..Len(s.then) : body[i] = Statement(s.then[i])
  BY <1>1, StatementsPlain
<1>5. Len(st.code) \in Nat
  BY StateFields
<1>6. last \in CallType /\ <<last, Empty, Empty>> \in TypeStep
  BY <1>5, IdleCall
<1>7. CompileThen(st, s) = <<first>> \o body \o <<last>>
  BY DEF CompileThen, CodeLen
<1> HIDE DEF first, body, last
<1>8. body \in Seq(CallType) /\ Chain(TypeStep, body, Empty, Empty)
  <2>1. body \in Seq(CallType)
    BY <1>4, PlainSequence
  <2>2. \A i \in 1..Len(body) : <<body[i], Empty, Empty>> \in TypeStep
    BY <1>1, <1>4, SeqTyped, IdleCall
  <2>3. Len(body) \in Nat
    BY <2>1
  <2> QED
    BY <2>1, <2>2, <2>3, ChainLoop
<1>9. /\ <<first>> \in Seq(CallType) /\ <<last>> \in Seq(CallType)
      /\ Chain(TypeStep, <<first>>, At(<<"num">>), Empty) /\ Chain(TypeStep, <<last>>, Empty, Empty)
  BY <1>2, <1>3, <1>6, ChainOne
<1>10. /\ <<first>> \o body \in Seq(CallType)
       /\ Chain(TypeStep, <<first>> \o body, At(<<"num">>), Empty)
  <2>1. PICK one \in Seq(CallType) : one = <<first>>
    BY <1>9
  <2> QED
    BY <1>8, <1>9, <2>1, ChainBoth
<1>11. Chain(TypeStep, (<<first>> \o body) \o <<last>>, At(<<"num">>), Empty)
  BY <1>9, <1>10, ChainBoth
<1> QED
  BY <1>7, <1>11

(* The end of the THEN part and the ELSE part find the stack empty.        *)
LEMMA ElseTyped ==
    ASSUME NEW st \in StateType, NEW s \in IfStatement, NEW test \in Nat
    PROVE  Chain(TypeStep, CompileElse(st, s, test), Empty, Empty)
<1>1. Chain(TypeStep, <<PatchHere(test)>>, Empty, Empty)
  BY IdleCall, ChainOne
<1>2. CASE s.else = <<>>
  BY <1>1, <1>2 DEF CompileElse
<1>3. CASE s.else # <<>>
  <2> DEFINE first == Emit("JUMP", 0)
             patch == PatchHere(test)
             body == compile_else(s.else[1])
             last == PatchHere(Len(st.code))
  <2>1. s.else[1] \in StatementTree
    BY <1>3, IfParts DEF IfStatement
  <2>2. first \in CallType /\ <<first, Empty, Empty>> \in TypeStep
    <3>1. first \in CallType
      BY DEF CallType, IfJump
    <3>2. "JUMP" \in NoEffectOps \cup IOPlainOps
      BY DEF NoEffectOps
    <3> QED
      BY <3>1, <3>2, SingleStep
  <2>3. Len(st.code) \in Nat
    BY StateFields
  <2>4. /\ patch \in CallType /\ <<patch, Empty, Empty>> \in TypeStep
        /\ last \in CallType /\ <<last, Empty, Empty>> \in TypeStep
    BY <2>3, IdleCall
  <2>5. body \in Seq(CallType) /\ Chain(TypeStep, body, Empty, Empty)
    <3>1. body \in Seq(CallType)
      BY <2>1, ElsePlain, PlainSequence
    <3>2. CASE Leading(s.else[1]) # <<>> /\ Leading(s.else[1])[1].k = "num"
      BY <2>1, <3>1, <3>2, LeadingTyped, ReferenceTyped DEF compile_else, ReferenceOps
    <3>3. CASE ~(Leading(s.else[1]) # <<>> /\ Leading(s.else[1])[1].k = "num")
      <4>1. body = <<Statement(s.else[1])>>
        BY <3>3 DEF compile_else
      <4>2. <<Statement(s.else[1]), Empty, Empty>> \in TypeStep
        BY <2>1, IdleCall
      <4>3. Chain(TypeStep, <<Statement(s.else[1])>>, Empty, Empty)
        BY <4>2, ChainOne
      <4> QED
        BY <3>1, <4>1, <4>3
    <3> QED
      BY <3>2, <3>3
  <2>6. CompileElse(st, s, test) = <<first, patch>> \o body \o <<last>>
    BY <1>3 DEF CompileElse, CodeLen
  <2> HIDE DEF first, patch, body, last
  <2>7. /\ <<first, patch>> \in Seq(CallType) /\ <<last>> \in Seq(CallType)
        /\ Chain(TypeStep, <<first, patch>>, Empty, Empty)
        /\ Chain(TypeStep, <<last>>, Empty, Empty)
    BY <2>2, <2>4, ChainOne, ChainTwo
  <2>8. /\ <<first, patch>> \o body \in Seq(CallType)
        /\ Chain(TypeStep, <<first, patch>> \o body, Empty, Empty)
    <3>1. PICK two \in Seq(CallType) : two = <<first, patch>>
      BY <2>7
    <3> QED
      BY <2>5, <2>7, <3>1, ChainBoth
  <2>9. Chain(TypeStep, (<<first, patch>> \o body) \o <<last>>, Empty, Empty)
    BY <2>7, <2>8, ChainBoth
  <2> QED
    BY <2>6, <2>9
<1> QED
  BY <1>2, <1>3

(* What a call comes to does what the call does.                           *)
LEMMA CallKeepsTyping ==
    ASSUME TypesAgree, NEW st \in StateType, NEW c \in CallType, NEW x, NEW y,
           <<c, x, y>> \in TypeStep, c.call \notin {"emit", "reference"}
    PROVE  Chain(TypeStep, Calls(st, c), x, y)
<1>1. x \in Point /\ y \in Point /\ Goes(c, x, y)
  BY TypeStepIs
<1>2. CASE c.call = "expression"
  <2>1. c.e \in ParseTree
    BY <1>2 DEF CallType, PlainCall, QuietCall, PlainEmit, ReferenceCall, ExpressionCall,
            StatementCall, IfJump, PatchCall, ElseCall, Emit
  <2>2. TypedExpression(c.e)
    BY <2>1 DEF TypesAgree
  <2>3. x = At(x.stack) /\ y = At(x.stack \o Yields(c.e)) /\ x.stack \in StackType
    <3>1. PlainGoes(x, y, x.stack, x.stack \o Yields(c.e))
      BY <1>1, <1>2 DEF Goes
    <3> QED
      BY <1>1, <3>1, PointFields DEF PlainGoes
  <2>4. Chain(TypeStep, compile_expression(c.e), At(x.stack), At(x.stack \o Yields(c.e)))
    BY <2>1, <2>2, <2>3, ExpressionTyped
  <2>5. Calls(st, c) = compile_expression(c.e)
    BY <1>2 DEF Calls
  <2> QED
    BY <2>3, <2>4, <2>5
<1>3. CASE c.call = "then"
  <2>1. c.stmt \in IfStatement
    BY <1>3, CallKinds DEF PlainEmit, ReferenceCall
  <2>2. x = At(<<"num">>) /\ y = Empty
    BY <1>1, <1>3 DEF Goes, PlainGoes, Empty
  <2>3. Calls(st, c) = CompileThen(st, c.stmt)
    BY <1>3 DEF Calls
  <2> QED
    BY <2>1, <2>2, <2>3, ThenTyped
<1>4. CASE c.call \notin {"expression", "then"}
  <2>1. x = Empty /\ y = Empty
    BY <1>1, <1>4 DEF Goes, PlainGoes, Empty
  <2>2. CASE c.call = "statement"
    <3>1. c.stmt \in StatementTree
      BY <2>2 DEF CallType, PlainCall, QuietCall, PlainEmit, ReferenceCall, ExpressionCall,
              StatementCall, IfJump, PatchCall, ElseCall, Emit
    <3> QED
      BY <2>1, <2>2, <3>1, StatementTyped DEF Calls, TypesAgree
  <2>3. CASE c.call = "next"
    <3>1. c.slots \in Seq(Slot) /\ c.i \in 1..Len(c.slots)
      BY <2>3 DEF CallType, PlainCall, QuietCall, PlainEmit, ReferenceCall, ExpressionCall,
              StatementCall, IfJump, PatchCall, ElseCall, Emit
    <3>2. NextVariable(c.slots, c.i) \in Seq(QuietCall)
      BY <3>1, NextVariableQuiet
    <3>3. "FOR_NEXT" \in NoEffectOps \cup IOPlainOps
      BY DEF NoEffectOps
    <3>4. NextVariable(c.slots, c.i) = <<>>
          \/ NextVariable(c.slots, c.i) = <<Emit("FOR_NEXT", c.slots[c.i])>>
      BY DEF NextVariable
    <3>5. \A i \in 1..Len(NextVariable(c.slots, c.i)) :
             \E op \in NoEffectOps \cup IOPlainOps : \E arg : NextVariable(c.slots, c.i)[i] = Emit(op, arg)
      <4>1. PICK one : one = Emit("FOR_NEXT", c.slots[c.i])
        OBVIOUS
      <4>2. \A i \in 1..Len(<<one>>) : <<one>>[i] = one
        OBVIOUS
      <4>3. \A i \in 1..Len(NextVariable(c.slots, c.i)) : NextVariable(c.slots, c.i)[i] = one
        BY <3>4, <4>1, <4>2
      <4> QED
        BY <3>3, <4>1, <4>3
    <3>6. Chain(TypeStep, NextVariable(c.slots, c.i), Empty, Empty)
      BY <3>2, <3>5, SinglesChain
    <3> QED
      BY <2>1, <2>3, <3>6 DEF Calls
  <2>4. CASE c.call = "print"
    <3>1. c.e \in ParseTree \cup Separator
      BY <2>4 DEF CallType, PlainCall, QuietCall, PlainEmit, ReferenceCall, ExpressionCall,
              StatementCall, IfJump, PatchCall, ElseCall, Emit
    <3> QED
      BY <2>1, <2>4, <3>1, PrintItemTyped DEF Calls
  <2>5. CASE c.call = "else"
    <3>1. c.stmt \in IfStatement /\ c.test \in Nat
      BY <2>5, CallKinds DEF PlainEmit, ReferenceCall
    <3> QED
      BY <2>1, <2>5, <3>1, ElseTyped DEF Calls
  <2>6. CASE c.call \notin {"expression", "then", "statement", "next", "print", "else"}
    BY <2>1, <2>6, ChainNone DEF Calls
  <2> QED
    BY <1>4, <2>2, <2>3, <2>4, <2>5, <2>6
<1> QED
  BY <1>2, <1>3, <1>4

-----------------------------------------------------------------------------
(* Code that passes the verifier so far.                                   *)

(* s has the shape of the stack before each instruction, and after the     *)
(* last; due entries of the table of the last ON are missing.              *)
TypedCode(code, s) ==
    /\ s \in Seq(StackType) /\ Len(s) = Len(code) + 1 /\ s[1] = <<>>
    /\ \A i \in 1..Len(code) : Step(code[i].op, s[i], s[i + 1])
Tables(code, due) ==
    \A i \in 1..Len(code) : code[i].op \in OnOps =>
        /\ code[i].arg \in Nat /\ i + code[i].arg <= Len(code) + due
        /\ \A k \in 1..code[i].arg : i + k <= Len(code) => code[i + k].op = "NOP"

(* A statement may start at pc.                                            *)
StartIn(code, s, pc) ==
    /\ pc \in 0..Len(code) /\ s[pc + 1] = <<>>
    /\ \A i \in 1..Len(code) : code[i].op \in OnOps => pc \notin i..(i + code[i].arg - 1)

(* Where all tables are complete and the stack is empty.                   *)
LEMMA StartHere ==
    ASSUME NEW code \in Seq(InstType), NEW s, TypedCode(code, s), Tables(code, 0),
           s[Len(code) + 1] = <<>>
    PROVE  StartIn(code, s, Len(code))
<1>1. Len(code) \in Nat
  OBVIOUS
<1>2. ASSUME NEW i \in 1..Len(code), code[i].op \in OnOps
      PROVE  Len(code) \notin i..(i + code[i].arg - 1)
  <2>1. code[i].arg \in Nat /\ i + code[i].arg <= Len(code) + 0
    BY <1>2 DEF Tables
  <2> QED
    BY <1>1, <2>1
<1> QED
  BY <1>1, <1>2 DEF StartIn

(* The entries that are due before x, and those after it.                  *)
DueAfter(x, due, left) ==
    \/ x.op = "NOP" /\ due = left + 1
    \/ x.op \in OnOps /\ due = 0 /\ x.arg \in Nat /\ left = x.arg
    \/ x.op \notin OnOps /\ due = 0 /\ left = 0

(* An instruction more, that acts on the stack there is.                   *)
GrowsBy(code, s, due, x, u, left) ==
    /\ code \in Seq(InstType) /\ due \in Nat /\ TypedCode(code, s) /\ Tables(code, due)
    /\ x \in InstType /\ u \in StackType /\ left \in Nat
    /\ Step(x.op, s[Len(code) + 1], u) /\ DueAfter(x, due, left)

Appended(code, s, x, u, nc, ns) == nc = Append(code, x) /\ ns = Append(s, u)
Grown(code, s, u, left, nc, ns) ==
    /\ TypedCode(nc, ns) /\ Tables(nc, left) /\ ns[Len(nc) + 1] = u
    /\ \A pc : StartIn(code, s, pc) => StartIn(nc, ns, pc)

(* It leaves typed code, and the starts there were.                        *)
LEMMA TypedGrows ==
    ASSUME NEW code, NEW s, NEW due, NEW x, NEW u, NEW left, GrowsBy(code, s, due, x, u, left),
           NEW nc, NEW ns, Appended(code, s, x, u, nc, ns)
    PROVE  Grown(code, s, u, left, nc, ns)
<1>1. nc = Append(code, x) /\ ns = Append(s, u)
  BY DEF Appended
<1>2. /\ code \in Seq(InstType) /\ due \in Nat /\ TypedCode(code, s) /\ Tables(code, due)
      /\ x \in InstType /\ u \in StackType /\ left \in Nat
      /\ Step(x.op, s[Len(code) + 1], u) /\ DueAfter(x, due, left)
  BY DEF GrowsBy
<1> DEFINE L == Len(code)
<1>3. /\ L \in Nat /\ Len(nc) = L + 1 /\ nc[L + 1] = x /\ \A i \in 1..L : nc[i] = code[i]
      /\ \A i \in 1..(L + 1) : i \in 1..L \/ i = L + 1
  BY <1>2, <1>1, AppendAt
<1>4. u \in StackType /\ left \in Nat
  BY <1>2
<1>5. \/ x.op = "NOP" /\ due = left + 1
      \/ x.op \in OnOps /\ due = 0 /\ x.arg \in Nat /\ left = x.arg
      \/ x.op \notin OnOps /\ due = 0 /\ left = 0
  BY <1>2 DEF DueAfter
<1>6. s \in Seq(StackType) /\ Len(s) = L + 1 /\ s[1] = <<>>
      /\ \A i \in 1..L : Step(code[i].op, s[i], s[i + 1])
  BY <1>2 DEF TypedCode
<1>7. /\ ns \in Seq(StackType) /\ Len(ns) = L + 2 /\ ns[L + 2] = u
      /\ \A i \in 1..(L + 1) : ns[i] = s[i]
  <2>1. PICK T : T = StackType
    OBVIOUS
  <2>2. s \in Seq(T) /\ u \in T
    BY <1>4, <1>6, <2>1
  <2>3. ns \in Seq(T)
    BY <1>1, <2>2
  <2>4. Len(ns) = (L + 1) + 1 /\ ns[(L + 1) + 1] = u /\ \A i \in 1..(L + 1) : ns[i] = s[i]
    BY <1>3, <1>6, <1>1, <2>2, AppendAt
  <2> QED
    BY <1>3, <2>1, <2>3, <2>4
<1> HIDE DEF Step
<1>8. TypedCode(nc, ns)
  <2>1. ns[1] = <<>> /\ Len(ns) = Len(nc) + 1
    BY <1>3, <1>6, <1>7
  <2>2. ASSUME NEW i \in 1..(L + 1) PROVE Step(nc[i].op, ns[i], ns[i + 1])
    <3>1. CASE i = L + 1
      <4>1. nc[i].op = x.op /\ ns[i] = s[L + 1] /\ ns[i + 1] = u
        BY <1>3, <1>7, <3>1
      <4> QED
        BY <1>2, <4>1
    <3>2. CASE i \in 1..L
      <4>1. nc[i] = code[i] /\ ns[i] = s[i] /\ ns[i + 1] = s[i + 1]
        BY <1>3, <1>7, <3>2
      <4> QED
        BY <1>6, <3>2, <4>1
    <3> QED
      BY <1>3, <3>1, <3>2
  <2> QED
    BY <1>3, <1>7, <1>2, <1>1, <2>1, <2>2 DEF TypedCode
<1>9. Tables(nc, left)
  <2> SUFFICES ASSUME NEW i \in 1..(L + 1), nc[i].op \in OnOps
               PROVE  /\ nc[i].arg \in Nat /\ i + nc[i].arg <= (L + 1) + left
                      /\ \A k \in 1..nc[i].arg : i + k <= L + 1 => nc[i + k].op = "NOP"
    BY <1>3 DEF Tables
  <2>1. CASE i = L + 1
    <3>1. x.op \in OnOps /\ nc[i] = x
      BY <1>3, <2>1
    <3>2. x.op # "NOP"
      BY <3>1 DEF OnOps
    <3>3. x.arg \in Nat /\ left = x.arg
      BY <1>5, <3>1, <3>2
    <3> QED
      BY <1>3, <2>1, <3>1, <3>3
  <2>2. CASE i \in 1..L
    <3>1. nc[i] = code[i]
      BY <1>3, <2>2
    <3>2. /\ code[i].arg \in Nat /\ i + code[i].arg <= L + due
          /\ \A k \in 1..code[i].arg : i + k <= L => code[i + k].op = "NOP"
      BY <1>2, <2>2, <3>1 DEF Tables
    <3>3. i + code[i].arg <= (L + 1) + left
      BY <1>5, <1>3, <1>4, <2>2, <3>2
    <3>4. ASSUME NEW k \in 1..code[i].arg, i + k <= L + 1 PROVE nc[i + k].op = "NOP"
      <4>1. CASE i + k = L + 1
        <5>1. due # 0
          BY <1>3, <2>2, <3>2, <4>1
        <5>2. x.op = "NOP"
          BY <1>5, <5>1
        <5> QED
          BY <1>3, <4>1, <5>2
      <4>2. CASE i + k # L + 1
        <5>1. i + k \in 1..L /\ i + k <= L
          BY <1>3, <2>2, <3>2, <3>4, <4>2
        <5> QED
          BY <1>3, <3>2, <5>1
      <4> QED
        BY <4>1, <4>2
    <3> QED
      BY <3>1, <3>2, <3>3, <3>4
  <2> QED
    BY <1>3, <2>1, <2>2
<1>10. ASSUME NEW pc, StartIn(code, s, pc) PROVE StartIn(nc, ns, pc)
  <2>1. pc \in 0..L /\ s[pc + 1] = <<>>
        /\ \A i \in 1..L : code[i].op \in OnOps => pc \notin i..(i + code[i].arg - 1)
    BY <1>10 DEF StartIn
  <2>2. pc \in 0..(L + 1) /\ pc + 1 \in 1..(L + 1) /\ ns[pc + 1] = <<>>
    BY <1>3, <1>7, <2>1
  <2>3. ASSUME NEW i \in 1..(L + 1), nc[i].op \in OnOps PROVE pc \notin i..(i + nc[i].arg - 1)
    <3>1. CASE i = L + 1
      BY <1>3, <2>1, <3>1
    <3>2. CASE i \in 1..L
      BY <1>3, <2>1, <2>3, <3>2
    <3> QED
      BY <1>3, <3>1, <3>2
  <2> QED
    BY <1>3, <2>2, <2>3 DEF StartIn
<1>11. ns[Len(nc) + 1] = u
  BY <1>3, <1>7
<1> QED
  BY <1>8, <1>9, <1>10, <1>11 DEF Grown

(* Code with other operands in its jumps is as good.                       *)
LEMMA TypedPatched ==
    ASSUME NEW code \in Seq(InstType), NEW nc \in Seq(InstType), Len(nc) = Len(code),
           \A i \in 1..Len(code) : /\ nc[i].op = code[i].op
                                   /\ code[i].op \in OnOps => nc[i].arg = code[i].arg
    PROVE  /\ \A s : TypedCode(code, s) => TypedCode(nc, s)
           /\ \A due : Tables(code, due) => Tables(nc, due)
           /\ \A s, pc : StartIn(code, s, pc) => StartIn(nc, s, pc)
<1>1. Len(code) \in Nat
  OBVIOUS
<1>2. ASSUME NEW s, TypedCode(code, s) PROVE TypedCode(nc, s)
  BY <1>2 DEF TypedCode
<1>3. ASSUME NEW due, Tables(code, due) PROVE Tables(nc, due)
  <2> SUFFICES ASSUME NEW i \in 1..Len(code), nc[i].op \in OnOps
               PROVE  /\ nc[i].arg \in Nat /\ i + nc[i].arg <= Len(code) + due
                      /\ \A k \in 1..nc[i].arg : i + k <= Len(code) => nc[i + k].op = "NOP"
    BY DEF Tables
  <2>1. code[i].op \in OnOps /\ nc[i].arg = code[i].arg
    OBVIOUS
  <2>2. /\ code[i].arg \in Nat /\ i + code[i].arg <= Len(code) + due
        /\ \A k \in 1..code[i].arg : i + k <= Len(code) => code[i + k].op = "NOP"
    BY <1>3, <2>1 DEF Tables
  <2>3. \A k \in 1..nc[i].arg : i + k <= Len(code) => i + k \in 1..Len(code)
    BY <1>1, <2>1, <2>2
  <2> QED
    BY <2>1, <2>2, <2>3
<1>4. ASSUME NEW s, NEW pc, StartIn(code, s, pc) PROVE StartIn(nc, s, pc)
  BY <1>4 DEF StartIn
<1> QED
  BY <1>2, <1>3, <1>4

-----------------------------------------------------------------------------
(* What a call leaves of that.                                             *)

(* The opcodes whose operands are places of the code.                      *)
TargetOps == JumpOps \cup {"NOP"}

OperandsFit(code) == \A i \in 1..Len(code) : OperandFits(code[i].op, code[i].arg)

(* Their operands are of any value.                                        *)
LEMMA TargetFits ==
    ASSUME NEW op \in TargetOps, NEW arg
    PROVE  OperandFits(op, arg) /\ op \notin OnOps
BY DEF OperandFits, TargetOps, JumpOps, OnOps, VariableOps, DimOps, NumArrayOps, StrArrayOps,
       NumGetOps, NumSetOps, StrGetOps, StrSetOps

(* An instruction that a reference makes.                                  *)
LEMMA ReferenceEmits ==
    ASSUME NEW st \in StateType, NEW c \in CallType, NEW nt, nt = Effect(st, c),
           c.call = "reference"
    PROVE  /\ c.op \in ReferenceOps /\ c.op \in TargetOps /\ c.number \in Int
           /\ \E arg \in Operand : nt.code = Append(st.code, Instruction(c.op, arg))
<1>1. c \in ReferenceCall
  BY CallKinds
<1>2. c.op \in ReferenceOps /\ c.number \in Int
  BY <1>1 DEF ReferenceCall
<1>3. c.op \in TargetOps
  BY <1>2 DEF ReferenceOps, TargetOps, JumpOps
<1>4. ReferenceMade(nt, st, c.op, c.number % 65536)
  BY EffectTyped
<1>5. Placeholder \in Operand /\ \A n \in Nat : Operand16(n) \in Operand
  BY DEF Placeholder, Operand, Operand16
<1> QED
  BY <1>2, <1>3, <1>4, <1>5 DEF ReferenceMade

(* A call patches a jump of an IF.                                         *)
PatchesJump(code, c) ==
    c.call = "patch" => c.pc < Len(code) /\ code[c.pc + 1].op \in {"JUMP_IF_FALSE", "JUMP"}

(* The operands of other instructions fit, whatever the call.              *)
LEMMA CallFits ==
    ASSUME NEW st \in StateType, NEW c \in CallType, NEW nt, nt = Effect(st, c),
           PatchesJump(st.code, c), OperandsFit(st.code)
    PROVE  OperandsFit(nt.code)
<1>1. /\ st.code \in Seq(InstType) /\ Len(st.code) \in Nat
  BY StateFields
<1>2. ASSUME NEW x, nt.code = Append(st.code, x), OperandFits(x.op, x.arg)
      PROVE  OperandsFit(nt.code)
  <2>1. /\ Len(nt.code) = Len(st.code) + 1 /\ nt.code[Len(st.code) + 1] = x
        /\ \A i \in 1..Len(st.code) : nt.code[i] = st.code[i]
    BY <1>1, <1>2, AppendAt
  <2> QED
    BY <1>1, <1>2, <2>1 DEF OperandsFit
<1>3. CASE c.call = "emit"
  <2>1. nt.code = Append(st.code, Instruction(c.op, c.arg))
    BY <1>3, EffectTyped
  <2>2. c \in PlainEmit \cup IfJump
    BY <1>3, CallKinds
  <2>3. OperandFits(c.op, c.arg)
    <3>1. CASE c \in PlainEmit
      BY <3>1 DEF PlainEmit
    <3>2. CASE c \in IfJump
      <4>1. c.op \in TargetOps
        BY <3>2 DEF IfJump, Emit, TargetOps, JumpOps
      <4> QED
        BY <4>1, TargetFits
    <3> QED
      BY <2>2, <3>1, <3>2
  <2> QED
    BY <1>2, <2>1, <2>3, InstructionFields
<1>4. CASE c.call = "reference"
  BY <1>2, <1>4, ReferenceEmits, TargetFits, InstructionFields
<1>5. CASE c.call = "patch"
  <2>1. /\ Len(nt.code) = Len(st.code)
        /\ \A i \in 1..Len(st.code) :
              nt.code[i] = IF i = c.pc + 1
                           THEN Instruction(st.code[i].op, Operand16(Len(st.code)))
                           ELSE st.code[i]
    BY <1>5, EffectTyped
  <2>2. st.code[c.pc + 1].op \in TargetOps
    BY <1>5 DEF PatchesJump, TargetOps, JumpOps
  <2>3. ASSUME NEW i \in 1..Len(st.code) PROVE OperandFits(nt.code[i].op, nt.code[i].arg)
    <3>1. CASE i = c.pc + 1
      <4>1. nt.code[i].op \in TargetOps
        BY <2>1, <2>2, <3>1, InstructionFields
      <4> QED
        BY <4>1, TargetFits
    <3>2. CASE i # c.pc + 1
      BY <2>1, <3>2 DEF OperandsFit
    <3> QED
      BY <3>1, <3>2
  <2> QED
    BY <2>1, <2>3 DEF OperandsFit
<1>6. CASE c.call \notin {"emit", "reference", "patch"}
  BY <1>6, EffectTyped
<1> QED
  BY <1>3, <1>4, <1>5, <1>6

(* The code of a call takes the stack where the chain of calls takes it.   *)
LEMMA CallTypes ==
    ASSUME NEW st \in StateType, NEW c \in CallType, NEW nt, nt = Effect(st, c),
           PatchesJump(st.code, c), NEW s, TypedCode(st.code, s),
           NEW x, NEW t, <<c, x, t>> \in TypeStep, Tables(st.code, x.due),
           x.stack = s[Len(st.code) + 1]
    PROVE  \E ns, y : /\ TypedCode(nt.code, ns) /\ Tables(nt.code, y.due) /\ y \in Point
                      /\ y.stack = ns[Len(nt.code) + 1]
                      /\ \A pc : StartIn(st.code, s, pc) => StartIn(nt.code, ns, pc)
                      /\ y = IF c.call \in {"emit", "reference"} THEN t ELSE x
<1>1. /\ st.code \in Seq(InstType) /\ Len(st.code) \in Nat /\ nt.code \in Seq(InstType)
  BY EffectTyped, StateFields
<1>2. x \in Point /\ t \in Point /\ Goes(c, x, t) /\ x.due \in Nat /\ t.due \in Nat
  BY TypeStepIs, PointFields
<1>3. ASSUME NEW e \in InstType, nt.code = Append(st.code, e), c.call \in {"emit", "reference"},
             Step(e.op, x.stack, t.stack), DueAfter(e, x.due, t.due)
      PROVE  \E ns, y : /\ TypedCode(nt.code, ns) /\ Tables(nt.code, y.due) /\ y \in Point
                        /\ y.stack = ns[Len(nt.code) + 1]
                        /\ \A pc : StartIn(st.code, s, pc) => StartIn(nt.code, ns, pc)
                        /\ y = t
  <2>1. PICK code, nc, ns, due, u, left : /\ code = st.code /\ nc = nt.code /\ due = x.due
                                          /\ u = t.stack /\ left = t.due /\ ns = Append(s, u)
    OBVIOUS
  <2>2. /\ code \in Seq(InstType) /\ due \in Nat /\ TypedCode(code, s) /\ Tables(code, due)
        /\ nc = Append(code, e) /\ u \in StackType /\ left \in Nat
    BY <1>1, <1>2, <1>3, <2>1, PointFields
  <2>3. Step(e.op, s[Len(code) + 1], u)
    BY <1>3, <2>1
  <2>4. DueAfter(e, due, left)
    BY <1>3, <2>1
  <2>5. GrowsBy(code, s, due, e, u, left)
    BY <2>2, <2>3, <2>4 DEF GrowsBy
  <2>6. Appended(code, s, e, u, nc, ns)
    BY <2>1, <2>2 DEF Appended
  <2>7. Grown(code, s, u, left, nc, ns)
    BY <2>5, <2>6, TypedGrows
  <2> QED
    BY <1>2, <2>1, <2>7 DEF Grown
<1>4. ASSUME Len(nt.code) = Len(st.code),
             \A i \in 1..Len(st.code) : /\ nt.code[i].op = st.code[i].op
                                        /\ st.code[i].op \in OnOps =>
                                              nt.code[i].arg = st.code[i].arg
      PROVE  \E ns, y : /\ TypedCode(nt.code, ns) /\ Tables(nt.code, y.due) /\ y \in Point
                        /\ y.stack = ns[Len(nt.code) + 1]
                        /\ \A pc : StartIn(st.code, s, pc) => StartIn(nt.code, ns, pc)
                        /\ y = x
  <2>1. /\ TypedCode(nt.code, s) /\ Tables(nt.code, x.due)
        /\ \A pc : StartIn(st.code, s, pc) => StartIn(nt.code, s, pc)
    BY <1>1, <1>4, TypedPatched
  <2>2. x.stack = s[Len(nt.code) + 1]
    BY <1>4
  <2> QED
    BY <1>2, <2>1, <2>2
<1>5. CASE c.call = "emit"
  <2>1. /\ c.op \in Opcode /\ c.arg \in Operand
        /\ nt.code = Append(st.code, Instruction(c.op, c.arg))
    BY <1>5, EffectTyped
  <2>2. EmitGoes(c, x, t)
    BY <1>2, <1>5 DEF Goes
  <2>3. PICK e : e = Instruction(c.op, c.arg)
    OBVIOUS
  <2>4. e \in InstType /\ e.op = c.op /\ e.arg = c.arg
    BY <2>1, <2>3, InstructionFields DEF InstType, Instruction
  <2>5. Step(e.op, x.stack, t.stack) /\ x.due = 0
        /\ (e.op \in OnOps => t.due = e.arg) /\ (e.op \notin OnOps => t.due = 0)
    BY <2>2, <2>4 DEF EmitGoes
  <2>6. DueAfter(e, x.due, t.due)
    BY <1>2, <2>5 DEF DueAfter
  <2> HIDE DEF Step
  <2> QED
    BY <1>3, <1>5, <2>1, <2>3, <2>4, <2>5, <2>6
<1>6. CASE c.call = "reference"
  <2>1. PICK arg \in Operand : nt.code = Append(st.code, Instruction(c.op, arg))
    BY <1>6, ReferenceEmits
  <2>2. c.op \in ReferenceOps /\ c.op \in TargetOps /\ c.op \notin OnOps
    BY <1>6, ReferenceEmits, TargetFits
  <2>3. ReferenceGoes(c, x, t)
    BY <1>2, <1>6 DEF Goes
  <2>4. PICK e : e = Instruction(c.op, arg)
    OBVIOUS
  <2>5. e \in InstType /\ e.op = c.op
    <3>1. c.op \in Opcode
      BY <2>2 DEF Opcode, TargetOps
    <3> QED
      BY <2>1, <2>4, <3>1, InstructionFields DEF InstType, Instruction
  <2>6. Step(e.op, <<>>, <<>>)
    <3>1. e.op \in NoEffectOps
      BY <2>2, <2>5 DEF ReferenceOps, NoEffectOps
    <3> QED
      BY <3>1, TakesWhat, LeavesWhat DEF Step
  <2>7. x.stack = <<>> /\ t.stack = <<>> /\ (e.op = "NOP" => x.due = t.due + 1)
        /\ (e.op # "NOP" => x.due = 0 /\ t.due = 0)
    BY <2>3, <2>5 DEF ReferenceGoes
  <2>8. DueAfter(e, x.due, t.due)
    BY <2>2, <2>5, <2>7 DEF DueAfter
  <2> HIDE DEF Step
  <2> QED
    BY <1>3, <1>6, <2>1, <2>4, <2>5, <2>6, <2>7, <2>8
<1>7. CASE c.call = "patch"
  <2>1. /\ Len(nt.code) = Len(st.code)
        /\ \A i \in 1..Len(st.code) :
              nt.code[i] = IF i = c.pc + 1
                           THEN Instruction(st.code[i].op, Operand16(Len(st.code)))
                           ELSE st.code[i]
    BY <1>7, EffectTyped
  <2>2. st.code[c.pc + 1].op \notin OnOps
    BY <1>7 DEF PatchesJump, OnOps
  <2>3. \A i \in 1..Len(st.code) : nt.code[i].op = st.code[i].op
                                   /\ (st.code[i].op \in OnOps => nt.code[i].arg = st.code[i].arg)
    BY <2>1, <2>2, InstructionFields
  <2> QED
    BY <1>4, <1>7, <2>1, <2>3
<1>8. CASE c.call \notin {"emit", "reference", "patch"}
  <2>1. nt.code = st.code
    BY <1>8, EffectTyped
  <2> QED
    BY <1>4, <1>8, <2>1
<1> QED
  BY <1>5, <1>6, <1>7, <1>8

-----------------------------------------------------------------------------
(* The invariant.                                                          *)

(* The operand of instruction i is the place of a start.                   *)
Lands(code, s, i) == \E pc \in Nat : StartIn(code, s, pc) /\ code[i].arg = Operand16(pc)

(* All targets are starts, but for those that are owed a patch.            *)
Landed(code, s, owed) ==
    \A i \in 1..Len(code) : code[i].op \in TargetOps => i \in owed \/ Lands(code, s, i)

(* The lines are starts.                                                   *)
Starts(code, s, lines) == \A k \in DOMAIN lines : StartIn(code, s, lines[k].offset)

(* The calls take the stack and the table from where the code leaves them  *)
(* to an empty stack outside all tables.                                   *)
CodeTyped(code, s, due, calls) ==
    /\ TypedCode(code, s) /\ due \in Nat /\ Tables(code, due)
    /\ Chain(TypeStep, calls, [stack |-> s[Len(code) + 1], due |-> due], Empty)

CodeInv ==
    /\ OperandsFit(cs.code)
    /\ \E s, due : /\ CodeTyped(cs.code, s, due, todo)
                   /\ Starts(cs.code, s, cs.lines)
                   /\ phase # "failed" => Landed(cs.code, s, OwedByIf \cup OwedByFixup)

(* What a call does to the patches that are owed.                          *)
LEMMA CallOwes ==
    ASSUME TypeInv, LinesInv, JumpsInv, NEW c, NEW q, NEW rest, MadeCall(c, q, rest),
           NEW L, L = Len(cs.code)
    PROVE  /\ \A i \in OwedByIf \cup OwedByFixup :
                 \/ i \in OwedByIf' \cup OwedByFixup'
                 \/ c.call = "patch" /\ i = c.pc + 1
           /\ c.call = "emit" /\ c.op \in TargetOps => L + 1 \in OwedByIf'
           /\ c.call = "reference" =>
                 \/ L + 1 \in OwedByFixup'
                 \/ \E k \in DOMAIN cs.lines :
                       cs'.code[L + 1].arg = Operand16(cs.lines[k].offset)
<1>1. /\ cs \in StateType /\ cs' = Effect(cs, c) /\ c \in CallType /\ q = Calls(cs, c)
      /\ phase = "compiling" /\ phase' = phase /\ CallsMade(todo', q, rest)
      /\ todo # <<>> /\ todo[1] = c /\ ToSet(todo) = {c} \cup ToSet(rest)
  BY DEF MadeCall
<1>2. ToSet(todo') = ToSet(q) \cup ToSet(rest)
  BY <1>1 DEF CallsMade
<1>3. \A x \in ToSet(todo') : /\ x.call = "else" => x.test + 1 \in OwedByIf'
                              /\ x.call = "patch" => x.pc + 1 \in OwedByIf'
  BY OwedByCalls DEF OwedOf
<1>4. Unresolved = DOMAIN cs.fixups /\ Unresolved' = DOMAIN cs'.fixups
  BY <1>1 DEF Unresolved
<1>5. ASSUME NEW i \in OwedByIf
      PROVE  i \in OwedByIf' \/ (c.call = "patch" /\ i = c.pc + 1)
  <2>1. PICK x \in ToSet(todo) : \/ x.call = "else" /\ i = x.test + 1
                                 \/ x.call = "patch" /\ i = x.pc + 1
    BY OwedByCalls DEF OwedOf
  <2>2. CASE x \in ToSet(rest)
    BY <1>2, <1>3, <2>1, <2>2
  <2>3. CASE x = c /\ c.call = "patch"
    BY <2>1, <2>3
  <2>4. CASE x = c /\ c.call = "else"
    <3>1. PatchHere(c.test) \in ToSet(q)
      <4> DEFINE st == cs
      <4>1. st \in StateType /\ q = Calls(st, c)
        BY <1>1
      <4> HIDE DEF st
      <4> QED
        BY <1>1, <2>4, <4>1, CallsAre
    <3> QED
      BY <1>2, <1>3, <2>1, <2>4, <3>1, PatchesAre
  <2> QED
    BY <1>1, <2>1, <2>2, <2>3, <2>4
<1>6. ASSUME NEW i \in OwedByFixup PROVE i \in OwedByFixup'
  <2>1. PICK f \in DOMAIN cs.fixups : i = cs.fixups[f].pc + 1
    BY <1>4 DEF OwedByFixup
  <2>2. f \in DOMAIN cs'.fixups /\ cs'.fixups[f] = cs.fixups[f]
    BY FixupsMade
  <2> QED
    BY <1>4, <2>1, <2>2 DEF OwedByFixup
<1>7. ASSUME c.call = "emit", c.op \in TargetOps PROVE L + 1 \in OwedByIf'
  <2>1. c \in IfJump
    <3>1. c \in PlainEmit \cup IfJump
      BY <1>1, <1>7, CallKinds
    <3>2. c \notin PlainEmit
      BY <1>7 DEF PlainEmit, TargetOps, JumpOps, NoOperandOps, VariableOps, ArrayOps, DimOps,
                  NumArrayOps, StrArrayOps, NumGetOps, NumSetOps, StrGetOps, StrSetOps, OnOps,
                  UnaryOps, BinaryOps, CompareOps, StrToNumOps, NumToStrOps, SliceOps
    <3> QED
      BY <3>1, <3>2
  <2>2. CASE c = Emit("JUMP_IF_FALSE", 0)
    <3>1. Emits("JUMP_IF_FALSE")
      BY <1>1, <2>2 DEF Emits
    <3>2. PICK x \in ToSet(todo) : x.call = "else" /\ x.test = L
      BY <3>1 DEF JumpsInv
    <3>3. x \in ToSet(rest)
      BY <1>1, <1>7, <3>2
    <3> QED
      BY <1>2, <1>3, <3>2, <3>3
  <2>3. CASE c = Emit("JUMP", 0)
    <3>1. Emits("JUMP")
      BY <1>1, <2>3 DEF Emits
    <3>2. PICK x \in ToSet(todo) : x.call = "patch" /\ x.pc = L
      BY <3>1 DEF JumpsInv
    <3>3. x \in ToSet(rest)
      BY <1>1, <1>7, <3>2
    <3> QED
      BY <1>2, <1>3, <3>2, <3>3
  <2> QED
    BY <2>1, <2>2, <2>3 DEF IfJump
<1>8. ASSUME c.call = "reference"
      PROVE  \/ L + 1 \in OwedByFixup'
             \/ \E k \in DOMAIN cs.lines :
                   cs'.code[L + 1].arg = Operand16(cs.lines[k].offset)
  <2> DEFINE nt == cs'
             line == c.number % 65536
             offset == compiler_find_line_offset(cs, line)
  <2>1. ReferenceMade(nt, cs, c.op, line)
    BY <1>1, <1>8, EffectTyped
  <2>2. cs.code \in Seq(InstType)
    BY <1>1, StateFields
  <2>3. line \in Int
    BY <1>1, <1>8, CallKinds, WordCut DEF ReferenceCall
  <2> HIDE DEF nt, line
  <2>4. CASE offset \in Nat
    <3>1. nt.code = Append(cs.code, Instruction(c.op, Operand16(offset)))
      BY <2>1, <2>4 DEF ReferenceMade
    <3>2. nt.code[L + 1] = Instruction(c.op, Operand16(offset))
      BY <2>2, <3>1, AppendAt
    <3>3. \E k \in DOMAIN cs.lines : cs.lines[k].offset = offset
      BY <2>3, <2>4, SearchOfMap
    <3> QED
      BY <3>2, <3>3, InstructionFields DEF nt
  <2>5. CASE offset = -1
    <3> DEFINE fixup == [pc |-> Len(cs.code), line |-> line]
    <3>1. nt.fixups = Append(cs.fixups, fixup)
      BY <2>1, <2>5 DEF ReferenceMade
    <3>2. cs.fixups \in Seq(FixupType) /\ fixup.pc = L
      BY <1>1, StateFields
    <3> HIDE DEF fixup
    <3>3. /\ Len(cs.fixups) \in Nat /\ DOMAIN nt.fixups = 1..(Len(cs.fixups) + 1)
          /\ nt.fixups[Len(cs.fixups) + 1] = fixup
      BY <3>1, <3>2, AppendAt
    <3>4. \E f \in DOMAIN nt.fixups : nt.fixups[f].pc = L
      BY <3>2, <3>3
    <3> QED
      BY <1>4, <3>4 DEF OwedByFixup, nt
  <2> QED
    BY <2>1, <2>4, <2>5 DEF ReferenceMade
<1> QED
  BY <1>5, <1>6, <1>7, <1>8

(* The targets after a call.                                               *)
LEMMA CallLands ==
    ASSUME TypeInv, LinesInv, JumpsInv, NEW c, NEW q, NEW rest, MadeCall(c, q, rest),
           NEW code, code = cs.code, NEW nc, nc = cs'.code, NEW s, NEW ns,
           NEW old, old = OwedByIf \cup OwedByFixup,
           NEW new, new = OwedByIf' \cup OwedByFixup',
           \A pc : StartIn(code, s, pc) => StartIn(nc, ns, pc),
           c.call = "patch" => StartIn(nc, ns, Len(code)),
           Starts(code, s, cs.lines), Landed(code, s, old)
    PROVE  Landed(nc, ns, new)
<1>1. /\ cs \in StateType /\ cs' = Effect(cs, c) /\ c \in CallType
  BY DEF MadeCall
<1>2. PICK L : L = Len(code)
  OBVIOUS
<1>3. /\ code \in Seq(InstType) /\ L \in Nat
  BY <1>1, <1>2, StateFields
<1>4. /\ \A i \in old : i \in new \/ (c.call = "patch" /\ i = c.pc + 1)
      /\ c.call = "emit" /\ c.op \in TargetOps => L + 1 \in new
      /\ c.call = "reference" =>
            \/ L + 1 \in new
            \/ \E k \in DOMAIN cs.lines : nc[L + 1].arg = Operand16(cs.lines[k].offset)
  BY <1>2, CallOwes
<1>5. ASSUME NEW k \in DOMAIN cs.lines
      PROVE  cs.lines[k].offset \in Nat /\ StartIn(nc, ns, cs.lines[k].offset)
  <2>1. cs.lines \in LinesType
    BY <1>1, StateFields
  <2> QED
    BY <2>1, LinesTyped DEF Starts
<1>6. ASSUME NEW i \in 1..L, nc[i] = code[i], nc[i].op \in TargetOps,
             c.call # "patch" \/ i # c.pc + 1
      PROVE  i \in new \/ Lands(nc, ns, i)
  <2>1. CASE i \in old
    BY <1>4, <1>6, <2>1
  <2>2. CASE Lands(code, s, i)
    BY <1>6, <2>2 DEF Lands
  <2> QED
    BY <1>2, <1>6, <2>1, <2>2 DEF Landed
<1>7. ASSUME NEW x, nc = Append(code, x), c.call # "patch",
             nc[L + 1].op \in TargetOps => L + 1 \in new \/ Lands(nc, ns, L + 1)
      PROVE  Landed(nc, ns, new)
  <2>1. /\ Len(nc) = L + 1 /\ \A i \in 1..L : nc[i] = code[i]
        /\ \A i \in 1..(L + 1) : i \in 1..L \/ i = L + 1
    BY <1>2, <1>3, <1>7, AppendAt
  <2> QED
    BY <1>6, <1>7, <2>1 DEF Landed
<1>8. CASE c.call = "emit"
  <2>1. nc = Append(code, Instruction(c.op, c.arg))
    <3> DEFINE nt == cs'
    <3>1. nt.code = Append(cs.code, Instruction(c.op, c.arg))
      BY <1>1, <1>8, EffectTyped
    <3> QED
      BY <3>1
  <2>2. nc[L + 1].op = c.op
    BY <1>2, <1>3, <2>1, AppendAt, InstructionFields
  <2> QED
    BY <1>4, <1>7, <1>8, <2>1, <2>2
<1>9. CASE c.call = "reference"
  <2>1. \E arg \in Operand : nc = Append(code, Instruction(c.op, arg))
    <3> DEFINE nt == cs'
    <3>1. \E arg \in Operand : nt.code = Append(cs.code, Instruction(c.op, arg))
      BY <1>1, <1>9, ReferenceEmits
    <3> QED
      BY <3>1
  <2>2. L + 1 \in new \/ Lands(nc, ns, L + 1)
    BY <1>4, <1>5, <1>9 DEF Lands
  <2> QED
    BY <1>7, <1>9, <2>1, <2>2
<1>10. CASE c.call = "patch"
  <2>1. /\ Len(nc) = L
        /\ \A i \in 1..L : nc[i] = IF i = c.pc + 1
                                   THEN Instruction(code[i].op, Operand16(L)) ELSE code[i]
    <3> DEFINE nt == cs'
    <3>1. /\ Len(nt.code) = Len(cs.code)
          /\ \A i \in 1..Len(cs.code) :
                nt.code[i] = IF i = c.pc + 1
                             THEN Instruction(cs.code[i].op, Operand16(Len(cs.code)))
                             ELSE cs.code[i]
      BY <1>1, <1>10, EffectTyped
    <3> QED
      BY <1>2, <3>1
  <2>2. ASSUME NEW i \in 1..L, nc[i].op \in TargetOps PROVE i \in new \/ Lands(nc, ns, i)
    <3>1. CASE i = c.pc + 1
      <4>1. nc[i].arg = Operand16(L)
        BY <2>1, <3>1, InstructionFields
      <4>2. StartIn(nc, ns, L)
        BY <1>2, <1>10
      <4> QED
        BY <1>3, <4>1, <4>2 DEF Lands
    <3>2. CASE i # c.pc + 1
      BY <1>6, <2>1, <2>2, <3>2
    <3> QED
      BY <3>1, <3>2
  <2> QED
    BY <2>1, <2>2 DEF Landed
<1>11. CASE c.call \notin {"emit", "reference", "patch"}
  <2>1. nc = code
    <3> DEFINE nt == cs'
    <3>1. nt.code = cs.code
      BY <1>1, <1>11, EffectTyped
    <3> QED
      BY <3>1
  <2> QED
    BY <1>2, <1>6, <1>11, <2>1 DEF Landed
<1> QED
  BY <1>1, <1>8, <1>9, <1>10, <1>11

(* Where the calls begin, the first one is made.                           *)
LEMMA FirstStep ==
    ASSUME NEW c, NEW q, NEW rest, MadeCall(c, q, rest), NEW x, NEW y,
           Chain(TypeStep, todo, x, y)
    PROVE  \E t : <<c, x, t>> \in TypeStep /\ Chain(TypeStep, rest, t, y)
<1>1. /\ todo \in Seq(CallType) /\ todo # <<>> /\ c \in CallType /\ rest \in Seq(CallType)
      /\ todo = <<c>> \o rest
  BY DEF MadeCall
<1>2. Tail(todo) = rest /\ todo[1] = c
  BY <1>1, ToSetFirst
<1>3. Head(todo) = c
  BY <1>1, <1>2
<1>4. \E t : <<Head(todo), x, t>> \in TypeStep /\ Chain(TypeStep, Tail(todo), t, y)
  BY <1>1, ChainHead
<1> QED
  BY <1>2, <1>3, <1>4

(* The calls go on from where the first one left them.                     *)
LEMMA CallsGoOn ==
    ASSUME TypesAgree, NEW c, NEW q, NEW rest, MadeCall(c, q, rest), NEW x, NEW y, NEW t,
           <<c, x, t>> \in TypeStep, Chain(TypeStep, rest, t, y),
           NEW z, z = IF c.call \in {"emit", "reference"} THEN t ELSE x
    PROVE  Chain(TypeStep, todo', z, y)
<1>1. /\ cs \in StateType /\ c \in CallType /\ q = Calls(cs, c)
      /\ q \in Seq(CallType) /\ rest \in Seq(CallType) /\ todo' = q \o rest
  BY DEF MadeCall
<1>2. CASE c.call \in {"emit", "reference"}
  <2>1. q = <<>>
    BY <1>1, <1>2 DEF Calls
  <2>2. q \o rest = rest
    BY <1>1, <2>1
  <2> QED
    BY <1>1, <1>2, <2>2
<1>3. CASE c.call \notin {"emit", "reference"}
  <2>1. PICK st : st = cs
    OBVIOUS
  <2>2. st \in StateType /\ q = Calls(st, c)
    BY <1>1, <2>1
  <2>3. Chain(TypeStep, q, x, t)
    BY <1>1, <1>3, <2>2, CallKeepsTyping
  <2>4. Chain(TypeStep, q \o rest, x, y)
    BY <1>1, <2>3, ChainJoin
  <2> QED
    BY <1>1, <1>3, <2>4
<1> QED
  BY <1>2, <1>3

(* A call patches a jump.                                                  *)
LEMMA CallPatches ==
    ASSUME JumpsInv, NEW c, NEW q, NEW rest, MadeCall(c, q, rest)
    PROVE  PatchesJump(cs.code, c)
<1>1. todo # <<>> /\ todo[1] = c /\ ToSet(todo) = {c} \cup ToSet(rest)
  BY DEF MadeCall
<1>2. c.call = "patch" => ~Emits("JUMP")
  BY <1>1, PatchesAre DEF Emits
<1> QED
  BY <1>1, <1>2 DEF JumpsInv, PatchesJump

(* A call of a code generator.                                             *)
LEMMA CodeMakeCall ==
    ASSUME TypesAgree, CompilerInv, CodeInv, MakeCall
    PROVE  CodeInv'
<1>1. TypeInv /\ LinesInv /\ FixupsInv /\ JumpsInv
  BY DEF CompilerInv
<1>2. PICK c, q, rest : MadeCall(c, q, rest)
  BY <1>1, CallStep
<1>3. /\ cs \in StateType /\ cs' = Effect(cs, c) /\ c \in CallType
      /\ phase = "compiling" /\ phase' = phase
  BY <1>2 DEF MadeCall
<1>4. PICK st, nt : st = cs /\ nt = cs'
  OBVIOUS
<1>5. /\ st \in StateType /\ nt = Effect(st, c) /\ nt.lines = st.lines
      /\ PatchesJump(st.code, c) /\ OperandsFit(st.code)
  BY <1>1, <1>2, <1>3, <1>4, CallPatches, EffectTyped DEF CodeInv
<1>6. PICK s, due : /\ CodeTyped(cs.code, s, due, todo) /\ Starts(cs.code, s, cs.lines)
                    /\ Landed(cs.code, s, OwedByIf \cup OwedByFixup)
  BY <1>3 DEF CodeInv
<1>7. PICK x : x = [stack |-> s[Len(st.code) + 1], due |-> due]
  OBVIOUS
<1>8. /\ TypedCode(st.code, s) /\ Tables(st.code, x.due) /\ x.stack = s[Len(st.code) + 1]
      /\ Chain(TypeStep, todo, x, Empty)
  BY <1>4, <1>6, <1>7 DEF CodeTyped
<1>9. PICK t : <<c, x, t>> \in TypeStep /\ Chain(TypeStep, rest, t, Empty)
  BY <1>2, <1>8, FirstStep
<1>10. PICK ns, z : /\ TypedCode(nt.code, ns) /\ Tables(nt.code, z.due) /\ z \in Point
                    /\ z.stack = ns[Len(nt.code) + 1]
                    /\ \A pc : StartIn(st.code, s, pc) => StartIn(nt.code, ns, pc)
                    /\ z = IF c.call \in {"emit", "reference"} THEN t ELSE x
  BY <1>3, <1>5, <1>8, <1>9, CallTypes
<1>11. Chain(TypeStep, todo', z, Empty)
  BY <1>2, <1>9, <1>10, CallsGoOn
<1>12. CodeTyped(nt.code, ns, z.due, todo')
  <2>1. z.due \in Nat /\ z = [stack |-> ns[Len(nt.code) + 1], due |-> z.due]
    BY <1>10 DEF Point
  <2> QED
    BY <1>10, <1>11, <2>1 DEF CodeTyped
<1>13. Starts(nt.code, ns, nt.lines)
  BY <1>4, <1>5, <1>6, <1>10 DEF Starts
<1>14. c.call = "patch" => StartIn(nt.code, ns, Len(st.code))
  <2> SUFFICES ASSUME c.call = "patch" PROVE StartIn(nt.code, ns, Len(st.code))
    OBVIOUS
  <2>1. x = At(<<>>) /\ z = x
    BY <1>9, <1>10, TypeStepIs DEF Goes, PlainGoes
  <2>2. x.stack = <<>> /\ x.due = 0
    BY <2>1 DEF At
  <2>3. nt \in StateType /\ Len(nt.code) = Len(st.code)
    BY <1>3, <1>5, EffectTyped
  <2>4. nt.code \in Seq(InstType)
    BY <2>3, StateFields
  <2>5. StartIn(nt.code, ns, Len(nt.code))
    BY <1>10, <2>1, <2>2, <2>4, StartHere
  <2> QED
    BY <2>3, <2>5
<1>15. PICK old, new : /\ old = OwedByIf \cup OwedByFixup
                       /\ new = OwedByIf' \cup OwedByFixup'
  OBVIOUS
<1>16. Landed(nt.code, ns, new)
  <2>1. PICK code, nc : code = cs.code /\ nc = cs'.code /\ code = st.code /\ nc = nt.code
    BY <1>4
  <2>2. /\ \A pc : StartIn(code, s, pc) => StartIn(nc, ns, pc)
        /\ c.call = "patch" => StartIn(nc, ns, Len(code))
        /\ Starts(code, s, cs.lines) /\ Landed(code, s, old)
    BY <1>6, <1>10, <1>14, <1>15, <2>1
  <2>3. Landed(nc, ns, new)
    BY <1>1, <1>2, <1>15, <2>1, <2>2, CallLands
  <2> QED
    BY <2>1, <2>3
<1>17. OperandsFit(nt.code)
  BY <1>3, <1>5, CallFits
<1>18. CodeTyped(cs.code, ns, z.due, todo)' /\ Starts(cs.code, ns, cs.lines)'
       /\ Landed(cs.code, ns, OwedByIf \cup OwedByFixup)' /\ OperandsFit(cs.code)'
  BY <1>4, <1>12, <1>13, <1>15, <1>16, <1>17
<1> QED
  BY <1>18 DEF CodeInv

(* At first there is no code, and the stack is empty.                      *)
LEMMA CodeAtFirst == CompilerInit => CodeInv
<1> SUFFICES ASSUME CompilerInit PROVE CodeInv
  OBVIOUS
<1>1. /\ cs.code = <<>> /\ cs.lines = <<>> /\ cs.fixups = <<>> /\ todo = <<>>
      /\ phase = "compiling"
  BY DEF CompilerInit, NewCompilerState
<1>2. PICK code, lines : code = <<>> /\ lines = <<>> /\ code = cs.code /\ lines = cs.lines
  BY <1>1
<1>3. Len(code) = 0 /\ 1..Len(code) = {} /\ DOMAIN lines = {}
  BY <1>2
<1>4. PICK e : e = <<>>
  OBVIOUS
<1>5. e \in StackType
  BY <1>4 DEF StackType
<1>6. PICK s : s = <<e>>
  OBVIOUS
<1>7. s \in Seq(StackType) /\ Len(s) = 1 /\ s[1] = e
  <2>1. PICK T : T = StackType
    OBVIOUS
  <2> QED
    BY <1>5, <1>6, <2>1
<1>8. TypedCode(code, s) /\ Tables(code, 0) /\ OperandsFit(code)
  BY <1>3, <1>4, <1>7 DEF TypedCode, Tables, OperandsFit
<1>9. CodeTyped(code, s, 0, todo)
  <2>1. [stack |-> s[Len(code) + 1], due |-> 0] = Empty
    BY <1>3, <1>4, <1>7 DEF Empty, At
  <2>2. Chain(TypeStep, <<>>, Empty, Empty)
    BY ChainNone
  <2> QED
    BY <1>1, <1>8, <2>1, <2>2 DEF CodeTyped
<1>10. Starts(code, s, lines) /\ Landed(code, s, OwedByIf \cup OwedByFixup)
  BY <1>3 DEF Starts, Landed
<1> QED
  BY <1>2, <1>8, <1>9, <1>10 DEF CodeInv

(* The next statement starts where the code ends.                          *)
LEMMA CodeNextStatement ==
    ASSUME CompilerInv, CodeInv, CompileNextStatement
    PROVE  CodeInv'
<1>1. TypeInv
  BY DEF CompilerInv
<1>2. /\ phase = "compiling" /\ todo = <<>> /\ next <= Len(source)
      /\ cs' = compiler_add_line_mapping(cs, source[next].line)
      /\ todo' = <<Statement(source[next].stmt)>>
      /\ source' = source /\ phase' = phase
  BY DEF CompileNextStatement
<1>3. source \in Sources /\ cs \in StateType /\ next \in Nat /\ next >= 1
  BY <1>1 DEF TypeInv
<1>4. source[next].line \in Word /\ source[next].stmt \in StatementTree
  BY <1>2, <1>3, SourceTyped
<1>5. PICK code, lines, e : /\ code = cs.code /\ lines = cs.lines
                            /\ e = LineMapping(source[next].line, Len(cs.code))
  OBVIOUS
<1>6. cs'.code = code /\ cs'.fixups = cs.fixups /\ cs'.lines = Append(lines, e)
  BY <1>2, <1>3, <1>4, <1>5, LinesEffect
<1>7. /\ code \in Seq(InstType) /\ lines \in Seq([line : Word, offset : Nat])
      /\ e.offset = Len(code)
  BY <1>3, <1>5, StateFields DEF LinesType, LineMapping
<1>8. PICK s, due : /\ CodeTyped(code, s, due, <<>>) /\ Starts(code, s, lines)
                    /\ Landed(code, s, OwedByIf \cup OwedByFixup) /\ OperandsFit(code)
  BY <1>2, <1>5 DEF CodeInv
<1>9. [stack |-> s[Len(code) + 1], due |-> due] = Empty /\ TypedCode(code, s) /\ Tables(code, due)
  BY <1>8, ChainNone DEF CodeTyped
<1>10. s[Len(code) + 1] = <<>> /\ due = 0
  BY <1>9 DEF Empty, At
<1>11. StartIn(code, s, Len(code))
  BY <1>7, <1>9, <1>10, StartHere
<1>12. Starts(code, s, Append(lines, e))
  <2>1. PICK more : more = Append(lines, e)
    OBVIOUS
  <2>2. /\ DOMAIN lines = 1..Len(lines) /\ DOMAIN more = 1..(Len(lines) + 1)
        /\ \A k \in 1..Len(lines) : more[k] = lines[k]
        /\ more[Len(lines) + 1] = e /\ Len(lines) \in Nat
    BY <1>7, <2>1, AppendAt
  <2>3. ASSUME NEW k \in DOMAIN more PROVE StartIn(code, s, more[k].offset)
    <3>1. CASE k = Len(lines) + 1
      BY <1>7, <1>11, <2>2, <3>1
    <3>2. CASE k \in 1..Len(lines)
      BY <1>8, <2>2, <3>2 DEF Starts
    <3> QED
      BY <2>2, <3>1, <3>2
  <2> QED
    BY <2>1, <2>3 DEF Starts
<1>13. CodeTyped(code, s, due, todo')
  <2>1. PICK c : c = Statement(source[next].stmt) /\ c \in CallType
    <3>1. Statement(source[next].stmt) \in StatementCall
      BY <1>4 DEF Statement, StatementCall
    <3> QED
      BY <3>1 DEF CallType, PlainCall
  <2>2. <<c, Empty, Empty>> \in TypeStep
    BY <1>4, <2>1, IdleCall
  <2>3. Chain(TypeStep, <<c>>, Empty, Empty)
    BY <2>1, <2>2, ChainOne
  <2> QED
    BY <1>2, <1>8, <1>9, <2>1, <2>3 DEF CodeTyped
<1>14. PICK old : old = OwedByIf \cup OwedByFixup
  OBVIOUS
<1>15. (old \subseteq OwedByIf \cup OwedByFixup)'
  <2>1. OwedByIf = {}
    <3>1. DOMAIN todo = {}
      BY <1>2
    <3> QED
      BY <3>1 DEF OwedByIf
  <2>2. OwedByFixup' = OwedByFixup
    BY <1>2, <1>6 DEF OwedByFixup, Unresolved
  <2> QED
    BY <1>14, <2>1, <2>2
<1>16. Landed(code, s, OwedByIf \cup OwedByFixup)'
  BY <1>8, <1>14, <1>15 DEF Landed
<1>17. CodeTyped(cs.code, s, due, todo)' /\ Starts(cs.code, s, cs.lines)'
       /\ Landed(cs.code, s, OwedByIf \cup OwedByFixup)' /\ OperandsFit(cs.code)'
  BY <1>6, <1>8, <1>12, <1>13, <1>16
<1> QED
  BY <1>17 DEF CodeInv

(* A step after the last call that leaves the code as it is.               *)
LEMMA CodeFrame ==
    ASSUME CodeInv, cs'.code = cs.code, cs'.lines = cs.lines, todo' = todo,
           phase' # "failed" => /\ phase # "failed"
                                /\ OwedByIf \cup OwedByFixup \subseteq OwedByIf' \cup OwedByFixup'
    PROVE  CodeInv'
<1>1. PICK s, due : /\ CodeTyped(cs.code, s, due, todo) /\ Starts(cs.code, s, cs.lines)
                    /\ phase # "failed" => Landed(cs.code, s, OwedByIf \cup OwedByFixup)
                    /\ OperandsFit(cs.code)
  BY DEF CodeInv
<1>2. (phase # "failed" => Landed(cs.code, s, OwedByIf \cup OwedByFixup))'
  BY <1>1 DEF Landed
<1>3. CodeTyped(cs.code, s, due, todo)' /\ Starts(cs.code, s, cs.lines)' /\ OperandsFit(cs.code)'
  BY <1>1
<1> QED
  BY <1>2, <1>3 DEF CodeInv

(* All statements have been compiled.                                      *)
LEMMA CodeResolveJumps ==
    ASSUME CompilerInv, CodeInv, ResolveJumps
    PROVE  CodeInv'
<1>1. TypeInv
  BY DEF CompilerInv
<1>2. /\ phase = "compiling" /\ phase' = "resolving" /\ next' = 1
      /\ UNCHANGED <<source, cs, todo>>
  BY DEF ResolveJumps
<1>3. DOMAIN cs.fixups = 1..Len(cs.fixups)
  BY <1>1, StateFields DEF TypeInv
<1>4. Unresolved' = Unresolved
  BY <1>2, <1>3 DEF Unresolved
<1>5. OwedByIf' = OwedByIf /\ OwedByFixup' = OwedByFixup
  BY <1>2, <1>4 DEF OwedByIf, OwedByFixup
<1> QED
  BY <1>2, <1>5, CodeFrame

(* All fixups have been resolved.                                          *)
LEMMA CodeReturnProgram ==
    ASSUME CompilerInv, CodeInv, ReturnProgram
    PROVE  CodeInv'
<1>1. TypeInv
  BY DEF CompilerInv
<1>2. /\ phase = "resolving" /\ phase' = "compiled" /\ next > Len(cs.fixups)
      /\ UNCHANGED <<source, cs, todo, next>>
  BY DEF ReturnProgram
<1>3. next \in Nat /\ Len(cs.fixups) \in Nat
  BY <1>1, StateFields DEF TypeInv
<1>4. Unresolved = {}
  BY <1>2, <1>3 DEF Unresolved
<1>5. OwedByIf' = OwedByIf /\ OwedByFixup = {}
  BY <1>2, <1>4 DEF OwedByIf, OwedByFixup
<1> QED
  BY <1>2, <1>5, CodeFrame

(* A fixup is resolved, or its line is not in the source.                  *)
LEMMA CodeNextFixup ==
    ASSUME CompilerInv, CodeInv, ResolveNextFixup
    PROVE  CodeInv'
<1>1. TypeInv /\ LinesInv /\ FixupsInv
  BY DEF CompilerInv
<1>2. phase = "resolving" /\ next' = next + 1 /\ UNCHANGED <<source, todo>>
  BY DEF ResolveNextFixup
<1>3. todo = <<>> /\ cs \in StateType
  BY <1>1, <1>2 DEF TypeInv
<1>4. /\ cs' \in StateType /\ next \in 1..Len(cs.fixups)
      /\ cs.fixups[next] \in FixupType
      /\ cs'.lines = cs.lines /\ cs'.fixups = cs.fixups
      /\ Len(cs'.code) = Len(cs.code)
  BY <1>1, FixupEffect
<1>5. CASE phase' = "failed" /\ cs'.code = cs.code
  BY <1>2, <1>4, <1>5, CodeFrame
<1>6. CASE \E k \in DOMAIN cs.lines :
              /\ cs.lines[k].offset \in Nat
              /\ \A i \in 1..Len(cs.code) :
                    cs'.code[i] = IF i = cs.fixups[next].pc + 1
                                  THEN Instruction(cs.code[i].op,
                                                   Operand16(cs.lines[k].offset))
                                  ELSE cs.code[i]
              /\ phase' = "resolving"
  <2>1. PICK code, nc, lines, p, k :
           /\ code = cs.code /\ nc = cs'.code /\ lines = cs.lines /\ p = cs.fixups[next].pc + 1
           /\ k \in DOMAIN lines /\ lines[k].offset \in Nat
           /\ \A i \in 1..Len(code) :
                 nc[i] = IF i = p THEN Instruction(code[i].op, Operand16(lines[k].offset))
                         ELSE code[i]
           /\ phase' = "resolving"
    BY <1>6
  <2>2. /\ code \in Seq(InstType) /\ nc \in Seq(InstType) /\ Len(nc) = Len(code)
        /\ cs.fixups[next].pc \in Nat
    BY <1>3, <1>4, <2>1, StateFields DEF FixupType
  <2>3. code[p].op \in TargetOps
    <3>1. next \in DOMAIN cs.fixups
      BY <1>3, <1>4, StateFields
    <3> QED
      BY <1>1, <2>1, <3>1 DEF FixupsInv, ReferenceOps, TargetOps, JumpOps
  <2>4. \A i \in 1..Len(code) : /\ nc[i].op = code[i].op
                                /\ code[i].op \in OnOps => nc[i].arg = code[i].arg
    <3>1. code[p].op \notin OnOps
      BY <2>3, TargetFits
    <3> QED
      BY <2>1, <3>1, InstructionFields
  <2>5. PICK s, due : /\ CodeTyped(code, s, due, todo) /\ Starts(code, s, lines)
                      /\ Landed(code, s, OwedByIf \cup OwedByFixup) /\ OperandsFit(code)
    BY <1>2, <2>1 DEF CodeInv
  <2>6. /\ TypedCode(nc, s) /\ Tables(nc, due)
        /\ \A pc : StartIn(code, s, pc) => StartIn(nc, s, pc)
    BY <2>2, <2>4, <2>5, TypedPatched DEF CodeTyped
  <2>7. CodeTyped(nc, s, due, todo) /\ Starts(nc, s, lines)
    BY <2>2, <2>5, <2>6 DEF CodeTyped, Starts
  <2>8. OperandsFit(nc)
    <3> SUFFICES ASSUME NEW i \in 1..Len(nc) PROVE OperandFits(nc[i].op, nc[i].arg)
      BY DEF OperandsFit
    <3>1. CASE i = p
      <4>1. nc[i].op \in TargetOps
        BY <2>2, <2>3, <2>4, <3>1
      <4> QED
        BY <4>1, TargetFits
    <3>2. CASE i # p
      BY <2>1, <2>2, <2>5, <3>2 DEF OperandsFit
    <3> QED
      BY <3>1, <3>2
  <2>9. PICK old, new : old = OwedByIf \cup OwedByFixup /\ new = OwedByIf' \cup OwedByFixup'
    OBVIOUS
  <2>10. \A i \in old : i \in new \/ i = p
    <3>1. Unresolved = next..Len(cs.fixups) /\ Unresolved' = (next + 1)..Len(cs.fixups)
      BY <1>2, <1>4, <2>1 DEF Unresolved
    <3>2. OwedByIf' = OwedByIf
      BY <1>2 DEF OwedByIf
    <3>3. ASSUME NEW i \in OwedByFixup PROVE i \in OwedByFixup' \/ i = p
      <4>1. PICK f \in Unresolved : i = cs.fixups[f].pc + 1
        BY DEF OwedByFixup
      <4>2. f = next \/ f \in (next + 1)..Len(cs.fixups)
        BY <1>3, <1>4, <3>1, StateFields
      <4>3. CASE f = next
        BY <2>1, <4>1, <4>3
      <4>4. CASE f \in (next + 1)..Len(cs.fixups)
        BY <1>4, <3>1, <4>1, <4>4 DEF OwedByFixup
      <4> QED
        BY <4>2, <4>3, <4>4
    <3> QED
      BY <2>9, <3>2, <3>3
  <2>11. Landed(nc, s, new)
    <3> SUFFICES ASSUME NEW i \in 1..Len(nc), nc[i].op \in TargetOps
                 PROVE  i \in new \/ Lands(nc, s, i)
      BY DEF Landed
    <3>1. CASE i = p
      <4>1. nc[i].arg = Operand16(lines[k].offset)
        BY <2>1, <2>2, <3>1, InstructionFields
      <4>2. StartIn(nc, s, lines[k].offset)
        BY <2>1, <2>7 DEF Starts
      <4> QED
        BY <2>1, <4>1, <4>2 DEF Lands
    <3>2. CASE i # p
      <4>1. nc[i] = code[i] /\ code[i].op \in TargetOps
        BY <2>1, <2>2, <3>2
      <4>2. i \in old \/ Lands(code, s, i)
        BY <2>2, <2>5, <2>9, <4>1 DEF Landed
      <4>3. CASE i \in old
        BY <2>10, <3>2, <4>3
      <4>4. CASE Lands(code, s, i)
        BY <2>6, <4>1, <4>4 DEF Lands
      <4> QED
        BY <4>2, <4>3, <4>4
    <3> QED
      BY <3>1, <3>2
  <2>12. CodeTyped(cs.code, s, due, todo)' /\ Starts(cs.code, s, cs.lines)'
         /\ Landed(cs.code, s, OwedByIf \cup OwedByFixup)' /\ OperandsFit(cs.code)'
    BY <1>2, <1>4, <2>1, <2>7, <2>8, <2>9, <2>11
  <2> QED
    BY <2>12 DEF CodeInv
<1> QED
  BY <1>1, <1>5, <1>6, FixupEffect

(* What holds of every step.                                               *)
LEMMA CodeKept ==
    ASSUME TypesAgree, CompilerInv, CodeInv, [CompilerNext]_compilerVars
    PROVE  CodeInv'
<1>1. ASSUME UNCHANGED compilerVars PROVE CodeInv'
  <2>1. source' = source /\ cs' = cs /\ todo' = todo /\ next' = next /\ phase' = phase
    BY <1>1 DEF compilerVars
  <2>2. OwedByIf' = OwedByIf /\ OwedByFixup' = OwedByFixup
    BY <2>1 DEF OwedByIf, OwedByFixup, Unresolved
  <2> QED
    BY <2>1, <2>2, CodeFrame
<1> QED
  BY <1>1, CodeNextStatement, CodeMakeCall, CodeResolveJumps, CodeNextFixup,
     CodeReturnProgram DEF CompilerNext

(* The code that has been emitted is typed, each jump lands on a start or  *)
(* is owed a patch, and the calls that remain take the stack to where it   *)
(* was: when no operand of the sources has a wrong type.                   *)
THEOREM CodeInvariant ==
    ASSUME TypesAgree
    PROVE  CompilerSpec => [](CompilerInv /\ CodeInv)
<1>1. CompilerInit => CompilerInv /\ CodeInv
  BY InvAtFirst, CodeAtFirst
<1>2. CompilerInv /\ CodeInv /\ [CompilerNext]_compilerVars => (CompilerInv /\ CodeInv)'
  BY InvKept, CodeKept
<1> QED
  BY <1>1, <1>2, PTL DEF CompilerSpec

-----------------------------------------------------------------------------
(* What the verifier computes.                                             *)

(* The stacks before the first n instructions, and after them.             *)
Prefix(s, n) == [i \in 1..(n + 1) |-> s[i]]

(* A prefix and the stack that follows it.                                 *)
LEMMA PrefixGrows ==
    ASSUME NEW T, NEW s \in Seq(T), NEW n \in Nat, n >= 1, n + 1 <= Len(s)
    PROVE  Prefix(s, n) = Append(Prefix(s, n - 1), s[n + 1]) /\ Prefix(s, n - 1)[n] = s[n]
<1>1. PICK p, q, e : p = Prefix(s, n - 1) /\ q = Prefix(s, n) /\ e = s[n + 1]
  OBVIOUS
<1>2. /\ p \in Seq(T) /\ Len(p) = n /\ \A i \in 1..n : p[i] = s[i]
      /\ q \in Seq(T) /\ Len(q) = n + 1 /\ \A i \in 1..(n + 1) : q[i] = s[i]
      /\ e \in T
  <2>1. /\ p = [i \in 1..n |-> s[i]] /\ q = [i \in 1..(n + 1) |-> s[i]]
    BY <1>1 DEF Prefix
  <2>2. \A i \in 1..(n + 1) : s[i] \in T
    OBVIOUS
  <2> QED
    BY <1>1, <2>1, <2>2
<1>3. PICK r : r = Append(p, e)
  OBVIOUS
<1>4. /\ r \in Seq(T) /\ Len(r) = n + 1 /\ r[n + 1] = e /\ \A i \in 1..n : r[i] = p[i]
  BY <1>2, <1>3
<1>5. \A i \in 1..(n + 1) : q[i] = r[i]
  BY <1>1, <1>2, <1>4
<1>6. q = r
  BY <1>2, <1>4, <1>5, SeqEqual
<1> QED
  BY <1>1, <1>2, <1>3, <1>6

(* The shapes of typed code are its stacks.                                *)
LEMMA ShapeIs ==
    ASSUME NEW code \in Seq(InstType), NEW s, TypedCode(code, s)
    PROVE  Shape(code) = s
<1> DEFINE L == Len(code)
           Longer(shapes, n) == Append(shapes, IF Takes(code[n].op, shapes[n])
                                              THEN Leaves(code[n].op, shapes[n])
                                              ELSE shapes[n])
           Body(g, n) == IF n = 0 THEN <<<<>>>> ELSE Longer(g[n - 1], n)
           Unfolds(g) == g = [n \in 0..L |-> Body(g, n)]
           r == CHOOSE g : Unfolds(g)
<1>1. Shape(code) = r[L]
  BY DEF Shape
<1>2. L \in Nat /\ s \in Seq(StackType) /\ Len(s) = L + 1 /\ s[1] = <<>>
      /\ \A i \in 1..L : Takes(code[i].op, s[i]) /\ s[i + 1] = Leaves(code[i].op, s[i])
  BY DEF TypedCode, Step
<1>3. Prefix(s, 0) = <<<<>>>>
  <2>1. Prefix(s, 0) = [i \in 1..1 |-> <<>>]
    BY <1>2 DEF Prefix
  <2> QED
    BY <2>1
<1>4. ASSUME NEW n \in 1..L PROVE Longer(Prefix(s, n - 1), n) = Prefix(s, n)
  <2>1. n \in Nat /\ n >= 1 /\ n + 1 <= Len(s)
    BY <1>2
  <2>2. Prefix(s, n) = Append(Prefix(s, n - 1), s[n + 1]) /\ Prefix(s, n - 1)[n] = s[n]
    <3>1. PICK T : T = StackType
      OBVIOUS
    <3> QED
      BY <1>2, <2>1, <3>1, PrefixGrows
  <2> QED
    BY <1>2, <2>2
<1> HIDE DEF Longer
<1>5. \E g : Unfolds(g)
  <2> DEFINE g == [n \in 0..L |-> Prefix(s, n)]
  <2>1. ASSUME NEW n \in 0..L PROVE g[n] = Body(g, n)
    <3>1. CASE n = 0
      BY <1>3, <2>1, <3>1
    <3>2. CASE n # 0
      <4>1. n \in 1..L /\ n - 1 \in 0..L
        BY <1>2, <3>2
      <4>2. g[n - 1] = Prefix(s, n - 1) /\ g[n] = Prefix(s, n)
        BY <4>1
      <4> QED
        BY <1>4, <3>2, <4>1, <4>2
    <3> QED
      BY <3>1, <3>2
  <2>2. Unfolds(g)
    <3> HIDE DEF Body
    <3> QED
      BY <2>1
  <2> HIDE DEF g
  <2> QED
    BY <2>2
<1>6. Unfolds(r)
  <2> HIDE DEF Unfolds
  <2> QED
    BY <1>5
<1> HIDE DEF r
<1>7. r[0] = <<<<>>>> /\ \A n \in 1..L : r[n] = Longer(r[n - 1], n)
  <2>1. \A n \in 0..L : r[n] = Body(r, n)
    <3> HIDE DEF Body
    <3> QED
      BY <1>6
  <2> QED
    BY <1>2, <2>1
<1> DEFINE G == {n \in Nat : n <= L => r[n] = Prefix(s, n)}
<1>8. 0 \in G
  BY <1>3, <1>7
<1>9. ASSUME NEW n \in Nat, n \in G PROVE n + 1 \in G
  <2> SUFFICES ASSUME n + 1 <= L PROVE r[n + 1] = Prefix(s, n + 1)
    OBVIOUS
  <2>1. n + 1 \in 1..L /\ r[n] = Prefix(s, n) /\ (n + 1) - 1 = n
    BY <1>2, <1>9
  <2>2. r[n + 1] = Longer(r[n], n + 1)
    BY <1>7, <2>1
  <2>3. Longer(Prefix(s, n), n + 1) = Prefix(s, n + 1)
    BY <1>4, <2>1
  <2> QED
    BY <2>1, <2>2, <2>3
<1>10. L \in G
  <2> HIDE DEF G
  <2> QED
    BY <1>2, <1>8, <1>9, SetInduction
<1>11. r[L] = Prefix(s, L)
  BY <1>2, <1>10
<1>12. Prefix(s, L) = s
  BY <1>2 DEF Prefix
<1> QED
  BY <1>1, <1>11, <1>12

(* The fields of an annotated program.                                     *)
LEMMA ShapedFields ==
    ASSUME NEW p, NEW code, NEW lines, NEW data,
           p = [code |-> code, lines |-> lines, data |-> data], NEW r, r = Shaped(p)
    PROVE  /\ r.code = code /\ r.lines = lines /\ r.data = data /\ r.shape = Shape(code)
           /\ \A b, t : t = [r EXCEPT !.typed = b] =>
                 /\ t.code = code /\ t.lines = lines /\ t.data = data
                 /\ t.shape = Shape(code) /\ t.typed = b
<1>1. /\ DOMAIN p = {"code", "lines", "data"}
      /\ p.code = code /\ p.lines = lines /\ p.data = data
  OBVIOUS
<1>2. r = [field \in DOMAIN p \cup {"shape", "typed"} |->
              CASE field = "shape" -> Shape(p.code)
                [] field = "typed" -> TRUE
                [] OTHER -> p[field]]
  BY DEF Shaped
<1>3. /\ DOMAIN r = {"code", "lines", "data", "shape", "typed"}
      /\ r["code"] = p["code"] /\ r["lines"] = p["lines"] /\ r["data"] = p["data"]
      /\ r["shape"] = Shape(p.code)
  BY <1>1, <1>2
<1> QED
  BY <1>1, <1>3

(* Typed code in which all targets are starts.                             *)
Finished(code, s) ==
    /\ code \in Seq(InstType) /\ TypedCode(code, s) /\ Tables(code, 0) /\ OperandsFit(code)
    /\ Landed(code, s, {}) /\ Len(code) < Placeholder

(* The operands of its jumps are the targets.                              *)
LEMMA FinishedLands ==
    ASSUME NEW code, NEW s, Finished(code, s), NEW i \in 1..Len(code), code[i].op \in TargetOps
    PROVE  code[i].arg \in Nat /\ StartIn(code, s, code[i].arg)
<1>1. code \in Seq(InstType) /\ Len(code) \in Nat /\ Len(code) < Placeholder
  BY DEF Finished
<1>2. PICK pc \in Nat : StartIn(code, s, pc) /\ code[i].arg = Operand16(pc)
  BY DEF Finished, Landed, Lands
<1>3. pc <= Len(code)
  BY <1>1, <1>2 DEF StartIn
<1>4. pc < Placeholder
  BY <1>1, <1>3 DEF Placeholder
<1> QED
  BY <1>2, <1>4, PlaceFits

(* The entries of its tables.                                              *)
LEMMA FinishedTables ==
    ASSUME NEW code, NEW s, Finished(code, s), NEW i \in 1..Len(code), code[i].op \in OnOps
    PROVE  /\ code[i].arg \in Nat /\ i + code[i].arg <= Len(code)
           /\ \A k \in 1..code[i].arg :
                 /\ code[i + k].op = "NOP" /\ code[i + k].arg \in Nat
                 /\ StartIn(code, s, code[i + k].arg)
<1>1. code \in Seq(InstType) /\ Len(code) \in Nat /\ Tables(code, 0)
  BY DEF Finished
<1>2. /\ code[i].arg \in Nat /\ i + code[i].arg <= Len(code)
      /\ \A k \in 1..code[i].arg : i + k <= Len(code) => code[i + k].op = "NOP"
  BY <1>1 DEF Tables
<1>3. ASSUME NEW k \in 1..code[i].arg
      PROVE  /\ code[i + k].op = "NOP" /\ code[i + k].arg \in Nat
             /\ StartIn(code, s, code[i + k].arg)
  <2>1. PICK j \in 1..Len(code) : j = i + k
    BY <1>1, <1>2
  <2>2. code[j].op = "NOP"
    BY <1>1, <1>2, <2>1
  <2>3. code[j].op \in TargetOps
    BY <2>2 DEF TargetOps
  <2> QED
    BY <2>1, <2>2, <2>3, FinishedLands
<1> QED
  BY <1>2, <1>3

(* Such code, with its lines, passes the verifier.                         *)
LEMMA FinishedVerifies ==
    ASSUME NEW code, NEW s, Finished(code, s), NEW lines \in LinesType, Starts(code, s, lines),
           NEW data \in Seq(DataEntryType), NEW p, p.code = code, p.lines = lines,
           p.data = data, p.shape = s
    PROVE  WellFormed(p) /\ WellTyped(p)
<1>1. /\ code \in Seq(InstType) /\ Len(code) \in Nat /\ DOMAIN code = 1..Len(code)
      /\ TypedCode(code, s) /\ OperandsFit(code)
  BY DEF Finished
<1>2. ASSUME NEW pc, StartIn(code, s, pc) PROVE StatementStart(p, pc)
  BY <1>1, <1>2 DEF StartIn, StatementStart, InTable
<1>3. ASSUME NEW i \in 1..Len(code) PROVE OperandOK(p, i)
  <2>1. OperandFits(code[i].op, code[i].arg)
    BY <1>1 DEF OperandsFit
  <2>2. code[i].op \in JumpOps => code[i].arg \in Nat
    BY FinishedLands DEF TargetOps
  <2>3. code[i].op \in OnOps =>
           /\ code[i].arg \in Nat /\ i + code[i].arg <= Len(code)
           /\ \A k \in 1..code[i].arg : code[i + k].op = "NOP" /\ code[i + k].arg \in Nat
    BY FinishedTables
  <2>4. code[i].op \in {"PUSH_VAR", "POP_VAR", "STR_PUSH_VAR", "STR_POP_VAR", "FOR_INIT",
                        "DATA_READ_NUM", "DATA_READ_STR", "INPUT_NUM", "INPUT_STR"}
           => code[i].arg \in Slot
    BY <2>1 DEF OperandFits, VariableOps
  <2>5. /\ code[i].op = "PUSH_CONST" => code[i].arg \in Number
        /\ code[i].op = "STR_PUSH" => code[i].arg \in Text
        /\ code[i].op = "INPUT_PROMPT" => code[i].arg \in Text
        /\ code[i].op \in DimOps => code[i].arg \in Slot
        /\ code[i].op \in NumArrayOps => code[i].arg \in Slot \ StringSlot
        /\ code[i].op \in StrArrayOps => code[i].arg \in StringSlot
        /\ code[i].op = "FOR_NEXT" => code[i].arg \in Slot \cup {NoVar}
    BY <2>1 DEF OperandFits
  <2> QED
    BY <2>2, <2>3, <2>4, <2>5 DEF OperandOK
<1>4. WellFormed(p)
  <2>1. \A k \in DOMAIN lines : lines[k].offset \in Nat
    BY LinesTyped
  <2>2. Len(data) \in Nat /\ DOMAIN data = 1..Len(data)
        /\ \A k \in DOMAIN data : data[k] \in DataEntryType
    BY SeqTyped
  <2> QED
    BY <1>1, <1>3, <2>1, <2>2 DEF WellFormed
<1>5. ASSUME NEW i \in 1..Len(code)
      PROVE  /\ Takes(code[i].op, s[i]) /\ s[i + 1] = Leaves(code[i].op, s[i])
             /\ code[i].op \in ControlOps => s[i + 1] = <<>>
             /\ code[i].op \in JumpOps => StatementStart(p, code[i].arg)
             /\ code[i].op \in OnOps => \A k \in 1..code[i].arg :
                                           StatementStart(p, code[i + k].arg)
  <2>1. Step(code[i].op, s[i], s[i + 1])
    BY <1>1 DEF TypedCode
  <2>2. code[i].op \in JumpOps => StatementStart(p, code[i].arg)
    BY <1>2, FinishedLands DEF TargetOps
  <2>3. code[i].op \in OnOps => \A k \in 1..code[i].arg : StatementStart(p, code[i + k].arg)
    BY <1>2, FinishedTables
  <2> QED
    BY <2>1, <2>2, <2>3 DEF Step
<1>6. \A k \in DOMAIN lines : StatementStart(p, lines[k].offset)
  BY <1>2 DEF Starts
<1>7. WellTyped(p)
  <2>1. s[1] = <<>>
    BY <1>1 DEF TypedCode
  <2> QED
    BY <1>1, <1>5, <1>6, <2>1 DEF WellTyped
<1> QED
  BY <1>4, <1>7

(* The program that is handed to the machine.                              *)
LEMMA CodeVerified ==
    ASSUME CompilerInv, CodeInv
    PROVE  CompiledCodeVerifies
<1> SUFFICES ASSUME phase = "compiled", Fits, NEW p \in Annotated({CompiledProgram(cs)})
             PROVE  WellFormed(p) /\ p.typed
  BY DEF CompiledCodeVerifies
<1>1. cs \in StateType /\ todo = <<>>
  BY DEF CompilerInv, TypeInv
<1>2. PICK code, lines, data : code = cs.code /\ lines = cs.lines /\ data = cs.data
  OBVIOUS
<1>3. code \in Seq(InstType) /\ lines \in LinesType /\ data \in Seq(DataEntryType)
  BY <1>1, <1>2, StateFields
<1>4. OwedByIf \cup OwedByFixup = {}
  <2>1. DOMAIN todo = {}
    BY <1>1
  <2>2. Unresolved = {}
    BY DEF Unresolved
  <2> QED
    BY <2>1, <2>2 DEF OwedByIf, OwedByFixup
<1>5. PICK s, due : /\ CodeTyped(code, s, due, <<>>) /\ Starts(code, s, lines)
                    /\ Landed(code, s, {}) /\ OperandsFit(code)
  BY <1>1, <1>2, <1>4 DEF CodeInv
<1>6. /\ TypedCode(code, s) /\ Tables(code, due)
      /\ [stack |-> s[Len(code) + 1], due |-> due] = Empty
  BY <1>5, ChainNone DEF CodeTyped
<1>7. due = 0
  BY <1>6 DEF Empty, At
<1>8. Finished(code, s)
  BY <1>2, <1>3, <1>5, <1>6, <1>7 DEF Finished, Fits
<1>9. Shape(code) = s
  BY <1>3, <1>6, ShapeIs
<1>10. PICK q, r : /\ q = [code |-> code, lines |-> lines, data |-> data] /\ r = Shaped(q)
                   /\ p = [r EXCEPT !.typed = WellTyped(r)]
  BY <1>2 DEF Annotated, CompiledProgram
<1>11. /\ r.code = code /\ r.lines = lines /\ r.data = data /\ r.shape = s
       /\ p.code = code /\ p.lines = lines /\ p.data = data /\ p.shape = s
       /\ p.typed = WellTyped(r)
  BY <1>9, <1>10, ShapedFields
<1>12. WellTyped(r) /\ WellFormed(p)
  BY <1>3, <1>5, <1>8, <1>11, FinishedVerifies
<1> QED
  BY <1>11, <1>12

(* CompiledCodeVerifies: compiled code passes the verifier, of every       *)
(* source whose operands have the types their operators take.  So every    *)
(* path through it leaves the operand stack as the statement found it, and *)
(* all jumps go to where statements start.                                 *)
THEOREM CodeVerifies ==
    ASSUME TypesAgree
    PROVE  CompilerSpec => []CompiledCodeVerifies
<1>1. CompilerInv /\ CodeInv => CompiledCodeVerifies
  BY CodeVerified
<1> QED
  BY <1>1, CodeInvariant, PTL
=============================================================================
