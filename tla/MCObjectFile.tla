----------------------------- MODULE MCObjectFile -----------------------------
(***************************************************************************)
(* Every source of at most three references, and of four variables, under  *)
(* limits that such sources reach and pass, with the file cut anywhere.    *)
(***************************************************************************)
EXTENDS ObjectFile

Const(n)    == [k |-> "const", value |-> n]
Literal(s)  == [k |-> "string", value |-> s]
Var(name)   == [k |-> "var", name |-> name]
DimOf(name) == [k |-> "dim", name |-> name]
Data(item)  == [k |-> "data", item |-> item]

A  == <<65>>
AB == <<65, 66>>
C  == <<67>>
S  == <<83, 36>>

Refs == {Const(1), Const(2), Literal(<<>>), Literal(<<9>>), Var(A), Var(S), DimOf(S),
         Data([type |-> "num", num |-> 1]), Data([type |-> "str", str |-> <<9>>]),
         Data([type |-> "null"])}

VarRefs == {Var(A), Var(AB), Var(C), Var(S), DimOf(AB), DimOf(S)}

MCSources == UNION {[1..n -> Refs] : n \in 0..3} \cup [1..4 -> VarRefs]
=============================================================================
