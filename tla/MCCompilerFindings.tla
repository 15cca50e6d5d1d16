-------------------------- MODULE MCCompilerFindings --------------------------
(***************************************************************************)
(* Sources that compile to something else than the documents say.          *)
(***************************************************************************)
EXTENDS Compiler, MCPrograms

MCNumber == 0..60
MCSlot == {"A", "I", "S"}
MCStringSlot == {"S"}

(* Lines of several statements: every way to put five statements, the      *)
(* first of them a jump or a call, on lines 10, 20 and 30.                 *)
Numberings == {n \in [1..5 -> {10, 20, 30}] : \A i \in 1..4 : n[i] <= n[i + 1]}

Step(slot) == Let(slot, Plus(V(slot), N(1)))

MultiStatementSources ==
    {[i \in 1..5 |-> [line |-> n[i],
                      stmt |-> <<jump, Step("A"), Step("I"), Step("A"), Return>>[i]]] :
        n \in Numberings, jump \in {Gosub(N(20)), Goto(N(20)), OnGoto(N(1), <<20>>)}}

MCStatementTree == {s.stmt : s \in UNION {ToSet(source_) : source_ \in MultiStatementSources}}
MCParseTree == UNION {PartsOf(e) : e \in UNION {OperandsOf(s) : s \in MCStatementTree}}
MCDepth == [s \in MCStatementTree |-> 0]

(* README.md, "Multi-statement lines (colon separator)": a reference to a  *)
(* line that the source has is to the first statement of it.               *)
LandsOnFirstStatement == ReferencesResolved
=============================================================================
