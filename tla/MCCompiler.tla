----------------------------- MODULE MCCompiler -----------------------------
(***************************************************************************)
(* The compilation of every program of three lines, numbered 10, 20, 30,   *)
(* over a menu of statements that refer to lines backwards, forwards, to   *)
(* themselves and to a line that does not exist, in every place a          *)
(* statement may hold a reference.                                         *)
(***************************************************************************)
EXTENDS Compiler, MCPrograms

MCNumber == 0..60
MCSlot == {"A", "I", "S"}
MCStringSlot == {"S"}

Test == Op("LT", <<V("A"), N(1)>>)

Menu ==
    {Let("A", Plus(V("A"), N(1))), Let("S", Op("STR_LEFT", <<V("S"), N(1)>>)),
     For("I", N(1), V("A")), NextOf(<<"I", "A", "I">>), NextOf(<<>>),
     Read(<<"A", "S">>), Data(<<Num(1), Str(<<9>>), NullData>>), Return, Restore,
     Dim("S", <<2, 3>>), LetElem("A", <<Elem("A", <<N(0), N(1)>>)>>, Elem("A", <<N(2)>>)),
     Goto(Plus(V("A"), N(10))), Randomize(N(1)), Trap(10), Trap(30),
     If(Test, Let("A", N(2))), If(Test, OnGosub(V("A"), <<30, 20>>)),
     IfElse(Test, <<Line(20)>>, <<Let("A", N(1))>>),
     IfElse(Test, <<Line(20), Gosub(N(30))>>, <<Goto(N(30))>>),
     IfElse(Test, <<If(Test, Goto(N(30)))>>, <<IfElse(Test, <<End>>, <<Line(10)>>)>>),
     OnGoto(V("A"), <<10, 30, 20>>), [OnGosub(V("A"), <<20>>) EXCEPT !.targets = <<V("A"), N(20)>>],
     Gosub(V("A")), Gosub(N(20)), Gosub(N(40))}
    \cup {Goto(N(n)) : n \in {10, 20, 30}}
    \cup {If(Test, Line(n)) : n \in {10, 30, 40}}

AllSources ==
    {Source(<<<<10, s>>, <<20, t>>, <<30, u>>>>) : s \in Menu, t \in Menu, u \in Menu}

MCStatementTree == UNION {StatementsOf(s) : s \in Menu}
MCParseTree == UNION {PartsOf(e) : e \in UNION {OperandsOf(s) : s \in MCStatementTree}}
MCDepth == [s \in MCStatementTree |-> Nesting(s)]

ASSUME MenuAssumption == OneStatementALine /\ PlainReferences /\ TypesAgree
=============================================================================
