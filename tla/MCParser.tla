------------------------------- MODULE MCParser -------------------------------
(***************************************************************************)
(* Lines for the parser: a sentence for each rule of the grammar with      *)
(* every way to drop, replace or insert one token; expressions of up to    *)
(* seven tokens; and programs of three lines, some of them out of order or *)
(* in error.                                                               *)
(***************************************************************************)
EXTENDS Derivation

I == "IDENT"
X == "NUMBER"
S == "STRING"
C == "CCOM"

Tok(t) == [t |-> t, v |-> IF t = X THEN 1 ELSE 0]
NumberedLine(n, types) ==
    <<[t |-> X, v |-> n]>> \o [i \in DOMAIN types |-> Tok(types[i])] \o <<Tok("CCR")>>
OneLine(types) == NumberedLine(1, types)

Sentences ==
    {<<I, "CEQ", S>>, <<"LET", I, "CLPRN", X, C, X, "CRPRN", "CEQ", I>>,
     <<"PRINT", X, "CSC", S, C>>, <<"PRINT", "CPND", X, C, I>>, <<"QUESTION">>,
     <<"CGTO", X>>, <<"CGS", I>>,
     <<"FOR", I, "CEQ", X, "CTO", X, "CSTEP", X>>, <<"NEXT", I, C, I>>,
     <<"IF", X, "CTHEN", X, "ELSE", X>>,
     <<"IF", X, "CTHEN", "NEXT", "CEOS", "END", "CEOS", "ELSE", "NEXT">>,
     <<"IF", X, "CGTO", X>>,
     <<"IF", X, "CTHEN", "IF", X, "CTHEN", "END", "ELSE", I, "CEQ", X, "ELSE", "END">>,
     <<"IF", "CSIN", "CLPRN", X, "CRPRN", "CTHEN", "INPUT", I>>,
     <<"POKE", X, C, X>>, <<"SETCOLOR", X, C, X, C, X>>,
     <<"INPUT", I, C, I>>, <<"INPUT", S, "CSC", I>>, <<"INPUT", "CPND", X, C, I>>,
     <<"READ", I, "CLPRN", X, "CRPRN", C, I>>, <<"DATA", X, C, C, "CMINUS">>,
     <<"RESTORE">>, <<"TRAP", X>>, <<"CLEAR", C, X, C, X>>,
     <<"DIM", I, "CLPRN", X, "CRPRN", C, I, "CLPRN", X, C, X, "CRPRN">>,
     <<"ON", I, "CGTO", X, C, X>>, <<"ON", I, "CGS", X>>,
     <<"GET", "CPND", X, C, I>>, <<"PUT", "CPND", X, C, X>>, <<"CLOSE", "CPND", X>>,
     <<"OPEN", "CPND", X, C, X, C, X, C, "CSTR", "CLPRN", X, "CRPRN">>,
     <<"XIO", X, C, "CPND", X, C, X, C, X, C, S>>,
     <<"NOTE", "CPND", X, C, I, C, I>>, <<"CSTR">>, <<"REM", "ELSE">>,
     <<I, "CEQ", "CMID", "CLPRN", S, C, X, C, X, "CRPRN">>, <<I, "CEQ", "CERR">>}

(* The tokens put in the place of another. *)
Intruders == {I, X, S, C, "CEOS", "ELSE", "CTHEN", "CLPRN", "CRPRN", "CMINUS", "CEQ",
              "CPND", "NEXT"}

Edited(s) ==
    {RemoveAt(s, i) : i \in DOMAIN s}
    \cup {ReplaceAt(s, i, t) : i \in DOMAIN s, t \in Intruders}
    \cup {InsertAt(s, i, t) : i \in 1..(Len(s) + 1), t \in Intruders}

LongExpressions == {<<X>> \o e \o <<X>> : e \in
    UNION {[1..n -> {X, "CMINUS", "CMUL", "CEXP", "CAND", "CNOT"}] : n \in 2..5}}
Parenthesized == {<<a, "CLPRN", X, b, X, "CRPRN", c, X>> :
    a \in {"CMINUS", "CNOT", "CPLUS"}, b \in {"CPLUS", "CLT"}, c \in {"CMUL", "CEXP", "COR"}}

(* Programs: lines with numbers, without, or with two statements. *)
ShortLines == {NumberedLine(n, s) : n \in {0, 1, 2, 40000},
                                    s \in {<<"END">>, <<"CEOS", "END", "CEOS", "CGTO", X>>,
                                           <<"END", "CEOS", "CGTO", "CEOS", "END">>}}
              \cup {<<Tok("END"), Tok("CCR")>>, <<Tok("CCR")>>}
ThreeLines == {a \o b \o Front(c) : a \in ShortLines, b \in ShortLines,
                                    c \in {NumberedLine(n, <<"END">>) : n \in 0..2}}

MCInputs ==
    {OneLine(s) : s \in Sentences \cup UNION {Edited(s) : s \in Sentences}}
    \cup {OneLine(<<I, "CEQ">> \o e) : e \in LongExpressions \cup Parenthesized}
    \cup ThreeLines
=============================================================================
