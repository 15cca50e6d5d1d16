------------------------------ MODULE MCPrograms ------------------------------
(***************************************************************************)
(* BASIC programs for the model checker: a notation for parse trees, the   *)
(* compilation of a source, and the stack shapes of its code. *)
(***************************************************************************)
EXTENDS Compilation, Verifier

(* Expressions. *)
N(n)       == [k |-> "num", val |-> n]
T(s)       == [k |-> "str", val |-> s]
V(slot)    == [k |-> "var", slot |-> slot]
Elem(slot, subs) == [k |-> "elem", slot |-> slot, subs |-> subs]
Op(op, args) == [k |-> "op", op |-> op, args |-> args]
Plus(a, b)  == Op("ADD", <<a, b>>)
Minus(a, b) == Op("SUB", <<a, b>>)
Times(a, b) == Op("MUL", <<a, b>>)
Over(a, b)  == Op("DIV", <<a, b>>)
Fn(op, a)   == Op(op, <<a>>)
ERR         == Op("FN_ERR", <<>>)

(* Statements. *)
LetElem(slot, subs, e) == [k |-> "let", slot |-> slot, subs |-> subs, e |-> e]
Let(slot, e)          == LetElem(slot, <<>>, e)
Dim(slot, sizes)      == [k |-> "dim", slot |-> slot, sizes |-> sizes]
IfElse(e, then, else) == [k |-> "if", e |-> e, then |-> then, else |-> else]
If(e, then)           == IfElse(e, <<then>>, <<>>)
Line(n)               == [k |-> "line", line |-> n]
Goto(e)               == [k |-> "goto", target |-> e]
Gosub(e)              == [k |-> "gosub", target |-> e]
OnGoto(e, lines)      == [k |-> "on", gosub |-> FALSE, e |-> e,
                          targets |-> [i \in DOMAIN lines |-> N(lines[i])]]
OnGosub(e, lines)     == [OnGoto(e, lines) EXCEPT !.gosub = TRUE]
ForStep(slot, from, to, step) ==
    [k |-> "for", slot |-> slot, from |-> from, to |-> to, step |-> step]
For(slot, from, to)   == ForStep(slot, from, to, N(1))
NextOf(slots)         == [k |-> "next", slots |-> slots]
Trap(n)               == [k |-> "trap", line |-> n]
Read(slots)           == [k |-> "read", slots |-> slots]
Data(items)           == [k |-> "data", items |-> items]
Restore               == [k |-> "restore", line |-> <<>>]
RestoreTo(n)          == [k |-> "restore", line |-> <<N(n)>>]
Randomize(e)          == [k |-> "random", e |-> e]
Simple(op)            == [k |-> "simple", op |-> op]
Return == Simple("RETURN")
End    == Simple("END")
Pop    == Simple("POP_GOSUB")
Clr    == Simple("CLR")

(* Statements of input and output.                                         *)
PRINT(items)          == [k |-> "print", items |-> items]
Sep(s)                == [k |-> "sep", sep |-> s]
Comma     == Sep(",")
Semicolon == Sep(";")
Tab(n)                == Op("TAB_FUNC", <<N(n)>>)
InputWith(prompt, slots) == [k |-> "input", prompt |-> prompt, slots |-> slots]
Input(slots)          == InputWith(<<>>, slots)
IO(op, args, into)    == [k |-> "io", op |-> op, args |-> args, into |-> into]
Open(c, mode, name)   == IO("OPEN", <<N(c), N(mode), N(0), T(name)>>, <<>>)
Close(c)              == IO("CLOSE", <<N(c)>>, <<>>)
Put(c, value)         == IO("PUT", <<N(c), value>>, <<>>)
Get(c, slot)          == IO("GET", <<N(c)>>, <<slot>>)
Note(c, sector, byte) == IO("NOTE", <<N(c)>>, <<sector, byte>>)
Point(c, sector, byte) == IO("POINT", <<N(c), sector, byte>>, <<>>)
Status(c, slot)       == IO("STATUS", <<N(c)>>, <<slot>>)
Xio(command, c, name) == IO("XIO", <<N(command), N(c), N(0), N(0), T(name)>>, <<>>)
Poke(addr, value)     == IO("POKE", <<addr, value>>, <<>>)
Peek(addr)            == Fn("FUNC_PEEK", addr)

(* Lines 1, 2, ... of one statement each. *)
Lines(stmts) == [i \in DOMAIN stmts |-> [line |-> i, stmt |-> stmts[i]]]

(* Statements of given lines: <<line, statement>> pairs. *)
Source(pairs) == [i \in DOMAIN pairs |-> [line |-> pairs[i][1],
                                          stmt |-> pairs[i][2]]]

(* The expressions and the statements of a program, with all parts of      *)
(* them, and how deep IFs are nested.                                      *)
RECURSIVE PartsOf(_)
PartsOf(e) ==
    {e} \cup CASE e.k = "elem" -> UNION {PartsOf(p) : p \in ToSet(e.subs)}
              [] e.k = "op" -> UNION {PartsOf(p) : p \in ToSet(e.args)}
              [] OTHER -> {}
RECURSIVE StatementsOf(_)
StatementsOf(s) ==
    {s} \cup IF s.k = "if" THEN UNION {StatementsOf(t) : t \in ToSet(s.then \o s.else)} ELSE {}
OperandsOf(s) ==
    CASE s.k = "let" -> {s.e} \cup ToSet(s.subs)
      [] s.k \in {"if", "random"} -> {s.e}
      [] s.k \in {"goto", "gosub"} -> {s.target}
      [] s.k = "on" -> {s.e} \cup ToSet(s.targets)
      [] s.k = "for" -> {s.from, s.to}
      [] s.k = "restore" -> ToSet(s.line)
      [] s.k = "print" -> {e \in ToSet(s.items) : e.k # "sep"}
      [] s.k = "io" -> ToSet(s.args)
      [] OTHER -> {}
RECURSIVE Nesting(_)
Nesting(s) == IF s.k = "if" THEN 1 + Max({0} \cup {Nesting(t) : t \in ToSet(s.then \o s.else)})
              ELSE 0

(* The programs compiled from a set of records that hold a source, with    *)
(* what else the records hold; those that do not compile are left out.     *)
Loaded(described) ==
    Annotated({CompiledProgram(c.cs) @@ c.from :
                  c \in {d \in {[cs |-> compiler_compile(e.source), from |-> e] :
                                 e \in described} : ~d.cs.error}})
Sourced(sources) == {[source |-> s] : s \in sources}

(* %g and atof on the numbers and texts the programs below meet.           *)
Digit(n) == 48 + n
Digits[n \in Nat] == IF n < 10 THEN <<Digit(n)>>
                     ELSE Append(Digits[n \div 10], Digit(n % 10))
MCFormatG(n) == IF n < 0 THEN <<45>> \o Digits[-n] ELSE Digits[n]
MCAtof(s) ==
    IF s # <<>> /\ s[1] \in Digit(0)..Digit(9)
    THEN IF Len(s) > 1 /\ s[2] \in Digit(0)..Digit(9)
         THEN 10 * (s[1] - 48) + (s[2] - 48) ELSE s[1] - 48
    ELSE 0
=============================================================================
