--------------------------------- MODULE Basic ---------------------------------
(***************************************************************************)
(* The language, as its source reads: a program is a sequence of           *)
(* statements with line numbers, and one step does one statement.  There   *)
(* is no bytecode, no pc and no operand stack.  It is what the compiler    *)
(* and the virtual machine together are to implement (see VMBasic).        *)
(*                                                                         *)
(* It keeps what the implementation decides where the documents are        *)
(* silent: a FOR always opens a loop of its own, whose body is run at      *)
(* least once; NEXT looks at the innermost loop only; an ON out of range   *)
(* goes on; and a caught RETURN without GOSUB starts the program again.    *)
(***************************************************************************)
EXTENDS Meaning, SequencesExt

VARIABLES
    source,    \* records [line, stmt]: see Codegen for the statements
    at,        \* the place of the statement to do next
    numVars,
    strVars,
    calls,     \* the places that open GOSUBs return to
    loops,     \* the open FORs: [var, limit, step, start]
    data,      \* how many DATA items have been read
    trap,      \* the place errors go to, or Nowhere
    err        \* the code of the last error

memory == <<numVars, strVars>>
control == <<calls, loops>>
basicVars == <<source, at, memory, control, data, trap, err>>

(* A place: what is left to do of an entry of the source, and the entry    *)
(* that follows.                                                           *)
Nowhere == [rest |-> <<>>, next |-> 0]

(* The place where entry i starts.  DATA is nothing to do.                 *)
Start(src, i) ==
    LET entries == {j \in i..Len(src) : src[j].stmt.k # "data"}
        first   == CHOOSE j \in entries : \A k \in entries : j <= k
    IN  IF entries = {} THEN Nowhere
        ELSE [rest |-> <<src[first].stmt>>, next |-> first + 1]

Then(src, rest, next) == IF rest = <<>> THEN Start(src, next)
                         ELSE [rest |-> rest, next |-> next]

Doing(k) == at # Nowhere /\ Head(at.rest).k = k
Statement == Head(at.rest)
Follow(stmts) == Then(source, stmts \o Tail(at.rest), at.next)
After == Follow(<<>>)

IsLine(n) == \E i \in DOMAIN source : source[i].line = n
LineStart(n) == Start(source, CHOOSE i \in DOMAIN source :
                                 /\ source[i].line = n
                                 /\ \A j \in 1..(i - 1) : source[j].line # n)

Items(src) ==
    FlattenSeq([i \in DOMAIN src |-> IF src[i].stmt.k = "data" THEN src[i].stmt.items
                                     ELSE <<>>])

Init ==
    /\ at = Start(source, 1)
    /\ numVars = [s \in Slot |-> 0]
    /\ strVars = [s \in Slot |-> <<>>]
    /\ calls = <<>> /\ loops = <<>>
    /\ data = 0
    /\ trap = Nowhere
    /\ err = ERR_NONE

-----------------------------------------------------------------------------
(* An error takes the program to the trap, which is then off, and changes  *)
(* nothing else; with no trap the program stops.                           *)
Fail(code) ==
    /\ err' = code
    /\ at' = trap
    /\ trap' = Nowhere
    /\ UNCHANGED <<source, memory, control, data>>

Evaluate(e, Use(_)) ==
    \E v \in Values(e, numVars, strVars, err) :
        IF v.type = "failure" THEN Fail(v.code) ELSE Use(v)

Let ==
    /\ Doing("let")
    /\ Evaluate(Statement.e, LAMBDA v :
           /\ IF Statement.slot \in StringSlot
              THEN /\ strVars' = [strVars EXCEPT ![Statement.slot] = v.str]
                   /\ UNCHANGED numVars
              ELSE /\ numVars' = [numVars EXCEPT ![Statement.slot] = v.num]
                   /\ UNCHANGED strVars
           /\ at' = After
           /\ UNCHANGED <<source, control, data, trap, err>>)

If ==
    /\ Doing("if")
    /\ Evaluate(Statement.e, LAMBDA v :
           /\ at' = Follow(IF v.num # 0 THEN Statement.then ELSE Statement.else)
           /\ UNCHANGED <<source, memory, control, data, trap, err>>)

(* GOTO, GOSUB, and a line number after THEN or ELSE.                      *)
Branch(n, returns) ==
    IF ~IsLine(n % 65536) THEN Fail(ERR_UNDEFINED_LINE)
    ELSE /\ at' = LineStart(n % 65536)
         /\ calls' = calls \o returns
         /\ UNCHANGED <<source, memory, loops, data, trap, err>>

Goto  == Doing("goto") /\ Evaluate(Statement.target, LAMBDA v : Branch(v.num, <<>>))
Gosub == Doing("gosub") /\ Evaluate(Statement.target,
                                    LAMBDA v : Branch(v.num, <<After>>))
GotoLine == Doing("line") /\ Branch(Statement.line, <<>>)

On ==
    /\ Doing("on")
    /\ Evaluate(Statement.e, LAMBDA v :
           IF v.num \in DOMAIN Statement.targets
           THEN Branch(Statement.targets[v.num].val,
                       IF Statement.gosub THEN <<After>> ELSE <<>>)
           ELSE at' = After /\ UNCHANGED <<source, memory, control, data, trap, err>>)

Simple(op) == Doing("simple") /\ Statement.op = op

Return ==
    /\ Simple("RETURN")
    /\ IF calls # <<>>
       THEN /\ at' = Last(calls)
            /\ calls' = Front(calls)
            /\ UNCHANGED <<source, memory, loops, data, trap, err>>
       ELSE /\ err' = ERR_RETURN_WITHOUT_GOSUB
            /\ at' = IF trap = Nowhere THEN Nowhere ELSE Start(source, 1)
            /\ trap' = Nowhere
            /\ UNCHANGED <<source, memory, control, data>>

Pop ==
    /\ Simple("POP_GOSUB")
    /\ calls' = IF calls = <<>> THEN calls ELSE Front(calls)
    /\ at' = After
    /\ UNCHANGED <<source, memory, loops, data, trap, err>>

End ==
    /\ Simple("END") \/ Simple("STOP")
    /\ at' = Nowhere
    /\ UNCHANGED <<source, memory, control, data, trap, err>>

For ==
    /\ Doing("for")
    /\ Evaluate(Statement.from, LAMBDA from :
       Evaluate(Statement.to,   LAMBDA limit :
       Evaluate(Statement.step, LAMBDA step :
           /\ numVars' = [numVars EXCEPT ![Statement.slot] = from.num]
           /\ loops' = Append(loops, [var   |-> Statement.slot,
                                      limit |-> limit.num,
                                      step  |-> step.num,
                                      start |-> After])
           /\ at' = After
           /\ UNCHANGED <<source, strVars, calls, data, trap, err>>)))

(* NEXT of several variables does one after the other.                     *)
Next1 ==
    /\ Doing("next")
    /\ LET slots == Statement.slots
           loop  == Last(loops)
           value == numVars[loop.var] + loop.step
           over  == IF loop.step > 0 THEN value > loop.limit ELSE value < loop.limit
           onward == Follow(IF Len(slots) < 2 THEN <<>>
                            ELSE <<[Statement EXCEPT !.slots = Tail(slots)]>>)
       IN  IF loops = <<>> THEN Fail(ERR_NEXT_WITHOUT_FOR)
           ELSE IF slots # <<>> /\ Head(slots) # loop.var THEN Fail(ERR_FOR_NEXT_MISMATCH)
           ELSE /\ numVars' = [numVars EXCEPT ![loop.var] = value]
                /\ IF over THEN loops' = Front(loops) /\ at' = onward
                   ELSE at' = loop.start /\ UNCHANGED loops
                /\ UNCHANGED <<source, strVars, calls, data, trap, err>>

(* READ, one variable at a time. *)
Read ==
    /\ Doing("read")
    /\ LET slot == Head(Statement.slots)
           item == Items(source)[data + 1]
           onward == Follow(IF Len(Statement.slots) < 2 THEN <<>>
                            ELSE <<[Statement EXCEPT !.slots = Tail(@)]>>)
       IN  IF data = Len(Items(source)) THEN Fail(ERR_OUT_OF_DATA)
           ELSE /\ data' = data + 1
                /\ IF slot \in StringSlot
                   THEN /\ strVars' = [strVars EXCEPT ![slot] =
                              CASE item.type = "str"  -> item.str
                                [] item.type = "num"  -> FormatG(item.num)
                                [] item.type = "null" -> <<>>]
                        /\ UNCHANGED numVars
                   ELSE /\ numVars' = [numVars EXCEPT ![slot] =
                              CASE item.type = "num"  -> item.num
                                [] item.type = "str"  -> Atof(item.str)
                                [] item.type = "null" -> 0]
                        /\ UNCHANGED strVars
                /\ at' = onward
                /\ UNCHANGED <<source, control, trap, err>>

Restore ==
    /\ Doing("restore") /\ Statement.line = <<>>
    /\ data' = 0
    /\ at' = After
    /\ UNCHANGED <<source, memory, control, trap, err>>

(* RANDOMIZE, DEG and RAD change what only the library can see.            *)
Randomize ==
    /\ Doing("random")
    /\ Evaluate(Statement.e, LAMBDA v :
           at' = After /\ UNCHANGED <<source, memory, control, data, trap, err>>)
Angle ==
    /\ Simple("DEG") \/ Simple("RAD")
    /\ at' = After
    /\ UNCHANGED <<source, memory, control, data, trap, err>>

Trap ==
    /\ Doing("trap")
    /\ trap' = LineStart(Statement.line)
    /\ at' = After
    /\ UNCHANGED <<source, memory, control, data, err>>

Next == \/ Let \/ If \/ Goto \/ Gosub \/ GotoLine \/ On \/ Return \/ Pop \/ End
        \/ For \/ Next1 \/ Read \/ Restore \/ Randomize \/ Angle \/ Trap

Spec == Init /\ [][Next]_basicVars
=============================================================================
