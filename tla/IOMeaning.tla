------------------------------- MODULE IOMeaning -------------------------------
(***************************************************************************)
(* What PRINT and INPUT do, from the source, with no machine: the          *)
(* reference that compile_print, compile_input and the handlers of VMIO    *)
(* together are checked against.                                           *)
(***************************************************************************)
EXTENDS Integers, Sequences, SequencesExt

-----------------------------------------------------------------------------
(* A run of PRINT statements is a sequence of marks: numbers, texts,       *)
(* commas, TABs and ends of lines, each with the output it goes to.        *)

Mark(k, text, column) == [k |-> k, text |-> text, column |-> column]

(* A PRINT with neither a channel nor an unfinished line to continue goes  *)
(* to the screen.  An unfinished one ends in a separator or a TAB.         *)
Unfinished(marks) == marks # <<>> /\ Last(marks).k \in {"semicolon", "comma", "tab"}
Ended(marks) == IF Unfinished(marks) THEN marks ELSE Append(marks, Mark("end", <<>>, 0))

Marks(prints) ==
    LET OutputOf(i) ==
            LET chosen == {j \in 1..i : /\ prints[j].channel # 0
                                        /\ \A k \in j..(i - 1) : Unfinished(prints[k].marks)}
            IN  IF chosen = {} THEN 0
                ELSE prints[CHOOSE j \in chosen : \A k \in chosen : k <= j].channel
        MarksOf(i) == [j \in DOMAIN Ended(prints[i].marks) |->
                          [out |-> OutputOf(i)] @@ Ended(prints[i].marks)[j]]
    IN  SelectSeq(FlattenSeq([i \in DOMAIN prints |-> MarksOf(i)]),
                  LAMBDA mark : mark.k # "semicolon")

(* The column the next character of a text goes to. *)
Cursor(text) ==
    LET ends == {i \in DOMAIN text : text[i] = 10}
    IN  1 + Len(text) - (IF ends = {} THEN 0
                         ELSE CHOOSE i \in ends : \A j \in ends : j <= i)

Column(n) == IF n < 1 THEN 1 ELSE ((n - 1) % 80) + 1

(* A number has a blank on either side, except next to a comma, after a    *)
(* TAB and at the end of a line.  A comma is a blank.  TAB goes right to   *)
(* its column, on a new line if it is not to the right.                    *)
Piece(marks, i, text) ==
    LET mark == marks[i]
        left == IF i > 1 /\ marks[i - 1].k \in {"comma", "tab"} THEN <<>> ELSE <<32>>
        right == IF i < Len(marks) /\ marks[i + 1].k \in {"comma", "end"} THEN <<>>
                 ELSE <<32>>
        target == Column(mark.column)
        Indent(from) == [n \in 1..(target - from) |-> 32]
    IN  CASE mark.k = "num"   -> left \o mark.text \o right
          [] mark.k = "text"  -> mark.text
          [] mark.k = "comma" -> <<32>>
          [] mark.k = "end"   -> <<10>>
          [] mark.k = "tab"   -> IF Cursor(text) < target THEN Indent(Cursor(text))
                                 ELSE <<10>> \o Indent(1)

(* What an output shows in the end. *)
Layout(marks, out) ==
    FoldLeft(LAMBDA text, i : IF marks[i].out = out THEN text \o Piece(marks, i, text)
                              ELSE text,
             <<>>, [i \in DOMAIN marks |-> i])

-----------------------------------------------------------------------------
(* Input is one sequence of fields, some of which start or end a line.     *)
(* Variables take them in order, whatever statements they stand in, each   *)
(* the first field from where the last one stopped that it accepts, either *)
(* the next field or, when that is refused, the first of a later line.     *)

FieldsOf(console) ==
    FlattenSeq([l \in DOMAIN console |->
        [f \in DOMAIN console[l] |-> [text |-> console[l][f], first |-> f = 1,
                                      last |-> f = Len(console[l])]]])

(* The place a variable takes its field from; past the end, there is none. *)
Place(fields, after, Accepts(_)) ==
    LET offered == {i \in DOMAIN fields : i = after + 1 \/ (i > after /\ fields[i].first)}
        wanted == {i \in offered : Accepts(fields[i])}
    IN  IF wanted = {} THEN Len(fields) + 1
        ELSE CHOOSE i \in wanted : \A j \in wanted : i <= j

(* The fields a sequence of variables takes, <<>> for none. *)
Delivered(console, slots, Accepts(_, _)) ==
    LET fields == FieldsOf(console)
        TakeFor(state, slot) ==
            LET place == Place(fields, state.at, LAMBDA field : Accepts(slot, field))
            IN  [at |-> place,
                 values |-> Append(state.values, IF place > Len(fields) THEN <<>>
                                                 ELSE fields[place].text)]
    IN  FoldLeft(TakeFor, [at |-> 0, values |-> <<>>], slots).values
=============================================================================
