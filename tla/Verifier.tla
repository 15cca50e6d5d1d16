------------------------------- MODULE Verifier -------------------------------
(***************************************************************************)
(* The annotations of a program, computed: the shape of the operand stack  *)
(* before each instruction, and whether the program passes the verifier.   *)
(***************************************************************************)
EXTENDS StackTyping, SequencesExt

(* One pass suffices: a jump is only taken with an empty stack, so the     *)
(* shape before an instruction is what the one before it leaves.           *)
Shape(code) ==
    LET Shapes[n \in 0..Len(code)] ==
            IF n = 0 THEN <<<<>>>>
            ELSE LET shapes == Shapes[n - 1]
                     before == shapes[n]
                 IN  Append(shapes, IF Takes(code[n].op, before)
                                    THEN Leaves(code[n].op, before) ELSE before)
    IN  Shapes[Len(code)]

(* The fields of a program with those of its annotations.                  *)
Shaped(p) ==
    [field \in DOMAIN p \cup {"shape", "typed"} |->
        CASE field = "shape" -> Shape(p.code)
          [] field = "typed" -> TRUE
          [] OTHER -> p[field]]

(* Of a set of programs: a bound variable is evaluated once.               *)
Annotated(programs) ==
    {[p EXCEPT !.typed = WellTyped(p)] : p \in {Shaped(q) : q \in programs}}
=============================================================================
