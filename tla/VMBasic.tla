-------------------------------- MODULE VMBasic --------------------------------
(***************************************************************************)
(* The compiled program on the machine implements its source: a refinement *)
(* mapping from the states of VM to those of Basic.                        *)
(*                                                                         *)
(* A pc stands for a place in the source: that of the statement whose code *)
(* it is in.  A program carries its source and the places of all its pcs.  *)
(***************************************************************************)
EXTENDS VM, Compilation

Place(pc) == prog.places[pc + 1]
Nowhere == [rest |-> <<>>, next |-> 0]

Listing == INSTANCE Basic WITH
    source  <- prog.source,
    at      <- IF CanExecute THEN Place(vm.pc) ELSE Nowhere,
    numVars <- vm.numVars,
    strVars <- vm.strVars,
    calls   <- [i \in DOMAIN vm.callStack |-> Place(vm.callStack[i])],
    loops   <- [i \in DOMAIN vm.forStack |->
                  [vm.forStack[i] EXCEPT !.start = Place(@)]],
    data    <- vm.dataPointer,
    trap    <- IF Armed THEN Place(vm.trapLine) ELSE Nowhere,
    err     <- vm.errorCode

-----------------------------------------------------------------------------
(* The places of a source's code, from the number of instructions its      *)
(* parts are compiled to.                                                  *)

SizeOf(stmt) == CodeLen(Finish(NewCompilerState, <<Statement(stmt)>>))
SizeOfTest(e) == CodeLen(Finish(NewCompilerState, <<Expression(e)>>)) + 1

(* READ and NEXT have an instruction for each variable.                    *)
RECURSIVE PlacesOf(_, _, _, _)
PlacesOf(src, stmt, tail, next) ==
    LET At(stmts) == Listing!Then(src, stmts \o tail, next)
        Same(n) == [i \in 1..n |-> At(<<stmt>>)]
        OfList(stmts) ==
            FlattenSeq([i \in DOMAIN stmts |->
                PlacesOf(src, stmts[i], SubSeq(stmts, i + 1, Len(stmts)) \o tail, next)])
    IN  IF stmt.k = "if"
        THEN Same(SizeOfTest(stmt.e)) \o OfList(stmt.then)
             \o (IF stmt.else = <<>> THEN <<>> ELSE <<At(<<>>)>>)
             \o OfList(stmt.else)
        ELSE IF stmt.k \in {"read", "next"} /\ stmt.slots # <<>>
        THEN [i \in DOMAIN stmt.slots |->
                 At(<<[stmt EXCEPT !.slots = SubSeq(@, i, Len(@))]>>)]
        ELSE Same(SizeOf(stmt))

Places(src) ==
    FlattenSeq([i \in DOMAIN src |-> PlacesOf(src, src[i].stmt, <<>>, i + 1)])
    \o <<Nowhere>>

WithPlaces(programs) == {p @@ [places |-> Places(p.source)] : p \in programs}

-----------------------------------------------------------------------------
(* Every instruction is a part of the one statement its source has there,  *)
(* or does the whole of it: the program computes the values its source     *)
(* says, goes where its source goes, calls, loops, reads and traps alike.  *)
ImplementsBasic == Listing!Spec
=============================================================================
