------------------------------- MODULE Grammar -------------------------------
(***************************************************************************)
(* The tables of syntax_tables.c that drive the parser: the rule of each   *)
(* non-terminal, the operators with their precedence and parse actions,    *)
(* the arity of each function, the rule of each statement keyword.         *)
(*                                                                         *)
(* A rule is a sequence of alternatives (SYN_OR), each a sequence of       *)
(* entries: the name of a non-terminal, "VEXP" for an expression, "NULL"   *)
(* for the empty production, or the name of a token, without its TOK_.     *)
(* The tokens of the function STR$ and of the statement CLS have the same  *)
(* number, 0x3D: both are "CSTR" here.                                     *)
(***************************************************************************)
EXTENDS Integers, Sequences, TLC

Empty == << <<"NULL">> >>
EndOnly == << <<"EOS">> >>
OneOf(tokens) == [i \in DOMAIN tokens |-> <<tokens[i]>>]
OneExpression == << <<"VEXP", "EOS">> >>
OptionalExpression == << <<"VEXP", "EOS">>, <<"EOS">> >>

(* Expressions, as far as a rule reaches them: the values of strings, the  *)
(* subscripts of a variable.  Every other expression is VEXP.              *)
ValueRules ==
    "TNVAR" :> OneOf(<<"IDENT">>)
 @@ "NCON"  :> OneOf(<<"NUMBER">>)
 @@ "SCON"  :> OneOf(<<"STRING">>)
 @@ "TSVAR" :> OneOf(<<"IDENT">>)
 @@ "SFUN"  :> << <<"CSTR", "NFP">>, <<"CCHR", "NFP">>,
                  <<"SFNP", "SF2P">>, <<"SFMID", "SF3P">> >>
 @@ "SOP"   :> OneOf(<<"CEQ", "CNE", "CLT", "CGT", "CLE", "CGE">>)
 @@ "NFNP"  :> OneOf(<<"CSIN", "CCOS", "CATN", "CLOG", "CCLOG", "CSQR", "CSGN",
                       "CABS", "CINT", "CEXP_F", "CTAB", "CRND", "CFRE", "CPEEK",
                       "CPADD", "CSTIK", "CPTRG", "CSTRG">>)
 @@ "NFP"   :> << <<"CLPRN", "VEXP", "CRPRN">> >>
 @@ "NFSP"  :> OneOf(<<"CASC", "CVAL", "CLEN", "CADR">>)
 @@ "SFP"   :> << <<"CLPRN", "STR", "CRPRN">> >>
 @@ "SFNP"  :> OneOf(<<"CLEFT", "CRIGHT">>)
 @@ "SF2P"  :> << <<"CLPRN", "STR", "CCOM", "VEXP", "CRPRN">> >>

VariableRules ==
    "SFMID" :> OneOf(<<"CMID">>)
 @@ "SF3P"  :> << <<"CLPRN", "STR", "CCOM", "VEXP", "CCOM", "VEXP", "CRPRN">> >>
 @@ "NFUSR" :> OneOf(<<"CUSR">>)
 @@ "TNCON" :> OneOf(<<"NUMBER">>)
 @@ "NVAR"  :> << <<"TNVAR", "NMAT">> >>
 @@ "NMAT"  :> << <<"CLPRN", "VEXP", "NMAT2", "CRPRN">>, <<"NULL">> >>
 @@ "NMAT2" :> << <<"CCOM", "VEXP">>, <<"NULL">> >>
 @@ "EXP"   :> << <<"CLPRN", "VEXP", "CRPRN", "NOP">>, <<"UNARY", "VEXP">>,
                  <<"NV", "NOP">> >>
 @@ "UNARY" :> OneOf(<<"CPLUS", "CMINUS", "CNOT">>)
 @@ "NV"    :> OneOf(<<"NFUN", "NVAR", "NCON", "STCOMP">>)
 @@ "NOP"   :> << <<"OP", "VEXP">>, <<"NULL">> >>
 @@ "OP"    :> OneOf(<<"CEXP", "CMUL", "CDIV", "CLE", "CGE", "CNE", "CLT", "CGT",
                       "CEQ", "CAND", "COR">>)
 @@ "NFUN"  :> << <<"NFNP", "NFP">>, <<"NFSP", "SFP">>, <<"NFUSR">> >>

StringRules ==
    "STCOMP" :> << <<"STR", "SOP", "STR">> >>
 @@ "STR"    :> OneOf(<<"SFUN", "SVAR", "SCON">>)
 @@ "SVAR"   :> << <<"TSVAR", "SMAT">> >>
 @@ "SMAT"   :> << <<"CLPRN", "VEXP", "SMAT2", "CRPRN">>, <<"NULL">> >>
 @@ "SMAT2"  :> << <<"CCOM", "VEXP">>, <<"NULL">> >>
 @@ "EOS"    :> Empty
 @@ "REM"    :> << <<"REM_BODY", "EOS">> >>
 @@ "REM_BODY" :> Empty
 @@ "LET"    :> << <<"NVAR", "CEQ", "VEXP", "EOS">>, <<"SVAR", "CEQ", "STR", "EOS">> >>
 @@ "PRINT"  :> << <<"CPND", "EXP", "CCOM", "PR1", "EOS">>, <<"PR1", "EOS">> >>
 @@ "PR1"    :> << <<"PES", "PR2">>, <<"NULL">> >>
 @@ "PR2"    :> << <<"PS", "PES", "PR2">>, <<"PS">>, <<"NULL">> >>
 @@ "PEL"    :> Empty
 @@ "PES"    :> OneOf(<<"VEXP", "STR">>)
 @@ "PELA"   :> Empty
 @@ "PSL"    :> Empty
 @@ "PSLA"   :> Empty

(* Mutant: one variable to a NEXT. *)
ControlRules_OneNext ==
    "PS"     :> OneOf(<<"CCOM", "CSC">>)
 @@ "GOTO"   :> OneExpression
 @@ "GOSUB"  :> OneExpression
 @@ "END"    :> EndOnly
 @@ "STOP"   :> EndOnly
 @@ "RETURN" :> EndOnly
 @@ "FOR"    :> << <<"TNVAR", "CEQ", "VEXP", "CTO", "VEXP", "FSTEP", "EOS">> >>
 @@ "FSTEP"  :> << <<"CSTEP", "VEXP">>, <<"NULL">> >>
 @@ "NEXTVL" :> << <<"TNVAR">>, <<"TNVAR", "CCOM", "NEXTVL">> >>
 @@ "NEXT"   :> << <<"NEXTVL", "EOS">>, <<"EOS">> >>
 @@ "IF"     :> << <<"VEXP", "CTHEN", "IFBODY", "IFELSE", "EOS">>,
                   <<"VEXP", "IFBODY", "IFELSE", "EOS">> >>
 @@ "IFBODY" :> OneOf(<<"TNCON", "STATEMENT">>)
 @@ "IFA"    :> OneOf(<<"TNCON", "STATEMENT">>)
 @@ "IFELSE" :> << <<"ELSE", "IFA">>, <<"NULL">> >>

ControlRules ==
    "PS"     :> OneOf(<<"CCOM", "CSC">>)
 @@ "GOTO"   :> OneExpression
 @@ "GOSUB"  :> OneExpression
 @@ "END"    :> EndOnly
 @@ "STOP"   :> EndOnly
 @@ "RETURN" :> EndOnly
 @@ "FOR"    :> << <<"TNVAR", "CEQ", "VEXP", "CTO", "VEXP", "FSTEP", "EOS">> >>
 @@ "FSTEP"  :> << <<"CSTEP", "VEXP">>, <<"NULL">> >>
 @@ "NEXTVL" :> << <<"TNVAR", "CCOM", "NEXTVL">>, <<"TNVAR">> >>
 @@ "NEXT"   :> << <<"NEXTVL", "EOS">>, <<"EOS">> >>
 @@ "IF"     :> << <<"VEXP", "CTHEN", "IFBODY", "IFELSE", "EOS">>,
                   <<"VEXP", "IFBODY", "IFELSE", "EOS">> >>
 @@ "IFBODY" :> OneOf(<<"TNCON", "STATEMENT">>)
 @@ "IFA"    :> OneOf(<<"TNCON", "STATEMENT">>)
 @@ "IFELSE" :> << <<"ELSE", "IFA">>, <<"NULL">> >>

Expressions(n) ==        \* n expressions, with commas between them
    << [i \in 1..(2 * n) |-> IF i = 2 * n THEN "EOS"
                             ELSE IF i % 2 = 1 THEN "VEXP" ELSE "CCOM"] >>

ArgumentRules ==
    "POKE"     :> Expressions(2)
 @@ "GRAPHICS" :> Expressions(1)
 @@ "PLOT"     :> Expressions(2)
 @@ "POSITION" :> Expressions(2)
 @@ "DRAWTO"   :> Expressions(2)
 @@ "SETCOLOR" :> Expressions(3)
 @@ "SOUND"    :> Expressions(4)
 @@ "INPUT"    :> << <<"OPD", "PROMPT", "READ">> >>
 @@ "PROMPT"   :> << <<"STR", "PS">>, <<"NULL">> >>
 @@ "READ"     :> << <<"NSVRL", "EOS">> >>
 @@ "NSVAR"    :> OneOf(<<"NVAR", "SVAR">>)
 @@ "NSVRL"    :> << <<"NSVAR", "NSV2">> >>
 @@ "NSV2"     :> << <<"CCOM", "NSVRL">>, <<"NULL">> >>
 @@ "OPD"      :> << <<"CPND", "D1", "CCOM">>, <<"NULL">> >>
 @@ "D1"       :> OneOf(<<"VEXP">>)

ListRules ==
    "DATA"      :> << <<"DATA_LIST", "EOS">> >>
 @@ "DATA_LIST" :> << <<"DATA_VAL", "DATA_TAIL">> >>
 @@ "DATA_TAIL" :> << <<"CCOM", "DATA_VAL", "DATA_TAIL">>, <<"CCOM", "DATA_TAIL">>,
                      <<"NULL">> >>
 @@ "DATA_VAL"  :> OneOf(<<"NUMBER", "STRING", "IDENT", "CMINUS", "CPLUS">>)
 @@ "RESTORE"   :> OptionalExpression
 @@ "DIM"       :> << <<"NSML", "EOS">> >>
 @@ "NSMAT"     :> << <<"TNVAR", "CLPRN", "VEXP", "NMAT2", "CRPRN">> >>
 @@ "NSML"      :> << <<"NSMAT", "NSML2">> >>
 @@ "NSML2"     :> << <<"CCOM", "NSML">>, <<"NULL">> >>
 @@ "ON"        :> << <<"VEXP", "ON1", "EXPL", "EOS">> >>
 @@ "ON1"       :> OneOf(<<"CGTO", "CGS">>)
 @@ "EXPL"      :> << <<"VEXP", "EXPL1">> >>
 @@ "EXPL1"     :> << <<"CCOM", "EXPL">>, <<"NULL">> >>

SystemRules ==
    "CLR" :> EndOnly @@ "DEG" :> EndOnly @@ "RAD" :> EndOnly @@ "POP" :> EndOnly
 @@ "CONT" :> EndOnly @@ "BYE" :> EndOnly @@ "RUN" :> EndOnly
 @@ "LIST" :> EndOnly @@ "SAVE" :> EndOnly
 @@ "RANDOMIZE" :> OptionalExpression
 @@ "TRAP"      :> OptionalExpression
 @@ "CLEAR"  :> << <<"VEXP", "EOS">>, <<"CCOM", "CLRP1", "EOS">>, <<"EOS">> >>
 @@ "CLRP1"  :> << <<"VEXP", "CLRP2">>, <<"CLRP2">>, <<"NULL">> >>
 @@ "CLRP2"  :> << <<"CCOM", "VEXP">>, <<"CCOM">>, <<"NULL">> >>
 @@ "DEFINT" :> OptionalExpression @@ "DEFLNG" :> OptionalExpression
 @@ "DEFSNG" :> OptionalExpression @@ "DEFDBL" :> OptionalExpression

FileRules ==
    "DEFSTR" :> OptionalExpression
 @@ "CLS"    :> EndOnly
 @@ "GET"    :> << <<"CPND", "D1", "CCOM", "TNVAR", "EOS">> >>
 @@ "PUT"    :> << <<"CPND", "D1", "CCOM", "VEXP", "EOS">> >>
 @@ "OPEN"   :> << <<"CPND", "D1", "CCOM", "VEXP", "CCOM", "VEXP", "CCOM", "STR", "EOS">>,
                   <<"VEXP", "CCOM", "VEXP", "CCOM", "STR", "EOS">> >>
 @@ "CLOSE"  :> << <<"CPND", "D1", "EOS">>, <<"EOS">> >>
 @@ "XIO"    :> << <<"VEXP", "CCOM", "CPND", "D1", "CCOM", "VEXP", "CCOM", "VEXP",
                     "CCOM", "STR", "EOS">> >>
 @@ "STATUS" :> << <<"CPND", "D1", "CCOM", "TNVAR", "EOS">> >>
 @@ "NOTE"   :> << <<"CPND", "D1", "CCOM", "TNVAR", "CCOM", "TNVAR", "EOS">> >>
 @@ "POINT"  :> << <<"CPND", "D1", "CCOM", "VEXP", "CCOM", "VEXP", "EOS">> >>

(* syntax_rule_table. *)
Rules == ValueRules @@ VariableRules @@ StringRules @@ ControlRules @@ ArgumentRules
         @@ ListRules @@ SystemRules @@ FileRules

-----------------------------------------------------------------------------
(* Operators and functions.                                                *)

(* go_on_stack, the precedence of the operators that have a led action.    *)
LedPrecedence ==
    "CEXP" :> 8 @@ "CMUL" :> 5 @@ "CDIV" :> 5 @@ "CPLUS" :> 4 @@ "CMINUS" :> 4
 @@ "CEQ" :> 2 @@ "CLT" :> 2 @@ "CGT" :> 2 @@ "CLE" :> 2 @@ "CGE" :> 2 @@ "CNE" :> 2
 @@ "CAND" :> 1 @@ "COR" :> 1

UnaryOps == {"CPLUS", "CMINUS", "CNOT"}
UnaryPrecedence == 7

(* function_table: the least and the greatest number of arguments.         *)
Arity ==
    [f \in {"CSIN", "CCOS", "CATN", "CEXP_F", "CLOG", "CCLOG", "CSQR", "CABS", "CINT",
            "CSGN", "CRND", "CFRE", "CPEEK", "CPADD", "CSTIK", "CPTRG", "CSTRG",
            "CASC", "CVAL", "CLEN", "CADR", "CSTR", "CCHR", "CTAB"} |-> <<1, 1>>]
 @@ [f \in {"CLEFT", "CRIGHT"} |-> <<2, 2>>] @@ "CMID" :> <<2, 3>> @@ "CERR" :> <<0, 0>>

-----------------------------------------------------------------------------
(* statement_table: the rule of a statement, by the token it starts with.  *)

SameName == {"REM", "LET", "PRINT", "END", "STOP", "RETURN", "FOR", "NEXT", "IF",
             "INPUT", "READ", "DATA", "RESTORE", "DIM", "POKE", "GRAPHICS", "PLOT",
             "POSITION", "DRAWTO", "SETCOLOR", "SOUND", "ON", "CLR", "DEG", "RAD",
             "RANDOMIZE", "POP", "TRAP", "CONT", "BYE", "RUN", "LIST", "SAVE", "CLEAR",
             "DEFINT", "DEFLNG", "DEFSNG", "DEFDBL", "DEFSTR", "GET", "PUT", "OPEN",
             "CLOSE", "XIO", "STATUS", "NOTE", "POINT"}

StatementRule ==
    [t \in SameName |-> t] @@ "QUESTION" :> "PRINT" @@ "CGTO" :> "GOTO"
    @@ "CGS" :> "GOSUB" @@ "CSTR" :> "CLS" @@ "IDENT" :> "LET"

(* What the proofs about the parser take from the tables. *)
ASSUME GrammarAssumption ==
    /\ Rules["IF"] = << <<"VEXP", "CTHEN", "IFBODY", "IFELSE", "EOS">>,
                       <<"VEXP", "IFBODY", "IFELSE", "EOS">> >>
    /\ Rules["IFELSE"] = << <<"ELSE", "IFA">>, <<"NULL">> >>
    /\ {"IFBODY", "IFELSE", "IFA", "EOS"} \subseteq DOMAIN Rules
    /\ {"CTHEN", "ELSE"} \cap DOMAIN Rules = {}
    /\ StatementRule["IF"] = "IF" /\ "CTHEN" \notin DOMAIN StatementRule
=============================================================================
