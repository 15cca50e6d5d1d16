------------------------------- MODULE ObjectFile -------------------------------
(***************************************************************************)
(* From a source to the program the machine starts with, by way of the     *)
(* file between the two tools: basset_compile discovers the variables,     *)
(* compiles, and saves (bytecode_file_save); basset_vm loads               *)
(* (bytecode_file_load) and marks the string arrays (vm_init).             *)
(*                                                                         *)
(* A source is the sequence of what its statements refer to: a constant,   *)
(* a variable, a DIM, a DATA item.  A file is a sequence of the items that *)
(* fwrite was given.  The compiler may be stopped in the middle of a save, *)
(* or the disk be full, which fclose does not report: the file then holds  *)
(* the beginning of what was written.  A cut in the middle of an item is   *)
(* to every fread the same as one before it.                               *)
(***************************************************************************)
EXTENDS SymbolTable

CONSTANTS
    Number,      \* the doubles, which go through the file unchanged
    Sources

VARIABLES
    source,      \* the references, [k, name], [k, value] or [k, item]
    next,        \* the reference to visit next
    phase,
    prog,        \* the program being compiled: a CompiledProgram
    disk,        \* the file
    input,       \* how many of its items have been read
    loaded,      \* the program being loaded
    isString     \* arrays[slot].is_string of the machine

compiling == <<source, next, prog>>
loading == <<input, loaded>>
fileVars == <<compiling, phase, disk, loading, isString>>

Text == Seq(1..255)                   \* a C string
Item == [type : {"num"}, num : Number] \cup [type : {"str"}, str : Text]
        \cup [type : {"null"}]
Reference == [k : {"const"}, value : Number] \cup [k : {"string"}, value : Text]
             \cup [k : {"var", "dim"}, name : Text] \cup [k : {"data"}, item : Item]

ASSUME SourceAssumption == Sources \subseteq Seq(Reference)

Blank == [code |-> <<>>, consts |-> <<>>, strings |-> <<>>, vars |-> <<>>,
          lines |-> <<>>, dataNums |-> <<>>, dataStrs |-> <<>>, data |-> <<>>]

FileInit ==
    /\ source \in Sources
    /\ next = 1
    /\ phase = "discover"
    /\ prog = Blank /\ loaded = Blank
    /\ disk = <<>>
    /\ input = 0
    /\ isString = <<>>

-----------------------------------------------------------------------------
(* compiler_compile.                                                       *)

Discover ==
    /\ phase = "discover"
    /\ IF next \in DOMAIN source
       THEN /\ prog' = [prog EXCEPT !.vars = discover_variables(@, source[next])]
            /\ next' = next + 1
            /\ UNCHANGED phase
       ELSE next' = 1 /\ phase' = "compile" /\ UNCHANGED prog
    /\ UNCHANGED <<source, disk, loading, isString>>

Emit(p, operand) == [p EXCEPT !.code = Append(@, operand)]

CompileConst(p, n) ==
    LET q == [p EXCEPT !.consts = Pooled(@, n)]
    IN  Emit(q, IndexIn(q.consts, n))

CompileString(p, s) ==
    LET q == [p EXCEPT !.strings = Pooled(@, s)]
    IN  Emit(q, IndexIn(q.strings, s))

(* A name is looked up, and added when it is not there: past the limit     *)
(* that fails again.                                                       *)
CompileVariable(p, name, type) ==
    LET q == [p EXCEPT !.vars = compiler_add_variable(@, name, type)]
    IN  Emit(q, Operand16(compiler_find_variable(q.vars, name)))

(* DATA numbers and texts have pools of their own, without sharing.        *)
CompileData(p, item) ==
    CASE item.type = "num" ->
           [p EXCEPT !.dataNums = Append(@, item.num),
                     !.data = Append(@, [type |-> "num", idx |-> Len(p.dataNums)])]
      [] item.type = "str" ->
           [p EXCEPT !.dataStrs = Append(@, item.str),
                     !.data = Append(@, [type |-> "str", idx |-> Len(p.dataStrs)])]
      [] item.type = "null" ->
           [p EXCEPT !.data = Append(@, [type |-> "null", idx |-> 0])]

CompileReference(p, ref) ==
    CASE ref.k = "const"  -> CompileConst(p, ref.value)
      [] ref.k = "string" -> CompileString(p, ref.value)
      [] ref.k = "var"    -> CompileVariable(p, ref.name, get_var_type(ref.name))
      [] ref.k = "dim"    -> CompileVariable(p, ref.name, "array")
      [] ref.k = "data"   -> CompileData(p, ref.item)

(* One statement on a line of its own. *)
Compile ==
    /\ phase = "compile" /\ next \in DOMAIN source
    /\ LET entry == [line |-> next, offset |-> Len(prog.code)]
       IN  prog' = CompileReference([prog EXCEPT !.lines = Append(@, entry)], source[next])
    /\ next' = next + 1
    /\ UNCHANGED <<source, phase, disk, loading, isString>>

-----------------------------------------------------------------------------
(* bytecode_file_save.                                                     *)

(* An array is one fwrite, and none when it is empty. *)
WriteArray(a) == <<Len(a)>> \o (IF a = <<>> THEN <<>> ELSE <<a>>)

write_string(s) == WriteArray(s)
WriteStrings(ss) ==
    <<Len(ss)>> \o FlattenSeq([i \in DOMAIN ss |-> write_string(ss[i])])

(* Records go out field by field. *)
WriteVars(vars) ==
    <<Len(vars)>>
    \o FlattenSeq([i \in DOMAIN vars |->
                     write_string(vars[i].name) \o <<vars[i].slot, vars[i].type>>])
WriteLines(lines) ==
    <<Len(lines)>>
    \o FlattenSeq([i \in DOMAIN lines |-> <<lines[i].line, lines[i].offset>>])
WriteData(data) ==
    <<Len(data)>>
    \o FlattenSeq([i \in DOMAIN data |-> <<data[i].type, data[i].idx>>])

Magic == "ABC"
Image(p) ==
    <<Magic>> \o WriteArray(p.code) \o WriteArray(p.consts)
    \o WriteStrings(p.strings) \o WriteVars(p.vars) \o WriteLines(p.lines)
    \o WriteArray(p.dataNums) \o WriteStrings(p.dataStrs) \o WriteData(p.data)

Save ==
    /\ phase = "compile" /\ next \notin DOMAIN source
    /\ \E n \in 0..Len(Image(prog)) : disk' = SubSeq(Image(prog), 1, n)
    /\ phase' = "header"
    /\ UNCHANGED <<compiling, loading, isString>>

-----------------------------------------------------------------------------
(* bytecode_file_load, a section at a time.                                *)

Place == 0..Len(disk)
Datum(at) == disk[at + 1]
Left(at) == Len(disk) - at

(* What a section's reader returns: whether the section was there, what it *)
(* read, where it stopped, and how many entries of its table it had        *)
(* allocated and not yet set.                                              *)
Read(ok, value, at, unset) == [ok |-> ok, value |-> value, at |-> at, unset |-> unset]
ShortRead == Read(FALSE, <<>>, Len(disk), 0)

ReadArray(at) ==
    IF Left(at) = 0 THEN ShortRead
    ELSE IF Datum(at) = 0 THEN Read(TRUE, <<>>, at + 1, 0)
    ELSE IF Left(at + 1) = 0 THEN ShortRead
    ELSE Read(TRUE, Datum(at + 1), at + 2, 0)

read_string(at) == ReadArray(at)

(* A count, then an entry after the other; at the first that is cut short  *)
(* the entries after it are as malloc left them.  entry reads the one at a *)
(* place.                                                                  *)
OneMore(before, this, at, unset) ==
    IF ~before.ok THEN before
    ELSE IF ~this.ok THEN Read(FALSE, <<>>, at, unset)
    ELSE Read(TRUE, Append(before.value, this.value), this.at, 0)

ReadTable(at, entry) ==
    LET count == Datum(at)
        Upto[n \in 0..count] ==
            IF n = 0 THEN Read(TRUE, <<>>, at + 1, 0)
            ELSE OneMore(Upto[n - 1], entry[Upto[n - 1].at], at, count - n)
    IN  IF Left(at) = 0 THEN ShortRead ELSE Upto[count]

ReadPair(at, Make(_, _)) ==
    IF Left(at) < 2 THEN ShortRead
    ELSE Read(TRUE, Make(Datum(at), Datum(at + 1)), at + 2, 0)

ReadVariable(at) ==
    LET name == read_string(at)
    IN  IF ~name.ok THEN ShortRead
        ELSE ReadPair(name.at, LAMBDA slot, type :
                 [name |-> name.value, slot |-> slot, type |-> type])

ReadLine(at) == ReadPair(at, LAMBDA line, offset : [line |-> line, offset |-> offset])

(* Mutant: a DATA entry that is cut short is taken for an empty one. *)
ReadData_Lenient(at) ==
    IF Left(at) < 2 THEN Read(TRUE, [type |-> "null", idx |-> 0], Len(disk), 0)
    ELSE Read(TRUE, [type |-> Datum(at), idx |-> Datum(at + 1)], at + 2, 0)
ReadData(at) == ReadPair(at, LAMBDA type, idx : [type |-> type, idx |-> idx])

(* A section that is there goes into the program; one that is not ends the *)
(* load, which frees the program with the pointers it finds in the table   *)
(* that was being read: undefined, unless they happen to be NULL.          *)
Failures(unset) == IF unset = 0 THEN {"refused"} ELSE {"refused", "undefined"}

Section(here, field, then, read) ==
    /\ phase = here
    /\ IF read.ok
       THEN /\ loaded' = [loaded EXCEPT ![field] = read.value]
            /\ input' = read.at
            /\ phase' = then
       ELSE /\ phase' \in Failures(IF field \in {"strings", "vars", "dataStrs"}
                                   THEN read.unset ELSE 0)
            /\ UNCHANGED loading
    /\ UNCHANGED <<compiling, disk, isString>>

LoadHeader ==
    /\ phase = "header"
    /\ IF disk = <<>> THEN phase' = "refused" /\ UNCHANGED input
       ELSE phase' = "code" /\ input' = 1
    /\ UNCHANGED <<compiling, disk, loaded, isString>>

LoadCode    == Section("code", "code", "consts", ReadArray(input))
LoadConsts  == Section("consts", "consts", "strings", ReadArray(input))
LoadStrings == Section("strings", "strings", "vars",
                       ReadTable(input, [at \in Place |-> read_string(at)]))
LoadVars    == Section("vars", "vars", "lines",
                       ReadTable(input, [at \in Place |-> ReadVariable(at)]))
LoadLines   == Section("lines", "lines", "dataNums",
                       ReadTable(input, [at \in Place |-> ReadLine(at)]))
LoadNums    == Section("dataNums", "dataNums", "dataStrs", ReadArray(input))
LoadStrs    == Section("dataStrs", "dataStrs", "data",
                       ReadTable(input, [at \in Place |-> read_string(at)]))
LoadData    == Section("data", "data", "loaded",
                       ReadTable(input, [at \in Place |-> ReadData(at)]))

-----------------------------------------------------------------------------
(* vm_init.                                                                *)

(* Only the lowest byte of a variable's type is read; the others are as    *)
(* malloc left them.                                                       *)
TypesInMemory(v) == {v.type, "garbage"}

(* Mutant: the types alone tell. *)
IsStringArray_ByType(v, type) == type = "string"
IsStringArray(v, type) == type = "string" \/ Dollar \in ToSet(v.name)

VMInit ==
    /\ phase = "loaded"
    /\ \E types \in [DOMAIN loaded.vars -> VarType \cup {"garbage"}] :
          /\ \A i \in DOMAIN types : types[i] \in TypesInMemory(loaded.vars[i])
          /\ isString' = [i \in DOMAIN types |-> IsStringArray(loaded.vars[i], types[i])]
    /\ phase' = "ready"
    /\ UNCHANGED <<compiling, disk, loading>>

FileNext ==
    \/ Discover \/ Compile \/ Save
    \/ LoadHeader \/ LoadCode \/ LoadConsts \/ LoadStrings \/ LoadVars
    \/ LoadLines \/ LoadNums \/ LoadStrs \/ LoadData
    \/ VMInit

(* main of basset_compile, then main of basset_vm. *)
FileSpec == FileInit /\ [][FileNext]_fileVars
-----------------------------------------------------------------------------
(* Properties.                                                             *)

Named(refs) == {refs[i].name : i \in {j \in DOMAIN refs : refs[j].k \in {"var", "dim"}}}

(* The source has no more names of numbers, and of strings, than there may *)
(* be variables; arrays past their own limit count as plain variables.     *)
WithinLimits ==
    LET strings == {name \in Named(source) : get_var_type(name) = "string"}
    IN  /\ Cardinality(strings) <= MaxStringVars
        /\ Cardinality(Named(source) \ strings) <= MaxNumericVars

DataItem(p, entry) ==
    CASE entry.type = "num"  -> [type |-> "num", num |-> p.dataNums[entry.idx + 1]]
      [] entry.type = "str"  -> [type |-> "str", str |-> p.dataStrs[entry.idx + 1]]
      [] entry.type = "null" -> [type |-> "null"]

(* How many of the first n statements are DATA items. *)
DataUpTo(n) == Cardinality({i \in 1..n : source[i].k = "data"})

(* In the program that the machine has loaded, the operand of every        *)
(* instruction stands for what its statement wrote: that constant, that    *)
(* text, the variable of that name, and each DATA item is in its turn.     *)
(* The slots and the indices were given out by the compiler, before later  *)
(* names and constants, and went through the file apart from the tables    *)
(* that they point into.                                                   *)
OperandsResolve ==
    phase \in {"loaded", "ready"} /\ WithinLimits =>
        /\ \A i \in DOMAIN source :
              LET ref == source[i]
                  operand == loaded.code[loaded.lines[i].offset + 1]
              IN  CASE ref.k = "const"  -> loaded.consts[operand + 1] = ref.value
                    [] ref.k = "string" -> loaded.strings[operand + 1] = ref.value
                    [] ref.k \in {"var", "dim"} -> loaded.vars[operand + 1].name = ref.name
                    [] ref.k = "data" -> TRUE
        /\ Len(loaded.data) = DataUpTo(Len(source))
        /\ \A i \in DOMAIN source : source[i].k = "data" =>
              DataItem(loaded, loaded.data[DataUpTo(i)]) = source[i].item

(* A file that was cut short, anywhere, is not taken for a program: what   *)
(* the machine starts with is the whole of what the compiler saved.        *)
LoadedIsSaved == phase \in {"loaded", "ready"} => loaded = prog

(* The machine's arrays know whether they hold strings, though a DIM gives *)
(* a string array the type of any array, and a type comes out of the file  *)
(* with three bytes of it undefined.                                       *)
StringArraysMarked ==
    phase = "ready" =>
        \A i \in DOMAIN loaded.vars :
            isString[i] <=> get_var_type(loaded.vars[i].name) = "string"
=============================================================================
