--------------------------------- MODULE VMIO ---------------------------------
(***************************************************************************)
(* The machine with its input and output: PRINT, INPUT, files, XIO, PEEK   *)
(* and POKE.  Every step of VM is a step here and leaves io alone.         *)
(*                                                                         *)
(* io holds the fields of struct VMState that these handlers use and what  *)
(* they act on: the streams, files and terminal of the C library.  A       *)
(* stream is a place in a file: since no file is explored while two        *)
(* streams have it open, buffers do not show.                              *)
(*                                                                         *)
(* A line of input is a sequence of fields: the texts between its commas,  *)
(* without the blanks around them or the quotes.                           *)
(*                                                                         *)
(* None of these handlers tests trap_triggered after a pop.                *)
(***************************************************************************)
EXTENDS VM, SequencesExt

CONSTANTS
    Format12G(_),     \* sprintf("%.12g", n): Number -> Text
    IsNumeric(_),     \* is_valid_numeric_input of a field
    Consoles(_),      \* the lines that may be typed in to a program
    FileNames,        \* the names a file can be created under
    InitialFiles      \* the files there are: a function from names to bytes

VARIABLE io
ioVars == <<prog, vm, io>>

Channel == 1..7                                  \* file_handles[0] is not used
PrintWidth == 80
Space == <<32>>
NewLine == <<10>>

Byte == 0..255
InputLine == Seq(Text) \ {<<>>}            \* the fields of a line of input
Stream == [file : FileNames, pos : Nat, how : {"rb", "wb", "r+b", "w+b"}]
Closed == [file |-> <<>>, pos |-> 0, how |-> "closed"]     \* NULL

IOState ==
    [handle       : [Channel -> Stream \cup {Closed}],     \* file_handles
     status       : [Channel -> {0, 1, 3, 144, 170}],      \* file_status
     printChannel : 0..7,
     column       : Nat \ {0},                             \* print_column
     afterTab     : BOOLEAN,                               \* print_after_tab
     line         : Seq(Text),           \* the fields at input_ptr
     available    : BOOLEAN,             \* input_available
     opened       : Int,                 \* streams opened and not closed
     screen       : Text,                \* what stdout has shown
     console      : Seq(InputLine),           \* the lines not yet read from stdin
     freedTwice   : BOOLEAN]             \* see OP_XIO
(* Two more fields are partial functions: files, from names to bytes, and  *)
(* memory, from the addresses POKEd to their bytes.                        *)
ScalarFields == {"handle", "status", "printChannel", "column", "afterTab", "line",
                 "available", "opened", "screen", "console", "freedTwice"}

(* What the C library gives back, and what it finds when a program starts. *)
ASSUME IOAssumption ==
    /\ Byte \subseteq Number
    /\ \A n \in Number : Format12G(n) \in Text
    /\ \A p \in Programs : Consoles(p) \subseteq Seq(InputLine)
    /\ DOMAIN InitialFiles \subseteq FileNames
    /\ \A name \in DOMAIN InitialFiles : InitialFiles[name] \in Seq(Byte)

IOInit ==
    /\ Init
    /\ \E console \in Consoles(prog) :
         io = [handle       |-> [c \in Channel |-> Closed],
               status       |-> [c \in Channel |-> 0],
               printChannel |-> 0,
               column       |-> 1,
               afterTab     |-> FALSE,
               line         |-> <<>>,
               available    |-> FALSE,
               memory       |-> <<>>,
               files        |-> InitialFiles,
               opened       |-> 0,
               screen       |-> <<>>,
               console      |-> console,
               freedTwice   |-> FALSE]

(* The machine m ends the instruction, and x is its input and output.      *)
CommitIO(m, x) ==
    /\ vm' = EndInstruction(m)
    /\ io' = x
    /\ UNCHANGED prog

-----------------------------------------------------------------------------
(* The C library.                                                          *)

(* A partial function with one more key, or with a new value, and without. *)
With(f, key, value) ==
    [k \in DOMAIN f \cup {key} |-> IF k = key THEN value ELSE f[k]]
Without(f, key) == [k \in DOMAIN f \ {key} |-> f[k]]

IsOpen(x, c) == c \in Channel /\ x.handle[c] # Closed
Reads(stream)  == stream.how \in {"rb", "r+b", "w+b"}
Writes(stream) == stream.how \in {"wb", "r+b", "w+b"}

(* The content of a file after a write at pos; a gap is filled with zeros. *)
Overwrite(content, pos, bytes) ==
    LET end == pos + Len(bytes)
    IN  [i \in 1..(IF end > Len(content) THEN end ELSE Len(content)) |->
            IF i > pos /\ i <= end THEN bytes[i - pos]
            ELSE IF i <= Len(content) THEN content[i] ELSE 0]

fwrite(x, c, bytes) ==
    IF ~Writes(x.handle[c]) THEN x
    ELSE [x EXCEPT !.files[x.handle[c].file] = Overwrite(@, x.handle[c].pos, bytes),
                   !.handle[c].pos = @ + Len(bytes)]

fclose(x, c) == IF IsOpen(x, c)
                THEN [x EXCEPT !.handle[c] = Closed, !.opened = @ - 1] ELSE x

(* file_handles[c] = fopen(name, how), for a channel that is closed.       *)
fopen(x, c, name, how) ==
    LET creates == how \in {"wb", "w+b"}
        opened  == [x EXCEPT !.handle[c] = [file |-> name, pos |-> 0, how |-> how],
                             !.opened = @ + 1]
    IN  IF creates /\ name \in FileNames
        THEN [opened EXCEPT !.files = With(@, name, <<>>)]
        ELSE IF ~creates /\ name \in DOMAIN x.files THEN opened ELSE x

Deleted(name) == name \o NewLine     \* stands for "File '...' deleted"

(* The bound of the exploration that keeps buffers from showing: the file  *)
(* is open on no other channel.                                            *)
Exclusive(c, name) == \A d \in Channel \ {c} : io.handle[d].file # name

-----------------------------------------------------------------------------
(* PRINT.                                                                  *)

(* vm_get_output_file: a channel that is not open gives stdout.            *)
Output(x, text) ==
    IF IsOpen(x, x.printChannel) THEN fwrite(x, x.printChannel, text)
    ELSE [x EXCEPT !.screen = @ \o text]

Printed(x, text) == [Output(x, text) EXCEPT !.column = @ + Len(text),
                                            !.afterTab = FALSE]

OP_SET_PRINT_CHANNEL ==
    /\ Executing("SET_PRINT_CHANNEL")
    /\ LET chan == vm_pop_number(vm)
       IN  CommitIO(Advance(chan.m),
                    [io EXCEPT !.printChannel = IF chan.v \in 0..7 THEN chan.v ELSE 0])

(* The blank after a number depends on the opcode that follows in the      *)
(* code, which need not be the next to run.                                *)
FollowedByBlank(m) ==
    /\ m.pc + 1 < Len(prog.code)
    /\ prog.code[m.pc + 2].op \notin {"PRINT_NEWLINE", "PRINT_TAB", "PRINT_NOSEP"}

OP_PRINT_NUM ==
    /\ Executing("PRINT_NUM")
    /\ LET value == vm_pop_number(vm)
           sign  == IF io.afterTab THEN <<>> ELSE Space
           blank == IF FollowedByBlank(value.m) THEN Space ELSE <<>>
       IN  CommitIO(Advance(value.m), Printed(io, sign \o Format12G(value.v) \o blank))

(* Mutant: the printed string is not freed. *)
OP_PRINT_STR_Leaks ==
    /\ Executing("PRINT_STR")
    /\ LET str == vm_pop_string(vm)
       IN  CommitIO(Advance(str.m), Printed(io, str.v))

OP_PRINT_STR ==
    /\ Executing("PRINT_STR")
    /\ LET str == vm_pop_string(vm)
       IN  CommitIO(Advance(Free(str.m)), Printed(io, str.v))

OP_PRINT_NEWLINE ==
    /\ Executing("PRINT_NEWLINE")
    /\ CommitIO(Advance(vm), [Output(io, NewLine) EXCEPT !.column = 1,
                                                         !.afterTab = FALSE,
                                                         !.printChannel = 0])

OP_PRINT_SPACE ==
    /\ Executing("PRINT_SPACE")
    /\ CommitIO(Advance(vm), [Output(io, Space) EXCEPT !.afterTab = FALSE])

OP_PRINT_TAB ==
    /\ Executing("PRINT_TAB")
    /\ CommitIO(Advance(vm), [Printed(io, Space) EXCEPT !.afterTab = TRUE])

OP_PRINT_NOSEP ==
    /\ Executing("PRINT_NOSEP")
    /\ CommitIO(Advance(vm), [io EXCEPT !.afterTab = TRUE])

(* The column TAB goes to: at least 1, and within the width of a line.     *)
TargetColumn(n) ==
    IF n < 1 THEN 1
    ELSE IF n % PrintWidth = 0 THEN PrintWidth
    ELSE IF n > PrintWidth THEN n % PrintWidth ELSE n

Blanks(n) == [i \in 1..n |-> 32]

(* Mutant: no new line is needed at the target column itself. *)
OP_TAB_FUNC_Stays ==
    /\ Executing("TAB_FUNC")
    /\ LET target == vm_pop_number(vm)
           column == TargetColumn(target.v)
           skip   == IF io.column > column THEN NewLine ELSE <<>>
           from   == IF io.column > column THEN 1 ELSE io.column
       IN  CommitIO(Advance(target.m),
                    [Output(io, skip \o Blanks(column - from)) EXCEPT
                        !.column = column, !.afterTab = TRUE])

OP_TAB_FUNC ==
    /\ Executing("TAB_FUNC")
    /\ LET target == vm_pop_number(vm)
           column == TargetColumn(target.v)
           skip   == IF io.column >= column THEN NewLine ELSE <<>>
           from   == IF io.column >= column THEN 1 ELSE io.column
       IN  CommitIO(Advance(target.m),
                    [Output(io, skip \o Blanks(column - from)) EXCEPT
                        !.column = column, !.afterTab = TRUE])

-----------------------------------------------------------------------------
(* INPUT.                                                                  *)

OP_INPUT_PROMPT ==
    /\ Executing("INPUT_PROMPT")
    /\ CommitIO(Advance(vm), [io EXCEPT !.screen = @ \o Inst.arg])

Prompt   == <<63, 32>>          \* "? "
Rejected == <<33, 10>>          \* stands for "ERROR - 18" and a new line

(* What a line looks like when it is echoed: its fields and commas.        *)
Typed(line) == FlattenSeq([i \in DOMAIN line |-> (IF i = 1 THEN <<>> ELSE <<44>>)
                                                 \o line[i]]) \o NewLine

(* The lines the next INPUT_ may take a field of: what is left of the      *)
(* current one, then those still to be read.                               *)
Pending(x) == (IF x.available THEN <<x.line>> ELSE <<>>) \o x.console

(* get_next_input_value, after the first k pending lines have been read    *)
(* and dropped: the first field of the next one, and its last field makes  *)
(* the line unavailable.  At the end of stdin the value is empty.          *)
Taken(x, k) ==
    LET lines  == Pending(x)
        last   == IF k < Len(lines) THEN k + 1 ELSE k
        fresh  == IF x.available THEN 2 ELSE 1      \* the first line not yet read
        Read(i) == Prompt \o Typed(lines[i])
        shown  == FlattenSeq([i \in 1..last |->
                                 (IF i >= fresh THEN Read(i) ELSE <<>>)
                                 \o (IF i <= k THEN Rejected ELSE <<>>)])
        eof    == IF k < Len(lines) THEN <<>> ELSE Prompt
        field  == IF k < Len(lines) THEN Head(lines[k + 1]) ELSE <<>>
        rest   == IF k < Len(lines) THEN Tail(lines[k + 1]) ELSE <<>>
    IN  [value |-> field,
         io |-> [x EXCEPT !.screen = @ \o shown \o eof,
                          !.line = rest, !.available = rest # <<>>,
                          !.console = SubSeq(lines, last + 1, Len(lines))]]

(* Of a line only the field at hand is looked at: when it is no number the *)
(* whole line is dropped.  An empty field is taken for 0, but only when it *)
(* ends the line.                                                          *)
Acceptable(line) == IsNumeric(Head(line)) \/ line = << <<>> >>

(* Mutant: a field that is no number is skipped, and not the line.         *)
OP_INPUT_NUM_DropsField ==
    /\ Executing("INPUT_NUM")
    /\ LET lines == Pending(io)
           first == IF lines # <<>> /\ ~Acceptable(lines[1]) /\ Len(lines[1]) > 1
                    THEN Taken([io EXCEPT !.line = Tail(lines[1]),
                                          !.available = TRUE,
                                          !.console = Tail(lines)], 0)
                    ELSE Taken(io, SelectInSeq(lines \o << << <<>> >> >>, Acceptable) - 1)
       IN  CommitIO(Advance([vm EXCEPT !.numVars[Inst.arg] =
                                IF first.value = <<>> THEN 0 ELSE Atof(first.value)]),
                    first.io)

OP_INPUT_NUM ==
    /\ Executing("INPUT_NUM")
    /\ LET rejected == SelectInSeq(Pending(io) \o << << <<>> >> >>, Acceptable) - 1
           taken == Taken(io, rejected)
           n     == IF taken.value = <<>> THEN 0 ELSE Atof(taken.value)
       IN  /\ n \in Number
           /\ CommitIO(Advance([vm EXCEPT !.numVars[Inst.arg] = n]), taken.io)

OP_INPUT_STR ==
    /\ Executing("INPUT_STR")
    /\ LET taken == Taken(io, 0)
       IN  CommitIO(Advance(Alloc(Free([vm EXCEPT !.strVars[Inst.arg] = taken.value]))),
                    taken.io)

-----------------------------------------------------------------------------
(* Files.                                                                  *)

(* Mutant: a handle that is still open is overwritten. *)
OP_OPEN_NoClose ==
    /\ Executing("OPEN")
    /\ LET filename == vm_pop_string(vm)
           aux     == vm_pop_number(filename.m)
           mode    == vm_pop_number(aux.m)
           channel == vm_pop_number(mode.m)
           chan    == channel.v
           Try(x, how) == fopen(x, chan, filename.v, how)
           opened  == IF mode.v = 8 THEN Try(io, "wb") ELSE Try(io, "rb")
       IN  IF chan \notin Channel
           THEN CommitIO(Free(vm_error(channel.m, ERR_BAD_FILE_NUMBER)), io)
           ELSE /\ Exclusive(chan, filename.v)
                /\ CommitIO(Advance(Free(channel.m)),
                            [opened EXCEPT !.status[chan] =
                                IF IsOpen(opened, chan) THEN 1 ELSE 170])

(* Mode 12 creates a file that is not there. *)
OP_OPEN ==
    /\ Executing("OPEN")
    /\ LET filename == vm_pop_string(vm)
           aux     == vm_pop_number(filename.m)
           mode    == vm_pop_number(aux.m)
           channel == vm_pop_number(mode.m)
           chan    == channel.v
           Try(x, how) == fopen(x, chan, filename.v, how)
           closed  == fclose(io, chan)
           updated == Try(closed, "r+b")
           opened  == CASE mode.v = 8  -> Try(closed, "wb")
                        [] mode.v = 12 -> IF IsOpen(updated, chan) THEN updated
                                          ELSE Try(closed, "w+b")
                        [] OTHER       -> Try(closed, "rb")
       IN  IF chan \notin Channel
           THEN CommitIO(Free(vm_error(channel.m, ERR_BAD_FILE_NUMBER)), io)
           ELSE /\ Exclusive(chan, filename.v)
                /\ CommitIO(Advance(Free(channel.m)),
                            [opened EXCEPT !.status[chan] =
                                IF IsOpen(opened, chan) THEN 1 ELSE 170])

OP_CLOSE ==
    /\ Executing("CLOSE")
    /\ LET chan == vm_pop_number(vm)
       IN  CommitIO(Advance(chan.m),
               IF IsOpen(io, chan.v)
               THEN [fclose(io, chan.v) EXCEPT
                        !.status[chan.v] = 1,
                        !.printChannel = IF @ = chan.v THEN 0 ELSE @]
               ELSE io)

(* Mutant: nothing is pushed at the end of the file. *)
OP_GET_PushesNothing ==
    /\ Executing("GET")
    /\ LET chan   == vm_pop_number(vm)
           stream == io.handle[chan.v]
       IN  IF ~IsOpen(io, chan.v)
           THEN CommitIO(vm_error(chan.m, ERR_FILE_NOT_FOUND), io)
           ELSE IF Reads(stream) /\ stream.pos < Len(io.files[stream.file])
           THEN CommitIO(Advance(vm_push_number(chan.m,
                                     io.files[stream.file][stream.pos + 1])),
                         [io EXCEPT !.status[chan.v] = 1,
                                    !.handle[chan.v].pos = @ + 1])
           ELSE CommitIO(Advance(chan.m), [io EXCEPT !.status[chan.v] = 3])

(* A stream that cannot be read is like one at its end. *)
OP_GET ==
    /\ Executing("GET")
    /\ LET chan   == vm_pop_number(vm)
           stream == io.handle[chan.v]
       IN  IF ~IsOpen(io, chan.v)
           THEN CommitIO(vm_error(chan.m, ERR_FILE_NOT_FOUND), io)
           ELSE IF Reads(stream) /\ stream.pos < Len(io.files[stream.file])
           THEN CommitIO(Advance(vm_push_number(chan.m,
                                     io.files[stream.file][stream.pos + 1])),
                         [io EXCEPT !.status[chan.v] = 1,
                                    !.handle[chan.v].pos = @ + 1])
           ELSE CommitIO(Advance(vm_push_number(chan.m, 0)),
                         [io EXCEPT !.status[chan.v] = 3])

(* Mutant: the value is not cut down to a byte. *)
OP_PUT_Wide ==
    /\ Executing("PUT")
    /\ LET value   == vm_pop_number(vm)
           channel == vm_pop_number(value.m)
           chan    == channel.v
       IN  IF ~IsOpen(io, chan)
           THEN CommitIO(vm_error(channel.m, ERR_FILE_NOT_FOUND), io)
           ELSE CommitIO(Advance(channel.m),
                    [fwrite(io, chan, <<value.v>>) EXCEPT
                        !.status[chan] = IF Writes(io.handle[chan]) THEN 1 ELSE 144])

OP_PUT ==
    /\ Executing("PUT")
    /\ LET value   == vm_pop_number(vm)
           channel == vm_pop_number(value.m)
           chan    == channel.v
       IN  IF ~IsOpen(io, chan)
           THEN CommitIO(vm_error(channel.m, ERR_FILE_NOT_FOUND), io)
           ELSE CommitIO(Advance(channel.m),
                    [fwrite(io, chan, <<value.v % 256>>) EXCEPT
                        !.status[chan] = IF Writes(io.handle[chan]) THEN 1 ELSE 144])

SectorSize == 125

OP_NOTE ==
    /\ Executing("NOTE")
    /\ LET chan == vm_pop_number(vm)
           pos  == io.handle[chan.v].pos
       IN  IF ~IsOpen(io, chan.v)
           THEN CommitIO(vm_error(chan.m, ERR_FILE_NOT_FOUND), io)
           ELSE /\ pos \div SectorSize \in Number
                /\ CommitIO(Advance(vm_push_number(vm_push_number(chan.m,
                                pos \div SectorSize), pos % SectorSize)), io)

(* Mutant: sectors of 128 bytes, as on the disks of the day. *)
OP_POINT_128 ==
    /\ Executing("POINT")
    /\ LET byte_pos == vm_pop_number(vm)
           sector   == vm_pop_number(byte_pos.m)
           channel  == vm_pop_number(sector.m)
           chan     == channel.v
           pos      == sector.v * 128 + byte_pos.v
       IN  IF ~IsOpen(io, chan)
           THEN CommitIO(vm_error(channel.m, ERR_FILE_NOT_FOUND), io)
           ELSE CommitIO(Advance(channel.m),
                    IF pos < 0 THEN [io EXCEPT !.status[chan] = 1]
                    ELSE [io EXCEPT !.status[chan] = 0, !.handle[chan].pos = pos])

(* fseek fails for a negative position only. *)
OP_POINT ==
    /\ Executing("POINT")
    /\ LET byte_pos == vm_pop_number(vm)
           sector   == vm_pop_number(byte_pos.m)
           channel  == vm_pop_number(sector.m)
           chan     == channel.v
           pos      == sector.v * SectorSize + byte_pos.v
       IN  IF ~IsOpen(io, chan)
           THEN CommitIO(vm_error(channel.m, ERR_FILE_NOT_FOUND), io)
           ELSE CommitIO(Advance(channel.m),
                    IF pos < 0 THEN [io EXCEPT !.status[chan] = 1]
                    ELSE [io EXCEPT !.status[chan] = 0, !.handle[chan].pos = pos])

OP_STATUS ==
    /\ Executing("STATUS")
    /\ LET chan == vm_pop_number(vm)
       IN  CommitIO(Advance(vm_push_number(chan.m,
                        IF chan.v \in Channel THEN io.status[chan.v] ELSE 1)), io)

-----------------------------------------------------------------------------
(* XIO.  A command that fails frees the name of the device, and so does    *)
(* the end of the handler: the C library may stop the process, or the      *)
(* double free goes unnoticed and the machine goes on, past the first      *)
(* instruction of the trap handler if there is one.                        *)

XIOFailed(m, code, x) ==
    LET failed == vm_error(Free(m), code)
    IN  \/ CommitIO([Free(failed) EXCEPT !.running = FALSE],
                    [x EXCEPT !.freedTwice = TRUE])
        \/ CommitIO(Advance(Free(failed)), [x EXCEPT !.freedTwice = TRUE])

(* Commands 3 and 8 open without a status, and 12 closes without giving    *)
(* the screen back to PRINT.  remove is explored for files not open.       *)
OP_XIO ==
    /\ Executing("XIO")
    /\ LET device  == vm_pop_string(vm)
           aux2    == vm_pop_number(device.m)
           aux1    == vm_pop_number(aux2.m)
           channel == vm_pop_number(aux1.m)
           command == vm_pop_number(channel.m)
           chan    == channel.v
           m       == command.m
           done    == Advance(Free(m))
           closed  == fclose(io, chan)
           opened  == fopen(closed, chan, device.v, IF command.v = 3 THEN "rb" ELSE "wb")
       IN  \/ /\ chan \notin Channel
              /\ CommitIO(vm_error(Free(m), ERR_BAD_FILE_NUMBER), io)
           \/ /\ chan \in Channel /\ command.v \in {3, 8}
              /\ Exclusive(chan, device.v)
              /\ IF IsOpen(opened, chan) THEN CommitIO(done, opened)
                 ELSE XIOFailed(m, IF command.v = 3 THEN ERR_FILE_NOT_FOUND
                                   ELSE ERR_DEVICE_IO, opened)
           \/ /\ chan \in Channel /\ command.v = 12
              /\ CommitIO(done, closed)
           \/ /\ chan \in Channel /\ command.v = 34
              /\ Exclusive(0, device.v)
              /\ IF device.v \in DOMAIN io.files
                 THEN CommitIO(done, [io EXCEPT !.files = Without(@, device.v),
                                                !.screen = @ \o Deleted(device.v)])
                 ELSE XIOFailed(m, ERR_DEVICE_IO, io)
           \/ /\ chan \in Channel /\ command.v \notin {3, 8, 12, 34}
              /\ XIOFailed(m, ERR_ILLEGAL_FUNCTION, io)

-----------------------------------------------------------------------------
(* PEEK and POKE of the simulated memory.  A cell that was never written   *)
(* is 0.                                                                   *)

Address == 0..65535

OP_FUNC_PEEK ==
    /\ Executing("FUNC_PEEK")
    /\ LET addr == vm_pop_number(vm)
       IN  IF addr.v \notin Address
           THEN CommitIO(vm_error(addr.m, ERR_ILLEGAL_FUNCTION), io)
           ELSE CommitIO(Advance(vm_push_number(addr.m,
                    IF addr.v \in DOMAIN io.memory THEN io.memory[addr.v] ELSE 0)), io)

OP_POKE ==
    /\ Executing("POKE")
    /\ LET value == vm_pop_number(vm)
           addr  == vm_pop_number(value.m)
       IN  IF addr.v \notin Address
           THEN CommitIO(vm_error(addr.m, ERR_ILLEGAL_FUNCTION), io)
           ELSE CommitIO(Advance(addr.m),
                         [io EXCEPT !.memory = With(@, addr.v, value.v % 256)])

-----------------------------------------------------------------------------
IOStep ==
    \/ OP_SET_PRINT_CHANNEL \/ OP_PRINT_NUM \/ OP_PRINT_STR \/ OP_PRINT_NEWLINE
    \/ OP_PRINT_SPACE \/ OP_PRINT_TAB \/ OP_PRINT_NOSEP \/ OP_TAB_FUNC
    \/ OP_INPUT_PROMPT \/ OP_INPUT_NUM \/ OP_INPUT_STR
    \/ OP_OPEN \/ OP_CLOSE \/ OP_GET \/ OP_PUT \/ OP_NOTE \/ OP_POINT \/ OP_STATUS
    \/ OP_XIO \/ OP_FUNC_PEEK \/ OP_POKE

IONext == IOStep \/ (Next /\ UNCHANGED io)

IOSpec == IOInit /\ [][IONext]_ioVars

-----------------------------------------------------------------------------
(* Invariants.                                                             *)

(* The fields of io have their types; every byte of a file or of memory is *)
(* one.                                                                    *)
IOTypeOK ==
    /\ [field \in ScalarFields |-> io[field]] \in IOState
    /\ DOMAIN io.files \subseteq FileNames
    /\ \A name \in DOMAIN io.files :
          \A i \in DOMAIN io.files[name] : io.files[name][i] \in Byte
    /\ DOMAIN io.memory \subseteq Address
    /\ \A addr \in DOMAIN io.memory : io.memory[addr] \in Byte

(* Whatever order channels are opened, opened again, closed, and opened by *)
(* XIO in, every stream still open is the handle of exactly one channel:   *)
(* none leaks, none is closed twice.                                       *)
HandlesBalanced == io.opened = Cardinality({c \in Channel : IsOpen(io, c)})

(* No statement of input or output leaves a value on the operand stack or  *)
(* takes one too many, at the end of a file and on a channel that is not   *)
(* open included; up to an XIO that fails, which is undefined behaviour.   *)
IOStackSound == ~io.freedTwice => StackSound

(* The strings they take from the stack are freed once, on every path.     *)
IOHeapBalanced == ~io.freedTwice => HeapBalanced
=============================================================================
