-------------------------------- MODULE MCVMIO --------------------------------
(***************************************************************************)
(* Programs of input and output: runs of PRINT statements on the screen    *)
(* and on a channel; INPUT statements with every small console; files and  *)
(* memory written at one place and read at another; and channels opened,   *)
(* used and closed in any order, with a trap on the errors.                *)
(***************************************************************************)
EXTENDS VMIO, MCPrograms, IOMeaning

MCNumber == (-3..260) \cup {300, 65535, 65536}
MCSlot == {"A", "B", "C", "S"}
MCStringSlot == {"S"}

F == <<70>>
G == <<71>>
Nowhere == <<47>>                \* a name no file can be created under
MCFileNames == {F, G}
MCInitialFiles == F :> <<5, 6>>

MCIsNumeric(s) == s # <<>> /\ \A i \in DOMAIN s : s[i] \in Digit(0)..Digit(9)

(* A source, and what the properties of its family need to know of it.     *)
Described(source, family, rest) ==
    [source |-> source, family |-> family] @@ rest @@ [console |-> <<>>]
MCConsoles(p) == {p.console}

-----------------------------------------------------------------------------
(* Up to three PRINT statements, after channel 1 has been opened.  A       *)
(* statement is a channel and marks; expressions are chosen so that a      *)
(* channel can be told from an item (see HasChannel).                      *)

NumMark(n)   == Mark("num", MCFormatG(n), n)
TextMark(s)  == Mark("text", s, 0)
CommaMark    == Mark("comma", <<>>, 0)
SemiMark     == Mark("semicolon", <<>>, 0)
TabMark(n)   == Mark("tab", <<>>, n)

ItemOf(mark) == CASE mark.k = "num"       -> N(mark.column)
                  [] mark.k = "text"      -> T(mark.text)
                  [] mark.k = "comma"     -> Comma
                  [] mark.k = "semicolon" -> Semicolon
                  [] mark.k = "tab"       -> Tab(mark.column)

PrintOf(print) ==
    PRINT((IF print.channel = 0 THEN <<>> ELSE <<N(print.channel)>>)
          \o [i \in DOMAIN print.marks |-> ItemOf(print.marks[i])])

Printing(channel, marks) == [channel |-> channel, marks |-> marks]
WordMark == TextMark(<<97, 98>>)

OnScreen == {Printing(0, marks) : marks \in
                {<<>>, <<NumMark(7)>>, <<NumMark(7), SemiMark>>, <<WordMark>>,
                 <<NumMark(7), CommaMark>>,
                 <<WordMark, SemiMark, NumMark(12), CommaMark, NumMark(3)>>,
                 <<NumMark(7), SemiMark, WordMark, SemiMark>>}}
Tabbed == {Printing(0, marks) : marks \in
              {<<TabMark(3)>>, <<TabMark(4), SemiMark, WordMark>>,
               <<TabMark(0), SemiMark, NumMark(1)>>,
               <<TabMark(5), SemiMark, NumMark(7), SemiMark>>,
               <<WordMark, SemiMark, TabMark(83), SemiMark, WordMark, SemiMark>>}}
OnChannel == {Printing(1, marks) : marks \in
                {<<NumMark(7)>>, <<WordMark, SemiMark>>, <<NumMark(12), CommaMark>>}}

PrintProgram(prints) ==
    Described(Lines(<<Open(1, 8, G)>> \o [i \in DOMAIN prints |-> PrintOf(prints[i])]
                    \o <<End>>),
              "print", [marks |-> Marks(prints)])

PrintPrograms ==
    {PrintProgram(prints) :
        prints \in [1..3 -> OnScreen \cup OnChannel] \cup [1..2 -> OnScreen \cup Tabbed]}

(* The screen and the file in the end show what the source says, whatever  *)
(* of the separators, channels and TABs of a statement acts on the next.   *)
PrintedAsWritten ==
    ~CanExecute /\ prog.family = "print" =>
        /\ io.screen = Layout(prog.marks, 0)
        /\ io.files[G] = Layout(prog.marks, 1)

-----------------------------------------------------------------------------
(* Up to three variables, in one INPUT statement or in several, and every  *)
(* console of at most two lines of at most two fields.                     *)

Fields == {<<55>>, <<120>>, <<>>}
TypedLines == {<<f>> : f \in Fields} \cup {<<f, g>> : f \in Fields, g \in Fields}
SmallConsoles == {<<>>} \cup {<<l>> : l \in TypedLines}
                 \cup {<<l, m>> : l \in TypedLines, m \in TypedLines}

Groupings == {<< <<"A">> >>, << <<"A", "B">> >>, << <<"A">>, <<"B">> >>,
              << <<"S", "A">> >>, << <<"A">>, <<"S">>, <<"B">> >>,
              << <<"A", "S">>, <<"B">> >>, << <<"A", "B", "C">> >>}

InputStatements(groups) ==
    Lines([i \in DOMAIN groups |-> InputWith(IF i = 1 THEN <<>> ELSE <<F>>, groups[i])]
          \o <<End>>)

InputPrograms ==
    {Described(InputStatements(groups), "input",
               [slots |-> FlattenSeq(groups), console |-> console]) :
        groups \in Groupings, console \in SmallConsoles}

AcceptedAs(slot, field) ==
    slot \in StringSlot \/ MCIsNumeric(field.text) \/ (field.text = <<>> /\ field.last)

(* Each variable has the field the source gives it: nothing typed ahead is *)
(* lost or given twice between two statements, also when a line has been   *)
(* refused half way.                                                       *)
InputDelivers ==
    ~CanExecute /\ prog.family = "input" =>
        LET texts == Delivered(prog.console, prog.slots, AcceptedAs)
        IN  \A i \in DOMAIN prog.slots :
              IF prog.slots[i] \in StringSlot
              THEN vm.strVars[prog.slots[i]] = texts[i]
              ELSE vm.numVars[prog.slots[i]] = MCAtof(texts[i])

-----------------------------------------------------------------------------
(* Two writes and a read, each at a place of its own, in the file F or in  *)
(* memory.  A program carries the writes, as pairs <<place, value>>, and   *)
(* the place read.                                                         *)

Sectors == {<<0, 0>>, <<0, 1>>, <<0, 125>>, <<1, 0>>, <<1, 1>>}
Position(at) == 125 * at[1] + at[2]
PointAt(at) == Point(1, N(at[1]), N(at[2]))

(* After the writes the place is noted and visited again with POINT.       *)
FileProgram(mode, w1, w2, r, value) ==
    Described(Lines(<<Open(1, mode, F), PointAt(w1), Put(1, N(value)),
                      PointAt(w2), Put(1, N(44)), PointAt(r), Note(1, "A", "B"),
                      Close(1), Open(1, 4, F), Point(1, V("A"), V("B")),
                      Get(1, "C"), End>>),
              "places",
              [before |-> IF mode = 12 THEN MCInitialFiles[F] ELSE <<>>,
               writes |-> <<<<Position(w1), value>>, <<Position(w2), 44>>>>,
               read   |-> Position(r)])

MemoryProgram(w1, w2, r, value) ==
    Described(Lines(<<Poke(N(w1), N(value)), Poke(N(w2), N(44)),
                      Let("C", Peek(N(r))), End>>),
              "places",
              [before |-> <<>>,
               writes |-> <<<<w1, value>>, <<w2, 44>>>>, read |-> r])

PlacePrograms ==
    {FileProgram(mode, w1, w2, r, value) : mode \in {8, 12},
        w1 \in Sectors, w2 \in Sectors, r \in Sectors, value \in {9, 300}}
    \cup {MemoryProgram(w1, w2, r, value) : w1 \in {0, 5, 65535},
             w2 \in {0, 65535}, r \in {0, 5, 65535}, value \in {9, 300}}

(* GET and PEEK give the low byte of what was last put at that place, else *)
(* what was there before, else 0.                                          *)
ReadsLastWrite ==
    ~CanExecute /\ prog.family = "places" =>
        LET here == {i \in DOMAIN prog.writes : prog.writes[i][1] = prog.read}
        IN  vm.numVars["C"] =
                IF 2 \in here THEN prog.writes[2][2] % 256
                ELSE IF 1 \in here THEN prog.writes[1][2] % 256
                ELSE IF prog.read < Len(prog.before) THEN prog.before[prog.read + 1]
                ELSE 0

-----------------------------------------------------------------------------
(* Channels in any order: a first OPEN, then any two of the statements     *)
(* below, under a trap whose handler prints and closes, and without one.    *)

Uses ==
    {Open(1, 4, F), Open(1, 8, F), Open(1, 4, G), Open(2, 8, G), Open(9, 4, F),
     Close(1), Close(9), Get(1, "A"), Put(1, N(300)), Put(2, N(1)),
     Note(1, "A", "B"), Point(1, N(0), N(1)), Point(1, N(0), N(-1)),
     Status(1, "A"), Status(9, "A"),
     PRINT(<<N(1), T(F), Semicolon>>), PRINT(<<T(F)>>),
     Xio(3, 1, F), Xio(3, 1, G), Xio(8, 2, G), Xio(8, 1, Nowhere), Xio(12, 1, F),
     Xio(34, 1, F), Xio(5, 1, F), Xio(3, 9, F),
     Poke(N(65536), N(1)), Let("A", Peek(N(-1)))}

ChannelProgram(trapped, first, second, third) ==
    Described(Lines(<<IF trapped THEN Trap(6) ELSE Restore, first, second, third, End,
                      PRINT(<<T(F)>>), Close(1), End>>),
              "channels", <<>>)

ChannelPrograms ==
    {ChannelProgram(start[1], start[2], second, third) :
        start \in {<<TRUE, Open(1, 12, G)>>, <<FALSE, Open(1, 4, F)>>},
        second \in Uses, third \in Uses}

(* The two opcodes the compiler never emits. *)
RawPrograms ==
    {[code |-> <<Instruction("PUSH_CONST", n), Instruction("PRINT_NUM", 0),
                 Instruction(op, 0), Instruction("PUSH_CONST", 3),
                 Instruction("PRINT_NUM", 0), Instruction("PRINT_NEWLINE", 0)>>,
      lines |-> <<>>, data |-> <<>>, family |-> "raw", console |-> <<>>] :
        n \in {1, 12}, op \in {"PRINT_SPACE", "PRINT_NOSEP"}}

IOPrograms ==
    Loaded(PrintPrograms \cup InputPrograms \cup PlacePrograms \cup ChannelPrograms)
    \cup Annotated(RawPrograms)
=============================================================================
