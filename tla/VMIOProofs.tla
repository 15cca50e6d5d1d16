------------------------------ MODULE VMIOProofs ------------------------------
(***************************************************************************)
(* Theorems about the machine with its input and output, for every         *)
(* program, console and set of files.                                      *)
(*                                                                         *)
(* The fields of io keep their types, and every stream still open belongs  *)
(* to one channel, for any bytecode.  A program that the verifier passes   *)
(* keeps the shape of its operand stack and the balance of its strings,    *)
(* as in VMProofs, until an XIO fails.                                *)
(***************************************************************************)
EXTENDS VMIO, VMProofs

-----------------------------------------------------------------------------
(* Texts put together.                                                     *)

(* The texts of a sequence, one after the other, are a text.  The function *)
(* that FlattenSeq defines by recursion exists: each of its prefixes does. *)
LEMMA FlattenText ==
    ASSUME NEW seqs \in Seq(Text)
    PROVE  FlattenSeq(seqs) \in Text
<1> DEFINE n == Len(seqs)
           Unfolds(m, g) == g = [i \in 1..m |-> IF i = 1 THEN seqs[i]
                                                 ELSE g[i - 1] \o seqs[i]]
<1>1. n \in Nat /\ \A i \in 1..n : seqs[i] \in Text
  OBVIOUS
<1>2. CASE n = 0
  <2>1. seqs = <<>>
    BY <1>2
  <2>2. <<>> \in Text
    BY DEF Text
  <2> QED
    BY <1>2, <2>1, <2>2 DEF FlattenSeq
<1>3. CASE n # 0
  <2>1. ASSUME NEW m \in Nat PROVE \E g : Unfolds(m, g)
    <3> DEFINE bad == {k \in Nat : ~ \E g : Unfolds(k, g)}
    <3> SUFFICES ASSUME bad # {} PROVE FALSE
      OBVIOUS
    <3>1. bad \in SUBSET Nat
      OBVIOUS
    <3> HIDE DEF bad
    <3>2. PICK k \in bad : \A y \in bad : k <= y
      BY <3>1, LeastNat
    <3>3. k \in Nat /\ ~ \E g : Unfolds(k, g)
      BY <3>2 DEF bad
    <3>4. CASE k = 0
      <4>1. Unfolds(0, [i \in 1..0 |-> <<>>])
        OBVIOUS
      <4> QED
        BY <3>3, <3>4, <4>1
    <3>5. CASE k # 0
      <4>1. k - 1 \in Nat /\ k - 1 \notin bad
        BY <3>2, <3>3, <3>5
      <4>2. PICK g : Unfolds(k - 1, g)
        BY <4>1 DEF bad
      <4> DEFINE last == IF k = 1 THEN seqs[k] ELSE g[k - 1] \o seqs[k]
                 longer == [i \in 1..k |-> IF i = k THEN last ELSE g[i]]
      <4>3. ASSUME NEW i \in 1..k
            PROVE  longer[i] = IF i = 1 THEN seqs[i] ELSE longer[i - 1] \o seqs[i]
        <5>1. CASE i = k
          BY <3>3, <5>1
        <5>2. CASE i # k
          <6>1. i \in 1..(k - 1)
            BY <3>3, <5>2
          <6>2. g[i] = IF i = 1 THEN seqs[i] ELSE g[i - 1] \o seqs[i]
            BY <4>2, <6>1
          <6>3. i # 1 => i - 1 \in 1..k /\ i - 1 # k
            BY <3>3
          <6> QED
            BY <5>2, <6>2, <6>3
        <5> QED
          BY <5>1, <5>2
      <4>4. Unfolds(k, longer)
        BY <4>3
      <4> QED
        BY <3>3, <4>4
    <3> QED
      BY <3>4, <3>5
  <2> DEFINE flatten == CHOOSE g : Unfolds(n, g)
  <2>2. Unfolds(n, flatten)
    BY <1>1, <2>1
  <2>3. FlattenSeq(seqs) = flatten[n]
    BY <1>3 DEF FlattenSeq
  <2> DEFINE bad == {k \in Nat : k \in 1..n /\ flatten[k] \notin Text}
  <2>4. bad = {}
    <3> SUFFICES ASSUME bad # {} PROVE FALSE
      OBVIOUS
    <3>1. bad \in SUBSET Nat
      OBVIOUS
    <3> HIDE DEF bad, flatten
    <3>2. PICK k \in bad : \A y \in bad : k <= y
      BY <3>1, LeastNat
    <3>3. k \in 1..n /\ flatten[k] \notin Text
      BY <3>2 DEF bad
    <3>4. flatten[k] = IF k = 1 THEN seqs[k] ELSE flatten[k - 1] \o seqs[k]
      BY <2>2, <3>3
    <3>5. CASE k = 1
      BY <1>1, <3>3, <3>4, <3>5
    <3>6. CASE k # 1
      <4>1. k - 1 \in Nat /\ k - 1 \in 1..n /\ k - 1 \notin bad
        BY <1>1, <3>2, <3>3, <3>6
      <4>2. flatten[k - 1] \in Text
        BY <4>1 DEF bad
      <4>3. flatten[k - 1] \o seqs[k] \in Text
        BY <1>1, <3>3, <4>2 DEF Text
      <4> QED
        BY <3>3, <3>4, <3>6, <4>3
    <3> QED
      BY <3>5, <3>6
  <2>5. n \in 1..n /\ n \in Nat
    BY <1>1, <1>3
  <2>6. n \notin bad
    BY <2>4
  <2>7. flatten[n] \in Text
    BY <2>5, <2>6
  <2> QED
    BY <2>3, <2>7
<1> QED
  BY <1>2, <1>3

-----------------------------------------------------------------------------
(* The fields of io.                                                       *)

OpenChannels(handle) == {c \in Channel : handle[c] # Closed}
OpenFiles(handle) == {handle[c].file : c \in OpenChannels(handle)}

FileTable(f) == /\ DOMAIN f \subseteq FileNames
                /\ \A name \in DOMAIN f : f[name] \in Seq(Byte)
MemoryTable(f) == /\ DOMAIN f \subseteq Address
                  /\ \A addr \in DOMAIN f : f[addr] \in Byte

(* What the handlers keep: the types of the fields, each stream that is    *)
(* open is the handle of one channel, and its file exists.  freed stands   *)
(* for freedTwice.                                                         *)
LegalIO(x, freed) ==
    /\ DOMAIN x = ScalarFields \cup {"files", "memory"}
    /\ x.handle \in [Channel -> Stream \cup {Closed}]
    /\ x.opened = Cardinality(OpenChannels(x.handle))
    /\ OpenFiles(x.handle) \subseteq DOMAIN x.files
    /\ x.status \in [Channel -> {0, 1, 3, 144, 170}]
    /\ x.printChannel \in 0..7
    /\ x.column \in Nat \ {0}
    /\ x.afterTab \in BOOLEAN
    /\ x.line \in Seq(Text)
    /\ x.available \in BOOLEAN
    /\ x.available => x.line # <<>>
    /\ x.screen \in Text
    /\ x.console \in Seq(InputLine)
    /\ x.freedTwice \in BOOLEAN /\ x.freedTwice = freed
    /\ FileTable(x.files) /\ MemoryTable(x.memory)

(* A field that gets a new value leaves the others as they are.            *)
LEMMA FieldLegal ==
    ASSUME NEW x, NEW freed, LegalIO(x, freed)
    PROVE  /\ \A v \in [Channel -> {0, 1, 3, 144, 170}] :
                 LegalIO([x EXCEPT !.status = v], freed)
           /\ \A v \in 0..7 : LegalIO([x EXCEPT !.printChannel = v], freed)
           /\ \A v \in Nat \ {0} : LegalIO([x EXCEPT !.column = v], freed)
           /\ \A v \in BOOLEAN : LegalIO([x EXCEPT !.afterTab = v], freed)
           /\ \A v \in Text : LegalIO([x EXCEPT !.screen = v], freed)
           /\ LegalIO([x EXCEPT !.freedTwice = TRUE], TRUE)
<1>1. \A v \in [Channel -> {0, 1, 3, 144, 170}] :
         LegalIO([x EXCEPT !.status = v], freed)
  BY DEF LegalIO, ScalarFields
<1>2. \A v \in 0..7 : LegalIO([x EXCEPT !.printChannel = v], freed)
  BY DEF LegalIO, ScalarFields
<1>3. \A v \in Nat \ {0} : LegalIO([x EXCEPT !.column = v], freed)
  BY DEF LegalIO, ScalarFields
<1>4. \A v \in BOOLEAN : LegalIO([x EXCEPT !.afterTab = v], freed)
  BY DEF LegalIO, ScalarFields
<1>5. \A v \in Text : LegalIO([x EXCEPT !.screen = v], freed)
  BY DEF LegalIO, ScalarFields
<1>6. LegalIO([x EXCEPT !.freedTwice = TRUE], TRUE)
  BY DEF LegalIO, ScalarFields
<1> QED
  BY <1>1, <1>2, <1>3, <1>4, <1>5, <1>6

(* The files, of which those that are open stay. *)
LEMMA FilesLegal ==
    ASSUME NEW x, NEW freed, LegalIO(x, freed),
           NEW f, FileTable(f), OpenFiles(x.handle) \subseteq DOMAIN f
    PROVE  LegalIO([x EXCEPT !.files = f], freed)
BY DEF LegalIO, ScalarFields

LEMMA MemoryLegal ==
    ASSUME NEW x, NEW freed, LegalIO(x, freed), NEW f, MemoryTable(f)
    PROVE  LegalIO([x EXCEPT !.memory = f], freed)
BY DEF LegalIO, ScalarFields

(* The lines of input. *)
LEMMA LinesLegal ==
    ASSUME NEW x, NEW freed, LegalIO(x, freed),
           NEW line \in Seq(Text), NEW available \in BOOLEAN, available = (line # <<>>),
           NEW console \in Seq(InputLine)
    PROVE  LegalIO([x EXCEPT !.line = line, !.available = available,
                             !.console = console], freed)
BY DEF LegalIO, ScalarFields

(* The handles, with their number. *)
LEMMA HandleLegal ==
    ASSUME NEW x, NEW freed, LegalIO(x, freed),
           NEW handle \in [Channel -> Stream \cup {Closed}],
           OpenFiles(handle) \subseteq DOMAIN x.files,
           NEW n, n = Cardinality(OpenChannels(handle))
    PROVE  LegalIO([x EXCEPT !.handle = handle, !.opened = n], freed)
BY DEF LegalIO, ScalarFields

-----------------------------------------------------------------------------
(* The C library.                                                          *)

(* A stream is not the closed one. *)
LEMMA StreamOpen == Closed \notin Stream
BY DEF Closed, Stream

(* Where a stream is opened, or moved, its channel is one of those open;   *)
(* where it is closed it is not.                                           *)
LEMMA OpenFinite ==
    ASSUME NEW handle
    PROVE  /\ IsFiniteSet(OpenChannels(handle))
           /\ Cardinality(OpenChannels(handle)) \in Nat
<1>1. IsFiniteSet(Channel)
  <2>1. 1 \in Int /\ 7 \in Int
    OBVIOUS
  <2> QED
    BY <2>1, FS_Interval, Zenon DEF Channel
<1>2. OpenChannels(handle) \subseteq Channel
  BY DEF OpenChannels
<1> QED
  BY <1>1, <1>2, FS_Subset, FS_CardinalityType

LEMMA OpenOne ==
    ASSUME NEW handle \in [Channel -> Stream \cup {Closed}], NEW c \in Channel,
           NEW s \in Stream, NEW new, new = [handle EXCEPT ![c] = s]
    PROVE  /\ new \in [Channel -> Stream \cup {Closed}]
           /\ Cardinality(OpenChannels(new))
                = Cardinality(OpenChannels(handle)) + (IF handle[c] = Closed THEN 1 ELSE 0)
           /\ OpenFiles(new) \subseteq OpenFiles(handle) \cup {s.file}
<1> DEFINE open == OpenChannels(handle)
<1>1. /\ new \in [Channel -> Stream \cup {Closed}] /\ new[c] = s
      /\ \A d \in Channel : d # c => new[d] = handle[d]
  OBVIOUS
<1>2. s # Closed
  BY StreamOpen
<1>3. OpenChannels(new) = open \cup {c}
  BY <1>1, <1>2 DEF OpenChannels
<1>4. OpenFiles(new) \subseteq OpenFiles(handle) \cup {s.file}
  BY <1>1 DEF OpenChannels, OpenFiles
<1>5. c \in open <=> handle[c] # Closed
  BY DEF OpenChannels
<1>6. IsFiniteSet(open) /\ Cardinality(open) \in Nat
  BY OpenFinite
<1> HIDE DEF open
<1>7. Cardinality(open \cup {c})
        = IF c \in open THEN Cardinality(open) ELSE Cardinality(open) + 1
  BY <1>6, FS_AddElement, Zenon
<1>8. Cardinality(open \cup {c})
        = Cardinality(open) + (IF handle[c] = Closed THEN 1 ELSE 0)
  BY <1>5, <1>6, <1>7
<1> QED
  BY <1>1, <1>3, <1>4, <1>8 DEF open

LEMMA CloseOne ==
    ASSUME NEW handle \in [Channel -> Stream \cup {Closed}], NEW c \in Channel,
           handle[c] # Closed, NEW new, new = [handle EXCEPT ![c] = Closed]
    PROVE  /\ new \in [Channel -> Stream \cup {Closed}] /\ new[c] = Closed
           /\ Cardinality(OpenChannels(new)) = Cardinality(OpenChannels(handle)) - 1
           /\ OpenFiles(new) \subseteq OpenFiles(handle)
<1> DEFINE open == OpenChannels(handle)
<1>1. /\ new \in [Channel -> Stream \cup {Closed}] /\ new[c] = Closed
      /\ \A d \in Channel : d # c => new[d] = handle[d]
  OBVIOUS
<1>2. OpenChannels(new) = open \ {c}
  BY <1>1 DEF OpenChannels
<1>3. OpenFiles(new) \subseteq OpenFiles(handle)
  BY <1>1 DEF OpenChannels, OpenFiles
<1>4. c \in open
  BY DEF OpenChannels
<1>5. IsFiniteSet(open)
  BY OpenFinite
<1> HIDE DEF open
<1>6. Cardinality(open \ {c})
        = IF c \in open THEN Cardinality(open) - 1 ELSE Cardinality(open)
  BY <1>5, FS_RemoveElement, Zenon
<1> QED
  BY <1>1, <1>2, <1>3, <1>4, <1>6 DEF open

(* The fields that the functions of the library read.                      *)
LEMMA HandleFields ==
    ASSUME NEW x, NEW freed, LegalIO(x, freed), NEW c, IsOpen(x, c)
    PROVE  /\ c \in Channel /\ x.handle \in [Channel -> Stream \cup {Closed}]
           /\ x.handle[c] \in Stream /\ x.handle[c] # Closed
           /\ x.handle[c].pos \in Nat /\ x.handle[c].file \in FileNames
           /\ x.handle[c].file \in OpenFiles(x.handle)
           /\ x.handle[c].file \in DOMAIN x.files
           /\ x.files[x.handle[c].file] \in Seq(Byte)
<1>1. /\ c \in Channel /\ x.handle \in [Channel -> Stream \cup {Closed}]
      /\ x.handle[c] # Closed
  BY DEF LegalIO, IsOpen
<1>2. x.handle[c] \in Stream
  BY <1>1
<1>3. x.handle[c].file \in OpenFiles(x.handle)
  BY <1>1 DEF OpenFiles, OpenChannels
<1>4. x.handle[c].file \in DOMAIN x.files
  BY <1>3 DEF LegalIO
<1>5. x.files[x.handle[c].file] \in Seq(Byte)
  BY <1>4 DEF LegalIO, FileTable
<1> QED
  BY <1>1, <1>2, <1>3, <1>4, <1>5 DEF Stream

(* A stream that moves stays on its channel. *)
LEMMA MoveLegal ==
    ASSUME NEW x, NEW freed, LegalIO(x, freed), NEW c, IsOpen(x, c), NEW pos \in Nat
    PROVE  LegalIO([x EXCEPT !.handle[c].pos = pos], freed)
<1> DEFINE stream == [x.handle[c] EXCEPT !.pos = pos]
           handle == [x.handle EXCEPT ![c] = stream]
<1>1. /\ c \in Channel /\ x.handle \in [Channel -> Stream \cup {Closed}]
      /\ x.handle[c] \in Stream /\ x.handle[c] # Closed
      /\ x.handle[c].file \in DOMAIN x.files
  BY HandleFields
<1>2. stream \in Stream /\ stream.file = x.handle[c].file
  BY <1>1 DEF Stream
<1> HIDE DEF stream
<1>3. /\ handle \in [Channel -> Stream \cup {Closed}]
      /\ Cardinality(OpenChannels(handle))
           = Cardinality(OpenChannels(x.handle))
             + (IF x.handle[c] = Closed THEN 1 ELSE 0)
      /\ OpenFiles(handle) \subseteq OpenFiles(x.handle) \cup {stream.file}
  BY <1>1, <1>2, OpenOne
<1>6. Cardinality(OpenChannels(x.handle)) \in Nat
  BY OpenFinite
<1>4. /\ x.opened = Cardinality(OpenChannels(handle))
      /\ OpenFiles(handle) \subseteq DOMAIN x.files
  BY <1>1, <1>2, <1>3, <1>6 DEF LegalIO
<1>5. [x EXCEPT !.handle[c].pos = pos] = [x EXCEPT !.handle = handle, !.opened = x.opened]
  BY <1>1 DEF stream, LegalIO
<1> HIDE DEF handle
<1>7. LegalIO([x EXCEPT !.handle = handle, !.opened = x.opened], freed)
  BY <1>3, <1>4, HandleLegal
<1> QED
  BY <1>5, <1>7

(* A write changes bytes of the file of its stream, and adds some. *)
LEMMA OverwriteType ==
    ASSUME NEW content \in Seq(Byte), NEW pos \in Nat, NEW bytes \in Seq(Byte)
    PROVE  Overwrite(content, pos, bytes) \in Seq(Byte)
<1> DEFINE end == pos + Len(bytes)
           n == IF end > Len(content) THEN end ELSE Len(content)
<1>1. n \in Nat /\ Len(bytes) \in Nat /\ Len(content) \in Nat
  OBVIOUS
<1>2. ASSUME NEW i \in 1..n
      PROVE  (IF i > pos /\ i <= end THEN bytes[i - pos]
              ELSE IF i <= Len(content) THEN content[i] ELSE 0) \in Byte
  <2>1. CASE i > pos /\ i <= end
    <3>1. i - pos \in 1..Len(bytes)
      BY <1>1, <2>1
    <3>2. bytes[i - pos] \in Byte
      BY <3>1
    <3> QED
      BY <2>1, <3>2
  <2>2. CASE ~(i > pos /\ i <= end) /\ i <= Len(content)
    <3>1. content[i] \in Byte
      BY <1>1, <2>2
    <3> QED
      BY <2>2, <3>1
  <2>3. CASE ~(i > pos /\ i <= end) /\ ~(i <= Len(content))
    BY <2>3 DEF Byte
  <2> QED
    BY <2>1, <2>2, <2>3
<1>3. Overwrite(content, pos, bytes)
        = [i \in 1..n |-> IF i > pos /\ i <= end THEN bytes[i - pos]
                          ELSE IF i <= Len(content) THEN content[i] ELSE 0]
  BY DEF Overwrite
<1> HIDE DEF n, end
<1> QED
  BY <1>1, <1>2, <1>3

(* fwrite, whatever the mode of the stream. *)
LEMMA WriteLegal ==
    ASSUME NEW x, NEW freed, LegalIO(x, freed), NEW c, IsOpen(x, c),
           NEW bytes \in Seq(Byte)
    PROVE  LegalIO(fwrite(x, c, bytes), freed)
<1>1. CASE ~Writes(x.handle[c])
  BY <1>1 DEF fwrite
<1>2. CASE Writes(x.handle[c])
  <2> DEFINE file == x.handle[c].file
             from == x.handle[c].pos
             files == [x.files EXCEPT ![file] = Overwrite(x.files[file], from, bytes)]
             y == [x EXCEPT !.files = files]
  <2>1. from \in Nat /\ Len(bytes) \in Nat
    BY HandleFields
  <2>2. FileTable(x.files) /\ OpenFiles(x.handle) \subseteq DOMAIN x.files
    BY DEF LegalIO
  <2>8. Overwrite(x.files[file], from, bytes) \in Seq(Byte)
    BY <1>2, HandleFields, OverwriteType
  <2>3. FileTable(files) /\ DOMAIN files = DOMAIN x.files
    BY <2>2, <2>8 DEF FileTable
  <2> HIDE DEF files
  <2>4. LegalIO(y, freed)
    BY <2>2, <2>3, FilesLegal
  <2>5. y.handle = x.handle /\ IsOpen(y, c)
    BY DEF LegalIO, ScalarFields, IsOpen
  <2>6. LegalIO([y EXCEPT !.handle[c].pos = from + Len(bytes)], freed)
    <3>1. from + Len(bytes) \in Nat
      BY <2>1
    <3> HIDE DEF y
    <3> QED
      BY <2>4, <2>5, <3>1, MoveLegal
  <2>7. fwrite(x, c, bytes) = [y EXCEPT !.handle[c].pos = from + Len(bytes)]
    BY <1>2, <2>5, HandleFields DEF fwrite, files, LegalIO, ScalarFields
  <2> QED
    BY <2>6, <2>7
<1> QED
  BY <1>1, <1>2

(* fclose, also of a channel that is not open. *)
LEMMA CloseLegal ==
    ASSUME NEW x, NEW freed, LegalIO(x, freed), NEW c
    PROVE  /\ LegalIO(fclose(x, c), freed)
           /\ c \in Channel => fclose(x, c).handle[c] = Closed
<1>1. CASE ~IsOpen(x, c)
  BY <1>1 DEF fclose, IsOpen
<1>2. CASE IsOpen(x, c)
  <2> DEFINE handle == [x.handle EXCEPT ![c] = Closed]
  <2>1. /\ c \in Channel /\ x.handle \in [Channel -> Stream \cup {Closed}]
        /\ x.handle[c] # Closed
    BY <1>2, HandleFields
  <2>2. /\ handle \in [Channel -> Stream \cup {Closed}]
        /\ Cardinality(OpenChannels(handle)) = Cardinality(OpenChannels(x.handle)) - 1
        /\ OpenFiles(handle) \subseteq OpenFiles(x.handle)
    BY <2>1, CloseOne
  <2>3. /\ x.opened - 1 = Cardinality(OpenChannels(handle))
        /\ OpenFiles(handle) \subseteq DOMAIN x.files
    BY <2>2 DEF LegalIO
  <2>4. fclose(x, c) = [x EXCEPT !.handle = handle, !.opened = x.opened - 1]
    BY <1>2 DEF fclose, LegalIO, ScalarFields
  <2>5. handle[c] = Closed
    BY <2>1
  <2>6. fclose(x, c).handle = handle
    BY <2>4 DEF LegalIO, ScalarFields
  <2> HIDE DEF handle
  <2>7. LegalIO([x EXCEPT !.handle = handle, !.opened = x.opened - 1], freed)
    BY <2>2, <2>3, HandleLegal
  <2> QED
    BY <2>4, <2>5, <2>6, <2>7
<1> QED
  BY <1>1, <1>2

(* fopen on a channel that is closed, whether it succeeds or not. *)
LEMMA OpenLegal ==
    ASSUME NEW x, NEW freed, LegalIO(x, freed), NEW c \in Channel,
           x.handle[c] = Closed, NEW name, NEW how \in {"rb", "wb", "r+b", "w+b"}
    PROVE  LegalIO(fopen(x, c, name, how), freed)
<1> DEFINE stream == [file |-> name, pos |-> 0, how |-> how]
           handle == [x.handle EXCEPT ![c] = stream]
           opened(y) == [y EXCEPT !.handle = handle, !.opened = x.opened + 1]
           files == With(x.files, name, <<>>)
           created == [x EXCEPT !.files = files]
<1>1. /\ x.handle \in [Channel -> Stream \cup {Closed}]
      /\ FileTable(x.files) /\ OpenFiles(x.handle) \subseteq DOMAIN x.files
  BY DEF LegalIO
<1>2. ASSUME NEW y, LegalIO(y, freed), y.handle = x.handle, y.opened = x.opened,
             name \in DOMAIN y.files
      PROVE  LegalIO(opened(y), freed)
  <2>1. stream \in Stream /\ stream.file = name
    BY <1>2 DEF Stream, LegalIO, FileTable
  <2> HIDE DEF stream
  <2>2. /\ handle \in [Channel -> Stream \cup {Closed}]
        /\ Cardinality(OpenChannels(handle))
             = Cardinality(OpenChannels(x.handle))
               + (IF x.handle[c] = Closed THEN 1 ELSE 0)
        /\ OpenFiles(handle) \subseteq OpenFiles(x.handle) \cup {stream.file}
    BY <1>1, <2>1, OpenOne
  <2>3. /\ x.opened + 1 = Cardinality(OpenChannels(handle))
        /\ OpenFiles(handle) \subseteq DOMAIN y.files
    BY <1>2, <2>1, <2>2 DEF LegalIO
  <2> HIDE DEF handle
  <2> QED
    BY <1>2, <2>2, <2>3, HandleLegal
<1>3. ASSUME name \in FileNames
      PROVE  /\ LegalIO(created, freed) /\ name \in DOMAIN created.files
             /\ created.handle = x.handle /\ created.opened = x.opened
  <2>1. <<>> \in Seq(Byte)
    OBVIOUS
  <2>2. /\ DOMAIN files = {name} \cup DOMAIN x.files
        /\ \A f \in DOMAIN files :
              files[f] = IF f = name THEN <<>> ELSE x.files[f]
    BY DEF With
  <2>3. FileTable(files) /\ OpenFiles(x.handle) \subseteq DOMAIN files
    BY <1>1, <1>3, <2>1, <2>2 DEF FileTable
  <2> HIDE DEF files
  <2>4. LegalIO(created, freed)
    BY <2>3, FilesLegal
  <2>5. created.handle = x.handle /\ created.opened = x.opened /\ created.files = files
    BY DEF LegalIO, ScalarFields
  <2> QED
    BY <2>2, <2>4, <2>5
<1>4. fopen(x, c, name, how) =
         IF how \in {"wb", "w+b"} /\ name \in FileNames THEN opened(created)
         ELSE IF how \notin {"wb", "w+b"} /\ name \in DOMAIN x.files THEN opened(x)
         ELSE x
  <2> HIDE DEF files
  <2>1. [x EXCEPT !.handle[c] = stream, !.opened = @ + 1] = opened(x)
    BY DEF LegalIO, ScalarFields
  <2>2. [opened(x) EXCEPT !.files = With(@, name, <<>>)] = opened(created)
    <3>1. opened(x).files = x.files
      BY DEF LegalIO, ScalarFields
    <3>2. [opened(x) EXCEPT !.files = files] = opened(created)
      BY DEF LegalIO, ScalarFields
    <3> QED
      BY <3>1, <3>2 DEF files
  <2> HIDE DEF opened, created, handle
  <2> QED
    BY <2>1, <2>2 DEF fopen
<1> HIDE DEF opened, created, handle, files
<1>5. how \in {"wb", "w+b"} /\ name \in FileNames => LegalIO(opened(created), freed)
  BY <1>2, <1>3
<1>6. name \in DOMAIN x.files => LegalIO(opened(x), freed)
  BY <1>2
<1> QED
  BY <1>4, <1>5, <1>6

-----------------------------------------------------------------------------
(* PRINT and INPUT.                                                        *)

(* Texts that the handlers write, and what is made of them. *)
LEMMA TextFacts ==
    /\ <<>> \in Text /\ Space \in Text /\ NewLine \in Text /\ Prompt \in Text
    /\ Rejected \in Text /\ <<44>> \in Text
    /\ \A a \in Text, b \in Text : a \o b \in Text
    /\ \A a \in Text : a \in Seq(Byte) /\ Len(a) \in Nat
<1>1. 10 \in Char /\ 32 \in Char /\ 33 \in Char /\ 44 \in Char /\ 63 \in Char
  BY DEF Char
<1>2. /\ <<>> \in Text /\ Space \in Text /\ NewLine \in Text
      /\ <<44>> \in Text
  BY <1>1 DEF Text, Space, NewLine
<1>3. Prompt \in Text /\ Rejected \in Text
  BY <1>1 DEF Text, Prompt, Rejected
<1>4. \A a \in Text, b \in Text : a \o b \in Text
  BY DEF Text
<1>5. Char \subseteq Byte
  BY DEF Char, Byte
<1>6. \A a \in Text : a \in Seq(Byte) /\ Len(a) \in Nat
  BY <1>5 DEF Text
<1> QED
  BY <1>2, <1>3, <1>4, <1>6

(* vm_get_output_file, and a write to what it gives. *)
LEMMA OutputLegal ==
    ASSUME NEW x, NEW freed, LegalIO(x, freed), NEW text \in Text
    PROVE  LegalIO(Output(x, text), freed)
<1>1. CASE IsOpen(x, x.printChannel)
  <2>1. text \in Seq(Byte)
    BY TextFacts
  <2>2. LegalIO(fwrite(x, x.printChannel, text), freed)
    BY <1>1, <2>1, WriteLegal
  <2> QED
    BY <1>1, <2>2 DEF Output
<1>2. CASE ~IsOpen(x, x.printChannel)
  <2>1. x.screen \o text \in Text
    BY TextFacts DEF LegalIO
  <2>2. LegalIO([x EXCEPT !.screen = x.screen \o text], freed)
    BY <2>1, FieldLegal
  <2> QED
    BY <1>2, <2>2 DEF Output
<1> QED
  BY <1>1, <1>2

(* A mark moves the column. *)
LEMMA PrintedLegal ==
    ASSUME NEW x, NEW freed, LegalIO(x, freed), NEW text \in Text
    PROVE  LegalIO(Printed(x, text), freed)
<1> DEFINE y == Output(x, text)
           column == y.column + Len(text)
           z == [y EXCEPT !.column = column]
<1>1. LegalIO(y, freed)
  BY OutputLegal
<1> HIDE DEF y
<1>2. column \in Nat \ {0}
  BY <1>1, TextFacts, SMTT(30) DEF LegalIO
<1>3. Printed(x, text) = [z EXCEPT !.afterTab = FALSE]
  BY DEF Printed, y
<1> HIDE DEF column
<1>4. LegalIO(z, freed)
  BY <1>1, <1>2, FieldLegal
<1> HIDE DEF z
<1>5. FALSE \in BOOLEAN
  OBVIOUS
<1> QED
  BY <1>3, <1>4, <1>5, FieldLegal, ZenonT(60)

(* The echo of a line is a text. *)
LEMMA TypedText ==
    ASSUME NEW line \in Seq(Text)
    PROVE  Typed(line) \in Text
<1> DEFINE pieces == [i \in DOMAIN line |-> (IF i = 1 THEN <<>> ELSE <<44>>) \o line[i]]
<1>1. ASSUME NEW i \in DOMAIN line
      PROVE  (IF i = 1 THEN <<>> ELSE <<44>>) \o line[i] \in Text
  <2>1. line[i] \in Text /\ (IF i = 1 THEN <<>> ELSE <<44>>) \in Text
    BY TextFacts
  <2> QED
    BY <2>1, TextFacts
<1>2. DOMAIN line = 1..Len(line) /\ Len(line) \in Nat
  OBVIOUS
<1>3. pieces \in Seq(Text)
  BY <1>1, <1>2
<1>4. FlattenSeq(pieces) \in Text
  BY <1>3, FlattenText
<1> HIDE DEF pieces
<1>5. FlattenSeq(pieces) \o NewLine \in Text
  BY <1>4, TextFacts
<1> QED
  BY <1>5 DEF Typed, pieces

(* The pending lines have fields, each of them. *)
LEMMA PendingLines ==
    ASSUME NEW x, NEW freed, LegalIO(x, freed)
    PROVE  /\ Pending(x) \in Seq(InputLine) /\ Len(Pending(x)) \in Nat
           /\ \A i \in 1..Len(Pending(x)) : /\ Pending(x)[i] \in Seq(Text)
                                            /\ Pending(x)[i] # <<>>
<1>1. /\ x.line \in Seq(Text) /\ x.console \in Seq(InputLine)
      /\ x.available => x.line \in InputLine
  BY DEF LegalIO, InputLine
<1>2. (IF x.available THEN <<x.line>> ELSE <<>>) \in Seq(InputLine)
  BY <1>1
<1>3. Pending(x) \in Seq(InputLine)
  BY <1>1, <1>2 DEF Pending
<1>4. \A i \in 1..Len(Pending(x)) : Pending(x)[i] \in InputLine
  BY <1>3
<1> QED
  BY <1>3, <1>4 DEF InputLine

(* get_next_input_value after k lines dropped. *)
LEMMA TakenLegal ==
    ASSUME NEW x, NEW freed, LegalIO(x, freed), NEW k \in 0..Len(Pending(x))
    PROVE  Taken(x, k).value \in Text /\ LegalIO(Taken(x, k).io, freed)
<1> DEFINE lines == Pending(x)
           last  == IF k < Len(lines) THEN k + 1 ELSE k
           fresh == IF x.available THEN 2 ELSE 1
           piece(i) == (IF i >= fresh THEN Prompt \o Typed(lines[i]) ELSE <<>>)
                       \o (IF i <= k THEN Rejected ELSE <<>>)
           shown == FlattenSeq([i \in 1..last |-> piece(i)])
           eof   == IF k < Len(lines) THEN <<>> ELSE Prompt
           field == IF k < Len(lines) THEN Head(lines[k + 1]) ELSE <<>>
           rest  == IF k < Len(lines) THEN Tail(lines[k + 1]) ELSE <<>>
           screen == x.screen \o shown \o eof
           after == SubSeq(lines, last + 1, Len(lines))
           y == [x EXCEPT !.screen = screen]
<1>1. /\ lines \in Seq(InputLine) /\ Len(lines) \in Nat
      /\ \A i \in 1..Len(lines) : lines[i] \in Seq(Text) /\ lines[i] # <<>>
  BY PendingLines
<1> HIDE DEF lines
<1>2. k \in Nat /\ k <= Len(lines) /\ last \in Nat /\ last <= Len(lines)
  BY <1>1 DEF lines
<1>3. field \in Text /\ rest \in Seq(Text)
  <2>1. CASE k < Len(lines)
    <3>1. lines[k + 1] \in Seq(Text) /\ lines[k + 1] # <<>>
      BY <1>1, <1>2, <2>1
    <3>2. Head(lines[k + 1]) \in Text /\ Tail(lines[k + 1]) \in Seq(Text)
      BY <3>1
    <3> QED
      BY <2>1, <3>2
  <2>2. CASE ~(k < Len(lines))
    BY <2>2, TextFacts
  <2> QED
    BY <2>1, <2>2
<1>4. shown \in Text
  <2>1. ASSUME NEW i \in 1..last PROVE piece(i) \in Text
    <3>1. Typed(lines[i]) \in Text
      BY <1>1, <1>2, TypedText
    <3>2. /\ (IF i >= fresh THEN Prompt \o Typed(lines[i]) ELSE <<>>) \in Text
          /\ (IF i <= k THEN Rejected ELSE <<>>) \in Text
      BY <3>1, TextFacts
    <3> QED
      BY <3>2, TextFacts
  <2> HIDE DEF piece, last
  <2>2. [i \in 1..last |-> piece(i)] \in Seq(Text)
    BY <1>2, <2>1
  <2> QED
    BY <2>2, FlattenText
<1>5. screen \in Text
  <2> HIDE DEF shown
  <2>1. eof \in Text /\ x.screen \in Text
    BY TextFacts DEF LegalIO
  <2> HIDE DEF eof
  <2>2. x.screen \o shown \in Text
    BY <1>4, <2>1, TextFacts
  <2> QED
    BY <2>1, <2>2, TextFacts
<1>6. after \in Seq(InputLine)
  BY <1>1, <1>2
<1> DEFINE available == rest # <<>>
           y1 == [y EXCEPT !.line = rest, !.available = available, !.console = after]
<1>7. Taken(x, k) = [value |-> field,
                     io |-> [x EXCEPT !.screen = screen, !.line = rest,
                                      !.available = available, !.console = after]]
  BY DEF Taken, lines
<1>8. available \in BOOLEAN
  OBVIOUS
<1> HIDE DEF field, screen, after
<1>9. LegalIO(y, freed)
  BY <1>5, FieldLegal
<1>10. Taken(x, k).value = field /\ Taken(x, k).io = y1
  <2> HIDE DEF rest, available
  <2> QED
    BY <1>7
<1> HIDE DEF y, rest
<1>11. LegalIO(y1, freed)
  <2>1. available = (rest # <<>>)
    OBVIOUS
  <2> HIDE DEF available
  <2> QED
    BY <1>3, <1>6, <1>8, <1>9, <2>1, LinesLegal
<1> QED
  BY <1>3, <1>10, <1>11

(* The number of lines that an INPUT of a number drops. *)
LEMMA RejectedCount ==
    ASSUME NEW x, NEW freed, LegalIO(x, freed)
    PROVE  SelectInSeq(Pending(x) \o << << <<>> >> >>, Acceptable) - 1
              \in 0..Len(Pending(x))
<1> DEFINE lines == Pending(x) \o << << <<>> >> >>
           good == {i \in 1..Len(lines) : Acceptable(lines[i])}
<1>1. Len(Pending(x)) \in Nat /\ Pending(x) \in Seq(InputLine)
  BY PendingLines
<1>2. /\ Len(lines) = Len(Pending(x)) + 1
      /\ lines[Len(Pending(x)) + 1] = << <<>> >>
  BY <1>1
<1>3. Len(Pending(x)) + 1 \in good
  BY <1>1, <1>2 DEF Acceptable
<1>4. good \in SUBSET Nat /\ good \subseteq 1..(Len(Pending(x)) + 1)
  BY <1>1, <1>2
<1>5. SelectInSeq(lines, Acceptable) = Min(good)
  BY <1>3 DEF SelectInSeq
<1> HIDE DEF good, lines
<1>6. PICK i \in good : \A j \in good : i <= j
  BY <1>3, <1>4, LeastNat
<1>7. Min(good) \in good
  BY <1>6 DEF Min
<1> DEFINE first == SelectInSeq(lines, Acceptable)
           n == Len(Pending(x))
<1>8. first \in 1..(n + 1)
  BY <1>4, <1>5, <1>7
<1>9. n \in Nat /\ first = SelectInSeq(Pending(x) \o << << <<>> >> >>, Acceptable)
  BY <1>1 DEF lines
<1> HIDE DEF first, n
<1>10. first - 1 \in 0..n
  BY <1>8, <1>9
<1> QED
  BY <1>9, <1>10 DEF n

-----------------------------------------------------------------------------
(* The operands of input and output.                                       *)

(* A stack that ends with some types has the last of them on top, and ends *)
(* with the others below it.                                               *)
LEMMA EndsStep ==
    ASSUME NEW s \in Seq({"num", "str"}), NEW types \in Seq({"num", "str"}),
           NEW t, EndsWith(s, Append(types, t))
    PROVE  /\ TopIs(s, t) /\ EndsWith(Below(s), types)
           /\ Below(s) \in Seq({"num", "str"})
           /\ Under(s, Len(types) + 1) = Under(Below(s), Len(types))
<1> DEFINE n == Len(s)
           k == Len(types)
<1>1. /\ n \in Nat /\ k \in Nat /\ Len(Append(types, t)) = k + 1
      /\ Append(types, t)[k + 1] = t
      /\ \A i \in 1..k : Append(types, t)[i] = types[i]
  OBVIOUS
<1>2. n >= k + 1 /\ SubSeq(s, n - k, n) = Append(types, t)
  <2>1. n - (k + 1) + 1 = n - k
    BY <1>1
  <2> QED
    BY <1>1, <2>1 DEF EndsWith
<1>3. \A i \in 1..(k + 1) : SubSeq(s, n - k, n)[i] = s[n - k + i - 1]
  BY <1>1, <1>2
<1>4. s[n] = t /\ \A i \in 1..k : s[n - k + i - 1] = types[i]
  <2>1. k + 1 \in 1..(k + 1) /\ n - k + (k + 1) - 1 = n
    BY <1>1
  <2>2. \A i \in 1..k : i \in 1..(k + 1)
    BY <1>1
  <2> QED
    BY <1>1, <1>2, <1>3, <2>1, <2>2
<1>5. /\ Below(s) \in Seq({"num", "str"}) /\ Len(Below(s)) = n - 1
      /\ \A i \in 1..(n - 1) : Below(s)[i] = s[i]
  <2> DEFINE b == n - 1
  <2>1. b \in Nat /\ b <= n
    BY <1>1, <1>2
  <2> HIDE DEF b
  <2>2. /\ SubSeq(s, 1, b) \in Seq({"num", "str"}) /\ Len(SubSeq(s, 1, b)) = b
        /\ \A i \in 1..b : SubSeq(s, 1, b)[i] = s[i]
    BY <2>1
  <2> QED
    BY <2>2 DEF b, Below
<1>6. TopIs(s, t)
  BY <1>1, <1>2, <1>4 DEF TopIs
<1>7. EndsWith(Below(s), types)
  <2> DEFINE top == SubSeq(Below(s), n - 1 - k + 1, n - 1)
  <2>1. top \in Seq({"num", "str"}) /\ Len(top) = k
    BY <1>1, <1>2, <1>5
  <2>2. ASSUME NEW i \in 1..k PROVE top[i] = types[i]
    <3>1. top[i] = Below(s)[n - 1 - k + 1 + i - 1]
      BY <1>1, <1>2, <1>5
    <3>2. n - 1 - k + 1 + i - 1 \in 1..(n - 1) /\ n - 1 - k + 1 + i - 1 = n - k + i - 1
      BY <1>1, <1>2
    <3> QED
      BY <1>4, <1>5, <3>1, <3>2
  <2> HIDE DEF top
  <2>3. top = types
    BY <2>1, <2>2, SeqEqual, SMTT(30)
  <2> QED
    BY <1>1, <1>2, <1>5, <2>3 DEF EndsWith, top
<1>8. Under(s, k + 1) = Under(Below(s), k)
  <2>1. /\ Under(s, k + 1) \in Seq({"num", "str"}) /\ Len(Under(s, k + 1)) = n - 1 - k
        /\ \A i \in 1..(n - 1 - k) : Under(s, k + 1)[i] = s[i]
    BY <1>1, <1>2 DEF Under
  <2>2. /\ Under(Below(s), k) \in Seq({"num", "str"})
        /\ Len(Under(Below(s), k)) = n - 1 - k
        /\ \A i \in 1..(n - 1 - k) : Under(Below(s), k)[i] = s[i]
    BY <1>1, <1>2, <1>5 DEF Under
  <2> QED
    BY <2>1, <2>2, SeqEqual, SMTT(30)
<1> QED
  BY <1>5, <1>6, <1>7, <1>8

(* A program that the verifier passes, on the shape it expects. *)
Sound == SoundInv /\ prog.typed

(* The handler has reached m, which is a machine; when the program is      *)
(* verified its operand stack has shape s and n strings are in hand.       *)
Reached(m, s, n) == m \in Machine /\ (Sound => Follows(m, vm, s, n))

(* What a handler of input or output does when nothing has been undefined. *)
IOKept == /\ Loaded' /\ prog' = prog
          /\ LegalIO(io', io.freedTwice)
          /\ Sound => SoundStep

(* A machine that ends the instruction. *)
LEMMA CommitLoaded ==
    ASSUME Loaded, NEW m \in Machine, Commit(m)
    PROVE  Loaded'
<1>1. vm' \in Machine /\ ~vm'.trapTriggered /\ prog' = prog
  BY UpdateType DEF Commit
<1> QED
  BY <1>1 DEF Loaded, TypeOK

(* The machine a handler starts with. *)
LEMMA ReachedFirst ==
    ASSUME Loaded
    PROVE  Reached(vm, Types(vm.stack), 0)
<1>1. vm \in Machine
  BY DEF Loaded, TypeOK
<1> QED
  BY <1>1, FollowsSelf DEF Reached

(* The pops: the operand is there, if the program is verified. *)
LEMMA ReachedNumber ==
    ASSUME NEW m, NEW s, NEW n \in Int, Reached(m, s, n), Sound => TopIs(s, "num")
    PROVE  /\ Reached(vm_pop_number(m).m, Below(s), n)
           /\ vm_pop_number(m).v \in Number /\ vm_pop_number(m).v \in Int
<1>1. m \in Machine /\ (Sound => Follows(m, vm, s, n))
  BY DEF Reached
<1>2. Sound => Follows(vm_pop_number(m).m, vm, Below(s), n)
  BY <1>1, PopNumberFollows
<1> QED
  BY <1>1, <1>2, PopNumberType, NumberAssumption DEF Reached

LEMMA ReachedString ==
    ASSUME NEW m, NEW s, NEW n \in Int, Reached(m, s, n), Sound => TopIs(s, "str")
    PROVE  /\ Reached(vm_pop_string(m).m, Below(s), n + 1)
           /\ vm_pop_string(m).v \in Text
<1>1. m \in Machine /\ (Sound => Follows(m, vm, s, n))
  BY DEF Reached
<1>2. Sound => Follows(vm_pop_string(m).m, vm, Below(s), n + 1)
  BY <1>1, PopStringFollows
<1> QED
  BY <1>1, <1>2, PopStringType DEF Reached

(* The string in hand is freed. *)
LEMMA ReachedFree ==
    ASSUME NEW m, NEW s, Reached(m, s, 0 + 1)
    PROVE  Reached(Free(m), s, 0)
<1>1. m \in Machine /\ (Sound => Follows(m, vm, s, 1))
  BY DEF Reached
<1>2. Sound => Follows(Free(m), vm, s, 1 - 1)
  BY <1>1, AllocFollows
<1> QED
  BY <1>1, <1>2, UpdateType DEF Reached

LEMMA ReachedPush ==
    ASSUME NEW m, NEW s, NEW n \in Int, Reached(m, s, n), NEW x \in Number
    PROVE  Reached(vm_push_number(m, x), Above(s, "num"), n)
<1>1. m \in Machine /\ (Sound => Follows(m, vm, s, n))
  BY DEF Reached
<1> QED
  BY <1>1, PushType, PushTypedFollows DEF Reached

(* The opcodes of input and output by what they take, from their tables.   *)
LEMMA IOTakesWhat ==
    ASSUME NEW op \in IOOps
    PROVE  /\ op \notin OnOps
           /\ \A s : Takes(op, s) => EndsWith(s, IOTakes(op))
           /\ \A s : Leaves(op, s) = Under(s, Len(IOTakes(op))) \o IOLeaves(op)
           /\ op \in IOPlainOps => IOTakes(op) = <<>> /\ IOLeaves(op) = <<>>
           /\ op \in IONumOps => IOTakes(op) = <<"num">>
           /\ op \in IOPairOps => IOTakes(op) = <<"num", "num">> /\ IOLeaves(op) = <<>>
           /\ op = "PRINT_STR" => IOTakes(op) = <<"str">> /\ IOLeaves(op) = <<>>
           /\ op = "POINT" => /\ IOTakes(op) = <<"num", "num", "num">>
                              /\ IOLeaves(op) = <<>>
           /\ op = "OPEN" => /\ IOTakes(op) = <<"num", "num", "num", "str">>
                             /\ IOLeaves(op) = <<>>
           /\ op = "XIO" => /\ IOTakes(op) = <<"num", "num", "num", "num", "str">>
                            /\ IOLeaves(op) = <<>>
<1>1. /\ op \notin OnOps
      /\ \A s : Takes(op, s) => EndsWith(s, IOTakes(op))
      /\ \A s : Leaves(op, s) = Under(s, Len(IOTakes(op))) \o IOLeaves(op)
  <2> HIDE DEF IOTakes, IOLeaves
  <2>1. op \notin OnOps
    BY DEF OnOps, IOOps, IOPlainOps, IONumOps, IOPairOps
  <2>2. op \notin NoEffectOps \cup PushNumOps \cup PushStrOps \cup TakeNumOps
                  \cup UnaryOps \cup NumToStrOps \cup StrToNumOps \cup BinaryOps
                  \cup CompareOps \cup SliceOps
                  \cup {"STR_POP_VAR", "STR_MID", "FOR_INIT"}
    BY DEF PushNumOps, PushStrOps, TakeNumOps, UnaryOps, BinaryOps, CompareOps,
       StrToNumOps, NumToStrOps, SliceOps, NoEffectOps, IOOps, IOPlainOps,
       IONumOps, IOPairOps
  <2>3. op \notin DimOps \cup NumGetOps \cup StrGetOps \cup NumSetOps \cup StrSetOps
    BY DEF DimOps, NumGetOps, StrGetOps, NumSetOps, StrSetOps, IOOps, IOPlainOps,
       IONumOps, IOPairOps
  <2> QED
    BY <2>1, <2>2, <2>3 DEF Takes, Leaves
<1>2. /\ op \in IOPlainOps => IOTakes(op) = <<>> /\ IOLeaves(op) = <<>>
      /\ op \in IONumOps => IOTakes(op) = <<"num">>
      /\ op \in IOPairOps => IOTakes(op) = <<"num", "num">> /\ IOLeaves(op) = <<>>
  BY DEF IOTakes, IOLeaves, IOPlainOps, IONumOps, IOPairOps
<1>3. /\ op = "PRINT_STR" => IOTakes(op) = <<"str">> /\ IOLeaves(op) = <<>>
      /\ op = "POINT" => IOTakes(op) = <<"num", "num", "num">> /\ IOLeaves(op) = <<>>
  BY DEF IOTakes, IOLeaves, IOPlainOps, IONumOps, IOPairOps
<1>4. /\ op = "OPEN" => /\ IOTakes(op) = <<"num", "num", "num", "str">>
                        /\ IOLeaves(op) = <<>>
      /\ op = "XIO" => /\ IOTakes(op) = <<"num", "num", "num", "num", "str">>
                       /\ IOLeaves(op) = <<>>
  BY DEF IOTakes, IOLeaves, IOPlainOps, IONumOps, IOPairOps
<1> QED
  BY <1>1, <1>2, <1>3, <1>4

(* So these operands are on the stack of a verified program, and this is   *)
(* what it should be left with.                                            *)
LEMMA IOShape ==
    ASSUME Sound, CanExecute, Inst.op \in IOOps
    PROVE  LET s == Types(vm.stack)
               op == Inst.op
               s1 == Below(s)
               s2 == Below(s1)
               s3 == Below(s2)
               s4 == Below(s3)
           IN  /\ op \in IOPlainOps => Leaves(op, s) = s
               /\ op \in IONumOps \cup IOPairOps \cup {"POINT"} => TopIs(s, "num")
               /\ op \in IONumOps => Leaves(op, s) = s1 \o IOLeaves(op)
               /\ op \in IOPairOps => TopIs(s1, "num") /\ Leaves(op, s) = s2
               /\ op = "PRINT_STR" => TopIs(s, "str") /\ Leaves(op, s) = s1
               /\ op = "POINT" => /\ TopIs(s1, "num") /\ TopIs(s2, "num")
                                  /\ Leaves(op, s) = s3
               /\ op = "OPEN" => /\ TopIs(s, "str") /\ TopIs(s1, "num")
                                 /\ TopIs(s2, "num") /\ TopIs(s3, "num")
                                 /\ Leaves(op, s) = s4
               /\ op = "XIO" => /\ TopIs(s, "str") /\ TopIs(s1, "num")
                                /\ TopIs(s2, "num") /\ TopIs(s3, "num")
                                /\ TopIs(s4, "num")
                                /\ Leaves(op, s) = Below(s4)
<1> DEFINE s == Types(vm.stack)
           op == Inst.op
           s1 == Below(s)
           s2 == Below(s1)
           s3 == Below(s2)
           s4 == Below(s3)
<1>1. s \in Seq({"num", "str"}) /\ EndsWith(s, IOTakes(op))
  BY Verified, FollowsType, IOTakesWhat DEF Sound
<1>2. Leaves(op, s) = Under(s, Len(IOTakes(op))) \o IOLeaves(op)
  BY IOTakesWhat
<1> HIDE DEF s, op
<1>3. ASSUME NEW t \in Seq({"num", "str"})
      PROVE  Under(t, 0) = t /\ t \o <<>> = t
  BY DEF Under
<1>4. ASSUME NEW t \in Seq({"num", "str"}), NEW a \in {"num", "str"},
             EndsWith(t, <<a>>)
      PROVE  TopIs(t, a) /\ Below(t) \in Seq({"num", "str"}) /\ Under(t, 1) = Below(t)
  <2>1. <<>> \in Seq({"num", "str"}) /\ <<a>> = Append(<<>>, a) /\ Len(<<>>) = 0
    OBVIOUS
  <2>2. /\ TopIs(t, a) /\ Below(t) \in Seq({"num", "str"})
        /\ Under(t, Len(<<>>) + 1) = Under(Below(t), Len(<<>>))
    BY <1>4, <2>1, EndsStep
  <2> QED
    BY <1>3, <2>1, <2>2
<1>5. ASSUME NEW t \in Seq({"num", "str"}), NEW a \in {"num", "str"}, NEW b \in {"num", "str"},
             EndsWith(t, <<a, b>>)
      PROVE  /\ TopIs(t, b) /\ Below(t) \in Seq({"num", "str"})
             /\ EndsWith(Below(t), <<a>>) /\ Under(t, 2) = Below(Below(t))
  <2>1. <<a>> \in Seq({"num", "str"}) /\ <<a, b>> = Append(<<a>>, b) /\ Len(<<a>>) = 1
    OBVIOUS
  <2>2. /\ TopIs(t, b) /\ EndsWith(Below(t), <<a>>)
        /\ Below(t) \in Seq({"num", "str"})
        /\ Under(t, Len(<<a>>) + 1) = Under(Below(t), Len(<<a>>))
    BY <1>5, <2>1, EndsStep
  <2> QED
    BY <1>4, <2>1, <2>2
<1>6. ASSUME NEW t \in Seq({"num", "str"}), NEW b \in {"num", "str"},
             EndsWith(t, <<"num", "num", b>>)
      PROVE  /\ TopIs(t, b) /\ Below(t) \in Seq({"num", "str"})
             /\ EndsWith(Below(t), <<"num", "num">>)
             /\ Under(t, 3) = Below(Below(Below(t)))
  <2> DEFINE rest == <<"num", "num">>
  <2>1. rest \in Seq({"num", "str"}) /\ <<"num", "num", b>> = Append(rest, b) /\ Len(rest) = 2
    OBVIOUS
  <2>2. /\ TopIs(t, b) /\ EndsWith(Below(t), rest)
        /\ Below(t) \in Seq({"num", "str"})
        /\ Under(t, Len(rest) + 1) = Under(Below(t), Len(rest))
    BY <1>6, <2>1, EndsStep
  <2> QED
    BY <1>5, <2>1, <2>2
<1>7. ASSUME NEW t \in Seq({"num", "str"}), NEW b \in {"num", "str"},
             EndsWith(t, <<"num", "num", "num", b>>)
      PROVE  /\ TopIs(t, b) /\ Below(t) \in Seq({"num", "str"})
             /\ EndsWith(Below(t), <<"num", "num", "num">>)
             /\ Under(t, 4) = Below(Below(Below(Below(t))))
  <2> DEFINE rest == <<"num", "num", "num">>
  <2>1. rest \in Seq({"num", "str"}) /\ <<"num", "num", "num", b>> = Append(rest, b)
        /\ Len(rest) = 3
    OBVIOUS
  <2>2. /\ TopIs(t, b) /\ EndsWith(Below(t), rest)
        /\ Below(t) \in Seq({"num", "str"})
        /\ Under(t, Len(rest) + 1) = Under(Below(t), Len(rest))
    BY <1>7, <2>1, EndsStep
  <2> QED
    BY <1>6, <2>1, <2>2
<1>8. ASSUME NEW t \in Seq({"num", "str"}),
             EndsWith(t, <<"num", "num", "num", "num", "str">>)
      PROVE  /\ TopIs(t, "str") /\ Below(t) \in Seq({"num", "str"})
             /\ EndsWith(Below(t), <<"num", "num", "num", "num">>)
             /\ Under(t, 5) = Below(Below(Below(Below(Below(t)))))
  <2> DEFINE rest == <<"num", "num", "num", "num">>
  <2>1. rest \in Seq({"num", "str"}) /\ Len(rest) = 4
        /\ <<"num", "num", "num", "num", "str">> = Append(rest, "str")
    OBVIOUS
  <2>2. /\ TopIs(t, "str") /\ EndsWith(Below(t), rest)
        /\ Below(t) \in Seq({"num", "str"})
        /\ Under(t, Len(rest) + 1) = Under(Below(t), Len(rest))
    BY <1>8, <2>1, EndsStep
  <2> QED
    BY <1>7, <2>1, <2>2
<1>9. CASE op \in IOPlainOps
  <2>1. IOTakes(op) = <<>> /\ IOLeaves(op) = <<>>
    BY <1>9, IOTakesWhat DEF op
  <2>2. Leaves(op, s) = s
    BY <1>1, <1>2, <1>3, <2>1
  <2> QED
    BY <1>9, <2>2 DEF op, s, IOPlainOps, IONumOps, IOPairOps
<1>10. CASE op \in IONumOps
  <2>1. IOTakes(op) = <<"num">>
    BY <1>10, IOTakesWhat DEF op
  <2>2. TopIs(s, "num") /\ Leaves(op, s) = s1 \o IOLeaves(op)
    BY <1>1, <1>2, <1>4, <2>1
  <2> QED
    BY <1>10, <2>2 DEF op, s, IOPlainOps, IONumOps, IOPairOps
<1>11. CASE op \in IOPairOps
  <2>1. IOTakes(op) = <<"num", "num">> /\ IOLeaves(op) = <<>>
    BY <1>11, IOTakesWhat DEF op
  <2>2. /\ TopIs(s, "num") /\ TopIs(s1, "num") /\ s2 \in Seq({"num", "str"})
        /\ Leaves(op, s) = s2 \o <<>>
    BY <1>1, <1>2, <1>4, <1>5, <2>1
  <2>3. Leaves(op, s) = s2
    BY <1>3, <2>2
  <2> QED
    BY <1>11, <2>2, <2>3 DEF op, s, IOPlainOps, IONumOps, IOPairOps
<1>12. CASE op = "PRINT_STR"
  <2>1. IOTakes(op) = <<"str">> /\ IOLeaves(op) = <<>>
    BY <1>12, IOTakesWhat DEF op
  <2>2. /\ TopIs(s, "str") /\ s1 \in Seq({"num", "str"})
        /\ Leaves(op, s) = s1 \o <<>>
    BY <1>1, <1>2, <1>4, <2>1
  <2>3. Leaves(op, s) = s1
    BY <1>3, <2>2
  <2> QED
    BY <1>12, <2>2, <2>3 DEF op, s, IOPlainOps, IONumOps, IOPairOps
<1>13. CASE op = "POINT"
  <2>1. IOTakes(op) = <<"num", "num", "num">> /\ IOLeaves(op) = <<>>
    BY <1>13, IOTakesWhat DEF op
  <2>2. /\ TopIs(s, "num") /\ s1 \in Seq({"num", "str"})
        /\ EndsWith(s1, <<"num", "num">>)
        /\ Leaves(op, s) = s3 \o <<>>
    BY <1>1, <1>2, <1>6, <2>1
  <2>3. TopIs(s1, "num") /\ TopIs(s2, "num") /\ s3 \in Seq({"num", "str"})
    BY <1>4, <1>5, <2>2
  <2>4. Leaves(op, s) = s3
    BY <1>3, <2>2, <2>3
  <2> QED
    BY <1>13, <2>2, <2>3, <2>4 DEF op, s, IOPlainOps, IONumOps, IOPairOps
<1>14. CASE op = "OPEN"
  <2>1. IOTakes(op) = <<"num", "num", "num", "str">> /\ IOLeaves(op) = <<>>
    BY <1>14, IOTakesWhat DEF op
  <2>2. /\ TopIs(s, "str") /\ s1 \in Seq({"num", "str"})
        /\ EndsWith(s1, <<"num", "num", "num">>)
        /\ Leaves(op, s) = s4 \o <<>>
    BY <1>1, <1>2, <1>7, <2>1
  <2>3. TopIs(s1, "num") /\ s2 \in Seq({"num", "str"}) /\ EndsWith(s2, <<"num", "num">>)
    BY <1>6, <2>2
  <2>4. TopIs(s2, "num") /\ TopIs(s3, "num") /\ s4 \in Seq({"num", "str"})
    BY <1>4, <1>5, <2>3
  <2>5. Leaves(op, s) = s4
    BY <1>3, <2>2, <2>4
  <2> QED
    BY <1>14, <2>2, <2>3, <2>4, <2>5 DEF op, s, IOPlainOps, IONumOps, IOPairOps
<1>15. CASE op = "XIO"
  <2>1. IOTakes(op) = <<"num", "num", "num", "num", "str">> /\ IOLeaves(op) = <<>>
    BY <1>15, IOTakesWhat DEF op
  <2>2. /\ TopIs(s, "str") /\ s1 \in Seq({"num", "str"})
        /\ EndsWith(s1, <<"num", "num", "num", "num">>)
        /\ Leaves(op, s) = Below(s4) \o <<>>
    BY <1>1, <1>2, <1>8, <2>1
  <2>3. TopIs(s1, "num") /\ s2 \in Seq({"num", "str"})
        /\ EndsWith(s2, <<"num", "num", "num">>)
    BY <1>7, <2>2
  <2>4. TopIs(s2, "num") /\ s3 \in Seq({"num", "str"}) /\ EndsWith(s3, <<"num", "num">>)
    BY <1>6, <2>3
  <2>5. TopIs(s3, "num") /\ TopIs(s4, "num") /\ Below(s4) \in Seq({"num", "str"})
    BY <1>4, <1>5, <2>4
  <2>6. Leaves(op, s) = Below(s4)
    BY <1>3, <2>2, <2>5
  <2> QED
    BY <1>15, <2>2, <2>3, <2>4, <2>5, <2>6 DEF op, s, IOPlainOps, IONumOps, IOPairOps
<1>16. op \in IOOps
  BY DEF op
<1> QED
  BY <1>9, <1>10, <1>11, <1>12, <1>13, <1>14, <1>15, <1>16 DEF IOOps, op, s

-----------------------------------------------------------------------------
(* The ends of the handlers.                                               *)

(* A handler that meets no error. *)
LEMMA IOAdvance ==
    ASSUME Loaded, CanExecute, Inst.op \in IOOps,
           NEW m, NEW s, Reached(m, s, 0),
           Sound => s = Leaves(Inst.op, Types(vm.stack)),
           NEW x, LegalIO(x, io.freedTwice), CommitIO(Advance(m), x)
    PROVE  IOKept
<1>1. m \in Machine /\ Advance(m) \in Machine
  BY UpdateType DEF Reached
<1>2. Commit(Advance(m)) /\ io' = x /\ prog' = prog
  BY DEF CommitIO, Commit
<1>3. Loaded'
  BY <1>1, <1>2, CommitLoaded
<1>4. ASSUME Sound PROVE SoundStep
  <2>1. Follows(m, vm, Leaves(Inst.op, Types(vm.stack)), 0)
    BY <1>4 DEF Reached
  <2>2. SoundInv /\ prog.typed /\ Inst.op \notin OnOps
    BY <1>4, IOTakesWhat DEF Sound
  <2> QED
    BY <1>2, <2>1, <2>2, SameControlIs, PlainSound
<1> QED
  BY <1>2, <1>3, <1>4 DEF IOKept

(* A handler that fails after its pops. *)
LEMMA IOFails ==
    ASSUME Loaded, CanExecute, NEW m, NEW s, Reached(m, s, 0),
           NEW code \in {ERR_ILLEGAL_FUNCTION, ERR_BAD_FILE_NUMBER, ERR_FILE_NOT_FOUND},
           NEW x, LegalIO(x, io.freedTwice), CommitIO(vm_error(m, code), x)
    PROVE  IOKept
<1>1. /\ code \in ErrorCode
      /\ code \notin {ERR_NONE, ERR_OVERFLOW, ERR_TYPE_MISMATCH}
  BY DEF ErrorCode, ERR_ILLEGAL_FUNCTION, ERR_BAD_FILE_NUMBER, ERR_FILE_NOT_FOUND,
         ERR_NONE, ERR_OVERFLOW, ERR_TYPE_MISMATCH
<1>2. m \in Machine /\ vm_error(m, code) \in Machine
  BY <1>1, ErrorType DEF Reached
<1>3. Commit(vm_error(m, code)) /\ io' = x /\ prog' = prog
  BY DEF CommitIO, Commit
<1>4. Loaded'
  BY <1>2, <1>3, CommitLoaded
<1>5. ASSUME Sound PROVE SoundStep
  <2>1. Follows(m, vm, s, 0) /\ SoundInv /\ prog.typed /\ vm.running
    BY <1>5 DEF Reached, Sound, CanExecute
  <2> QED
    BY <1>1, <1>3, <2>1, ErrorSound
<1> QED
  BY <1>3, <1>4, <1>5 DEF IOKept

(* Two handlers free their string after the error and not before: the      *)
(* count is the same.                                                      *)
LEMMA FreeError ==
    ASSUME NEW m \in Machine, NEW code
    PROVE  Free(vm_error(m, code)) = vm_error(Free(m), code)
<1>1. m.heap \in Int /\ m.stack \in Seq(Value)
  BY MachineFields
<1>2. PICK n \in Int : n = StringsOn(m.stack)
  BY <1>1, StringsOnType
<1>3. Free(m).stack = m.stack /\ Free(m).heap = m.heap - 1
      /\ Free(m).trapEnabled = m.trapEnabled /\ Free(m).trapLine = m.trapLine
  BY DEF Free, Machine
<1>4. CASE m.trapEnabled /\ m.trapLine > 0
  <2>1. vm_error(m, code)
          = [m EXCEPT !.errorCode = code, !.heap = m.heap - n, !.stack = <<>>,
                      !.pc = m.trapLine, !.trapEnabled = FALSE,
                      !.trapTriggered = TRUE]
    BY <1>2, <1>4 DEF vm_error, Machine
  <2>2. vm_error(Free(m), code)
          = [Free(m) EXCEPT !.errorCode = code, !.heap = m.heap - 1 - n, !.stack = <<>>,
                      !.pc = m.trapLine, !.trapEnabled = FALSE,
                      !.trapTriggered = TRUE]
    BY <1>2, <1>3, <1>4 DEF vm_error, Machine
  <2>3. m.heap - n - 1 = m.heap - 1 - n
    BY <1>1, <1>2
  <2> QED
    BY <2>1, <2>2, <2>3, ZenonT(60) DEF Free, Machine
<1>5. CASE ~(m.trapEnabled /\ m.trapLine > 0)
  BY <1>3, <1>5 DEF vm_error, Free, Machine
<1> QED
  BY <1>4, <1>5

(* The operands of INPUT. *)
LEMMA IOArg ==
    ASSUME Loaded, CanExecute
    PROVE  /\ Inst.op \in {"INPUT_NUM", "INPUT_STR"} => Inst.arg \in Slot
           /\ Inst.op = "INPUT_PROMPT" => Inst.arg \in Text
BY InstOperand DEF OperandOK, Inst

-----------------------------------------------------------------------------
(* The handlers.                                                           *)

LegalState == Loaded /\ LegalIO(io, io.freedTwice)

(* PRINT without an operand, and the prompt of INPUT. *)
LEMMA PlainKept ==
    ASSUME LegalState, OP_PRINT_NEWLINE \/ OP_PRINT_SPACE \/ OP_PRINT_TAB
                       \/ OP_PRINT_NOSEP \/ OP_INPUT_PROMPT
    PROVE  IOKept
<1> DEFINE s == Types(vm.stack)
           freed == io.freedTwice
<1>1. /\ CanExecute /\ Inst.op \in IOPlainOps
      /\ OP_INPUT_PROMPT => Inst.op = "INPUT_PROMPT"
  BY DEF OP_PRINT_NEWLINE, OP_PRINT_SPACE, OP_PRINT_TAB, OP_PRINT_NOSEP,
         OP_INPUT_PROMPT, Executing, IOPlainOps
<1>2. /\ Reached(vm, s, 0) /\ Inst.op \in IOOps
      /\ Sound => s = Leaves(Inst.op, Types(vm.stack))
  BY <1>1, ReachedFirst, IOShape DEF LegalState, IOOps
<1>3. LegalIO(io, freed) /\ Loaded
  BY DEF LegalState
<1>4. CASE OP_PRINT_NEWLINE
  <2> DEFINE y == Output(io, NewLine)
             y1 == [y EXCEPT !.column = 1]
             y2 == [y1 EXCEPT !.afterTab = FALSE]
  <2>1. LegalIO(y, freed)
    BY <1>3, OutputLegal, TextFacts
  <2> HIDE DEF y
  <2>2. LegalIO(y1, freed)
    <3>1. 1 \in Nat \ {0}
      OBVIOUS
    <3> QED
      BY <2>1, <3>1, FieldLegal
  <2> HIDE DEF y1
  <2>3. LegalIO(y2, freed)
    BY <2>2, FieldLegal
  <2> HIDE DEF y2
  <2>4. LegalIO([y2 EXCEPT !.printChannel = 0], freed)
    <3>1. 0 \in 0..7
      OBVIOUS
    <3> QED
      BY <2>3, <3>1, FieldLegal
  <2>5. CommitIO(Advance(vm), [y2 EXCEPT !.printChannel = 0])
    BY <1>4 DEF OP_PRINT_NEWLINE, y, y1, y2
  <2> QED
    BY <1>1, <1>2, <1>3, <2>4, <2>5, IOAdvance
<1>5. CASE OP_PRINT_SPACE
  <2> DEFINE y == Output(io, Space)
  <2>1. LegalIO(y, freed)
    BY <1>3, OutputLegal, TextFacts
  <2> HIDE DEF y
  <2>2. LegalIO([y EXCEPT !.afterTab = FALSE], freed)
    BY <2>1, FieldLegal
  <2>3. CommitIO(Advance(vm), [y EXCEPT !.afterTab = FALSE])
    BY <1>5 DEF OP_PRINT_SPACE, y
  <2> QED
    BY <1>1, <1>2, <1>3, <2>2, <2>3, IOAdvance
<1>6. CASE OP_PRINT_TAB
  <2> DEFINE y == Printed(io, Space)
  <2>1. LegalIO(y, freed)
    BY <1>3, PrintedLegal, TextFacts
  <2> HIDE DEF y
  <2>2. LegalIO([y EXCEPT !.afterTab = TRUE], freed)
    BY <2>1, FieldLegal
  <2>3. CommitIO(Advance(vm), [y EXCEPT !.afterTab = TRUE])
    BY <1>6 DEF OP_PRINT_TAB, y
  <2> QED
    BY <1>1, <1>2, <1>3, <2>2, <2>3, IOAdvance
<1>7. CASE OP_PRINT_NOSEP
  <2>1. LegalIO([io EXCEPT !.afterTab = TRUE], freed)
    BY <1>3, FieldLegal
  <2>2. CommitIO(Advance(vm), [io EXCEPT !.afterTab = TRUE])
    BY <1>7 DEF OP_PRINT_NOSEP
  <2> QED
    BY <1>1, <1>2, <1>3, <2>1, <2>2, IOAdvance
<1>8. CASE OP_INPUT_PROMPT
  <2>1. io.screen \o Inst.arg \in Text
    BY <1>1, <1>3, <1>8, IOArg, TextFacts DEF LegalIO
  <2>2. LegalIO([io EXCEPT !.screen = io.screen \o Inst.arg], freed)
    BY <1>3, <2>1, FieldLegal
  <2>3. CommitIO(Advance(vm), [io EXCEPT !.screen = io.screen \o Inst.arg])
    BY <1>8 DEF OP_INPUT_PROMPT
  <2> QED
    BY <1>1, <1>2, <1>3, <2>2, <2>3, IOAdvance
<1> QED
  BY <1>4, <1>5, <1>6, <1>7, <1>8

(* The handlers of one number that leave nothing on the stack. *)
LEMMA OneNumberKept ==
    ASSUME LegalState, OP_SET_PRINT_CHANNEL \/ OP_PRINT_NUM \/ OP_TAB_FUNC \/ OP_CLOSE
    PROVE  IOKept
<1> DEFINE s == Types(vm.stack)
           freed == io.freedTwice
           p == vm_pop_number(vm)
<1>1. /\ CanExecute /\ Inst.op \in IONumOps
      /\ Inst.op \in {"SET_PRINT_CHANNEL", "PRINT_NUM", "TAB_FUNC", "CLOSE"}
  BY DEF OP_SET_PRINT_CHANNEL, OP_PRINT_NUM, OP_TAB_FUNC, OP_CLOSE, Executing, IONumOps
<1>2. LegalIO(io, freed) /\ Loaded /\ Inst.op \in IOOps
  BY <1>1 DEF LegalState, IOOps
<1>3. Sound => TopIs(s, "num") /\ Below(s) = Leaves(Inst.op, Types(vm.stack))
  <2>1. SUFFICES ASSUME Sound PROVE TopIs(s, "num") /\ Below(s) = Leaves(Inst.op, s)
    OBVIOUS
  <2>2. TopIs(s, "num") /\ Leaves(Inst.op, s) = Below(s) \o IOLeaves(Inst.op)
    BY <1>1, <1>2, <2>1, IOShape
  <2>3. IOLeaves(Inst.op) = <<>>
    BY <1>1 DEF IOLeaves
  <2>4. Below(s) \in Seq({"num", "str"})
    <3>1. Reached(p.m, Below(s), 0)
      BY <2>1, <2>2, <1>2, ReachedFirst, ReachedNumber
    <3>2. Follows(p.m, vm, Below(s), 0)
      BY <2>1, <3>1 DEF Reached
    <3> QED
      BY <3>2, FollowsType
  <2>5. Below(s) \o <<>> = Below(s)
    BY <2>4
  <2> QED
    BY <2>2, <2>3, <2>5
<1>4. Reached(p.m, Below(s), 0) /\ p.v \in Number /\ p.v \in Int
  BY <1>2, <1>3, ReachedFirst, ReachedNumber
<1> HIDE DEF s
<1>5. CASE OP_SET_PRINT_CHANNEL
  <2> DEFINE chan == IF p.v \in 0..7 THEN p.v ELSE 0
  <2>1. chan \in 0..7
    OBVIOUS
  <2>2. CommitIO(Advance(p.m), [io EXCEPT !.printChannel = chan])
    BY <1>5 DEF OP_SET_PRINT_CHANNEL
  <2> HIDE DEF chan, p
  <2>3. LegalIO([io EXCEPT !.printChannel = chan], freed)
    BY <1>2, <2>1, FieldLegal
  <2> QED
    BY <1>1, <1>2, <1>3, <1>4, <2>2, <2>3, IOAdvance
<1>6. CASE OP_PRINT_NUM
  <2> DEFINE sign  == IF io.afterTab THEN <<>> ELSE Space
             blank == IF FollowedByBlank(p.m) THEN Space ELSE <<>>
             text == sign \o Format12G(p.v) \o blank
  <2>1. sign \in Text /\ blank \in Text /\ Format12G(p.v) \in Text
    BY <1>4, TextFacts, IOAssumption
  <2>2. CommitIO(Advance(p.m), Printed(io, text))
    BY <1>6 DEF OP_PRINT_NUM
  <2> HIDE DEF sign, blank, p
  <2>3. sign \o Format12G(p.v) \in Text
    BY <2>1, TextFacts
  <2>4. text \in Text
    BY <2>1, <2>3, TextFacts
  <2> HIDE DEF text
  <2>5. LegalIO(Printed(io, text), freed)
    BY <1>2, <2>4, PrintedLegal
  <2> QED
    BY <1>1, <1>2, <1>3, <1>4, <2>2, <2>5, IOAdvance
<1>7. CASE OP_TAB_FUNC
  <2> DEFINE column == TargetColumn(p.v)
             skip == IF io.column >= column THEN NewLine ELSE <<>>
             from == IF io.column >= column THEN 1 ELSE io.column
             text == skip \o Blanks(column - from)
             y == Output(io, text)
             y1 == [y EXCEPT !.column = column]
  <2>1. column \in Nat \ {0} /\ from \in Nat \ {0}
    BY <1>2, <1>4 DEF TargetColumn, PrintWidth, LegalIO
  <2>2. CommitIO(Advance(p.m), [y1 EXCEPT !.afterTab = TRUE])
    BY <1>7 DEF OP_TAB_FUNC
  <2> HIDE DEF p, column
  <2>3. column - from \in Nat
    BY <1>2, <2>1 DEF LegalIO
  <2> HIDE DEF from
  <2>4. Blanks(column - from) \in Text
    BY <2>3 DEF Blanks, Text, Char
  <2>5. text \in Text
    BY <2>4, TextFacts
  <2> HIDE DEF text
  <2>6. LegalIO(y, freed)
    BY <1>2, <2>5, OutputLegal
  <2> HIDE DEF y
  <2>7. LegalIO(y1, freed)
    BY <2>1, <2>6, FieldLegal
  <2> HIDE DEF y1
  <2>8. LegalIO([y1 EXCEPT !.afterTab = TRUE], freed)
    BY <2>7, FieldLegal
  <2> QED
    BY <1>1, <1>2, <1>3, <1>4, <2>2, <2>8, IOAdvance
<1>8. CASE OP_CLOSE
  <2> DEFINE y == fclose(io, p.v)
             status == [y.status EXCEPT ![p.v] = 1]
             y1 == [y EXCEPT !.status = status]
             channel == IF y.printChannel = p.v THEN 0 ELSE y.printChannel
             x == IF IsOpen(io, p.v)
                  THEN [fclose(io, p.v) EXCEPT
                           !.status[p.v] = 1,
                           !.printChannel = IF @ = p.v THEN 0 ELSE @]
                  ELSE io
  <2>1. CommitIO(Advance(p.m), x)
    BY <1>8 DEF OP_CLOSE
  <2> HIDE DEF p
  <2>2. LegalIO(y, freed)
    BY <1>2, CloseLegal
  <2>3. x \in {io, [y1 EXCEPT !.printChannel = channel]}
    <3> HIDE DEF y
    <3>1. y1.printChannel = y.printChannel
      BY <2>2 DEF LegalIO, ScalarFields
    <3> QED
      BY <3>1 DEF y
  <2> HIDE DEF y, x
  <2>4. status \in [Channel -> {0, 1, 3, 144, 170}] /\ channel \in 0..7
    <3>1. y.status \in [Channel -> {0, 1, 3, 144, 170}] /\ y.printChannel \in 0..7
      BY <2>2 DEF LegalIO
    <3>2. status \in [Channel -> {0, 1, 3, 144, 170}]
      BY <3>1
    <3>3. channel = 0 \/ channel = y.printChannel
      OBVIOUS
    <3>4. channel \in 0..7
      <4> HIDE DEF channel
      <4> QED
        BY <3>1, <3>3
    <3> QED
      BY <3>2, <3>4
  <2> HIDE DEF status, channel
  <2>5. LegalIO(y1, freed)
    BY <2>2, <2>4, FieldLegal
  <2> HIDE DEF y1
  <2>6. LegalIO([y1 EXCEPT !.printChannel = channel], freed)
    BY <2>4, <2>5, FieldLegal
  <2>7. LegalIO(x, freed)
    BY <1>2, <2>3, <2>6
  <2> QED
    BY <1>1, <1>2, <1>3, <1>4, <2>1, <2>7, IOAdvance
<1> QED
  BY <1>5, <1>6, <1>7, <1>8

(* PRINT of a string, which is freed. *)
LEMMA PrintStrKept ==
    ASSUME LegalState, OP_PRINT_STR
    PROVE  IOKept
<1> DEFINE s == Types(vm.stack)
           p == vm_pop_string(vm)
<1>1. CanExecute /\ Inst.op = "PRINT_STR"
  BY DEF OP_PRINT_STR, Executing
<1>2. LegalIO(io, io.freedTwice) /\ Loaded /\ Inst.op \in IOOps
  BY <1>1 DEF LegalState, IOOps
<1>3. Sound => TopIs(s, "str") /\ Below(s) = Leaves(Inst.op, Types(vm.stack))
  BY <1>1, <1>2, IOShape
<1>4. Reached(p.m, Below(s), 0 + 1) /\ p.v \in Text
  BY <1>2, <1>3, ReachedFirst, ReachedString
<1>6. Reached(Free(p.m), Below(s), 0)
  BY <1>4, ReachedFree
<1>7. CommitIO(Advance(Free(p.m)), Printed(io, p.v))
  BY DEF OP_PRINT_STR
<1>8. LegalIO(Printed(io, p.v), io.freedTwice)
  BY <1>2, <1>4, PrintedLegal
<1> HIDE DEF p, s
<1> QED
  BY <1>1, <1>2, <1>3, <1>6, <1>7, <1>8, IOAdvance DEF s

(* The handlers that put one number, or two, in the place of another, or   *)
(* fail.                                                                   *)
LEMMA NumberForNumber ==
    ASSUME LegalState, CanExecute, Inst.op \in {"GET", "STATUS", "FUNC_PEEK", "NOTE"}
    PROVE  LET p == vm_pop_number(vm)
           IN  /\ p.m \in Machine /\ p.v \in Number /\ p.v \in Int
               /\ Inst.op # "NOTE" =>
                     \A a \in Number : \A x :
                        LegalIO(x, io.freedTwice)
                        /\ CommitIO(Advance(vm_push_number(p.m, a)), x) => IOKept
               /\ Inst.op = "NOTE" =>
                     \A a \in Number, b \in Number :
                        CommitIO(Advance(vm_push_number(vm_push_number(p.m, a), b)), io)
                        => IOKept
               /\ \A code \in {ERR_ILLEGAL_FUNCTION, ERR_FILE_NOT_FOUND} :
                     CommitIO(vm_error(p.m, code), io) => IOKept
<1> DEFINE s == Types(vm.stack)
           p == vm_pop_number(vm)
           s1 == Below(s)
<1>1. LegalIO(io, io.freedTwice) /\ Loaded /\ Inst.op \in IOOps /\ Inst.op \in IONumOps
  BY DEF LegalState, IOOps, IONumOps
<1>2. Sound => TopIs(s, "num") /\ Leaves(Inst.op, s) = s1 \o IOLeaves(Inst.op)
  BY <1>1, IOShape
<1>3. Reached(p.m, s1, 0) /\ p.v \in Number /\ p.v \in Int
  BY <1>1, <1>2, ReachedFirst, ReachedNumber
<1>4. p.m \in Machine /\ (Sound => s1 \in Seq({"num", "str"}))
  BY <1>3, FollowsType DEF Reached
<1> HIDE DEF s1, p
<1>5. Inst.op # "NOTE" /\ Sound => Above(s1, "num") = Leaves(Inst.op, s)
  <2> SUFFICES ASSUME Inst.op # "NOTE", Sound
               PROVE  Above(s1, "num") = Leaves(Inst.op, s)
    OBVIOUS
  <2>1. IOLeaves(Inst.op) = <<"num">>
    BY DEF IOLeaves
  <2>2. Append(s1, "num") = s1 \o <<"num">>
    BY <1>4
  <2> QED
    BY <1>2, <2>1, <2>2 DEF Above
<1>6. Inst.op = "NOTE" /\ Sound => Above(Above(s1, "num"), "num") = Leaves(Inst.op, s)
  <2> SUFFICES ASSUME Inst.op = "NOTE", Sound
               PROVE  Above(Above(s1, "num"), "num") = Leaves(Inst.op, s)
    OBVIOUS
  <2>1. IOLeaves(Inst.op) = <<"num", "num">>
    BY DEF IOLeaves
  <2>2. Append(Append(s1, "num"), "num") = s1 \o <<"num", "num">>
    BY <1>4
  <2> QED
    BY <1>2, <2>1, <2>2 DEF Above
<1>7. ASSUME Inst.op # "NOTE", NEW a \in Number, NEW x, LegalIO(x, io.freedTwice),
             CommitIO(Advance(vm_push_number(p.m, a)), x)
      PROVE  IOKept
  <2>1. Reached(vm_push_number(p.m, a), Above(s1, "num"), 0)
    BY <1>3, ReachedPush
  <2> QED
    BY <1>1, <1>5, <1>7, <2>1, IOAdvance
<1>8. ASSUME Inst.op = "NOTE", NEW a \in Number, NEW b \in Number,
             CommitIO(Advance(vm_push_number(vm_push_number(p.m, a), b)), io)
      PROVE  IOKept
  <2>1. Reached(vm_push_number(p.m, a), Above(s1, "num"), 0)
    BY <1>3, ReachedPush
  <2>2. Reached(vm_push_number(vm_push_number(p.m, a), b),
                Above(Above(s1, "num"), "num"), 0)
    BY <2>1, ReachedPush
  <2> QED
    BY <1>1, <1>6, <1>8, <2>2, IOAdvance
<1>9. ASSUME NEW code \in {ERR_ILLEGAL_FUNCTION, ERR_FILE_NOT_FOUND},
             CommitIO(vm_error(p.m, code), io)
      PROVE  IOKept
  BY <1>1, <1>3, <1>9, IOFails
<1> QED
  BY <1>3, <1>4, <1>7, <1>8, <1>9 DEF p

(* GET, STATUS, PEEK and NOTE. *)
LEMMA NumberForNumberKept ==
    ASSUME LegalState, OP_GET \/ OP_STATUS \/ OP_FUNC_PEEK \/ OP_NOTE
    PROVE  IOKept
<1> DEFINE p == vm_pop_number(vm)
           chan == p.v
           freed == io.freedTwice
<1>1. /\ CanExecute /\ Inst.op \in {"GET", "STATUS", "FUNC_PEEK", "NOTE"}
      /\ OP_GET => Inst.op = "GET"
      /\ OP_STATUS => Inst.op = "STATUS"
      /\ OP_FUNC_PEEK => Inst.op = "FUNC_PEEK"
      /\ OP_NOTE => Inst.op = "NOTE"
  BY DEF OP_GET, OP_STATUS, OP_FUNC_PEEK, OP_NOTE, Executing
<1>2. LegalIO(io, freed) /\ Byte \subseteq Number /\ 0 \in Number
  BY IOAssumption DEF LegalState, Byte
<1>3. /\ Inst.op # "NOTE" =>
            \A a \in Number : \A x :
               LegalIO(x, freed) /\ CommitIO(Advance(vm_push_number(p.m, a)), x) => IOKept
      /\ Inst.op = "NOTE" =>
            \A a \in Number, b \in Number :
               CommitIO(Advance(vm_push_number(vm_push_number(p.m, a), b)), io) => IOKept
      /\ \A code \in {ERR_ILLEGAL_FUNCTION, ERR_FILE_NOT_FOUND} :
            CommitIO(vm_error(p.m, code), io) => IOKept
  BY <1>1, NumberForNumber
<1>4. CASE OP_GET
  <2> DEFINE stream == io.handle[chan]
             status == [io.status EXCEPT ![chan] = 1]
             ended == [io.status EXCEPT ![chan] = 3]
             y == [io EXCEPT !.status = status]
             byte == io.files[stream.file][stream.pos + 1]
  <2>1. CASE ~IsOpen(io, chan)
    <3>1. CommitIO(vm_error(p.m, ERR_FILE_NOT_FOUND), io)
      BY <1>4, <2>1 DEF OP_GET
    <3> QED
      BY <1>3, <3>1
  <2>2. CASE IsOpen(io, chan) /\ Reads(stream) /\ stream.pos < Len(io.files[stream.file])
    <3>1. CommitIO(Advance(vm_push_number(p.m, byte)),
                   [io EXCEPT !.status[chan] = 1, !.handle[chan].pos = @ + 1])
      BY <1>4, <2>2 DEF OP_GET
    <3> HIDE DEF p
    <3>2. /\ chan \in Channel /\ io.handle \in [Channel -> Stream \cup {Closed}]
          /\ stream.pos \in Nat /\ stream.file \in FileNames
      BY <1>2, <2>2, HandleFields
    <3>3. status \in [Channel -> {0, 1, 3, 144, 170}]
      BY <1>2 DEF LegalIO
    <3>4. LegalIO(y, freed) /\ y.handle = io.handle
      <4>1. y.handle = io.handle
        BY <1>2 DEF LegalIO, ScalarFields
      <4> HIDE DEF status
      <4> QED
        BY <1>2, <3>3, <4>1, FieldLegal
    <3>5. [io EXCEPT !.status[chan] = 1, !.handle[chan].pos = @ + 1]
            = [y EXCEPT !.handle[chan].pos = stream.pos + 1]
      BY <1>2, <3>4 DEF LegalIO, ScalarFields
    <3> HIDE DEF y
    <3>6. LegalIO([y EXCEPT !.handle[chan].pos = stream.pos + 1], freed)
      <4>1. stream.pos + 1 \in Nat /\ IsOpen(y, chan)
        BY <2>2, <3>2, <3>4 DEF IsOpen
      <4> QED
        BY <3>4, <4>1, MoveLegal
    <3>7. byte \in Number
      <4>1. io.files[stream.file] \in Seq(Byte)
        BY <1>2, <2>2, HandleFields
      <4>2. stream.pos + 1 \in 1..Len(io.files[stream.file])
        BY <2>2, <3>2, <4>1
      <4>3. byte \in Byte
        BY <4>1, <4>2
      <4> QED
        BY <1>2, <4>3
    <3> QED
      BY <1>1, <1>3, <1>4, <3>1, <3>5, <3>6, <3>7
  <2>3. CASE IsOpen(io, chan) /\ ~(Reads(stream) /\ stream.pos < Len(io.files[stream.file]))
    <3>1. CommitIO(Advance(vm_push_number(p.m, 0)), [io EXCEPT !.status = ended])
      BY <1>4, <2>3 DEF OP_GET
    <3>2. ended \in [Channel -> {0, 1, 3, 144, 170}]
      BY <1>2 DEF LegalIO
    <3> HIDE DEF ended
    <3>3. LegalIO([io EXCEPT !.status = ended], freed)
      BY <1>2, <3>2, FieldLegal
    <3> QED
      BY <1>1, <1>2, <1>3, <1>4, <3>1, <3>3
  <2> QED
    BY <2>1, <2>2, <2>3
<1>5. CASE OP_STATUS
  <2> DEFINE status == IF chan \in Channel THEN io.status[chan] ELSE 1
  <2>1. CommitIO(Advance(vm_push_number(p.m, status)), io)
    BY <1>5 DEF OP_STATUS
  <2>2. status \in Number
    <3>1. io.status \in [Channel -> {0, 1, 3, 144, 170}]
      BY <1>2 DEF LegalIO
    <3>2. status \in {0, 1, 3, 144, 170}
      BY <3>1
    <3>3. {0, 1, 3, 144, 170} \subseteq Byte
      BY DEF Byte
    <3> QED
      BY <1>2, <3>2, <3>3
  <2> QED
    BY <1>1, <1>2, <1>3, <1>5, <2>1, <2>2
<1>6. CASE OP_FUNC_PEEK
  <2> DEFINE byte == IF chan \in DOMAIN io.memory THEN io.memory[chan] ELSE 0
  <2>1. CASE chan \notin Address
    <3>1. CommitIO(vm_error(p.m, ERR_ILLEGAL_FUNCTION), io)
      BY <1>6, <2>1 DEF OP_FUNC_PEEK
    <3> QED
      BY <1>3, <3>1
  <2>2. CASE chan \in Address
    <3>1. CommitIO(Advance(vm_push_number(p.m, byte)), io)
      BY <1>6, <2>2 DEF OP_FUNC_PEEK
    <3>2. byte \in Number
      <4>1. MemoryTable(io.memory)
        BY <1>2 DEF LegalIO
      <4> QED
        BY <1>2, <4>1 DEF MemoryTable
    <3> QED
      BY <1>1, <1>2, <1>3, <1>6, <3>1, <3>2
  <2> QED
    BY <2>1, <2>2
<1>7. CASE OP_NOTE
  <2> DEFINE pos == io.handle[chan].pos
  <2>1. CASE ~IsOpen(io, chan)
    <3>1. CommitIO(vm_error(p.m, ERR_FILE_NOT_FOUND), io)
      BY <1>7, <2>1 DEF OP_NOTE
    <3> QED
      BY <1>3, <3>1
  <2>2. CASE IsOpen(io, chan)
    <3>1. /\ pos \div SectorSize \in Number
          /\ CommitIO(Advance(vm_push_number(vm_push_number(p.m,
                          pos \div SectorSize), pos % SectorSize)), io)
      BY <1>7, <2>2 DEF OP_NOTE
    <3>2. pos \in Nat
      BY <1>2, <2>2, HandleFields
    <3> HIDE DEF pos
    <3>3. pos % SectorSize \in Byte
      BY <3>2 DEF SectorSize, Byte
    <3> QED
      BY <1>1, <1>2, <1>3, <1>7, <3>1, <3>3
  <2> QED
    BY <2>1, <2>2
<1> QED
  BY <1>4, <1>5, <1>6, <1>7

(* Two numbers that leave nothing: PUT and POKE. *)
LEMMA PairKept ==
    ASSUME LegalState, OP_PUT \/ OP_POKE
    PROVE  IOKept
<1> DEFINE s == Types(vm.stack)
           b == vm_pop_number(vm)
           a == vm_pop_number(b.m)
           s2 == Below(Below(s))
           freed == io.freedTwice
<1>1. /\ CanExecute /\ Inst.op \in IOPairOps /\ Inst.op \in IOOps
      /\ LegalIO(io, freed) /\ Loaded
  BY DEF OP_PUT, OP_POKE, Executing, IOPairOps, IOOps, LegalState
<1>2. Sound => TopIs(s, "num") /\ TopIs(Below(s), "num") /\ s2 = Leaves(Inst.op, s)
  BY <1>1, IOShape
<1>3. Reached(b.m, Below(s), 0) /\ b.v \in Int
  BY <1>1, <1>2, ReachedFirst, ReachedNumber
<1>4. Reached(a.m, s2, 0)
  BY <1>2, <1>3, ReachedNumber
<1> HIDE DEF s2
<1>5. ASSUME NEW x, LegalIO(x, freed), CommitIO(Advance(a.m), x)
      PROVE  IOKept
  BY <1>1, <1>2, <1>4, <1>5, IOAdvance
<1>6. ASSUME NEW code \in {ERR_ILLEGAL_FUNCTION, ERR_FILE_NOT_FOUND},
             CommitIO(vm_error(a.m, code), io)
      PROVE  IOKept
  BY <1>1, <1>4, <1>6, IOFails
<1>7. b.v % 256 \in Byte
  <2> HIDE DEF b
  <2> QED
    BY <1>3 DEF Byte
<1>8. CASE OP_PUT
  <2>1. CASE ~IsOpen(io, a.v)
    <3>1. CommitIO(vm_error(a.m, ERR_FILE_NOT_FOUND), io)
      BY <1>8, <2>1 DEF OP_PUT
    <3> QED
      BY <1>6, <3>1
  <2>2. CASE IsOpen(io, a.v)
    <3> DEFINE y == fwrite(io, a.v, <<b.v % 256>>)
               done == IF Writes(io.handle[a.v]) THEN 1 ELSE 144
               status == [y.status EXCEPT ![a.v] = done]
    <3>1. CommitIO(Advance(a.m), [y EXCEPT !.status = status])
      BY <1>8, <2>2 DEF OP_PUT
    <3> HIDE DEF a, b
    <3>2. <<b.v % 256>> \in Seq(Byte)
      BY <1>7
    <3>3. LegalIO(y, freed)
      BY <1>1, <2>2, <3>2, WriteLegal
    <3>4. y.status \in [Channel -> {0, 1, 3, 144, 170}]
      BY <3>3 DEF LegalIO
    <3> HIDE DEF y
    <3>5. status \in [Channel -> {0, 1, 3, 144, 170}]
      BY <3>4
    <3> HIDE DEF status
    <3>6. LegalIO([y EXCEPT !.status = status], freed)
      BY <3>3, <3>5, FieldLegal
    <3> QED
      BY <1>5, <3>1, <3>6
  <2> QED
    BY <2>1, <2>2
<1>9. CASE OP_POKE
  <2>1. CASE a.v \notin Address
    <3>1. CommitIO(vm_error(a.m, ERR_ILLEGAL_FUNCTION), io)
      BY <1>9, <2>1 DEF OP_POKE
    <3> QED
      BY <1>6, <3>1
  <2>2. CASE a.v \in Address
    <3> DEFINE memory == With(io.memory, a.v, b.v % 256)
    <3>1. CommitIO(Advance(a.m), [io EXCEPT !.memory = memory])
      BY <1>9, <2>2 DEF OP_POKE
    <3> HIDE DEF a, b
    <3>2. MemoryTable(io.memory)
      BY <1>1 DEF LegalIO
    <3>3. MemoryTable(memory)
      BY <1>7, <2>2, <3>2 DEF MemoryTable, With
    <3> HIDE DEF memory
    <3>4. LegalIO([io EXCEPT !.memory = memory], freed)
      BY <1>1, <3>3, MemoryLegal
    <3> QED
      BY <1>5, <3>1, <3>4
  <2> QED
    BY <2>1, <2>2
<1> QED
  BY <1>8, <1>9

(* POINT. *)
LEMMA PointKept ==
    ASSUME LegalState, OP_POINT
    PROVE  IOKept
<1> DEFINE s == Types(vm.stack)
           c == vm_pop_number(vm)
           b == vm_pop_number(c.m)
           a == vm_pop_number(b.m)
           s3 == Below(Below(Below(s)))
           freed == io.freedTwice
<1>1. /\ CanExecute /\ Inst.op = "POINT" /\ Inst.op \in IOOps
      /\ LegalIO(io, freed) /\ Loaded
  BY DEF OP_POINT, Executing, IOOps, LegalState
<1>2. Sound => /\ TopIs(s, "num") /\ TopIs(Below(s), "num")
               /\ TopIs(Below(Below(s)), "num") /\ s3 = Leaves(Inst.op, s)
  BY <1>1, IOShape
<1>3. Reached(c.m, Below(s), 0) /\ c.v \in Int
  BY <1>1, <1>2, ReachedFirst, ReachedNumber
<1>4. Reached(b.m, Below(Below(s)), 0) /\ b.v \in Int
  BY <1>2, <1>3, ReachedNumber
<1>5. Reached(a.m, s3, 0)
  BY <1>2, <1>4, ReachedNumber
<1> HIDE DEF s3
<1>6. ASSUME NEW x, LegalIO(x, freed), CommitIO(Advance(a.m), x)
      PROVE  IOKept
  BY <1>1, <1>2, <1>5, <1>6, IOAdvance
<1>7. CASE ~IsOpen(io, a.v)
  <2>1. CommitIO(vm_error(a.m, ERR_FILE_NOT_FOUND), io)
    BY <1>7 DEF OP_POINT
  <2> QED
    BY <1>1, <1>5, <2>1, IOFails
<1>8. CASE IsOpen(io, a.v)
  <2> DEFINE pos == b.v * SectorSize + c.v
             moved == [io.status EXCEPT ![a.v] = 0]
             stays == [io.status EXCEPT ![a.v] = 1]
             y == [io EXCEPT !.status = moved]
  <2>1. CommitIO(Advance(a.m), IF pos < 0 THEN [io EXCEPT !.status = stays]
                               ELSE [io EXCEPT !.status[a.v] = 0, !.handle[a.v].pos = pos])
    BY <1>8 DEF OP_POINT
  <2>2. pos \in Int
    BY <1>3, <1>4 DEF SectorSize
  <2> HIDE DEF a, pos
  <2>3. /\ io.status \in [Channel -> {0, 1, 3, 144, 170}]
        /\ moved \in [Channel -> {0, 1, 3, 144, 170}]
        /\ stays \in [Channel -> {0, 1, 3, 144, 170}]
    BY <1>1 DEF LegalIO
  <2>4. y.handle = io.handle /\ IsOpen(y, a.v)
    BY <1>1, <1>8 DEF LegalIO, ScalarFields, IsOpen
  <2>5. [io EXCEPT !.status[a.v] = 0, !.handle[a.v].pos = pos]
          = [y EXCEPT !.handle[a.v].pos = pos]
    BY <1>1, <2>4 DEF LegalIO, ScalarFields
  <2> HIDE DEF moved, stays
  <2>6. LegalIO(y, freed) /\ LegalIO([io EXCEPT !.status = stays], freed)
    BY <1>1, <2>3, FieldLegal
  <2> HIDE DEF y
  <2>7. CASE pos < 0
    BY <1>6, <2>1, <2>6, <2>7
  <2>8. CASE ~(pos < 0)
    <3>1. pos \in Nat
      BY <2>2, <2>8
    <3>2. LegalIO([y EXCEPT !.handle[a.v].pos = pos], freed)
      BY <2>4, <2>6, <3>1, MoveLegal
    <3>3. CommitIO(Advance(a.m), [y EXCEPT !.handle[a.v].pos = pos])
      BY <2>1, <2>5, <2>8
    <3> QED
      BY <1>6, <3>2, <3>3
  <2> QED
    BY <2>7, <2>8
<1> QED
  BY <1>7, <1>8

(* INPUT of a number and of a string.  The string that the variable had is *)
(* freed before the new one is allocated.                                  *)
LEMMA InputKept ==
    ASSUME LegalState, OP_INPUT_NUM \/ OP_INPUT_STR
    PROVE  IOKept
<1> DEFINE s == Types(vm.stack)
           freed == io.freedTwice
<1>1. /\ CanExecute /\ Inst.op \in IOPlainOps /\ Inst.op \in IOOps
      /\ Inst.op \in {"INPUT_NUM", "INPUT_STR"}
      /\ LegalIO(io, freed) /\ Loaded
  BY DEF OP_INPUT_NUM, OP_INPUT_STR, Executing, IOPlainOps, IOOps, LegalState
<1>2. vm \in Machine /\ Inst.arg \in Slot
  BY <1>1, IOArg DEF Loaded, TypeOK
<1>3. /\ Sound => Leaves(Inst.op, s) = s
      /\ Inst.op \notin OnOps
  BY <1>1, IOShape, IOTakesWhat
<1>4. vm.numVars \in [Slot -> Number] /\ vm.strVars \in [Slot -> Text]
  BY <1>2, MachineFields
<1>5. ASSUME NEW k, k \in Machine, Sound => SameControl(k),
             NEW m, Advance(m) \in Machine, Sound => Follows(m, k, s, 0),
             NEW x, LegalIO(x, freed), CommitIO(Advance(m), x)
      PROVE  IOKept
  <2>1. Commit(Advance(m)) /\ io' = x /\ prog' = prog
    BY <1>5 DEF CommitIO, Commit
  <2>2. Loaded'
    BY <1>1, <1>5, <2>1, CommitLoaded
  <2>3. ASSUME Sound PROVE SoundStep
    <3>1. SoundInv /\ prog.typed /\ SameControl(k)
          /\ Follows(m, k, Leaves(Inst.op, Types(vm.stack)), 0)
      BY <1>3, <1>5, <2>3 DEF Sound
    <3> QED
      BY <1>1, <1>3, <2>1, <3>1, PlainSound
  <2> QED
    BY <1>5, <2>1, <2>2, <2>3 DEF IOKept
<1>6. CASE OP_INPUT_NUM
  <2> DEFINE rejected == SelectInSeq(Pending(io) \o << << <<>> >> >>, Acceptable) - 1
             taken == Taken(io, rejected)
             n     == IF taken.value = <<>> THEN 0 ELSE Atof(taken.value)
             stored == [vm.numVars EXCEPT ![Inst.arg] = n]
             k == [vm EXCEPT !.numVars = stored]
  <2>1. n \in Number /\ CommitIO(Advance(k), taken.io)
    BY <1>6 DEF OP_INPUT_NUM
  <2>2. rejected \in 0..Len(Pending(io))
    BY <1>1, RejectedCount
  <2> HIDE DEF rejected
  <2>3. LegalIO(taken.io, freed)
    BY <1>1, <2>2, TakenLegal
  <2> HIDE DEF taken, n
  <2>4. stored \in [Slot -> Number]
    BY <1>2, <1>4, <2>1
  <2> HIDE DEF stored
  <2>5. k \in Machine /\ Advance(k) \in Machine
    BY <1>2, <2>4, FieldType, UpdateType
  <2>6. Sound => SameControl(k)
    BY <2>4, SameControlIs DEF Sound
  <2>7. Follows(k, k, s, 0)
    <3>1. k.stack = vm.stack
      BY <1>2 DEF Machine
    <3> HIDE DEF k
    <3> QED
      BY <2>5, <3>1, FollowsSelf
  <2> HIDE DEF k
  <2> QED
    BY <1>5, <2>1, <2>3, <2>5, <2>6, <2>7
<1>7. CASE OP_INPUT_STR
  <2> DEFINE taken == Taken(io, 0)
             stored == [vm.strVars EXCEPT ![Inst.arg] = taken.value]
             k == [vm EXCEPT !.strVars = stored]
  <2>1. CommitIO(Advance(Alloc(Free(k))), taken.io)
    BY <1>7 DEF OP_INPUT_STR
  <2>2. 0 \in 0..Len(Pending(io))
    BY <1>1, PendingLines
  <2>3. LegalIO(taken.io, freed) /\ taken.value \in Text
    BY <1>1, <2>2, TakenLegal
  <2> HIDE DEF taken
  <2>4. stored \in [Slot -> Text]
    BY <1>2, <1>4, <2>3
  <2> HIDE DEF stored
  <2>5. k \in Machine
    BY <1>2, <2>4, FieldType
  <2>6. Sound => SameControl(k)
    BY <2>4, SameControlIs DEF Sound
  <2>7. k.stack = vm.stack
    BY <1>2 DEF Machine
  <2> HIDE DEF k
  <2>8. Follows(k, k, s, 0)
    BY <2>5, <2>7, FollowsSelf
  <2>9. Follows(Free(k), k, s, 0 - 1)
    BY <2>8, AllocFollows
  <2>10. Follows(Alloc(Free(k)), k, s, 0 - 1 + 1)
    BY <2>9, AllocFollows
  <2>11. Follows(Alloc(Free(k)), k, s, 0)
    BY <2>10
  <2>12. Advance(Alloc(Free(k))) \in Machine
    BY <2>11, UpdateType DEF Follows
  <2> QED
    BY <1>5, <2>1, <2>3, <2>5, <2>6, <2>11, <2>12
<1> QED
  BY <1>6, <1>7

(* OPEN, of a channel that may be open. *)
LEMMA OpenKept ==
    ASSUME LegalState, OP_OPEN
    PROVE  IOKept
<1> DEFINE s == Types(vm.stack)
           filename == vm_pop_string(vm)
           aux     == vm_pop_number(filename.m)
           mode    == vm_pop_number(aux.m)
           channel == vm_pop_number(mode.m)
           chan    == channel.v
           s4 == Below(Below(Below(Below(s))))
           freed == io.freedTwice
<1>1. /\ CanExecute /\ Inst.op = "OPEN" /\ Inst.op \in IOOps
      /\ LegalIO(io, freed) /\ Loaded
  BY DEF OP_OPEN, Executing, IOOps, LegalState
<1>2. Sound => /\ TopIs(s, "str") /\ TopIs(Below(s), "num")
               /\ TopIs(Below(Below(s)), "num") /\ TopIs(Below(Below(Below(s))), "num")
               /\ s4 = Leaves(Inst.op, s)
  BY <1>1, IOShape
<1>3. Reached(filename.m, Below(s), 0 + 1)
  BY <1>1, <1>2, ReachedFirst, ReachedString
<1>4. Reached(aux.m, Below(Below(s)), 0 + 1)
  BY <1>2, <1>3, ReachedNumber
<1>5. Reached(mode.m, Below(Below(Below(s))), 0 + 1)
  BY <1>2, <1>4, ReachedNumber
<1>6. Reached(channel.m, s4, 0 + 1)
  BY <1>2, <1>5, ReachedNumber
<1>7. Reached(Free(channel.m), s4, 0) /\ channel.m \in Machine
  BY <1>6, ReachedFree DEF Reached
<1> HIDE DEF s4
<1>8. CASE chan \notin Channel
  <2>1. CommitIO(Free(vm_error(channel.m, ERR_BAD_FILE_NUMBER)), io)
    BY <1>8 DEF OP_OPEN
  <2> HIDE DEF channel
  <2>2. CommitIO(vm_error(Free(channel.m), ERR_BAD_FILE_NUMBER), io)
    BY <1>7, <2>1, FreeError
  <2> QED
    BY <1>1, <1>7, <2>2, IOFails
<1>9. CASE chan \in Channel
  <2> DEFINE closed  == fclose(io, chan)
             Try(how) == fopen(closed, chan, filename.v, how)
             opened  == CASE mode.v = 8  -> Try("wb")
                          [] mode.v = 12 -> IF IsOpen(Try("r+b"), chan) THEN Try("r+b")
                                            ELSE Try("w+b")
                          [] OTHER       -> Try("rb")
             done == IF IsOpen(opened, chan) THEN 1 ELSE 170
             status == [opened.status EXCEPT ![chan] = done]
  <2>1. CommitIO(Advance(Free(channel.m)), [opened EXCEPT !.status = status])
    BY <1>9 DEF OP_OPEN
  <2> HIDE DEF channel, mode, filename
  <2>2. LegalIO(closed, freed) /\ closed.handle[chan] = Closed
    BY <1>1, <1>9, CloseLegal
  <2> HIDE DEF closed
  <2>3. \A how \in {"rb", "wb", "r+b", "w+b"} : LegalIO(Try(how), freed)
    BY <1>9, <2>2, OpenLegal
  <2>4. opened \in {Try("wb"), Try("r+b"), Try("w+b"), Try("rb")}
    <3> HIDE DEF Try
    <3> QED
      OBVIOUS
  <2> HIDE DEF opened
  <2>5. LegalIO(opened, freed)
    BY <2>3, <2>4
  <2>6. opened.status \in [Channel -> {0, 1, 3, 144, 170}]
    BY <2>5 DEF LegalIO
  <2>7. status \in [Channel -> {0, 1, 3, 144, 170}]
    BY <2>6
  <2> HIDE DEF status
  <2>8. LegalIO([opened EXCEPT !.status = status], freed)
    BY <2>5, <2>7, FieldLegal
  <2> QED
    BY <1>1, <1>2, <1>7, <2>1, <2>8, IOAdvance
<1> QED
  BY <1>8, <1>9

(* What is left of the state when a string has been freed twice. *)
IOUndefined == Loaded' /\ LegalIO(io', TRUE)

LEMMA XIOFailedKept ==
    ASSUME Loaded, NEW m \in Machine, NEW code \in ErrorCode,
           NEW x, LegalIO(x, io.freedTwice), XIOFailed(m, code, x)
    PROVE  IOUndefined
<1> DEFINE failed == Free(vm_error(Free(m), code))
           stopped == [failed EXCEPT !.running = FALSE]
           y == [x EXCEPT !.freedTwice = TRUE]
<1>1. failed \in Machine /\ Advance(failed) \in Machine
  <2>1. Free(m) \in Machine
    BY UpdateType
  <2>2. vm_error(Free(m), code) \in Machine
    BY <2>1, ErrorType
  <2> QED
    BY <2>2, UpdateType
<1>2. CommitIO(stopped, y) \/ CommitIO(Advance(failed), y)
  BY DEF XIOFailed
<1> HIDE DEF failed
<1>3. stopped \in Machine
  BY <1>1, FieldType
<1> HIDE DEF stopped
<1>4. LegalIO(y, TRUE)
  BY FieldLegal
<1>5. (Commit(stopped) \/ Commit(Advance(failed))) /\ io' = y
  BY <1>2 DEF CommitIO, Commit
<1> QED
  BY <1>1, <1>3, <1>4, <1>5, CommitLoaded DEF IOUndefined

(* XIO. *)
LEMMA XIOKept ==
    ASSUME LegalState, OP_XIO
    PROVE  IOKept \/ IOUndefined
<1> DEFINE s == Types(vm.stack)
           device  == vm_pop_string(vm)
           aux2    == vm_pop_number(device.m)
           aux1    == vm_pop_number(aux2.m)
           channel == vm_pop_number(aux1.m)
           command == vm_pop_number(channel.m)
           chan    == channel.v
           m       == command.m
           s5 == Below(Below(Below(Below(Below(s)))))
           freed == io.freedTwice
           closed  == fclose(io, chan)
           opened  == fopen(closed, chan, device.v, IF command.v = 3 THEN "rb" ELSE "wb")
<1>1. /\ CanExecute /\ Inst.op = "XIO" /\ Inst.op \in IOOps
      /\ LegalIO(io, freed) /\ Loaded
  BY DEF OP_XIO, Executing, IOOps, LegalState
<1>2. Sound => /\ TopIs(s, "str") /\ TopIs(Below(s), "num")
               /\ TopIs(Below(Below(s)), "num") /\ TopIs(Below(Below(Below(s))), "num")
               /\ TopIs(Below(Below(Below(Below(s)))), "num")
               /\ s5 = Leaves(Inst.op, s)
  BY <1>1, IOShape
<1>3. Reached(device.m, Below(s), 0 + 1) /\ device.v \in Text
  BY <1>1, <1>2, ReachedFirst, ReachedString
<1>4. Reached(aux2.m, Below(Below(s)), 0 + 1)
  BY <1>2, <1>3, ReachedNumber
<1>5. Reached(aux1.m, Below(Below(Below(s))), 0 + 1)
  BY <1>2, <1>4, ReachedNumber
<1>6. Reached(channel.m, Below(Below(Below(Below(s)))), 0 + 1)
  BY <1>2, <1>5, ReachedNumber
<1>7. Reached(m, s5, 0 + 1)
  BY <1>2, <1>6, ReachedNumber
<1>8. Reached(Free(m), s5, 0) /\ m \in Machine
  BY <1>7, ReachedFree DEF Reached
<1> HIDE DEF s5
<1>9. ASSUME NEW x, LegalIO(x, freed), CommitIO(Advance(Free(m)), x)
      PROVE  IOKept
  BY <1>1, <1>2, <1>8, <1>9, IOAdvance
<1>10. ASSUME NEW code \in {ERR_FILE_NOT_FOUND, ERR_DEVICE_IO, ERR_ILLEGAL_FUNCTION},
              NEW x, LegalIO(x, freed), XIOFailed(m, code, x)
       PROVE  IOUndefined
  <2>1. code \in ErrorCode
    BY DEF ErrorCode, ERR_FILE_NOT_FOUND, ERR_DEVICE_IO, ERR_ILLEGAL_FUNCTION
  <2> HIDE DEF m
  <2> QED
    BY <1>1, <1>8, <1>10, <2>1, XIOFailedKept
<1>11. \/ chan \notin Channel /\ CommitIO(vm_error(Free(m), ERR_BAD_FILE_NUMBER), io)
       \/ /\ chan \in Channel
          /\ \/ CommitIO(Advance(Free(m)), opened)
             \/ XIOFailed(m, ERR_FILE_NOT_FOUND, opened)
             \/ XIOFailed(m, ERR_DEVICE_IO, opened)
       \/ CommitIO(Advance(Free(m)), closed)
       \/ /\ Exclusive(0, device.v)
          /\ CommitIO(Advance(Free(m)), [io EXCEPT !.files = Without(@, device.v),
                                                   !.screen = @ \o Deleted(device.v)])
       \/ XIOFailed(m, ERR_DEVICE_IO, io)
       \/ XIOFailed(m, ERR_ILLEGAL_FUNCTION, io)
  BY DEF OP_XIO
<1> HIDE DEF m
<1>12. LegalIO(closed, freed) /\ (chan \in Channel => closed.handle[chan] = Closed)
  <2> HIDE DEF channel
  <2> QED
    BY <1>1, CloseLegal
<1>13. chan \in Channel => LegalIO(opened, freed)
  <2> HIDE DEF closed, channel, device, command
  <2> QED
    BY <1>12, OpenLegal
<1>14. Exclusive(0, device.v) =>
          LegalIO([io EXCEPT !.files = Without(@, device.v),
                             !.screen = @ \o Deleted(device.v)], freed)
  <2> SUFFICES ASSUME Exclusive(0, device.v)
               PROVE  LegalIO([io EXCEPT !.files = Without(@, device.v),
                                         !.screen = @ \o Deleted(device.v)], freed)
    OBVIOUS
  <2> DEFINE files == Without(io.files, device.v)
             screen == io.screen \o Deleted(device.v)
             y == [io EXCEPT !.files = files]
  <2>1. Deleted(device.v) \in Text
    <3> HIDE DEF device
    <3> QED
      BY <1>3, TextFacts DEF Deleted
  <2>2. screen \in Text
    BY <1>1, <2>1, TextFacts DEF LegalIO
  <2> HIDE DEF device
  <2>3. FileTable(io.files) /\ OpenFiles(io.handle) \subseteq DOMAIN io.files
    BY <1>1 DEF LegalIO
  <2>4. device.v \notin OpenFiles(io.handle)
    BY DEF Exclusive, OpenFiles, OpenChannels, Channel
  <2>5. FileTable(files) /\ OpenFiles(io.handle) \subseteq DOMAIN files
    BY <2>3, <2>4 DEF FileTable, Without
  <2>6. [io EXCEPT !.files = Without(@, device.v), !.screen = @ \o Deleted(device.v)]
          = [y EXCEPT !.screen = screen]
    BY <1>1 DEF LegalIO, ScalarFields
  <2> HIDE DEF files, screen
  <2>7. LegalIO(y, freed)
    BY <1>1, <2>5, FilesLegal
  <2> HIDE DEF y
  <2>8. LegalIO([y EXCEPT !.screen = screen], freed)
    BY <2>2, <2>7, FieldLegal
  <2> QED
    BY <2>6, <2>8
<1> HIDE DEF closed, opened, device, channel
<1>15. CommitIO(vm_error(Free(m), ERR_BAD_FILE_NUMBER), io) => IOKept
  BY <1>1, <1>8, IOFails
<1> QED
  BY <1>1, <1>9, <1>10, <1>11, <1>12, <1>13, <1>14, <1>15

-----------------------------------------------------------------------------
(* The invariant.                                                          *)

(* The state is legal; until a string has been freed twice, a verified     *)
(* program is where the verifier expects it, with its strings accounted    *)
(* for.  The handlers of the C library's streams and those of the operand  *)
(* stack need each other's half: what they push comes from files and       *)
(* memory, and where they seek and what they write comes from the stack.   *)
IOInv == /\ LegalState
         /\ ~io.freedTwice => (prog.typed => SafeAt(vm)) /\ BalanceInv

(* A step of input or output. *)
LEMMA IOStepKept ==
    ASSUME LegalState, IOStep
    PROVE  IOKept \/ IOUndefined
BY PlainKept, OneNumberKept, PrintStrKept, NumberForNumberKept, PairKept, PointKept,
   InputKept, OpenKept, XIOKept DEF IOStep

LEMMA IOInitInv == IOInit => IOInv
<1> SUFFICES ASSUME IOInit PROVE IOInv
  OBVIOUS
<1>1. Loaded /\ (prog.typed => SafeAt(vm)) /\ BalanceInv
  BY InitSound DEF IOInit, SoundInv
<1>2. PICK console \in Consoles(prog) :
         io = [handle       |-> [c \in Channel |-> Closed],
               status       |-> [c \in Channel |-> 0],
               printChannel |-> 0,
               column       |-> 1,
               afterTab     |-> FALSE,
               line         |-> <<>>,
               available    |-> FALSE,
               memory       |-> <<>>,
               files        |-> InitialFiles,
               opened       |-> 0,
               screen       |-> <<>>,
               console      |-> console,
               freedTwice   |-> FALSE]
  BY DEF IOInit
<1>3. console \in Seq(InputLine)
  BY <1>1, <1>2, IOAssumption DEF Loaded
<1>4. /\ OpenChannels(io.handle) = {} /\ OpenFiles(io.handle) = {}
      /\ io.handle \in [Channel -> Stream \cup {Closed}]
  BY <1>2 DEF OpenChannels, OpenFiles
<1>5. io.opened = Cardinality(OpenChannels(io.handle))
  <2>1. io.opened = 0
    BY <1>2
  <2> QED
    BY <1>4, <2>1, FS_EmptySet
<1>6. FileTable(io.files)
  <2>1. io.files = InitialFiles
    BY <1>2
  <2> QED
    BY <2>1, IOAssumption DEF FileTable
<1>7. MemoryTable(io.memory)
  <2>1. io.memory = <<>>
    BY <1>2
  <2>2. DOMAIN <<>> = {}
    OBVIOUS
  <2> QED
    BY <2>1, <2>2 DEF MemoryTable
<1>8. io.screen \in Text /\ io.line \in Seq(Text) /\ io.console \in Seq(InputLine)
  <2>1. io.screen = <<>> /\ io.line = <<>> /\ io.console = console
    BY <1>2
  <2>2. <<>> \in Seq(Text)
    OBVIOUS
  <2> QED
    BY <1>3, <2>1, <2>2, TextFacts
<1>9. io.status \in [Channel -> {0, 1, 3, 144, 170}]
  <2>1. io.status = [c \in Channel |-> 0]
    BY <1>2
  <2> QED
    BY <2>1
<1>10. /\ io.printChannel = 0 /\ io.column = 1 /\ io.afterTab = FALSE
       /\ io.available = FALSE /\ io.freedTwice = FALSE
       /\ DOMAIN io = ScalarFields \cup {"files", "memory"}
  BY <1>2 DEF ScalarFields
<1>11. LegalIO(io, io.freedTwice)
  <2>1. /\ io.printChannel \in 0..7 /\ io.column \in Nat \ {0}
        /\ OpenFiles(io.handle) \subseteq DOMAIN io.files
    BY <1>4, <1>10
  <2>2. /\ io.afterTab \in BOOLEAN /\ io.available \in BOOLEAN
        /\ io.freedTwice \in BOOLEAN /\ (io.available => io.line # <<>>)
    BY <1>10
  <2> QED
    BY <1>4, <1>5, <1>6, <1>7, <1>8, <1>9, <1>10, <2>1, <2>2, Zenon DEF LegalIO
<1> QED
  BY <1>1, <1>11 DEF IOInv, LegalState

LEMMA IOStepInv == IOInv /\ [IONext]_ioVars => IOInv'
<1> SUFFICES ASSUME IOInv, [IONext]_ioVars PROVE IOInv'
  OBVIOUS
<1> DEFINE Accounted == (prog.typed => SafeAt(vm)) /\ BalanceInv
<1>1. LegalState /\ (~io.freedTwice => Accounted)
  BY DEF IOInv
<1>2. Loaded /\ LegalIO(io, io.freedTwice)
  BY <1>1 DEF LegalState
<1>3. CASE IOStep
  <2>1. IOKept \/ IOUndefined
    BY <1>1, <1>3, IOStepKept
  <2>2. CASE IOKept
    <3>1. /\ Loaded' /\ prog' = prog /\ LegalIO(io', io.freedTwice)
          /\ Sound => SoundStep
      BY <2>2 DEF IOKept
    <3>2. io'.freedTwice = io.freedTwice
      BY <3>1 DEF LegalIO
    <3>3. LegalState'
      BY <3>1, <3>2 DEF LegalState
    <3>4. ASSUME ~io.freedTwice PROVE Accounted'
      <4>1. CASE prog.typed
        <5>1. Sound
          BY <1>1, <1>2, <3>4, <4>1 DEF Sound, SoundInv
        <5>2. SafeAt(vm') /\ Balance(vm') = Balance(vm)
          BY <3>1, <5>1 DEF SoundStep, SafeStep
        <5>3. SafeAt(vm)'
          BY <3>1, <5>2 DEF SafeAt, Fits, ControlFits
        <5>4. BalanceInv'
          BY <1>1, <3>1, <3>4, <4>1, <5>2 DEF BalanceInv, Balance
        <5> QED
          BY <5>3, <5>4
      <4>2. CASE ~prog.typed
        BY <3>1, <4>2 DEF BalanceInv
      <4> QED
        BY <4>1, <4>2
    <3> QED
      BY <3>2, <3>3, <3>4 DEF IOInv
  <2>3. CASE IOUndefined
    <3>1. Loaded' /\ LegalIO(io', TRUE)
      BY <2>3 DEF IOUndefined
    <3>2. io'.freedTwice = TRUE
      BY <3>1 DEF LegalIO
    <3> QED
      BY <3>1, <3>2 DEF IOInv, LegalState
  <2> QED
    BY <2>1, <2>2, <2>3
<1>4. CASE [Next]_vars /\ UNCHANGED io
  <2>1. Loaded' /\ io' = io
    BY <1>2, <1>4, NextLoaded
  <2>2. LegalState'
    BY <1>2, <2>1 DEF LegalState, LegalIO
  <2>3. ASSUME ~io.freedTwice PROVE Accounted'
    <3>1. SoundInv /\ BalanceInv
      BY <1>1, <1>2, <2>3 DEF SoundInv
    <3>2. SoundInv' /\ BalanceInv'
      BY <1>4, <3>1, StepSound
    <3> QED
      BY <3>2 DEF SoundInv
  <2> QED
    BY <2>1, <2>2, <2>3 DEF IOInv
<1>5. IOStep \/ ([Next]_vars /\ UNCHANGED io)
  BY DEF IONext, ioVars, vars
<1> QED
  BY <1>3, <1>4, <1>5

(* The inductive invariant, for every program, console and set of files.   *)
THEOREM IOInvariantHolds == IOSpec => []IOInv
BY IOInitInv, IOStepInv, PTL DEF IOSpec

(* The fields of io have their types: every byte of a file or of memory is *)
(* one, in the order of any writes, seeks, deletions and openings.         *)
THEOREM IOTypeCorrect == IOSpec => []IOTypeOK
<1>1. IOInv => IOTypeOK
  <2> SUFFICES ASSUME IOInv PROVE IOTypeOK
    OBVIOUS
  <2>1. LegalIO(io, io.freedTwice)
    BY DEF IOInv, LegalState
  <2>2. io.opened \in Int
    <3>1. Cardinality(OpenChannels(io.handle)) \in Nat
      BY OpenFinite
    <3>2. io.opened = Cardinality(OpenChannels(io.handle))
      BY <2>1 DEF LegalIO
    <3> QED
      BY <3>1, <3>2
  <2>3. [field \in ScalarFields |-> io[field]] \in IOState
    BY <2>1, <2>2 DEF LegalIO, ScalarFields, IOState
  <2>4. FileTable(io.files) /\ MemoryTable(io.memory)
    BY <2>1 DEF LegalIO
  <2>5. \A name \in DOMAIN io.files : \A i \in DOMAIN io.files[name] :
           io.files[name][i] \in Byte
    BY <2>4 DEF FileTable
  <2> QED
    BY <2>3, <2>4, <2>5 DEF IOTypeOK, FileTable, MemoryTable
<1> QED
  BY <1>1, IOInvariantHolds, PTL

(* Every stream that is open is the handle of exactly one channel: none    *)
(* leaks, none is closed twice.                                            *)
THEOREM HandlesAreBalanced == IOSpec => []HandlesBalanced
<1>1. IOInv => HandlesBalanced
  <2> SUFFICES ASSUME IOInv PROVE HandlesBalanced
    OBVIOUS
  <2>1. io.opened = Cardinality(OpenChannels(io.handle))
    BY DEF IOInv, LegalState, LegalIO
  <2>2. {c \in Channel : IsOpen(io, c)} = OpenChannels(io.handle)
    BY DEF IsOpen, OpenChannels
  <2> QED
    BY <2>1, <2>2 DEF HandlesBalanced
<1> QED
  BY <1>1, IOInvariantHolds, PTL

(* The operand stack keeps the shape the verifier computed through every   *)
(* statement of input and output, on every path of it.                     *)
THEOREM IOStackIsSound == IOSpec => []IOStackSound
<1>1. IOInv => IOStackSound
  <2> SUFFICES ASSUME IOInv, ~io.freedTwice PROVE StackSound
    BY DEF IOStackSound
  <2>1. SoundInv
    BY DEF IOInv, LegalState, SoundInv
  <2> QED
    BY <2>1, SoundInvIs
<1> QED
  BY <1>1, IOInvariantHolds, PTL

(* The strings they take from the stack are freed once.                    *)
THEOREM IOHeapIsBalanced == IOSpec => []IOHeapBalanced
<1>1. IOInv => IOHeapBalanced
  <2> SUFFICES ASSUME IOInv, ~io.freedTwice PROVE HeapBalanced
    BY DEF IOHeapBalanced
  <2>1. Loaded /\ BalanceInv
    BY DEF IOInv, LegalState
  <2> QED
    BY <2>1, BalanceInvIs
<1> QED
  BY <1>1, IOInvariantHolds, PTL
=============================================================================
