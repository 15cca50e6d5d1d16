--------------------------- MODULE ObjectFileProofs ---------------------------
(***************************************************************************)
(* Theorems about the way of a program from its source through the file to *)
(* the machine, for every source and every place the file may be cut at.   *)
(*                                                                         *)
(* Holds(at, piece) says that the file, as far as it goes, has piece at    *)
(* the place at.  Reads says that a reader, if it does not fail, returns   *)
(* what was written there and stops behind it.  The invariant is in two    *)
(* parts.  LoadInv: the file holds the beginning of the program's image,   *)
(* the loader stands behind the sections it has read, and it has read      *)
(* those as they were saved.  CompileInv: the operand of each statement    *)
(* compiled so far stands for what the statement wrote, each name that was *)
(* visited has a variable as long as the limits allow, and the DATA items  *)
(* are in the order of the source.                                         *)
(***************************************************************************)
EXTENDS ObjectFile, SequenceTheorems, FiniteSetTheorems, WellFoundedInduction, TLAPS

-----------------------------------------------------------------------------
(* Induction, for a set of numbers.                                        *)

(* A set with 0 in it, and with each number the next, has all numbers.     *)
LEMMA SetInduction ==
    ASSUME NEW G, 0 \in G, \A n \in Nat : n \in G => n + 1 \in G
    PROVE  \A n \in Nat : n \in G
<1> DEFINE R == OpToRel(<, Nat)
           bad == {n \in Nat : n \notin G}
<1> SUFFICES ASSUME bad # {} PROVE FALSE
  OBVIOUS
<1>1. IsWellFoundedOn(R, Nat)
  BY NatLessThanWellFounded
<1>2. PICK x \in bad : \A y \in bad : ~(<<y, x>> \in R)
  <2>1. bad \in SUBSET Nat
    OBVIOUS
  <2> HIDE DEF R, bad
  <2> QED
    BY <1>1, <2>1, WFMin
<1>3. \A y \in bad : ~(y < x)
  BY <1>2 DEF OpToRel
<1>4. x \in Nat /\ x # 0 /\ x - 1 \in Nat /\ x - 1 < x /\ (x - 1) + 1 = x
  OBVIOUS
<1>5. x - 1 \in G
  BY <1>3, <1>4
<1> QED
  BY <1>4, <1>5

-----------------------------------------------------------------------------
(* The items of a file.                                                    *)

Items == {Magic} \cup VarType \cup {"num", "str", "null"} \cup Int
         \cup Seq(Int) \cup Text \cup Seq(Number)

(* What FlattenSeq puts together, part by part.                            *)
LEMMA FlattenPrefixes ==
    ASSUME NEW C \in Seq(Seq(Items))
    PROVE  \E F \in [0..Len(C) -> Seq(Items)] :
              /\ F[0] = <<>>
              /\ \A i \in 1..Len(C) : F[i] = F[i - 1] \o C[i]
              /\ FlattenSeq(C) = F[Len(C)]
<1> DEFINE n == Len(C)
           Unfolds(m, g) == g = [i \in 1..m |-> IF i = 1 THEN C[i]
                                                 ELSE g[i - 1] \o C[i]]
<1>1. n \in Nat /\ \A i \in 1..n : C[i] \in Seq(Items)
  OBVIOUS
<1>2. CASE n = 0
  <2> DEFINE F == [i \in 0..0 |-> <<>>]
  <2>1. C = <<>> /\ FlattenSeq(C) = C
    BY <1>2 DEF FlattenSeq
  <2>2. F \in [0..n -> Seq(Items)] /\ F[0] = <<>> /\ F[n] = <<>>
    BY <1>2
  <2> HIDE DEF F
  <2> QED
    BY <1>2, <2>1, <2>2
<1>3. CASE n # 0
  <2>1. ASSUME NEW m \in Nat PROVE \E g : Unfolds(m, g)
    <3> DEFINE G == {k \in Nat : \E g : Unfolds(k, g)}
    <3>1. 0 \in G
      <4>1. Unfolds(0, [i \in 1..0 |-> <<>>])
        OBVIOUS
      <4> QED
        BY <4>1
    <3>2. ASSUME NEW k \in Nat, k \in G PROVE k + 1 \in G
      <4>1. PICK g : Unfolds(k, g)
        BY <3>2
      <4> DEFINE last == IF k + 1 = 1 THEN C[k + 1] ELSE g[k] \o C[k + 1]
                 longer == [i \in 1..(k + 1) |-> IF i = k + 1 THEN last ELSE g[i]]
      <4>2. ASSUME NEW i \in 1..(k + 1)
            PROVE  longer[i] = IF i = 1 THEN C[i] ELSE longer[i - 1] \o C[i]
        <5>1. CASE i = k + 1
          <6>1. i - 1 = k /\ (i # 1 => k \in 1..(k + 1) /\ k # k + 1)
            BY <5>1
          <6> QED
            BY <5>1, <6>1
        <5>2. CASE i # k + 1
          <6>1. i \in 1..k
            BY <5>2
          <6>2. g[i] = IF i = 1 THEN C[i] ELSE g[i - 1] \o C[i]
            BY <4>1, <6>1
          <6>3. i # 1 => i - 1 \in 1..(k + 1) /\ i - 1 # k + 1
            OBVIOUS
          <6> QED
            BY <5>2, <6>2, <6>3
        <5> QED
          BY <5>1, <5>2
      <4>3. Unfolds(k + 1, longer)
        BY <4>2
      <4>4. k + 1 \in Nat
        OBVIOUS
      <4> HIDE DEF Unfolds, longer
      <4> QED
        BY <4>3, <4>4
    <3> HIDE DEF G
    <3>3. m \in G
      BY <3>1, <3>2, SetInduction
    <3> QED
      BY <3>3 DEF G
  <2> DEFINE flatten == CHOOSE g : Unfolds(n, g)
  <2>2. Unfolds(n, flatten)
    BY <1>1, <2>1
  <2>3. FlattenSeq(C) = flatten[n]
    BY <1>3 DEF FlattenSeq
  <2> HIDE DEF flatten
  <2>4. \A i \in 1..n : flatten[i] = IF i = 1 THEN C[i] ELSE flatten[i - 1] \o C[i]
    BY <2>2
  <2>5. ASSUME NEW k \in 1..n PROVE flatten[k] \in Seq(Items)
    <3> DEFINE G == {j \in Nat : j + 1 \in 1..n => flatten[j + 1] \in Seq(Items)}
    <3>1. 0 \in G
      <4>1. 0 + 1 = 1 /\ (1 \in 1..n => flatten[1] = C[1])
        BY <2>4
      <4>2. 1 \in 1..n => flatten[1] \in Seq(Items)
        BY <1>1, <4>1
      <4> QED
        BY <4>1, <4>2
    <3>2. ASSUME NEW j \in Nat, j \in G PROVE j + 1 \in G
      <4> SUFFICES ASSUME j + 1 + 1 \in 1..n PROVE flatten[j + 1 + 1] \in Seq(Items)
        OBVIOUS
      <4>1. j + 1 \in 1..n /\ (j + 1 + 1) - 1 = j + 1 /\ j + 1 + 1 # 1
        BY <1>1
      <4>2. flatten[j + 1] \in Seq(Items) /\ C[j + 1 + 1] \in Seq(Items)
        BY <1>1, <3>2, <4>1
      <4>3. flatten[j + 1 + 1] = flatten[j + 1] \o C[j + 1 + 1]
        BY <2>4, <4>1
      <4> QED
        BY <4>2, <4>3, ConcatProperties
    <3>3. k - 1 \in Nat /\ (k - 1) + 1 = k
      BY <1>1
    <3> HIDE DEF G
    <3>4. k - 1 \in G
      BY <3>1, <3>2, <3>3, SetInduction
    <3> QED
      BY <3>3, <3>4 DEF G
  <2> DEFINE F == [i \in 0..n |-> IF i = 0 THEN <<>> ELSE flatten[i]]
  <2>6. F \in [0..n -> Seq(Items)]
    BY <1>1, <2>5
  <2>7. F[0] = <<>> /\ F[n] = flatten[n]
    BY <1>1, <1>3
  <2>8. ASSUME NEW i \in 1..n PROVE F[i] = F[i - 1] \o C[i]
    <3>1. F[i] = flatten[i] /\ i - 1 \in 0..n
      BY <1>1
    <3>2. CASE i = 1
      <4>1. F[i - 1] = <<>> /\ F[i] = C[i]
        BY <2>4, <3>1, <3>2
      <4> QED
        BY <1>1, <4>1, ConcatEmptySeq
    <3>3. CASE i # 1
      <4>1. F[i - 1] = flatten[i - 1]
        BY <3>1, <3>3
      <4> QED
        BY <2>4, <3>1, <3>3, <4>1
    <3> QED
      BY <3>2, <3>3
  <2> HIDE DEF F
  <2> QED
    BY <2>3, <2>6, <2>7, <2>8
<1> QED
  BY <1>2, <1>3

-----------------------------------------------------------------------------
(* Pieces of the file.                                                     *)

(* The file, as far as it goes, has piece behind its first at items.       *)
Holds(at, piece) ==
    \A i \in 1..Len(piece) : at + i <= Len(disk) => disk[at + i] = piece[i]

(* A reader that has not failed has read value, and stopped behind piece.  *)
Reads(read, at, piece, value) ==
    read.ok => /\ read.value = value
               /\ read.at = at + Len(piece)
               /\ read.at \in Place

(* A piece in two parts. *)
LEMMA HoldsParts ==
    ASSUME NEW at \in Nat, NEW a \in Seq(Items), NEW b \in Seq(Items),
           Holds(at, a \o b)
    PROVE  Holds(at, a) /\ Holds(at + Len(a), b)
<1>1. /\ Len(a) \in Nat /\ Len(b) \in Nat /\ Len(a \o b) = Len(a) + Len(b)
      /\ \A i \in 1..(Len(a) + Len(b)) :
            (a \o b)[i] = IF i <= Len(a) THEN a[i] ELSE b[i - Len(a)]
  BY ConcatProperties
<1>2. ASSUME NEW i \in 1..Len(a), at + i <= Len(disk) PROVE disk[at + i] = a[i]
  BY <1>1, <1>2 DEF Holds
<1>3. ASSUME NEW i \in 1..Len(b), at + Len(a) + i <= Len(disk)
      PROVE  disk[at + Len(a) + i] = b[i]
  <2>1. Len(a) + i \in 1..(Len(a) + Len(b)) /\ ~(Len(a) + i <= Len(a))
        /\ (Len(a) + i) - Len(a) = i /\ at + (Len(a) + i) = at + Len(a) + i
    BY <1>1
  <2> QED
    BY <1>1, <1>3, <2>1 DEF Holds
<1> QED
  BY <1>2, <1>3 DEF Holds

-----------------------------------------------------------------------------
(* The readers.                                                            *)

FileOK == Len(disk) \in Nat

(* An array is one item, its length before it.                             *)
LEMMA ArrayRead ==
    ASSUME NEW S, NEW a \in Seq(S), NEW at \in Place, FileOK,
           Holds(at, WriteArray(a))
    PROVE  Reads(ReadArray(at), at, WriteArray(a), a)
<1> SUFFICES ASSUME ReadArray(at).ok
             PROVE  /\ ReadArray(at).value = a
                    /\ ReadArray(at).at = at + Len(WriteArray(a))
                    /\ ReadArray(at).at \in Place
  BY DEF Reads
<1>1. at \in Nat /\ at <= Len(disk) /\ Len(disk) \in Nat /\ Len(a) \in Nat
  BY DEF Place, FileOK
<1>2. at # Len(disk) /\ Left(at) # 0
  <2>1. Left(at) # 0
    BY DEF ReadArray, ShortRead, Read
  <2> QED
    BY <1>1, <2>1 DEF Left
<1>3. CASE a = <<>>
  <2>1. WriteArray(a) = <<0>> /\ Len(WriteArray(a)) = 1 /\ WriteArray(a)[1] = 0
    BY <1>3 DEF WriteArray
  <2>2. Datum(at) = 0
    BY <1>1, <1>2, <2>1 DEF Holds, Datum
  <2>3. ReadArray(at) = Read(TRUE, <<>>, at + 1, 0)
    BY <1>2, <2>2 DEF ReadArray
  <2>4. ReadArray(at).value = <<>> /\ ReadArray(at).at = at + 1
    BY <2>3 DEF Read
  <2>5. at + 1 \in Place
    BY <1>1, <1>2 DEF Place
  <2>6. ReadArray(at).value = a
    BY <1>3, <2>4
  <2>7. ReadArray(at).at = at + Len(WriteArray(a))
    BY <2>1, <2>4
  <2> QED
    BY <2>4, <2>5, <2>6, <2>7
<1>4. CASE a # <<>>
  <2>1. Len(WriteArray(a)) = 2
        /\ WriteArray(a)[1] = Len(a) /\ WriteArray(a)[2] = a
    <3>1. WriteArray(a) = <<Len(a)>> \o <<a>>
      BY <1>4 DEF WriteArray
    <3> DEFINE T == {Len(a), a}
    <3>2. <<Len(a)>> \in Seq(T) /\ <<a>> \in Seq(T)
      OBVIOUS
    <3>3. Len(<<Len(a)>>) = 1 /\ Len(<<a>>) = 1 /\ <<Len(a)>>[1] = Len(a) /\ <<a>>[1] = a
      OBVIOUS
    <3> DEFINE one == <<Len(a)>>
               two == <<a>>
    <3> HIDE DEF one, two, T
    <3>4. /\ Len(one \o two) = Len(one) + Len(two)
          /\ \A i \in 1..(Len(one) + Len(two)) :
                (one \o two)[i] = IF i <= Len(one) THEN one[i] ELSE two[i - Len(one)]
      BY <3>2, ConcatProperties DEF one, two
    <3>5. Len(one) = 1 /\ Len(two) = 1 /\ one[1] = Len(a) /\ two[1] = a
      BY <3>3 DEF one, two
    <3>6. (one \o two)[1] = Len(a) /\ (one \o two)[2] = a /\ Len(one \o two) = 2
      BY <3>4, <3>5
    <3> QED
      BY <3>1, <3>6 DEF one, two
  <2>2. Len(a) # 0
    BY <1>4, EmptySeq
  <2>3. Datum(at) = Len(a)
    BY <1>1, <1>2, <2>1 DEF Holds, Datum
  <2>4. at + 1 # Len(disk) /\ Left(at + 1) # 0
    <3>1. Left(at + 1) # 0
      BY <1>2, <2>2, <2>3 DEF ReadArray, ShortRead, Read
    <3> QED
      BY <1>1, <3>1 DEF Left
  <2>5. Datum(at + 1) = a
    BY <1>1, <1>2, <2>1, <2>4 DEF Holds, Datum
  <2>6. ReadArray(at) = Read(TRUE, a, at + 2, 0)
    BY <1>2, <2>2, <2>3, <2>4, <2>5 DEF ReadArray
  <2>7. ReadArray(at).value = a /\ ReadArray(at).at = at + 2
    BY <2>6 DEF Read
  <2> QED
    BY <1>1, <1>2, <2>1, <2>4, <2>7 DEF Place
<1> QED
  BY <1>3, <1>4

(* A line, two items. *)
LEMMA LineRead ==
    ASSUME NEW line, NEW at \in Place, FileOK,
           Holds(at, <<line.line, line.offset>>),
           line = [line |-> line.line, offset |-> line.offset]
    PROVE  Reads(ReadLine(at), at, <<line.line, line.offset>>, line)
<1> SUFFICES ASSUME ReadLine(at).ok
             PROVE  /\ ReadLine(at).value = line
                    /\ ReadLine(at).at = at + 2
                    /\ ReadLine(at).at \in Place
  BY DEF Reads
<1>1. at \in Nat /\ at <= Len(disk) /\ Len(disk) \in Nat
  BY DEF Place, FileOK
<1>2. ~(Left(at) < 2)
  BY DEF ReadLine, ReadPair, ShortRead, Read
<1>3. Datum(at) = line.line /\ Datum(at + 1) = line.offset
  BY <1>1, <1>2 DEF Holds, Datum, Left
<1>4. ReadLine(at) = Read(TRUE, line, at + 2, 0)
  BY <1>2, <1>3 DEF ReadLine, ReadPair
<1> QED
  BY <1>1, <1>2, <1>4 DEF Read, Place, Left

(* A DATA item, two items. *)
LEMMA DataRead ==
    ASSUME NEW entry, NEW at \in Place, FileOK,
           Holds(at, <<entry.type, entry.idx>>),
           entry = [type |-> entry.type, idx |-> entry.idx]
    PROVE  Reads(ReadData(at), at, <<entry.type, entry.idx>>, entry)
<1> SUFFICES ASSUME ReadData(at).ok
             PROVE  /\ ReadData(at).value = entry
                    /\ ReadData(at).at = at + 2
                    /\ ReadData(at).at \in Place
  BY DEF Reads
<1>1. at \in Nat /\ at <= Len(disk) /\ Len(disk) \in Nat
  BY DEF Place, FileOK
<1>2. ~(Left(at) < 2)
  BY DEF ReadData, ReadPair, ShortRead, Read
<1>3. Datum(at) = entry.type /\ Datum(at + 1) = entry.idx
  BY <1>1, <1>2 DEF Holds, Datum, Left
<1>4. ReadData(at) = Read(TRUE, entry, at + 2, 0)
  BY <1>2, <1>3 DEF ReadData, ReadPair
<1> QED
  BY <1>1, <1>2, <1>4 DEF Read, Place, Left

(* What is written of a variable. *)
WriteVar(v) == write_string(v.name) \o <<v.slot, v.type>>

(* A variable, its name and then two items. *)
LEMMA VariableRead ==
    ASSUME NEW v, v.name \in Text, v.slot \in Int, v.type \in VarType,
           NEW at \in Place, FileOK, Holds(at, WriteVar(v)),
           v = [name |-> v.name, slot |-> v.slot, type |-> v.type]
    PROVE  Reads(ReadVariable(at), at, WriteVar(v), v)
<1> DEFINE name == write_string(v.name)
           rest == <<v.slot, v.type>>
<1>1. name \in Seq(Items) /\ rest \in Seq(Items) /\ Len(rest) = 2
      /\ rest[1] = v.slot /\ rest[2] = v.type
  <2>1. v.slot \in Items /\ v.type \in Items /\ v.name \in Items
    BY DEF Items
  <2>2. v.name = <<>> \/ v.name # <<>>
    OBVIOUS
  <2>3. Len(v.name) \in Items
    BY DEF Items, Text
  <2>4. <<v.slot, v.type>> \in Seq(Items)
    BY <2>1
  <2>5. <<Len(v.name)>> \in Seq(Items) /\ <<v.name>> \in Seq(Items) /\ <<>> \in Seq(Items)
    BY <2>1, <2>3
  <2>6. (IF v.name = <<>> THEN <<>> ELSE <<v.name>>) \in Seq(Items)
    BY <2>5
  <2>7. name \in Seq(Items)
    BY <2>5, <2>6, ConcatProperties DEF write_string, WriteArray
  <2> QED
    BY <2>4, <2>7
<1>2. at \in Nat /\ at <= Len(disk) /\ Len(disk) \in Nat /\ Len(name) \in Nat
  BY <1>1 DEF Place, FileOK
<1>3. WriteVar(v) = name \o rest
  BY DEF WriteVar
<1> HIDE DEF name, rest
<1>4. Holds(at, name) /\ Holds(at + Len(name), rest)
  BY <1>1, <1>2, <1>3, HoldsParts
<1>5. Len(WriteVar(v)) = Len(name) + 2
  <2>1. Len(name \o rest) = Len(name) + Len(rest)
    BY <1>1, ConcatProperties
  <2> QED
    BY <1>1, <1>3, <2>1
<1>6. Reads(read_string(at), at, name, v.name)
  BY <1>4, ArrayRead DEF read_string, name, write_string, Text
<1> SUFFICES ASSUME ReadVariable(at).ok
             PROVE  /\ ReadVariable(at).value = v
                    /\ ReadVariable(at).at = at + Len(WriteVar(v))
                    /\ ReadVariable(at).at \in Place
  BY DEF Reads
<1>7. read_string(at).ok
  BY DEF ReadVariable, ShortRead, Read
<1> DEFINE mid == read_string(at).at
<1>8. mid = at + Len(name) /\ mid \in Place /\ read_string(at).value = v.name
  BY <1>6, <1>7 DEF Reads
<1>9. ~(Left(mid) < 2)
  BY <1>7 DEF ReadVariable, ReadPair, ShortRead, Read
<1> HIDE DEF mid
<1>10. Datum(mid) = v.slot /\ Datum(mid + 1) = v.type
  BY <1>1, <1>2, <1>4, <1>8, <1>9 DEF Holds, Datum, Left
<1>11. ReadVariable(at) = Read(TRUE, v, mid + 2, 0)
  BY <1>7, <1>8, <1>9, <1>10 DEF ReadVariable, ReadPair, mid
<1> QED
  BY <1>2, <1>5, <1>8, <1>9, <1>11 DEF Read, Place, Left

(* A table: how it was read, count by count.                               *)
LEMMA TableSteps ==
    ASSUME NEW at, NEW entry, Left(at) # 0, Datum(at) \in Nat
    PROVE  \E U : /\ ReadTable(at, entry) = U[Datum(at)]
                  /\ U[0] = Read(TRUE, <<>>, at + 1, 0)
                  /\ \A n \in 1..Datum(at) :
                        U[n] = OneMore(U[n - 1], entry[U[n - 1].at], at, Datum(at) - n)
<1> DEFINE count == Datum(at)
           Next_(g, n) == OneMore(g[n - 1], entry[g[n - 1].at], at, count - n)
           Unfolds(m, g) ==
               g = [n \in 0..m |-> IF n = 0 THEN Read(TRUE, <<>>, at + 1, 0)
                                   ELSE OneMore(g[n - 1], entry[g[n - 1].at], at, count - n)]
           G == {k \in Nat : \E g : Unfolds(k, g)}
<1>1. 0 \in G
  <2>1. Unfolds(0, [n \in 0..0 |-> Read(TRUE, <<>>, at + 1, 0)])
    OBVIOUS
  <2> HIDE DEF Unfolds
  <2> QED
    BY <2>1
<1>2. ASSUME NEW k \in Nat, k \in G PROVE k + 1 \in G
  <2>1. PICK g : Unfolds(k, g)
    BY <1>2
  <2> DEFINE last == Next_(g, k + 1)
             longer == [n \in 0..(k + 1) |-> IF n = k + 1 THEN last ELSE g[n]]
  <2>2. ASSUME NEW n \in 0..(k + 1)
        PROVE  longer[n] = IF n = 0 THEN Read(TRUE, <<>>, at + 1, 0)
                           ELSE Next_(longer, n)
    <3>1. CASE n = k + 1
      <4>1. n - 1 = k /\ k \in 0..(k + 1) /\ k # k + 1 /\ n # 0
        BY <3>1
      <4>2. longer[n - 1] = g[k] /\ (k + 1) - 1 = k
        BY <4>1
      <4>3. longer[n] = last
        BY <3>1
      <4> HIDE DEF longer
      <4> QED
        BY <3>1, <4>1, <4>2, <4>3
    <3>2. CASE n # k + 1
      <4>1. n \in 0..k /\ longer[n] = g[n]
        BY <3>2
      <4>2. g[n] = IF n = 0 THEN Read(TRUE, <<>>, at + 1, 0) ELSE Next_(g, n)
        BY <2>1, <4>1
      <4>3. n # 0 => n - 1 \in 0..(k + 1) /\ n - 1 # k + 1
        OBVIOUS
      <4>4. n # 0 => longer[n - 1] = g[n - 1]
        BY <4>3
      <4> HIDE DEF longer
      <4> QED
        BY <4>1, <4>2, <4>4
    <3> QED
      BY <3>1, <3>2
  <2>3. Unfolds(k + 1, longer)
    BY <2>2
  <2>4. k + 1 \in Nat
    OBVIOUS
  <2> HIDE DEF Unfolds, longer
  <2> QED
    BY <2>3, <2>4
<1>3. count \in G
  <2> HIDE DEF G
  <2> QED
    BY <1>1, <1>2, SetInduction
<1> DEFINE U == CHOOSE g : Unfolds(count, g)
<1>4. Unfolds(count, U)
  <2> HIDE DEF Unfolds
  <2> QED
    BY <1>3
<1>5. ReadTable(at, entry) = U[count]
  BY DEF ReadTable
<1> HIDE DEF U
<1>6. U[0] = Read(TRUE, <<>>, at + 1, 0)
  BY <1>4
<1>7. \A n \in 1..count : U[n] = OneMore(U[n - 1], entry[U[n - 1].at], at, count - n)
  BY <1>4
<1> QED
  BY <1>5, <1>6, <1>7

(* A table whose entries are read as they were written is read as it was   *)
(* written: the count, then each entry's piece behind the one before.      *)
LEMMA TableRead ==
    ASSUME NEW S, NEW es \in Seq(S), NEW C \in Seq(Seq(Items)), Len(C) = Len(es),
           NEW at \in Place, FileOK, NEW entry,
           \A i \in 1..Len(es) : \A q \in Place :
               Holds(q, C[i]) => Reads(entry[q], q, C[i], es[i]),
           Holds(at, <<Len(es)>> \o FlattenSeq(C))
    PROVE  Reads(ReadTable(at, entry), at, <<Len(es)>> \o FlattenSeq(C), es)
<1> DEFINE n == Len(es)
           chunks == FlattenSeq(C)
           whole == <<n>> \o chunks
<1> SUFFICES ASSUME ReadTable(at, entry).ok
             PROVE  /\ ReadTable(at, entry).value = es
                    /\ ReadTable(at, entry).at = at + Len(whole)
                    /\ ReadTable(at, entry).at \in Place
  BY DEF Reads
<1>1. /\ at \in Nat /\ at <= Len(disk) /\ Len(disk) \in Nat /\ n \in Nat
      /\ at + 1 \in Nat
  BY DEF Place, FileOK
<1>2. Left(at) # 0 /\ at + 1 <= Len(disk)
  <2>1. Left(at) # 0
    BY DEF ReadTable, ShortRead, Read
  <2> QED
    BY <1>1, <2>1 DEF Left
<1>3. PICK F \in [0..Len(C) -> Seq(Items)] :
         /\ F[0] = <<>>
         /\ \A i \in 1..Len(C) : F[i] = F[i - 1] \o C[i]
         /\ FlattenSeq(C) = F[Len(C)]
  BY FlattenPrefixes
<1>4. /\ \A i \in 0..n : F[i] \in Seq(Items)
      /\ F[0] = <<>> /\ chunks = F[n]
      /\ \A i \in 1..n : F[i] = F[i - 1] \o C[i] /\ C[i] \in Seq(Items)
  <2>1. Len(C) = n /\ \A i \in 1..n : C[i] \in Seq(Items)
    OBVIOUS
  <2>2. \A i \in 0..n : F[i] \in Seq(Items)
    BY <2>1
  <2>3. \A i \in 1..n : F[i] = F[i - 1] \o C[i]
    BY <1>3, <2>1
  <2>4. F[0] = <<>> /\ chunks = F[n]
    BY <1>3, <2>1
  <2> QED
    BY <2>1, <2>2, <2>3, <2>4
<1> HIDE DEF chunks
<1>5. /\ <<n>> \in Seq(Items) /\ Len(<<n>>) = 1 /\ <<n>>[1] = n
      /\ chunks \in Seq(Items)
  <2>1. n \in Items
    BY <1>1 DEF Items
  <2>2. chunks \in Seq(Items)
    BY <1>1, <1>4
  <2> QED
    BY <2>1, <2>2
<1>6. Holds(at, <<n>>) /\ Holds(at + 1, chunks) /\ Len(whole) = 1 + Len(chunks)
  <2>1. Holds(at, <<n>> \o chunks)
    BY DEF chunks
  <2> DEFINE count == <<n>>
  <2>2. count \in Seq(Items) /\ Len(count) = 1 /\ Holds(at, count \o chunks)
    BY <1>5, <2>1
  <2> HIDE DEF count
  <2>3. Holds(at, count) /\ Holds(at + Len(count), chunks)
    BY <1>1, <1>5, <2>2, HoldsParts
  <2>4. count \in Seq(Items) /\ chunks \in Seq(Items)
    BY <1>5, <2>2
  <2>5. Len(count \o chunks) = Len(count) + Len(chunks)
    BY <2>4, ConcatProperties
  <2> QED
    BY <2>2, <2>3, <2>5 DEF count
<1>7. Datum(at) = n
  BY <1>1, <1>2, <1>5, <1>6 DEF Holds, Datum
<1>8. PICK U : /\ ReadTable(at, entry) = U[n]
               /\ U[0] = Read(TRUE, <<>>, at + 1, 0)
               /\ \A i \in 1..n : U[i] = OneMore(U[i - 1], entry[U[i - 1].at], at, n - i)
  <2>1. Datum(at) \in Nat
    BY <1>1, <1>7
  <2>2. \E U : /\ ReadTable(at, entry) = U[Datum(at)]
               /\ U[0] = Read(TRUE, <<>>, at + 1, 0)
               /\ \A i \in 1..Datum(at) :
                     U[i] = OneMore(U[i - 1], entry[U[i - 1].at], at, Datum(at) - i)
    BY <1>2, <2>1, TableSteps
  <2> HIDE DEF n
  <2> QED
    BY <1>7, <2>2
<1> HIDE DEF whole, n
(* The pieces up to each entry are in the file. *)
<1>9. ASSUME NEW i \in 0..n PROVE Holds(at + 1, F[i])
  <2> DEFINE G == {j \in Nat : j <= n => Holds(at + 1, F[n - j])}
  <2>1. 0 \in G
    BY <1>1, <1>4, <1>6
  <2>2. ASSUME NEW j \in Nat, j \in G PROVE j + 1 \in G
    <3> SUFFICES ASSUME j + 1 <= n PROVE Holds(at + 1, F[n - (j + 1)])
      OBVIOUS
    <3> DEFINE k == n - j
    <3>1. k \in 1..n /\ k - 1 \in 0..n /\ k - 1 = n - (j + 1) /\ j <= n
      BY <1>1
    <3>2. Holds(at + 1, F[k])
      BY <2>2, <3>1
    <3> HIDE DEF k
    <3>3. Holds(at + 1, F[k - 1] \o C[k])
      BY <1>4, <3>1, <3>2
    <3>4. F[k - 1] \in Seq(Items) /\ C[k] \in Seq(Items)
      BY <1>4, <3>1
    <3>5. Holds(at + 1, F[k - 1])
      BY <1>1, <3>3, <3>4, HoldsParts
    <3> QED
      BY <3>1, <3>5
  <2>3. n - i \in Nat /\ n - i <= n /\ n - (n - i) = i
    BY <1>1
  <2> HIDE DEF G
  <2>4. n - i \in G
    BY <2>1, <2>2, <2>3, SetInduction
  <2> QED
    BY <2>3, <2>4 DEF G
(* So are those of each entry. *)
<1>10. ASSUME NEW i \in 1..n
       PROVE  /\ Holds(at + 1 + Len(F[i - 1]), C[i])
              /\ Len(F[i]) = Len(F[i - 1]) + Len(C[i])
              /\ Len(F[i]) \in Nat /\ Len(F[i - 1]) \in Nat /\ Len(C[i]) \in Nat
  <2>1. i - 1 \in 0..n /\ i \in 0..n
    BY <1>1
  <2> DEFINE a == F[i - 1]
             b == C[i]
  <2>2. a \in Seq(Items) /\ b \in Seq(Items) /\ F[i] = a \o b /\ F[i] \in Seq(Items)
    BY <1>4, <2>1
  <2>3. Holds(at + 1, a \o b)
    BY <1>9, <2>1, <2>2
  <2> HIDE DEF a, b
  <2>4. Holds(at + 1 + Len(a), b)
    BY <1>1, <2>2, <2>3, HoldsParts
  <2>5. Len(a \o b) = Len(a) + Len(b)
    BY <2>2, ConcatProperties
  <2>6. Len(a) \in Nat /\ Len(b) \in Nat /\ Len(a \o b) \in Nat
    BY <2>2, <2>5
  <2> QED
    BY <2>2, <2>4, <2>5, <2>6 DEF a, b
(* What has been read, entry by entry. *)
<1> DEFINE Good(k) == U[k].ok =>
               /\ U[k].value \in Seq(S) /\ Len(U[k].value) = k
               /\ \A i \in 1..k : U[k].value[i] = es[i]
               /\ U[k].at = at + 1 + Len(F[k])
               /\ U[k].at \in Place
<1>11. Good(0)
  <2>1. U[0].value = <<>> /\ U[0].at = at + 1
    BY <1>8 DEF Read
  <2>2. Len(F[0]) = 0 /\ <<>> \in Seq(S) /\ Len(<<>>) = 0
    BY <1>4
  <2>3. at + 1 \in Place
    BY <1>1, <1>2 DEF Place
  <2> QED
    BY <1>1, <2>1, <2>2, <2>3
<1>12. ASSUME NEW k \in 1..n, Good(k - 1) PROVE Good(k)
  <2> SUFFICES ASSUME U[k].ok
               PROVE  /\ U[k].value \in Seq(S) /\ Len(U[k].value) = k
                      /\ \A i \in 1..k : U[k].value[i] = es[i]
                      /\ U[k].at = at + 1 + Len(F[k])
                      /\ U[k].at \in Place
    OBVIOUS
  <2> DEFINE before == U[k - 1]
             this == entry[before.at]
  <2>1. U[k] = OneMore(before, this, at, n - k)
    BY <1>8
  <2>2. before.ok
    BY <2>1 DEF OneMore
  <2>3. this.ok
    BY <2>1, <2>2 DEF OneMore, Read
  <2>4. U[k] = Read(TRUE, Append(before.value, this.value), this.at, 0)
    BY <2>1, <2>2, <2>3 DEF OneMore
  <2>5. U[k].value = Append(before.value, this.value) /\ U[k].at = this.at
    BY <2>4 DEF Read
  <2>6. /\ before.value \in Seq(S) /\ Len(before.value) = k - 1
        /\ \A i \in 1..(k - 1) : before.value[i] = es[i]
        /\ before.at = at + 1 + Len(F[k - 1])
        /\ before.at \in Place
    BY <1>12, <2>2
  <2>7. Holds(before.at, C[k])
    BY <1>10, <2>6
  <2>8. Reads(this, before.at, C[k], es[k])
    BY <2>6, <2>7 DEF n
  <2>9. this.value = es[k] /\ this.at = before.at + Len(C[k]) /\ this.at \in Place
    BY <2>3, <2>8 DEF Reads
  <2>10. es[k] \in S
    BY DEF n
  <2> HIDE DEF before, this
  <2>11. /\ Append(before.value, es[k]) \in Seq(S)
         /\ Len(Append(before.value, es[k])) = Len(before.value) + 1
         /\ \A i \in 1..Len(before.value) : Append(before.value, es[k])[i] = before.value[i]
         /\ Append(before.value, es[k])[Len(before.value) + 1] = es[k]
    BY <2>6, <2>10, AppendProperties
  <2>12. (k - 1) + 1 = k /\ \A i \in 1..k : i = k \/ i \in 1..(k - 1)
    BY <1>1
  <2>13. \A i \in 1..k : U[k].value[i] = es[i]
    BY <2>5, <2>6, <2>9, <2>11, <2>12
  <2>14. U[k].at = at + 1 + Len(F[k])
    <3>1. Len(F[k]) = Len(F[k - 1]) + Len(C[k])
          /\ Len(F[k - 1]) \in Nat /\ Len(C[k]) \in Nat
      BY <1>10
    <3>2. U[k].at = (at + 1 + Len(F[k - 1])) + Len(C[k])
      BY <2>5, <2>6, <2>9
    <3>3. \A x, y \in Nat : (at + 1 + x) + y = at + 1 + (x + y)
      BY <1>1
    <3> QED
      BY <3>1, <3>2, <3>3, Zenon
  <2>15. U[k].value \in Seq(S) /\ Len(U[k].value) = k /\ U[k].at \in Place
    BY <2>5, <2>6, <2>9, <2>11, <2>12
  <2> QED
    BY <2>13, <2>14, <2>15
<1> HIDE DEF Good
<1>13. Good(n)
  <2> DEFINE G == {k \in Nat : k <= n => Good(k)}
  <2>1. 0 \in G
    BY <1>11
  <2>2. ASSUME NEW k \in Nat, k \in G PROVE k + 1 \in G
    <3>1. k + 1 <= n => k + 1 \in 1..n /\ (k + 1) - 1 = k /\ k <= n
      BY <1>1
    <3> QED
      BY <1>12, <2>2, <3>1
  <2> HIDE DEF G
  <2>3. n \in G
    BY <1>1, <2>1, <2>2, SetInduction
  <2> QED
    BY <1>1, <2>3 DEF G
<1>14. /\ U[n].value \in Seq(S) /\ Len(U[n].value) = n
       /\ \A i \in 1..n : U[n].value[i] = es[i]
       /\ U[n].at = at + 1 + Len(F[n]) /\ U[n].at \in Place
  BY <1>8, <1>13 DEF Good
<1>15. U[n].value = es
  BY <1>14, SeqEqual DEF n
<1>16. Len(F[n]) = Len(chunks) /\ Len(chunks) \in Nat
  BY <1>4, <1>5
<1> QED
  BY <1>1, <1>6, <1>8, <1>14, <1>15, <1>16

-----------------------------------------------------------------------------
(* The symbol table and the pools.                                         *)

Variable == [name : Text, slot : Nat, type : VarType]

(* The table of variables: slots in order, no name twice, a type that is   *)
(* the name's or an array's, and no more of each type than may be.         *)
TypedTable(table) ==
    /\ table \in Seq(Variable)
    /\ \A i \in 1..Len(table) :
          /\ table[i].slot = i - 1
          /\ table[i].type \in {get_var_type(table[i].name), "array"}
DistinctNames(table) ==
    \A i, j \in 1..Len(table) : table[i].name = table[j].name => i = j
CountedTable(table) == \A type \in VarType : CountOf(table, type) <= Limit(type)
TableOK(table) == TypedTable(table) /\ DistinctNames(table) /\ CountedTable(table)

Has(table, name) == \E i \in 1..Len(table) : table[i].name = name

(* Numbers have a least one.                                               *)
LEMMA Least ==
    ASSUME NEW I \in SUBSET Nat, I # {}
    PROVE  \E x \in I : \A y \in I : x <= y
<1> DEFINE R == OpToRel(<, Nat)
<1>1. IsWellFoundedOn(R, Nat)
  BY NatLessThanWellFounded
<1>2. PICK x \in I : \A y \in I : ~(<<y, x>> \in R)
  <2> HIDE DEF R
  <2> QED
    BY <1>1, WFMin
<1>3. \A y \in I : ~(y < x)
  BY <1>2 DEF OpToRel
<1> QED
  BY <1>3

(* compiler_find_variable finds the name, or says that it is not there.    *)
LEMMA FindVariable ==
    ASSUME NEW table, TypedTable(table), NEW name
    PROVE  \/ /\ Has(table, name)
              /\ compiler_find_variable(table, name) \in 0..(Len(table) - 1)
              /\ table[compiler_find_variable(table, name) + 1].name = name
           \/ ~Has(table, name) /\ compiler_find_variable(table, name) = -1
<1> DEFINE found == {i \in DOMAIN table : table[i].name = name}
<1>1. Len(table) \in Nat /\ DOMAIN table = 1..Len(table)
  BY DEF TypedTable
<1>2. CASE found = {}
  <2>1. ~Has(table, name)
    BY <1>1, <1>2 DEF Has
  <2>2. compiler_find_variable(table, name) = -1
    BY <1>2 DEF compiler_find_variable
  <2> QED
    BY <2>1, <2>2
<1>3. CASE found # {}
  <2>1. found \in SUBSET Nat
    BY <1>1
  <2> DEFINE first == CHOOSE i \in found : \A j \in found : i <= j
  <2>2. compiler_find_variable(table, name) = table[first].slot
    BY <1>3 DEF compiler_find_variable
  <2>3. first \in found
    <3> HIDE DEF found
    <3>1. \E x \in found : \A y \in found : x <= y
      BY <1>3, <2>1, Least
    <3> QED
      BY <3>1
  <2> HIDE DEF first
  <2>4. first \in 1..Len(table) /\ table[first].name = name
    BY <1>1, <2>3
  <2>5. table[first].slot = first - 1
    BY <2>4 DEF TypedTable
  <2>6. first - 1 \in 0..(Len(table) - 1) /\ (first - 1) + 1 = first
    BY <1>1, <2>4
  <2> QED
    BY <2>2, <2>4, <2>5, <2>6 DEF Has
<1> QED
  BY <1>2, <1>3

(* How many variables of a type there are, with one more.                  *)
LEMMA CountAppend ==
    ASSUME NEW table \in Seq(Variable), NEW v \in Variable, NEW type
    PROVE  /\ CountOf(table, type) \in Nat
           /\ CountOf(Append(table, v), type)
                 = IF v.type = type THEN CountOf(table, type) + 1 ELSE CountOf(table, type)
<1> DEFINE longer == Append(table, v)
           of == {i \in DOMAIN table : table[i].type = type}
           ofLonger == {i \in DOMAIN longer : longer[i].type = type}
           n == Len(table)
<1>1. /\ n \in Nat /\ DOMAIN table = 1..n
      /\ longer \in Seq(Variable) /\ Len(longer) = n + 1
      /\ \A i \in 1..n : longer[i] = table[i]
      /\ longer[n + 1] = v
  BY AppendProperties
<1>2. DOMAIN longer = 1..(n + 1)
  BY <1>1
<1> HIDE DEF longer, n
<1>3. ofLonger = IF v.type = type THEN of \cup {n + 1} ELSE of
  BY <1>1, <1>2
<1>4. n + 1 \notin of /\ of \subseteq 1..n
  BY <1>1
<1>5. CountOf(table, type) = Cardinality(of)
  BY DEF CountOf
<1>6. CountOf(Append(table, v), type) = Cardinality(ofLonger)
  BY DEF CountOf, longer
<1> HIDE DEF of, ofLonger
<1>7. IsFiniteSet(of)
  <2>1. IsFiniteSet(1..n)
    BY <1>1, FS_Interval
  <2> QED
    BY <1>4, <2>1, FS_Subset
<1>8. Cardinality(of) \in Nat
  BY <1>7, FS_CardinalityType
<1>9. Cardinality(of \cup {n + 1}) = Cardinality(of) + 1
  BY <1>4, <1>7, FS_AddElement
<1> QED
  BY <1>3, <1>5, <1>6, <1>8, <1>9

(* compiler_add_variable keeps the table in order, takes no variable away, *)
(* and adds one only at the end.                                           *)
LEMMA AddVariable ==
    ASSUME NEW table, TableOK(table), NEW name \in Text, NEW type \in VarType,
           type \in {get_var_type(name), "array"}
    PROVE  LET longer == compiler_add_variable(table, name, type)
           IN  /\ TableOK(longer)
               /\ \/ longer = table
                  \/ /\ longer = Append(table, [name |-> name, slot |-> Len(table),
                                                type |-> type])
                     /\ ~Has(table, name)
               /\ Has(longer, name) \/ CountOf(table, type) >= Limit(type)
<1> DEFINE v == [name |-> name, slot |-> Len(table), type |-> type]
           longer == compiler_add_variable(table, name, type)
           n == Len(table)
<1>1. /\ TypedTable(table) /\ DistinctNames(table) /\ CountedTable(table)
      /\ table \in Seq(Variable) /\ n \in Nat
  BY DEF TableOK, TypedTable
<1>2. CASE compiler_find_variable(table, name) >= 0
  <2>1. longer = table
    BY <1>2 DEF compiler_add_variable
  <2>2. Has(table, name)
    BY <1>1, <1>2, FindVariable
  <2> QED
    BY <2>1, <2>2
<1>3. CASE CountOf(table, type) >= Limit(type)
  <2>1. longer = table
    BY <1>3 DEF compiler_add_variable
  <2> QED
    BY <1>3, <2>1
<1>4. CASE ~(compiler_find_variable(table, name) >= 0) /\ ~(CountOf(table, type) >= Limit(type))
  <2>1. longer = Append(table, v)
    BY <1>4 DEF compiler_add_variable
  <2>2. ~Has(table, name)
    BY <1>1, <1>4, FindVariable
  <2>3. v \in Variable
    BY <1>1 DEF Variable
  <2>4. v.name = name /\ v.slot = n /\ v.type = type
    OBVIOUS
  <2> HIDE DEF v
  <2>5. /\ longer \in Seq(Variable) /\ Len(longer) = n + 1
        /\ \A i \in 1..n : longer[i] = table[i]
        /\ longer[n + 1] = v
    BY <1>1, <2>1, <2>3, AppendProperties
  <2> HIDE DEF longer, n
  <2>6. \A i \in 1..(n + 1) : i \in 1..n \/ i = n + 1
    BY <1>1
  <2>7. n + 1 \in 1..(n + 1) /\ (n + 1) - 1 = n
    BY <1>1
  <2>8. TypedTable(longer)
    <3>1. ASSUME NEW i \in 1..(n + 1)
          PROVE  /\ longer[i].slot = i - 1
                 /\ longer[i].type \in {get_var_type(longer[i].name), "array"}
      <4>1. CASE i \in 1..n
        BY <1>1, <2>5, <4>1 DEF TypedTable, n
      <4>2. CASE i = n + 1
        BY <2>4, <2>5, <2>7, <4>2
      <4> QED
        BY <2>6, <4>1, <4>2
    <3> QED
      BY <2>5, <3>1 DEF TypedTable
  <2>9. DistinctNames(longer)
    <3>1. \A i \in 1..n : longer[i].name # name
      BY <2>2, <2>5 DEF Has, n
    <3>2. \A i, j \in 1..n : longer[i].name = longer[j].name => i = j
      BY <1>1, <2>5 DEF DistinctNames, n
    <3>3. longer[n + 1].name = name
      BY <2>4, <2>5
    <3>4. \A i, j \in 1..(n + 1) : longer[i].name = longer[j].name => i = j
      BY <2>6, <3>1, <3>2, <3>3
    <3> QED
      BY <2>5, <3>4 DEF DistinctNames
  <2>10. CountedTable(longer)
    <3>1. ASSUME NEW t \in VarType PROVE CountOf(longer, t) <= Limit(t)
      <4>1. /\ CountOf(table, t) \in Nat
            /\ CountOf(longer, t) = IF type = t THEN CountOf(table, t) + 1 ELSE CountOf(table, t)
        BY <1>1, <2>1, <2>3, <2>4, CountAppend
      <4>2. CountOf(table, t) <= Limit(t)
        BY <1>1 DEF CountedTable
      <4>3. Limit(t) \in Nat
        BY LimitAssumption DEF Limit, VarType
      <4> QED
        BY <1>4, <4>1, <4>2, <4>3
    <3> QED
      BY <3>1 DEF CountedTable
  <2>11. Has(longer, name)
    BY <2>4, <2>5, <2>7 DEF Has
  <2> QED
    BY <2>1, <2>2, <2>8, <2>9, <2>10, <2>11 DEF TableOK, longer, v, n
<1> QED
  BY <1>2, <1>3, <1>4

(* Both tables of a name: the type of a name is a type of variables.       *)
LEMMA NameTypes == \A name : get_var_type(name) \in VarType \ {"array"}
BY DEF get_var_type, VarType

(* The names of a table with one variable more.                            *)
LEMMA HasAppend ==
    ASSUME NEW table \in Seq(Variable), NEW name \in Text, NEW type \in VarType
    PROVE  LET longer == Append(table, [name |-> name, slot |-> Len(table), type |-> type])
           IN  /\ Has(longer, name)
               /\ \A other : Has(table, other) => Has(longer, other)
               /\ \A other : Has(longer, other) => Has(table, other) \/ other = name
<1> DEFINE v == [name |-> name, slot |-> Len(table), type |-> type]
           longer == Append(table, v)
           n == Len(table)
<1>1. n \in Nat /\ v \in Variable /\ v.name = name
  BY DEF Variable
<1> HIDE DEF v
<1>2. /\ longer \in Seq(Variable) /\ Len(longer) = n + 1
      /\ \A i \in 1..n : longer[i] = table[i]
      /\ longer[n + 1] = v
  BY <1>1, AppendProperties
<1> HIDE DEF longer, n
<1>3. n + 1 \in 1..(n + 1) /\ \A i \in 1..(n + 1) : i \in 1..n \/ i = n + 1
  BY <1>1
<1>4. 1..n \subseteq 1..(n + 1)
  BY <1>1
<1>5. Has(longer, name)
  BY <1>1, <1>2, <1>3 DEF Has
<1>6. \A other : Has(table, other) => Has(longer, other)
  BY <1>2, <1>4 DEF Has, n
<1>7. \A other : Has(longer, other) => Has(table, other) \/ other = name
  BY <1>1, <1>2, <1>3 DEF Has, n
<1> QED
  BY <1>5, <1>6, <1>7 DEF longer, v

(* discover_variables keeps the table, and leaves no name out of it unless *)
(* there are as many variables of its type as may be.                      *)
LEMMA DiscoverOne ==
    ASSUME NEW table, TableOK(table), NEW ref \in Reference
    PROVE  LET longer == discover_variables(table, ref)
           IN  /\ TableOK(longer)
               /\ \A name : Has(table, name) => Has(longer, name)
               /\ \A name : Has(longer, name) =>
                     Has(table, name) \/ (ref.k \in {"var", "dim"} /\ ref.name = name)
               /\ ref.k \in {"var", "dim"} =>
                     \/ Has(longer, ref.name)
                     \/ ~Has(longer, ref.name)
                        /\ CountOf(longer, get_var_type(ref.name)) >= Limit(get_var_type(ref.name))
<1> DEFINE longer == discover_variables(table, ref)
<1>1. CASE ref.k \notin {"var", "dim"}
  <2>1. longer = table
    BY <1>1 DEF discover_variables
  <2> QED
    BY <1>1, <2>1
<1>2. CASE ref.k \in {"var", "dim"}
  <2> DEFINE name == ref.name
             type == get_var_type(name)
             dim == IF ref.k = "dim" THEN compiler_add_variable(table, name, "array")
                    ELSE table
  <2>1. name \in Text /\ type \in VarType /\ "array" \in VarType
    BY <1>2, NameTypes DEF Reference, VarType
  <2>2. longer = compiler_add_variable(dim, name, type)
    BY <1>2 DEF discover_variables
  <2>3. /\ TableOK(dim)
        /\ \/ dim = table
           \/ dim = Append(table, [name |-> name, slot |-> Len(table), type |-> "array"])
    <3>1. CASE ref.k = "dim"
      BY <2>1, <3>1, AddVariable
    <3>2. CASE ref.k # "dim"
      BY <3>2
    <3> QED
      BY <3>1, <3>2
  <2> HIDE DEF dim, longer, type
  <2>4. /\ TableOK(longer)
        /\ \/ longer = dim
           \/ longer = Append(dim, [name |-> name, slot |-> Len(dim), type |-> type])
        /\ Has(longer, name) \/ CountOf(dim, type) >= Limit(type)
        /\ ~(longer = dim) => ~Has(dim, name)
    BY <2>1, <2>2, <2>3, AddVariable DEF type
  <2>5. /\ \A other : Has(table, other) => Has(dim, other)
        /\ \A other : Has(dim, other) => Has(table, other) \/ other = name
    <3>1. CASE dim = table
      BY <3>1
    <3>2. CASE dim = Append(table, [name |-> name, slot |-> Len(table), type |-> "array"])
      BY <2>1, <3>2, HasAppend DEF TableOK, TypedTable
    <3> QED
      BY <2>3, <3>1, <3>2
  <2>6. /\ \A other : Has(dim, other) => Has(longer, other)
        /\ \A other : Has(longer, other) => Has(dim, other) \/ other = name
    <3>1. CASE longer = dim
      BY <3>1
    <3>2. CASE longer = Append(dim, [name |-> name, slot |-> Len(dim), type |-> type])
      BY <2>1, <2>3, <3>2, HasAppend DEF TableOK, TypedTable, type
    <3> QED
      BY <2>4, <3>1, <3>2
  <2>7. Has(longer, name) \/ CountOf(longer, type) >= Limit(type)
    <3>1. CASE longer = dim
      BY <2>4, <3>1
    <3>2. CASE longer # dim
      <4>1. longer = Append(dim, [name |-> name, slot |-> Len(dim), type |-> type])
        BY <2>4, <3>2
      <4>2. Has(longer, name)
        BY <2>1, <2>3, <4>1, HasAppend DEF TableOK, TypedTable, type
      <4> QED
        BY <4>2
    <3> QED
      BY <3>1, <3>2
  <2> QED
    BY <1>2, <2>4, <2>5, <2>6, <2>7 DEF longer, type
<1> QED
  BY <1>1, <1>2

(* A pool with an item in it: the item is at its index, and the items that *)
(* were there are where they were.                                         *)
Grown(longer, pool) ==
    /\ Len(longer) \in Nat /\ Len(pool) \in Nat /\ Len(pool) <= Len(longer)
    /\ \A i \in 1..Len(pool) : longer[i] = pool[i]

(* What Append does. *)
LEMMA GrownAppend ==
    ASSUME NEW S, NEW pool \in Seq(S), NEW item \in S
    PROVE  /\ Append(pool, item) \in Seq(S)
           /\ Grown(Append(pool, item), pool)
           /\ Len(Append(pool, item)) = Len(pool) + 1
           /\ Append(pool, item)[Len(pool) + 1] = item
<1> DEFINE longer == Append(pool, item)
<1>1. /\ longer \in Seq(S) /\ Len(longer) = Len(pool) + 1 /\ Len(pool) \in Nat
      /\ \A i \in 1..Len(pool) : longer[i] = pool[i]
      /\ longer[Len(pool) + 1] = item
  BY AppendProperties
<1> HIDE DEF longer
<1>2. Grown(longer, pool)
  BY <1>1 DEF Grown
<1> QED
  BY <1>1, <1>2 DEF longer

(* What compiler_add_const and compiler_add_string do. *)
LEMMA PooledItem ==
    ASSUME NEW S, NEW pool \in Seq(S), NEW item \in S
    PROVE  /\ Pooled(pool, item) \in Seq(S)
           /\ Grown(Pooled(pool, item), pool)
           /\ IndexIn(Pooled(pool, item), item) \in 0..(Len(Pooled(pool, item)) - 1)
           /\ Pooled(pool, item)[IndexIn(Pooled(pool, item), item) + 1] = item
<1> DEFINE longer == Pooled(pool, item)
           at == {i \in 1..Len(longer) : longer[i] = item}
<1>1. longer \in Seq(S) /\ Grown(longer, pool) /\ at # {}
  <2>1. CASE Contains(pool, item)
    <3>1. longer = pool
      BY <2>1 DEF Pooled
    <3>2. PICK i \in 1..Len(pool) : pool[i] = item
      BY <2>1 DEF Contains
    <3>3. Grown(pool, pool)
      BY DEF Grown
    <3> QED
      BY <3>1, <3>2, <3>3
  <2>2. CASE ~Contains(pool, item)
    <3>1. longer = Append(pool, item)
      BY <2>2 DEF Pooled
    <3> DEFINE appended == Append(pool, item)
    <3>2. /\ appended \in Seq(S) /\ Grown(appended, pool)
          /\ Len(appended) = Len(pool) + 1 /\ appended[Len(pool) + 1] = item
      BY GrownAppend
    <3> HIDE DEF appended
    <3>3. Len(pool) + 1 \in 1..Len(appended)
      BY <3>2 DEF Grown
    <3>4. longer = appended
      BY <3>1 DEF appended
    <3> HIDE DEF longer
    <3> QED
      BY <3>2, <3>3, <3>4
  <2> QED
    BY <2>1, <2>2
<1> HIDE DEF longer
<1>2. Len(longer) \in Nat
  BY <1>1 DEF Grown
<1>3. IndexIn(longer, item) = Min(at) - 1
  BY <1>1 DEF IndexIn, SelectInSeq
<1>4. Min(at) \in at
  <2>1. at \in SUBSET Nat
    BY <1>2
  <2> HIDE DEF at
  <2>2. \E x \in at : \A y \in at : x =< y
    BY <1>1, <2>1, Least
  <2> QED
    BY <2>2 DEF Min
<1> DEFINE least == Min(at)
<1>5. least \in 1..Len(longer) /\ longer[least] = item /\ IndexIn(longer, item) = least - 1
  BY <1>3, <1>4
<1> HIDE DEF least
<1>6. IndexIn(longer, item) \in 0..(Len(longer) - 1) /\ IndexIn(longer, item) + 1 = least
  BY <1>2, <1>5
<1> QED
  BY <1>1, <1>5, <1>6 DEF longer

-----------------------------------------------------------------------------
(* The program that is compiled.                                           *)

LineEntry == [line : Int, offset : Int]
DataEntry == [type : {"num", "str", "null"}, idx : Int]
Program == [code : Seq(Int), consts : Seq(Number), strings : Seq(Text),
            vars : Seq(Variable), lines : Seq(LineEntry), dataNums : Seq(Number),
            dataStrs : Seq(Text), data : Seq(DataEntry)]

(* Nothing that a program had is moved by what is compiled after it.       *)
Extends(q, p) ==
    /\ Grown(q.code, p.code) /\ Grown(q.consts, p.consts)
    /\ Grown(q.strings, p.strings) /\ Grown(q.vars, p.vars) /\ Grown(q.lines, p.lines)
    /\ Grown(q.dataNums, p.dataNums) /\ Grown(q.dataStrs, p.dataStrs)
    /\ Grown(q.data, p.data)

(* A sequence is where it was. *)
LEMMA GrownSelf == \A S : \A s \in Seq(S) : Grown(s, s)
BY DEF Grown

(* Nor is it by nothing. *)
LEMMA ExtendsSelf == \A p \in Program : Extends(p, p)
<1> SUFFICES ASSUME NEW p \in Program PROVE Extends(p, p)
  OBVIOUS
<1>1. /\ p.code \in Seq(Int) /\ p.consts \in Seq(Number) /\ p.strings \in Seq(Text)
      /\ p.vars \in Seq(Variable) /\ p.lines \in Seq(LineEntry)
      /\ p.dataNums \in Seq(Number) /\ p.dataStrs \in Seq(Text) /\ p.data \in Seq(DataEntry)
  BY DEF Program
<1> QED
  BY <1>1, GrownSelf DEF Extends

(* No table is longer than an operand can say.                             *)
LEMMA TableBound ==
    ASSUME NEW table, TableOK(table)
    PROVE  Len(table) \in Nat /\ Len(table) < 65536
<1> DEFINE n == Len(table)
           of(type) == {i \in DOMAIN table : table[i].type = type}
<1>1. n \in Nat /\ DOMAIN table = 1..n /\ table \in Seq(Variable)
  BY DEF TableOK, TypedTable
<1>2. ASSUME NEW i \in 1..n PROVE table[i].type \in VarType
  <2>1. table[i] \in Variable
    BY <1>1
  <2> QED
    BY <2>1 DEF Variable
<1>3. IsFiniteSet(1..n) /\ Cardinality(1..n) = n
  BY <1>1, FS_Interval
<1>4. ASSUME NEW type \in VarType
      PROVE  /\ IsFiniteSet(of(type)) /\ Cardinality(of(type)) \in Nat
             /\ Cardinality(of(type)) <= Limit(type)
  <2>1. of(type) \in SUBSET (1..n)
    BY <1>1
  <2>2. IsFiniteSet(of(type))
    BY <1>3, <2>1, FS_Subset
  <2>3. CountOf(table, type) = Cardinality(of(type))
    BY DEF CountOf
  <2>4. CountOf(table, type) <= Limit(type)
    BY DEF TableOK, CountedTable
  <2>5. Cardinality(of(type)) \in Nat
    BY <2>2, FS_CardinalityType
  <2> QED
    BY <2>2, <2>3, <2>4, <2>5
<1> DEFINE N == of("numeric")
           T == of("string")
           A == of("array")
<1>5. 1..n = (N \cup T) \cup A
  BY <1>1, <1>2 DEF VarType
<1>6. /\ IsFiniteSet(N) /\ Cardinality(N) \in Nat /\ Cardinality(N) <= MaxNumericVars
      /\ IsFiniteSet(T) /\ Cardinality(T) \in Nat /\ Cardinality(T) <= MaxStringVars
      /\ IsFiniteSet(A) /\ Cardinality(A) \in Nat /\ Cardinality(A) <= MaxArrays
  <2>1. "numeric" \in VarType /\ "string" \in VarType /\ "array" \in VarType
    BY DEF VarType
  <2>2. Limit("numeric") = MaxNumericVars /\ Limit("string") = MaxStringVars
        /\ Limit("array") = MaxArrays
    BY DEF Limit
  <2> HIDE DEF of
  <2> QED
    BY <1>4, <2>1, <2>2
<1> HIDE DEF N, T, A, n
<1>7. IsFiniteSet(N \cup T) /\ Cardinality(N \cup T) <= Cardinality(N) + Cardinality(T)
      /\ Cardinality(N \cup T) \in Nat
  <2>1. /\ IsFiniteSet(N \cup T)
        /\ Cardinality(N \cup T) = Cardinality(N) + Cardinality(T) - Cardinality(N \cap T)
    BY <1>6, FS_Union
  <2>2. IsFiniteSet(N \cap T)
    BY <1>6, FS_Intersection
  <2>3. Cardinality(N \cap T) \in Nat /\ Cardinality(N \cup T) \in Nat
    BY <2>1, <2>2, FS_CardinalityType
  <2> QED
    BY <1>6, <2>1, <2>3
<1>8. n <= Cardinality(N \cup T) + Cardinality(A)
  <2> DEFINE B == N \cup T
  <2>0. IsFiniteSet(B) /\ Cardinality(B) \in Nat
    BY <1>7
  <2> HIDE DEF B
  <2>1. Cardinality(B \cup A) = Cardinality(B) + Cardinality(A) - Cardinality(B \cap A)
    BY <1>6, <2>0, FS_Union
  <2>2. IsFiniteSet(B \cap A)
    BY <1>6, FS_Intersection
  <2>3. Cardinality(B \cap A) \in Nat
    BY <2>2, FS_CardinalityType
  <2>4. Cardinality(B \cup A) = n
    BY <1>3, <1>5 DEF B
  <2> QED
    BY <1>6, <2>0, <2>1, <2>3, <2>4 DEF B
<1> QED
  BY <1>1, <1>6, <1>7, <1>8, LimitAssumption DEF n

-----------------------------------------------------------------------------
(* What a statement compiles to.                                           *)

(* An operand stands for what its statement wrote. *)
StandsFor(p, operand, ref) ==
    /\ ref.k = "const" => /\ operand \in 0..(Len(p.consts) - 1)
                          /\ p.consts[operand + 1] = ref.value
    /\ ref.k = "string" => /\ operand \in 0..(Len(p.strings) - 1)
                           /\ p.strings[operand + 1] = ref.value
    /\ ref.k \in {"var", "dim"} => /\ operand \in 0..(Len(p.vars) - 1)
                                   /\ p.vars[operand + 1].name = ref.name

(* An entry of the DATA table stands for an item. *)
ItemFor(p, entry, item) ==
    /\ entry.type = item.type
    /\ item.type = "num" => /\ entry.idx \in 0..(Len(p.dataNums) - 1)
                            /\ p.dataNums[entry.idx + 1] = item.num
    /\ item.type = "str" => /\ entry.idx \in 0..(Len(p.dataStrs) - 1)
                            /\ p.dataStrs[entry.idx + 1] = item.str

(* Both still do when more is compiled.                                    *)
LEMMA StillStands ==
    ASSUME NEW p, NEW q, Extends(q, p)
    PROVE  /\ \A operand, ref : StandsFor(p, operand, ref) => StandsFor(q, operand, ref)
           /\ \A entry, item : ItemFor(p, entry, item) => ItemFor(q, entry, item)
           /\ \A name : Has(p.vars, name) => Has(q.vars, name)
<1>1. ASSUME NEW a, NEW b, Grown(a, b), NEW x \in 0..(Len(b) - 1)
      PROVE  x \in 0..(Len(a) - 1) /\ a[x + 1] = b[x + 1]
  <2>1. x + 1 \in 1..Len(b)
    BY <1>1 DEF Grown
  <2> QED
    BY <1>1, <2>1 DEF Grown
<1>2. /\ Grown(q.consts, p.consts) /\ Grown(q.strings, p.strings)
      /\ Grown(q.vars, p.vars) /\ Grown(q.dataNums, p.dataNums)
      /\ Grown(q.dataStrs, p.dataStrs)
  BY DEF Extends
<1>3. ASSUME NEW operand, NEW ref, StandsFor(p, operand, ref)
      PROVE  StandsFor(q, operand, ref)
  <2>1. ref.k = "const" => /\ operand \in 0..(Len(q.consts) - 1)
                           /\ q.consts[operand + 1] = ref.value
    BY <1>1, <1>2, <1>3 DEF StandsFor
  <2>2. ref.k = "string" => /\ operand \in 0..(Len(q.strings) - 1)
                            /\ q.strings[operand + 1] = ref.value
    BY <1>1, <1>2, <1>3 DEF StandsFor
  <2>3. ref.k \in {"var", "dim"} => /\ operand \in 0..(Len(q.vars) - 1)
                                    /\ q.vars[operand + 1].name = ref.name
    BY <1>1, <1>2, <1>3 DEF StandsFor
  <2> QED
    BY <2>1, <2>2, <2>3 DEF StandsFor
<1>4. ASSUME NEW entry, NEW item, ItemFor(p, entry, item)
      PROVE  ItemFor(q, entry, item)
  <2>1. item.type = "num" => /\ entry.idx \in 0..(Len(q.dataNums) - 1)
                             /\ q.dataNums[entry.idx + 1] = item.num
    BY <1>1, <1>2, <1>4 DEF ItemFor
  <2>2. item.type = "str" => /\ entry.idx \in 0..(Len(q.dataStrs) - 1)
                             /\ q.dataStrs[entry.idx + 1] = item.str
    BY <1>1, <1>2, <1>4 DEF ItemFor
  <2> QED
    BY <1>4, <2>1, <2>2 DEF ItemFor
<1>5. ASSUME NEW name, Has(p.vars, name) PROVE Has(q.vars, name)
  <2>1. PICK i \in 1..Len(p.vars) : p.vars[i].name = name
    BY <1>5 DEF Has
  <2>2. i \in 1..Len(q.vars) /\ q.vars[i] = p.vars[i]
    BY <1>2 DEF Grown
  <2> QED
    BY <2>1, <2>2 DEF Has
<1> QED
  BY <1>3, <1>4, <1>5

(* The program with one more operand. *)
LEMMA EmitOne ==
    ASSUME NEW p \in Program, NEW operand \in Int
    PROVE  /\ Emit(p, operand) \in Program
           /\ Extends(Emit(p, operand), p)
           /\ Emit(p, operand) = [p EXCEPT !.code = Append(p.code, operand)]
           /\ Len(Emit(p, operand).code) = Len(p.code) + 1
           /\ Emit(p, operand).code[Len(p.code) + 1] = operand
<1> DEFINE q == Emit(p, operand)
           longer == Append(p.code, operand)
<1>1. q = [p EXCEPT !.code = longer]
  BY DEF Emit
<1>2. p.code \in Seq(Int)
  BY DEF Program
<1>3. /\ longer \in Seq(Int) /\ Grown(longer, p.code)
      /\ Len(longer) = Len(p.code) + 1 /\ longer[Len(p.code) + 1] = operand
  BY <1>2, GrownAppend
<1> HIDE DEF longer, q
<1>4. q \in Program /\ q.code = longer
  BY <1>1, <1>3 DEF Program
<1>5. /\ q.consts = p.consts /\ q.strings = p.strings /\ q.vars = p.vars /\ q.lines = p.lines
      /\ q.dataNums = p.dataNums /\ q.dataStrs = p.dataStrs /\ q.data = p.data
  BY <1>1 DEF Program
<1>6. Extends(q, p)
  <2>1. Extends(p, p)
    BY ExtendsSelf
  <2> QED
    BY <1>3, <1>4, <1>5, <2>1 DEF Extends
<1> QED
  BY <1>1, <1>3, <1>4, <1>6 DEF q, longer

(* What a statement that emits an operand does to the program.             *)
Compiled(q, p, ref) ==
    /\ q \in Program /\ TableOK(q.vars) /\ Extends(q, p) /\ q.lines = p.lines
    /\ \A name : Has(q.vars, name) => \/ Has(p.vars, name)
                                      \/ ref.k \in {"var", "dim"} /\ ref.name = name
    /\ ref.k # "data" =>
          /\ q.data = p.data
          /\ Len(q.code) = Len(p.code) + 1
          /\ (ref.k \in {"var", "dim"} => Has(p.vars, ref.name)) =>
                StandsFor(q, q.code[Len(p.code) + 1], ref)
    /\ ref.k = "data" =>
          /\ q.code = p.code
          /\ Len(q.data) = Len(p.data) + 1
          /\ ItemFor(q, q.data[Len(p.data) + 1], ref.item)

(* A number, from the pool. *)
LEMMA ConstCompiled ==
    ASSUME NEW p \in Program, TableOK(p.vars), NEW ref \in Reference, ref.k = "const"
    PROVE  Compiled(CompileConst(p, ref.value), p, ref)
<1> DEFINE n == ref.value
           pool == Pooled(p.consts, n)
           m == [p EXCEPT !.consts = pool]
           operand == IndexIn(pool, n)
           q == Emit(m, operand)
<1>1. n \in Number /\ p.consts \in Seq(Number)
  BY DEF Reference, Program
<1>2. /\ pool \in Seq(Number) /\ Grown(pool, p.consts)
      /\ operand \in 0..(Len(pool) - 1) /\ pool[operand + 1] = n
  BY <1>1, PooledItem, ZenonT(60)
<1>3. m \in Program /\ m.consts = pool
  <2> HIDE DEF pool
  <2> QED
    BY <1>2 DEF Program
<1>4. /\ m.code = p.code /\ m.strings = p.strings /\ m.vars = p.vars /\ m.lines = p.lines
      /\ m.dataNums = p.dataNums /\ m.dataStrs = p.dataStrs /\ m.data = p.data
  BY DEF Program
<1>5. CompileConst(p, n) = q
  BY <1>3 DEF CompileConst
<1> HIDE DEF pool, m, operand
<1>6. operand \in Int
  BY <1>2 DEF Grown
<1>7. /\ q \in Program /\ Extends(q, m) /\ q = [m EXCEPT !.code = Append(m.code, operand)]
      /\ Len(q.code) = Len(m.code) + 1 /\ q.code[Len(m.code) + 1] = operand
  BY <1>3, <1>6, EmitOne
<1>8. q.consts = pool /\ q.vars = p.vars /\ q.lines = p.lines /\ q.data = p.data
  BY <1>3, <1>4, <1>7 DEF Program
<1> HIDE DEF q, n
<1>9. Extends(q, p)
  <2>1. Extends(p, p)
    BY ExtendsSelf
  <2> QED
    BY <1>2, <1>3, <1>4, <1>7, <1>8, <2>1 DEF Extends
<1>10. StandsFor(q, q.code[Len(p.code) + 1], ref)
  BY <1>2, <1>4, <1>7, <1>8 DEF StandsFor, n
<1> QED
  BY <1>4, <1>5, <1>7, <1>8, <1>9, <1>10 DEF Compiled, n

(* A text, from its pool. *)
LEMMA StringCompiled ==
    ASSUME NEW p \in Program, TableOK(p.vars), NEW ref \in Reference, ref.k = "string"
    PROVE  Compiled(CompileString(p, ref.value), p, ref)
<1> DEFINE s == ref.value
           pool == Pooled(p.strings, s)
           m == [p EXCEPT !.strings = pool]
           operand == IndexIn(pool, s)
           q == Emit(m, operand)
<1>1. s \in Text /\ p.strings \in Seq(Text)
  BY DEF Reference, Program
<1>2. /\ pool \in Seq(Text) /\ Grown(pool, p.strings)
      /\ operand \in 0..(Len(pool) - 1) /\ pool[operand + 1] = s
  BY <1>1, PooledItem, ZenonT(60)
<1>3. m \in Program /\ m.strings = pool
  <2> HIDE DEF pool
  <2> QED
    BY <1>2 DEF Program
<1>4. /\ m.code = p.code /\ m.consts = p.consts /\ m.vars = p.vars /\ m.lines = p.lines
      /\ m.dataNums = p.dataNums /\ m.dataStrs = p.dataStrs /\ m.data = p.data
  BY DEF Program
<1>5. CompileString(p, s) = q
  BY <1>3 DEF CompileString
<1> HIDE DEF pool, m, operand
<1>6. operand \in Int
  BY <1>2 DEF Grown
<1>7. /\ q \in Program /\ Extends(q, m) /\ q = [m EXCEPT !.code = Append(m.code, operand)]
      /\ Len(q.code) = Len(m.code) + 1 /\ q.code[Len(m.code) + 1] = operand
  BY <1>3, <1>6, EmitOne
<1>8. q.strings = pool /\ q.vars = p.vars /\ q.lines = p.lines /\ q.data = p.data
  BY <1>3, <1>4, <1>7 DEF Program
<1> HIDE DEF q, s
<1>9. Extends(q, p)
  <2>1. Extends(p, p)
    BY ExtendsSelf
  <2> QED
    BY <1>2, <1>3, <1>4, <1>7, <1>8, <2>1 DEF Extends
<1>10. StandsFor(q, q.code[Len(p.code) + 1], ref)
  BY <1>2, <1>4, <1>7, <1>8 DEF StandsFor, s
<1> QED
  BY <1>4, <1>5, <1>7, <1>8, <1>9, <1>10 DEF Compiled, s

(* A variable, from the table. *)
LEMMA VariableCompiled ==
    ASSUME NEW p \in Program, TableOK(p.vars), NEW ref \in Reference, ref.k \in {"var", "dim"},
           NEW type \in VarType, type \in {get_var_type(ref.name), "array"}
    PROVE  Compiled(CompileVariable(p, ref.name, type), p, ref)
<1> DEFINE name == ref.name
           table == compiler_add_variable(p.vars, name, type)
           m == [p EXCEPT !.vars = table]
           place == compiler_find_variable(table, name)
           operand == Operand16(place)
           q == Emit(m, operand)
<1>1. name \in Text /\ p.vars \in Seq(Variable)
  BY DEF Reference, Program
<1>2. /\ TableOK(table)
      /\ \/ table = p.vars
         \/ table = Append(p.vars, [name |-> name, slot |-> Len(p.vars), type |-> type])
  BY <1>1, AddVariable
<1>3. table \in Seq(Variable) /\ Len(table) \in Nat /\ Len(table) < 65536
  <2>1. Len(table) \in Nat /\ Len(table) < 65536
    BY <1>2, TableBound
  <2> HIDE DEF table
  <2> QED
    BY <1>2, <2>1 DEF TableOK, TypedTable
<1>4. Grown(table, p.vars) /\ \A other : Has(table, other) => Has(p.vars, other) \/ other = name
  <2>1. CASE table = p.vars
    BY <1>1, <2>1, GrownSelf
  <2>2. CASE table = Append(p.vars, [name |-> name, slot |-> Len(p.vars), type |-> type])
    <3> DEFINE v == [name |-> name, slot |-> Len(p.vars), type |-> type]
    <3>1. v \in Variable
      BY <1>1 DEF Variable
    <3>2. Grown(Append(p.vars, v), p.vars)
      <4> HIDE DEF v
      <4> QED
        BY <1>1, <3>1, GrownAppend
    <3>3. \A other : Has(Append(p.vars, v), other) => Has(p.vars, other) \/ other = name
      BY <1>1, HasAppend
    <3> QED
      BY <2>2, <3>2, <3>3
  <2> QED
    BY <1>2, <2>1, <2>2
<1>5. m \in Program /\ m.vars = table
  <2>1. table \in Seq(Variable)
    BY <1>3
  <2> HIDE DEF table
  <2>2. m \in Program
    BY <2>1 DEF Program
  <2>3. m.vars = table
    BY DEF Program
  <2> QED
    BY <2>2, <2>3
<1>6. /\ m.code = p.code /\ m.consts = p.consts /\ m.strings = p.strings /\ m.lines = p.lines
      /\ m.dataNums = p.dataNums /\ m.dataStrs = p.dataStrs /\ m.data = p.data
  BY DEF Program
<1>7. CompileVariable(p, name, type) = q
  BY <1>5 DEF CompileVariable
<1>8. /\ place \in Int
      /\ Has(table, name) => /\ place \in 0..(Len(table) - 1)
                             /\ table[place + 1].name = name
  <2> HIDE DEF table
  <2>1. TypedTable(table)
    BY <1>2 DEF TableOK
  <2>2. \/ /\ Has(table, name) /\ place \in 0..(Len(table) - 1)
           /\ table[place + 1].name = name
        \/ ~Has(table, name) /\ place = -1
    BY <2>1, FindVariable
  <2> QED
    BY <1>3, <2>2
<1> HIDE DEF table, m, place
<1>9. operand \in Int /\ (place \in 0..(Len(table) - 1) => operand = place)
  BY <1>3, <1>8 DEF Operand16
<1> HIDE DEF operand
<1>10. /\ q \in Program /\ Extends(q, m) /\ q = [m EXCEPT !.code = Append(m.code, operand)]
       /\ Len(q.code) = Len(m.code) + 1 /\ q.code[Len(m.code) + 1] = operand
  BY <1>5, <1>9, EmitOne
<1>11. q.vars = table /\ q.lines = p.lines /\ q.data = p.data
  BY <1>5, <1>6, <1>10 DEF Program
<1> HIDE DEF q, name
<1>12. Extends(q, p)
  <2>1. Extends(p, p)
    BY ExtendsSelf
  <2> QED
    BY <1>4, <1>5, <1>6, <1>10, <1>11, <2>1 DEF Extends
<1>13. Has(p.vars, name) => StandsFor(q, q.code[Len(p.code) + 1], ref)
  <2>1. Has(p.vars, name) => Has(table, name)
    BY <1>11, <1>12, StillStands
  <2> QED
    BY <1>6, <1>8, <1>9, <1>10, <1>11, <2>1 DEF StandsFor, name
<1> QED
  BY <1>2, <1>4, <1>6, <1>7, <1>10, <1>11, <1>12, <1>13 DEF Compiled, name

(* A DATA item, from the pool of its kind, by its entry. *)
LEMMA DataCompiled ==
    ASSUME NEW p \in Program, TableOK(p.vars), NEW ref \in Reference, ref.k = "data"
    PROVE  Compiled(CompileData(p, ref.item), p, ref)
<1> DEFINE item == ref.item
           q == CompileData(p, item)
<1>1. item \in Item
  BY DEF Reference
<1>2. /\ p.dataNums \in Seq(Number) /\ p.dataStrs \in Seq(Text) /\ p.data \in Seq(DataEntry)
      /\ Len(p.dataNums) \in Nat /\ Len(p.dataStrs) \in Nat /\ Len(p.data) \in Nat
  BY DEF Program
<1>3. Extends(p, p)
  BY ExtendsSelf
<1> SUFFICES /\ q \in Program /\ Extends(q, p) /\ q.lines = p.lines /\ q.vars = p.vars
             /\ q.code = p.code /\ Len(q.data) = Len(p.data) + 1
             /\ ItemFor(q, q.data[Len(p.data) + 1], item)
  BY DEF Compiled
<1>4. CASE item.type = "num"
  <2> DEFINE nums == Append(p.dataNums, item.num)
             entry == [type |-> "num", idx |-> Len(p.dataNums)]
             data == Append(p.data, entry)
  <2>1. item.num \in Number
    BY <1>1, <1>4 DEF Item
  <2>2. entry \in DataEntry /\ entry.type = "num" /\ entry.idx = Len(p.dataNums)
    BY <1>2 DEF DataEntry
  <2>3. q = [p EXCEPT !.dataNums = nums, !.data = data]
    BY <1>4 DEF CompileData
  <2> HIDE DEF entry
  <2>4. /\ nums \in Seq(Number) /\ Grown(nums, p.dataNums)
        /\ Len(nums) = Len(p.dataNums) + 1 /\ nums[Len(p.dataNums) + 1] = item.num
    BY <1>2, <2>1, GrownAppend
  <2>5. /\ data \in Seq(DataEntry) /\ Grown(data, p.data)
        /\ Len(data) = Len(p.data) + 1 /\ data[Len(p.data) + 1] = entry
    BY <1>2, <2>2, GrownAppend
  <2> HIDE DEF nums, data, q
  <2>6. q \in Program /\ q.dataNums = nums /\ q.data = data
    BY <2>3, <2>4, <2>5 DEF Program
  <2>7. /\ q.code = p.code /\ q.consts = p.consts /\ q.strings = p.strings /\ q.vars = p.vars
        /\ q.lines = p.lines /\ q.dataStrs = p.dataStrs
    BY <2>3 DEF Program
  <2>8. Extends(q, p)
    BY <1>3, <2>4, <2>5, <2>6, <2>7 DEF Extends
  <2>9. ItemFor(q, q.data[Len(p.data) + 1], item)
    <3>1. q.data[Len(p.data) + 1] = entry
      BY <2>5, <2>6
    <3>2. entry.idx \in 0..(Len(q.dataNums) - 1)
      BY <1>2, <2>2, <2>4, <2>6
    <3>3. q.dataNums[entry.idx + 1] = item.num
      BY <2>2, <2>4, <2>6
    <3> QED
      BY <1>4, <2>2, <3>1, <3>2, <3>3 DEF ItemFor
  <2> QED
    BY <2>5, <2>6, <2>7, <2>8, <2>9
<1>5. CASE item.type = "str"
  <2> DEFINE strs == Append(p.dataStrs, item.str)
             entry == [type |-> "str", idx |-> Len(p.dataStrs)]
             data == Append(p.data, entry)
  <2>1. item.str \in Text
    BY <1>1, <1>5 DEF Item
  <2>2. entry \in DataEntry /\ entry.type = "str" /\ entry.idx = Len(p.dataStrs)
    BY <1>2 DEF DataEntry
  <2>3. q = [p EXCEPT !.dataStrs = strs, !.data = data]
    BY <1>5 DEF CompileData
  <2> HIDE DEF entry
  <2>4. /\ strs \in Seq(Text) /\ Grown(strs, p.dataStrs)
        /\ Len(strs) = Len(p.dataStrs) + 1 /\ strs[Len(p.dataStrs) + 1] = item.str
    BY <1>2, <2>1, GrownAppend
  <2>5. /\ data \in Seq(DataEntry) /\ Grown(data, p.data)
        /\ Len(data) = Len(p.data) + 1 /\ data[Len(p.data) + 1] = entry
    BY <1>2, <2>2, GrownAppend
  <2> HIDE DEF strs, data, q
  <2>6. q \in Program /\ q.dataStrs = strs /\ q.data = data
    BY <2>3, <2>4, <2>5 DEF Program
  <2>7. /\ q.code = p.code /\ q.consts = p.consts /\ q.strings = p.strings /\ q.vars = p.vars
        /\ q.lines = p.lines /\ q.dataNums = p.dataNums
    BY <2>3 DEF Program
  <2>8. Extends(q, p)
    BY <1>3, <2>4, <2>5, <2>6, <2>7 DEF Extends
  <2>9. ItemFor(q, q.data[Len(p.data) + 1], item)
    <3>1. q.data[Len(p.data) + 1] = entry
      BY <2>5, <2>6
    <3>2. entry.idx \in 0..(Len(q.dataStrs) - 1)
      BY <1>2, <2>2, <2>4, <2>6
    <3>3. q.dataStrs[entry.idx + 1] = item.str
      BY <2>2, <2>4, <2>6
    <3> QED
      BY <1>5, <2>2, <3>1, <3>2, <3>3 DEF ItemFor
  <2> QED
    BY <2>5, <2>6, <2>7, <2>8, <2>9
<1>6. CASE item.type = "null"
  <2> DEFINE entry == [type |-> "null", idx |-> 0]
             data == Append(p.data, entry)
  <2>1. entry \in DataEntry /\ entry.type = "null"
    BY DEF DataEntry
  <2>2. q = [p EXCEPT !.data = data]
    BY <1>6 DEF CompileData
  <2> HIDE DEF entry
  <2>3. /\ data \in Seq(DataEntry) /\ Grown(data, p.data)
        /\ Len(data) = Len(p.data) + 1 /\ data[Len(p.data) + 1] = entry
    BY <1>2, <2>1, GrownAppend
  <2> HIDE DEF data, q
  <2>4. q \in Program /\ q.data = data
    BY <2>2, <2>3 DEF Program
  <2>5. /\ q.code = p.code /\ q.consts = p.consts /\ q.strings = p.strings /\ q.vars = p.vars
        /\ q.lines = p.lines /\ q.dataNums = p.dataNums /\ q.dataStrs = p.dataStrs
    BY <2>2 DEF Program
  <2>6. Extends(q, p)
    BY <1>3, <2>3, <2>4, <2>5 DEF Extends
  <2>7. ItemFor(q, q.data[Len(p.data) + 1], item)
    BY <1>6, <2>1, <2>3, <2>4 DEF ItemFor
  <2> QED
    BY <2>3, <2>4, <2>5, <2>6, <2>7
<1> QED
  BY <1>1, <1>4, <1>5, <1>6 DEF Item

(* Every kind of statement. *)
LEMMA CompileOne ==
    ASSUME NEW p \in Program, TableOK(p.vars), NEW ref \in Reference
    PROVE  Compiled(CompileReference(p, ref), p, ref)
<1>1. CASE ref.k = "const"
  BY <1>1, ConstCompiled DEF CompileReference
<1>2. CASE ref.k = "string"
  BY <1>2, StringCompiled DEF CompileReference
<1>3. CASE ref.k = "var"
  <2>1. CompileReference(p, ref) = CompileVariable(p, ref.name, get_var_type(ref.name))
    BY <1>3 DEF CompileReference
  <2> QED
    BY <1>3, <2>1, NameTypes, VariableCompiled
<1>4. CASE ref.k = "dim"
  <2>1. CompileReference(p, ref) = CompileVariable(p, ref.name, "array")
    BY <1>4 DEF CompileReference
  <2>2. "array" \in VarType
    BY DEF VarType
  <2> QED
    BY <1>4, <2>1, <2>2, VariableCompiled
<1>5. CASE ref.k = "data"
  BY <1>5, DataCompiled DEF CompileReference
<1> QED
  BY <1>1, <1>2, <1>3, <1>4, <1>5 DEF Reference

-----------------------------------------------------------------------------
(* The sections of the file.                                               *)

(* What is written of an array is items. *)
LEMMA ArrayItems ==
    ASSUME NEW a \in Seq(Int) \cup Seq(Number) \cup Text
    PROVE  WriteArray(a) \in Seq(Items)
<1>1. a \in Items
  BY DEF Items
<1>2. Len(a) \in Items
  BY DEF Items, Text
<1>3. <<Len(a)>> \in Seq(Items) /\ <<a>> \in Seq(Items) /\ <<>> \in Seq(Items)
  BY <1>1, <1>2
<1>4. (IF a = <<>> THEN <<>> ELSE <<a>>) \in Seq(Items)
  BY <1>3
<1> QED
  BY <1>3, <1>4, ConcatProperties DEF WriteArray

StringChunks(ss) == [i \in DOMAIN ss |-> write_string(ss[i])]
VarChunks(table) == [i \in DOMAIN table |-> WriteVar(table[i])]
LineChunks(lines) == [i \in DOMAIN lines |-> <<lines[i].line, lines[i].offset>>]
DataChunks(data) == [i \in DOMAIN data |-> <<data[i].type, data[i].idx>>]

(* So is what is written of a table of them. *)
LEMMA TableItems ==
    ASSUME NEW n \in Nat, NEW C \in Seq(Seq(Items))
    PROVE  <<n>> \o FlattenSeq(C) \in Seq(Items)
<1>1. PICK F \in [0..Len(C) -> Seq(Items)] : FlattenSeq(C) = F[Len(C)]
  BY FlattenPrefixes
<1>2. Len(C) \in 0..Len(C)
  OBVIOUS
<1>3. FlattenSeq(C) \in Seq(Items)
  BY <1>1, <1>2
<1>4. <<n>> \in Seq(Items)
  BY DEF Items
<1> QED
  BY <1>3, <1>4, ConcatProperties

(* The texts of a section are read as they were written.                   *)
LEMMA StringsRead ==
    ASSUME NEW ss \in Seq(Text), FileOK
    PROVE  /\ WriteStrings(ss) \in Seq(Items)
           /\ \A at \in Place : Holds(at, WriteStrings(ss)) =>
                 Reads(ReadTable(at, [q \in Place |-> read_string(q)]), at,
                       WriteStrings(ss), ss)
<1> DEFINE C == StringChunks(ss)
           entry == [q \in Place |-> read_string(q)]
<1>1. Len(ss) \in Nat /\ DOMAIN ss = 1..Len(ss) /\ \A i \in 1..Len(ss) : ss[i] \in Text
  OBVIOUS
<1>2. WriteStrings(ss) = <<Len(ss)>> \o FlattenSeq(C)
  BY DEF WriteStrings, StringChunks
<1>3. \A i \in 1..Len(ss) : C[i] = WriteArray(ss[i]) /\ C[i] \in Seq(Items)
  <2>1. \A i \in 1..Len(ss) : C[i] = WriteArray(ss[i])
    BY <1>1 DEF StringChunks, write_string
  <2> HIDE DEF C
  <2> QED
    BY <1>1, <2>1, ArrayItems
<1>4. C \in Seq(Seq(Items)) /\ Len(C) = Len(ss)
  <2>1. C \in [1..Len(ss) -> Seq(Items)]
    BY <1>1, <1>3 DEF StringChunks
  <2> HIDE DEF C
  <2> QED
    BY <1>1, <2>1
<1> HIDE DEF C
<1>5. WriteStrings(ss) \in Seq(Items)
  BY <1>1, <1>2, <1>4, TableItems
<1>6. ASSUME NEW i \in 1..Len(ss), NEW q \in Place, Holds(q, C[i])
      PROVE  Reads(entry[q], q, C[i], ss[i])
  <2>1. ss[i] \in Seq(1..255)
    BY <1>1 DEF Text
  <2>2. Reads(ReadArray(q), q, WriteArray(ss[i]), ss[i])
    BY <1>3, <1>6, <2>1, ArrayRead
  <2>3. entry[q] = ReadArray(q)
    BY DEF read_string
  <2> QED
    BY <1>3, <2>2, <2>3
<1> HIDE DEF entry
<1>7. ASSUME NEW at \in Place, Holds(at, WriteStrings(ss))
      PROVE  Reads(ReadTable(at, entry), at, WriteStrings(ss), ss)
  BY <1>2, <1>4, <1>6, <1>7, TableRead
<1> QED
  BY <1>5, <1>7 DEF entry

(* So are the variables. *)
LEMMA VarsRead ==
    ASSUME NEW table \in Seq(Variable), FileOK
    PROVE  /\ WriteVars(table) \in Seq(Items)
           /\ \A at \in Place : Holds(at, WriteVars(table)) =>
                 Reads(ReadTable(at, [q \in Place |-> ReadVariable(q)]), at,
                       WriteVars(table), table)
<1> DEFINE C == VarChunks(table)
           entry == [q \in Place |-> ReadVariable(q)]
<1>1. /\ Len(table) \in Nat /\ DOMAIN table = 1..Len(table)
      /\ \A i \in 1..Len(table) : table[i] \in Variable
  OBVIOUS
<1>2. WriteVars(table) = <<Len(table)>> \o FlattenSeq(C)
  BY DEF WriteVars, VarChunks, WriteVar
<1>3. ASSUME NEW v \in Variable
      PROVE  /\ v.name \in Text /\ v.slot \in Int /\ v.type \in VarType
             /\ v = [name |-> v.name, slot |-> v.slot, type |-> v.type]
             /\ WriteVar(v) \in Seq(Items)
  <2>1. /\ v.name \in Text /\ v.slot \in Int /\ v.type \in VarType
        /\ v = [name |-> v.name, slot |-> v.slot, type |-> v.type]
    BY DEF Variable
  <2>2. WriteArray(v.name) \in Seq(Items)
    BY <2>1, ArrayItems
  <2>3. <<v.slot, v.type>> \in Seq(Items)
    BY <2>1 DEF Items
  <2>4. WriteVar(v) \in Seq(Items)
    BY <2>2, <2>3, ConcatProperties DEF WriteVar, write_string
  <2> QED
    BY <2>1, <2>4
<1>4. \A i \in 1..Len(table) : C[i] = WriteVar(table[i]) /\ C[i] \in Seq(Items)
  <2>1. \A i \in 1..Len(table) : C[i] = WriteVar(table[i])
    BY <1>1 DEF VarChunks
  <2> HIDE DEF C
  <2> QED
    BY <1>1, <1>3, <2>1
<1>5. C \in Seq(Seq(Items)) /\ Len(C) = Len(table)
  <2>1. C \in [1..Len(table) -> Seq(Items)]
    BY <1>1, <1>4 DEF VarChunks
  <2> HIDE DEF C
  <2> QED
    BY <1>1, <2>1
<1> HIDE DEF C
<1>6. WriteVars(table) \in Seq(Items)
  BY <1>1, <1>2, <1>5, TableItems
<1>7. ASSUME NEW i \in 1..Len(table), NEW q \in Place, Holds(q, C[i])
      PROVE  Reads(entry[q], q, C[i], table[i])
  <2> DEFINE v == table[i]
  <2>1. v \in Variable /\ C[i] = WriteVar(v)
    BY <1>1, <1>4
  <2> HIDE DEF v
  <2>2. Reads(ReadVariable(q), q, WriteVar(v), v)
    BY <1>3, <1>7, <2>1, VariableRead
  <2>3. entry[q] = ReadVariable(q)
    OBVIOUS
  <2> QED
    BY <2>1, <2>2, <2>3 DEF v
<1> HIDE DEF entry
<1>8. ASSUME NEW at \in Place, Holds(at, WriteVars(table))
      PROVE  Reads(ReadTable(at, entry), at, WriteVars(table), table)
  BY <1>2, <1>5, <1>7, <1>8, TableRead
<1> QED
  BY <1>6, <1>8 DEF entry

(* The line table. *)
LEMMA LinesRead ==
    ASSUME NEW lines \in Seq(LineEntry), FileOK
    PROVE  /\ WriteLines(lines) \in Seq(Items)
           /\ \A at \in Place : Holds(at, WriteLines(lines)) =>
                 Reads(ReadTable(at, [q \in Place |-> ReadLine(q)]), at,
                       WriteLines(lines), lines)
<1> DEFINE C == LineChunks(lines)
           entry == [q \in Place |-> ReadLine(q)]
<1>1. /\ Len(lines) \in Nat /\ DOMAIN lines = 1..Len(lines)
      /\ \A i \in 1..Len(lines) : lines[i] \in LineEntry
  OBVIOUS
<1>2. WriteLines(lines) = <<Len(lines)>> \o FlattenSeq(C)
  BY DEF WriteLines, LineChunks
<1>3. ASSUME NEW v \in LineEntry
      PROVE  v = [line |-> v.line, offset |-> v.offset] /\ <<v.line, v.offset>> \in Seq(Items)
  <2>1. v = [line |-> v.line, offset |-> v.offset] /\ v.line \in Int /\ v.offset \in Int
    BY DEF LineEntry
  <2>2. <<v.line, v.offset>> \in Seq(Items)
    BY <2>1 DEF Items
  <2> QED
    BY <2>1, <2>2
<1>4. \A i \in 1..Len(lines) :
         C[i] = <<lines[i].line, lines[i].offset>> /\ C[i] \in Seq(Items)
  <2>1. \A i \in 1..Len(lines) : C[i] = <<lines[i].line, lines[i].offset>>
    BY <1>1 DEF LineChunks
  <2> HIDE DEF C
  <2> QED
    BY <1>1, <1>3, <2>1
<1>5. C \in Seq(Seq(Items)) /\ Len(C) = Len(lines)
  <2>1. C \in [1..Len(lines) -> Seq(Items)]
    BY <1>1, <1>4 DEF LineChunks
  <2> HIDE DEF C
  <2> QED
    BY <1>1, <2>1
<1> HIDE DEF C
<1>6. WriteLines(lines) \in Seq(Items)
  BY <1>1, <1>2, <1>5, TableItems
<1>7. ASSUME NEW i \in 1..Len(lines), NEW q \in Place, Holds(q, C[i])
      PROVE  Reads(entry[q], q, C[i], lines[i])
  <2> DEFINE v == lines[i]
  <2>1. v \in LineEntry /\ C[i] = <<v.line, v.offset>>
    BY <1>1, <1>4
  <2> HIDE DEF v
  <2>2. Reads(ReadLine(q), q, <<v.line, v.offset>>, v)
    BY <1>3, <1>7, <2>1, LineRead
  <2>3. entry[q] = ReadLine(q)
    OBVIOUS
  <2> QED
    BY <2>1, <2>2, <2>3 DEF v
<1> HIDE DEF entry
<1>8. ASSUME NEW at \in Place, Holds(at, WriteLines(lines))
      PROVE  Reads(ReadTable(at, entry), at, WriteLines(lines), lines)
  BY <1>2, <1>5, <1>7, <1>8, TableRead
<1> QED
  BY <1>6, <1>8 DEF entry

(* The DATA table. *)
LEMMA DataTableRead ==
    ASSUME NEW data \in Seq(DataEntry), FileOK
    PROVE  /\ WriteData(data) \in Seq(Items)
           /\ \A at \in Place : Holds(at, WriteData(data)) =>
                 Reads(ReadTable(at, [q \in Place |-> ReadData(q)]), at,
                       WriteData(data), data)
<1> DEFINE C == DataChunks(data)
           entry == [q \in Place |-> ReadData(q)]
<1>1. /\ Len(data) \in Nat /\ DOMAIN data = 1..Len(data)
      /\ \A i \in 1..Len(data) : data[i] \in DataEntry
  OBVIOUS
<1>2. WriteData(data) = <<Len(data)>> \o FlattenSeq(C)
  BY DEF WriteData, DataChunks
<1>3. ASSUME NEW v \in DataEntry
      PROVE  v = [type |-> v.type, idx |-> v.idx] /\ <<v.type, v.idx>> \in Seq(Items)
  <2>1. v = [type |-> v.type, idx |-> v.idx]
        /\ v.type \in {"num", "str", "null"} /\ v.idx \in Int
    BY DEF DataEntry
  <2>2. <<v.type, v.idx>> \in Seq(Items)
    BY <2>1 DEF Items
  <2> QED
    BY <2>1, <2>2
<1>4. \A i \in 1..Len(data) :
         C[i] = <<data[i].type, data[i].idx>> /\ C[i] \in Seq(Items)
  <2>1. \A i \in 1..Len(data) : C[i] = <<data[i].type, data[i].idx>>
    BY <1>1 DEF DataChunks
  <2> HIDE DEF C
  <2> QED
    BY <1>1, <1>3, <2>1
<1>5. C \in Seq(Seq(Items)) /\ Len(C) = Len(data)
  <2>1. C \in [1..Len(data) -> Seq(Items)]
    BY <1>1, <1>4 DEF DataChunks
  <2> HIDE DEF C
  <2> QED
    BY <1>1, <2>1
<1> HIDE DEF C
<1>6. WriteData(data) \in Seq(Items)
  BY <1>1, <1>2, <1>5, TableItems
<1>7. ASSUME NEW i \in 1..Len(data), NEW q \in Place, Holds(q, C[i])
      PROVE  Reads(entry[q], q, C[i], data[i])
  <2> DEFINE v == data[i]
  <2>1. v \in DataEntry /\ C[i] = <<v.type, v.idx>>
    BY <1>1, <1>4
  <2> HIDE DEF v
  <2>2. Reads(ReadData(q), q, <<v.type, v.idx>>, v)
    BY <1>3, <1>7, <2>1, DataRead
  <2>3. entry[q] = ReadData(q)
    OBVIOUS
  <2> QED
    BY <2>1, <2>2, <2>3 DEF v
<1> HIDE DEF entry
<1>8. ASSUME NEW at \in Place, Holds(at, WriteData(data))
      PROVE  Reads(ReadTable(at, entry), at, WriteData(data), data)
  BY <1>2, <1>5, <1>7, <1>8, TableRead
<1> QED
  BY <1>6, <1>8 DEF entry

-----------------------------------------------------------------------------
(* The order of the file.                                                  *)

(* What comes before each section. *)
ToCode(p)    == <<Magic>>
ToConsts(p)  == ToCode(p) \o WriteArray(p.code)
ToStrings(p) == ToConsts(p) \o WriteArray(p.consts)
ToVars(p)    == ToStrings(p) \o WriteStrings(p.strings)
ToLines(p)   == ToVars(p) \o WriteVars(p.vars)
ToNums(p)    == ToLines(p) \o WriteLines(p.lines)
ToStrs(p)    == ToNums(p) \o WriteArray(p.dataNums)
ToData(p)    == ToStrs(p) \o WriteStrings(p.dataStrs)
ToEnd(p)     == ToData(p) \o WriteData(p.data)

(* The file has piece behind before. *)
Follows(before, piece) ==
    /\ before \in Seq(Items) /\ piece \in Seq(Items)
    /\ Holds(Len(before), piece)
    /\ Len(before \o piece) = Len(before) + Len(piece)

(* The last section of a file, and what is before it. *)
LEMMA OnePiece ==
    ASSUME NEW before \in Seq(Items), NEW piece \in Seq(Items)
    PROVE  /\ before \o piece \in Seq(Items)
           /\ Holds(0, before \o piece) => Holds(0, before) /\ Follows(before, piece)
<1>1. /\ before \o piece \in Seq(Items)
      /\ Len(before \o piece) = Len(before) + Len(piece)
  BY ConcatProperties
<1>2. Len(before) \in Nat /\ 0 + Len(before) = Len(before)
  OBVIOUS
<1>3. Holds(0, before \o piece) => Holds(0, before) /\ Holds(0 + Len(before), piece)
  BY HoldsParts
<1> QED
  BY <1>1, <1>2, <1>3 DEF Follows

(* The sections of a program that the file begins with. *)
LEMMA Sections ==
    ASSUME NEW p \in Program, FileOK
    PROVE  /\ Image(p) \in Seq(Items)
           /\ Holds(0, Image(p)) =>
                 /\ Follows(ToCode(p), WriteArray(p.code))
                 /\ Follows(ToConsts(p), WriteArray(p.consts))
                 /\ Follows(ToStrings(p), WriteStrings(p.strings))
                 /\ Follows(ToVars(p), WriteVars(p.vars))
                 /\ Follows(ToLines(p), WriteLines(p.lines))
                 /\ Follows(ToNums(p), WriteArray(p.dataNums))
                 /\ Follows(ToStrs(p), WriteStrings(p.dataStrs))
                 /\ Follows(ToData(p), WriteData(p.data))
<1>1. /\ p.code \in Seq(Int) /\ p.consts \in Seq(Number) /\ p.strings \in Seq(Text)
      /\ p.vars \in Seq(Variable) /\ p.lines \in Seq(LineEntry)
      /\ p.dataNums \in Seq(Number) /\ p.dataStrs \in Seq(Text) /\ p.data \in Seq(DataEntry)
  BY DEF Program
<1>2. /\ WriteArray(p.code) \in Seq(Items) /\ WriteArray(p.consts) \in Seq(Items)
      /\ WriteArray(p.dataNums) \in Seq(Items)
  BY <1>1, ArrayItems
<1>3. WriteStrings(p.strings) \in Seq(Items) /\ WriteStrings(p.dataStrs) \in Seq(Items)
  BY <1>1, StringsRead
<1>4. WriteVars(p.vars) \in Seq(Items)
  BY <1>1, VarsRead
<1>5. WriteLines(p.lines) \in Seq(Items)
  BY <1>1, LinesRead
<1>6. WriteData(p.data) \in Seq(Items)
  BY <1>1, DataTableRead
<1>7. ToCode(p) \in Seq(Items)
  BY DEF ToCode, Items
<1>8. /\ ToConsts(p) \in Seq(Items)
      /\ Holds(0, ToConsts(p)) => Holds(0, ToCode(p)) /\ Follows(ToCode(p), WriteArray(p.code))
  BY <1>2, <1>7, OnePiece DEF ToConsts
<1>9. /\ ToStrings(p) \in Seq(Items)
      /\ Holds(0, ToStrings(p)) =>
            Holds(0, ToConsts(p)) /\ Follows(ToConsts(p), WriteArray(p.consts))
  BY <1>2, <1>8, OnePiece DEF ToStrings
<1>10. /\ ToVars(p) \in Seq(Items)
       /\ Holds(0, ToVars(p)) =>
             Holds(0, ToStrings(p)) /\ Follows(ToStrings(p), WriteStrings(p.strings))
  BY <1>3, <1>9, OnePiece DEF ToVars
<1>11. /\ ToLines(p) \in Seq(Items)
       /\ Holds(0, ToLines(p)) => Holds(0, ToVars(p)) /\ Follows(ToVars(p), WriteVars(p.vars))
  BY <1>4, <1>10, OnePiece DEF ToLines
<1>12. /\ ToNums(p) \in Seq(Items)
       /\ Holds(0, ToNums(p)) => Holds(0, ToLines(p)) /\ Follows(ToLines(p), WriteLines(p.lines))
  BY <1>5, <1>11, OnePiece DEF ToNums
<1>13. /\ ToStrs(p) \in Seq(Items)
       /\ Holds(0, ToStrs(p)) =>
             Holds(0, ToNums(p)) /\ Follows(ToNums(p), WriteArray(p.dataNums))
  BY <1>2, <1>12, OnePiece DEF ToStrs
<1>14. /\ ToData(p) \in Seq(Items)
       /\ Holds(0, ToData(p)) =>
             Holds(0, ToStrs(p)) /\ Follows(ToStrs(p), WriteStrings(p.dataStrs))
  BY <1>3, <1>13, OnePiece DEF ToData
<1>15. /\ ToEnd(p) \in Seq(Items)
       /\ Holds(0, ToEnd(p)) => Holds(0, ToData(p)) /\ Follows(ToData(p), WriteData(p.data))
  BY <1>6, <1>14, OnePiece DEF ToEnd
<1>16. Image(p) = ToEnd(p)
  BY DEF Image, ToCode, ToConsts, ToStrings, ToVars, ToLines, ToNums, ToStrs, ToData, ToEnd
<1> QED
  BY <1>8, <1>9, <1>10, <1>11, <1>12, <1>13, <1>14, <1>15, <1>16

-----------------------------------------------------------------------------
(* The invariant.                                                          *)

Fields == {"code", "consts", "strings", "vars", "lines", "dataNums", "dataStrs", "data"}
Loading == Fields \cup {"header", "refused", "undefined", "loaded", "ready"}

FileTypeOK ==
    /\ source \in Seq(Reference) /\ next \in Nat \ {0}
    /\ phase \in {"discover", "compile"} \cup Loading
    /\ prog \in Program /\ TableOK(prog.vars)
    /\ disk \in Seq(Items)

(* The loader stands behind before, and has read fields as they were saved. *)
Part(fields) == [f \in Fields |-> IF f \in fields THEN prog[f] ELSE <<>>]
HasRead(fields, before) ==
    loaded = Part(fields) /\ input = Len(before) /\ input \in Place

LoadInv ==
    /\ phase \in Loading => Holds(0, Image(prog))
    /\ phase \in {"discover", "compile", "header"} => loaded = Part({})
    /\ phase = "code" => HasRead({}, ToCode(prog))
    /\ phase = "consts" => HasRead({"code"}, ToConsts(prog))
    /\ phase = "strings" => HasRead({"code", "consts"}, ToStrings(prog))
    /\ phase = "vars" => HasRead({"code", "consts", "strings"}, ToVars(prog))
    /\ phase = "lines" => HasRead({"code", "consts", "strings", "vars"}, ToLines(prog))
    /\ phase = "dataNums" =>
          HasRead({"code", "consts", "strings", "vars", "lines"}, ToNums(prog))
    /\ phase = "dataStrs" =>
          HasRead({"code", "consts", "strings", "vars", "lines", "dataNums"}, ToStrs(prog))
    /\ phase = "data" =>
          HasRead({"code", "consts", "strings", "vars", "lines", "dataNums", "dataStrs"},
                  ToData(prog))
    /\ phase \in {"loaded", "ready"} => loaded = prog

FileInv == FileTypeOK /\ LoadInv

(* The program that both tools start from. *)
LEMMA BlankProgram == Blank \in Program /\ TableOK(Blank.vars) /\ Blank = Part({})
<1>1. Blank \in Program
  BY DEF Blank, Program
<1>2. Blank = Part({})
  BY DEF Blank, Part, Fields
<1>3. Blank.vars = <<>> /\ Len(<<>>) = 0 /\ <<>> \in Seq(Variable)
  BY DEF Blank
<1>4. TypedTable(<<>>) /\ DistinctNames(<<>>)
  BY <1>3 DEF TypedTable, DistinctNames
<1>5. CountedTable(<<>>)
  <2>1. ASSUME NEW type \in VarType PROVE CountOf(<<>>, type) <= Limit(type)
    <3>1. {i \in DOMAIN <<>> : <<>>[i].type = type} = {}
      OBVIOUS
    <3>2. CountOf(<<>>, type) = 0
      BY <3>1, FS_EmptySet DEF CountOf
    <3>3. Limit(type) \in Nat
      BY LimitAssumption DEF Limit, VarType
    <3> QED
      BY <3>2, <3>3
  <2> QED
    BY <2>1 DEF CountedTable
<1> QED
  BY <1>1, <1>2, <1>3, <1>4, <1>5 DEF TableOK

(* The whole program is all of its fields. *)
LEMMA WholeProgram == ASSUME prog \in Program PROVE Part(Fields) = prog
BY DEF Program, Part, Fields

(* The compiler starts in it. *)
LEMMA InitFile == FileInit => FileInv
<1> SUFFICES ASSUME FileInit PROVE FileInv
  OBVIOUS
<1>1. source \in Seq(Reference)
  BY SourceAssumption DEF FileInit
<1>2. prog \in Program /\ TableOK(prog.vars) /\ loaded = Part({})
  BY BlankProgram DEF FileInit, Part
<1>3. phase = "discover" /\ next = 1 /\ disk = <<>>
  BY DEF FileInit
<1>4. FileTypeOK
  BY <1>1, <1>2, <1>3 DEF FileTypeOK
<1>5. LoadInv
  BY <1>2, <1>3 DEF LoadInv, Loading, Fields
<1> QED
  BY <1>4, <1>5 DEF FileInv

(* The reading of one section. *)
LEMMA SectionStep ==
    ASSUME NEW here, NEW field \in Fields, NEW then, NEW read,
           NEW fields \in SUBSET Fields, NEW before, NEW piece,
           HasRead(fields, before), Follows(before, piece),
           Reads(read, input, piece, prog[field]),
           Section(here, field, then, read)
    PROVE  /\ UNCHANGED <<source, next, prog, disk>>
           /\ \/ phase' \in {"refused", "undefined"}
              \/ /\ phase' = then
                 /\ loaded' = Part(fields \cup {field})
                 /\ input' = Len(before \o piece) /\ input' \in Place
<1>1. UNCHANGED <<source, next, prog, disk>>
  BY DEF Section, compiling
<1>2. CASE ~read.ok
  <2>1. phase' \in {"refused", "undefined"}
    BY <1>2 DEF Section, Failures
  <2> QED
    BY <1>1, <2>1
<1>3. CASE read.ok
  <2>1. /\ loaded' = [loaded EXCEPT ![field] = read.value]
        /\ input' = read.at /\ phase' = then
    BY <1>3 DEF Section
  <2>2. /\ read.value = prog[field] /\ read.at = Len(before) + Len(piece)
        /\ read.at \in Place
    BY <1>3 DEF Reads, HasRead
  <2>3. loaded' = [f \in Fields |-> IF f \in fields \cup {field} THEN prog[f] ELSE <<>>]
    BY <2>1, <2>2 DEF HasRead, Part
  <2>4. loaded' = Part(fields \cup {field})
    BY <2>3 DEF Part
  <2>5. input' = Len(before \o piece)
    BY <2>1, <2>2 DEF Follows
  <2>6. input' \in Place
    BY <2>1, <2>2
  <2> QED
    BY <1>1, <2>1, <2>4, <2>5, <2>6
<1> QED
  BY <1>2, <1>3

(* A line more leaves the rest of the program as it is. *)
LEMMA LineAdded ==
    ASSUME NEW p \in Program, NEW n \in Nat
    PROVE  LET entry == [line |-> n, offset |-> Len(p.code)]
               q == [p EXCEPT !.lines = Append(@, entry)]
           IN  /\ q \in Program /\ q.vars = p.vars
               /\ q.code = p.code /\ q.data = p.data
               /\ q.lines = Append(p.lines, entry)
               /\ Extends(q, p)
               /\ Len(q.lines) = Len(p.lines) + 1
               /\ q.lines[Len(p.lines) + 1].offset = Len(p.code)
<1> DEFINE entry == [line |-> n, offset |-> Len(p.code)]
           lines == Append(p.lines, entry)
           q == [p EXCEPT !.lines = lines]
<1>1. p.lines \in Seq(LineEntry) /\ Len(p.code) \in Nat
  BY DEF Program
<1>2. entry \in LineEntry /\ entry.offset = Len(p.code)
  BY <1>1 DEF LineEntry
<1> HIDE DEF entry
<1>3. /\ lines \in Seq(LineEntry) /\ Grown(lines, p.lines)
      /\ Len(lines) = Len(p.lines) + 1 /\ lines[Len(p.lines) + 1] = entry
  BY <1>1, <1>2, GrownAppend
<1>4. q.lines = lines
  BY DEF Program
<1> HIDE DEF lines
<1>5. q \in Program
  BY <1>3 DEF Program
<1>6. /\ q.code = p.code /\ q.consts = p.consts /\ q.strings = p.strings /\ q.vars = p.vars
      /\ q.dataNums = p.dataNums /\ q.dataStrs = p.dataStrs /\ q.data = p.data
  BY DEF Program
<1> HIDE DEF q
<1>7. Extends(q, p)
  <2>1. Extends(p, p)
    BY ExtendsSelf
  <2> QED
    BY <1>3, <1>4, <1>6, <2>1 DEF Extends
<1> QED
  BY <1>2, <1>3, <1>4, <1>5, <1>6, <1>7 DEF q, lines, entry

(* Each step of the two programs preserves it. *)
LEMMA NextFile == FileInv /\ [FileNext]_fileVars => FileInv'
<1> SUFFICES ASSUME FileInv, [FileNext]_fileVars PROVE FileInv'
  OBVIOUS
<1>1. FileTypeOK /\ LoadInv
  BY DEF FileInv
<1>2. /\ prog \in Program /\ TableOK(prog.vars) /\ FileOK
      /\ prog.code \in Seq(Int) /\ prog.consts \in Seq(Number) /\ prog.strings \in Seq(Text)
      /\ prog.vars \in Seq(Variable) /\ prog.lines \in Seq(LineEntry)
      /\ prog.dataNums \in Seq(Number) /\ prog.dataStrs \in Seq(Text)
      /\ prog.data \in Seq(DataEntry)
  <2>1. prog \in Program /\ TableOK(prog.vars) /\ disk \in Seq(Items)
    BY <1>1 DEF FileTypeOK
  <2>2. FileOK
    BY <2>1 DEF FileOK
  <2> QED
    BY <2>1, <2>2 DEF Program
<1>3. ASSUME UNCHANGED <<source, next, prog, disk>>, phase \in Loading, phase' \in Loading
      PROVE  FileTypeOK' /\ Holds(0, Image(prog))'
  <2>1. FileTypeOK'
    BY <1>1, <1>3 DEF FileTypeOK
  <2>2. Holds(0, Image(prog))
    BY <1>1, <1>3 DEF LoadInv
  <2>3. Image(prog)' = Image(prog)
    BY <1>3 DEF Image
  <2> QED
    BY <1>3, <2>1, <2>2, <2>3 DEF Holds
<1>4. CASE LoadCode
  <2> DEFINE before == ToCode(prog)
             piece == WriteArray(prog.code)
             read == ReadArray(input)
             fields == {}
  <2>1. phase = "code" /\ Section("code", "code", "consts", read)
    BY <1>4 DEF LoadCode, Section
  <2>2. HasRead(fields, before) /\ Follows(before, piece)
    <3>1. Holds(0, Image(prog))
      BY <1>1, <2>1 DEF LoadInv, Loading, Fields
    <3>2. Follows(before, piece)
      BY <1>2, <3>1, Sections
    <3>3. HasRead(fields, before)
      BY <1>1, <2>1 DEF LoadInv
    <3> QED
      BY <3>2, <3>3
  <2>3. input \in Place /\ Holds(input, piece)
    BY <2>2 DEF HasRead, Follows
  <2>4. Reads(read, input, piece, prog["code"])
    BY <1>2, <2>3, ArrayRead
  <2>5. "code" \in Fields /\ fields \in SUBSET Fields
    BY DEF Fields
  <2>6. fields \cup {"code"} = {"code"}
    OBVIOUS
  <2> HIDE DEF before, piece, read, fields
  <2>7. /\ UNCHANGED <<source, next, prog, disk>>
        /\ \/ phase' \in {"refused", "undefined"}
           \/ /\ phase' = "consts"
              /\ loaded' = Part(fields \cup {"code"})
              /\ input' = Len(before \o piece) /\ input' \in Place
    BY <2>1, <2>2, <2>4, <2>5, SectionStep
  <2>8. phase' = "consts" => HasRead({"code"}, ToConsts(prog))'
    <3>1. CASE phase' = "consts"
      <4>1. loaded' = Part({"code"})' /\ input' \in Place'
        BY <2>6, <2>7, <3>1 DEF Part, Place
      <4>2. input' = Len(ToConsts(prog))
        BY <2>7, <3>1 DEF ToConsts, before, piece
      <4>3. ToConsts(prog)' = ToConsts(prog)
        BY <2>7 DEF ToCode, ToConsts, ToStrings, ToVars, ToLines, ToNums, ToStrs, ToData
      <4> QED
        BY <4>1, <4>2, <4>3 DEF HasRead
    <3> QED
      BY <3>1
  <2> QED
    BY <1>3, <2>1, <2>7, <2>8 DEF FileInv, LoadInv, Loading, Fields
<1>5. CASE LoadConsts
  <2> DEFINE before == ToConsts(prog)
             piece == WriteArray(prog.consts)
             read == ReadArray(input)
             fields == {"code"}
  <2>1. phase = "consts" /\ Section("consts", "consts", "strings", read)
    BY <1>5 DEF LoadConsts, Section
  <2>2. HasRead(fields, before) /\ Follows(before, piece)
    <3>1. Holds(0, Image(prog))
      BY <1>1, <2>1 DEF LoadInv, Loading, Fields
    <3>2. Follows(before, piece)
      BY <1>2, <3>1, Sections
    <3>3. HasRead(fields, before)
      BY <1>1, <2>1 DEF LoadInv
    <3> QED
      BY <3>2, <3>3
  <2>3. input \in Place /\ Holds(input, piece)
    BY <2>2 DEF HasRead, Follows
  <2>4. Reads(read, input, piece, prog["consts"])
    BY <1>2, <2>3, ArrayRead
  <2>5. "consts" \in Fields /\ fields \in SUBSET Fields
    BY DEF Fields
  <2>6. fields \cup {"consts"} = {"code", "consts"}
    OBVIOUS
  <2> HIDE DEF before, piece, read, fields
  <2>7. /\ UNCHANGED <<source, next, prog, disk>>
        /\ \/ phase' \in {"refused", "undefined"}
           \/ /\ phase' = "strings"
              /\ loaded' = Part(fields \cup {"consts"})
              /\ input' = Len(before \o piece) /\ input' \in Place
    BY <2>1, <2>2, <2>4, <2>5, SectionStep
  <2>8. phase' = "strings" => HasRead({"code", "consts"}, ToStrings(prog))'
    <3>1. CASE phase' = "strings"
      <4>1. loaded' = Part({"code", "consts"})' /\ input' \in Place'
        BY <2>6, <2>7, <3>1 DEF Part, Place
      <4>2. input' = Len(ToStrings(prog))
        BY <2>7, <3>1 DEF ToStrings, before, piece
      <4>3. ToStrings(prog)' = ToStrings(prog)
        BY <2>7 DEF ToCode, ToConsts, ToStrings, ToVars, ToLines, ToNums, ToStrs, ToData
      <4> QED
        BY <4>1, <4>2, <4>3 DEF HasRead
    <3> QED
      BY <3>1
  <2> QED
    BY <1>3, <2>1, <2>7, <2>8 DEF FileInv, LoadInv, Loading, Fields
<1>6. CASE LoadStrings
  <2> DEFINE before == ToStrings(prog)
             piece == WriteStrings(prog.strings)
             read == ReadTable(input, [at \in Place |-> read_string(at)])
             fields == {"code", "consts"}
  <2>1. phase = "strings" /\ Section("strings", "strings", "vars", read)
    BY <1>6 DEF LoadStrings, Section
  <2>2. HasRead(fields, before) /\ Follows(before, piece)
    <3>1. Holds(0, Image(prog))
      BY <1>1, <2>1 DEF LoadInv, Loading, Fields
    <3>2. Follows(before, piece)
      BY <1>2, <3>1, Sections
    <3>3. HasRead(fields, before)
      BY <1>1, <2>1 DEF LoadInv
    <3> QED
      BY <3>2, <3>3
  <2>3. input \in Place /\ Holds(input, piece)
    BY <2>2 DEF HasRead, Follows
  <2>4. Reads(read, input, piece, prog["strings"])
    BY <1>2, <2>3, StringsRead
  <2>5. "strings" \in Fields /\ fields \in SUBSET Fields
    BY DEF Fields
  <2>6. fields \cup {"strings"} = {"code", "consts", "strings"}
    OBVIOUS
  <2> HIDE DEF before, piece, read, fields
  <2>7. /\ UNCHANGED <<source, next, prog, disk>>
        /\ \/ phase' \in {"refused", "undefined"}
           \/ /\ phase' = "vars"
              /\ loaded' = Part(fields \cup {"strings"})
              /\ input' = Len(before \o piece) /\ input' \in Place
    BY <2>1, <2>2, <2>4, <2>5, SectionStep
  <2>8. phase' = "vars" => HasRead({"code", "consts", "strings"}, ToVars(prog))'
    <3>1. CASE phase' = "vars"
      <4>1. loaded' = Part({"code", "consts", "strings"})' /\ input' \in Place'
        BY <2>6, <2>7, <3>1 DEF Part, Place
      <4>2. input' = Len(ToVars(prog))
        BY <2>7, <3>1 DEF ToVars, before, piece
      <4>3. ToVars(prog)' = ToVars(prog)
        BY <2>7 DEF ToCode, ToConsts, ToStrings, ToVars, ToLines, ToNums, ToStrs, ToData
      <4> QED
        BY <4>1, <4>2, <4>3 DEF HasRead
    <3> QED
      BY <3>1
  <2> QED
    BY <1>3, <2>1, <2>7, <2>8 DEF FileInv, LoadInv, Loading, Fields
<1>7. CASE LoadVars
  <2> DEFINE before == ToVars(prog)
             piece == WriteVars(prog.vars)
             read == ReadTable(input, [at \in Place |-> ReadVariable(at)])
             fields == {"code", "consts", "strings"}
  <2>1. phase = "vars" /\ Section("vars", "vars", "lines", read)
    BY <1>7 DEF LoadVars, Section
  <2>2. HasRead(fields, before) /\ Follows(before, piece)
    <3>1. Holds(0, Image(prog))
      BY <1>1, <2>1 DEF LoadInv, Loading, Fields
    <3>2. Follows(before, piece)
      BY <1>2, <3>1, Sections
    <3>3. HasRead(fields, before)
      BY <1>1, <2>1 DEF LoadInv
    <3> QED
      BY <3>2, <3>3
  <2>3. input \in Place /\ Holds(input, piece)
    BY <2>2 DEF HasRead, Follows
  <2>4. Reads(read, input, piece, prog["vars"])
    BY <1>2, <2>3, VarsRead
  <2>5. "vars" \in Fields /\ fields \in SUBSET Fields
    BY DEF Fields
  <2>6. fields \cup {"vars"} = {"code", "consts", "strings", "vars"}
    OBVIOUS
  <2> HIDE DEF before, piece, read, fields
  <2>7. /\ UNCHANGED <<source, next, prog, disk>>
        /\ \/ phase' \in {"refused", "undefined"}
           \/ /\ phase' = "lines"
              /\ loaded' = Part(fields \cup {"vars"})
              /\ input' = Len(before \o piece) /\ input' \in Place
    BY <2>1, <2>2, <2>4, <2>5, SectionStep
  <2>8. phase' = "lines" => HasRead({"code", "consts", "strings", "vars"}, ToLines(prog))'
    <3>1. CASE phase' = "lines"
      <4>1. loaded' = Part({"code", "consts", "strings", "vars"})' /\ input' \in Place'
        BY <2>6, <2>7, <3>1 DEF Part, Place
      <4>2. input' = Len(ToLines(prog))
        BY <2>7, <3>1 DEF ToLines, before, piece
      <4>3. ToLines(prog)' = ToLines(prog)
        BY <2>7 DEF ToCode, ToConsts, ToStrings, ToVars, ToLines, ToNums, ToStrs, ToData
      <4> QED
        BY <4>1, <4>2, <4>3 DEF HasRead
    <3> QED
      BY <3>1
  <2> QED
    BY <1>3, <2>1, <2>7, <2>8 DEF FileInv, LoadInv, Loading, Fields
<1>8. CASE LoadLines
  <2> DEFINE before == ToLines(prog)
             piece == WriteLines(prog.lines)
             read == ReadTable(input, [at \in Place |-> ReadLine(at)])
             fields == {"code", "consts", "strings", "vars"}
  <2>1. phase = "lines" /\ Section("lines", "lines", "dataNums", read)
    BY <1>8 DEF LoadLines, Section
  <2>2. HasRead(fields, before) /\ Follows(before, piece)
    <3>1. Holds(0, Image(prog))
      BY <1>1, <2>1 DEF LoadInv, Loading, Fields
    <3>2. Follows(before, piece)
      BY <1>2, <3>1, Sections
    <3>3. HasRead(fields, before)
      BY <1>1, <2>1 DEF LoadInv
    <3> QED
      BY <3>2, <3>3
  <2>3. input \in Place /\ Holds(input, piece)
    BY <2>2 DEF HasRead, Follows
  <2>4. Reads(read, input, piece, prog["lines"])
    BY <1>2, <2>3, LinesRead
  <2>5. "lines" \in Fields /\ fields \in SUBSET Fields
    BY DEF Fields
  <2>6. fields \cup {"lines"} = {"code", "consts", "strings", "vars", "lines"}
    OBVIOUS
  <2> HIDE DEF before, piece, read, fields
  <2>7. /\ UNCHANGED <<source, next, prog, disk>>
        /\ \/ phase' \in {"refused", "undefined"}
           \/ /\ phase' = "dataNums"
              /\ loaded' = Part(fields \cup {"lines"})
              /\ input' = Len(before \o piece) /\ input' \in Place
    BY <2>1, <2>2, <2>4, <2>5, SectionStep
  <2>8. phase' = "dataNums" =>
           HasRead({"code", "consts", "strings", "vars", "lines"},
                   ToNums(prog))'
    <3>1. CASE phase' = "dataNums"
      <4>1. /\ loaded' = Part({"code", "consts", "strings", "vars", "lines"})'
            /\ input' \in Place'
        BY <2>6, <2>7, <3>1 DEF Part, Place
      <4>2. input' = Len(ToNums(prog))
        BY <2>7, <3>1 DEF ToNums, before, piece
      <4>3. ToNums(prog)' = ToNums(prog)
        BY <2>7 DEF ToCode, ToConsts, ToStrings, ToVars, ToLines, ToNums, ToStrs, ToData
      <4> QED
        BY <4>1, <4>2, <4>3 DEF HasRead
    <3> QED
      BY <3>1
  <2> QED
    BY <1>3, <2>1, <2>7, <2>8 DEF FileInv, LoadInv, Loading, Fields
<1>9. CASE LoadNums
  <2> DEFINE before == ToNums(prog)
             piece == WriteArray(prog.dataNums)
             read == ReadArray(input)
             fields == {"code", "consts", "strings", "vars", "lines"}
  <2>1. phase = "dataNums" /\ Section("dataNums", "dataNums", "dataStrs", read)
    BY <1>9 DEF LoadNums, Section
  <2>2. HasRead(fields, before) /\ Follows(before, piece)
    <3>1. Holds(0, Image(prog))
      BY <1>1, <2>1 DEF LoadInv, Loading, Fields
    <3>2. Follows(before, piece)
      BY <1>2, <3>1, Sections
    <3>3. HasRead(fields, before)
      BY <1>1, <2>1 DEF LoadInv
    <3> QED
      BY <3>2, <3>3
  <2>3. input \in Place /\ Holds(input, piece)
    BY <2>2 DEF HasRead, Follows
  <2>4. Reads(read, input, piece, prog["dataNums"])
    BY <1>2, <2>3, ArrayRead
  <2>5. "dataNums" \in Fields /\ fields \in SUBSET Fields
    BY DEF Fields
  <2>6. fields \cup {"dataNums"}
         = {"code", "consts", "strings", "vars", "lines", "dataNums"}
    OBVIOUS
  <2> HIDE DEF before, piece, read, fields
  <2>7. /\ UNCHANGED <<source, next, prog, disk>>
        /\ \/ phase' \in {"refused", "undefined"}
           \/ /\ phase' = "dataStrs"
              /\ loaded' = Part(fields \cup {"dataNums"})
              /\ input' = Len(before \o piece) /\ input' \in Place
    BY <2>1, <2>2, <2>4, <2>5, SectionStep
  <2>8. phase' = "dataStrs" =>
           HasRead({"code", "consts", "strings", "vars", "lines", "dataNums"},
                   ToStrs(prog))'
    <3>1. CASE phase' = "dataStrs"
      <4>1. /\ loaded' = Part({"code", "consts", "strings", "vars", "lines", "dataNums"})'
            /\ input' \in Place'
        BY <2>6, <2>7, <3>1 DEF Part, Place
      <4>2. input' = Len(ToStrs(prog))
        BY <2>7, <3>1 DEF ToStrs, before, piece
      <4>3. ToStrs(prog)' = ToStrs(prog)
        BY <2>7 DEF ToCode, ToConsts, ToStrings, ToVars, ToLines, ToNums, ToStrs, ToData
      <4> QED
        BY <4>1, <4>2, <4>3 DEF HasRead
    <3> QED
      BY <3>1
  <2> QED
    BY <1>3, <2>1, <2>7, <2>8 DEF FileInv, LoadInv, Loading, Fields
<1>10. CASE LoadStrs
  <2> DEFINE before == ToStrs(prog)
             piece == WriteStrings(prog.dataStrs)
             read == ReadTable(input, [at \in Place |-> read_string(at)])
             fields == {"code", "consts", "strings", "vars", "lines", "dataNums"}
  <2>1. phase = "dataStrs" /\ Section("dataStrs", "dataStrs", "data", read)
    BY <1>10 DEF LoadStrs, Section
  <2>2. HasRead(fields, before) /\ Follows(before, piece)
    <3>1. Holds(0, Image(prog))
      BY <1>1, <2>1 DEF LoadInv, Loading, Fields
    <3>2. Follows(before, piece)
      BY <1>2, <3>1, Sections
    <3>3. HasRead(fields, before)
      BY <1>1, <2>1 DEF LoadInv
    <3> QED
      BY <3>2, <3>3
  <2>3. input \in Place /\ Holds(input, piece)
    BY <2>2 DEF HasRead, Follows
  <2>4. Reads(read, input, piece, prog["dataStrs"])
    BY <1>2, <2>3, StringsRead
  <2>5. "dataStrs" \in Fields /\ fields \in SUBSET Fields
    BY DEF Fields
  <2>6. fields \cup {"dataStrs"}
         = {"code", "consts", "strings", "vars", "lines", "dataNums", "dataStrs"}
    OBVIOUS
  <2> HIDE DEF before, piece, read, fields
  <2>7. /\ UNCHANGED <<source, next, prog, disk>>
        /\ \/ phase' \in {"refused", "undefined"}
           \/ /\ phase' = "data"
              /\ loaded' = Part(fields \cup {"dataStrs"})
              /\ input' = Len(before \o piece) /\ input' \in Place
    BY <2>1, <2>2, <2>4, <2>5, SectionStep
  <2>8. phase' = "data" =>
           HasRead({"code", "consts", "strings", "vars", "lines", "dataNums", "dataStrs"},
                   ToData(prog))'
    <3>1. CASE phase' = "data"
      <4>1. /\ loaded' = Part({"code", "consts", "strings", "vars", "lines", "dataNums", "dataStrs"})'
            /\ input' \in Place'
        BY <2>6, <2>7, <3>1 DEF Part, Place
      <4>2. input' = Len(ToData(prog))
        BY <2>7, <3>1 DEF ToData, before, piece
      <4>3. ToData(prog)' = ToData(prog)
        BY <2>7 DEF ToCode, ToConsts, ToStrings, ToVars, ToLines, ToNums, ToStrs, ToData
      <4> QED
        BY <4>1, <4>2, <4>3 DEF HasRead
    <3> QED
      BY <3>1
  <2> QED
    BY <1>3, <2>1, <2>7, <2>8 DEF FileInv, LoadInv, Loading, Fields
<1>11. CASE LoadData
  <2> DEFINE before == ToData(prog)
             piece == WriteData(prog.data)
             read == ReadTable(input, [at \in Place |-> ReadData(at)])
             fields == {"code", "consts", "strings", "vars", "lines", "dataNums", "dataStrs"}
  <2>1. phase = "data" /\ Section("data", "data", "loaded", read)
    BY <1>11 DEF LoadData, Section
  <2>2. HasRead(fields, before) /\ Follows(before, piece)
    <3>1. Holds(0, Image(prog))
      BY <1>1, <2>1 DEF LoadInv, Loading, Fields
    <3>2. Follows(before, piece)
      BY <1>2, <3>1, Sections
    <3>3. HasRead(fields, before)
      BY <1>1, <2>1 DEF LoadInv
    <3> QED
      BY <3>2, <3>3
  <2>3. input \in Place /\ Holds(input, piece)
    BY <2>2 DEF HasRead, Follows
  <2>4. Reads(read, input, piece, prog["data"])
    BY <1>2, <2>3, DataTableRead
  <2>5. "data" \in Fields /\ fields \in SUBSET Fields
    BY DEF Fields
  <2>6. fields \cup {"data"}
         = {"code", "consts", "strings", "vars", "lines", "dataNums", "dataStrs", "data"}
    OBVIOUS
  <2> HIDE DEF before, piece, read, fields
  <2>7. /\ UNCHANGED <<source, next, prog, disk>>
        /\ \/ phase' \in {"refused", "undefined"}
           \/ /\ phase' = "loaded"
              /\ loaded' = Part(fields \cup {"data"})
              /\ input' = Len(before \o piece) /\ input' \in Place
    BY <2>1, <2>2, <2>4, <2>5, SectionStep
  <2>8. phase' = "loaded" => loaded' = prog'
    <3>1. CASE phase' = "loaded"
      <4>1. fields \cup {"data"} = Fields
        BY <2>6 DEF Fields
      <4>2. loaded' = Part(Fields)
        BY <2>7, <3>1, <4>1
      <4> QED
        BY <1>2, <2>7, <4>2, WholeProgram
    <3> QED
      BY <3>1
  <2> QED
    BY <1>3, <2>1, <2>7, <2>8 DEF FileInv, LoadInv, Loading, Fields<1>12. CASE Discover
  <2>1. phase = "discover" /\ UNCHANGED <<source, disk, input, loaded>>
    BY <1>12 DEF Discover, loading
  <2>2. loaded' = Part({})'
    BY <1>1, <2>1 DEF LoadInv, Part
  <2>3. CASE next \in DOMAIN source
    <3> DEFINE table == discover_variables(prog.vars, source[next])
    <3>1. prog' = [prog EXCEPT !.vars = table] /\ next' = next + 1 /\ phase' = "discover"
      BY <1>12, <2>1, <2>3 DEF Discover
    <3>2. source[next] \in Reference
      BY <1>1, <2>3 DEF FileTypeOK
    <3>3. TableOK(table)
      BY <1>2, <3>2, DiscoverOne
    <3> HIDE DEF table
    <3>4. table \in Seq(Variable)
      BY <3>3 DEF TableOK, TypedTable
    <3>5. prog' \in Program /\ prog'.vars = table
      BY <1>2, <3>1, <3>4 DEF Program
    <3>6. FileTypeOK'
      BY <1>1, <2>1, <3>1, <3>3, <3>5 DEF FileTypeOK
    <3> QED
      BY <2>2, <3>1, <3>6 DEF FileInv, LoadInv, Loading, Fields
  <2>4. CASE next \notin DOMAIN source
    <3>1. phase' = "compile" /\ next' = 1 /\ prog' = prog
      BY <1>12, <2>4 DEF Discover
    <3>2. FileTypeOK'
      BY <1>1, <2>1, <3>1 DEF FileTypeOK
    <3> QED
      BY <2>2, <3>1, <3>2 DEF FileInv, LoadInv, Loading, Fields
  <2> QED
    BY <2>3, <2>4
<1>13. CASE Compile
  <2>1. /\ phase = "compile" /\ next \in DOMAIN source /\ next' = next + 1
        /\ UNCHANGED <<source, phase, disk, input, loaded>>
    BY <1>13 DEF Compile, loading
  <2> DEFINE entry == [line |-> next, offset |-> Len(prog.code)]
             p == [prog EXCEPT !.lines = Append(@, entry)]
  <2>2. prog' = CompileReference(p, source[next])
    BY <1>13 DEF Compile
  <2>3. p \in Program /\ p.vars = prog.vars
    BY <1>1, <1>2, LineAdded DEF FileTypeOK
  <2>4. source[next] \in Reference
    BY <1>1, <2>1 DEF FileTypeOK
  <2> HIDE DEF p
  <2>5. Compiled(prog', p, source[next])
    BY <1>2, <2>2, <2>3, <2>4, CompileOne
  <2>6. prog' \in Program /\ TableOK(prog'.vars)
    BY <2>5 DEF Compiled
  <2>7. FileTypeOK'
    BY <1>1, <2>1, <2>6 DEF FileTypeOK
  <2>8. loaded' = Part({})'
    BY <1>1, <2>1 DEF LoadInv, Part
  <2> QED
    BY <2>1, <2>7, <2>8 DEF FileInv, LoadInv, Loading, Fields
<1>14. CASE Save
  <2>1. phase = "compile" /\ phase' = "header" /\ UNCHANGED <<source, next, prog, input, loaded>>
    BY <1>14 DEF Save, compiling, loading
  <2> DEFINE image == Image(prog)
  <2>2. image \in Seq(Items)
    BY <1>2, Sections
  <2>3. PICK n \in 0..Len(image) : disk' = SubSeq(image, 1, n)
    BY <1>14 DEF Save
  <2>4. image' = image
    BY <2>1 DEF Image
  <2> HIDE DEF image
  <2>5. /\ disk' \in Seq(Items) /\ Len(disk') = n
        /\ \A i \in 1..n : disk'[i] = image[i]
    BY <2>2, <2>3
  <2>6. Holds(0, image)'
    <3>1. ASSUME NEW i \in 1..Len(image), 0 + i <= Len(disk') PROVE disk'[0 + i] = image[i]
      <4>1. i \in 1..n /\ 0 + i = i
        BY <2>2, <2>5, <3>1
      <4> QED
        BY <2>5, <4>1
    <3> QED
      BY <2>4, <3>1 DEF Holds
  <2>7. FileTypeOK'
    BY <1>1, <2>1, <2>5 DEF FileTypeOK, Loading
  <2>8. loaded' = Part({})'
    BY <1>1, <2>1 DEF LoadInv, Part
  <2> QED
    BY <2>1, <2>6, <2>7, <2>8 DEF FileInv, LoadInv, Fields, image
<1>15. CASE LoadHeader
  <2>1. phase = "header" /\ UNCHANGED <<source, next, prog, disk, loaded>>
    BY <1>15 DEF LoadHeader, compiling
  <2>2. CASE disk = <<>>
    <3>1. phase' = "refused"
      BY <1>15, <2>2 DEF LoadHeader
    <3> QED
      BY <1>3, <2>1, <3>1 DEF FileInv, LoadInv, Loading, Fields
  <2>3. CASE disk # <<>>
    <3>1. phase' = "code" /\ input' = 1
      BY <1>15, <2>3 DEF LoadHeader
    <3>2. loaded' = Part({})'
      BY <1>1, <2>1 DEF LoadInv, Part
    <3>3. 1 \in Place'
      <4>1. Len(disk) \in Nat \ {0}
        BY <1>1, <2>3, EmptySeq DEF FileTypeOK
      <4> QED
        BY <2>1, <4>1 DEF Place
    <3>4. Len(ToCode(prog)') = 1
      BY DEF ToCode
    <3>5. HasRead({}, ToCode(prog))'
      BY <3>1, <3>2, <3>3, <3>4 DEF HasRead
    <3> QED
      BY <1>3, <2>1, <3>1, <3>5 DEF FileInv, LoadInv, Loading, Fields
  <2> QED
    BY <2>2, <2>3
<1>16. CASE VMInit
  <2>1. /\ phase = "loaded" /\ phase' = "ready"
        /\ UNCHANGED <<source, next, prog, disk, loaded>>
    BY <1>16 DEF VMInit, compiling, loading
  <2>2. loaded' = prog'
    BY <1>1, <2>1 DEF LoadInv
  <2> QED
    BY <1>3, <2>1, <2>2 DEF FileInv, LoadInv, Loading, Fields
<1>17. CASE UNCHANGED fileVars
  <2>1. UNCHANGED <<source, next, prog, phase, disk, input, loaded>>
    BY <1>17 DEF fileVars, compiling, loading
  <2> QED
    BY <1>1, <2>1 DEF FileInv, FileTypeOK, LoadInv, Holds, Image, HasRead, Part, Place, ToCode,
          ToConsts, ToStrings, ToVars, ToLines, ToNums, ToStrs, ToData
<1> QED
  BY <1>4, <1>5, <1>6, <1>7, <1>8, <1>9, <1>10, <1>11, <1>12, <1>13, <1>14, <1>15, <1>16,
     <1>17 DEF FileNext

(* So it holds throughout. *)
LEMMA FileInvariant == FileSpec => []FileInv
<1> QED
  BY InitFile, NextFile, PTL DEF FileSpec

(* What the machine starts with is the whole of what the compiler saved,   *)
(* whatever the source and wherever the file was cut.                      *)
THEOREM LoadsWhatWasSaved == FileSpec => []LoadedIsSaved
<1>1. FileInv => LoadedIsSaved
  BY DEF FileInv, LoadInv, LoadedIsSaved
<1> QED
  BY <1>1, FileInvariant, PTL

(* vm_init: what one variable's type and name tell.                        *)
LEMMA OneMarked ==
    ASSUME NEW v, v.type \in {get_var_type(v.name), "array"},
           NEW type \in TypesInMemory(v)
    PROVE  IsStringArray(v, type) <=> get_var_type(v.name) = "string"
<1>1. get_var_type(v.name) = "string" <=> Dollar \in ToSet(v.name)
  BY DEF get_var_type
<1>2. type = "string" => get_var_type(v.name) = "string"
  BY DEF TypesInMemory
<1> QED
  BY <1>1, <1>2 DEF IsStringArray

(* The marks are put once, and stay. *)
LEMMA NextMarked ==
    FileInv /\ StringArraysMarked /\ [FileNext]_fileVars => StringArraysMarked'
<1> SUFFICES ASSUME FileInv, StringArraysMarked, [FileNext]_fileVars, phase' = "ready"
             PROVE  \A i \in DOMAIN loaded'.vars :
                       isString'[i] <=> get_var_type(loaded'.vars[i].name) = "string"
  BY DEF StringArraysMarked
<1>1. CASE VMInit
  <2>1. phase = "loaded" /\ UNCHANGED loaded
    BY <1>1 DEF VMInit, loading
  <2>2. loaded = prog /\ TypedTable(loaded.vars)
    BY <2>1 DEF FileInv, FileTypeOK, LoadInv, TableOK
  <2>3. PICK types \in [DOMAIN loaded.vars -> VarType \cup {"garbage"}] :
           /\ \A i \in DOMAIN types : types[i] \in TypesInMemory(loaded.vars[i])
           /\ isString' = [i \in DOMAIN types |-> IsStringArray(loaded.vars[i], types[i])]
    BY <1>1 DEF VMInit
  <2>4. ASSUME NEW i \in DOMAIN loaded.vars
        PROVE  isString'[i] <=> get_var_type(loaded.vars[i].name) = "string"
    <3>1. i \in 1..Len(loaded.vars)
      BY <2>2 DEF TypedTable
    <3>2. loaded.vars[i].type \in {get_var_type(loaded.vars[i].name), "array"}
      BY <2>2, <3>1 DEF TypedTable
    <3>3. types[i] \in TypesInMemory(loaded.vars[i])
      BY <2>3
    <3>4. IsStringArray(loaded.vars[i], types[i]) <=> get_var_type(loaded.vars[i].name) = "string"
      BY <3>2, <3>3, OneMarked
    <3>5. isString'[i] = IsStringArray(loaded.vars[i], types[i])
      BY <2>3
    <3> QED
      BY <3>4, <3>5
  <2> QED
    BY <2>1, <2>4
<1>2. CASE UNCHANGED fileVars
  <2>1. UNCHANGED <<phase, loaded, isString>>
    BY <1>2 DEF fileVars, loading
  <2> QED
    BY <2>1 DEF StringArraysMarked
<1>3. CASE FileNext /\ ~VMInit
  BY <1>3 DEF FileNext, Discover, Compile, Save, LoadHeader, LoadCode, LoadConsts, LoadStrings,
        LoadVars, LoadLines, LoadNums, LoadStrs, LoadData, Section, Failures, FileInv,
        FileTypeOK, Loading, Fields
<1> QED
  BY <1>1, <1>2, <1>3

(* The machine's arrays know whether they hold strings, whatever the file  *)
(* leaves undefined of their types.                                        *)
THEOREM StringArraysKnown == FileSpec => []StringArraysMarked
<1>1. FileInit => StringArraysMarked
  BY DEF FileInit, StringArraysMarked
<1> QED
  BY <1>1, NextMarked, FileInvariant, PTL DEF FileSpec

-----------------------------------------------------------------------------
(* Within the limits every name has a variable.                            *)

Naming == {i \in DOMAIN source : source[i].k \in {"var", "dim"}}

(* A source has finitely many names. *)
LEMMA NamesFinite ==
    ASSUME source \in Seq(Reference)
    PROVE  IsFiniteSet(Named(source)) /\ \A i \in Naming : source[i].name \in Named(source)
<1> DEFINE f == [i \in Naming |-> source[i].name]
<1>1. Named(source) = {source[i].name : i \in Naming}
  BY DEF Named, Naming
<1>2. IsFiniteSet(Naming)
  <2>1. IsFiniteSet(1..Len(source))
    BY FS_Interval
  <2>2. Naming \in SUBSET (1..Len(source))
    BY DEF Naming
  <2> QED
    BY <2>1, <2>2, FS_Subset
<1>3. f \in Surjection(Naming, Named(source))
  BY <1>1 DEF Surjection
<1> QED
  BY <1>1, <1>2, <1>3, FS_Surjection

(* As long as a name of the source has no variable, there is room for one. *)
LEMMA RoomForName ==
    ASSUME source \in Seq(Reference), NEW table, TableOK(table), WithinLimits,
           \A other : Has(table, other) => other \in Named(source),
           NEW name \in Named(source), ~Has(table, name)
    PROVE  CountOf(table, get_var_type(name)) < Limit(get_var_type(name))
<1> DEFINE type == get_var_type(name)
           ofType == {i \in DOMAIN table : table[i].type = type}
           names == {other \in Named(source) : get_var_type(other) = type}
           rest == names \ {name}
           g == [i \in ofType |-> table[i].name]
<1>1. /\ DOMAIN table = 1..Len(table) /\ TypedTable(table) /\ DistinctNames(table)
      /\ type \in {"string", "numeric"} /\ name \in names
  BY DEF TableOK, TypedTable, get_var_type
<1>2. IsFiniteSet(names)
  BY NamesFinite, FS_Subset
<1>3. Cardinality(names) \in Nat /\ Cardinality(names) <= Limit(type)
  <2> DEFINE strings == {other \in Named(source) : get_var_type(other) = "string"}
  <2>1. /\ Cardinality(strings) <= MaxStringVars
        /\ Cardinality(Named(source) \ strings) <= MaxNumericVars
    BY DEF WithinLimits
  <2>2. CASE type = "string"
    <3>1. names = strings /\ Limit(type) = MaxStringVars
      BY <2>2 DEF Limit
    <3> QED
      BY <1>2, <2>1, <3>1, FS_CardinalityType
  <2>3. CASE type = "numeric"
    <3>1. \A other : get_var_type(other) = "numeric" <=> get_var_type(other) # "string"
      BY DEF get_var_type
    <3>2. names = Named(source) \ strings /\ Limit(type) = MaxNumericVars
      BY <2>3, <3>1 DEF Limit
    <3> QED
      BY <1>2, <2>1, <3>2, FS_CardinalityType
  <2> QED
    BY <1>1, <2>2, <2>3
<1>4. g \in Injection(ofType, rest)
  <2>1. ASSUME NEW i \in ofType PROVE table[i].name \in rest
    <3>1. i \in 1..Len(table) /\ table[i].type = type
      BY <1>1
    <3>2. Has(table, table[i].name)
      BY <3>1 DEF Has
    <3>3. table[i].name \in Named(source) /\ table[i].name # name
      BY <3>2
    <3>4. get_var_type(table[i].name) = type
      BY <1>1, <3>1 DEF TypedTable
    <3> QED
      BY <3>3, <3>4
  <2>2. \A i, j \in ofType : table[i].name = table[j].name => i = j
    BY <1>1 DEF DistinctNames
  <2> HIDE DEF ofType, rest
  <2>3. g \in [ofType -> rest]
    BY <2>1
  <2>4. \A i, j \in ofType : g[i] = g[j] => i = j
    BY <2>2
  <2> HIDE DEF g
  <2> QED
    BY <2>3, <2>4 DEF Injection, IsInjective
<1>5. IsFiniteSet(rest) /\ Cardinality(rest) = Cardinality(names) - 1
  <2> HIDE DEF names
  <2> QED
    BY <1>1, <1>2, FS_RemoveElement
<1>6. Cardinality(ofType) <= Cardinality(rest)
  <2> HIDE DEF g, ofType, rest
  <2> QED
    BY <1>4, <1>5, FS_Injection
<1>7. CountOf(table, type) = Cardinality(ofType)
  BY DEF CountOf
<1>8. Limit(type) \in Nat
  BY <1>1, LimitAssumption DEF Limit
<1>9. Cardinality(ofType) \in Nat
  <2>1. IsFiniteSet(1..Len(table))
    <3>1. Len(table) \in Nat
      BY DEF TableOK, TypedTable
    <3> QED
      BY <3>1, FS_Interval
  <2>2. ofType \in SUBSET (1..Len(table))
    BY <1>1
  <2> HIDE DEF ofType
  <2>3. IsFiniteSet(ofType)
    BY <2>1, <2>2, FS_Subset
  <2> QED
    BY <2>3, FS_CardinalityType
<1> HIDE DEF type, ofType, names, rest
<1>10. CountOf(table, type) < Limit(type)
  BY <1>3, <1>5, <1>6, <1>7, <1>8, <1>9
<1> QED
  BY <1>10 DEF type

-----------------------------------------------------------------------------
(* How many DATA items there are.                                          *)

(* The count, statement by statement. *)
LEMMA DataCount ==
    ASSUME source \in Seq(Reference)
    PROVE  /\ DataUpTo(0) = 0
           /\ \A n \in Nat : DataUpTo(n) \in Nat
           /\ \A n \in Nat : DataUpTo(n + 1) =
                 IF source[n + 1].k = "data" THEN DataUpTo(n) + 1 ELSE DataUpTo(n)
<1> DEFINE items(n) == {i \in 1..n : source[i].k = "data"}
<1>1. ASSUME NEW n \in Nat PROVE IsFiniteSet(items(n))
  <2>1. IsFiniteSet(1..n)
    BY FS_Interval
  <2> QED
    BY <2>1, FS_Subset
<1>2. ASSUME NEW n \in Nat PROVE DataUpTo(n) = Cardinality(items(n)) /\ DataUpTo(n) \in Nat
  <2>1. DataUpTo(n) = Cardinality(items(n))
    BY DEF DataUpTo
  <2> HIDE DEF items
  <2> QED
    BY <1>1, <2>1, FS_CardinalityType
<1>3. DataUpTo(0) = 0
  <2>1. items(0) = {}
    OBVIOUS
  <2> QED
    BY <2>1, FS_EmptySet DEF DataUpTo
<1>4. ASSUME NEW n \in Nat
      PROVE  DataUpTo(n + 1) = IF source[n + 1].k = "data" THEN DataUpTo(n) + 1 ELSE DataUpTo(n)
  <2>1. items(n + 1) = IF source[n + 1].k = "data" THEN items(n) \cup {n + 1} ELSE items(n)
    OBVIOUS
  <2>2. n + 1 \notin items(n)
    OBVIOUS
  <2>3. n + 1 \in Nat
    OBVIOUS
  <2>4. DataUpTo(n + 1) = Cardinality(items(n + 1)) /\ DataUpTo(n) = Cardinality(items(n))
    BY <1>2, <2>3
  <2>5. IsFiniteSet(items(n))
    BY <1>1
  <2> HIDE DEF items
  <2>6. Cardinality(items(n) \cup {n + 1}) = Cardinality(items(n)) + 1
    BY <2>2, <2>5, FS_AddElement
  <2> QED
    BY <2>1, <2>4, <2>6
<1> QED
  BY <1>2, <1>3, <1>4

-----------------------------------------------------------------------------
(* What has been compiled.                                                 *)

(* How many statements have been. *)
Done == IF phase = "discover" THEN 0 ELSE IF phase = "compile" THEN next - 1 ELSE Len(source)

(* Every variable is a name of the source, and within the limits each name *)
(* that has been visited has one.                                          *)
NamesInv ==
    /\ \A name : Has(prog.vars, name) => name \in Named(source)
    /\ WithinLimits => \A i \in Naming :
          (phase = "discover" => i < next) => Has(prog.vars, source[i].name)

(* The first n statements of the source are in the program p. *)
CompiledUpTo(p, n) ==
    /\ n \in 0..Len(source) /\ Len(p.lines) = n /\ Len(p.data) = DataUpTo(n)
    /\ \A i \in 1..n : source[i].k # "data" /\ WithinLimits =>
          /\ p.lines[i].offset \in 0..(Len(p.code) - 1)
          /\ StandsFor(p, p.code[p.lines[i].offset + 1], source[i])
    /\ \A i \in 1..n : source[i].k = "data" =>
          /\ DataUpTo(i) \in 1..Len(p.data)
          /\ ItemFor(p, p.data[DataUpTo(i)], source[i].item)

CompileInv ==
    /\ phase \in {"discover", "compile"} => next \in 1..(Len(source) + 1)
    /\ NamesInv /\ CompiledUpTo(prog, Done)

(* One statement more. *)
LEMMA CompiledMore ==
    ASSUME source \in Seq(Reference), NEW p \in Program, TableOK(p.vars),
           NEW n \in Nat, n + 1 \in 1..Len(source), CompiledUpTo(p, n),
           WithinLimits => (source[n + 1].k \in {"var", "dim"} =>
                               Has(p.vars, source[n + 1].name)),
           NEW m, m = [p EXCEPT !.lines = Append(@, [line |-> n + 1, offset |-> Len(p.code)])],
           NEW q, Compiled(q, m, source[n + 1])
    PROVE  CompiledUpTo(q, n + 1)
<1> DEFINE ref == source[n + 1]
<1>1. /\ m \in Program /\ m.vars = p.vars /\ m.code = p.code /\ m.data = p.data
      /\ Extends(m, p) /\ Len(m.lines) = Len(p.lines) + 1
      /\ m.lines[Len(p.lines) + 1].offset = Len(p.code)
  BY LineAdded
<1>2. /\ q \in Program /\ Extends(q, m) /\ q.lines = m.lines
  BY DEF Compiled
<1>3. Len(p.lines) = n /\ Len(p.data) = DataUpTo(n) /\ Len(source) \in Nat
      /\ Len(p.code) \in Nat
  BY DEF CompiledUpTo, Program
<1>4. /\ DataUpTo(n) \in Nat
      /\ DataUpTo(n + 1) = IF ref.k = "data" THEN DataUpTo(n) + 1 ELSE DataUpTo(n)
  BY DataCount
<1>5. /\ ref.k # "data" => q.data = p.data /\ Len(q.code) = Len(p.code) + 1
      /\ ref.k = "data" => /\ q.code = p.code /\ Len(q.data) = Len(p.data) + 1
                           /\ ItemFor(q, q.data[Len(p.data) + 1], ref.item)
  BY <1>1 DEF Compiled
<1>6. WithinLimits /\ ref.k # "data" => StandsFor(q, q.code[Len(p.code) + 1], ref)
  BY <1>1 DEF Compiled
<1>7. /\ Grown(q.code, p.code) /\ Grown(q.data, p.data) /\ Grown(q.lines, p.lines)
  BY <1>1, <1>2 DEF Extends, Grown
<1>8. \A i \in 1..(n + 1) : i \in 1..n \/ i = n + 1
  OBVIOUS
<1>9. \A i \in 1..n : q.lines[i] = p.lines[i]
  BY <1>3, <1>7 DEF Grown
<1>10. q.lines[n + 1].offset = Len(p.code) /\ Len(q.lines) = n + 1
  BY <1>1, <1>2, <1>3
<1>11. /\ \A operand, r : StandsFor(p, operand, r) => StandsFor(q, operand, r)
       /\ \A entry, item : ItemFor(p, entry, item) => ItemFor(q, entry, item)
  BY <1>1, <1>2, StillStands
<1>12. Len(q.data) = DataUpTo(n + 1)
  BY <1>3, <1>4, <1>5
<1>13. ASSUME NEW i \in 1..(n + 1), source[i].k # "data", WithinLimits
       PROVE  /\ q.lines[i].offset \in 0..(Len(q.code) - 1)
              /\ StandsFor(q, q.code[q.lines[i].offset + 1], source[i])
  <2>1. CASE i \in 1..n
    <3> DEFINE offset == p.lines[i].offset
    <3>1. offset \in 0..(Len(p.code) - 1) /\ StandsFor(p, p.code[offset + 1], source[i])
      BY <1>13, <2>1 DEF CompiledUpTo
    <3>2. q.lines[i].offset = offset
      BY <1>9, <2>1
    <3> HIDE DEF offset
    <3>3. offset + 1 \in 1..Len(p.code) /\ offset \in 0..(Len(q.code) - 1)
      <4>1. Len(q.code) \in Nat /\ Len(p.code) <= Len(q.code)
        BY <1>7 DEF Grown
      <4> DEFINE P == Len(p.code)
                 Q == Len(q.code)
      <4>2. P \in Nat /\ Q \in Nat /\ P <= Q /\ offset \in 0..(P - 1)
        BY <1>3, <3>1, <4>1
      <4> HIDE DEF P, Q
      <4>3. offset + 1 \in 1..P /\ offset \in 0..(Q - 1)
        BY <4>2
      <4> QED
        BY <4>3 DEF P, Q
    <3>4. q.code[offset + 1] = p.code[offset + 1]
      BY <1>7, <3>3 DEF Grown
    <3>5. StandsFor(q, q.code[offset + 1], source[i])
      BY <1>11, <3>1, <3>4
    <3> QED
      BY <3>2, <3>3, <3>5
  <2>2. CASE i = n + 1
    <3>1. Len(p.code) \in 0..(Len(q.code) - 1)
      BY <1>3, <1>5, <1>13, <2>2
    <3> QED
      BY <1>6, <1>10, <1>13, <2>2, <3>1
  <2> QED
    BY <1>8, <2>1, <2>2
<1>14. ASSUME NEW i \in 1..(n + 1), source[i].k = "data"
       PROVE  /\ DataUpTo(i) \in 1..Len(q.data)
              /\ ItemFor(q, q.data[DataUpTo(i)], source[i].item)
  <2>1. CASE i \in 1..n
    <3> DEFINE place == DataUpTo(i)
    <3>1. place \in 1..Len(p.data) /\ ItemFor(p, p.data[place], source[i].item)
      BY <1>14, <2>1 DEF CompiledUpTo
    <3> HIDE DEF place
    <3>2. q.data[place] = p.data[place] /\ place \in 1..Len(q.data)
      BY <1>7, <3>1 DEF Grown
    <3>3. ItemFor(q, q.data[place], source[i].item)
      BY <1>11, <3>1, <3>2
    <3> QED
      BY <3>2, <3>3 DEF place
  <2>2. CASE i = n + 1
    <3>1. DataUpTo(i) = Len(p.data) + 1 /\ Len(q.data) = Len(p.data) + 1
          /\ ItemFor(q, q.data[Len(p.data) + 1], source[i].item)
      BY <1>3, <1>4, <1>5, <1>14, <2>2
    <3>2. Len(p.data) + 1 \in 1..(Len(p.data) + 1)
      BY <1>3, <1>4
    <3> QED
      BY <3>1, <3>2
  <2> QED
    BY <1>8, <2>1, <2>2
<1> QED
  BY <1>10, <1>12, <1>13, <1>14 DEF CompiledUpTo

(* A count of variables is a number. *)
LEMMA CountNat ==
    ASSUME NEW table, TableOK(table), NEW type
    PROVE  CountOf(table, type) \in Nat
<1> DEFINE ofType == {i \in DOMAIN table : table[i].type = type}
<1>1. Len(table) \in Nat /\ DOMAIN table = 1..Len(table)
  BY DEF TableOK, TypedTable
<1>2. IsFiniteSet(1..Len(table)) /\ ofType \in SUBSET (1..Len(table))
  BY <1>1, FS_Interval
<1>3. CountOf(table, type) = Cardinality(ofType)
  BY DEF CountOf
<1> HIDE DEF ofType
<1>4. IsFiniteSet(ofType)
  BY <1>2, FS_Subset
<1> QED
  BY <1>3, <1>4, FS_CardinalityType

(* Nothing is compiled at first. *)
LEMMA InitCompiled == FileInit => CompileInv
<1> SUFFICES ASSUME FileInit PROVE CompileInv
  OBVIOUS
<1>1. source \in Seq(Reference) /\ phase = "discover" /\ next = 1 /\ prog = Blank
  BY SourceAssumption DEF FileInit
<1>2. Len(source) \in Nat
  BY <1>1
<1>3. /\ Len(prog.vars) = 0 /\ Len(prog.lines) = 0 /\ Len(prog.data) = 0
  BY <1>1 DEF Blank
<1>4. NamesInv
  <2>1. \A name : ~Has(prog.vars, name)
    BY <1>3 DEF Has
  <2>2. \A i \in Naming : ~(i < next)
    BY <1>1 DEF Naming
  <2> QED
    BY <1>1, <2>1, <2>2 DEF NamesInv
<1>5. CompiledUpTo(prog, 0)
  BY <1>1, <1>2, <1>3, DataCount DEF CompiledUpTo
<1> QED
  BY <1>1, <1>2, <1>4, <1>5 DEF CompileInv, Done

(* What loading leaves alone. *)
LEMMA CompileUnchanged ==
    ASSUME CompileInv, UNCHANGED <<source, next, prog>>,
           \/ phase' = phase
           \/ phase \in Loading /\ phase' \in Loading
           \/ phase = "compile" /\ next = Len(source) + 1 /\ phase' = "header"
              /\ Len(source) \in Nat
    PROVE  CompileInv'
<1>1. Done' = Done
  BY DEF Done, Loading, Fields
<1>2. NamesInv'
  BY DEF CompileInv, NamesInv, WithinLimits, Naming, Loading, Fields
<1>3. CompiledUpTo(prog, Done)'
  <2>1. WithinLimits' = WithinLimits
    BY DEF WithinLimits
  <2>2. CompiledUpTo(prog, Done)
    BY DEF CompileInv
  <2>3. \A n : DataUpTo(n)' = DataUpTo(n)
    BY DEF DataUpTo
  <2> QED
    BY <1>1, <2>1, <2>2, <2>3 DEF CompiledUpTo
<1>4. phase' \in {"discover", "compile"} => next' \in 1..(Len(source') + 1)
  BY DEF CompileInv, Loading, Fields
<1> QED
  BY <1>2, <1>3, <1>4 DEF CompileInv

(* A step of the discovery. *)
LEMMA DiscoverCompiled ==
    ASSUME FileInv, CompileInv, Discover
    PROVE  CompileInv'
<1>1. /\ source \in Seq(Reference) /\ Len(source) \in Nat /\ DOMAIN source = 1..Len(source)
      /\ prog \in Program /\ TableOK(prog.vars) /\ phase = "discover"
      /\ source' = source /\ next \in 1..(Len(source) + 1)
  BY DEF FileInv, FileTypeOK, CompileInv, Discover
<1>2. CompiledUpTo(prog, 0)
  BY <1>1 DEF CompileInv, Done
<1>3. /\ WithinLimits' = WithinLimits /\ Naming' = Naming
      /\ \A n : DataUpTo(n)' = DataUpTo(n)
  BY <1>1 DEF WithinLimits, Naming, DataUpTo
<1>4. CASE next \in DOMAIN source
  <2> DEFINE ref == source[next]
             table == discover_variables(prog.vars, ref)
  <2>1. prog' = [prog EXCEPT !.vars = table] /\ next' = next + 1 /\ phase' = "discover"
    BY <1>1, <1>4 DEF Discover
  <2>2. ref \in Reference
    BY <1>1, <1>4
  <2>3. /\ TableOK(table)
        /\ \A name : Has(prog.vars, name) => Has(table, name)
        /\ \A name : Has(table, name) =>
              Has(prog.vars, name) \/ (ref.k \in {"var", "dim"} /\ ref.name = name)
        /\ ref.k \in {"var", "dim"} =>
              \/ Has(table, ref.name)
              \/ ~Has(table, ref.name)
                 /\ CountOf(table, get_var_type(ref.name)) >= Limit(get_var_type(ref.name))
    BY <1>1, <2>2, DiscoverOne
  <2> HIDE DEF table
  <2>4. /\ prog'.vars = table /\ prog'.lines = prog.lines /\ prog'.data = prog.data
        /\ prog'.code = prog.code
    BY <1>1, <2>1 DEF Program
  <2>5. \A name : Has(table, name) => name \in Named(source)
    <3>1. ref.k \in {"var", "dim"} => ref.name \in Named(source)
      BY <1>1, <1>4, NamesFinite DEF Naming
    <3> QED
      BY <2>3, <3>1 DEF CompileInv, NamesInv
  <2>6. WithinLimits /\ ref.k \in {"var", "dim"} => Has(table, ref.name)
    <3> SUFFICES ASSUME WithinLimits, ref.k \in {"var", "dim"}, ~Has(table, ref.name)
                 PROVE  FALSE
      OBVIOUS
    <3> DEFINE type == get_var_type(ref.name)
    <3>1. ref.name \in Named(source)
      BY <1>1, <1>4, NamesFinite DEF Naming
    <3>2. CountOf(table, type) < Limit(type)
      BY <1>1, <2>3, <2>5, <3>1, RoomForName
    <3>3. CountOf(table, type) >= Limit(type)
      BY <2>3
    <3>4. type \in VarType
      BY NameTypes
    <3>5. Limit(type) \in Nat
      BY <3>4, LimitAssumption DEF Limit, VarType
    <3>6. CountOf(table, type) \in Nat
      BY <2>3, CountNat
    <3> HIDE DEF type
    <3> QED
      BY <3>2, <3>3, <3>5, <3>6
  <2>7. NamesInv'
    <3>1. ASSUME WithinLimits, NEW i \in Naming, i < next + 1
          PROVE  Has(table, source[i].name)
      <4>1. CASE i < next
        BY <1>1, <2>3, <3>1, <4>1 DEF CompileInv, NamesInv
      <4>2. CASE i = next
        BY <2>6, <3>1, <4>2 DEF Naming
      <4>3. i \in Int /\ next \in Int
        BY <1>1 DEF Naming
      <4> QED
        BY <3>1, <4>1, <4>2, <4>3
    <3> QED
      BY <1>1, <1>3, <2>1, <2>4, <2>5, <3>1 DEF NamesInv
  <2>8. CompiledUpTo(prog, 0)'
    BY <1>1, <1>2, <1>3, <2>4 DEF CompiledUpTo
  <2>9. next' \in 1..(Len(source) + 1)
    BY <1>1, <1>4, <2>1
  <2> QED
    BY <1>1, <2>1, <2>7, <2>8, <2>9 DEF CompileInv, Done
<1>5. CASE next \notin DOMAIN source
  <2>1. phase' = "compile" /\ next' = 1 /\ prog' = prog
    BY <1>5 DEF Discover
  <2>2. next = Len(source) + 1
    BY <1>1, <1>5
  <2>3. NamesInv'
    <3>1. \A i \in Naming : i < next
      BY <1>1, <2>2 DEF Naming
    <3> QED
      BY <1>1, <1>3, <2>1, <3>1 DEF CompileInv, NamesInv
  <2>4. CompiledUpTo(prog, 0)'
    BY <1>1, <1>2, <1>3, <2>1 DEF CompiledUpTo
  <2> QED
    BY <1>1, <2>1, <2>3, <2>4 DEF CompileInv, Done
<1> QED
  BY <1>4, <1>5

(* A step of the compilation. *)
LEMMA CompileCompiled ==
    ASSUME FileInv, CompileInv, Compile
    PROVE  CompileInv'
<1>1. /\ source \in Seq(Reference) /\ Len(source) \in Nat /\ DOMAIN source = 1..Len(source)
      /\ prog \in Program /\ TableOK(prog.vars) /\ phase = "compile" /\ phase' = "compile"
      /\ source' = source /\ next' = next + 1 /\ next \in 1..Len(source)
  BY DEF FileInv, FileTypeOK, Compile
<1> DEFINE n == next - 1
           m == [prog EXCEPT !.lines = Append(@, [line |-> next, offset |-> Len(prog.code)])]
           ref == source[next]
<1>2. prog' = CompileReference(m, ref)
  BY DEF Compile
<1>3. n \in Nat /\ n + 1 = next /\ n + 1 \in 1..Len(source)
  BY <1>1
<1>4. m \in Program /\ m.vars = prog.vars /\ Extends(m, prog)
  BY <1>1, LineAdded
<1>5. ref \in Reference
  BY <1>1
<1> HIDE DEF m
<1>6. Compiled(prog', m, ref)
  BY <1>1, <1>2, <1>4, <1>5, CompileOne
<1>7. CompiledUpTo(prog, n)
  BY <1>1 DEF CompileInv, Done
<1>8. WithinLimits => (ref.k \in {"var", "dim"} => Has(prog.vars, ref.name))
  BY <1>1 DEF CompileInv, NamesInv, Naming
<1> HIDE DEF n
<1>9. CompiledUpTo(prog', n + 1)
  <2> DEFINE q == prog'
             p == prog
  <2>1. m = [p EXCEPT !.lines = Append(@, [line |-> n + 1, offset |-> Len(p.code)])]
    BY <1>3 DEF m
  <2>2. Compiled(q, m, source[n + 1])
    BY <1>3, <1>6
  <2>3. WithinLimits => (source[n + 1].k \in {"var", "dim"} => Has(p.vars, source[n + 1].name))
    BY <1>3, <1>8
  <2>4. p \in Program /\ TableOK(p.vars) /\ CompiledUpTo(p, n)
    BY <1>1, <1>7
  <2> HIDE DEF q, p
  <2>5. CompiledUpTo(q, n + 1)
    BY <1>1, <1>3, <2>1, <2>2, <2>3, <2>4, CompiledMore
  <2> QED
    BY <2>5 DEF q
<1>10. Done' = n + 1
  BY <1>1, <1>3 DEF Done
<1>11. /\ WithinLimits' = WithinLimits /\ Naming' = Naming
       /\ \A k : DataUpTo(k)' = DataUpTo(k)
  BY <1>1 DEF WithinLimits, Naming, DataUpTo
<1>12. CompiledUpTo(prog, Done)'
  BY <1>1, <1>9, <1>10, <1>11 DEF CompiledUpTo
<1>13. NamesInv'
  <2>1. \A name : Has(prog.vars, name) => Has(prog'.vars, name)
    <3>1. Extends(prog', m)
      BY <1>6 DEF Compiled
    <3> QED
      BY <1>4, <3>1, StillStands
  <2>2. ref.k \in {"var", "dim"} => ref.name \in Named(source)
    BY <1>1, NamesFinite DEF Naming
  <2>3. \A name : Has(prog'.vars, name) => name \in Named(source)
    BY <1>4, <1>6, <2>2 DEF Compiled, CompileInv, NamesInv
  <2>4. WithinLimits => \A i \in Naming : Has(prog.vars, source[i].name)
    BY <1>1 DEF CompileInv, NamesInv
  <2> QED
    BY <1>1, <1>11, <2>1, <2>3, <2>4 DEF NamesInv
<1> QED
  BY <1>1, <1>12, <1>13 DEF CompileInv

(* Every step preserves it. *)
LEMMA NextCompiled == FileInv /\ CompileInv /\ [FileNext]_fileVars => CompileInv'
<1> SUFFICES ASSUME FileInv, CompileInv, [FileNext]_fileVars PROVE CompileInv'
  OBVIOUS
<1>1. CASE Discover
  BY <1>1, DiscoverCompiled
<1>2. CASE Compile
  BY <1>2, CompileCompiled
<1>3. CASE Save
  <2>1. phase = "compile" /\ next \notin DOMAIN source /\ phase' = "header"
        /\ UNCHANGED <<source, next, prog>>
    BY <1>3 DEF Save, compiling
  <2>2. Len(source) \in Nat /\ DOMAIN source = 1..Len(source)
        /\ next \in 1..(Len(source) + 1)
    BY <2>1 DEF FileInv, FileTypeOK, CompileInv
  <2>3. next = Len(source) + 1
    BY <2>1, <2>2
  <2> QED
    BY <2>1, <2>2, <2>3, CompileUnchanged
<1>4. CASE \/ LoadHeader \/ LoadCode \/ LoadConsts \/ LoadStrings \/ LoadVars
           \/ LoadLines \/ LoadNums \/ LoadStrs \/ LoadData \/ VMInit
  <2>1. UNCHANGED <<source, next, prog>>
    BY <1>4 DEF LoadHeader, LoadCode, LoadConsts, LoadStrings, LoadVars, LoadLines, LoadNums,
          LoadStrs, LoadData, VMInit, Section, compiling
  <2>2. phase \in Loading /\ phase' \in Loading
    BY <1>4 DEF LoadHeader, LoadCode, LoadConsts, LoadStrings, LoadVars, LoadLines, LoadNums,
          LoadStrs, LoadData, VMInit, Section, Failures, Loading, Fields
  <2> QED
    BY <2>1, <2>2, CompileUnchanged
<1>5. CASE UNCHANGED fileVars
  <2>1. UNCHANGED <<source, next, prog, phase>>
    BY <1>5 DEF fileVars, compiling
  <2> QED
    BY <2>1, CompileUnchanged
<1> QED
  BY <1>1, <1>2, <1>3, <1>4, <1>5 DEF FileNext

(* An entry of the DATA table that stands for an item is that item.        *)
LEMMA ItemRead ==
    ASSUME NEW p, NEW entry, NEW item \in Item, ItemFor(p, entry, item)
    PROVE  DataItem(p, entry) = item
<1>1. CASE item.type = "num"
  <2>1. item = [type |-> "num", num |-> item.num]
    BY <1>1 DEF Item
  <2> QED
    BY <1>1, <2>1 DEF ItemFor, DataItem
<1>2. CASE item.type = "str"
  <2>1. item = [type |-> "str", str |-> item.str]
    BY <1>2 DEF Item
  <2> QED
    BY <1>2, <2>1 DEF ItemFor, DataItem
<1>3. CASE item.type = "null"
  <2>1. item = [type |-> "null"]
    BY <1>3 DEF Item
  <2> QED
    BY <1>3, <2>1 DEF ItemFor, DataItem
<1> QED
  BY <1>1, <1>2, <1>3 DEF Item

(* In the program the machine has loaded, every operand stands for what    *)
(* its statement wrote, whatever the source and the limits.                *)
THEOREM OperandsStandForNames == FileSpec => []OperandsResolve
<1>1. FileInv /\ CompileInv => OperandsResolve
  <2> SUFFICES ASSUME FileInv, CompileInv, phase \in {"loaded", "ready"}, WithinLimits
               PROVE  /\ \A i \in DOMAIN source :
                            LET ref == source[i]
                                operand == loaded.code[loaded.lines[i].offset + 1]
                            IN  CASE ref.k = "const"  -> loaded.consts[operand + 1] = ref.value
                                  [] ref.k = "string" -> loaded.strings[operand + 1] = ref.value
                                  [] ref.k \in {"var", "dim"} ->
                                        loaded.vars[operand + 1].name = ref.name
                                  [] ref.k = "data" -> TRUE
                      /\ Len(loaded.data) = DataUpTo(Len(source))
                      /\ \A i \in DOMAIN source : source[i].k = "data" =>
                            DataItem(loaded, loaded.data[DataUpTo(i)]) = source[i].item
    BY DEF OperandsResolve
  <2>1. loaded = prog /\ source \in Seq(Reference)
    BY DEF FileInv, FileTypeOK, LoadInv
  <2>2. CompiledUpTo(prog, Len(source)) /\ DOMAIN source = 1..Len(source)
    BY <2>1 DEF CompileInv, Done
  <2>3. Len(loaded.data) = DataUpTo(Len(source))
    BY <2>1, <2>2 DEF CompiledUpTo
  <2>4. ASSUME NEW i \in DOMAIN source, source[i].k = "data"
        PROVE  DataItem(loaded, loaded.data[DataUpTo(i)]) = source[i].item
    <3>1. ItemFor(prog, prog.data[DataUpTo(i)], source[i].item)
      BY <2>2, <2>4 DEF CompiledUpTo
    <3>2. source[i].item \in Item
      <4>1. source[i] \in Reference
        BY <2>1
      <4> QED
        BY <2>4, <4>1 DEF Reference
    <3> QED
      BY <2>1, <3>1, <3>2, ItemRead
  <2>5. ASSUME NEW i \in DOMAIN source
        PROVE  LET ref == source[i]
                   operand == loaded.code[loaded.lines[i].offset + 1]
               IN  CASE ref.k = "const"  -> loaded.consts[operand + 1] = ref.value
                     [] ref.k = "string" -> loaded.strings[operand + 1] = ref.value
                     [] ref.k \in {"var", "dim"} -> loaded.vars[operand + 1].name = ref.name
                     [] ref.k = "data" -> TRUE
    <3> DEFINE ref == source[i]
               operand == prog.code[prog.lines[i].offset + 1]
    <3>1. ref.k \in {"const", "string", "var", "dim", "data"}
      <4>1. ref \in Reference
        BY <2>1
      <4> QED
        BY <4>1 DEF Reference
    <3>2. ref.k # "data" => StandsFor(prog, operand, ref)
      BY <2>2 DEF CompiledUpTo
    <3> QED
      BY <2>1, <3>1, <3>2 DEF StandsFor
  <2> QED
    BY <2>3, <2>4, <2>5
<1> QED
  BY <1>1, FileInvariant, InitCompiled, NextCompiled, PTL DEF FileSpec
=============================================================================
