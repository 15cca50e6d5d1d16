---------------------------- MODULE VMArraysProofs ----------------------------
(***************************************************************************)
(* Theorems about the machine with arrays, for every program, every set of *)
(* numbers and slots, and every bound.                                     *)
(*                                                                         *)
(* The dimensions of an array and its block agree, so the bounds test lets *)
(* only cells through; and what the handlers of VMArrays free and allocate *)
(* is added up with Owned(c, m, n) of VMProofs, in which c counts the      *)
(* strings of the variables and of the cells.                              *)
(*                                                                         *)
(* The second half is about programs that pass the verifier: the machine's *)
(* stacks and its errors, and what a read or a write of an element does to *)
(* the array.                                                              *)
(* Each handler pops its operands, makes sure of an array, and then stores *)
(* or pushes, or fails.  Popped ties the values it pops to the operands    *)
(* that the program has pushed; GetCellSound and SetCellSound say what the *)
(* handler leaves; and the lemmas on Elements translate a place in the     *)
(* block of an array into the subscripts of an element.                    *)
(***************************************************************************)
EXTENDS VMArrays, VMProofs

-----------------------------------------------------------------------------
(* The cells that hold strings, and how many they are.                     *)

(* Arrays of finitely many cells each have finitely many cells together.   *)
LEMMA CellsFinite ==
    ASSUME NEW slots, IsFiniteSet(slots), NEW all,
           \A s \in slots : IsFiniteSet(DOMAIN all[s].cells)
    PROVE  IsFiniteSet(UNION {{s} \X DOMAIN all[s].cells : s \in slots})
<1> DEFINE f == [s \in slots |-> {s} \X DOMAIN all[s].cells]
           blocks == {{s} \X DOMAIN all[s].cells : s \in slots}
<1>1. f \in Surjection(slots, blocks)
  BY DEF Surjection
<1>2. IsFiniteSet(blocks)
  BY <1>1, FS_Surjection
<1>3. ASSUME NEW s \in slots PROVE IsFiniteSet({s} \X DOMAIN all[s].cells)
  BY FS_Singleton, FS_Product
<1> QED
  BY <1>2, <1>3, FS_UNION

(* The cells of strings are those of one array and those of the rest.      *)
LEMMA CellsSplit ==
    ASSUME NEW all, \A t \in StringSlot : IsFiniteSet(DOMAIN all[t].cells),
           NEW s \in StringSlot, NEW n \in Nat, DOMAIN all[s].cells = 1..n
    PROVE  LET rest == UNION {{t} \X DOMAIN all[t].cells : t \in StringSlot \ {s}}
           IN  /\ Cardinality(rest) \in Nat
               /\ Cardinality(StringCells(all)) = Cardinality(rest) + n
<1> DEFINE rest == UNION {{t} \X DOMAIN all[t].cells : t \in StringSlot \ {s}}
           own == {s} \X (1..n)
<1>1. IsFiniteSet(StringSlot \ {s})
  BY SlotAssumption, FS_Subset
<1>2. IsFiniteSet(rest) /\ Cardinality(rest) \in Nat
  BY <1>1, CellsFinite, FS_CardinalityType
<1>3. IsFiniteSet(own) /\ Cardinality(own) = n
  <2>1. IsFiniteSet({s}) /\ Cardinality({s}) = 1
    BY FS_Singleton
  <2>2. IsFiniteSet(1..n) /\ Cardinality(1..n) = n
    BY FS_Interval
  <2>3. IsFiniteSet(own) /\ Cardinality(own) = Cardinality({s}) * Cardinality(1..n)
    BY <2>1, <2>2, FS_Product
  <2> QED
    BY <2>1, <2>2, <2>3
<1>4. StringCells(all) = rest \cup own
  BY DEF StringCells
<1>5. rest \cap own = {}
  OBVIOUS
<1> HIDE DEF rest, own
<1>6. /\ Cardinality(rest \cup own)
            = Cardinality(rest) + Cardinality(own) - Cardinality(rest \cap own)
      /\ Cardinality(rest \cap own) = 0
  BY <1>2, <1>3, <1>5, FS_Union, FS_EmptySet
<1> QED
  BY <1>2, <1>3, <1>4, <1>6 DEF rest

(* The legal values of one array: the condition ArraysShaped puts on each. *)
Shaped(s, a) ==
    /\ a \in ArrayData(s)
    /\ a.cells = <<>> => a = NoArray
    /\ a.cells # <<>> =>
          /\ a.dim1 \in DOMAIN a.cells
          /\ a.dim2 > 0 => CellIndex(a, a.dim1 - 1, a.dim2 - 1) = Len(a.cells)

(* What a cell of the array of s holds. *)
CellType(s) == IF s \in StringSlot THEN Text ELSE Number

(* The fields of a legal array have their types, and its strings number    *)
(* the cells of its block.                                                 *)
LEMMA ShapedFields ==
    ASSUME NEW s, NEW a, Shaped(s, a)
    PROVE  /\ a.dim1 \in Nat /\ a.dim2 \in Nat
           /\ a.cells \in Seq(CellType(s))
           /\ Len(a.cells) \in Nat /\ DOMAIN a.cells = 1..Len(a.cells)
           /\ IsFiniteSet(DOMAIN a.cells)
           /\ CellStrings(s, a) \in Nat
           /\ s \in StringSlot => CellStrings(s, a) = Len(a.cells)
           /\ s \notin StringSlot => CellStrings(s, a) = 0
<1>1. a.dim1 \in Nat /\ a.dim2 \in Nat /\ a.cells \in Seq(CellType(s))
  BY DEF Shaped, ArrayData, CellType
<1>2. Len(a.cells) \in Nat /\ DOMAIN a.cells = 1..Len(a.cells)
  BY <1>1
<1>3. IsFiniteSet(DOMAIN a.cells)
  BY <1>2, FS_Interval
<1> QED
  BY <1>1, <1>2, <1>3 DEF CellStrings

(* A row times the length of the rows, and a column more, stays within the *)
(* product of the dimensions.                                              *)
LEMMA Products ==
    ASSUME NEW a \in Nat, NEW b \in Nat
    PROVE  /\ a * b \in Nat
           /\ \A r \in Nat, k \in Nat :
                 r < a /\ k < b => r * b + k + 1 \in 1..(a * b)
           /\ a > 0 /\ b > 0 => (a - 1) * b + (b - 1) + 1 = a * b /\ a \in 1..(a * b)
<1>1. a * b \in Nat
  OBVIOUS
<1>2. ASSUME NEW r \in Nat, NEW k \in Nat, r < a, k < b
      PROVE  r * b + k + 1 \in 1..(a * b)
  <2>1. PICK d \in Nat : a = r + 1 + d
    <3>1. a - r - 1 \in Nat /\ a = r + 1 + (a - r - 1)
      BY <1>2
    <3> QED
      BY <3>1
  <2>2. a * b = r * b + b + d * b
    BY <2>1
  <2>3. r * b \in Nat /\ d * b \in Nat
    OBVIOUS
  <2> QED
    BY <1>2, <2>2, <2>3
<1>3. ASSUME a > 0, b > 0
      PROVE  (a - 1) * b + (b - 1) + 1 = a * b /\ a \in 1..(a * b)
  <2>1. (a - 1) * b + (b - 1) + 1 = a * b
    OBVIOUS
  <2>2. PICK d \in Nat : b = 1 + d
    <3>1. b - 1 \in Nat /\ b = 1 + (b - 1)
      BY <1>3
    <3> QED
      BY <3>1
  <2>3. a * b = a + a * d /\ a * d \in Nat
    BY <2>2
  <2> QED
    BY <1>3, <2>1, <2>3
<1> QED
  BY <1>1, <1>2, <1>3

(* The array without a block is legal, and so is every array DIM or a first*)
(* access makes.                                                           *)
LEMMA NewShaped ==
    ASSUME NEW s \in Slot
    PROVE  /\ Shaped(s, NoArray)
           /\ \A dim1 \in Nat \ {0}, dim2 \in Nat :
                 /\ Shaped(s, NewArray(s, dim1, dim2))
                 /\ NewArray(s, dim1, dim2).cells # <<>>
<1>1. Shaped(s, NoArray)
  BY DEF Shaped, NoArray, ArrayData
<1>2. ASSUME NEW dim1 \in Nat \ {0}, NEW dim2 \in Nat
      PROVE  /\ Shaped(s, NewArray(s, dim1, dim2))
             /\ NewArray(s, dim1, dim2).cells # <<>>
  <2> DEFINE n == IF dim2 = 0 THEN dim1 ELSE dim1 * dim2
             cells == [i \in 1..n |-> Blank(s)]
             a == NewArray(s, dim1, dim2)
  <2>1. dim1 \in Nat /\ dim1 > 0
    OBVIOUS
  <2>2. n \in Nat /\ n > 0 /\ dim1 \in 1..n
    BY <2>1, Products
  <2>3. dim2 > 0 => (dim1 - 1) * dim2 + (dim2 - 1) + 1 = n
    BY <2>1, Products
  <2>4. Blank(s) \in CellType(s)
    <3>1. <<>> \in Text
      BY DEF Text
    <3> QED
      BY <3>1, ZeroIsNumber DEF Blank, CellType
  <2> HIDE DEF n
  <2>5. cells \in Seq(CellType(s)) /\ Len(cells) = n /\ DOMAIN cells = 1..n
    BY <2>2, <2>4
  <2>6. a = [dim1 |-> dim1, dim2 |-> dim2, cells |-> cells]
    BY DEF NewArray, n
  <2> HIDE DEF cells, a
  <2>7. a.dim1 = dim1 /\ a.dim2 = dim2 /\ a.cells = cells /\ a \in ArrayData(s)
    BY <2>1, <2>5, <2>6 DEF ArrayData, CellType
  <2>8. cells # <<>>
    BY <2>2, <2>5
  <2> QED
    BY <2>2, <2>3, <2>5, <2>7, <2>8 DEF Shaped, CellIndex, a
<1> QED
  BY <1>1, <1>2

(* What the bounds test lets through is a cell, whatever the array's own   *)
(* number of dimensions and that of the access.                            *)
LEMMA InsideIsCell ==
    ASSUME NEW s, NEW a, Shaped(s, a), NEW row \in Int, NEW col \in Int,
           Inside(row, a.dim1)
    PROVE  /\ row + 1 \in DOMAIN a.cells
           /\ Inside(col, a.dim2) => CellIndex(a, row, col) \in DOMAIN a.cells
<1>1. /\ a.dim1 \in Nat /\ a.dim2 \in Nat
      /\ Len(a.cells) \in Nat /\ DOMAIN a.cells = 1..Len(a.cells)
  BY ShapedFields
<1>2. row \in Nat /\ row < a.dim1
  BY <1>1 DEF Inside
<1>3. a.cells # <<>>
  BY <1>1, <1>2 DEF Shaped, NoArray
<1>4. a.dim1 \in 1..Len(a.cells)
  BY <1>1, <1>3 DEF Shaped
<1>5. ASSUME Inside(col, a.dim2)
      PROVE  CellIndex(a, row, col) \in DOMAIN a.cells
  <2>1. col \in Nat /\ col < a.dim2 /\ a.dim2 > 0
    BY <1>1, <1>5 DEF Inside
  <2>2. (a.dim1 - 1) * a.dim2 + (a.dim2 - 1) + 1 = Len(a.cells)
    BY <1>3, <2>1 DEF Shaped, CellIndex
  <2>3. PICK d1 \in Nat, d2 \in Nat : d1 = a.dim1 /\ d2 = a.dim2
    BY <1>1
  <2>4. /\ row * d2 + col + 1 \in 1..(d1 * d2)
        /\ (d1 - 1) * d2 + (d2 - 1) + 1 = d1 * d2
    BY <1>2, <2>1, <2>3, Products
  <2> QED
    BY <1>1, <2>2, <2>3, <2>4 DEF CellIndex
<1> QED
  BY <1>1, <1>2, <1>4, <1>5

(* An array one of whose cells is written stays legal, with as many cells. *)
LEMMA WriteShaped ==
    ASSUME NEW s, NEW a, Shaped(s, a),
           NEW i \in DOMAIN a.cells, NEW v \in CellType(s)
    PROVE  LET written == [a EXCEPT !.cells[i] = v]
           IN  /\ Shaped(s, written)
               /\ written.dim1 = a.dim1 /\ written.dim2 = a.dim2
               /\ written.cells = [a.cells EXCEPT ![i] = v]
               /\ CellStrings(s, written) = CellStrings(s, a)
<1> DEFINE cells == [a.cells EXCEPT ![i] = v]
           written == [a EXCEPT !.cells[i] = v]
<1>1. /\ a.dim1 \in Nat /\ a.dim2 \in Nat /\ a.cells \in Seq(CellType(s))
      /\ DOMAIN a.cells = 1..Len(a.cells) /\ Len(a.cells) \in Nat
  BY ShapedFields
<1>2. /\ cells \in Seq(CellType(s)) /\ Len(cells) = Len(a.cells)
      /\ DOMAIN cells = DOMAIN a.cells
  BY <1>1
<1>3. written = [a EXCEPT !.cells = cells]
  OBVIOUS
<1> HIDE DEF cells, written
<1>4. written.dim1 = a.dim1 /\ written.dim2 = a.dim2 /\ written.cells = cells
  BY <1>3 DEF Shaped, ArrayData
<1>5. written \in ArrayData(s)
  BY <1>2, <1>3 DEF Shaped, ArrayData, CellType
<1>6. a.cells # <<>> /\ cells # <<>>
  BY <1>1, <1>2
<1> QED
  BY <1>2, <1>4, <1>5, <1>6 DEF Shaped, CellIndex, CellStrings, cells, written

(* The array an access finds or makes is legal.                            *)
LEMMA AccessedShaped ==
    ASSUME NEW s \in Slot, Shaped(s, arrays[s]), NEW rank
    PROVE  Shaped(s, Accessed(s, rank))
<1>1. 11 \in Nat \ {0} /\ (IF rank = 2 THEN 11 ELSE 0) \in Nat
  OBVIOUS
<1> QED
  BY <1>1, NewShaped DEF Accessed, DefaultDim

(* The strings a DIM frees are strings of the array it replaces. *)
LEMMA FreedBound ==
    ASSUME NEW s \in Slot, Shaped(s, arrays[s])
    PROVE  /\ FreedBy1D(s) \in 0..CellStrings(s, arrays[s])
           /\ FreedBy2D(s) \in 0..CellStrings(s, arrays[s])
<1> DEFINE a == arrays[s]
<1>1. /\ a.dim1 \in Nat /\ a.dim2 \in Nat /\ Len(a.cells) \in Nat
      /\ DOMAIN a.cells = 1..Len(a.cells) /\ CellStrings(s, a) \in Nat
      /\ s \in StringSlot => CellStrings(s, a) = Len(a.cells)
  BY ShapedFields
<1>2. CASE s \notin StringSlot
  BY <1>1, <1>2 DEF FreedBy1D, FreedBy2D
<1>3. CASE a.cells = <<>>
  BY <1>1, <1>3 DEF FreedBy1D, FreedBy2D, Shaped, NoArray
<1>4. CASE s \in StringSlot /\ a.cells # <<>>
  <2>1. a.dim1 \in 1..Len(a.cells)
    BY <1>1, <1>4 DEF Shaped
  <2>2. PICK d1 \in Nat, d2 \in Nat, n \in Nat :
           d1 = a.dim1 /\ d2 = a.dim2 /\ n = Len(a.cells)
    BY <1>1
  <2>3. d2 > 0 => (d1 - 1) * d2 + (d2 - 1) + 1 = n
    BY <1>4, <2>2 DEF Shaped, CellIndex
  <2>4. d1 * d2 \in 0..n
    <3>1. d1 > 0 /\ n >= 0
      BY <2>1, <2>2
    <3>2. CASE d2 = 0
      BY <3>1, <3>2
    <3>3. CASE d2 > 0
      <4>1. d1 * d2 \in Nat /\ (d1 - 1) * d2 + (d2 - 1) + 1 = d1 * d2
        BY <3>1, <3>3, Products
      <4> QED
        BY <2>3, <3>3, <4>1
    <3> QED
      BY <3>2, <3>3
  <2> QED
    BY <1>1, <1>4, <2>1, <2>2, <2>4 DEF FreedBy1D, FreedBy2D
<1> QED
  BY <1>2, <1>3, <1>4

-----------------------------------------------------------------------------
(* The inductive invariant.                                                *)

(* The strings that variables and cells own. *)
Owners == Cardinality(Slot) + Cardinality(StringCells(arrays))

ArraysLegal == DOMAIN arrays = Slot /\ \A s \in Slot : Shaped(s, arrays[s])

(* The count of strings rests on the shape of the arrays, since DIM trusts *)
(* the dimensions; a cell's value can only be pushed if it has the type.   *)
ArrayInv == Loaded /\ ArraysLegal /\ NoCellFreedTwice

(* ArraysLegal is the invariant of VMArrays, and the arrays are a function.*)
LEMMA ArraysLegalIs == ArraysLegal <=> DOMAIN arrays = Slot /\ ArraysShaped
BY DEF ArraysLegal, ArraysShaped, Shaped

(* The number of cells after one array has been replaced. *)
LEMMA CellsUpdate ==
    ASSUME NEW all, DOMAIN all = Slot, \A t \in Slot : Shaped(t, all[t]),
           NEW s \in Slot, NEW a, Shaped(s, a)
    PROVE  LET new == [all EXCEPT ![s] = a]
           IN  /\ Cardinality(StringCells(all)) \in Nat
               /\ Cardinality(StringCells(new)) \in Nat
               /\ Cardinality(StringCells(new)) = Cardinality(StringCells(all))
                      - CellStrings(s, all[s]) + CellStrings(s, a)
               /\ DOMAIN new = Slot /\ \A t \in Slot : Shaped(t, new[t])
<1> DEFINE new == [all EXCEPT ![s] = a]
<1>1. DOMAIN new = Slot /\ new[s] = a /\ \A t \in Slot \ {s} : new[t] = all[t]
  OBVIOUS
<1>2. \A t \in Slot : Shaped(t, new[t])
  BY <1>1
<1> HIDE DEF new
<1>3. StringSlot \subseteq Slot /\ IsFiniteSet(StringSlot)
  BY SlotAssumption, FS_Subset
<1>4. /\ \A t \in StringSlot : IsFiniteSet(DOMAIN all[t].cells)
      /\ \A t \in StringSlot : IsFiniteSet(DOMAIN new[t].cells)
  BY <1>2, <1>3, ShapedFields
<1>5. /\ Cardinality(StringCells(all)) \in Nat
      /\ Cardinality(StringCells(new)) \in Nat
  BY <1>3, <1>4, CellsFinite, FS_CardinalityType DEF StringCells
<1>6. CASE s \notin StringSlot
  <2>1. CellStrings(s, all[s]) = 0 /\ CellStrings(s, a) = 0
    BY <1>6 DEF CellStrings
  <2>2. \A t \in StringSlot : new[t] = all[t]
    BY <1>1, <1>3, <1>6
  <2>3. StringCells(new) = StringCells(all)
    BY <2>2 DEF StringCells
  <2> QED
    BY <1>1, <1>2, <1>5, <2>1, <2>3 DEF new
<1>7. CASE s \in StringSlot
  <2> DEFINE rest == UNION {{t} \X DOMAIN all[t].cells : t \in StringSlot \ {s}}
             rest2 == UNION {{t} \X DOMAIN new[t].cells : t \in StringSlot \ {s}}
  <2>1. \A t \in StringSlot \ {s} : new[t] = all[t]
    BY <1>1, <1>3
  <2>2. rest2 = rest
    BY <2>1
  <2>3. PICK n \in Nat : n = CellStrings(s, all[s]) /\ DOMAIN all[s].cells = 1..n
    BY <1>7, ShapedFields
  <2>4. PICK k \in Nat : k = CellStrings(s, a) /\ DOMAIN a.cells = 1..k
    BY <1>7, ShapedFields
  <2>5. /\ Cardinality(rest) \in Nat
        /\ Cardinality(StringCells(all)) = Cardinality(rest) + n
    BY <1>4, <1>7, <2>3, CellsSplit
  <2>6. Cardinality(StringCells(new)) = Cardinality(rest2) + k
    BY <1>1, <1>4, <1>7, <2>4, CellsSplit
  <2> HIDE DEF rest, rest2
  <2> QED
    BY <1>1, <1>2, <1>5, <2>2, <2>3, <2>4, <2>5, <2>6 DEF new
<1> QED
  BY <1>6, <1>7

(* The cells that hold strings are finitely many when every array has a    *)
(* block of its own shape.                                                 *)
LEMMA CellsCount ==
    ASSUME \A s \in Slot : Shaped(s, arrays[s])
    PROVE  Cardinality(StringCells(arrays)) \in Nat
<1>1. StringSlot \subseteq Slot /\ IsFiniteSet(StringSlot)
  BY SlotAssumption, FS_Subset
<1>2. \A t \in StringSlot : IsFiniteSet(DOMAIN arrays[t].cells)
  BY <1>1, ShapedFields
<1>3. IsFiniteSet(StringCells(arrays))
  BY <1>1, <1>2, CellsFinite DEF StringCells
<1> QED
  BY <1>3, FS_CardinalityType

(* The invariant says that the strings not on the stack have an owner. *)
LEMMA ArrayInvOwned ==
    ASSUME ArrayInv
    PROVE  /\ Owners \in Int /\ Owned(Owners, vm, 0) /\ InvAbove(Owners)
           /\ \A s \in Slot : Shaped(s, arrays[s])
<1>1. vm \in Machine /\ vm.stack \in Seq(Value) /\ vm.heap \in Int
  BY MachineFields DEF ArrayInv, Loaded, TypeOK
<1>2. StringsOn(vm.stack) \in Nat /\ Cardinality(Slot) \in Nat
  BY <1>1, StringsOnType, SlotCount
<1>3. Cardinality(StringCells(arrays)) \in Nat
  BY CellsCount DEF ArrayInv, ArraysLegal
<1>4. vm.heap >= Cardinality(Slot) + StringsOn(vm.stack)
                 + Cardinality(StringCells(arrays))
  BY DEF ArrayInv, NoCellFreedTwice, StringsOwned
<1>5. Owners \in Int /\ vm.heap >= Owners + StringsOn(vm.stack)
  BY <1>1, <1>2, <1>3, <1>4 DEF Owners
<1> QED
  BY <1>1, <1>2, <1>5 DEF Owned, InvAbove, ArrayInv, ArraysLegal

(* A machine that has as many strings as the new arrays need. *)
LEMMA CommitArrayInv ==
    ASSUME ArrayInv, NEW s \in Slot, NEW a, Shaped(s, a), NEW m, NEW n \in Nat,
           Owned(Owners - CellStrings(s, arrays[s]) + CellStrings(s, a), m, n),
           CommitArray(m, s, a)
    PROVE  ArrayInv'
<1>1. /\ Commit(m) /\ arrays' = [arrays EXCEPT ![s] = a]
  BY DEF CommitArray, Commit
<1>2. /\ Cardinality(StringCells(arrays)) \in Nat
      /\ Cardinality(StringCells(arrays')) \in Nat
      /\ Cardinality(StringCells(arrays')) = Cardinality(StringCells(arrays))
             - CellStrings(s, arrays[s]) + CellStrings(s, a)
      /\ DOMAIN arrays' = Slot /\ \A t \in Slot : Shaped(t, arrays'[t])
  BY <1>1, CellsUpdate DEF ArrayInv, ArraysLegal
<1>3. /\ Cardinality(Slot) \in Nat
      /\ CellStrings(s, arrays[s]) \in Nat /\ CellStrings(s, a) \in Nat
  BY SlotCount, ShapedFields DEF ArrayInv, ArraysLegal
<1>4. PICK c \in Int : c = Owners - CellStrings(s, arrays[s]) + CellStrings(s, a)
  BY <1>2, <1>3 DEF Owners
<1>5. c = Cardinality(Slot) + Cardinality(StringCells(arrays'))
  BY <1>2, <1>3, <1>4 DEF Owners
<1>6. InvAbove(c)'
  BY <1>1, <1>4, CommitAbove DEF ArrayInv
<1>7. Loaded' /\ vm'.heap >= c + StringsOn(vm'.stack)
  BY <1>6 DEF InvAbove
<1>8. vm'.heap \in Int /\ StringsOn(vm'.stack) \in Nat
  BY <1>7, MachineFields, StringsOnType DEF Loaded, TypeOK
<1>9. vm'.heap >= Cardinality(Slot) + StringsOn(vm'.stack)
                  + Cardinality(StringCells(arrays'))
  BY <1>2, <1>3, <1>5, <1>7, <1>8
<1>10. NoCellFreedTwice'
  BY <1>9 DEF NoCellFreedTwice, StringsOwned, StringCells
<1>11. ArraysLegal'
  BY <1>2 DEF ArraysLegal, Shaped, ArrayData, CellIndex
<1> QED
  BY <1>7, <1>10, <1>11 DEF ArrayInv

-----------------------------------------------------------------------------
(* The primitives of VMArrays.                                             *)

CellWeight(s) == IF s \in StringSlot THEN 1 ELSE 0

(* Strings allocated, or freed, for as many new owners, or old ones. *)
LEMMA ShiftOwned ==
    ASSUME NEW c \in Int, NEW m, NEW n \in Int, Owned(c, m, n), NEW d \in Int
    PROVE  Owned(c + d, [m EXCEPT !.heap = @ + d], n)
<1>1. m \in Machine /\ m.heap \in Int /\ StringsOn(m.stack) \in Nat
  BY MachineFields, StringsOnType DEF Owned
<1>2. m.heap + d \in Int
  BY <1>1
<1>3. [m EXCEPT !.heap = m.heap + d] \in Machine
  BY <1>1, <1>2, FieldType
<1>4. /\ [m EXCEPT !.heap = m.heap + d].heap = m.heap + d
      /\ [m EXCEPT !.heap = m.heap + d].stack = m.stack
  BY <1>1 DEF Machine
<1>5. [m EXCEPT !.heap = @ + d] = [m EXCEPT !.heap = m.heap + d]
  OBVIOUS
<1> QED
  BY <1>1, <1>3, <1>4, <1>5 DEF Owned

(* A value of the type of an array's cells is popped, freed or pushed. *)
LEMMA CellOwned ==
    ASSUME NEW c \in Int, NEW m, NEW n \in Int, Owned(c, m, n), NEW s \in Slot
    PROVE  /\ Owned(c, vm_pop_cell(m, s).m, n + CellWeight(s))
           /\ vm_pop_cell(m, s).v \in CellType(s)
           /\ Owned(c, FreeCell(m, s), n - CellWeight(s))
           /\ \A v \in CellType(s) : Owned(c, vm_push_cell(m, s, v), n)
<1>1. CASE s \in StringSlot
  <2>1. Owned(c, vm_pop_string(m).m, n + 1) /\ vm_pop_string(m).v \in Text
    BY PopStringOwned
  <2>2. Owned(c, Free(m), n - 1)
    BY AllocOwned
  <2>3. \A v \in Text : Owned(c, vm_push_string(m, v), n)
    BY PushStringOwned
  <2> QED
    BY <1>1, <2>1, <2>2, <2>3
       DEF CellWeight, CellType, vm_pop_cell, vm_push_cell, FreeCell
<1>2. CASE s \notin StringSlot
  <2>1. Owned(c, vm_pop_number(m).m, n) /\ vm_pop_number(m).v \in Number
    BY PopNumberOwned
  <2>2. \A v \in Number : Owned(c, vm_push_number(m, v), n)
    BY PushNumberOwned
  <2>3. n + 0 = n /\ n - 0 = n
    OBVIOUS
  <2> QED
    BY <1>2, <2>1, <2>2, <2>3
       DEF CellWeight, CellType, vm_pop_cell, vm_push_cell, FreeCell
<1> QED
  BY <1>1, <1>2

(* The error for a subscript out of range frees no string that is owned.   *)
LEMMA SubscriptErrorOwned ==
    ASSUME NEW c \in Int, NEW m, NEW n \in Int, Owned(c, m, n)
    PROVE  Owned(c, SubscriptError(m), n)
<1>1. Owned(c, vm_error(m, ERR_SUBSCRIPT_RANGE), n)
  BY ErrorOwned DEF ErrorCode
<1> QED
  BY <1>1, AdvanceOwned DEF SubscriptError

(* The count of owners after s has got the array that its first access     *)
(* makes, and the strings allocated for it.                                *)
LEMMA AutoAllocOwned ==
    ASSUME ArrayInv, NEW s \in Slot, NEW a, Shaped(s, a),
           NEW m, NEW n \in Int, Owned(Owners, m, n)
    PROVE  /\ Owners - CellStrings(s, arrays[s]) + CellStrings(s, a) \in Int
           /\ Owned(Owners - CellStrings(s, arrays[s]) + CellStrings(s, a),
                    AutoAlloc(m, s, a), n)
<1>1. PICK new \in Nat, old \in Nat :
         new = CellStrings(s, a) /\ old = CellStrings(s, arrays[s])
  BY ArrayInvOwned, ShapedFields
<1>2. Owners \in Int
  BY ArrayInvOwned
<1>3. m.heap \in Int
  BY MachineFields DEF Owned
<1>4. PICK d \in Int : d = new - old
  BY <1>1
<1>5. Owners - old + new = Owners + d
  BY <1>1, <1>2, <1>4
<1>6. m.heap + new - old = m.heap + d
  BY <1>1, <1>3, <1>4
<1>7. AutoAlloc(m, s, a) = [m EXCEPT !.heap = m.heap + new - old]
  BY <1>1 DEF AutoAlloc
<1>8. AutoAlloc(m, s, a) = [m EXCEPT !.heap = @ + d]
  BY <1>6, <1>7
<1>9. Owned(Owners + d, [m EXCEPT !.heap = @ + d], n)
  BY <1>2, ShiftOwned
<1> QED
  BY <1>1, <1>2, <1>5, <1>8, <1>9

-----------------------------------------------------------------------------
(* The handlers, on any operands.                                          *)

(* The operand of an array instruction is a slot of its kind.              *)
LEMMA ArrayOperand ==
    ASSUME Loaded, CanExecute
    PROVE  /\ Inst.op \in ArrayOps => Inst.arg \in Slot
           /\ Inst.op \in NumArrayOps => Inst.arg \notin StringSlot
           /\ Inst.op \in StrArrayOps => Inst.arg \in StringSlot
<1>1. OperandOK(prog, vm.pc + 1) /\ Inst = prog.code[vm.pc + 1]
  BY InstOperand DEF Inst
<1> QED
  BY <1>1, SlotAssumption DEF OperandOK, ArrayOps

(* A read: the value pushed is a copy, and the array keeps its own. *)
LEMMA GetCellInv ==
    ASSUME ArrayInv, NEW s \in Slot, NEW a, Shaped(s, a),
           NEW m, Owned(Owners, m, 0), NEW inside, NEW i,
           inside => i \in DOMAIN a.cells,
           GetCell(AutoAlloc(m, s, a), s, a, inside, i)
    PROVE  ArrayInv'
<1> DEFINE made == AutoAlloc(m, s, a)
           c == Owners - CellStrings(s, arrays[s]) + CellStrings(s, a)
<1>1. c \in Int /\ Owned(c, made, 0)
  BY AutoAllocOwned
<1> HIDE DEF made, c
<1>2. CASE inside
  <2>1. a.cells[i] \in CellType(s)
    BY <1>2, ShapedFields
  <2>2. Owned(c, vm_push_cell(made, s, a.cells[i]), 0)
    BY <1>1, <2>1, CellOwned
  <2>3. Owned(c, Advance(vm_push_cell(made, s, a.cells[i])), 0)
    BY <1>1, <2>2, AdvanceOwned
  <2>4. CommitArray(Advance(vm_push_cell(made, s, a.cells[i])), s, a)
    BY <1>2 DEF GetCell, made
  <2> QED
    BY <2>3, <2>4, CommitArrayInv DEF c
<1>3. CASE ~inside
  <2>1. Owned(c, SubscriptError(made), 0)
    BY <1>1, SubscriptErrorOwned
  <2>2. CommitArray(SubscriptError(made), s, a)
    BY <1>3 DEF GetCell, made
  <2> QED
    BY <2>1, <2>2, CommitArrayInv DEF c
<1> QED
  BY <1>2, <1>3

(* A write: the value takes the place of the one the cell owned, or is     *)
(* freed; caught by a trap, it is neither (a leak).                        *)
LEMMA SetCellInv ==
    ASSUME ArrayInv, NEW s \in Slot, NEW a, Shaped(s, a),
           NEW m, Owned(Owners, m, CellWeight(s)), NEW inside, NEW i,
           inside => i \in DOMAIN a.cells, NEW v \in CellType(s),
           SetCell(AutoAlloc(m, s, a), s, a, inside, i, v)
    PROVE  ArrayInv'
<1> DEFINE made == AutoAlloc(m, s, a)
           c == Owners - CellStrings(s, arrays[s]) + CellStrings(s, a)
           failed == SubscriptError(made)
           written == [a EXCEPT !.cells[i] = v]
<1>1. CellWeight(s) \in Nat /\ CellWeight(s) - CellWeight(s) = 0
  BY DEF CellWeight
<1>2. c \in Int /\ Owned(c, made, CellWeight(s))
  BY <1>1, AutoAllocOwned
<1>3. Owned(c, FreeCell(made, s), 0)
  BY <1>1, <1>2, CellOwned
<1>4. Owned(c, failed, CellWeight(s))
  BY <1>1, <1>2, SubscriptErrorOwned
<1>5. Owned(c, FreeCell(failed, s), 0)
  BY <1>1, <1>2, <1>4, CellOwned
<1>6. CASE inside
  <2>1. Shaped(s, written) /\ CellStrings(s, written) = CellStrings(s, a)
    BY <1>6, WriteShaped
  <2>2. CommitArray(Advance(FreeCell(made, s)), s, written)
    BY <1>6 DEF SetCell
  <2> HIDE DEF made, written
  <2>3. Owned(c, Advance(FreeCell(made, s)), 0)
    BY <1>2, <1>3, AdvanceOwned
  <2> QED
    BY <2>1, <2>2, <2>3, CommitArrayInv
<1>7. CASE ~inside
  <2>1. \/ CommitArray(failed, s, a) \/ CommitArray(FreeCell(failed, s), s, a)
    BY <1>7 DEF SetCell
  <2> HIDE DEF failed
  <2> QED
    BY <1>1, <1>4, <1>5, <2>1, CommitArrayInv
<1> QED
  BY <1>6, <1>7

(* DIM frees no more strings than the old array had, and allocates those   *)
(* of the new one.                                                         *)
LEMMA RedimensionInv ==
    ASSUME ArrayInv, NEW s \in Slot, NEW a, Shaped(s, a),
           NEW freed \in 0..CellStrings(s, arrays[s]),
           NEW m, Owned(Owners, m, 0), Redimension(m, s, freed, a)
    PROVE  ArrayInv'
<1>1. PICK new \in Nat, old \in Nat :
         new = CellStrings(s, a) /\ old = CellStrings(s, arrays[s])
  BY ArrayInvOwned, ShapedFields
<1>2. Owners \in Int /\ m.heap \in Int /\ freed \in Nat /\ freed <= old
  BY <1>1, ArrayInvOwned, MachineFields DEF Owned
<1>3. PICK d \in Int : d = new - freed
  BY <1>1, <1>2
<1> DEFINE changed == [m EXCEPT !.heap = @ - freed + CellStrings(s, a)]
<1>4. changed = [m EXCEPT !.heap = @ + d]
  <2>1. m.heap - freed + new = m.heap + d
    BY <1>1, <1>2, <1>3
  <2> QED
    BY <1>1, <2>1
<1>5. Owned(Owners + d, changed, 0)
  BY <1>2, <1>4, ShiftOwned
<1>6. Owned(Owners + d, Advance(changed), 0)
  BY <1>2, <1>5, AdvanceOwned
<1>7. Owners - old + new \in Int /\ Owned(Owners - old + new, Advance(changed), 0)
  <2>1. Owners - old + new <= Owners + d
    BY <1>1, <1>2, <1>3
  <2>2. Advance(changed).heap \in Int /\ StringsOn(Advance(changed).stack) \in Nat
    BY <1>6, MachineFields, StringsOnType DEF Owned
  <2> HIDE DEF changed
  <2> QED
    BY <1>1, <1>2, <1>6, <2>1, <2>2 DEF Owned
<1>8. CommitArray(Advance(changed), s, a)
  BY DEF Redimension
<1> HIDE DEF changed
<1> QED
  BY <1>1, <1>7, <1>8, CommitArrayInv

(* The two DIMs keep the invariant, whatever sizes they pop.               *)
LEMMA DimInv ==
    ASSUME ArrayInv, OP_DIM_1D \/ OP_DIM_2D
    PROVE  ArrayInv'
<1> DEFINE s == Inst.arg
           b == vm_pop_number(vm)
           a == vm_pop_number(b.m)
<1>1. Owners \in Int /\ Owned(Owners, b.m, 0) /\ b.v \in Int
  BY ArrayInvOwned, PopNumberOwned
<1>2. Owned(Owners, a.m, 0) /\ a.v \in Int
  BY <1>1, PopNumberOwned
<1>3. s \in Slot
  BY ArrayOperand DEF ArrayInv, OP_DIM_1D, OP_DIM_2D, Executing, ArrayOps, DimOps
<1>4. Shaped(s, arrays[s])
  BY <1>3, ArrayInvOwned
<1>5. /\ FreedBy1D(s) \in 0..CellStrings(s, arrays[s])
      /\ FreedBy2D(s) \in 0..CellStrings(s, arrays[s])
  BY <1>3, <1>4, FreedBound
<1>6. CASE OP_DIM_1D
  <2>1. b.v >= 0 /\ Redimension(b.m, s, FreedBy1D(s), NewArray(s, b.v + 1, 0))
    BY <1>6 DEF OP_DIM_1D
  <2>2. b.v + 1 \in Nat \ {0}
    BY <1>1, <2>1
  <2>3. Shaped(s, NewArray(s, b.v + 1, 0))
    BY <1>3, <2>2, NewShaped
  <2> HIDE DEF b, s
  <2> QED
    BY <1>1, <1>3, <1>5, <2>1, <2>3, RedimensionInv
<1>7. CASE OP_DIM_2D
  <2>1. /\ a.v >= 0 /\ b.v >= 0
        /\ Redimension(a.m, s, FreedBy2D(s), NewArray(s, a.v + 1, b.v + 1))
    BY <1>7 DEF OP_DIM_2D
  <2>2. a.v + 1 \in Nat \ {0} /\ b.v + 1 \in Nat
    BY <1>1, <1>2, <2>1
  <2>3. Shaped(s, NewArray(s, a.v + 1, b.v + 1))
    BY <1>3, <2>2, NewShaped
  <2> HIDE DEF a, b, s
  <2> QED
    BY <1>2, <1>3, <1>5, <2>1, <2>3, RedimensionInv
<1> QED
  BY <1>6, <1>7

(* The reads keep the invariant, with one subscript or two.                *)
LEMMA ArrayGetInv ==
    ASSUME ArrayInv, OP_ARRAY_GET_1D \/ OP_ARRAY_GET_2D
    PROVE  ArrayInv'
<1> DEFINE s == Inst.arg
           b == vm_pop_number(vm)
           a == vm_pop_number(b.m)
           one == Accessed(s, 1)
           two == Accessed(s, 2)
<1>1. Owners \in Int /\ Owned(Owners, b.m, 0) /\ b.v \in Int
  BY ArrayInvOwned, PopNumberOwned
<1>2. Owned(Owners, a.m, 0) /\ a.v \in Int
  BY <1>1, PopNumberOwned
<1>3. s \in Slot
  BY ArrayOperand DEF ArrayInv, OP_ARRAY_GET_1D, OP_ARRAY_GET_2D, ExecutingOneOf,
     ArrayOps, NumArrayOps, StrArrayOps, NumGetOps, StrGetOps
<1>4. Shaped(s, one) /\ Shaped(s, two)
  BY <1>3, ArrayInvOwned, AccessedShaped
<1>5. CASE OP_ARRAY_GET_1D
  <2>1. GetCell(AutoAlloc(b.m, s, one), s, one, Inside(b.v, one.dim1), b.v + 1)
    BY <1>5 DEF OP_ARRAY_GET_1D
  <2> HIDE DEF b, s, one
  <2>2. Inside(b.v, one.dim1) => b.v + 1 \in DOMAIN one.cells
    BY <1>1, <1>4, InsideIsCell
  <2> QED
    BY <1>1, <1>3, <1>4, <2>1, <2>2, GetCellInv
<1>6. CASE OP_ARRAY_GET_2D
  <2>1. GetCell(AutoAlloc(a.m, s, two), s, two,
                Inside(a.v, two.dim1) /\ Inside(b.v, two.dim2),
                CellIndex(two, a.v, b.v))
    BY <1>6 DEF OP_ARRAY_GET_2D
  <2> HIDE DEF a, b, s, two
  <2>2. Inside(a.v, two.dim1) /\ Inside(b.v, two.dim2)
           => CellIndex(two, a.v, b.v) \in DOMAIN two.cells
    BY <1>1, <1>2, <1>4, InsideIsCell
  <2> QED
    BY <1>2, <1>3, <1>4, <2>1, <2>2, GetCellInv
<1> QED
  BY <1>5, <1>6

(* The writes keep the invariant, also with too few operands.              *)
LEMMA ArraySetInv ==
    ASSUME ArrayInv, OP_ARRAY_SET_1D \/ OP_ARRAY_SET_2D
    PROVE  ArrayInv'
<1> DEFINE s == Inst.arg
           w == CellWeight(s)
           value == vm_pop_cell(vm, s)
           b == vm_pop_number(value.m)
           a == vm_pop_number(b.m)
           one == Accessed(s, 1)
           two == Accessed(s, 2)
<1>1. s \in Slot /\ w \in Nat
  BY ArrayOperand DEF ArrayInv, OP_ARRAY_SET_1D, OP_ARRAY_SET_2D, ExecutingOneOf,
     ArrayOps, NumArrayOps, StrArrayOps, NumSetOps, StrSetOps, CellWeight
<1>2. Owners \in Int /\ Owned(Owners, vm, 0)
  BY ArrayInvOwned
<1>3. Owned(Owners, value.m, w) /\ value.v \in CellType(s)
  <2>1. Owned(Owners, value.m, 0 + w) /\ value.v \in CellType(s)
    BY <1>1, <1>2, CellOwned
  <2> QED
    BY <1>1, <2>1
<1>4. Owned(Owners, b.m, w) /\ b.v \in Int
  BY <1>1, <1>2, <1>3, PopNumberOwned
<1>5. Owned(Owners, a.m, w) /\ a.v \in Int
  BY <1>1, <1>2, <1>4, PopNumberOwned
<1>6. Shaped(s, arrays[s]) /\ Shaped(s, one) /\ Shaped(s, two)
  BY <1>1, ArrayInvOwned, AccessedShaped
<1>7. CASE OP_ARRAY_SET_1D
  <2>1. CASE Len(vm.stack) < 2
    <3>1. CommitArray(vm_error(vm, ERR_OVERFLOW), s, arrays[s])
      BY <1>7, <2>1 DEF OP_ARRAY_SET_1D
    <3>2. Owned(Owners, vm_error(vm, ERR_OVERFLOW), 0)
      BY <1>2, ErrorOwned DEF ErrorCode
    <3>3. PICK n \in Nat : n = CellStrings(s, arrays[s])
      BY <1>6, ShapedFields
    <3>4. Owners - n + n = Owners
      BY <1>2, <3>3
    <3> QED
      BY <1>1, <1>6, <3>1, <3>2, <3>3, <3>4, CommitArrayInv
  <2>2. CASE ~(Len(vm.stack) < 2)
    <3>1. SetCell(AutoAlloc(b.m, s, one), s, one, Inside(b.v, one.dim1),
                  b.v + 1, value.v)
      BY <1>7, <2>2 DEF OP_ARRAY_SET_1D
    <3> HIDE DEF b, s, one, value
    <3>2. Inside(b.v, one.dim1) => b.v + 1 \in DOMAIN one.cells
      BY <1>4, <1>6, InsideIsCell
    <3> QED
      BY <1>1, <1>3, <1>4, <1>6, <3>1, <3>2, SetCellInv
  <2> QED
    BY <2>1, <2>2
<1>8. CASE OP_ARRAY_SET_2D
  <2>1. SetCell(AutoAlloc(a.m, s, two), s, two,
                Inside(a.v, two.dim1) /\ Inside(b.v, two.dim2),
                CellIndex(two, a.v, b.v), value.v)
    BY <1>8 DEF OP_ARRAY_SET_2D
  <2> HIDE DEF a, b, s, two, value
  <2>2. Inside(a.v, two.dim1) /\ Inside(b.v, two.dim2)
           => CellIndex(two, a.v, b.v) \in DOMAIN two.cells
    BY <1>4, <1>5, <1>6, InsideIsCell
  <2> QED
    BY <1>1, <1>3, <1>5, <1>6, <2>1, <2>2, SetCellInv
<1> QED
  BY <1>7, <1>8

(* CLR keeps the strings of the variables, and forgets the arrays. *)
LEMMA ClrInv ==
    ASSUME ArrayInv, OP_CLR
    PROVE  ArrayInv'
<1> DEFINE half == [vm EXCEPT !.numVars = [s \in Slot |-> 0]]
           k == [half EXCEPT !.strVars = [s \in Slot |-> <<>>]]
<1>1. vm \in Machine /\ Owners \in Int /\ Owned(Owners, vm, 0)
  BY ArrayInvOwned DEF ArrayInv, Loaded, TypeOK
<1>2. half \in Machine
  <2>1. [s \in Slot |-> 0] \in [Slot -> Number]
    BY ZeroIsNumber
  <2> QED
    BY <1>1, <2>1, FieldType
<1>3. k \in Machine
  <2>1. <<>> \in Text
    BY DEF Text
  <2>2. [s \in Slot |-> <<>>] \in [Slot -> Text]
    BY <2>1
  <2> HIDE DEF half
  <2> QED
    BY <1>2, <2>2, FieldType
<1>4. k.heap = vm.heap /\ k.stack = vm.stack
  BY <1>1 DEF Machine
<1>5. k = [vm EXCEPT !.numVars = [s \in Slot |-> 0], !.strVars = [s \in Slot |-> <<>>]]
  OBVIOUS
<1>6. Commit(Advance(k)) /\ arrays' = [s \in Slot |-> NoArray]
  BY <1>5 DEF OP_CLR, Commit
<1> HIDE DEF half, k
<1>7. Owned(Owners, Advance(k), 0)
  BY <1>1, <1>3, <1>4, FrameOwned, AdvanceOwned
<1>8. PICK c \in Int : c = Owners
  BY <1>1
<1>9. InvAbove(c)'
  BY <1>6, <1>7, <1>8, CommitAbove DEF ArrayInv
<1>10. Loaded' /\ vm'.heap >= c + StringsOn(vm'.stack)
  BY <1>9 DEF InvAbove
<1>11. vm'.heap \in Int /\ StringsOn(vm'.stack) \in Nat
  BY <1>10, MachineFields, StringsOnType DEF Loaded, TypeOK
<1>12. ArraysLegal'
  BY <1>6, NewShaped DEF ArraysLegal, Shaped, ArrayData, CellIndex
<1>13. Cardinality(StringCells(arrays')) = 0
  <2>1. StringSlot \subseteq Slot /\ DOMAIN NoArray.cells = {}
    BY SlotAssumption DEF NoArray
  <2>2. \A s \in StringSlot : arrays'[s] = NoArray
    BY <1>6, <2>1
  <2>3. StringCells(arrays') = {}
    BY <2>1, <2>2 DEF StringCells
  <2> QED
    BY <2>3, FS_EmptySet
<1>14. c >= Cardinality(Slot) /\ Cardinality(Slot) \in Nat
  <2>1. Cardinality(StringCells(arrays)) \in Nat
    BY CellsCount DEF ArrayInv, ArraysLegal
  <2> QED
    BY <1>8, <2>1, SlotCount DEF Owners
<1>15. vm'.heap >= Cardinality(Slot) + StringsOn(vm'.stack) + 0
  BY <1>10, <1>11, <1>14
<1>16. NoCellFreedTwice'
  BY <1>13, <1>15 DEF NoCellFreedTwice, StringsOwned, StringCells
<1> QED
  BY <1>10, <1>12, <1>16 DEF ArrayInv

-----------------------------------------------------------------------------
(* The machine with arrays, on any program.                                *)

(* No array has been declared when a program is loaded.                    *)
LEMMA ArrayInitInv == ArrayInit => ArrayInv
<1> SUFFICES ASSUME ArrayInit PROVE ArrayInv
  OBVIOUS
<1>1. IInv /\ arrays = [s \in Slot |-> NoArray]
  BY InitInv DEF ArrayInit
<1>2. vm.heap >= Cardinality(Slot) + StringsOn(vm.stack) /\ Loaded
  BY <1>1 DEF IInv, NoDoubleFree
<1>3. vm.heap \in Int /\ StringsOn(vm.stack) \in Nat
  BY <1>2, MachineFields, StringsOnType DEF Loaded, TypeOK
<1>4. Cardinality(StringCells(arrays)) = 0
  <2>1. StringSlot \subseteq Slot /\ DOMAIN NoArray.cells = {}
    BY SlotAssumption DEF NoArray
  <2>2. \A s \in StringSlot : arrays[s] = NoArray
    BY <1>1, <2>1
  <2>3. StringCells(arrays) = {}
    BY <2>1, <2>2 DEF StringCells
  <2> QED
    BY <2>3, FS_EmptySet
<1>5. NoCellFreedTwice
  BY <1>2, <1>3, <1>4, SlotCount DEF NoCellFreedTwice, StringsOwned
<1>6. ArraysLegal
  BY <1>1, NewShaped DEF ArraysLegal
<1> QED
  BY <1>2, <1>5, <1>6 DEF ArrayInv

(* An instruction that is not about arrays keeps what the cells own.       *)
LEMMA OtherStepInv ==
    ASSUME ArrayInv, [Next]_vars, arrays' = arrays
    PROVE  ArrayInv'
<1>1. PICK c \in Int : c = Owners
  BY ArrayInvOwned
<1>2. InvAbove(c)
  BY <1>1, ArrayInvOwned
<1>3. InvAbove(c)'
  BY <1>2, NextAbove
<1>4. Loaded' /\ vm'.heap >= c + StringsOn(vm'.stack)
  BY <1>3 DEF InvAbove
<1>5. vm'.heap \in Int /\ StringsOn(vm'.stack) \in Nat
  BY <1>4, MachineFields, StringsOnType DEF Loaded, TypeOK
<1>6. Cardinality(StringCells(arrays)) \in Nat
  BY CellsCount DEF ArrayInv, ArraysLegal
<1>7. vm'.heap >= Cardinality(Slot) + StringsOn(vm'.stack)
                  + Cardinality(StringCells(arrays))
  BY <1>1, <1>4, <1>5, <1>6, SlotCount DEF Owners
<1>8. NoCellFreedTwice'
  BY <1>7 DEF NoCellFreedTwice, StringsOwned, StringCells
<1>9. ArraysLegal'
  BY DEF ArrayInv, ArraysLegal, Shaped, ArrayData, CellIndex
<1> QED
  BY <1>4, <1>8, <1>9 DEF ArrayInv

(* Every instruction keeps the invariant. *)
LEMMA ArrayNextInv == ArrayInv /\ [ArrayNext]_arrayVars => ArrayInv'
<1> SUFFICES ASSUME ArrayInv, [ArrayNext]_arrayVars PROVE ArrayInv'
  OBVIOUS
<1>1. CASE ArrayStep
  BY <1>1, DimInv, ArrayGetInv, ArraySetInv, ClrInv DEF ArrayStep
<1>2. CASE Next /\ UNCHANGED arrays
  BY <1>2, OtherStepInv
<1>3. CASE UNCHANGED arrayVars
  BY <1>3, OtherStepInv DEF arrayVars, vars
<1> QED
  BY <1>1, <1>2, <1>3 DEF ArrayNext

(* The inductive invariant, for every program. *)
THEOREM ArrayInvariantHolds == ArraySpec => []ArrayInv
BY ArrayInitInv, ArrayNextInv, PTL DEF ArraySpec

(* The machine with arrays keeps its type. *)
THEOREM ArraysTypeCorrect == ArraySpec => []TypeOK
<1>1. ArrayInv => TypeOK
  BY DEF ArrayInv, Loaded
<1> QED
  BY <1>1, ArrayInvariantHolds, PTL

(* Dimensions and block agree: what the bounds tests of the eight access   *)
(* opcodes let through is a cell, after any sequence of DIMs, CLRs and     *)
(* first accesses, and for ill-typed programs as well.                     *)
THEOREM ArraysKeepShape == ArraySpec => []ArraysShaped
<1>1. ArrayInv => ArraysShaped
  BY ArraysLegalIs DEF ArrayInv
<1> QED
  BY <1>1, ArrayInvariantHolds, PTL

(* No string is freed while the stack, a variable or a cell owns it.       *)
THEOREM CellsNeverFreedTwice == ArraySpec => []NoCellFreedTwice
<1>1. ArrayInv => NoCellFreedTwice
  BY DEF ArrayInv
<1> QED
  BY <1>1, ArrayInvariantHolds, PTL


-----------------------------------------------------------------------------
(* The verifier's rules for the array opcodes.                             *)

LEMMA ArrayTakes ==
    ASSUME NEW op, NEW s, Takes(op, s)
    PROVE  /\ op \in DimOps \cup NumGetOps \cup StrGetOps => SubscriptsOn(s, Rank(op))
           /\ op \in NumSetOps => TopIs(s, "num") /\ SubscriptsOn(Below(s), Rank(op))
           /\ op \in StrSetOps => TopIs(s, "str") /\ SubscriptsOn(Below(s), Rank(op))
BY DEF Takes, PushNumOps, PushStrOps, TakeNumOps, UnaryOps, BinaryOps, CompareOps,
       StrToNumOps, NumToStrOps, SliceOps, NoEffectOps, DimOps, NumGetOps,
       StrGetOps, NumSetOps, StrSetOps, IOOps, IOPlainOps, IONumOps, IOPairOps

LEMMA ArrayLeaves ==
    ASSUME NEW op, NEW s
    PROVE  /\ op \in DimOps => Leaves(op, s) = BelowSubscripts(s, Rank(op))
           /\ op \in NumGetOps =>
                 Leaves(op, s) = Above(BelowSubscripts(s, Rank(op)), "num")
           /\ op \in StrGetOps =>
                 Leaves(op, s) = Above(BelowSubscripts(s, Rank(op)), "str")
           /\ op \in NumSetOps \cup StrSetOps =>
                 Leaves(op, s) = BelowSubscripts(Below(s), Rank(op))
BY DEF Leaves, PushNumOps, PushStrOps, TakeNumOps, UnaryOps, BinaryOps, CompareOps,
       StrToNumOps, NumToStrOps, SliceOps, NoEffectOps, DimOps, NumGetOps,
       StrGetOps, NumSetOps, StrSetOps, IOOps, IOPlainOps, IONumOps, IOPairOps

-----------------------------------------------------------------------------
(* The operands.                                                           *)

(* The handler has popped j operands, reached m, whose stack has shape s,  *)
(* and holds strings we need not count here.                               *)
Popped(m, s, j) ==
    /\ j \in Nat /\ j <= Len(vm.stack)
    /\ m.stack = SubSeq(vm.stack, 1, Len(vm.stack) - j)
    /\ \E n \in Int : Follows(m, vm, s, n)

LEMMA PoppedNone ==
    ASSUME SoundInv
    PROVE  Popped(vm, Types(vm.stack), 0)
<1>1. vm \in Machine /\ vm.stack \in Seq(Value)
  BY MachineFields DEF SoundInv, Loaded, TypeOK
<1>2. Follows(vm, vm, Types(vm.stack), 0)
  BY <1>1, FollowsSelf
<1>3. vm.stack = SubSeq(vm.stack, 1, Len(vm.stack) - 0)
  BY <1>1
<1> QED
  BY <1>1, <1>2, <1>3 DEF Popped

(* The operand on top. *)
LEMMA PopAt ==
    ASSUME SoundInv, NEW m, NEW s, NEW j, Popped(m, s, j), s # <<>>
    PROVE  /\ vm_pop(m).v = vm.stack[Len(vm.stack) - j]
           /\ vm_pop(m).v \in Value /\ vm_pop(m).v.type = s[Len(s)]
           /\ Popped(vm_pop(m).m, Below(s), j + 1)
<1>1. PICK n \in Int : Follows(m, vm, s, n)
  BY DEF Popped
<1>2. /\ vm_pop(m).v \in Value /\ vm_pop(m).v.type = s[Len(s)]
      /\ Follows(vm_pop(m).m, vm, Below(s), n + Weight(vm_pop(m).v))
  BY <1>1, PopFollows
<1>3. n + Weight(vm_pop(m).v) \in Int
  BY <1>1 DEF Weight
<1>4. /\ m \in Machine /\ m.stack \in Seq(Value) /\ m.stack # <<>>
      /\ vm.stack \in Seq(Value) /\ Len(vm.stack) \in Nat
      /\ j \in Nat /\ j <= Len(vm.stack)
      /\ m.stack = SubSeq(vm.stack, 1, Len(vm.stack) - j)
  <2>1. m \in Machine /\ vm \in Machine
    BY <1>1 DEF Follows
  <2>2. m.stack \in Seq(Value) /\ m.stack # <<>>
    BY <1>1, FollowsType
  <2>3. vm.stack \in Seq(Value) /\ Len(vm.stack) \in Nat
    BY <2>1, MachineFields
  <2> QED
    BY <2>1, <2>2, <2>3 DEF Popped
<1>5. Len(m.stack) = Len(vm.stack) - j /\ Len(m.stack) > 0
  BY <1>4
<1>6. vm_pop(m).v = m.stack[Len(m.stack)]
  BY <1>4 DEF vm_pop
<1>7. vm_pop(m).v = vm.stack[Len(vm.stack) - j]
  BY <1>4, <1>5, <1>6
<1>8. vm_pop(m).m.stack = SubSeq(m.stack, 1, Len(m.stack) - 1)
  BY <1>4 DEF vm_pop, Machine
<1>9. SubSeq(m.stack, 1, Len(m.stack) - 1) = SubSeq(vm.stack, 1, Len(vm.stack) - (j + 1))
  BY <1>4, <1>5
<1>10. j + 1 \in Nat /\ j + 1 <= Len(vm.stack)
  BY <1>4, <1>5
<1> QED
  BY <1>2, <1>3, <1>7, <1>8, <1>9, <1>10 DEF Popped

LEMMA PopNumberAt ==
    ASSUME SoundInv, NEW m, NEW s, NEW j, Popped(m, s, j), TopIs(s, "num")
    PROVE  /\ vm_pop_number(m).v = Operand(j) /\ vm_pop_number(m).v \in Int
           /\ vm_pop_number(m).v \in Number
           /\ Popped(vm_pop_number(m).m, Below(s), j + 1)
<1>1. /\ vm_pop(m).v = vm.stack[Len(vm.stack) - j] /\ vm_pop(m).v.type = "num"
      /\ Popped(vm_pop(m).m, Below(s), j + 1)
  BY PopAt DEF TopIs
<1>2. vm_pop_number(m) = [m |-> vm_pop(m).m, v |-> vm_pop(m).v.num]
  BY <1>1 DEF vm_pop_number
<1>3. vm_pop_number(m).v = Operand(j)
  BY <1>1, <1>2 DEF Operand
<1>4. vm_pop_number(m).v \in Number /\ vm_pop_number(m).v \in Int
  BY PopNumberFollows DEF Popped
<1> QED
  BY <1>1, <1>2, <1>3, <1>4

LEMMA PopStringAt ==
    ASSUME SoundInv, NEW m, NEW s, NEW j, Popped(m, s, j), TopIs(s, "str")
    PROVE  /\ vm_pop_string(m).v = Operand(j) /\ vm_pop_string(m).v \in Text
           /\ Popped(vm_pop_string(m).m, Below(s), j + 1)
<1>1. /\ vm_pop(m).v = vm.stack[Len(vm.stack) - j] /\ vm_pop(m).v.type = "str"
      /\ Popped(vm_pop(m).m, Below(s), j + 1)
  BY PopAt DEF TopIs
<1>2. vm_pop_string(m) = [m |-> vm_pop(m).m, v |-> vm_pop(m).v.str]
  BY <1>1 DEF vm_pop_string
<1>3. vm_pop_string(m).v = Operand(j)
  BY <1>1, <1>2 DEF Operand
<1>4. vm_pop_string(m).v \in Text
  BY PopStringFollows DEF Popped
<1> QED
  BY <1>1, <1>2, <1>3, <1>4

(* The type of an operand that is stored in, or loaded from, the array.    *)
CellTag(slot) == IF slot \in StringSlot THEN "str" ELSE "num"

LEMMA PopCellAt ==
    ASSUME SoundInv, NEW slot, NEW s, NEW m, NEW j, Popped(m, s, j),
           TopIs(s, CellTag(slot))
    PROVE  /\ vm_pop_cell(m, slot).v = Operand(j)
           /\ vm_pop_cell(m, slot).v \in CellType(slot)
           /\ Popped(vm_pop_cell(m, slot).m, Below(s), j + 1)
BY PopNumberAt, PopStringAt DEF CellTag, CellType, vm_pop_cell

(* One subscript or two. *)
LEMMA SubscriptsAt ==
    ASSUME SoundInv, NEW m, NEW s, NEW j \in Nat, Popped(m, s, j),
           NEW rank, SubscriptsOn(s, rank)
    PROVE  LET b == vm_pop_number(m)
               a == vm_pop_number(b.m)
           IN  /\ b.v = Operand(j) /\ b.v \in Int
               /\ rank = 1 => Popped(b.m, BelowSubscripts(s, rank), j + 1)
               /\ rank = 2 => /\ a.v = Operand(j + 1) /\ a.v \in Int
                              /\ Popped(a.m, BelowSubscripts(s, rank), j + 2)
<1> DEFINE b == vm_pop_number(m)
           a == vm_pop_number(b.m)
<1>1. b.v = Operand(j) /\ b.v \in Int /\ Popped(b.m, Below(s), j + 1)
  BY PopNumberAt DEF SubscriptsOn
<1>2. ASSUME rank = 2
      PROVE  /\ a.v = Operand(j + 1) /\ a.v \in Int
             /\ Popped(a.m, Below(Below(s)), j + 2)
  <2>1. TopIs(Below(s), "num")
    BY <1>2 DEF SubscriptsOn
  <2>2. (j + 1) + 1 = j + 2
    OBVIOUS
  <2> HIDE DEF b
  <2>3. /\ a.v = Operand(j + 1) /\ a.v \in Int
        /\ Popped(a.m, Below(Below(s)), (j + 1) + 1)
    BY <1>1, <2>1, PopNumberAt
  <2> QED
    BY <2>2, <2>3
<1> QED
  BY <1>1, <1>2 DEF BelowSubscripts

-----------------------------------------------------------------------------
(* The strings of an array made by its first access, and the failures.     *)

(* The count of allocations changes and nothing else. *)
LEMMA ShiftFollows ==
    ASSUME NEW m, NEW s, NEW n \in Int, Follows(m, vm, s, n), NEW d \in Int,
           NEW new, new = [m EXCEPT !.heap = @ + d]
    PROVE  Follows(new, vm, s, n + d) /\ new.stack = m.stack
<1>1. /\ m \in Machine /\ m.stack \in Seq(Value) /\ m.heap \in Int
      /\ StringsOn(m.stack) \in Nat /\ Types(m.stack) = s
  BY FollowsType DEF Follows
<1>2. (m.heap + d) - StringsOn(m.stack) = Balance(m) + d /\ m.heap + d \in Int
  BY <1>1 DEF Balance
<1>3. new = [m EXCEPT !.stack = m.stack, !.heap = m.heap + d]
  BY <1>1 DEF Machine
<1>4. Follows(new, vm, Types(m.stack), n + d)
  BY <1>1, <1>2, <1>3, FollowsFrame
<1> QED
  BY <1>1, <1>3, <1>4 DEF Machine

LEMMA AutoAllocPopped ==
    ASSUME ArrayInv, NEW slot \in Slot, NEW a, Shaped(slot, a),
           NEW m, NEW s, NEW j, Popped(m, s, j)
    PROVE  Popped(AutoAlloc(m, slot, a), s, j)
<1>1. PICK n \in Int : Follows(m, vm, s, n)
  BY DEF Popped
<1>2. PICK new \in Nat, old \in Nat :
         new = CellStrings(slot, a) /\ old = CellStrings(slot, arrays[slot])
  BY ArrayInvOwned, ShapedFields
<1>3. PICK d \in Int : d = new - old
  BY <1>2
<1>4. m.heap \in Int
  BY <1>1, FollowsType
<1>5. m.heap + new - old = m.heap + d
  BY <1>2, <1>3, <1>4
<1>6. AutoAlloc(m, slot, a) = [m EXCEPT !.heap = @ + d]
  BY <1>2, <1>5 DEF AutoAlloc
<1>7. /\ Follows(AutoAlloc(m, slot, a), vm, s, n + d)
      /\ AutoAlloc(m, slot, a).stack = m.stack
  BY <1>1, <1>6, ShiftFollows
<1> QED
  BY <1>1, <1>7 DEF Popped

(* A string in hand is freed. *)
LEMMA FreeCellPopped ==
    ASSUME NEW slot, NEW m, NEW s, NEW j, Popped(m, s, j)
    PROVE  Popped(FreeCell(m, slot), s, j)
<1>1. PICK n \in Int : Follows(m, vm, s, n)
  BY DEF Popped
<1>2. Follows(Free(m), vm, s, n - 1) /\ n - 1 \in Int
  BY <1>1, AllocFollows
<1>3. Free(m).stack = m.stack
  BY <1>1 DEF Free, Machine, Follows
<1> QED
  BY <1>2, <1>3 DEF Popped, FreeCell

(* With no trap armed the error ends the program, and the value that was   *)
(* to be stored may be freed.                                              *)
LEMMA StoppedSafe ==
    ASSUME SoundInv, prog.typed, ~Armed, NEW m, NEW s, NEW n \in Int, Follows(m, vm, s, n),
           NEW code \in ErrorCode, code \notin {ERR_OVERFLOW, ERR_TYPE_MISMATCH},
           NEW slot, prog' = prog,
           vm' = EndInstruction(FreeCell(Advance(vm_error(m, code)), slot))
    PROVE  /\ SafeStep
           /\ ~vm'.running /\ vm'.errorCode = code /\ vm'.stack = m.stack
<1> DEFINE f == Advance(vm_error(m, code))
           e == FreeCell(f, slot)
<1>1. /\ m \in Machine /\ m.trapEnabled = vm.trapEnabled
      /\ m.callStack = vm.callStack /\ m.forStack = vm.forStack
      /\ m.trapLine = vm.trapLine
  BY DEF Follows
<1>2. f = [[m EXCEPT !.errorCode = code, !.running = FALSE] EXCEPT !.pc = m.pc + 1]
  BY <1>1 DEF Armed, vm_error, Advance, SetPc, Machine
<1>3. f \in Machine
  BY <1>1, ErrorType, UpdateType
<1>4. /\ ~f.running /\ f.errorCode = code /\ f.stack = m.stack
      /\ f.callStack = vm.callStack /\ f.forStack = vm.forStack
      /\ f.trapEnabled = vm.trapEnabled /\ f.trapLine = vm.trapLine
  BY <1>1, <1>2 DEF Machine
<1> HIDE DEF f
<1>5. Free(f) \in Machine
  <2>1. f.heap \in Int /\ Free(f) = [f EXCEPT !.heap = f.heap - 1]
    BY <1>3, MachineFields DEF Free
  <2>2. f.heap - 1 \in Int
    BY <2>1
  <2> QED
    BY <1>3, <2>1, <2>2, FieldType
<1>6. /\ e \in Machine /\ ~e.running /\ e.errorCode = code /\ e.stack = m.stack
      /\ e.callStack = vm.callStack /\ e.forStack = vm.forStack
      /\ e.trapEnabled = vm.trapEnabled /\ e.trapLine = vm.trapLine
  BY <1>3, <1>4, <1>5 DEF FreeCell, Free, Machine
<1>7. vm' = EndInstruction(e)
  BY DEF f
<1> HIDE DEF e
<1>8. /\ ~vm'.running /\ vm'.errorCode = code /\ vm'.stack = m.stack
      /\ vm'.callStack = vm.callStack /\ vm'.forStack = vm.forStack
      /\ vm'.trapEnabled = vm.trapEnabled /\ vm'.trapLine = vm.trapLine
  BY <1>6, <1>7, EndFields
<1>9. ControlFits(vm)
  BY TypedProgram
<1>10. SafeAt(vm')
  BY <1>8, <1>9 DEF SafeAt, ControlFits
<1>11. TrapCatchesStep /\ CaughtErrorStep
  BY <1>8 DEF TrapCatchesStep, CaughtErrorStep
<1> QED
  BY <1>8, <1>10, <1>11 DEF SafeStep

(* A subscript out of range, and what is left of the operand stack. *)
LEMMA SubscriptErrorSafe ==
    ASSUME SoundInv, prog.typed, CanExecute, NEW m, NEW s, NEW j, Popped(m, s, j),
           NEW slot, prog' = prog,
           LET failed == SubscriptError(m)
           IN  \/ vm' = EndInstruction(failed)
               \/ vm' = EndInstruction(FreeCell(failed, slot)) /\ ~failed.trapTriggered
    PROVE  /\ SafeStep
           /\ vm'.errorCode = ERR_SUBSCRIPT_RANGE
           /\ vm'.stack = IF vm'.running THEN <<>> ELSE m.stack
<1> DEFINE code == ERR_SUBSCRIPT_RANGE
           f == vm_error(m, code)
<1>1. PICK n \in Int : Follows(m, vm, s, n)
  BY DEF Popped
<1>2. code \in ErrorCode /\ code \notin {ERR_NONE, ERR_OVERFLOW, ERR_TYPE_MISMATCH}
  BY DEF ErrorCode, ERR_SUBSCRIPT_RANGE, ERR_NONE, ERR_OVERFLOW, ERR_TYPE_MISMATCH
<1>3. /\ vm.running /\ ~m.trapTriggered /\ m \in Machine /\ m.running = vm.running
      /\ m.trapEnabled = vm.trapEnabled /\ m.trapLine = vm.trapLine
  BY <1>1, NoTrap DEF CanExecute, Follows
<1> HIDE DEF code
<1>4. /\ f \in Machine /\ f.errorCode = code
      /\ Armed => f.running /\ f.stack = <<>> /\ f.trapTriggered
      /\ ~Armed => ~f.running /\ ~f.trapTriggered
  <2>0. f = vm_error(m, code)
    OBVIOUS
  <2> HIDE DEF f
  <2>1. f \in Machine /\ f.errorCode = code
    BY <1>2, <1>3, <2>0, ErrorType DEF vm_error, Machine
  <2>2. (m.trapEnabled /\ m.trapLine > 0) =>
           (f.running = m.running /\ f.stack = <<>> /\ f.trapTriggered)
    BY <1>3, <2>0 DEF vm_error, Machine
  <2>3. ~(m.trapEnabled /\ m.trapLine > 0) => ~f.running
    BY <1>3, <2>0 DEF vm_error, Machine
  <2>4. ~(m.trapEnabled /\ m.trapLine > 0) => ~f.trapTriggered
    BY <1>3, <2>0 DEF vm_error, Machine
  <2> QED
    BY <1>3, <2>1, <2>2, <2>3, <2>4 DEF Armed
<1>5. SubscriptError(m) = IF f.trapTriggered THEN f ELSE Advance(f)
  BY DEF SubscriptError, code
<1>6. CASE Armed
  <2>1. vm' = EndInstruction(f)
    BY <1>4, <1>5, <1>6
  <2>2. SafeStep
    BY <1>1, <1>2, <1>3, <2>1, ErrorSafe
  <2>3. vm'.errorCode = code /\ vm'.stack = <<>> /\ vm'.running
    BY <1>4, <1>6, <2>1, EndFields
  <2> QED
    BY <2>2, <2>3 DEF code
<1>7. CASE ~Armed /\ vm' = EndInstruction(Advance(f))
  <2>1. SafeStep
    BY <1>1, <1>2, <1>3, <1>4, <1>7, ErrorSafe
  <2>2. f.stack = m.stack
    BY <1>3, <1>7 DEF Armed, vm_error, Machine
  <2>3. Advance(f) \in Machine /\ Advance(f).errorCode = code
        /\ Advance(f).stack = m.stack /\ ~Advance(f).running
    BY <1>4, <1>7, <2>2, UpdateType DEF Advance, SetPc, Machine
  <2> HIDE DEF f
  <2>4. vm'.errorCode = code /\ vm'.stack = m.stack /\ ~vm'.running
    BY <1>7, <2>3, EndFields
  <2> QED
    BY <2>1, <2>4 DEF code
<1>8. CASE ~Armed /\ vm' = EndInstruction(FreeCell(Advance(f), slot))
  <2>1. SafeStep /\ ~vm'.running /\ vm'.errorCode = code /\ vm'.stack = m.stack
    BY <1>1, <1>2, <1>8, StoppedSafe
  <2> QED
    BY <2>1 DEF code
<1> QED
  BY <1>4, <1>5, <1>6, <1>7, <1>8

(* A handler that meets no error. *)
LEMMA PlainStep ==
    ASSUME SoundInv, prog.typed, CanExecute, Inst.op \in ArrayOps,
           NEW m, NEW n \in Int,
           Follows(m, vm, Leaves(Inst.op, Types(vm.stack)), n),
           vm' = EndInstruction(Advance(m)), prog' = prog
    PROVE  SafeStep /\ vm'.stack = m.stack /\ vm'.errorCode = vm.errorCode
<1>1. Inst.op \notin OnOps
  BY DEF ArrayOps, DimOps, NumArrayOps, StrArrayOps, NumGetOps, NumSetOps,
         StrGetOps, StrSetOps, OnOps
<1>2. SafeStep
  BY <1>1, SameControlIs, PlainSafe
<1>3. m \in Machine /\ m.errorCode = vm.errorCode
  BY DEF Follows
<1>4. /\ Advance(m) \in Machine
      /\ Advance(m).stack = m.stack /\ Advance(m).errorCode = vm.errorCode
  BY <1>3, UpdateType DEF Advance, SetPc, Machine
<1> QED
  BY <1>2, <1>4, EndFields

(* A read pushes the cell, or fails. *)
LEMMA GetCellSound ==
    ASSUME ArrayInv, SoundInv, prog.typed, CanExecute, Inst.op \in ArrayOps,
           NEW slot \in Slot, NEW a, Shaped(slot, a),
           NEW m, NEW s, NEW j, Popped(m, s, j),
           Leaves(Inst.op, Types(vm.stack)) = Above(s, CellTag(slot)),
           NEW inside \in BOOLEAN, NEW i, inside => i \in DOMAIN a.cells,
           GetCell(AutoAlloc(m, slot, a), slot, a, inside, i)
    PROVE  /\ SafeStep
           /\ arrays' = [arrays EXCEPT ![slot] = a]
           /\ inside =>
                 /\ vm'.stack = Append(SubSeq(vm.stack, 1, Len(vm.stack) - j),
                                       IF slot \in StringSlot THEN Str(a.cells[i])
                                                              ELSE Num(a.cells[i]))
                 /\ vm'.errorCode = vm.errorCode
           /\ ~inside =>
                 /\ vm'.errorCode = ERR_SUBSCRIPT_RANGE
                 /\ vm'.stack = IF vm'.running THEN <<>>
                                ELSE SubSeq(vm.stack, 1, Len(vm.stack) - j)
<1> DEFINE made == AutoAlloc(m, slot, a)
           pushed == vm_push_cell(made, slot, a.cells[i])
<1>1. Popped(made, s, j)
  BY AutoAllocPopped
<1>2. prog' = prog /\ arrays' = [arrays EXCEPT ![slot] = a]
      /\ vm' = EndInstruction(IF inside THEN Advance(pushed) ELSE SubscriptError(made))
  BY DEF GetCell, CommitArray
<1>3. PICK n \in Int : Follows(made, vm, s, n)
  BY <1>1 DEF Popped
<1>4. made \in Machine /\ made.stack = SubSeq(vm.stack, 1, Len(vm.stack) - j)
  BY <1>1, <1>3 DEF Popped, Follows
<1> HIDE DEF made
<1>5. CASE inside
  <2>1. a.cells[i] \in CellType(slot)
    BY <1>5, ShapedFields
  <2>2. Follows(pushed, vm, Above(s, CellTag(slot)), n)
    BY <1>3, <2>1, PushTypedFollows DEF CellType, CellTag, vm_push_cell
  <2>3. pushed.stack = Append(made.stack, IF slot \in StringSlot THEN Str(a.cells[i])
                                                                 ELSE Num(a.cells[i]))
    BY <1>4 DEF vm_push_cell, vm_push_string, vm_push_number, vm_push, Alloc, Machine
  <2> HIDE DEF pushed
  <2>4. SafeStep /\ vm'.stack = pushed.stack /\ vm'.errorCode = vm.errorCode
    BY <1>2, <1>5, <2>2, PlainStep
  <2> QED
    BY <1>2, <1>4, <1>5, <2>3, <2>4
<1>6. CASE ~inside
  <2>1. vm' = EndInstruction(SubscriptError(made))
    BY <1>2, <1>6
  <2>2. /\ SafeStep /\ vm'.errorCode = ERR_SUBSCRIPT_RANGE
        /\ vm'.stack = IF vm'.running THEN <<>> ELSE made.stack
    BY <1>1, <1>2, <2>1, SubscriptErrorSafe
  <2> QED
    BY <1>2, <1>4, <1>6, <2>2
<1> QED
  BY <1>5, <1>6

(* A write stores the value in the cell and in no other, or fails. *)
LEMMA SetCellSound ==
    ASSUME ArrayInv, SoundInv, prog.typed, CanExecute, Inst.op \in ArrayOps,
           NEW slot \in Slot, NEW a, Shaped(slot, a),
           NEW m, NEW s, NEW j, Popped(m, s, j), Leaves(Inst.op, Types(vm.stack)) = s,
           NEW inside \in BOOLEAN, NEW i, NEW v,
           SetCell(AutoAlloc(m, slot, a), slot, a, inside, i, v)
    PROVE  /\ SafeStep
           /\ arrays' = [arrays EXCEPT ![slot] =
                             IF inside THEN [a EXCEPT !.cells[i] = v] ELSE a]
<1> DEFINE made == AutoAlloc(m, slot, a)
           failed == SubscriptError(made)
<1>1. Popped(made, s, j)
  BY AutoAllocPopped
<1>2. CASE inside
  <2>1. /\ prog' = prog /\ vm' = EndInstruction(Advance(FreeCell(made, slot)))
        /\ arrays' = [arrays EXCEPT ![slot] = [a EXCEPT !.cells[i] = v]]
    BY <1>2 DEF SetCell, CommitArray
  <2> HIDE DEF made
  <2>2. PICK n \in Int : Follows(FreeCell(made, slot), vm, s, n)
    BY <1>1, FreeCellPopped DEF Popped
  <2> QED
    BY <1>2, <2>1, <2>2, PlainStep
<1>3. CASE ~inside
  <2>1. /\ prog' = prog /\ arrays' = [arrays EXCEPT ![slot] = a]
        /\ \/ vm' = EndInstruction(failed)
           \/ vm' = EndInstruction(FreeCell(failed, slot)) /\ ~failed.trapTriggered
    BY <1>3 DEF SetCell, CommitArray
  <2> HIDE DEF made
  <2>2. SafeStep
    BY <1>1, <2>1, SubscriptErrorSafe
  <2> QED
    BY <1>3, <2>1, <2>2
<1> QED
  BY <1>2, <1>3

-----------------------------------------------------------------------------
(* DIM and CLR.                                                            *)

LEMMA DimSound ==
    ASSUME ArrayInv, SoundInv, prog.typed, OP_DIM_1D \/ OP_DIM_2D
    PROVE  SafeStep
<1> DEFINE op == Inst.op
           s == Types(vm.stack)
           slot == Inst.arg
           b == vm_pop_number(vm)
           a == vm_pop_number(b.m)
<1>1. CanExecute /\ op \in DimOps /\ op \in ArrayOps
  BY DEF OP_DIM_1D, OP_DIM_2D, Executing, DimOps, ArrayOps
<1>2. slot \in Slot /\ Shaped(slot, arrays[slot])
  BY <1>1, ArrayOperand, ArrayInvOwned DEF ArrayInv
<1>3. SubscriptsOn(s, Rank(op)) /\ Leaves(op, s) = BelowSubscripts(s, Rank(op))
  BY <1>1, Verified, ArrayTakes, ArrayLeaves
<1>4. /\ b.v \in Int
      /\ Rank(op) = 1 => Popped(b.m, BelowSubscripts(s, Rank(op)), 0 + 1)
      /\ Rank(op) = 2 => /\ a.v \in Int
                         /\ Popped(a.m, BelowSubscripts(s, Rank(op)), 0 + 2)
  BY <1>3, PoppedNone, SubscriptsAt
<1>5. FreedBy1D(slot) \in Int /\ FreedBy2D(slot) \in Int
  BY <1>2, FreedBound, ShapedFields
<1>6. ASSUME NEW m, NEW freed \in Int, NEW new, CellStrings(slot, new) \in Nat,
             NEW j, Popped(m, Leaves(op, s), j), Redimension(m, slot, freed, new)
      PROVE  SafeStep
  <2> DEFINE changed == [m EXCEPT !.heap = @ - freed + CellStrings(slot, new)]
  <2>1. PICK n \in Int : Follows(m, vm, Leaves(op, s), n)
    BY <1>6 DEF Popped
  <2>2. PICK k \in Nat : k = CellStrings(slot, new)
    BY <1>6
  <2>3. m.heap \in Int
    BY <2>1, FollowsType
  <2>4. m.heap - freed + k = m.heap + (k - freed) /\ k - freed \in Int
    BY <2>2, <2>3
  <2>5. changed = [m EXCEPT !.heap = @ + (k - freed)]
    BY <2>2, <2>4
  <2>6. vm' = EndInstruction(Advance(changed)) /\ prog' = prog
    BY <1>6 DEF Redimension, CommitArray
  <2> HIDE DEF changed
  <2>7. Follows(changed, vm, Leaves(op, s), n + (k - freed))
    BY <2>1, <2>4, <2>5, ShiftFollows
  <2>8. n + (k - freed) \in Int
    BY <2>4
  <2> QED
    BY <1>1, <2>6, <2>7, <2>8, PlainStep
<1>7. CASE OP_DIM_1D
  <2>1. b.v >= 0 /\ Redimension(b.m, slot, FreedBy1D(slot), NewArray(slot, b.v + 1, 0))
    BY <1>7 DEF OP_DIM_1D
  <2>2. Rank(op) = 1
    BY <1>7 DEF OP_DIM_1D, Executing, Rank
  <2>3. b.v + 1 \in Nat \ {0} /\ 0 \in Nat
    BY <1>4, <2>1
  <2>4. CellStrings(slot, NewArray(slot, b.v + 1, 0)) \in Nat
    BY <1>2, <2>3, NewShaped, ShapedFields
  <2> HIDE DEF b, slot, op, s
  <2> QED
    BY <1>3, <1>4, <1>5, <1>6, <2>1, <2>2, <2>4
<1>8. CASE OP_DIM_2D
  <2>1. /\ a.v >= 0 /\ b.v >= 0
        /\ Redimension(a.m, slot, FreedBy2D(slot), NewArray(slot, a.v + 1, b.v + 1))
    BY <1>8 DEF OP_DIM_2D
  <2>2. Rank(op) = 2
    BY <1>8 DEF OP_DIM_2D, Executing, Rank
  <2>3. a.v + 1 \in Nat \ {0} /\ b.v + 1 \in Nat
    BY <1>4, <2>1, <2>2
  <2>4. CellStrings(slot, NewArray(slot, a.v + 1, b.v + 1)) \in Nat
    BY <1>2, <2>3, NewShaped, ShapedFields
  <2> HIDE DEF a, b, slot, op, s
  <2> QED
    BY <1>3, <1>4, <1>5, <1>6, <2>1, <2>2, <2>4
<1> QED
  BY <1>7, <1>8

LEMMA ClrSound ==
    ASSUME SoundInv, prog.typed, OP_CLR
    PROVE  SafeStep
<1> DEFINE nums == [t \in Slot |-> 0]
           strs == [t \in Slot |-> <<>>]
           half == [vm EXCEPT !.numVars = nums]
           k == [half EXCEPT !.strVars = strs]
           s == Types(vm.stack)
<1>1. vm \in Machine
  BY DEF SoundInv, Loaded, TypeOK
<1>2. nums \in [Slot -> Number] /\ strs \in [Slot -> Text]
  <2>1. <<>> \in Text
    BY DEF Text
  <2> QED
    BY <2>1, ZeroIsNumber
<1>3. k = [vm EXCEPT !.numVars = nums, !.strVars = strs]
  OBVIOUS
<1> HIDE DEF nums, strs
<1>4. half \in Machine
  BY <1>1, <1>2, FieldType
<1>5. k \in Machine
  BY <1>2, <1>4, FieldType
<1>6. SameControl(k)
  BY <1>1, <1>5 DEF SameControl, Machine
<1>7. Follows(k, k, Types(k.stack), 0) /\ k.stack = vm.stack
  BY <1>5, <1>6, FollowsSelf DEF SameControl
<1>8. CanExecute /\ Inst.op \notin OnOps /\ Leaves(Inst.op, s) = s
  BY LeavesWhat DEF OP_CLR, Executing, OnOps, NoEffectOps
<1>9. vm' = EndInstruction(Advance(k)) /\ prog' = prog
  BY <1>3 DEF OP_CLR, nums, strs
<1> HIDE DEF k, half
<1> QED
  BY <1>6, <1>7, <1>8, <1>9, PlainSafe

-----------------------------------------------------------------------------
(* Elements and cells.                                                     *)

(* Elements, of an array that has a block. *)
ElementsOf(a) ==
    IF a.dim2 = 0 THEN [sub \in {<<i>> : i \in 0..(a.dim1 - 1)} |->
                             a.cells[sub[1] + 1]]
    ELSE [sub \in (0..(a.dim1 - 1)) \X (0..(a.dim2 - 1)) |->
             a.cells[sub[1] * a.dim2 + sub[2] + 1]]

(* The elements an access finds are those of the array it finds or makes.  *)
LEMMA ElementsFound ==
    ASSUME NEW slot \in Slot, NEW n \in {1, 2}
    PROVE  /\ \A a : a.cells # <<>> => Elements(a, slot, n) = ElementsOf(a)
           /\ Elements(arrays[slot], slot, n) = ElementsOf(Accessed(slot, n))
           /\ Accessed(slot, n).cells # <<>>
<1>1. ASSUME NEW a, a.cells # <<>> PROVE Elements(a, slot, n) = ElementsOf(a)
  BY <1>1 DEF Elements, ElementsOf
<1>2. CASE arrays[slot].cells # <<>>
  BY <1>1, <1>2 DEF Accessed
<1>3. CASE arrays[slot].cells = <<>>
  <2> DEFINE a == NewArray(slot, 11, IF n = 2 THEN 11 ELSE 0)
             b == [dim1 |-> 11, dim2 |-> IF n = 2 THEN 11 ELSE 0,
                   cells |-> [i \in 1..(IF n = 2 THEN 121 ELSE 11) |-> Blank(slot)]]
  <2>1. a = b
    BY DEF NewArray
  <2>2. Accessed(slot, n) = a
    BY <1>3 DEF Accessed, DefaultDim
  <2>3. a.cells # <<>>
    <3>1. 11 \in Nat \ {0} /\ (IF n = 2 THEN 11 ELSE 0) \in Nat
      OBVIOUS
    <3> QED
      BY <3>1, NewShaped
  <2>4. Elements(arrays[slot], slot, n) = ElementsOf(b)
    BY <1>3 DEF Elements, ElementsOf
  <2> QED
    BY <1>1, <2>1, <2>2, <2>3, <2>4
<1> QED
  BY <1>1, <1>2, <1>3

(* The elements with one subscript: there are some only in an array of one *)
(* dimension.                                                              *)
LEMMA OneDimension ==
    ASSUME NEW slot, NEW a, Shaped(slot, a)
    PROVE  /\ \A sub \in DOMAIN ElementsOf(a) :
                 Len(sub) = 1 => a.dim2 = 0 /\ \E i \in Int : sub = <<i>>
           /\ \A i \in Int :
                 <<i>> \in DOMAIN ElementsOf(a) <=> a.dim2 = 0 /\ Inside(i, a.dim1)
           /\ \A i \in Int : a.dim2 = 0 /\ Inside(i, a.dim1)
                               => ElementsOf(a)[<<i>>] = a.cells[i + 1]
<1>1. a.dim1 \in Nat /\ a.dim2 \in Nat
  BY ShapedFields
<1>2. \A i \in Int : Inside(i, a.dim1) <=> i \in 0..(a.dim1 - 1)
  BY <1>1 DEF Inside
<1>3. CASE a.dim2 = 0
  <2> DEFINE subs == {<<i>> : i \in 0..(a.dim1 - 1)}
  <2>1. ElementsOf(a) = [sub \in subs |-> a.cells[sub[1] + 1]]
    BY <1>3 DEF ElementsOf
  <2>2. DOMAIN ElementsOf(a) = subs
    BY <2>1
  <2>3. \A sub \in subs : ElementsOf(a)[sub] = a.cells[sub[1] + 1]
    BY <2>1
  <2>4. \A i \in 0..(a.dim1 - 1) : <<i>> \in subs
    OBVIOUS
  <2>5. \A sub \in subs : \E i \in 0..(a.dim1 - 1) : sub = <<i>>
    OBVIOUS
  <2> HIDE DEF subs
  <2>6. ASSUME NEW i \in Int, <<i>> \in subs PROVE i \in 0..(a.dim1 - 1)
    <3>1. PICK k \in 0..(a.dim1 - 1) : <<i>> = <<k>>
      BY <2>5, <2>6
    <3>2. <<i>>[1] = i /\ <<k>>[1] = k
      OBVIOUS
    <3> QED
      BY <3>1, <3>2
  <2>7. \A i \in 0..(a.dim1 - 1) : ElementsOf(a)[<<i>>] = a.cells[i + 1]
    BY <2>3, <2>4
  <2>8. \A sub \in subs : \E i \in Int : sub = <<i>>
    BY <2>5
  <2> QED
    BY <1>2, <1>3, <2>2, <2>4, <2>6, <2>7, <2>8
<1>4. CASE a.dim2 # 0
  <2>1. DOMAIN ElementsOf(a) = (0..(a.dim1 - 1)) \X (0..(a.dim2 - 1))
    BY <1>4 DEF ElementsOf
  <2>2. ASSUME NEW sub \in DOMAIN ElementsOf(a) PROVE Len(sub) = 2
    <3>1. PICK r \in 0..(a.dim1 - 1), c \in 0..(a.dim2 - 1) : sub = <<r, c>>
      BY <2>1
    <3> QED
      BY <3>1
  <2>3. \A i \in Int : Len(<<i>>) = 1
    OBVIOUS
  <2> QED
    BY <1>4, <2>2, <2>3
<1> QED
  BY <1>3, <1>4

(* And those with two. *)
LEMMA TwoDimensions ==
    ASSUME NEW slot, NEW a, Shaped(slot, a)
    PROVE  /\ \A sub \in DOMAIN ElementsOf(a) :
                 Len(sub) = 2 => a.dim2 # 0 /\ \E r, c \in Int : sub = <<r, c>>
           /\ \A r, c \in Int :
                 <<r, c>> \in DOMAIN ElementsOf(a)
                     <=> Inside(r, a.dim1) /\ Inside(c, a.dim2)
           /\ \A r, c \in Int :
                 Inside(r, a.dim1) /\ Inside(c, a.dim2)
                     => ElementsOf(a)[<<r, c>>] = a.cells[CellIndex(a, r, c)]
<1>1. a.dim1 \in Nat /\ a.dim2 \in Nat
  BY ShapedFields
<1>2. /\ \A i \in Int : Inside(i, a.dim1) <=> i \in 0..(a.dim1 - 1)
      /\ \A i \in Int : Inside(i, a.dim2) <=> i \in 0..(a.dim2 - 1)
  BY <1>1 DEF Inside
<1>3. CASE a.dim2 = 0
  <2>1. ElementsOf(a) = [sub \in {<<i>> : i \in 0..(a.dim1 - 1)} |-> a.cells[sub[1] + 1]]
    BY <1>3 DEF ElementsOf
  <2>2. ASSUME NEW sub \in DOMAIN ElementsOf(a) PROVE Len(sub) = 1
    <3>1. PICK i \in 0..(a.dim1 - 1) : sub = <<i>>
      BY <2>1
    <3> QED
      BY <3>1
  <2>3. \A r, c \in Int : Len(<<r, c>>) = 2
    OBVIOUS
  <2>4. \A c \in Int : ~Inside(c, a.dim2)
    BY <1>3 DEF Inside
  <2> QED
    BY <1>3, <2>2, <2>3, <2>4
<1>4. CASE a.dim2 # 0
  <2> DEFINE subs == (0..(a.dim1 - 1)) \X (0..(a.dim2 - 1))
  <2>1. ElementsOf(a) = [sub \in subs |-> a.cells[sub[1] * a.dim2 + sub[2] + 1]]
    BY <1>4 DEF ElementsOf
  <2>2. DOMAIN ElementsOf(a) = subs
    BY <2>1
  <2>3. \A sub \in subs : ElementsOf(a)[sub] = a.cells[sub[1] * a.dim2 + sub[2] + 1]
    BY <2>1
  <2>4. \A r, c \in Int : <<r, c>> \in subs <=> r \in 0..(a.dim1 - 1) /\ c \in 0..(a.dim2 - 1)
    OBVIOUS
  <2>5. \A sub \in subs : \E r \in 0..(a.dim1 - 1), c \in 0..(a.dim2 - 1) : sub = <<r, c>>
    OBVIOUS
  <2> HIDE DEF subs
  <2>6. ASSUME NEW r \in Int, NEW c \in Int, <<r, c>> \in subs
        PROVE  ElementsOf(a)[<<r, c>>] = a.cells[CellIndex(a, r, c)]
    <3>1. <<r, c>>[1] = r /\ <<r, c>>[2] = c
      OBVIOUS
    <3>2. ElementsOf(a)[<<r, c>>] = a.cells[<<r, c>>[1] * a.dim2 + <<r, c>>[2] + 1]
      BY <2>3, <2>6
    <3> QED
      BY <3>1, <3>2 DEF CellIndex
  <2>7. \A sub \in subs : \E r, c \in Int : sub = <<r, c>>
    BY <2>5
  <2> QED
    BY <1>2, <1>4, <2>2, <2>4, <2>6, <2>7
<1> QED
  BY <1>3, <1>4

LEMMA ElementAt ==
    ASSUME NEW slot, NEW a, Shaped(slot, a), NEW r \in Int, NEW c \in Int,
           Inside(r, a.dim1), Inside(c, a.dim2)
    PROVE  ElementsOf(a)[<<r, c>>] = a.cells[CellIndex(a, r, c)]
BY TwoDimensions

(* Two elements have two places. *)
LEMMA PlacesDiffer ==
    ASSUME NEW n \in Nat, NEW r \in Nat, NEW c \in Nat, c < n,
           NEW r2 \in Nat, NEW c2 \in Nat, c2 < n,
           r * n + c + 1 = r2 * n + c2 + 1
    PROVE  r = r2 /\ c = c2
<1>1. ASSUME NEW p \in Nat, NEW q \in Nat, NEW x \in Nat, NEW y \in Nat,
             x < n, y < n, p * n + x = q * n + y
      PROVE  ~(p < q)
  <2> SUFFICES ASSUME p < q PROVE FALSE
    OBVIOUS
  <2>1. PICK d \in Nat : q = p + 1 + d
    <3>1. q - p - 1 \in Nat /\ q = p + 1 + (q - p - 1)
      OBVIOUS
    <3> QED
      BY <3>1
  <2>2. q * n = p * n + n + d * n
    BY <2>1
  <2>3. p * n \in Nat /\ d * n \in Nat
    OBVIOUS
  <2> QED
    BY <1>1, <2>2, <2>3
<1>2. r * n \in Nat /\ r2 * n \in Nat /\ r * n + c = r2 * n + c2
  OBVIOUS
<1>3. r = r2
  BY <1>1, <1>2
<1> QED
  BY <1>2, <1>3

(* A block one cell of which is written, read by subscripts. *)
Wrote(a, inside, i, v) == IF inside THEN [a EXCEPT !.cells[i] = v] ELSE a

(* The element of one subscript is written, and no other. *)
LEMMA WrittenOne ==
    ASSUME NEW slot, NEW a, Shaped(slot, a), a.cells # <<>>, NEW x \in Int,
           NEW v \in CellType(slot), NEW new,
           new = Wrote(a, Inside(x, a.dim1), x + 1, v)
    PROVE  /\ new.cells # <<>>
           /\ \A other \in DOMAIN ElementsOf(a) :
                 Len(other) = 1 =>
                    ElementsOf(new)[other] =
                        IF other = <<x>> THEN v ELSE ElementsOf(a)[other]
<1>1. DOMAIN a.cells = 1..Len(a.cells) /\ a.cells \in Seq(CellType(slot))
  BY ShapedFields
<1>2. CASE ~Inside(x, a.dim1)
  <2>1. new = a /\ <<x>> \notin DOMAIN ElementsOf(a)
    BY <1>2, OneDimension DEF Wrote
  <2> QED
    BY <2>1
<1>3. CASE Inside(x, a.dim1)
  <2> DEFINE cells == [a.cells EXCEPT ![x + 1] = v]
  <2>1. x + 1 \in DOMAIN a.cells
    BY <1>3, InsideIsCell
  <2>2. /\ Shaped(slot, new) /\ new.dim1 = a.dim1 /\ new.dim2 = a.dim2
        /\ new.cells = cells
    BY <1>3, <2>1, WriteShaped DEF Wrote
  <2>3. new.cells # <<>>
    BY <1>1, <2>1, <2>2
  <2>4. ASSUME NEW other \in DOMAIN ElementsOf(a), Len(other) = 1
        PROVE  ElementsOf(new)[other] = IF other = <<x>> THEN v ELSE ElementsOf(a)[other]
    <3>1. PICK i \in Int : other = <<i>>
      BY <2>4, OneDimension
    <3>2. a.dim2 = 0 /\ Inside(i, a.dim1)
      BY <3>1, OneDimension
    <3>3. ElementsOf(a)[other] = a.cells[i + 1]
      BY <3>1, <3>2, OneDimension
    <3>4. ElementsOf(new)[other] = new.cells[i + 1]
      <4>1. Shaped(slot, new) /\ new.dim2 = 0 /\ Inside(i, new.dim1)
        BY <2>2, <3>2
      <4>2. ElementsOf(new)[<<i>>] = new.cells[i + 1]
        BY <4>1, OneDimension, Zenon
      <4> QED
        BY <3>1, <4>2
    <3>5. i + 1 \in DOMAIN a.cells
      BY <3>2, InsideIsCell
    <3>6. cells[i + 1] = IF i = x THEN v ELSE a.cells[i + 1]
      BY <1>1, <3>5
    <3>7. other = <<x>> <=> i = x
      BY <3>1
    <3> HIDE DEF cells
    <3> QED
      BY <2>2, <3>3, <3>4, <3>6, <3>7
  <2> QED
    BY <2>3, <2>4
<1> QED
  BY <1>2, <1>3

(* The element of two subscripts is written, and no other. *)
LEMMA WrittenTwo ==
    ASSUME NEW slot, NEW a, Shaped(slot, a), a.cells # <<>>,
           NEW row \in Int, NEW col \in Int, NEW v \in CellType(slot), NEW new,
           new = Wrote(a, Inside(row, a.dim1) /\ Inside(col, a.dim2),
                       CellIndex(a, row, col), v)
    PROVE  /\ new.cells # <<>>
           /\ \A other \in DOMAIN ElementsOf(a) :
                 Len(other) = 2 =>
                    ElementsOf(new)[other] =
                        IF other = <<row, col>> THEN v ELSE ElementsOf(a)[other]
<1>1. /\ a.dim1 \in Nat /\ a.dim2 \in Nat
      /\ DOMAIN a.cells = 1..Len(a.cells) /\ a.cells \in Seq(CellType(slot))
  BY ShapedFields
<1>2. CASE ~(Inside(row, a.dim1) /\ Inside(col, a.dim2))
  <2>1. new = a /\ <<row, col>> \notin DOMAIN ElementsOf(a)
    BY <1>2, TwoDimensions DEF Wrote
  <2> QED
    BY <2>1
<1>3. CASE Inside(row, a.dim1) /\ Inside(col, a.dim2)
  <2> DEFINE at == CellIndex(a, row, col)
             cells == [a.cells EXCEPT ![at] = v]
  <2>1. at \in DOMAIN a.cells
    BY <1>3, InsideIsCell
  <2>2. /\ Shaped(slot, new) /\ new.dim1 = a.dim1 /\ new.dim2 = a.dim2
        /\ new.cells = cells
    BY <1>3, <2>1, WriteShaped DEF Wrote
  <2>3. new.cells # <<>>
    BY <1>1, <2>1, <2>2
  <2>4. ASSUME NEW other \in DOMAIN ElementsOf(a), Len(other) = 2
        PROVE  ElementsOf(new)[other]
                   = IF other = <<row, col>> THEN v ELSE ElementsOf(a)[other]
    <3>1. PICK r \in Int, c \in Int : other = <<r, c>>
      BY <2>4, TwoDimensions
    <3>2. Inside(r, a.dim1) /\ Inside(c, a.dim2)
      BY <3>1, TwoDimensions
    <3> DEFINE there == CellIndex(a, r, c)
    <3>3. ElementsOf(a)[other] = a.cells[there]
      BY <3>1, <3>2, TwoDimensions
    <3>4. ElementsOf(new)[other] = new.cells[CellIndex(new, r, c)]
      <4>1. Shaped(slot, new) /\ Inside(r, new.dim1) /\ Inside(c, new.dim2)
        BY <2>2, <3>2
      <4>2. ElementsOf(new)[<<r, c>>] = new.cells[CellIndex(new, r, c)]
        BY <4>1, ElementAt
      <4> QED
        BY <3>1, <4>2
    <3>5. CellIndex(new, r, c) = there
      BY <2>2 DEF CellIndex
    <3>6. there \in DOMAIN a.cells
      BY <3>2, InsideIsCell
    <3>7. there = at => r = row /\ c = col
      <4>1. /\ r \in Nat /\ c \in Nat /\ c < a.dim2
            /\ row \in Nat /\ col \in Nat /\ col < a.dim2
        BY <1>1, <1>3, <3>2 DEF Inside
      <4> QED
        BY <1>1, <4>1, PlacesDiffer DEF CellIndex
    <3>8. r = row /\ c = col => there = at
      OBVIOUS
    <3>9. other = <<row, col>> <=> r = row /\ c = col
      BY <3>1
    <3> HIDE DEF there, at
    <3>10. cells[there] = IF there = at THEN v ELSE a.cells[there]
      BY <1>1, <3>6
    <3> HIDE DEF cells
    <3> QED
      BY <2>2, <3>3, <3>4, <3>5, <3>7, <3>8, <3>9, <3>10
  <2> QED
    BY <2>3, <2>4
<1> QED
  BY <1>2, <1>3

-----------------------------------------------------------------------------
(* Reads and writes of elements.                                           *)

(* The subscripts of a read, and of a write, as the program pushed them,    *)
(* and what is below the subscripts.                                       *)
ReadSubscripts(n)  == [k \in 1..n |-> Operand(n - k)]
WriteSubscripts(n) == [k \in 1..n |-> Operand(n + 1 - k)]
BelowOperands(n) == SubSeq(vm.stack, 1, Len(vm.stack) - n)

(* Only the array of slot changes. *)
OnlyArray(slot, a) == arrays' = [arrays EXCEPT ![slot] = a]

(* The test inside finds the element v of a, and pushes it.                *)
Finds(a, n, inside, v) ==
    \A other \in DOMAIN ElementsOf(a) : Len(other) = n =>
       /\ inside <=> ReadSubscripts(n) \in DOMAIN ElementsOf(a)
       /\ inside => v = ElementsOf(a)[ReadSubscripts(n)]

Pushes(slot, n, inside, v) ==
    /\ inside =>
          /\ vm'.stack = Append(BelowOperands(n), IF slot \in StringSlot THEN Str(v) ELSE Num(v))
          /\ vm'.errorCode = vm.errorCode
    /\ ~inside =>
          /\ vm'.errorCode = ERR_SUBSCRIPT_RANGE
          /\ vm'.stack = IF vm'.running THEN <<>> ELSE BelowOperands(n)

(* The array new differs from a in the element written, and no other.      *)
Writes(a, new, n) ==
    /\ new.cells # <<>>
    /\ \A other \in DOMAIN ElementsOf(a) : Len(other) = n =>
          ElementsOf(new)[other] = IF other = WriteSubscripts(n) THEN Operand(0)
                                   ELSE ElementsOf(a)[other]

(* These subscripts one by one. *)
LEMMA SubscriptTuples ==
    /\ ReadSubscripts(1) = <<Operand(0)>>
    /\ ReadSubscripts(2) = <<Operand(1), Operand(0)>>
    /\ WriteSubscripts(1) = <<Operand(1)>>
    /\ WriteSubscripts(2) = <<Operand(2), Operand(1)>>
<1>1. /\ 1 - 1 = 0 /\ 2 - 1 = 1 /\ 2 - 2 = 0
      /\ 1 + 1 - 1 = 1 /\ 2 + 1 - 1 = 2 /\ 2 + 1 - 2 = 1
  OBVIOUS
<1>2. /\ [k \in 1..1 |-> Operand(1 - k)] = <<Operand(1 - 1)>>
      /\ [k \in 1..2 |-> Operand(2 - k)] = <<Operand(2 - 1), Operand(2 - 2)>>
      /\ [k \in 1..1 |-> Operand(1 + 1 - k)] = <<Operand(1 + 1 - 1)>>
      /\ [k \in 1..2 |-> Operand(2 + 1 - k)] = <<Operand(2 + 1 - 1), Operand(2 + 1 - 2)>>
  OBVIOUS
<1> QED
  BY <1>1, <1>2 DEF ReadSubscripts, WriteSubscripts

(* The array that holds the element keeps all of them in a read. *)
LEMMA ReadIs ==
    ASSUME ArrayInv, NEW slot \in Slot, slot = Inst.arg,
           NEW n \in {1, 2}, n = Rank(Inst.op),
           NEW a, a = Accessed(slot, n), OnlyArray(slot, a),
           NEW inside \in BOOLEAN, NEW v,
           Finds(a, n, inside, v), Pushes(slot, n, inside, v)
    PROVE  ReadStep
<1> DEFINE before == Elements(arrays[slot], slot, n)
           sub == ReadSubscripts(n)
           below == BelowOperands(n)
<1>1. /\ before = ElementsOf(a) /\ a.cells # <<>>
      /\ Elements(a, slot, n) = ElementsOf(a)
  BY ElementsFound
<1>2. DOMAIN arrays = Slot
  BY DEF ArrayInv, ArraysLegal
<1>3. ASSUME NEW t \in Slot PROVE Elements(arrays'[t], t, n) = Elements(arrays[t], t, n)
  <2>1. CASE t = slot
    BY <1>1, <1>2, <2>1 DEF OnlyArray
  <2>2. CASE t # slot
    <3>1. arrays'[t] = arrays[t]
      BY <1>2, <2>2 DEF OnlyArray
    <3> QED
      BY <3>1
  <2> QED
    BY <2>1, <2>2
<1>4. ASSUME NEW other \in DOMAIN before, Len(other) = n
      PROVE  IF sub \in DOMAIN before
             THEN /\ vm'.stack = Append(below, IF slot \in StringSlot THEN Str(before[sub])
                                               ELSE Num(before[sub]))
                  /\ vm'.errorCode = vm.errorCode
             ELSE /\ vm'.errorCode = ERR_SUBSCRIPT_RANGE
                  /\ vm'.stack = IF vm'.running THEN <<>> ELSE below
  <2>1. /\ inside <=> sub \in DOMAIN before
        /\ inside => v = before[sub]
    BY <1>1, <1>4 DEF Finds
  <2> HIDE DEF before, sub, below
  <2> QED
    BY <2>1 DEF Pushes, below
<1> QED
  BY <1>3, <1>4 DEF ReadStep, ReadSubscripts, BelowOperands

LEMMA WriteIs ==
    ASSUME ArrayInv, NEW slot \in Slot, slot = Inst.arg,
           NEW n \in {1, 2}, n = Rank(Inst.op),
           NEW a, a = Accessed(slot, n),
           NEW new, OnlyArray(slot, new), Writes(a, new, n)
    PROVE  WriteStep
<1>1. /\ Elements(arrays[slot], slot, n) = ElementsOf(a)
      /\ Elements(new, slot, n) = ElementsOf(new)
  BY ElementsFound DEF Writes
<1>2. DOMAIN arrays = Slot
  BY DEF ArrayInv, ArraysLegal
<1>3. arrays'[slot] = new /\ \A t \in Slot \ {slot} : arrays'[t] = arrays[t]
  BY <1>2 DEF OnlyArray
<1> QED
  BY <1>1, <1>3 DEF WriteStep, Writes, WriteSubscripts

(* The four opcodes that read. *)
LEMMA ReadSoundStep ==
    ASSUME ArrayInv, SoundInv, prog.typed, OP_ARRAY_GET_1D \/ OP_ARRAY_GET_2D
    PROVE  SafeStep /\ ReadStep
<1> DEFINE op == Inst.op
           s == Types(vm.stack)
           slot == Inst.arg
           b == vm_pop_number(vm)
           a == vm_pop_number(b.m)
<1>1. CanExecute /\ op \in NumGetOps \cup StrGetOps /\ op \in ArrayOps
  BY DEF OP_ARRAY_GET_1D, OP_ARRAY_GET_2D, ExecutingOneOf, NumGetOps, StrGetOps,
         NumArrayOps, StrArrayOps, ArrayOps
<1>2. /\ slot \in Slot
      /\ op \in NumGetOps => slot \notin StringSlot
      /\ op \in StrGetOps => slot \in StringSlot
  BY <1>1, ArrayOperand DEF ArrayInv, NumArrayOps, StrArrayOps
<1>3. SubscriptsOn(s, Rank(op))
  BY <1>1, Verified, ArrayTakes
<1>4. Leaves(op, s) = Above(BelowSubscripts(s, Rank(op)), CellTag(slot))
  BY <1>1, <1>2, ArrayLeaves DEF CellTag
<1>5. /\ b.v = Operand(0) /\ b.v \in Int
      /\ Rank(op) = 1 => Popped(b.m, BelowSubscripts(s, Rank(op)), 0 + 1)
      /\ Rank(op) = 2 => /\ a.v = Operand(0 + 1) /\ a.v \in Int
                         /\ Popped(a.m, BelowSubscripts(s, Rank(op)), 0 + 2)
  BY <1>3, PoppedNone, SubscriptsAt
<1>6. Shaped(slot, Accessed(slot, 1)) /\ Shaped(slot, Accessed(slot, 2))
  BY <1>2, ArrayInvOwned, AccessedShaped
<1>7. CASE OP_ARRAY_GET_1D
  <2> DEFINE one == Accessed(slot, 1)
             inside == Inside(b.v, one.dim1)
             sub == <<Operand(0)>>
  <2>1. Rank(op) = 1
    BY <1>7 DEF OP_ARRAY_GET_1D, ExecutingOneOf, Rank
  <2>2. GetCell(AutoAlloc(b.m, slot, one), slot, one, inside, b.v + 1)
    BY <1>7 DEF OP_ARRAY_GET_1D
  <2>3. inside \in BOOLEAN /\ (inside => b.v + 1 \in DOMAIN one.cells)
    BY <1>5, <1>6, InsideIsCell DEF Inside
  <2>4. Popped(b.m, BelowSubscripts(s, 1), 1)
    BY <1>5, <2>1
  <2>5. \A other \in DOMAIN ElementsOf(one) : Len(other) = 1 =>
           /\ inside <=> sub \in DOMAIN ElementsOf(one)
           /\ inside => one.cells[b.v + 1] = ElementsOf(one)[sub]
    BY <1>5, <1>6, OneDimension
  <2>6. Finds(one, 1, inside, one.cells[b.v + 1])
    <3> HIDE DEF one, inside, b
    <3> QED
      BY <2>5, SubscriptTuples DEF Finds
  <2> HIDE DEF b, a, one, inside, sub, op, s, slot
  <2>7. /\ SafeStep
        /\ arrays' = [arrays EXCEPT ![slot] = one]
        /\ inside =>
              /\ vm'.stack = Append(SubSeq(vm.stack, 1, Len(vm.stack) - 1),
                                    IF slot \in StringSlot THEN Str(one.cells[b.v + 1])
                                                           ELSE Num(one.cells[b.v + 1]))
              /\ vm'.errorCode = vm.errorCode
        /\ ~inside =>
              /\ vm'.errorCode = ERR_SUBSCRIPT_RANGE
              /\ vm'.stack = IF vm'.running THEN <<>>
                             ELSE SubSeq(vm.stack, 1, Len(vm.stack) - 1)
    BY <1>1, <1>2, <1>4, <1>6, <2>1, <2>2, <2>3, <2>4, GetCellSound DEF one, op, s
  <2>8. slot = Inst.arg /\ 1 = Rank(Inst.op) /\ one = Accessed(slot, 1)
    BY <2>1 DEF slot, op, one
  <2>9. OnlyArray(slot, one) /\ Pushes(slot, 1, inside, one.cells[b.v + 1])
    BY <2>7 DEF OnlyArray, Pushes, BelowOperands
  <2>10. 1 \in {1, 2}
    OBVIOUS
  <2>11. ReadStep
    BY <1>2, <2>3, <2>6, <2>8, <2>9, <2>10, ReadIs
  <2> QED
    BY <2>7, <2>11
<1>8. CASE OP_ARRAY_GET_2D
  <2> DEFINE two == Accessed(slot, 2)
             inside == Inside(a.v, two.dim1) /\ Inside(b.v, two.dim2)
             i == CellIndex(two, a.v, b.v)
             sub == <<Operand(1), Operand(0)>>
  <2>1. Rank(op) = 2
    BY <1>8 DEF OP_ARRAY_GET_2D, ExecutingOneOf, Rank
  <2>2. GetCell(AutoAlloc(a.m, slot, two), slot, two, inside, i)
    BY <1>8 DEF OP_ARRAY_GET_2D
  <2>3. inside \in BOOLEAN /\ (inside => i \in DOMAIN two.cells)
    BY <1>5, <1>6, <2>1, InsideIsCell DEF Inside
  <2>4. Popped(a.m, BelowSubscripts(s, 2), 2) /\ a.v = Operand(1) /\ a.v \in Int
    BY <1>5, <2>1
  <2>5. \A other \in DOMAIN ElementsOf(two) : Len(other) = 2 =>
           /\ inside <=> sub \in DOMAIN ElementsOf(two)
           /\ inside => two.cells[i] = ElementsOf(two)[sub]
    <3> HIDE DEF a, b, two
    <3> QED
      BY <1>5, <1>6, <2>4, TwoDimensions DEF two
  <2>6. Finds(two, 2, inside, two.cells[i])
    <3> HIDE DEF two, inside, i
    <3> QED
      BY <2>5, SubscriptTuples DEF Finds
  <2> HIDE DEF b, a, two, inside, sub, op, s, slot, i
  <2>7. /\ SafeStep
        /\ arrays' = [arrays EXCEPT ![slot] = two]
        /\ inside =>
              /\ vm'.stack = Append(SubSeq(vm.stack, 1, Len(vm.stack) - 2),
                                    IF slot \in StringSlot THEN Str(two.cells[i])
                                                           ELSE Num(two.cells[i]))
              /\ vm'.errorCode = vm.errorCode
        /\ ~inside =>
              /\ vm'.errorCode = ERR_SUBSCRIPT_RANGE
              /\ vm'.stack = IF vm'.running THEN <<>>
                             ELSE SubSeq(vm.stack, 1, Len(vm.stack) - 2)
    BY <1>1, <1>2, <1>4, <1>6, <2>1, <2>2, <2>3, <2>4, GetCellSound DEF two, op, s
  <2>8. slot = Inst.arg /\ 2 = Rank(Inst.op) /\ two = Accessed(slot, 2)
    BY <2>1 DEF slot, op, two
  <2>9. OnlyArray(slot, two) /\ Pushes(slot, 2, inside, two.cells[i])
    BY <2>7 DEF OnlyArray, Pushes, BelowOperands
  <2>10. 2 \in {1, 2}
    OBVIOUS
  <2>11. ReadStep
    BY <1>2, <2>3, <2>6, <2>8, <2>9, <2>10, ReadIs
  <2> QED
    BY <2>7, <2>11
<1> QED
  BY <1>7, <1>8

(* A write changes the array of slot only. *)
LEMMA SetCellWrites ==
    ASSUME ArrayInv, SoundInv, prog.typed, CanExecute, Inst.op \in ArrayOps,
           NEW slot \in Slot, NEW a, Shaped(slot, a),
           NEW m, NEW s, NEW j, Popped(m, s, j), Leaves(Inst.op, Types(vm.stack)) = s,
           NEW inside \in BOOLEAN, NEW i, NEW v,
           SetCell(AutoAlloc(m, slot, a), slot, a, inside, i, v)
    PROVE  SafeStep /\ OnlyArray(slot, Wrote(a, inside, i, v))
BY SetCellSound DEF OnlyArray, Wrote

(* The four opcodes that write. *)
LEMMA WriteSoundStep ==
    ASSUME ArrayInv, SoundInv, prog.typed, OP_ARRAY_SET_1D \/ OP_ARRAY_SET_2D
    PROVE  SafeStep /\ WriteStep
<1> DEFINE op == Inst.op
           s == Types(vm.stack)
           slot == Inst.arg
           value == vm_pop_cell(vm, slot)
           b == vm_pop_number(value.m)
           a == vm_pop_number(b.m)
<1>1. CanExecute /\ op \in NumSetOps \cup StrSetOps /\ op \in ArrayOps
  BY DEF OP_ARRAY_SET_1D, OP_ARRAY_SET_2D, ExecutingOneOf, NumSetOps, StrSetOps,
         NumArrayOps, StrArrayOps, ArrayOps
<1>2. /\ slot \in Slot
      /\ op \in NumSetOps => slot \notin StringSlot
      /\ op \in StrSetOps => slot \in StringSlot
  BY <1>1, ArrayOperand DEF ArrayInv, NumArrayOps, StrArrayOps
<1>3. TopIs(s, CellTag(slot)) /\ SubscriptsOn(Below(s), Rank(op))
  BY <1>1, <1>2, Verified, ArrayTakes DEF CellTag
<1>4. Leaves(op, s) = BelowSubscripts(Below(s), Rank(op))
  BY <1>1, ArrayLeaves
<1>5. /\ value.v = Operand(0) /\ value.v \in CellType(slot)
      /\ Popped(value.m, Below(s), 1)
  <2>1. Popped(vm, s, 0) /\ 0 + 1 = 1
    BY PoppedNone
  <2> QED
    BY <1>3, <2>1, PopCellAt
<1>6. /\ b.v = Operand(1) /\ b.v \in Int
      /\ Rank(op) = 1 => Popped(b.m, BelowSubscripts(Below(s), Rank(op)), 1 + 1)
      /\ Rank(op) = 2 => /\ a.v = Operand(1 + 1) /\ a.v \in Int
                         /\ Popped(a.m, BelowSubscripts(Below(s), Rank(op)), 1 + 2)
  <2> HIDE DEF value
  <2> QED
    BY <1>3, <1>5, SubscriptsAt
<1>7. Shaped(slot, Accessed(slot, 1)) /\ Shaped(slot, Accessed(slot, 2))
  BY <1>2, ArrayInvOwned, AccessedShaped
<1>8. Accessed(slot, 1).cells # <<>> /\ Accessed(slot, 2).cells # <<>>
  BY <1>2, ElementsFound
<1>9. CASE OP_ARRAY_SET_1D
  <2> DEFINE one == Accessed(slot, 1)
             inside == Inside(b.v, one.dim1)
             new == Wrote(one, inside, b.v + 1, value.v)
  <2>1. Rank(op) = 1
    BY <1>9 DEF OP_ARRAY_SET_1D, ExecutingOneOf, Rank
  <2>2. Popped(b.m, BelowSubscripts(Below(s), 1), 2)
    BY <1>6, <2>1
  <2>3. ~(Len(vm.stack) < 2)
    <3>1. vm.stack \in Seq(Value)
      BY MachineFields DEF SoundInv, Loaded, TypeOK
    <3> QED
      BY <2>2, <3>1 DEF Popped
  <2>4. SetCell(AutoAlloc(b.m, slot, one), slot, one, inside, b.v + 1, value.v)
    BY <1>9, <2>3 DEF OP_ARRAY_SET_1D
  <2>5. inside \in BOOLEAN
    BY DEF Inside
  <2>6. new = Wrote(one, inside, b.v + 1, value.v)
    OBVIOUS
  <2>7. inside = Inside(b.v, one.dim1)
    OBVIOUS
  <2>8. Shaped(slot, one) /\ one.cells # <<>>
    BY <1>7, <1>8
  <2>9. one = Accessed(slot, 1) /\ slot = Inst.arg
    OBVIOUS
  <2> HIDE DEF b, a, value, new, inside, one, slot
  <2>10. SafeStep /\ OnlyArray(slot, new)
    <3> HIDE DEF op, s
    <3> QED
      BY <1>1, <1>2, <1>4, <2>1, <2>2, <2>4, <2>5, <2>6, <2>8, SetCellWrites DEF op, s
  <2>11. /\ new.cells # <<>>
         /\ \A other \in DOMAIN ElementsOf(one) : Len(other) = 1 =>
               ElementsOf(new)[other] = IF other = <<b.v>> THEN value.v
                                        ELSE ElementsOf(one)[other]
    BY <1>2, <1>5, <1>6, <2>6, <2>7, <2>8, WrittenOne, SMTT(30)
  <2>12. WriteSubscripts(1) = <<b.v>> /\ Operand(0) = value.v
    BY <1>5, <1>6, SubscriptTuples
  <2>13. Writes(one, new, 1) /\ OnlyArray(slot, new)
    BY <2>10, <2>11, <2>12 DEF Writes
  <2>14. 1 = Rank(Inst.op) /\ 1 \in {1, 2}
    BY <2>1
  <2>15. WriteStep
    BY <1>2, <2>9, <2>13, <2>14, WriteIs
  <2> QED
    BY <2>10, <2>15
<1>10. CASE OP_ARRAY_SET_2D
  <2> DEFINE two == Accessed(slot, 2)
             inside == Inside(a.v, two.dim1) /\ Inside(b.v, two.dim2)
             i == CellIndex(two, a.v, b.v)
             new == Wrote(two, inside, i, value.v)
  <2>1. Rank(op) = 2
    BY <1>10 DEF OP_ARRAY_SET_2D, ExecutingOneOf, Rank
  <2>2. Popped(a.m, BelowSubscripts(Below(s), 2), 3) /\ a.v = Operand(2) /\ a.v \in Int
    BY <1>6, <2>1
  <2>3. SetCell(AutoAlloc(a.m, slot, two), slot, two, inside, i, value.v)
    BY <1>10 DEF OP_ARRAY_SET_2D
  <2>4. inside \in BOOLEAN
    BY DEF Inside
  <2>5. new = Wrote(two, inside, i, value.v)
    OBVIOUS
  <2>6. inside = (Inside(a.v, two.dim1) /\ Inside(b.v, two.dim2)) /\ i = CellIndex(two, a.v, b.v)
    OBVIOUS
  <2>7. Shaped(slot, two) /\ two.cells # <<>>
    BY <1>7, <1>8
  <2>8. two = Accessed(slot, 2) /\ slot = Inst.arg
    OBVIOUS
  <2> HIDE DEF b, a, value, new, inside, two, slot, i
  <2>9. SafeStep /\ OnlyArray(slot, new)
    <3> HIDE DEF op, s
    <3> QED
      BY <1>1, <1>2, <1>4, <2>1, <2>2, <2>3, <2>4, <2>5, <2>7, SetCellWrites DEF op, s
  <2>10. /\ new.cells # <<>>
         /\ \A other \in DOMAIN ElementsOf(two) : Len(other) = 2 =>
               ElementsOf(new)[other] = IF other = <<a.v, b.v>> THEN value.v
                                        ELSE ElementsOf(two)[other]
    BY <1>2, <1>5, <1>6, <2>2, <2>5, <2>6, <2>7, WrittenTwo
  <2>11. WriteSubscripts(2) = <<a.v, b.v>> /\ Operand(0) = value.v
    BY <1>5, <1>6, <2>2, SubscriptTuples
  <2>12. Writes(two, new, 2) /\ OnlyArray(slot, new)
    BY <2>9, <2>10, <2>11 DEF Writes
  <2>13. 2 = Rank(Inst.op) /\ 2 \in {1, 2}
    BY <2>1
  <2>14. WriteStep
    BY <1>2, <2>8, <2>12, <2>13, WriteIs
  <2> QED
    BY <2>9, <2>14
<1> QED
  BY <1>9, <1>10

-----------------------------------------------------------------------------
(* The machine as a whole.                                                 *)

(* No handler outside this module is of an opcode that reads or writes an  *)
(* array.                                                                  *)
LEMMA NextElsewhere ==
    ASSUME Next
    PROVE  Inst.op \notin ArrayRead \cup ArrayWrite
<1>1. CASE ExprStep
  BY <1>1, SMTT(30) DEF ExprStep, ArrayRead, ArrayWrite, Executing, ExecutingOneOf,
     OP_PUSH_CONST, OP_PUSH_VAR, OP_STR_PUSH_VAR, OP_STR_PUSH, OP_POP_VAR,
     OP_STR_POP_VAR, OP_DUP, OP_POP, OP_ADD_SUB_MUL_MOD, OP_DIV, OP_POW, OP_NEG,
     OP_COMPARE, OP_AND_OR, OP_NOT, OP_STR_LEFT_RIGHT, OP_STR_MID, OP_STR_MID_2,
     OP_STR_LEN_ASC_VAL, OP_STR_CHR_STR, OP_FUNC_FLOAT, OP_FUNC_RND,
     OP_FUNC_EXACT, OP_FUNC_DOMAIN, OP_FN_ERR, OP_DATA_READ, OP_RESTORE
<1>2. CASE ControlStep
  BY <1>2, SMTT(30) DEF ControlStep, ArrayRead, ArrayWrite, Executing, ExecutingOneOf,
     OP_JUMP, OP_JUMP_IF, OP_JUMP_LINE, OP_GOSUB_LINE, OP_GOSUB, OP_RETURN,
     OP_POP_GOSUB, OP_ON_GOTO, OP_ON_GOSUB, OP_FOR_INIT, OP_FOR_NEXT, OP_TRAP,
     OP_TRAP_DISABLE, OP_END, OP_NOP, OP_RANDOMIZE, OP_RESTORE
<1> QED
  BY <1>1, <1>2 DEF Next

(* Which of the opcodes on arrays read, and which write. *)
LEMMA ArrayStepOps ==
    /\ OP_DIM_1D \/ OP_DIM_2D \/ OP_CLR => Inst.op \notin ArrayRead \cup ArrayWrite
    /\ OP_ARRAY_GET_1D \/ OP_ARRAY_GET_2D => Inst.op \notin ArrayWrite
    /\ OP_ARRAY_SET_1D \/ OP_ARRAY_SET_2D => Inst.op \notin ArrayRead
BY DEF OP_DIM_1D, OP_DIM_2D, OP_CLR, OP_ARRAY_GET_1D, OP_ARRAY_GET_2D,
       OP_ARRAY_SET_1D, OP_ARRAY_SET_2D, Executing, ExecutingOneOf,
       ArrayRead, ArrayWrite

(* Every step of a well-typed program is safe, with arrays and without,    *)
(* and what it does to the elements is what it should.                     *)
LEMMA ArrayNextSound ==
    ASSUME ArrayInv, SoundInv, prog.typed, ArrayNext
    PROVE  SafeStep /\ ReadStep /\ WriteStep
<1>1. CASE OP_DIM_1D \/ OP_DIM_2D \/ OP_CLR
  <2>1. SafeStep
    BY <1>1, DimSound, ClrSound
  <2>2. Inst.op \notin ArrayRead \cup ArrayWrite
    BY <1>1, ArrayStepOps
  <2> QED
    BY <2>1, <2>2 DEF ReadStep, WriteStep
<1>2. CASE OP_ARRAY_GET_1D \/ OP_ARRAY_GET_2D
  <2>1. SafeStep /\ ReadStep
    BY <1>2, ReadSoundStep
  <2>2. Inst.op \notin ArrayWrite
    BY <1>2, ArrayStepOps
  <2> QED
    BY <2>1, <2>2 DEF WriteStep
<1>3. CASE OP_ARRAY_SET_1D \/ OP_ARRAY_SET_2D
  <2>1. SafeStep /\ WriteStep
    BY <1>3, WriteSoundStep
  <2>2. Inst.op \notin ArrayRead
    BY <1>3, ArrayStepOps
  <2> QED
    BY <2>1, <2>2 DEF ReadStep
<1>4. CASE Next
  <2>1. SafeStep
    BY <1>4, NextSound DEF SoundStep
  <2>2. Inst.op \notin ArrayRead \cup ArrayWrite
    BY <1>4, NextElsewhere
  <2> QED
    BY <2>1, <2>2 DEF ReadStep, WriteStep
<1> QED
  BY <1>1, <1>2, <1>3, <1>4 DEF ArrayNext, ArrayStep

(* No handler loads another program. *)
LEMMA ArrayKeepsProgram ==
    ASSUME ArrayNext
    PROVE  prog' = prog
<1>1. CASE ArrayStep
  BY <1>1 DEF ArrayStep, OP_DIM_1D, OP_DIM_2D, OP_CLR, OP_ARRAY_GET_1D,
     OP_ARRAY_GET_2D, OP_ARRAY_SET_1D, OP_ARRAY_SET_2D, Redimension, GetCell,
     SetCell, CommitArray
<1> QED
  BY <1>1, NextKeepsProgram DEF ArrayNext

(* Both invariants hold at the start. *)
LEMMA ArrayInitSound == ArrayInit => ArrayInv /\ SoundInv
BY ArrayInitInv, InitSound DEF ArrayInit

(* And every instruction keeps them. *)
LEMMA ArrayStepSound ==
    ArrayInv /\ SoundInv /\ [ArrayNext]_arrayVars =>
        /\ ArrayInv' /\ SoundInv'
        /\ [ReadStep]_arrayVars /\ [WriteStep]_arrayVars
<1> SUFFICES ASSUME ArrayInv, SoundInv, [ArrayNext]_arrayVars
             PROVE  /\ ArrayInv' /\ SoundInv'
                    /\ [ReadStep]_arrayVars /\ [WriteStep]_arrayVars
  OBVIOUS
<1>1. ArrayInv' /\ Loaded'
  BY ArrayNextInv DEF ArrayInv
<1>2. CASE UNCHANGED arrayVars
  <2>1. prog' = prog /\ vm' = vm
    BY <1>2 DEF arrayVars
  <2>2. SoundInv'
    BY <1>1, <2>1 DEF SoundInv, SafeAt, Fits, ControlFits
  <2> QED
    BY <1>1, <1>2, <2>2
<1>3. CASE ArrayNext /\ prog.typed
  <2>1. prog' = prog /\ SafeAt(vm') /\ ReadStep /\ WriteStep
    BY <1>3, ArrayNextSound DEF SafeStep
  <2>2. SafeAt(vm)'
    BY <2>1 DEF SafeAt, Fits, ControlFits
  <2> QED
    BY <1>1, <2>1, <2>2 DEF SoundInv
<1>4. CASE ArrayNext /\ ~prog.typed
  <2>1. prog' = prog
    BY <1>4, ArrayKeepsProgram
  <2>2. ReadStep /\ WriteStep
    BY <1>4 DEF ReadStep, WriteStep
  <2> QED
    BY <1>1, <1>4, <2>1, <2>2 DEF SoundInv
<1> QED
  BY <1>2, <1>3, <1>4

-----------------------------------------------------------------------------
(* The theorems.                                                           *)

(* The inductive invariant of the machine with arrays, for every program.  *)
THEOREM ArraySoundInvariantHolds == ArraySpec => [](ArrayInv /\ SoundInv)
BY ArrayInitSound, ArrayStepSound, PTL DEF ArraySpec

(* The operand stack has the shape the verifier computed for the           *)
(* instruction at pc, also where a subscript out of range has been caught  *)
(* between the pops of an access and its push.                             *)
THEOREM ArraysStackIsSound == ArraySpec => []StackSound
<1>1. SoundInv => StackSound
  BY SoundInvIs
<1> QED
  BY <1>1, ArraySoundInvariantHolds, PTL

(* No string is freed while the operand stack or a variable owns it.       *)
THEOREM ArraysNeverFreeTwice == ArraySpec => []NoDoubleFree
<1>1. ArrayInv => NoDoubleFree
  <2> SUFFICES ASSUME ArrayInv PROVE NoDoubleFree
    OBVIOUS
  <2>1. Cardinality(StringCells(arrays)) \in Nat
    BY CellsCount DEF ArrayInv, ArraysLegal
  <2>2. vm.heap \in Int /\ StringsOn(vm.stack) \in Nat /\ Cardinality(Slot) \in Nat
    BY MachineFields, StringsOnType, SlotCount DEF ArrayInv, Loaded, TypeOK
  <2> QED
    BY <2>1, <2>2 DEF ArrayInv, NoCellFreedTwice, StringsOwned, NoDoubleFree
<1> QED
  BY <1>1, ArrayInvariantHolds, PTL

(* A write with as many subscripts as the array has dimensions changes     *)
(* that element and no other, of any array, whatever its dimensions; a     *)
(* write out of bounds changes none.                                       *)
THEOREM ElementsWritten == ArraySpec => WritesOneElement
<1>1. ArrayInv /\ SoundInv /\ [ArrayNext]_arrayVars => [WriteStep]_arrayVars
  BY ArrayStepSound
<1> QED
  BY <1>1, ArraySoundInvariantHolds, PTL DEF ArraySpec, WritesOneElement

(* A read pushes the element of its subscripts and changes none; out of    *)
(* bounds it pushes nothing and is an error.                               *)
THEOREM ElementsRead == ArraySpec => ReadsElement
<1>1. ArrayInv /\ SoundInv /\ [ArrayNext]_arrayVars => [ReadStep]_arrayVars
  BY ArrayStepSound
<1> QED
  BY <1>1, ArraySoundInvariantHolds, PTL DEF ArraySpec, ReadsElement
=============================================================================
