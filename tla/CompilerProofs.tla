---------------------------- MODULE CompilerProofs ----------------------------
(***************************************************************************)
(* Theorems about the compiler, for every source, however long its         *)
(* statements are and however deep they are nested.                        *)
(***************************************************************************)
EXTENDS Compiler, SequenceTheorems, FiniteSetTheorems, WellFoundedInduction, TLAPS

-----------------------------------------------------------------------------
(* Induction, for a set of numbers.                                        *)

(* A set with 0 in it, and with each number the next, has all numbers.     *)
LEMMA SetInduction ==
    ASSUME NEW G, 0 \in G, \A n \in Nat : n \in G => n + 1 \in G
    PROVE  \A n \in Nat : n \in G
<1> DEFINE R == OpToRel(<, Nat)
           bad == {n \in Nat : n \notin G}
<1> SUFFICES ASSUME bad # {} PROVE FALSE
  OBVIOUS
<1>1. IsWellFoundedOn(R, Nat)
  BY NatLessThanWellFounded
<1>2. PICK x \in bad : \A y \in bad : ~(<<y, x>> \in R)
  <2>1. bad \in SUBSET Nat
    OBVIOUS
  <2> HIDE DEF R, bad
  <2> QED
    BY <1>1, <2>1, WFMin
<1>3. \A y \in bad : ~(y < x)
  BY <1>2 DEF OpToRel
<1>4. x \in Nat /\ x # 0 /\ x - 1 \in Nat /\ x - 1 < x /\ (x - 1) + 1 = x
  OBVIOUS
<1>5. x - 1 \in G
  BY <1>3, <1>4
<1> QED
  BY <1>4, <1>5

-----------------------------------------------------------------------------
(* The search for a line.                                                  *)

(* A line number has 16 bits.                                              *)
LEMMA WordRange ==
    ASSUME NEW n \in Word
    PROVE  n \in Int /\ 0 <= n /\ n < 65536
BY DEF Word

(* A number cut to 16 bits is one, and is the number when that has 16.     *)
LEMMA WordCut ==
    ASSUME NEW n \in Int
    PROVE  n % 65536 \in Word /\ (n \in Word => n % 65536 = n)
<1>1. n % 65536 \in Word
  BY DEF Word
<1>2. 0 <= n /\ n < 65536 => n % 65536 = n
  OBVIOUS
<1> QED
  BY <1>1, <1>2, WordRange

(* The members of a sequence.                                              *)
LEMMA SeqTyped ==
    ASSUME NEW S, NEW s \in Seq(S)
    PROVE  /\ Len(s) \in Nat /\ DOMAIN s = 1..Len(s)
           /\ \A i \in 1..Len(s) : s[i] \in S
OBVIOUS

LinesType == Seq([line : Word, offset : Nat])

(* The entries of a line map.                                              *)
LEMMA LinesTyped ==
    ASSUME NEW ls \in LinesType
    PROVE  /\ Len(ls) \in Nat /\ DOMAIN ls = 1..Len(ls)
           /\ \A k \in 1..Len(ls) : ls[k].line \in Int /\ ls[k].offset \in Nat
<1>1. Len(ls) \in Nat /\ DOMAIN ls = 1..Len(ls)
      /\ \A k \in 1..Len(ls) : ls[k] \in [line : Word, offset : Nat]
  BY SeqTyped DEF LinesType
<1>2. \A e \in [line : Word, offset : Nat] : e.line \in Int /\ e.offset \in Nat
  BY WordRange
<1> QED
  BY <1>1, <1>2

(* The range after n rounds, for a sequence ls of lines.                   *)
IsSearch(ls, line, r) ==
    /\ DOMAIN r = 0..Len(ls)
    /\ r[0] = [left |-> 0, right |-> Len(ls) - 1]
    /\ \A n \in 1..Len(ls) : r[n] = Halved(ls, line, r[n - 1])

(* The ranges of the search, round by round.                               *)
LEMMA SearchUnfolds ==
    ASSUME NEW st, NEW line, st.lines \in LinesType
    PROVE  \E r : /\ IsSearch(st.lines, line, r)
                  /\ compiler_find_line_offset(st, line) =
                        IF r[Len(st.lines)].left > r[Len(st.lines)].right THEN -1
                        ELSE st.lines[Middle(r[Len(st.lines)]) + 1].offset
<1> DEFINE m == Len(st.lines)
           Body(g, n) == IF n = 0 THEN [left |-> 0, right |-> m - 1]
                         ELSE Halved(st.lines, line, g[n - 1])
           Unfolds(k, g) == g = [n \in 0..k |-> Body(g, n)]
           G == {k \in Nat : \E g : Unfolds(k, g)}
<1>1. m \in Nat
  BY DEF LinesType
<1>2. 0 \in G
  <2>1. Unfolds(0, [n \in 0..0 |-> [left |-> 0, right |-> m - 1]])
    OBVIOUS
  <2> QED
    BY <2>1
<1>3. ASSUME NEW k \in Nat, k \in G PROVE k + 1 \in G
  <2>1. PICK g : Unfolds(k, g)
    BY <1>3
  <2> DEFINE longer == [n \in 0..(k + 1) |-> IF n = k + 1 THEN Body(g, n) ELSE g[n]]
  <2>2. ASSUME NEW n \in 0..(k + 1) PROVE longer[n] = Body(longer, n)
    <3>1. n # 0 => n - 1 \in 0..(k + 1) /\ n - 1 # k + 1 /\ longer[n - 1] = g[n - 1]
      OBVIOUS
    <3>2. Body(longer, n) = Body(g, n)
      BY <3>1
    <3>3. n # k + 1 => n \in 0..k /\ g[n] = Body(g, n)
      BY <2>1
    <3> HIDE DEF Body
    <3> QED
      BY <3>2, <3>3
  <2>3. Unfolds(k + 1, longer)
    <3> HIDE DEF Body
    <3> QED BY <2>2
  <2> HIDE DEF Unfolds, longer
  <2> QED
    BY <2>3
<1>4. m \in G
  <2> HIDE DEF G
  <2> QED
    BY <1>1, <1>2, <1>3, SetInduction
<1> DEFINE r == CHOOSE g : Unfolds(m, g)
<1>5. Unfolds(m, r)
  <2> HIDE DEF Unfolds
  <2> QED
    BY <1>4
<1>6. compiler_find_line_offset(st, line) =
          IF r[m].left > r[m].right THEN -1 ELSE st.lines[Middle(r[m]) + 1].offset
  BY DEF compiler_find_line_offset
<1> HIDE DEF r
<1>7. IsSearch(st.lines, line, r)
  <2>1. DOMAIN r = 0..m
    BY <1>5
  <2>2. r[0] = [left |-> 0, right |-> m - 1]
    BY <1>1, <1>5
  <2>3. ASSUME NEW n \in 1..m PROVE r[n] = Halved(st.lines, line, r[n - 1])
    <3>1. n \in 0..m /\ n # 0
      BY <1>1
    <3> QED
      BY <1>5, <3>1
  <2> QED
    BY <2>1, <2>2, <2>3 DEF IsSearch
<1> QED
  BY <1>6, <1>7

(* Where the search is after n rounds: lines further left are smaller,     *)
(* lines further right are greater, and the range is one shorter for each  *)
(* round, or has the line in its middle.                                   *)
Narrowed(ls, line, r, n) ==
    /\ r[n] = [left |-> r[n].left, right |-> r[n].right]
    /\ r[n].left \in 0..Len(ls) /\ r[n].right \in -1..(Len(ls) - 1)
    /\ \/ r[n].right - r[n].left + 1 <= Len(ls) - n
       \/ r[n].left <= r[n].right /\ ls[Middle(r[n]) + 1].line = line
    /\ (\A i, j \in DOMAIN ls : i < j => ls[i].line <= ls[j].line) =>
          /\ \A k \in DOMAIN ls : k <= r[n].left => ls[k].line < line
          /\ \A k \in DOMAIN ls : k > r[n].right + 1 => ls[k].line > line

(* The middle of a range is in it.                                         *)
LEMMA MiddleBetween ==
    ASSUME NEW range, range.left \in Int, range.right \in Int, range.left <= range.right
    PROVE  /\ Middle(range) \in Int
           /\ range.left <= Middle(range) /\ Middle(range) <= range.right
<1> DEFINE d == range.right - range.left
           h == d \div 2
<1>1. d \in Nat
  OBVIOUS
<1>2. h \in Nat /\ h <= d
  <2> HIDE DEF d
  <2> QED
    BY <1>1
<1>3. Middle(range) = range.left + h
  BY DEF Middle
<1> HIDE DEF h
<1> QED
  BY <1>2, <1>3

(* Each round narrows the range so.                                        *)
LEMMA SearchNarrows ==
    ASSUME NEW ls \in LinesType, NEW line \in Int, NEW r, IsSearch(ls, line, r)
    PROVE  \A n \in 0..Len(ls) : Narrowed(ls, line, r, n)
<1> DEFINE m == Len(ls)
           sorted == \A i, j \in DOMAIN ls : i < j => ls[i].line <= ls[j].line
           G == {n \in Nat : n \in 0..m => Narrowed(ls, line, r, n)}
<1>1. m \in Nat /\ DOMAIN ls = 1..m
      /\ \A k \in 1..m : ls[k].line \in Int
  BY LinesTyped
<1>2. 0 \in G
  <2>1. r[0] = [left |-> 0, right |-> m - 1]
    BY DEF IsSearch
  <2> QED
    BY <1>1, <2>1 DEF Narrowed
<1>3. ASSUME NEW n \in Nat, n \in G PROVE n + 1 \in G
  <2> SUFFICES ASSUME n + 1 \in 0..m PROVE Narrowed(ls, line, r, n + 1)
    OBVIOUS
  <2> DEFINE old == r[n]
             mid == Middle(old)
  <2>1. Narrowed(ls, line, r, n)
    BY <1>1, <1>3
  <2>2. n + 1 \in 1..m /\ (n + 1) - 1 = n
    BY <1>1
  <2>3. r[n + 1] = Halved(ls, line, old)
    BY <2>2 DEF IsSearch
  <2>4. old = [left |-> old.left, right |-> old.right]
        /\ old.left \in 0..m /\ old.right \in -1..(m - 1)
    BY <2>1 DEF Narrowed
  <2>5. CASE old.left > old.right
    <3>1. r[n + 1] = old
      BY <2>3, <2>5 DEF Halved
    <3>2. old.right - old.left + 1 <= m - (n + 1)
      BY <1>1, <2>2, <2>4, <2>5
    <3> HIDE DEF old
    <3> QED
      BY <2>1, <3>1, <3>2 DEF Narrowed, old
  <2>6. CASE old.left <= old.right
    <3>1. mid \in Int /\ old.left <= mid /\ mid <= old.right
      BY <1>1, <2>4, <2>6, MiddleBetween
    <3>2. mid + 1 \in 1..m /\ ls[mid + 1].line \in Int
      BY <1>1, <2>4, <3>1
    <3>3. CASE ls[mid + 1].line = line
      <4>1. r[n + 1] = old
        BY <2>3, <3>3 DEF Halved
      <4>2. Narrowed(ls, line, r, n + 1) =
               /\ TRUE
               /\ old.left \in 0..Len(ls) /\ old.right \in -1..(Len(ls) - 1)
               /\ \/ old.right - old.left + 1 <= Len(ls) - (n + 1)
                  \/ old.left <= old.right /\ ls[mid + 1].line = line
               /\ sorted => /\ \A k \in DOMAIN ls : k <= old.left => ls[k].line < line
                            /\ \A k \in DOMAIN ls : k > old.right + 1 => ls[k].line > line
        <5> HIDE DEF old
        <5> QED
          BY <2>4, <4>1 DEF Narrowed
      <4> QED
        BY <2>1, <2>6, <3>3, <4>2 DEF Narrowed
    <3>4. CASE ls[mid + 1].line < line
      <4>1. r[n + 1] = [left |-> mid + 1, right |-> old.right]
        <5>1. r[n + 1] = [old EXCEPT !.left = mid + 1]
          BY <2>3, <2>4, <2>6, <3>1, <3>2, <3>4 DEF Halved
        <5> HIDE DEF mid
        <5> QED
          BY <2>4, <5>1
      <4>2. sorted => \A k \in DOMAIN ls : k <= mid + 1 => ls[k].line < line
        BY <1>1, <3>2, <3>4
      <4>3. sorted => \A k \in DOMAIN ls : k > old.right + 1 => ls[k].line > line
        BY <2>1 DEF Narrowed
      <4>4. ~(ls[mid + 1].line = line)
        BY <3>2, <3>4
      <4>5. old.right - old.left + 1 <= m - n
        BY <2>1, <4>4 DEF Narrowed
      <4>6. old.right - (mid + 1) + 1 <= m - (n + 1)
        BY <1>1, <2>4, <3>1, <4>5
      <4>7. mid + 1 \in 0..m
        BY <1>1, <2>4, <3>1
      <4> HIDE DEF mid, old
      <4> QED
        BY <2>4, <4>1, <4>2, <4>3, <4>6, <4>7 DEF Narrowed
    <3>5. CASE ls[mid + 1].line > line
      <4>1. r[n + 1] = [left |-> old.left, right |-> mid - 1]
        <5>1. r[n + 1] = [old EXCEPT !.right = mid - 1]
          BY <2>3, <2>4, <2>6, <3>1, <3>2, <3>5 DEF Halved
        <5> HIDE DEF mid
        <5> QED
          BY <2>4, <5>1
      <4>2. sorted => \A k \in DOMAIN ls : k > mid => ls[k].line > line
        BY <1>1, <3>1, <3>2, <3>5
      <4>3. sorted => \A k \in DOMAIN ls : k <= old.left => ls[k].line < line
        BY <2>1 DEF Narrowed
      <4>4. ~(ls[mid + 1].line = line)
        BY <3>2, <3>5
      <4>5. old.right - old.left + 1 <= m - n
        BY <2>1, <4>4 DEF Narrowed
      <4>6. (mid - 1) - old.left + 1 <= m - (n + 1)
        BY <1>1, <2>4, <3>1, <4>5
      <4>7. mid - 1 \in -1..(m - 1) /\ (mid - 1) + 1 = mid
        BY <1>1, <2>4, <3>1
      <4> HIDE DEF mid, old
      <4> QED
        BY <2>4, <4>1, <4>2, <4>3, <4>6, <4>7 DEF Narrowed
    <3> QED
      BY <1>1, <3>2, <3>3, <3>4, <3>5
  <2> QED
    BY <2>4, <2>5, <2>6
<1>4. \A n \in Nat : n \in G
  <2> HIDE DEF G
  <2> QED
    BY <1>2, <1>3, SetInduction
<1> QED
  BY <1>1, <1>4

(* The search returns the offset of an entry for the line, or -1; and it   *)
(* misses no entry when the lines do not descend.                          *)
LEMMA SearchFinds ==
    ASSUME NEW st, NEW line \in Int, st.lines \in LinesType
    PROVE  \/ \E k \in DOMAIN st.lines : /\ st.lines[k].line = line
                                          /\ st.lines[k].offset
                                                = compiler_find_line_offset(st, line)
           \/ /\ compiler_find_line_offset(st, line) = -1
              /\ (\A i, j \in DOMAIN st.lines : i < j =>
                     st.lines[i].line <= st.lines[j].line) =>
                    \A k \in DOMAIN st.lines : st.lines[k].line # line
<1> DEFINE ls == st.lines
           m == Len(ls)
<1>1. m \in Nat /\ DOMAIN ls = 1..m /\ \A k \in 1..m : ls[k].line \in Int
  BY LinesTyped
<1>2. PICK r : /\ IsSearch(ls, line, r)
               /\ compiler_find_line_offset(st, line) =
                     IF r[m].left > r[m].right THEN -1 ELSE ls[Middle(r[m]) + 1].offset
  BY SearchUnfolds
<1>3. Narrowed(ls, line, r, m)
  BY <1>1, <1>2, SearchNarrows
<1>4. r[m].left \in 0..m /\ r[m].right \in -1..(m - 1)
  BY <1>3 DEF Narrowed
<1>5. CASE r[m].left > r[m].right
  <2>1. ASSUME NEW k \in DOMAIN ls PROVE k <= r[m].left \/ k > r[m].right + 1
    BY <1>1, <1>4, <1>5
  <2>2. (\A i, j \in DOMAIN ls : i < j => ls[i].line <= ls[j].line) =>
           \A k \in DOMAIN ls : ls[k].line # line
    BY <1>1, <1>3, <2>1 DEF Narrowed
  <2> QED
    BY <1>2, <1>5, <2>2
<1>6. CASE r[m].left <= r[m].right
  <2>1. Middle(r[m]) \in Int /\ r[m].left <= Middle(r[m]) /\ Middle(r[m]) <= r[m].right
    BY <1>1, <1>4, <1>6, MiddleBetween
  <2>2. Middle(r[m]) + 1 \in DOMAIN ls
    BY <1>1, <1>4, <2>1
  <2>3. ls[Middle(r[m]) + 1].line = line
    BY <1>1, <1>3, <1>4, <1>6 DEF Narrowed
  <2> QED
    BY <1>1, <1>2, <1>4, <1>6, <2>2, <2>3
<1> QED
  BY <1>1, <1>4, <1>5, <1>6

-----------------------------------------------------------------------------
(* What calls do, one after the other.                                     *)

(* The calls take s to u: R has the calls with what each takes to what.    *)
Chain(R, calls, s, u) ==
    \E b : /\ b[1] = s /\ b[Len(calls) + 1] = u
           /\ \A i \in 1..Len(calls) : <<calls[i], b[i], b[i + 1]>> \in R

(* No call does nothing, and nothing else.                                 *)
LEMMA ChainNone ==
    ASSUME NEW R, NEW s, NEW u
    PROVE  Chain(R, <<>>, s, u) <=> s = u
<1>1. ASSUME s = u PROVE Chain(R, <<>>, s, u)
  <2> DEFINE b == [i \in {1} |-> s]
  <2>1. b[1] = s /\ b[Len(<<>>) + 1] = u /\ \A i \in 1..Len(<<>>) : FALSE
    BY <1>1
  <2> HIDE DEF b
  <2> QED
    BY <2>1 DEF Chain
<1>2. ASSUME Chain(R, <<>>, s, u) PROVE s = u
  BY <1>2 DEF Chain
<1> QED
  BY <1>1, <1>2

(* One call does what it does.                                             *)
LEMMA ChainOne ==
    ASSUME NEW R, NEW c, NEW s, NEW u, <<c, s, u>> \in R
    PROVE  Chain(R, <<c>>, s, u)
<1> DEFINE b == [i \in 1..2 |-> IF i = 1 THEN s ELSE u]
<1>1. b[1] = s /\ b[2] = u /\ Len(<<c>>) = 1 /\ <<c>>[1] = c
  OBVIOUS
<1>2. \A i \in 1..Len(<<c>>) : i = 1
  OBVIOUS
<1> HIDE DEF b
<1>3. \A i \in 1..Len(<<c>>) : <<<<c>>[i], b[i], b[i + 1]>> \in R
  BY <1>1, <1>2
<1> QED
  BY <1>1, <1>3 DEF Chain

(* Calls followed by calls.                                                *)
LEMMA ChainJoin ==
    ASSUME NEW R, NEW C, NEW p \in Seq(C), NEW q \in Seq(C), NEW s, NEW t, NEW u,
           Chain(R, p, s, t), Chain(R, q, t, u)
    PROVE  Chain(R, p \o q, s, u)
<1> DEFINE m == Len(p)
           n == Len(q)
<1>1. PICK b : /\ b[1] = s /\ b[m + 1] = t
               /\ \A i \in 1..m : <<p[i], b[i], b[i + 1]>> \in R
  BY DEF Chain
<1>2. PICK d : /\ d[1] = t /\ d[n + 1] = u
               /\ \A i \in 1..n : <<q[i], d[i], d[i + 1]>> \in R
  BY DEF Chain
<1> DEFINE both == [i \in 1..(m + n + 1) |-> IF i <= m + 1 THEN b[i] ELSE d[i - m]]
<1>3. m \in Nat /\ n \in Nat /\ Len(p \o q) = m + n
  OBVIOUS
<1>4. both[1] = s
  BY <1>1, <1>3
<1>5. both[m + n + 1] = u
  <2>1. CASE n = 0
    BY <1>1, <1>2, <1>3, <2>1
  <2>2. CASE n # 0
    <3>1. ~(m + n + 1 <= m + 1) /\ (m + n + 1) - m = n + 1 /\ m + n + 1 \in 1..(m + n + 1)
      BY <1>3, <2>2
    <3> QED
      BY <1>2, <3>1
  <2> QED
    BY <2>1, <2>2
<1>6. ASSUME NEW i \in 1..(m + n) PROVE <<(p \o q)[i], both[i], both[i + 1]>> \in R
  <2>1. CASE i <= m
    <3>1. i \in 1..m /\ i <= m + 1 /\ i + 1 <= m + 1
          /\ i \in 1..(m + n + 1) /\ i + 1 \in 1..(m + n + 1)
      BY <1>3, <2>1
    <3>2. (p \o q)[i] = p[i]
      BY <3>1
    <3> QED
      BY <1>1, <3>1, <3>2
  <2>2. CASE i > m
    <3> DEFINE j == i - m
    <3>1. j \in 1..n /\ i \in 1..(m + n + 1) /\ i + 1 \in 1..(m + n + 1)
          /\ (i + 1) - m = j + 1 /\ ~(i + 1 <= m + 1) /\ (i <= m + 1 <=> i = m + 1)
          /\ (i = m + 1 => j = 1)
      BY <1>3, <2>2
    <3>2. (p \o q)[i] = q[j]
      BY <1>3, <2>2
    <3>3. both[i + 1] = d[j + 1]
      BY <3>1
    <3>4. both[i] = d[j]
      BY <1>1, <1>2, <3>1
    <3> HIDE DEF j, both
    <3> QED
      BY <1>2, <3>1, <3>2, <3>3, <3>4
  <2>3. i <= m \/ i > m
    BY <1>3
  <2> QED
    BY <2>1, <2>2, <2>3
<1> HIDE DEF both
<1> QED
  BY <1>3, <1>4, <1>5, <1>6 DEF Chain

(* The first call, and those after it.                                     *)
LEMMA ChainHead ==
    ASSUME NEW R, NEW C, NEW p \in Seq(C), p # <<>>, NEW s, NEW u, Chain(R, p, s, u)
    PROVE  \E t : <<Head(p), s, t>> \in R /\ Chain(R, Tail(p), t, u)
<1> DEFINE m == Len(p)
<1>1. PICK b : /\ b[1] = s /\ b[m + 1] = u
               /\ \A i \in 1..m : <<p[i], b[i], b[i + 1]>> \in R
  BY DEF Chain
<1>2. m \in Nat /\ m # 0 /\ Head(p) = p[1] /\ Len(Tail(p)) = m - 1
      /\ \A i \in 1..(m - 1) : Tail(p)[i] = p[i + 1]
  OBVIOUS
<1> DEFINE rest == [i \in 1..m |-> b[i + 1]]
<1>3. rest[1] = b[2] /\ rest[(m - 1) + 1] = u
  BY <1>1, <1>2
<1>4. ASSUME NEW i \in 1..(m - 1) PROVE <<Tail(p)[i], rest[i], rest[i + 1]>> \in R
  <2>1. i \in 1..m /\ i + 1 \in 1..m
    BY <1>2
  <2>2. rest[i] = b[i + 1] /\ rest[i + 1] = b[i + 1 + 1] /\ Tail(p)[i] = p[i + 1]
    BY <1>2, <2>1
  <2> HIDE DEF rest
  <2> QED
    BY <1>1, <2>1, <2>2
<1>5. Chain(R, Tail(p), b[2], u)
  <2> HIDE DEF rest
  <2> QED
    BY <1>2, <1>3, <1>4 DEF Chain
<1>6. <<Head(p), s, b[1 + 1]>> \in R
  <2>1. 1 \in 1..m
    BY <1>2
  <2> QED
    BY <1>1, <1>2, <2>1
<1> QED
  BY <1>5, <1>6

(* Calls that each do nothing do nothing together.                         *)
LEMMA ChainLoop ==
    ASSUME NEW R, NEW p, NEW s, Len(p) \in Nat,
           \A i \in 1..Len(p) : <<p[i], s, s>> \in R
    PROVE  Chain(R, p, s, s)
<1> DEFINE b == [i \in 1..(Len(p) + 1) |-> s]
<1>1. b[1] = s /\ b[Len(p) + 1] = s
  OBVIOUS
<1>2. ASSUME NEW i \in 1..Len(p) PROVE <<p[i], b[i], b[i + 1]>> \in R
  <2>1. b[i] = s /\ b[i + 1] = s
    OBVIOUS
  <2> QED
    BY <2>1
<1> HIDE DEF b
<1> QED
  BY <1>1, <1>2 DEF Chain

-----------------------------------------------------------------------------
(* Sequences put together.                                                 *)

(* What FlattenSeq puts together, part by part.                            *)
LEMMA FlattenPrefixes ==
    ASSUME NEW S, NEW C \in Seq(Seq(S))
    PROVE  \E F \in [0..Len(C) -> Seq(S)] :
              /\ F[0] = <<>>
              /\ \A i \in 1..Len(C) : F[i] = F[i - 1] \o C[i]
              /\ FlattenSeq(C) = F[Len(C)]
<1> DEFINE n == Len(C)
           Unfolds(m, g) == g = [i \in 1..m |-> IF i = 1 THEN C[i]
                                                 ELSE g[i - 1] \o C[i]]
<1>1. n \in Nat /\ \A i \in 1..n : C[i] \in Seq(S)
  OBVIOUS
<1>2. CASE n = 0
  <2> DEFINE F == [i \in 0..0 |-> <<>>]
  <2>1. C = <<>> /\ FlattenSeq(C) = C
    BY <1>2 DEF FlattenSeq
  <2>2. F \in [0..n -> Seq(S)] /\ F[0] = <<>> /\ F[n] = <<>>
    BY <1>2
  <2> HIDE DEF F
  <2> QED
    BY <1>2, <2>1, <2>2
<1>3. CASE n # 0
  <2>1. ASSUME NEW m \in Nat PROVE \E g : Unfolds(m, g)
    <3> DEFINE G == {k \in Nat : \E g : Unfolds(k, g)}
    <3>1. 0 \in G
      <4>1. Unfolds(0, [i \in 1..0 |-> <<>>])
        OBVIOUS
      <4> QED
        BY <4>1
    <3>2. ASSUME NEW k \in Nat, k \in G PROVE k + 1 \in G
      <4>1. PICK g : Unfolds(k, g)
        BY <3>2
      <4> DEFINE last == IF k + 1 = 1 THEN C[k + 1] ELSE g[k] \o C[k + 1]
                 longer == [i \in 1..(k + 1) |-> IF i = k + 1 THEN last ELSE g[i]]
      <4>2. ASSUME NEW i \in 1..(k + 1)
            PROVE  longer[i] = IF i = 1 THEN C[i] ELSE longer[i - 1] \o C[i]
        <5>1. CASE i = k + 1
          <6>1. i - 1 = k /\ (i # 1 => k \in 1..(k + 1) /\ k # k + 1)
            BY <5>1
          <6> QED
            BY <5>1, <6>1
        <5>2. CASE i # k + 1
          <6>1. i \in 1..k
            BY <5>2
          <6>2. g[i] = IF i = 1 THEN C[i] ELSE g[i - 1] \o C[i]
            BY <4>1, <6>1
          <6>3. i # 1 => i - 1 \in 1..(k + 1) /\ i - 1 # k + 1
            OBVIOUS
          <6> QED
            BY <5>2, <6>2, <6>3
        <5> QED
          BY <5>1, <5>2
      <4>3. Unfolds(k + 1, longer)
        BY <4>2
      <4>4. k + 1 \in Nat
        OBVIOUS
      <4> HIDE DEF Unfolds, longer
      <4> QED
        BY <4>3, <4>4
    <3> HIDE DEF G
    <3>3. m \in G
      BY <3>1, <3>2, SetInduction
    <3> QED
      BY <3>3 DEF G
  <2> DEFINE flatten == CHOOSE g : Unfolds(n, g)
  <2>2. Unfolds(n, flatten)
    BY <1>1, <2>1
  <2>3. FlattenSeq(C) = flatten[n]
    BY <1>3 DEF FlattenSeq
  <2> HIDE DEF flatten
  <2>4. \A i \in 1..n : flatten[i] = IF i = 1 THEN C[i] ELSE flatten[i - 1] \o C[i]
    BY <2>2
  <2>5. ASSUME NEW k \in 1..n PROVE flatten[k] \in Seq(S)
    <3> DEFINE G == {j \in Nat : j + 1 \in 1..n => flatten[j + 1] \in Seq(S)}
    <3>1. 0 \in G
      <4>1. 0 + 1 = 1 /\ (1 \in 1..n => flatten[1] = C[1])
        BY <2>4
      <4>2. 1 \in 1..n => flatten[1] \in Seq(S)
        BY <1>1, <4>1
      <4> QED
        BY <4>1, <4>2
    <3>2. ASSUME NEW j \in Nat, j \in G PROVE j + 1 \in G
      <4> SUFFICES ASSUME j + 1 + 1 \in 1..n PROVE flatten[j + 1 + 1] \in Seq(S)
        OBVIOUS
      <4>1. j + 1 \in 1..n /\ (j + 1 + 1) - 1 = j + 1 /\ j + 1 + 1 # 1
        BY <1>1
      <4>2. flatten[j + 1] \in Seq(S) /\ C[j + 1 + 1] \in Seq(S)
        BY <1>1, <3>2, <4>1
      <4>3. flatten[j + 1 + 1] = flatten[j + 1] \o C[j + 1 + 1]
        BY <2>4, <4>1
      <4> QED
        BY <4>2, <4>3, ConcatProperties
    <3>3. k - 1 \in Nat /\ (k - 1) + 1 = k
      BY <1>1
    <3> HIDE DEF G
    <3>4. k - 1 \in G
      BY <3>1, <3>2, <3>3, SetInduction
    <3> QED
      BY <3>3, <3>4 DEF G
  <2> DEFINE F == [i \in 0..n |-> IF i = 0 THEN <<>> ELSE flatten[i]]
  <2>6. F \in [0..n -> Seq(S)]
    BY <1>1, <2>5
  <2>7. F[0] = <<>> /\ F[n] = flatten[n]
    BY <1>1, <1>3
  <2>8. ASSUME NEW i \in 1..n PROVE F[i] = F[i - 1] \o C[i]
    <3>1. F[i] = flatten[i] /\ i - 1 \in 0..n
      BY <1>1
    <3>2. CASE i = 1
      <4>1. F[i - 1] = <<>> /\ F[i] = C[i]
        BY <2>4, <3>1, <3>2
      <4> QED
        BY <1>1, <4>1, ConcatEmptySeq
    <3>3. CASE i # 1
      <4>1. F[i - 1] = flatten[i - 1]
        BY <3>1, <3>3
      <4> QED
        BY <2>4, <3>1, <3>3, <4>1
    <3> QED
      BY <3>2, <3>3
  <2> HIDE DEF F
  <2> QED
    BY <2>3, <2>6, <2>7, <2>8
<1> QED
  BY <1>2, <1>3

-----------------------------------------------------------------------------
(* The targets of an ON.                                                   *)

(* The constants among the targets of an ON are some of its targets.       *)
LEMMA ConstantTargetsTyped ==
    ASSUME NEW S, NEW s, s.targets \in Seq(S)
    PROVE  ConstantTargets(s) \in
              Seq({e \in S : IsConstant(e) /\ \E j \in DOMAIN s.targets : e = s.targets[j]})
<1> DEFINE ts == s.targets
           m == Len(ts)
           D == {e \in S : IsConstant(e) /\ \E j \in DOMAIN ts : e = ts[j]}
           Body(g, n) == IF n = 0 THEN <<>>
                         ELSE IF IsConstant(ts[n]) THEN Append(g[n - 1], ts[n])
                         ELSE g[n - 1]
           Unfolds(k, g) == g = [n \in 0..k |-> Body(g, n)]
           G == {k \in Nat : \E g : Unfolds(k, g)}
<1>1. m \in Nat /\ DOMAIN ts = 1..m /\ \A i \in 1..m : ts[i] \in S
  OBVIOUS
<1>2. 0 \in G
  <2>1. Unfolds(0, [n \in 0..0 |-> <<>>])
    OBVIOUS
  <2> QED
    BY <2>1
<1>3. ASSUME NEW k \in Nat, k \in G PROVE k + 1 \in G
  <2>1. PICK g : Unfolds(k, g)
    BY <1>3
  <2> DEFINE longer == [n \in 0..(k + 1) |-> IF n = k + 1 THEN Body(g, n) ELSE g[n]]
  <2>2. ASSUME NEW n \in 0..(k + 1) PROVE longer[n] = Body(longer, n)
    <3>1. n # 0 => n - 1 \in 0..(k + 1) /\ n - 1 # k + 1 /\ longer[n - 1] = g[n - 1]
      OBVIOUS
    <3>2. Body(longer, n) = Body(g, n)
      BY <3>1
    <3> HIDE DEF Body
    <3>3. n # k + 1 => n \in 0..k
      OBVIOUS
    <3>4. n # k + 1 => g[n] = Body(g, n)
      BY <2>1, <3>3
    <3> QED
      BY <3>2, <3>4
  <2>3. Unfolds(k + 1, longer)
    <3> HIDE DEF Body
    <3> QED
      BY <2>2
  <2> HIDE DEF Unfolds, longer
  <2> QED
    BY <2>3
<1>4. m \in G
  <2> HIDE DEF G
  <2> QED
    BY <1>1, <1>2, <1>3, SetInduction
<1> DEFINE upto == CHOOSE g : Unfolds(m, g)
<1>5. Unfolds(m, upto)
  <2> HIDE DEF Unfolds
  <2> QED
    BY <1>4
<1>6. ConstantTargets(s) = upto[m]
  BY DEF ConstantTargets
<1> HIDE DEF upto
<1> DEFINE H == {n \in Nat : n \in 0..m => upto[n] \in Seq(D)}
<1>7. 0 \in H
  BY <1>1, <1>5
<1>8. ASSUME NEW n \in Nat, n \in H PROVE n + 1 \in H
  <2> SUFFICES ASSUME n + 1 \in 0..m PROVE upto[n + 1] \in Seq(D)
    OBVIOUS
  <2>1. n \in 0..m /\ n + 1 \in 1..m /\ n + 1 # 0 /\ (n + 1) - 1 = n
    BY <1>1
  <2>2. upto[n] \in Seq(D)
    BY <1>8, <2>1
  <2>3. upto[n + 1] = IF IsConstant(ts[n + 1]) THEN Append(upto[n], ts[n + 1]) ELSE upto[n]
    BY <1>5, <2>1
  <2>4. IsConstant(ts[n + 1]) => ts[n + 1] \in D
    BY <1>1, <2>1
  <2> HIDE DEF D
  <2> QED
    BY <2>2, <2>3, <2>4
<1>9. m \in H
  <2> HIDE DEF H
  <2> QED
    BY <1>1, <1>7, <1>8, SetInduction
<1> QED
  BY <1>1, <1>6, <1>9

-----------------------------------------------------------------------------
(* The references of a statement.                                          *)

(* References, of what the references of the nested statements are.        *)
ReferencesFrom(refs, s) ==
    IF s.k = "if"
    THEN FlattenSeq([i \in DOMAIN s.then |-> refs[s.then[i]]])
         \o (IF s.else = <<>> THEN <<>> ELSE <<Skip>> \o refs[s.else[1]])
    ELSE OwnReferences(s)

(* The parts of an IF.                                                     *)
LEMMA IfParts ==
    ASSUME NEW s \in StatementTree, s.k = "if"
    PROVE  /\ s.e \in ParseTree /\ s.then \in Seq(StatementTree)
           /\ s.else \in Seq(StatementTree) /\ Len(s.else) \in 0..1
           /\ \A i \in 1..Len(s.then) : /\ s.then[i] \in StatementTree
                                        /\ Depth[s.then[i]] < Depth[s]
           /\ s.else # <<>> => /\ s.else[1] \in StatementTree
                               /\ Depth[s.else[1]] < Depth[s]
<1>1. IsStatement(s)
  BY SyntaxAssumption
<1>2. /\ s.e \in ParseTree /\ s.then \in Seq(StatementTree)
      /\ s.else \in Seq(StatementTree) /\ Len(s.else) \in 0..1
      /\ \A t \in ToSet(s.then) \cup ToSet(s.else) : Depth[t] < Depth[s]
  BY <1>1 DEF IsStatement
<1>3. \A i \in 1..Len(s.then) : s.then[i] \in StatementTree /\ s.then[i] \in ToSet(s.then)
  BY <1>2 DEF ToSet
<1>4. s.else # <<>> => 1 \in DOMAIN s.else /\ s.else[1] \in StatementTree
                       /\ s.else[1] \in ToSet(s.else)
  BY <1>2 DEF ToSet
<1> QED
  BY <1>2, <1>3, <1>4

(* Only the nested statements, which are less deep, matter.                *)
LEMMA ReferencesLocal ==
    ASSUME NEW s \in StatementTree, NEW f, NEW g,
           \A t \in StatementTree : Depth[t] < Depth[s] => f[t] = g[t]
    PROVE  ReferencesFrom(f, s) = ReferencesFrom(g, s)
<1>1. CASE s.k = "if"
  <2>1. [i \in DOMAIN s.then |-> f[s.then[i]]] = [i \in DOMAIN s.then |-> g[s.then[i]]]
    <3>1. s.then \in Seq(StatementTree)
      BY <1>1, IfParts
    <3>2. \A i \in DOMAIN s.then : f[s.then[i]] = g[s.then[i]]
      BY <1>1, <3>1, IfParts
    <3> QED
      BY <3>2
  <2>2. s.else # <<>> => f[s.else[1]] = g[s.else[1]]
    BY <1>1, IfParts
  <2> QED
    BY <1>1, <2>1, <2>2 DEF ReferencesFrom
<1>2. CASE s.k # "if"
  BY <1>2 DEF ReferencesFrom
<1> QED
  BY <1>1, <1>2

(* The references of a statement, from those of the statements in it.      *)
LEMMA ReferencesUnfold ==
    ASSUME NEW s \in StatementTree
    PROVE  References[s] = ReferencesFrom(References, s)
<1> DEFINE Shallow(n) == {t \in StatementTree : Depth[t] < n}
           Unfolds(n, g) == g = [t \in Shallow(n) |-> ReferencesFrom(g, t)]
           G == {n \in Nat : \E g : Unfolds(n, g)}
<1>1. \A t \in StatementTree : Depth[t] \in Nat
  BY SyntaxAssumption
<1>2. 0 \in G
  <2>1. Shallow(0) = {}
    BY <1>1
  <2>2. Unfolds(0, [t \in {} |-> <<>>])
    BY <2>1
  <2> QED
    BY <2>2
<1>3. ASSUME NEW n \in Nat, n \in G PROVE n + 1 \in G
  <2>1. PICK g : Unfolds(n, g)
    BY <1>3
  <2> DEFINE h == [t \in Shallow(n + 1) |-> ReferencesFrom(g, t)]
  <2>2. ASSUME NEW t \in Shallow(n) PROVE t \in Shallow(n + 1) /\ h[t] = g[t]
    <3>1. t \in Shallow(n + 1)
      BY <1>1
    <3>2. g[t] = ReferencesFrom(g, t)
      BY <2>1
    <3> QED
      BY <3>1, <3>2
  <2>3. ASSUME NEW t \in Shallow(n + 1) PROVE ReferencesFrom(g, t) = ReferencesFrom(h, t)
    <3>1. ASSUME NEW u \in StatementTree, Depth[u] < Depth[t] PROVE g[u] = h[u]
      <4>1. u \in Shallow(n)
        BY <1>1, <3>1
      <4> QED
        BY <2>2, <4>1
    <3> HIDE DEF h
    <3> QED
      BY <3>1, ReferencesLocal
  <2>4. Unfolds(n + 1, h)
    BY <2>3
  <2> HIDE DEF h, Unfolds
  <2> QED
    BY <2>4
<1>4. ASSUME NEW n \in Nat PROVE \E g : Unfolds(n, g)
  <2> HIDE DEF G
  <2>1. n \in G
    BY <1>2, <1>3, SetInduction
  <2> QED
    BY <2>1 DEF G
<1> DEFINE At(n) == CHOOSE g : Unfolds(n, g)
<1>5. ASSUME NEW n \in Nat PROVE Unfolds(n, At(n))
  <2> HIDE DEF Unfolds
  <2> QED
    BY <1>4
<1> HIDE DEF At
<1>6. ASSUME NEW m \in Nat, NEW n \in Nat, NEW t \in Shallow(m), t \in Shallow(n)
      PROVE  At(m)[t] = At(n)[t]
  <2> DEFINE H == {d \in Nat : \A u \in Shallow(d) : u \in Shallow(m) /\ u \in Shallow(n) =>
                                   At(m)[u] = At(n)[u]}
  <2>1. 0 \in H
    BY <1>1
  <2>2. ASSUME NEW d \in Nat, d \in H PROVE d + 1 \in H
    <3> SUFFICES ASSUME NEW u \in Shallow(d + 1), u \in Shallow(m), u \in Shallow(n)
                 PROVE  At(m)[u] = At(n)[u]
      OBVIOUS
    <3>1. At(m)[u] = ReferencesFrom(At(m), u) /\ At(n)[u] = ReferencesFrom(At(n), u)
      BY <1>5
    <3>2. ASSUME NEW v \in StatementTree, Depth[v] < Depth[u] PROVE At(m)[v] = At(n)[v]
      <4>1. v \in Shallow(d) /\ v \in Shallow(m) /\ v \in Shallow(n)
        BY <1>1, <3>2
      <4> QED
        BY <2>2, <4>1
    <3>3. ReferencesFrom(At(m), u) = ReferencesFrom(At(n), u)
      BY <3>2, ReferencesLocal
    <3> QED
      BY <3>1, <3>3
  <2>3. Depth[t] + 1 \in Nat
    BY <1>1
  <2>4. Depth[t] + 1 \in H
    <3> HIDE DEF H
    <3> QED
      BY <2>1, <2>2, <2>3, SetInduction
  <2>5. t \in Shallow(Depth[t] + 1)
    BY <1>1
  <2> QED
    BY <2>4, <2>5, <1>6
<1> DEFINE all == [t \in StatementTree |-> At(Depth[t] + 1)[t]]
<1>7. ASSUME NEW t \in StatementTree PROVE all[t] = ReferencesFrom(all, t)
  <2>1. Depth[t] + 1 \in Nat /\ t \in Shallow(Depth[t] + 1)
    BY <1>1
  <2>2. all[t] = ReferencesFrom(At(Depth[t] + 1), t)
    BY <1>5, <2>1
  <2>3. ASSUME NEW u \in StatementTree, Depth[u] < Depth[t]
        PROVE  At(Depth[t] + 1)[u] = all[u]
    <3>1. Depth[u] + 1 \in Nat /\ u \in Shallow(Depth[u] + 1) /\ u \in Shallow(Depth[t] + 1)
      BY <1>1, <2>3
    <3> QED
      BY <1>6, <2>1, <3>1
  <2>4. ReferencesFrom(At(Depth[t] + 1), t) = ReferencesFrom(all, t)
    <3> HIDE DEF all
    <3> QED
      BY <2>3, ReferencesLocal
  <2> QED
    BY <2>2, <2>4
<1>8. all = [t \in StatementTree |-> ReferencesFrom(all, t)]
  BY <1>7
<1> HIDE DEF all
<1>9. References = [t \in StatementTree |-> ReferencesFrom(References, t)]
  <2>1. References = CHOOSE f : f = [t \in StatementTree |-> ReferencesFrom(f, t)]
    BY DEF References, ReferencesFrom
  <2>2. \E f : f = [t \in StatementTree |-> ReferencesFrom(f, t)]
    BY <1>8
  <2> QED
    BY <2>1, <2>2
<1> QED
  BY <1>9

-----------------------------------------------------------------------------
(* The types of the compiler's state and of its calls.                     *)

(* The opcodes emitted without an operand.                                 *)
NoOperandOps ==
    ExpressionOps \cup SimpleOps \cup StatementOps
    \cup {"JUMP_LINE", "GOSUB_LINE", "RESTORE_LINE", "RANDOMIZE", "SET_PRINT_CHANNEL",
          "PRINT_TAB", "PRINT_STR", "PRINT_NUM", "PRINT_NEWLINE"}

VariableOps == {"PUSH_VAR", "POP_VAR", "STR_PUSH_VAR", "STR_POP_VAR", "FOR_INIT",
                "DATA_READ_NUM", "DATA_READ_STR", "INPUT_NUM", "INPUT_STR"}
Opcode ==
    NoOperandOps \cup VariableOps \cup JumpOps \cup OnOps \cup DimOps \cup NumArrayOps
    \cup StrArrayOps
    \cup {"NOP", "PUSH_CONST", "STR_PUSH", "INPUT_PROMPT", "FOR_NEXT", "RESTORE"}

Operand   == Number \cup Text \cup Slot \cup {NoVar} \cup Nat
InstType  == [op : Opcode, arg : Operand]
FixupType == [pc : Nat, line : Word]
StateType == [code : Seq(InstType), lines : LinesType, data : Seq(DataEntryType),
              fixups : Seq(FixupType), error : BOOLEAN]

(* The operand of an instruction that is not a jump.                       *)
OperandFits(op, arg) ==
    /\ op = "PUSH_CONST" => arg \in Number
    /\ op \in {"STR_PUSH", "INPUT_PROMPT"} => arg \in Text
    /\ op \in VariableOps => arg \in Slot
    /\ op \in DimOps => arg \in Slot
    /\ op \in NumArrayOps => arg \in Slot \ StringSlot
    /\ op \in StrArrayOps => arg \in StringSlot
    /\ op = "FOR_NEXT" => arg \in Slot \cup {NoVar}
    /\ op \in OnOps => arg \in Nat

ReferenceOps == {"JUMP", "GOSUB", "TRAP", "NOP"}
PlainEmit == {c \in [call : {"emit"}, op : Opcode, arg : Operand] :
                 c.op \notin JumpOps \cup {"NOP"} /\ OperandFits(c.op, c.arg)}
ReferenceCall == [call : {"reference"}, op : ReferenceOps, number : Int]
ExpressionCall == [call : {"expression"}, e : ParseTree]
StatementCall == [call : {"statement"}, stmt : StatementTree]
IfStatement == {s \in StatementTree : s.k = "if"}

(* The calls that come to no jump, whatever they call in their turn.       *)
QuietCall ==
    PlainEmit \cup ExpressionCall
    \cup [call : {"data"}, items : Seq(DataEntryType)]
    \cup {c \in [call : {"next"}, slots : Seq(Slot), i : Nat] : c.i \in 1..Len(c.slots)}
    \cup [call : {"print"}, e : ParseTree \cup Separator]

(* The calls that neither emit an instruction to be patched nor patch one. *)
PlainCall ==
    QuietCall \cup ReferenceCall \cup StatementCall
    \cup [call : {"then"}, stmt : IfStatement]

IfJump == {Emit("JUMP_IF_FALSE", 0), Emit("JUMP", 0)}
PatchCall == [call : {"patch"}, pc : Nat]
ElseCall  == [call : {"else"}, stmt : IfStatement, test : Nat]
CallType  == PlainCall \cup IfJump \cup PatchCall \cup ElseCall

(* An emitted instruction is plain when it is no jump.                     *)
LEMMA EmitQuiet ==
    ASSUME NEW op \in Opcode, NEW arg \in Operand,
           op \notin JumpOps \cup {"NOP"}, OperandFits(op, arg)
    PROVE  Emit(op, arg) \in QuietCall
BY DEF Emit, QuietCall, PlainEmit

(* Those are no jumps, and the operand 0 is as good as any.                *)
LEMMA EmitNoOperandQuiet ==
    ASSUME NEW op \in NoOperandOps
    PROVE  EmitNoOperand(op) \in QuietCall
<1>1. op \in Opcode
  BY DEF Opcode
<1>2. op \notin JumpOps \cup {"NOP"}
  BY DEF NoOperandOps, ExpressionOps, SimpleOps, StatementOps, UnaryOps, BinaryOps,
         CompareOps, StrToNumOps, NumToStrOps, SliceOps, JumpOps
<1>3. op \notin {"PUSH_CONST", "STR_PUSH", "INPUT_PROMPT", "PUSH_VAR", "POP_VAR",
                 "STR_PUSH_VAR", "STR_POP_VAR", "FOR_INIT", "DATA_READ_NUM",
                 "DATA_READ_STR", "INPUT_NUM", "INPUT_STR", "FOR_NEXT"}
                \cup VariableOps \cup DimOps \cup NumArrayOps \cup StrArrayOps \cup OnOps
  BY DEF NoOperandOps, ExpressionOps, SimpleOps, StatementOps, UnaryOps, BinaryOps,
         CompareOps, StrToNumOps, NumToStrOps, SliceOps, DimOps, NumArrayOps, StrArrayOps,
         NumGetOps, NumSetOps, StrGetOps, StrSetOps, OnOps, VariableOps
<1>4. OperandFits(op, 0) /\ 0 \in Operand
  BY <1>3 DEF OperandFits, Operand
<1> QED
  BY <1>1, <1>2, <1>4, EmitQuiet DEF EmitNoOperand

(* A sequence of expressions, compiled.                                    *)
LEMMA ExpressionsQuiet ==
    ASSUME NEW es \in Seq(ParseTree)
    PROVE  /\ Expressions(es) \in Seq(QuietCall)
           /\ Len(Expressions(es)) = Len(es)
           /\ \A i \in 1..Len(es) : Expressions(es)[i] = Expression(es[i])
<1>1. \A i \in DOMAIN es : Expression(es[i]) \in QuietCall
  BY DEF Expression, QuietCall, ExpressionCall
<1>2. DOMAIN es = 1..Len(es) /\ Len(es) \in Nat
  OBVIOUS
<1> QED
  BY <1>1, <1>2 DEF Expressions

(* A sequence of statements, compiled.                                     *)
LEMMA StatementsPlain ==
    ASSUME NEW ss \in Seq(StatementTree)
    PROVE  /\ Statements(ss) \in Seq(PlainCall)
           /\ Len(Statements(ss)) = Len(ss)
           /\ \A i \in 1..Len(ss) : Statements(ss)[i] = Statement(ss[i])
<1>1. \A i \in DOMAIN ss : Statement(ss[i]) \in PlainCall
  BY DEF Statement, PlainCall, QuietCall, StatementCall
<1>2. DOMAIN ss = 1..Len(ss) /\ Len(ss) \in Nat
  OBVIOUS
<1> QED
  BY <1>1, <1>2 DEF Statements

(* The instruction of an access to an array.                               *)
LEMMA AccessQuiet ==
    ASSUME NEW slot \in Slot, NEW n \in Nat
    PROVE  /\ Emit(ReadOp(slot, n), slot) \in QuietCall
           /\ Emit(WriteOp(slot, n), slot) \in QuietCall
<1>1. slot \in Operand
  BY DEF Operand
<1>2. CASE slot \in StringSlot
  <2>1. ReadOp(slot, n) \in StrArrayOps /\ WriteOp(slot, n) \in StrArrayOps
    BY <1>2 DEF ReadOp, WriteOp, IsString, StrArrayOps, StrGetOps, StrSetOps
  <2>2. ASSUME NEW op \in StrArrayOps PROVE Emit(op, slot) \in QuietCall
    <3>1. op \in Opcode /\ op \notin JumpOps \cup {"NOP"}
      BY DEF StrArrayOps, StrGetOps, StrSetOps, JumpOps, Opcode
    <3>2. OperandFits(op, slot)
      BY <1>2 DEF OperandFits, StrArrayOps, StrGetOps, StrSetOps, NumArrayOps, NumGetOps,
                  NumSetOps, DimOps, OnOps, VariableOps
    <3> QED
      BY <1>1, <3>1, <3>2, EmitQuiet
  <2> QED
    BY <2>1, <2>2
<1>3. CASE slot \notin StringSlot
  <2>1. ReadOp(slot, n) \in NumArrayOps /\ WriteOp(slot, n) \in NumArrayOps
    BY <1>3 DEF ReadOp, WriteOp, IsString, NumArrayOps, NumGetOps, NumSetOps
  <2>2. ASSUME NEW op \in NumArrayOps PROVE Emit(op, slot) \in QuietCall
    <3>1. op \in Opcode /\ op \notin JumpOps \cup {"NOP"}
      BY DEF NumArrayOps, NumGetOps, NumSetOps, JumpOps, Opcode
    <3>2. OperandFits(op, slot)
      BY <1>3 DEF OperandFits, StrArrayOps, StrGetOps, StrSetOps, NumArrayOps, NumGetOps,
                  NumSetOps, DimOps, OnOps, VariableOps
    <3> QED
      BY <1>1, <3>1, <3>2, EmitQuiet
  <2> QED
    BY <2>1, <2>2
<1> QED
  BY <1>2, <1>3

(* The instructions that name a variable.                                  *)
LEMMA VariableQuiet ==
    ASSUME NEW slot \in Slot,
           NEW op \in VariableOps \cup DimOps \cup {"FOR_NEXT"}
    PROVE  Emit(op, slot) \in QuietCall
<1>1. op \in Opcode /\ op \notin JumpOps \cup {"NOP"}
  BY DEF DimOps, JumpOps, Opcode, VariableOps
<1>2. OperandFits(op, slot) /\ slot \in Operand
  BY DEF OperandFits, Operand, StrArrayOps, StrGetOps, StrSetOps, NumArrayOps, NumGetOps,
         NumSetOps, DimOps, OnOps, VariableOps
<1> QED
  BY <1>1, <1>2, EmitQuiet

(* The instructions that name a constant.                                  *)
LEMMA ConstantQuiet ==
    /\ \A n \in Number : Emit("PUSH_CONST", n) \in QuietCall
    /\ \A t \in Text : Emit("STR_PUSH", t) \in QuietCall /\ Emit("INPUT_PROMPT", t) \in QuietCall
<1>1. \A op \in {"PUSH_CONST", "STR_PUSH", "INPUT_PROMPT"} :
         op \in Opcode /\ op \notin JumpOps \cup {"NOP"}
  BY DEF JumpOps, Opcode
<1>2. \A n \in Number : OperandFits("PUSH_CONST", n) /\ n \in Operand
  BY DEF OperandFits, Operand, StrArrayOps, StrGetOps, StrSetOps, NumArrayOps, NumGetOps,
         NumSetOps, DimOps, OnOps, VariableOps
<1>3. \A t \in Text : /\ OperandFits("STR_PUSH", t) /\ OperandFits("INPUT_PROMPT", t)
                      /\ t \in Operand
  BY DEF OperandFits, Operand, StrArrayOps, StrGetOps, StrSetOps, NumArrayOps, NumGetOps,
         NumSetOps, DimOps, OnOps, VariableOps
<1> QED
  BY <1>1, <1>2, <1>3, EmitQuiet

-----------------------------------------------------------------------------
(* The calls that a call makes.                                            *)

(* An expression makes plain calls.                                        *)
LEMMA ExpressionQuiet ==
    ASSUME NEW e \in ParseTree
    PROVE  compile_expression(e) \in Seq(QuietCall)
<1>1. IsExpression(e)
  BY SyntaxAssumption
<1>2. CASE e.k = "num" /\ e.val \in Number
  BY <1>2, ConstantQuiet DEF compile_expression
<1>3. CASE e.k = "str" /\ e.val \in Text
  BY <1>3, ConstantQuiet DEF compile_expression
<1>4. CASE e.k = "var" /\ e.slot \in Slot
  BY <1>4, VariableQuiet DEF compile_expression, VariableOps
<1>5. CASE e.k = "elem" /\ e.slot \in Slot /\ e.subs \in Seq(ParseTree)
  <2>1. Emit(ReadOp(e.slot, Len(e.subs)), e.slot) \in QuietCall
    BY <1>5, AccessQuiet
  <2>2. Expressions(e.subs) \in Seq(QuietCall)
    BY <1>5, ExpressionsQuiet
  <2>3. compile_expression(e) =
           Append(Expressions(e.subs), Emit(ReadOp(e.slot, Len(e.subs)), e.slot))
    BY <1>5 DEF compile_expression
  <2> QED
    BY <2>1, <2>2, <2>3
<1>6. CASE e.k = "op" /\ e.op \in ExpressionOps /\ e.args \in Seq(ParseTree)
  <2>1. EmitNoOperand(e.op) \in QuietCall
    BY <1>6, EmitNoOperandQuiet DEF NoOperandOps
  <2>2. Expressions(e.args) \in Seq(QuietCall)
    BY <1>6, ExpressionsQuiet
  <2>3. compile_expression(e) = Append(Expressions(e.args), EmitNoOperand(e.op))
    BY <1>6 DEF compile_expression
  <2> QED
    BY <2>1, <2>2, <2>3
<1> QED
  BY <1>1, <1>2, <1>3, <1>4, <1>5, <1>6 DEF IsExpression

(* The calls of other calls that come to no jump.                          *)
LEMMA OneQuiet ==
    /\ \A e \in ParseTree : Expression(e) \in QuietCall /\ PrintOne(e) \in QuietCall
    /\ \A e \in Separator : PrintOne(e) \in QuietCall
    /\ \A items \in Seq(DataEntryType) : AddData(items) \in QuietCall
    /\ \A slots \in Seq(Slot) : \A i \in 1..Len(slots) : NextOne(slots, i) \in QuietCall
<1>1. \A e \in ParseTree : Expression(e) \in QuietCall
  BY DEF Expression, QuietCall, ExpressionCall
<1>2. \A e \in ParseTree \cup Separator : PrintOne(e) \in QuietCall
  BY DEF PrintOne, QuietCall
<1>5. \A items \in Seq(DataEntryType) : AddData(items) \in QuietCall
  BY DEF AddData, QuietCall
<1>6. ASSUME NEW slots \in Seq(Slot), NEW i \in 1..Len(slots)
      PROVE  NextOne(slots, i) \in QuietCall
  <2>1. i \in Nat
    OBVIOUS
  <2> QED
    BY <2>1 DEF NextOne, QuietCall
<1> QED
  BY <1>1, <1>2, <1>5, <1>6

(* Those that may come to a jump.                                          *)
LEMMA OnePlain ==
    /\ \A s \in StatementTree : Statement(s) \in PlainCall
    /\ \A op \in ReferenceOps, n \in Int : Reference(op, n) \in PlainCall
    /\ \A s \in IfStatement : ThenPart(s) \in PlainCall
<1>3. \A s \in StatementTree : Statement(s) \in PlainCall
  BY DEF Statement, PlainCall, StatementCall
<1>4. \A op \in ReferenceOps, n \in Int : Reference(op, n) \in PlainCall
  BY DEF Reference, PlainCall, ReferenceCall
<1>7. \A s \in IfStatement : ThenPart(s) \in PlainCall
  BY DEF ThenPart, PlainCall
<1> QED
  BY <1>3, <1>4, <1>7

(* A quiet call is a plain one.                                            *)
LEMMA QuietIsPlain ==
    /\ \A c \in QuietCall : c \in PlainCall
    /\ \A q \in Seq(QuietCall) : q \in Seq(PlainCall)
<1>1. QuietCall \subseteq PlainCall
  BY DEF PlainCall
<1> QED
  BY <1>1

(* The number of a constant of a parse tree.                               *)
LEMMA ConstantTyped ==
    ASSUME NEW e \in ParseTree, e.k = "num"
    PROVE  e.val \in Number /\ e.val \in Int
<1>1. IsExpression(e)
  BY SyntaxAssumption
<1> QED
  BY <1>1, SyntaxAssumption DEF IsExpression

(* LET: the subscripts and the value, then the assignment.                 *)
LEMMA LetQuiet ==
    ASSUME NEW s, s.slot \in Slot, s.e \in ParseTree, s.subs \in Seq(ParseTree)
    PROVE  compile_let_stmt(s) \in Seq(QuietCall)
<1> DEFINE n == Len(s.subs)
           op == IF n > 0 THEN WriteOp(s.slot, n)
                 ELSE IF IsString(s.slot) THEN "STR_POP_VAR" ELSE "POP_VAR"
<1>1. Emit(op, s.slot) \in QuietCall
  <2>1. n \in Nat
    OBVIOUS
  <2>2. n > 0 => Emit(op, s.slot) \in QuietCall
    BY <2>1, AccessQuiet
  <2>3. ~(n > 0) => Emit(op, s.slot) \in QuietCall
    BY VariableQuiet DEF VariableOps
  <2> QED
    BY <2>2, <2>3
<1>2. Expressions(s.subs) \in Seq(QuietCall)
  BY ExpressionsQuiet
<1>3. Expression(s.e) \in QuietCall
  BY OneQuiet
<1>4. compile_let_stmt(s) = Expressions(s.subs) \o <<Expression(s.e), Emit(op, s.slot)>>
  BY DEF compile_let_stmt
<1> HIDE DEF op
<1> QED
  BY <1>1, <1>2, <1>3, <1>4

(* DIM: the sizes, then the instruction.                                   *)
LEMMA DimQuiet ==
    ASSUME NEW s, s.slot \in Slot, s.sizes \in Seq(Number)
    PROVE  compile_dim(s) \in Seq(QuietCall)
<1> DEFINE sizes == [i \in DOMAIN s.sizes |-> Emit("PUSH_CONST", s.sizes[i])]
           last == Emit(IF Len(s.sizes) = 2 THEN "DIM_2D" ELSE "DIM_1D", s.slot)
<1>1. sizes \in Seq(QuietCall)
  <2>1. DOMAIN s.sizes = 1..Len(s.sizes) /\ Len(s.sizes) \in Nat
    OBVIOUS
  <2>2. \A i \in 1..Len(s.sizes) : Emit("PUSH_CONST", s.sizes[i]) \in QuietCall
    BY ConstantQuiet
  <2> QED
    BY <2>1, <2>2
<1>2. last \in QuietCall
  BY VariableQuiet DEF DimOps
<1>3. compile_dim(s) = Append(sizes, last)
  BY DEF compile_dim
<1> HIDE DEF sizes, last
<1> QED
  BY <1>1, <1>2, <1>3

(* GOTO and GOSUB of a line computed at run time.                          *)
LEMMA BranchQuiet ==
    ASSUME NEW target \in ParseTree, target.k # "num", NEW op, NEW computed \in NoOperandOps
    PROVE  CompileBranch(target, op, computed) \in Seq(QuietCall)
<1>1. Expression(target) \in QuietCall /\ EmitNoOperand(computed) \in QuietCall
  BY OneQuiet, EmitNoOperandQuiet
<1> QED
  BY <1>1 DEF CompileBranch

(* GOTO and GOSUB.                                                         *)
LEMMA BranchPlain ==
    ASSUME NEW target \in ParseTree, NEW op \in ReferenceOps, NEW computed \in NoOperandOps
    PROVE  CompileBranch(target, op, computed) \in Seq(PlainCall)
<1>1. CASE target.k = "num"
  <2>1. Reference(op, target.val) \in PlainCall
    BY <1>1, ConstantTyped, OnePlain
  <2> QED
    BY <1>1, <2>1 DEF CompileBranch
<1>2. CASE target.k # "num"
  BY <1>2, BranchQuiet, QuietIsPlain
<1> QED
  BY <1>1, <1>2

(* ON: the number, then the table of the constant targets.                 *)
LEMMA OnPlain ==
    ASSUME NEW s, s.e \in ParseTree, s.targets \in Seq(ParseTree), s.gosub \in BOOLEAN
    PROVE  compile_on(s) \in Seq(PlainCall)
<1> DEFINE ct == ConstantTargets(s)
           table == [i \in DOMAIN ct |-> Reference("NOP", ct[i].val)]
           op == IF s.gosub THEN "ON_GOSUB" ELSE "ON_GOTO"
           C == {e \in ParseTree : IsConstant(e) /\ \E j \in DOMAIN s.targets : e = s.targets[j]}
<1>1. ct \in Seq(C)
  BY ConstantTargetsTyped
<1>2. Len(ct) \in Nat /\ DOMAIN ct = 1..Len(ct) /\ \A i \in 1..Len(ct) : ct[i] \in C
  <2> HIDE DEF C, ct
  <2> QED
    BY <1>1, SeqTyped
<1>3. \A i \in 1..Len(ct) : Reference("NOP", ct[i].val) \in PlainCall
  <2>1. ASSUME NEW e \in C PROVE Reference("NOP", e.val) \in PlainCall
    <3>1. e \in ParseTree /\ e.k = "num"
      BY DEF IsConstant
    <3> QED
      BY <3>1, ConstantTyped, OnePlain DEF ReferenceOps
  <2> HIDE DEF C, ct
  <2> QED
    BY <1>2, <2>1
<1>4. table \in Seq(PlainCall)
  <2> HIDE DEF C, ct
  <2> QED
    BY <1>2, <1>3
<1>5. Emit(op, Len(ct)) \in PlainCall
  <2>1. op \in Opcode /\ op \notin JumpOps \cup {"NOP"}
    BY DEF Opcode, OnOps, JumpOps
  <2>2. OperandFits(op, Len(ct)) /\ Len(ct) \in Operand
    BY <1>2 DEF OperandFits, Operand, StrArrayOps, StrGetOps, StrSetOps, NumArrayOps,
            NumGetOps, NumSetOps, DimOps, OnOps, VariableOps
  <2> HIDE DEF op, ct
  <2> QED
    BY <2>1, <2>2, EmitQuiet, QuietIsPlain
<1>6. Expression(s.e) \in PlainCall
  BY OneQuiet, QuietIsPlain
<1>7. compile_on(s) = <<Expression(s.e), Emit(op, Len(ct))>> \o table
  BY DEF compile_on
<1> HIDE DEF op, ct, table
<1> QED
  BY <1>4, <1>5, <1>6, <1>7

(* FOR: the bounds and the step, then the instruction.                     *)
LEMMA ForQuiet ==
    ASSUME NEW s, s.slot \in Slot, s.from \in ParseTree, s.to \in ParseTree
    PROVE  compile_for(s) \in Seq(QuietCall)
<1>1. Expression(s.from) \in QuietCall /\ Expression(s.to) \in QuietCall
  BY OneQuiet
<1>2. Emit("PUSH_CONST", 1) \in QuietCall
  BY ConstantQuiet, SyntaxAssumption
<1>3. Emit("FOR_INIT", s.slot) \in QuietCall
  BY VariableQuiet DEF VariableOps
<1> QED
  BY <1>1, <1>2, <1>3 DEF compile_for

(* NEXT: a call for each variable.                                         *)
LEMMA NextQuiet ==
    ASSUME NEW s, s.slots \in Seq(Slot)
    PROVE  compile_next(s) \in Seq(QuietCall)
<1>1. CASE s.slots = <<>>
  <2>1. "FOR_NEXT" \in Opcode /\ "FOR_NEXT" \notin JumpOps \cup {"NOP"}
    BY DEF Opcode, JumpOps
  <2>2. OperandFits("FOR_NEXT", NoVar) /\ NoVar \in Operand
    BY DEF OperandFits, Operand, StrArrayOps, StrGetOps, StrSetOps, NumArrayOps,
           NumGetOps, NumSetOps, DimOps, OnOps, VariableOps
  <2>3. Emit("FOR_NEXT", NoVar) \in QuietCall
    BY <2>1, <2>2, EmitQuiet
  <2> QED
    BY <1>1, <2>3 DEF compile_next
<1>2. CASE s.slots # <<>>
  <2>1. DOMAIN s.slots = 1..Len(s.slots) /\ Len(s.slots) \in Nat
    OBVIOUS
  <2>2. \A i \in 1..Len(s.slots) : NextOne(s.slots, i) \in QuietCall
    BY <2>1, OneQuiet
  <2> QED
    BY <1>2, <2>1, <2>2 DEF compile_next
<1> QED
  BY <1>1, <1>2

(* One variable of a NEXT.                                                 *)
LEMMA NextVariableQuiet ==
    ASSUME NEW slots \in Seq(Slot), NEW i \in 1..Len(slots)
    PROVE  NextVariable(slots, i) \in Seq(QuietCall)
<1>1. slots[i] \in Slot
  OBVIOUS
<1>2. Emit("FOR_NEXT", slots[i]) \in QuietCall
  BY <1>1, VariableQuiet
<1> QED
  BY <1>2 DEF NextVariable

(* READ: an instruction for each variable.                                 *)
LEMMA ReadQuiet ==
    ASSUME NEW s, s.slots \in Seq(Slot)
    PROVE  compile_read(s) \in Seq(QuietCall)
<1>1. DOMAIN s.slots = 1..Len(s.slots) /\ Len(s.slots) \in Nat
      /\ \A i \in 1..Len(s.slots) : s.slots[i] \in Slot
  OBVIOUS
<1>2. \A i \in 1..Len(s.slots) :
         Emit(IF IsString(s.slots[i]) THEN "DATA_READ_STR" ELSE "DATA_READ_NUM", s.slots[i])
            \in QuietCall
  BY <1>1, VariableQuiet DEF VariableOps
<1> QED
  BY <1>1, <1>2 DEF compile_read

(* RESTORE, with or without a line.                                        *)
LEMMA RestoreQuiet ==
    ASSUME NEW s, s.line \in Seq(ParseTree), Len(s.line) \in 0..1
    PROVE  compile_restore_stmt(s) \in Seq(QuietCall)
<1>1. Emit("RESTORE", 0) \in QuietCall
  <2>1. "RESTORE" \in Opcode /\ "RESTORE" \notin JumpOps \cup {"NOP"}
    BY DEF Opcode, JumpOps
  <2>2. OperandFits("RESTORE", 0) /\ 0 \in Operand
    BY DEF OperandFits, Operand, StrArrayOps, StrGetOps, StrSetOps, NumArrayOps,
           NumGetOps, NumSetOps, DimOps, OnOps, VariableOps
  <2> QED
    BY <2>1, <2>2, EmitQuiet
<1>2. s.line # <<>> => Expression(s.line[1]) \in QuietCall
  <2>1. s.line # <<>> => s.line[1] \in ParseTree
    OBVIOUS
  <2> QED
    BY <2>1, OneQuiet
<1>3. EmitNoOperand("RESTORE_LINE") \in QuietCall
  BY EmitNoOperandQuiet DEF NoOperandOps
<1> QED
  BY <1>1, <1>2, <1>3 DEF compile_restore_stmt

(* RANDOMIZE.                                                              *)
LEMMA RandomizeQuiet ==
    ASSUME NEW s, s.e \in ParseTree
    PROVE  compile_randomize_stmt(s) \in Seq(QuietCall)
<1>1. Expression(s.e) \in QuietCall /\ EmitNoOperand("RANDOMIZE") \in QuietCall
  BY OneQuiet, EmitNoOperandQuiet DEF NoOperandOps
<1> QED
  BY <1>1 DEF compile_randomize_stmt

(* One item of a PRINT.                                                    *)
LEMMA PrintItemQuiet ==
    ASSUME NEW e \in ParseTree \cup Separator
    PROVE  PrintItem(e) \in Seq(QuietCall)
<1>1. EmitNoOperand("PRINT_TAB") \in QuietCall /\ EmitNoOperand("PRINT_STR") \in QuietCall
      /\ EmitNoOperand("PRINT_NUM") \in QuietCall
  BY EmitNoOperandQuiet DEF NoOperandOps
<1>2. e.k # "sep" => e \in ParseTree
  BY DEF Separator
<1>3. e.k # "sep" => Expression(e) \in QuietCall
  BY <1>2, OneQuiet
<1>4. CASE e.k = "sep"
  <2>1. PrintItem(e) = <<EmitNoOperand("PRINT_TAB")>> \/ PrintItem(e) = <<>>
    BY <1>4 DEF PrintItem
  <2>2. <<EmitNoOperand("PRINT_TAB")>> \in Seq(QuietCall) /\ <<>> \in Seq(QuietCall)
    BY <1>1
  <2> QED
    BY <2>1, <2>2
<1>5. CASE e.k # "sep"
  BY <1>1, <1>3, <1>5 DEF PrintItem
<1> QED
  BY <1>4, <1>5

(* The items of a PRINT, and the channel if there is one.                  *)
LEMMA PrintParts ==
    ASSUME NEW s, s.items \in Seq(ParseTree \cup Separator)
    PROVE  /\ (IF HasChannel(s) THEN Tail(s.items) ELSE s.items)
                 \in Seq(ParseTree \cup Separator)
           /\ HasChannel(s) => s.items[1] \in ParseTree
<1>1. HasChannel(s) => s.items # <<>> /\ s.items[1] \in ParseTree \cup Separator
                       /\ s.items[1].k # "sep"
  BY DEF HasChannel, IsOperatorNode
<1>2. \A e \in Separator : e.k = "sep"
  BY DEF Separator
<1> QED
  BY <1>1, <1>2

(* PRINT: the channel, the items and the end of the line.                  *)
LEMMA PrintQuiet ==
    ASSUME NEW s, s.items \in Seq(ParseTree \cup Separator)
    PROVE  compile_print(s) \in Seq(QuietCall)
<1> DEFINE items == IF HasChannel(s) THEN Tail(s.items) ELSE s.items
           open == items # <<>> /\ (items[Len(items)].k = "sep" \/ IsTab(items[Len(items)]))
           channel == IF HasChannel(s)
                      THEN <<Expression(s.items[1]), EmitNoOperand("SET_PRINT_CHANNEL")>>
                      ELSE <<>>
           each == [i \in DOMAIN items |-> PrintOne(items[i])]
           end == IF open THEN <<>> ELSE <<EmitNoOperand("PRINT_NEWLINE")>>
<1>1. EmitNoOperand("SET_PRINT_CHANNEL") \in QuietCall
      /\ EmitNoOperand("PRINT_NEWLINE") \in QuietCall
  BY EmitNoOperandQuiet DEF NoOperandOps
<1>2. channel \in Seq(QuietCall)
  <2>1. HasChannel(s) => Expression(s.items[1]) \in QuietCall
    BY PrintParts, OneQuiet
  <2> QED
    BY <1>1, <2>1
<1>3. items \in Seq(ParseTree \cup Separator)
  BY PrintParts
<1>4. each \in Seq(QuietCall)
  <2> HIDE DEF items
  <2>1. DOMAIN items = 1..Len(items) /\ Len(items) \in Nat
        /\ \A i \in 1..Len(items) : items[i] \in ParseTree \cup Separator
    BY <1>3
  <2>2. \A i \in 1..Len(items) : PrintOne(items[i]) \in QuietCall
    BY <2>1, OneQuiet
  <2> QED
    BY <2>1, <2>2
<1>5. end \in Seq(QuietCall)
  BY <1>1
<1>6. compile_print(s) = channel \o each \o end
  BY DEF compile_print
<1> HIDE DEF channel, each, end
<1> QED
  BY <1>2, <1>4, <1>5, <1>6

(* INPUT: the prompt, then an instruction for each variable.               *)
LEMMA InputQuiet ==
    ASSUME NEW s, s.prompt \in Seq(Text), Len(s.prompt) \in 0..1, s.slots \in Seq(Slot)
    PROVE  compile_input(s) \in Seq(QuietCall)
<1> DEFINE prompt == IF s.prompt = <<>> THEN <<>> ELSE <<Emit("INPUT_PROMPT", s.prompt[1])>>
           each == [i \in DOMAIN s.slots |->
                       Emit(IF IsString(s.slots[i]) THEN "INPUT_STR" ELSE "INPUT_NUM",
                            s.slots[i])]
<1>1. prompt \in Seq(QuietCall)
  <2>1. s.prompt # <<>> => s.prompt[1] \in Text
    OBVIOUS
  <2>2. s.prompt # <<>> => Emit("INPUT_PROMPT", s.prompt[1]) \in QuietCall
    BY <2>1, ConstantQuiet
  <2> QED
    BY <2>2
<1>2. each \in Seq(QuietCall)
  <2>1. DOMAIN s.slots = 1..Len(s.slots) /\ Len(s.slots) \in Nat
        /\ \A i \in 1..Len(s.slots) : s.slots[i] \in Slot
    OBVIOUS
  <2>2. \A i \in 1..Len(s.slots) :
           Emit(IF IsString(s.slots[i]) THEN "INPUT_STR" ELSE "INPUT_NUM", s.slots[i])
              \in QuietCall
    BY <2>1, VariableQuiet DEF VariableOps
  <2> QED
    BY <2>1, <2>2
<1>3. compile_input(s) = prompt \o each
  BY DEF compile_input
<1> HIDE DEF prompt, each
<1> QED
  BY <1>1, <1>2, <1>3

(* The statements that are an opcode: operands, opcode, results.           *)
LEMMA IOQuiet ==
    ASSUME NEW s, s.op \in StatementOps, s.args \in Seq(ParseTree), s.into \in Seq(Slot)
    PROVE  CompileIO(s) \in Seq(QuietCall)
<1> DEFINE n == Len(s.into)
           each == [i \in DOMAIN s.into |-> Emit("POP_VAR", s.into[n + 1 - i])]
<1>1. Expressions(s.args) \in Seq(QuietCall)
  BY ExpressionsQuiet
<1>2. EmitNoOperand(s.op) \in QuietCall
  BY EmitNoOperandQuiet DEF NoOperandOps
<1>3. each \in Seq(QuietCall)
  <2>1. DOMAIN s.into = 1..n /\ n \in Nat
    OBVIOUS
  <2>2. \A i \in 1..n : s.into[n + 1 - i] \in Slot
    BY <2>1
  <2>3. \A i \in 1..n : Emit("POP_VAR", s.into[n + 1 - i]) \in QuietCall
    BY <2>2, VariableQuiet DEF VariableOps
  <2> QED
    BY <2>1, <2>3
<1>4. CompileIO(s) = Append(Expressions(s.args), EmitNoOperand(s.op)) \o each
  BY DEF CompileIO
<1> HIDE DEF each
<1> QED
  BY <1>1, <1>2, <1>3, <1>4

(* The number a statement starts with.                                     *)
LEMMA LeadingTyped ==
    ASSUME NEW s \in StatementTree, Leading(s) # <<>>, Leading(s)[1].k = "num"
    PROVE  Leading(s)[1].val \in Int
<1>1. IsStatement(s)
  BY SyntaxAssumption
<1>2. CASE s.k \in {"line", "trap"}
  BY <1>1, <1>2 DEF IsStatement, Leading
<1>3. CASE s.k \notin {"line", "trap"}
  <2>1. Leading(s)[1] \in ParseTree \cup Separator
    <3>1. CASE s.k \in {"goto", "gosub"}
      BY <1>1, <3>1 DEF IsStatement, Leading
    <3>2. CASE s.k \in {"if", "on", "random"}
      BY <1>1, <3>2 DEF IsStatement, Leading
    <3>3. CASE s.k = "restore"
      <4>1. s.line \in Seq(ParseTree) /\ Len(s.line) \in 0..1 /\ Leading(s) = s.line
        BY <1>1, <3>3 DEF IsStatement, Leading
      <4> QED
        BY <4>1
    <3>4. CASE s.k = "print"
      <4>1. s.items \in Seq(ParseTree \cup Separator)
            /\ Leading(s) = IF s.items # <<>> THEN <<s.items[1]>> ELSE <<>>
        BY <1>1, <3>4 DEF IsStatement, Leading
      <4>2. s.items # <<>> => s.items[1] \in ParseTree \cup Separator
        BY <4>1
      <4> QED
        BY <4>1, <4>2
    <3>5. CASE s.k = "io"
      <4>1. s.args \in Seq(ParseTree) /\ s.args # <<>>
            /\ Leading(s) = IF s.op \in {"POKE", "XIO"} THEN <<s.args[1]>> ELSE <<>>
        BY <1>1, <3>5 DEF IsStatement, Leading
      <4>2. s.args[1] \in ParseTree
        BY <4>1
      <4> QED
        BY <4>1, <4>2
    <3>6. CASE s.k \notin {"goto", "gosub", "if", "on", "random", "restore", "print", "io"}
      BY <1>3, <3>6 DEF Leading
    <3> QED
      BY <3>1, <3>2, <3>3, <3>4, <3>5, <3>6
  <2>2. \A e \in Separator : e.k # "num"
    BY DEF Separator
  <2> QED
    BY <2>1, <2>2, ConstantTyped
<1> QED
  BY <1>2, <1>3

(* The statement of an ELSE.                                               *)
LEMMA ElsePlain ==
    ASSUME NEW s \in StatementTree
    PROVE  compile_else(s) \in Seq(PlainCall)
<1>1. Leading(s) # <<>> /\ Leading(s)[1].k = "num" =>
         Reference("JUMP", Leading(s)[1].val) \in PlainCall
  BY LeadingTyped, OnePlain DEF ReferenceOps
<1>2. Statement(s) \in PlainCall
  BY OnePlain
<1> QED
  BY <1>1, <1>2 DEF compile_else

(* The statements that refer to no line make quiet calls.                  *)
LEMMA StatementQuiet ==
    ASSUME NEW s \in StatementTree, s.k \notin {"if", "line", "trap", "goto", "gosub", "on"}
    PROVE  compile_statement(s) \in Seq(QuietCall)
<1>1. IsStatement(s)
  BY SyntaxAssumption
<1>2. CASE s.k = "let"
  BY <1>1, <1>2, LetQuiet DEF IsStatement, compile_statement
<1>3. CASE s.k = "dim"
  BY <1>1, <1>3, DimQuiet DEF IsStatement, compile_statement
<1>8. CASE s.k = "for"
  BY <1>1, <1>8, ForQuiet DEF IsStatement, compile_statement
<1>9. CASE s.k \in {"next", "read"}
  BY <1>1, <1>9, NextQuiet, ReadQuiet DEF IsStatement, compile_statement
<1>10. CASE s.k = "data"
  BY <1>1, <1>10, OneQuiet DEF IsStatement, compile_statement
<1>11. CASE s.k = "restore"
  BY <1>1, <1>11, RestoreQuiet DEF IsStatement, compile_statement
<1>12. CASE s.k = "random"
  BY <1>1, <1>12, RandomizeQuiet DEF IsStatement, compile_statement
<1>13. CASE s.k = "simple"
  BY <1>1, <1>13, EmitNoOperandQuiet DEF IsStatement, compile_statement, NoOperandOps
<1>14. CASE s.k = "print"
  BY <1>1, <1>14, PrintQuiet DEF IsStatement, compile_statement
<1>15. CASE s.k = "input"
  BY <1>1, <1>15, InputQuiet DEF IsStatement, compile_statement
<1>16. CASE s.k = "io"
  BY <1>1, <1>16, IOQuiet DEF IsStatement, compile_statement
<1> QED
  BY <1>1, <1>2, <1>3, <1>8, <1>9, <1>10, <1>11, <1>12, <1>13, <1>14, <1>15, <1>16
     DEF IsStatement

(* A statement makes plain calls.                                          *)
LEMMA StatementPlain ==
    ASSUME NEW s \in StatementTree
    PROVE  compile_statement(s) \in Seq(PlainCall)
<1>1. IsStatement(s)
  BY SyntaxAssumption
<1>4. CASE s.k = "if"
  <2>1. Expression(s.e) \in PlainCall /\ ThenPart(s) \in PlainCall
    BY <1>4, IfParts, OnePlain, OneQuiet, QuietIsPlain DEF IfStatement
  <2> QED
    BY <1>4, <2>1 DEF compile_statement, compile_if_then
<1>5. CASE s.k \in {"line", "trap"}
  <2>1. s.line \in Int
    BY <1>1, <1>5 DEF IsStatement
  <2>2. Reference("JUMP", s.line) \in PlainCall /\ Reference("TRAP", s.line) \in PlainCall
    BY <2>1, OnePlain DEF ReferenceOps
  <2> QED
    BY <1>5, <2>2 DEF compile_statement
<1>6. CASE s.k \in {"goto", "gosub"}
  <2>1. s.target \in ParseTree
    BY <1>1, <1>6 DEF IsStatement
  <2> QED
    BY <1>6, <2>1, BranchPlain DEF compile_statement, ReferenceOps, NoOperandOps
<1>7. CASE s.k = "on"
  BY <1>1, <1>7, OnPlain DEF IsStatement, compile_statement
<1>8. CASE s.k \notin {"if", "line", "trap", "goto", "gosub", "on"}
  BY <1>8, StatementQuiet, QuietIsPlain
<1> QED
  BY <1>4, <1>5, <1>6, <1>7, <1>8

-----------------------------------------------------------------------------
(* What a call does to the compiler's state.                               *)

(* The fields of a state.                                                  *)
LEMMA StateFields ==
    ASSUME NEW st \in StateType
    PROVE  /\ st.code \in Seq(InstType) /\ st.lines \in LinesType
           /\ st.data \in Seq(DataEntryType) /\ st.fixups \in Seq(FixupType)
           /\ st.error \in BOOLEAN /\ Len(st.code) \in Nat /\ Len(st.fixups) \in Nat
           /\ DOMAIN st.code = 1..Len(st.code)
           /\ DOMAIN st.fixups = 1..Len(st.fixups)
           /\ \A i \in 1..Len(st.code) : st.code[i] \in InstType
           /\ \A f \in 1..Len(st.fixups) : st.fixups[f] \in FixupType
<1>1. /\ st.code \in Seq(InstType) /\ st.lines \in LinesType
      /\ st.data \in Seq(DataEntryType) /\ st.fixups \in Seq(FixupType)
      /\ st.error \in BOOLEAN
  BY DEF StateType
<1> QED
  BY <1>1, SeqTyped

(* A state but for its code and its fixups.                                *)
RestIs(nt, st) == nt.lines = st.lines /\ nt.data = st.data /\ nt.error = st.error

(* An instruction is added at the end.                                     *)
LEMMA EmitEffect ==
    ASSUME NEW st \in StateType, NEW op \in Opcode, NEW arg \in Operand
    PROVE  /\ compiler_emit(st, op, arg) \in StateType
           /\ compiler_emit(st, op, arg).code = Append(st.code, Instruction(op, arg))
           /\ compiler_emit(st, op, arg).fixups = st.fixups
           /\ RestIs(compiler_emit(st, op, arg), st)
<1>1. Instruction(op, arg) \in InstType
  BY DEF Instruction, InstType
<1>2. Append(st.code, Instruction(op, arg)) \in Seq(InstType)
  BY <1>1, StateFields
<1> QED
  BY <1>2 DEF compiler_emit, StateType, RestIs

(* What a search for a line may return.                                    *)
LEMMA OffsetTyped ==
    ASSUME NEW st \in StateType, NEW line \in Int
    PROVE  \/ compiler_find_line_offset(st, line) = -1
           \/ compiler_find_line_offset(st, line) \in Nat
<1>1. st.lines \in LinesType
  BY StateFields
<1>2. \A k \in DOMAIN st.lines : st.lines[k].offset \in Nat
  BY <1>1, LinesTyped
<1> QED
  BY <1>1, <1>2, SearchFinds

(* A reference becomes an instruction, and a fixup when its line is new.   *)
ReferenceMade(nt, st, op, line) ==
    LET offset == compiler_find_line_offset(st, line)
    IN  \/ /\ offset \in Nat
           /\ nt.code = Append(st.code, Instruction(op, Operand16(offset)))
           /\ nt.fixups = st.fixups
        \/ /\ offset = -1
           /\ nt.code = Append(st.code, Instruction(op, Placeholder))
           /\ nt.fixups = Append(st.fixups, [pc |-> Len(st.code), line |-> line])

(* Which is all it does.                                                   *)
LEMMA ReferenceEffect ==
    ASSUME NEW st \in StateType, NEW op \in ReferenceOps, NEW number \in Int
    PROVE  /\ EmitReference(st, op, number) \in StateType
           /\ RestIs(EmitReference(st, op, number), st)
           /\ ReferenceMade(EmitReference(st, op, number), st, op, number % 65536)
<1> DEFINE line == number % 65536
           offset == compiler_find_line_offset(st, line)
           nt == EmitReference(st, op, number)
           fixup == [pc |-> Len(st.code), line |-> line]
<1>1. line \in Int /\ line \in Word
  BY WordCut
<1>2. offset = -1 \/ offset \in Nat
  BY <1>1, OffsetTyped
<1>3. op \in Opcode
  BY DEF ReferenceOps, Opcode, JumpOps
<1>4. CASE offset \in Nat
  <2>1. nt = compiler_emit(st, op, Operand16(offset))
    BY <1>4 DEF EmitReference
  <2>2. Operand16(offset) \in Operand
    BY <1>4 DEF Operand16, Operand
  <2> HIDE DEF offset, nt
  <2>3. /\ nt \in StateType /\ RestIs(nt, st) /\ nt.fixups = st.fixups
        /\ nt.code = Append(st.code, Instruction(op, Operand16(offset)))
    BY <1>3, <2>1, <2>2, EmitEffect
  <2> QED
    BY <1>4, <2>3 DEF ReferenceMade, nt, offset
<1>5. CASE offset = -1
  <2> DEFINE mt == compiler_emit(st, op, Placeholder)
  <2>1. Placeholder \in Operand
    BY DEF Placeholder, Operand
  <2>2. /\ mt \in StateType /\ RestIs(mt, st) /\ mt.fixups = st.fixups
        /\ mt.code = Append(st.code, Instruction(op, Placeholder))
    <3> HIDE DEF mt
    <3> QED
      BY <1>3, <2>1, EmitEffect DEF mt
  <2>3. nt = [mt EXCEPT !.fixups = Append(@, fixup)]
    BY <1>5 DEF EmitReference, compiler_add_jump_fixup, CodeLen
  <2>4. fixup \in FixupType
    <3>1. Len(st.code) \in Nat
      BY StateFields
    <3> QED
      BY <1>1, <3>1 DEF FixupType
  <2> HIDE DEF nt, mt, fixup
  <2>5. Append(mt.fixups, fixup) \in Seq(FixupType)
    BY <2>2, <2>4, StateFields
  <2>6. nt \in StateType /\ nt.code = mt.code /\ RestIs(nt, mt)
        /\ nt.fixups = Append(mt.fixups, fixup)
    BY <2>2, <2>3, <2>5 DEF StateType, RestIs
  <2>7. RestIs(nt, st)
    BY <2>2, <2>6 DEF RestIs
  <2>8. /\ offset = -1 /\ nt.code = Append(st.code, Instruction(op, Placeholder))
        /\ nt.fixups = Append(st.fixups, [pc |-> Len(st.code), line |-> line])
    BY <1>5, <2>2, <2>6 DEF fixup
  <2>9. ReferenceMade(nt, st, op, line)
    BY <2>8 DEF ReferenceMade
  <2> QED
    BY <2>6, <2>7, <2>9 DEF nt
<1> QED
  BY <1>2, <1>4, <1>5

(* A patch changes the operand of one instruction.                         *)
LEMMA PatchEffect ==
    ASSUME NEW st \in StateType, NEW pc \in Nat, NEW target \in Nat
    PROVE  /\ Patch(st, pc, target) \in StateType
           /\ RestIs(Patch(st, pc, target), st)
           /\ Patch(st, pc, target).fixups = st.fixups
           /\ Len(Patch(st, pc, target).code) = Len(st.code)
           /\ \A i \in 1..Len(st.code) :
                 Patch(st, pc, target).code[i] =
                    IF i = pc + 1 THEN Instruction(st.code[i].op, Operand16(target))
                    ELSE st.code[i]
<1> DEFINE nt == Patch(st, pc, target)
           arg == Operand16(target)
           code == [st.code EXCEPT ![pc + 1].arg = arg]
<1>1. arg \in Operand
  BY DEF Operand16, Operand
<1>2. st.code \in Seq(InstType) /\ DOMAIN st.code = 1..Len(st.code) /\ Len(st.code) \in Nat
      /\ \A i \in 1..Len(st.code) : st.code[i] \in InstType
  BY StateFields
<1>3. nt = [st EXCEPT !.code = code]
  BY DEF Patch
<1> HIDE DEF nt, arg
<1>4. \A i \in 1..Len(st.code) :
         code[i] = IF i = pc + 1 THEN [st.code[i] EXCEPT !.arg = arg] ELSE st.code[i]
  BY <1>2
<1>5. \A x \in InstType : /\ [x EXCEPT !.arg = arg] \in InstType
                          /\ [x EXCEPT !.arg = arg] = Instruction(x.op, arg)
  BY <1>1 DEF InstType, Instruction
<1>6. DOMAIN code = 1..Len(st.code)
  BY <1>2
<1> HIDE DEF code
<1>7. \A i \in 1..Len(st.code) :
         code[i] = IF i = pc + 1 THEN Instruction(st.code[i].op, arg) ELSE st.code[i]
  BY <1>2, <1>4, <1>5
<1>8. code \in Seq(InstType) /\ Len(code) = Len(st.code)
  <2>1. \A i \in 1..Len(st.code) : code[i] \in InstType
    BY <1>2, <1>4, <1>5
  <2>2. code \in [1..Len(st.code) -> InstType]
    BY <1>6, <2>1 DEF code
  <2>3. code \in Seq(InstType)
    BY <1>2, <2>2, SeqDef
  <2> QED
    BY <1>2, <1>6, <2>3, LenProperties
<1>9. nt \in StateType /\ RestIs(nt, st) /\ nt.fixups = st.fixups /\ nt.code = code
  BY <1>3, <1>8 DEF StateType, RestIs
<1> QED
  BY <1>7, <1>8, <1>9 DEF nt, arg

-----------------------------------------------------------------------------
(* The invariant.                                                          *)

TypeInv ==
    /\ source \in Sources
    /\ cs \in StateType
    /\ todo \in Seq(CallType)
    /\ next \in Nat /\ next >= 1
    /\ phase \in {"compiling", "resolving", "compiled", "failed"}
    /\ phase = "compiling" => next = Len(cs.lines) + 1 /\ Len(cs.lines) <= Len(source)
    /\ phase # "compiling" => todo = <<>> /\ Len(cs.lines) = Len(source)
    /\ phase = "compiled" => next > Len(cs.fixups)
    /\ cs.error = (phase = "failed")

(* The line map has the lines of the source, at places of the code that    *)
(* do not descend.                                                         *)
LinesInv ==
    /\ \A k \in DOMAIN cs.lines : /\ cs.lines[k].line = source[k].line
                                  /\ cs.lines[k].offset <= Len(cs.code)
    /\ \A k, l \in DOMAIN cs.lines : k < l => cs.lines[k].offset <= cs.lines[l].offset

(* Each fixup is for a reference of its own.                               *)
FixupsInv ==
    /\ \A f \in DOMAIN cs.fixups : /\ cs.fixups[f].pc < Len(cs.code)
                                   /\ cs.code[cs.fixups[f].pc + 1].op \in ReferenceOps
    /\ \A f, g \in DOMAIN cs.fixups : f < g => cs.fixups[f].pc < cs.fixups[g].pc

(* The jumps that the calls of an IF will patch have been emitted, or the  *)
(* next call emits one.                                                    *)
Emits(op) == todo # <<>> /\ todo[1] = Emit(op, 0)
JumpsInv ==
    /\ \A c \in ToSet(todo) : c.call = "else" =>
          \/ c.test < Len(cs.code) /\ cs.code[c.test + 1].op = "JUMP_IF_FALSE"
          \/ c.test = Len(cs.code) /\ Emits("JUMP_IF_FALSE")
    /\ \A c \in ToSet(todo) : c.call = "patch" =>
          \/ c.pc < Len(cs.code) /\ cs.code[c.pc + 1].op \in {"JUMP_IF_FALSE", "JUMP"}
          \/ c.pc = Len(cs.code) /\ Emits("JUMP")
    /\ todo # <<>> => ToSet(Tail(todo)) \cap IfJump = {}
    /\ Emits("JUMP_IF_FALSE") =>
          \E c \in ToSet(todo) : c.call = "else" /\ c.test = Len(cs.code)
    /\ Emits("JUMP") =>
          \E c \in ToSet(todo) : c.call = "patch" /\ c.pc = Len(cs.code)

(* The patches that are owed.                                              *)
Holders == {i \in DOMAIN cs.code : IsReference(cs.code[i]) /\ cs.code[i].arg = Placeholder}
OwedInv ==
    Fits /\ phase # "failed" =>
        /\ OwedByFixup = Holders
        /\ \A i \in DOMAIN cs.code :
              cs.code[i].op = "JUMP_IF_FALSE" /\ cs.code[i].arg = 0 => i \in OwedByIf
        /\ \A c \in ToSet(todo) : c.call = "patch" /\ c.pc < Len(cs.code) =>
              c.pc + 1 \notin Holders

CompilerInv == TypeInv /\ LinesInv /\ FixupsInv /\ JumpsInv /\ OwedInv

(* The members of calls that are joined.                                   *)
LEMMA ToSetJoin ==
    ASSUME NEW C, NEW p \in Seq(C), NEW q \in Seq(C)
    PROVE  ToSet(p \o q) = ToSet(p) \cup ToSet(q) /\ ToSet(p) \subseteq C
<1>1. Len(p) \in Nat /\ Len(q) \in Nat /\ Len(p \o q) = Len(p) + Len(q)
      /\ DOMAIN p = 1..Len(p) /\ DOMAIN q = 1..Len(q)
      /\ DOMAIN (p \o q) = 1..(Len(p) + Len(q))
  OBVIOUS
<1>2. ASSUME NEW i \in 1..(Len(p) + Len(q))
      PROVE  (p \o q)[i] \in ToSet(p) \cup ToSet(q)
  <2>1. CASE i <= Len(p)
    <3>1. i \in DOMAIN p /\ (p \o q)[i] = p[i]
      BY <1>1, <2>1
    <3> QED
      BY <3>1 DEF ToSet
  <2>2. CASE i > Len(p)
    <3>1. i - Len(p) \in DOMAIN q /\ (p \o q)[i] = q[i - Len(p)]
      BY <1>1, <2>2
    <3> QED
      BY <3>1 DEF ToSet
  <2> QED
    BY <1>1, <2>1, <2>2
<1>3. ASSUME NEW i \in 1..Len(p) PROVE p[i] \in ToSet(p \o q) /\ p[i] \in C
  <2>1. i \in DOMAIN (p \o q) /\ (p \o q)[i] = p[i] /\ p[i] \in C
    BY <1>1
  <2> QED
    BY <2>1 DEF ToSet
<1>4. ASSUME NEW i \in 1..Len(q) PROVE q[i] \in ToSet(p \o q)
  <2>1. i + Len(p) \in DOMAIN (p \o q) /\ (p \o q)[i + Len(p)] = q[i]
    BY <1>1
  <2> QED
    BY <2>1 DEF ToSet
<1> QED
  BY <1>1, <1>2, <1>3, <1>4 DEF ToSet

(* The first member, and the others.                                       *)
LEMMA ToSetHead ==
    ASSUME NEW C, NEW p \in Seq(C), p # <<>>
    PROVE  /\ Head(p) = p[1] /\ Head(p) \in C /\ Tail(p) \in Seq(C)
           /\ ToSet(p) = {Head(p)} \cup ToSet(Tail(p))
<1> DEFINE first == <<Head(p)>>
           rest == Tail(p)
<1>1. Head(p) = p[1] /\ Head(p) \in C /\ rest \in Seq(C) /\ p = first \o rest
  OBVIOUS
<1>2. first \in Seq(C) /\ ToSet(first) = {Head(p)}
  BY <1>1 DEF ToSet
<1>3. ToSet(p) = {Head(p)} \cup ToSet(rest)
  <2> HIDE DEF first, rest
  <2>1. ToSet(first \o rest) = ToSet(first) \cup ToSet(rest)
    BY <1>1, <1>2, ToSetJoin
  <2> QED
    BY <1>1, <1>2, <2>1
<1> QED
  BY <1>1, <1>3

(* Calls with one more at an end.                                          *)
LEMMA ToSetEnds ==
    ASSUME NEW C, NEW p \in Seq(C), NEW c \in C
    PROVE  /\ p \o <<c>> \in Seq(C) /\ ToSet(p \o <<c>>) = ToSet(p) \cup {c}
           /\ <<c>> \o p \in Seq(C) /\ ToSet(<<c>> \o p) = {c} \cup ToSet(p)
           /\ <<c>> \o p # <<>> /\ (<<c>> \o p)[1] = c /\ Tail(<<c>> \o p) = p
<1> DEFINE one == <<c>>
<1>1. one \in Seq(C) /\ ToSet(one) = {c}
  BY DEF ToSet
<1>2. <<c>> \o p # <<>> /\ (<<c>> \o p)[1] = c /\ Tail(<<c>> \o p) = p
  OBVIOUS
<1>3. one \o p \in Seq(C) /\ p \o one \in Seq(C)
  OBVIOUS
<1>4. ToSet(p \o one) = ToSet(p) \cup {c} /\ ToSet(one \o p) = {c} \cup ToSet(p)
  <2> HIDE DEF one
  <2> QED
    BY <1>1, ToSetJoin
<1> QED
  BY <1>2, <1>3, <1>4

(* A sequence that is known to be an element and a rest.                   *)
LEMMA ToSetFirst ==
    ASSUME NEW C, NEW p \in Seq(C), NEW c \in C, NEW r, r = <<c>> \o p
    PROVE  /\ r \in Seq(C) /\ ToSet(r) = {c} \cup ToSet(p)
           /\ r # <<>> /\ r[1] = c /\ Tail(r) = p
BY ToSetEnds

(* The calls r when q comes before the rest.                               *)
CallsMade(r, q, rest) ==
    /\ ToSet(r) = ToSet(q) \cup ToSet(rest)
    /\ q = <<>> => r = rest
    /\ r # <<>> => /\ q = <<>> => r[1] \in ToSet(rest)
                   /\ q # <<>> => r[1] = q[1] /\ q[1] \in ToSet(q)
                   /\ q = <<>> => ToSet(Tail(r)) \subseteq ToSet(rest)
                   /\ q # <<>> => ToSet(Tail(r)) = ToSet(Tail(q)) \cup ToSet(rest)

(* So it is when the first call has been replaced by those it makes.       *)
LEMMA CallMade ==
    ASSUME NEW C, NEW q \in Seq(C), NEW rest \in Seq(C), NEW r, r = q \o rest
    PROVE  r \in Seq(C) /\ CallsMade(r, q, rest)
<1> DEFINE more == Tail(q)
<1>1. r \in Seq(C)
  OBVIOUS
<1>2. ToSet(r) = ToSet(q) \cup ToSet(rest)
  BY ToSetJoin
<1>3. q = <<>> => r = rest
  OBVIOUS
<1>4. ASSUME r # <<>>, q = <<>>
      PROVE  r[1] \in ToSet(rest) /\ ToSet(Tail(r)) \subseteq ToSet(rest)
  BY <1>3, <1>4, ToSetHead
<1>5. ASSUME q # <<>> PROVE r[1] = q[1] /\ q[1] \in ToSet(q)
                            /\ ToSet(Tail(r)) = ToSet(more) \cup ToSet(rest)
  <2>1. r[1] = q[1] /\ Tail(r) = more \o rest /\ more \in Seq(C)
    BY <1>5
  <2>2. q[1] \in ToSet(q)
    BY <1>5, ToSetHead
  <2>3. ToSet(Tail(r)) = ToSet(more) \cup ToSet(rest)
    <3> HIDE DEF more
    <3>1. ToSet(more \o rest) = ToSet(more) \cup ToSet(rest)
      BY <2>1, ToSetJoin
    <3> QED
      BY <2>1, <3>1
  <2> QED
    BY <2>1, <2>2, <2>3
<1> HIDE DEF more
<1>6. CASE q = <<>>
  BY <1>1, <1>2, <1>3, <1>4, <1>6 DEF CallsMade
<1>7. CASE q # <<>>
  BY <1>1, <1>2, <1>5, <1>7 DEF more, CallsMade
<1> QED
  BY <1>6, <1>7

(* A plain call is none that has to do with the patches of an IF.          *)
LEMMA PlainIsPlain ==
    ASSUME NEW c \in PlainCall
    PROVE  c \in CallType /\ c \notin IfJump /\ c.call \notin {"else", "patch"}
<1>1. c \in CallType
  BY DEF CallType
<1>2. c.call \notin {"else", "patch"}
  BY DEF PlainCall, QuietCall, PlainEmit, ReferenceCall, ExpressionCall, StatementCall
<1>3. c.call = "emit" => c.op \notin JumpOps
  BY DEF PlainCall, QuietCall, PlainEmit, ReferenceCall, ExpressionCall, StatementCall
<1>4. c \notin IfJump
  BY <1>3 DEF IfJump, Emit, JumpOps
<1> QED
  BY <1>1, <1>2, <1>4

(* A sequence of plain calls.                                              *)
LEMMA PlainSequence ==
    ASSUME NEW q \in Seq(PlainCall)
    PROVE  q \in Seq(CallType) /\ ToSet(q) \subseteq PlainCall
<1>1. PlainCall \subseteq CallType
  BY PlainIsPlain
<1>2. q \in Seq(CallType)
  BY <1>1
<1> QED
  BY <1>2, ToSetJoin

(* The kinds of calls.                                                     *)
LEMMA CallKinds ==
    ASSUME NEW c \in CallType
    PROVE  \/ c \in IfJump /\ c.call = "emit" /\ c.arg = 0
              /\ c.op \in {"JUMP_IF_FALSE", "JUMP"} /\ c = Emit(c.op, 0)
           \/ c \in PlainEmit /\ c.call = "emit"
           \/ c \in ReferenceCall /\ c.call = "reference"
           \/ c.call \in {"expression", "statement", "next", "print", "data"}
              /\ c \in PlainCall
           \/ c.call = "then" /\ c.stmt \in IfStatement
           \/ c.call = "else" /\ c.stmt \in IfStatement /\ c.test \in Nat
           \/ c.call = "patch" /\ c.pc \in Nat
<1>1. CASE c \in IfJump
  BY <1>1 DEF IfJump, Emit
<1>2. CASE c \in PatchCall \cup ElseCall
  BY <1>2 DEF PatchCall, ElseCall
<1>3. CASE c \in PlainCall
  BY <1>3 DEF PlainCall, QuietCall, PlainEmit, ReferenceCall, ExpressionCall, StatementCall
<1> QED
  BY <1>1, <1>2, <1>3 DEF CallType

(* What the simple calls make.                                             *)
LEMMA CallsPlain ==
    ASSUME NEW st, NEW c \in CallType, c.call \notin {"then", "else"}
    PROVE  /\ Calls(st, c) \in Seq(PlainCall)
           /\ c.call \in {"emit", "reference", "data", "patch"} => Calls(st, c) = <<>>
<1>1. CASE c.call = "expression"
  <2>1. c.e \in ParseTree
    BY <1>1 DEF CallType, PlainCall, QuietCall, PlainEmit, ReferenceCall, ExpressionCall,
            StatementCall, IfJump, PatchCall, ElseCall, Emit
  <2> QED
    BY <1>1, <2>1, ExpressionQuiet, QuietIsPlain DEF Calls
<1>2. CASE c.call = "statement"
  <2>1. c.stmt \in StatementTree
    BY <1>2 DEF CallType, PlainCall, QuietCall, PlainEmit, ReferenceCall, ExpressionCall,
            StatementCall, IfJump, PatchCall, ElseCall, Emit
  <2> QED
    BY <1>2, <2>1, StatementPlain DEF Calls
<1>3. CASE c.call = "next"
  <2>1. c.slots \in Seq(Slot) /\ c.i \in 1..Len(c.slots)
    BY <1>3 DEF CallType, PlainCall, QuietCall, PlainEmit, ReferenceCall, ExpressionCall,
            StatementCall, IfJump, PatchCall, ElseCall, Emit
  <2>2. NextVariable(c.slots, c.i) \in Seq(PlainCall)
    BY <2>1, NextVariableQuiet, QuietIsPlain
  <2> QED
    BY <1>3, <2>2, QuietIsPlain DEF Calls
<1>4. CASE c.call = "print"
  <2>1. c.e \in ParseTree \cup Separator
    BY <1>4 DEF CallType, PlainCall, QuietCall, PlainEmit, ReferenceCall, ExpressionCall,
            StatementCall, IfJump, PatchCall, ElseCall, Emit
  <2> QED
    BY <1>4, <2>1, PrintItemQuiet, QuietIsPlain DEF Calls
<1>5. CASE c.call \notin {"expression", "statement", "next", "print"}
  BY <1>5 DEF Calls
<1> QED
  BY <1>1, <1>2, <1>3, <1>4, <1>5 DEF Calls

(* What the THEN part of an IF makes: a jump, the statements, and a call   *)
(* that will patch the jump.                                               *)
LEMMA ThenCalls ==
    ASSUME NEW st \in StateType, NEW c, c.call = "then", c.stmt \in IfStatement,
           NEW q, q = Calls(st, c)
    PROVE  /\ q \in Seq(CallType) /\ q # <<>> /\ q[1] = Emit("JUMP_IF_FALSE", 0)
           /\ ToSet(q) \subseteq {q[1], ElsePart(c.stmt, Len(st.code))} \cup PlainCall
           /\ ToSet(Tail(q)) \subseteq {ElsePart(c.stmt, Len(st.code))} \cup PlainCall
           /\ ElsePart(c.stmt, Len(st.code)) \in ToSet(q)
<1> DEFINE s == c.stmt
           first == Emit("JUMP_IF_FALSE", 0)
           body == Statements(s.then)
           last == ElsePart(s, Len(st.code))
           rest == body \o <<last>>
<1>1. s \in StatementTree /\ s.k = "if"
  BY DEF IfStatement
<1>2. body \in Seq(PlainCall)
  BY <1>1, IfParts, StatementsPlain
<1>3. body \in Seq(CallType) /\ ToSet(body) \subseteq PlainCall
  <2> HIDE DEF body
  <2> QED
    BY <1>2, PlainSequence
<1>4. last \in CallType
  <2>1. Len(st.code) \in Nat
    BY StateFields
  <2> QED
    BY <2>1 DEF ElsePart, CallType, ElseCall
<1>5. first \in CallType
  BY DEF CallType, IfJump
<1>6. q = <<first>> \o body \o <<last>>
  BY DEF Calls, CompileThen, CodeLen
<1> HIDE DEF first, body, last
<1>7. rest \in Seq(CallType) /\ ToSet(rest) = ToSet(body) \cup {last}
  <2> DEFINE end == <<last>>
  <2>1. end \in Seq(CallType) /\ ToSet(end) = {last}
    BY <1>4 DEF ToSet
  <2>2. rest = body \o end /\ rest \in Seq(CallType)
    BY <1>3, <2>1
  <2> HIDE DEF end, rest
  <2>3. ToSet(body \o end) = ToSet(body) \cup ToSet(end)
    BY <1>3, <2>1, ToSetJoin
  <2> QED
    BY <2>1, <2>2, <2>3
<1>8. q = <<first>> \o rest
  BY <1>3, <1>4, <1>5, <1>6
<1> HIDE DEF rest
<1>9. /\ q \in Seq(CallType) /\ q # <<>> /\ q[1] = first /\ Tail(q) = rest
      /\ ToSet(q) = {first} \cup ToSet(rest)
  <2> DEFINE start == <<first>>
  <2>1. start \in Seq(CallType) /\ ToSet(start) = {first}
    BY <1>5 DEF ToSet
  <2>2. /\ q = start \o rest /\ q \in Seq(CallType) /\ q # <<>> /\ q[1] = first
        /\ Tail(q) = rest
    BY <1>7, <1>8, <2>1
  <2> HIDE DEF start
  <2>3. ToSet(start \o rest) = ToSet(start) \cup ToSet(rest)
    BY <1>7, <2>1, ToSetJoin
  <2> QED
    BY <2>1, <2>2, <2>3
<1> QED
  BY <1>3, <1>7, <1>9 DEF first, last

(* What the end of the THEN part makes: the jump over an ELSE part, and    *)
(* the patches.                                                            *)
LEMMA ElseCalls ==
    ASSUME NEW st \in StateType, NEW c, c.call = "else", c.stmt \in IfStatement,
           c.test \in Nat, NEW q, q = Calls(st, c)
    PROVE  /\ q \in Seq(CallType) /\ q # <<>> /\ PatchHere(c.test) \in ToSet(q)
           /\ ToSet(Tail(q)) \subseteq {PatchHere(c.test), PatchHere(Len(st.code))}
                                          \cup PlainCall
           /\ \/ c.stmt.else = <<>> /\ q = <<PatchHere(c.test)>>
                 /\ ToSet(q) = {PatchHere(c.test)}
              \/ /\ c.stmt.else # <<>> /\ q[1] = Emit("JUMP", 0)
                 /\ ToSet(q) = {Emit("JUMP", 0)} \cup ToSet(Tail(q))
                 /\ PatchHere(Len(st.code)) \in ToSet(q)
<1> DEFINE s == c.stmt
           test == PatchHere(c.test)
           skip == PatchHere(Len(st.code))
           first == Emit("JUMP", 0)
           body == compile_else(s.else[1])
           start == <<test>> \o body
           rest == start \o <<skip>>
<1>1. s \in StatementTree /\ s.k = "if"
  BY DEF IfStatement
<1>2. test \in CallType /\ skip \in CallType
  <2>1. Len(st.code) \in Nat
    BY StateFields
  <2> QED
    BY <2>1 DEF PatchHere, CallType, PatchCall
<1>3. CASE s.else = <<>>
  <2>1. q = <<test>>
    BY <1>3 DEF Calls, CompileElse
  <2> HIDE DEF test
  <2>2. q \in Seq(CallType) /\ q # <<>> /\ Tail(q) = <<>>
    BY <1>2, <2>1
  <2>3. ToSet(q) = {test} /\ ToSet(<<>>) = {}
    BY <2>1 DEF ToSet
  <2> QED
    BY <1>3, <2>1, <2>2, <2>3 DEF test
<1>4. CASE s.else # <<>>
  <2>1. body \in Seq(PlainCall)
    BY <1>1, <1>4, IfParts, ElsePlain
  <2>2. body \in Seq(CallType) /\ ToSet(body) \subseteq PlainCall
    <3> HIDE DEF body
    <3> QED
      BY <2>1, PlainSequence
  <2>3. first \in CallType
    BY DEF CallType, IfJump
  <2>4. q = <<first, test>> \o body \o <<skip>>
    BY <1>4 DEF Calls, CompileElse, CodeLen
  <2> HIDE DEF test, skip, first, body
  <2>5. start \in Seq(CallType) /\ ToSet(start) = {test} \cup ToSet(body)
    <3>1. start = <<test>> \o body
      OBVIOUS
    <3> HIDE DEF start
    <3> QED
      BY <1>2, <2>2, <3>1, ToSetFirst
  <2>6. q = <<first>> \o rest
    <3> DEFINE two == <<first, test>> \o body
    <3>1. two = <<first>> \o start
      BY <1>2, <2>2, <2>3
    <3>2. q = two \o <<skip>>
      BY <2>4
    <3> HIDE DEF start, two
    <3> QED
      BY <1>2, <2>3, <2>5, <3>1, <3>2
  <2> HIDE DEF start
  <2>7. rest \in Seq(CallType) /\ ToSet(rest) = ToSet(start) \cup {skip}
    <3> DEFINE end == <<skip>>
    <3>1. end \in Seq(CallType) /\ ToSet(end) = {skip}
      BY <1>2 DEF ToSet
    <3>2. rest = start \o end /\ rest \in Seq(CallType)
      BY <2>5, <3>1
    <3> HIDE DEF end, rest
    <3>3. ToSet(start \o end) = ToSet(start) \cup ToSet(end)
      BY <2>5, <3>1, ToSetJoin
    <3> QED
      BY <3>1, <3>2, <3>3
  <2> HIDE DEF rest
  <2>8. /\ q \in Seq(CallType) /\ q # <<>> /\ q[1] = first /\ Tail(q) = rest
        /\ ToSet(q) = {first} \cup ToSet(rest)
    <3>1. PICK C : C = CallType
      OBVIOUS
    <3>2. first \in C /\ rest \in Seq(C) /\ q = <<first>> \o rest
      BY <2>3, <2>6, <2>7, <3>1
    <3>3. /\ q \in Seq(C) /\ q # <<>> /\ q[1] = first /\ Tail(q) = rest
          /\ ToSet(q) = {first} \cup ToSet(rest)
      BY <3>2, ToSetFirst
    <3> QED
      BY <3>1, <3>3
  <2> QED
    BY <1>4, <2>2, <2>5, <2>7, <2>8 DEF first, test, skip
<1> QED
  BY <1>3, <1>4

(* A call makes calls.                                                     *)
LEMMA CallsTyped ==
    ASSUME NEW st \in StateType, NEW c \in CallType
    PROVE  Calls(st, c) \in Seq(CallType)
<1>1. CASE c.call = "then"
  BY <1>1, ThenCalls, CallKinds DEF PlainEmit, ReferenceCall
<1>2. CASE c.call = "else"
  BY <1>2, ElseCalls, CallKinds DEF PlainEmit, ReferenceCall
<1>3. CASE c.call \notin {"then", "else"}
  BY <1>3, CallsPlain, PlainSequence
<1> QED
  BY <1>1, <1>2, <1>3

(* What a call does to the state.                                          *)
LEMMA EffectTyped ==
    ASSUME NEW st \in StateType, NEW c \in CallType, NEW nt, nt = Effect(st, c)
    PROVE  /\ nt \in StateType /\ nt.lines = st.lines /\ nt.error = st.error
           /\ c.call = "emit" => /\ c.op \in Opcode /\ c.arg \in Operand
                                 /\ nt.code = Append(st.code, Instruction(c.op, c.arg))
                                 /\ nt.fixups = st.fixups
           /\ c.call = "reference" => ReferenceMade(nt, st, c.op, c.number % 65536)
           /\ c.call = "patch" =>
                 /\ nt.fixups = st.fixups /\ Len(nt.code) = Len(st.code)
                 /\ \A i \in 1..Len(st.code) :
                       nt.code[i] = IF i = c.pc + 1
                                    THEN Instruction(st.code[i].op, Operand16(Len(st.code)))
                                    ELSE st.code[i]
           /\ c.call \notin {"emit", "reference", "patch"} =>
                 nt.code = st.code /\ nt.fixups = st.fixups
           /\ c.call # "data" => nt.data = st.data
<1>1. CASE c.call = "emit"
  <2>1. c.op \in Opcode /\ c.arg \in Operand
    BY <1>1, CallKinds DEF PlainEmit, ReferenceCall, IfJump, Emit, Opcode, JumpOps, Operand
  <2>2. nt = compiler_emit(st, c.op, c.arg)
    BY <1>1 DEF Effect
  <2> QED
    BY <1>1, <2>1, <2>2, EmitEffect DEF RestIs
<1>2. CASE c.call = "reference"
  <2>1. c.op \in ReferenceOps /\ c.number \in Int
    BY <1>2, CallKinds DEF PlainEmit, ReferenceCall
  <2>2. nt = EmitReference(st, c.op, c.number)
    BY <1>2 DEF Effect
  <2> QED
    BY <1>2, <2>1, <2>2, ReferenceEffect DEF RestIs
<1>3. CASE c.call = "patch"
  <2>1. c.pc \in Nat
    BY <1>3, CallKinds DEF PlainEmit, ReferenceCall
  <2>2. nt = Patch(st, c.pc, Len(st.code)) /\ Len(st.code) \in Nat
    BY <1>3, StateFields DEF Effect, CodeLen
  <2>3. /\ nt \in StateType
        /\ RestIs(nt, st)
        /\ nt.fixups = st.fixups
        /\ Len(nt.code) = Len(st.code)
        /\ \A i \in 1..Len(st.code) :
              nt.code[i] = IF i = c.pc + 1
                           THEN Instruction(st.code[i].op, Operand16(Len(st.code)))
                           ELSE st.code[i]
    BY <2>1, <2>2, PatchEffect
  <2> QED
    BY <1>3, <2>3 DEF RestIs
<1>4. CASE c.call = "data"
  <2>1. c.items \in Seq(DataEntryType)
    BY <1>4 DEF CallType, PlainCall, QuietCall, PlainEmit, ReferenceCall, ExpressionCall,
            StatementCall, IfJump, PatchCall, ElseCall, Emit
  <2>2. nt = [st EXCEPT !.data = @ \o c.items]
    BY <1>4 DEF Effect
  <2>3. /\ st.code \in Seq(InstType) /\ st.lines \in LinesType
        /\ st.data \in Seq(DataEntryType) /\ st.fixups \in Seq(FixupType)
        /\ st.error \in BOOLEAN
    BY StateFields
  <2>4. st.data \o c.items \in Seq(DataEntryType)
    BY <2>1, <2>3, ConcatProperties
  <2>5. nt = [code |-> st.code, lines |-> st.lines, data |-> st.data \o c.items,
              fixups |-> st.fixups, error |-> st.error]
    BY <2>2 DEF StateType
  <2>6. nt \in StateType
    BY <2>3, <2>4, <2>5 DEF StateType
  <2> QED
    BY <1>4, <2>5, <2>6
<1>5. CASE c.call \notin {"emit", "reference", "patch", "data"}
  BY <1>5 DEF Effect
<1> QED
  BY <1>1, <1>2, <1>3, <1>4, <1>5

-----------------------------------------------------------------------------
(* The invariant holds at first, and each action keeps it.                 *)

(* A position in a sequence to which an element has been added.            *)
LEMMA AppendAt ==
    ASSUME NEW S, NEW s \in Seq(S), NEW e, NEW t, t = Append(s, e)
    PROVE  /\ Len(s) \in Nat /\ Len(t) = Len(s) + 1
           /\ DOMAIN s = 1..Len(s) /\ DOMAIN t = 1..(Len(s) + 1)
           /\ \A i \in 1..Len(s) : t[i] = s[i]
           /\ t[Len(s) + 1] = e
OBVIOUS

(* What a new entry of the line map changes.                               *)
LEMMA LinesEffect ==
    ASSUME NEW st \in StateType, NEW line \in Word,
           NEW nt, nt = compiler_add_line_mapping(st, line)
    PROVE  /\ nt \in StateType
           /\ nt.lines = Append(st.lines, LineMapping(line, Len(st.code)))
           /\ nt.code = st.code /\ nt.fixups = st.fixups /\ nt.error = st.error
           /\ nt.data = st.data
<1> DEFINE entry == LineMapping(line, Len(st.code))
<1>1. /\ st.code \in Seq(InstType) /\ st.lines \in LinesType
      /\ st.data \in Seq(DataEntryType) /\ st.fixups \in Seq(FixupType)
      /\ st.error \in BOOLEAN /\ Len(st.code) \in Nat
  BY StateFields
<1>2. entry \in [line : Word, offset : Nat]
  BY <1>1 DEF LineMapping
<1>3. nt = [st EXCEPT !.lines = Append(@, entry)]
  BY DEF compiler_add_line_mapping, CodeLen
<1> HIDE DEF entry
<1>4. Append(st.lines, entry) \in LinesType
  BY <1>1, <1>2 DEF LinesType
<1>5. nt = [code |-> st.code, lines |-> Append(st.lines, entry), data |-> st.data,
            fixups |-> st.fixups, error |-> st.error]
  BY <1>3 DEF StateType
<1> QED
  BY <1>1, <1>4, <1>5 DEF StateType, entry

(* The lines of a source.                                                  *)
LEMMA SourceTyped ==
    ASSUME NEW src \in Sources
    PROVE  /\ Len(src) \in Nat /\ DOMAIN src = 1..Len(src)
           /\ \A k \in 1..Len(src) : src[k].line \in Word /\ src[k].stmt \in StatementTree
           /\ \A i, j \in 1..Len(src) : i < j => src[i].line <= src[j].line
<1>1. src \in Seq([line : Word, stmt : StatementTree])
  BY SyntaxAssumption
<1>2. Len(src) \in Nat /\ DOMAIN src = 1..Len(src)
      /\ \A k \in 1..Len(src) : src[k] \in [line : Word, stmt : StatementTree]
  BY <1>1, SeqTyped
<1>3. \A i, j \in DOMAIN src : i < j => src[i].line <= src[j].line
  BY SyntaxAssumption
<1> QED
  BY <1>2, <1>3

(* The line map does not descend.                                          *)
LEMMA MapAscends ==
    ASSUME TypeInv, LinesInv
    PROVE  /\ DOMAIN cs.lines = 1..Len(cs.lines) /\ Len(cs.lines) \in Nat
           /\ Len(cs.lines) <= Len(source)
           /\ \A i, j \in DOMAIN cs.lines : i < j => cs.lines[i].line <= cs.lines[j].line
<1>1. source \in Sources /\ cs.lines \in LinesType
  BY StateFields DEF TypeInv
<1>2. DOMAIN cs.lines = 1..Len(cs.lines) /\ Len(cs.lines) \in Nat
  BY <1>1, LinesTyped
<1>3. Len(source) \in Nat
      /\ \A i, j \in 1..Len(source) : i < j => source[i].line <= source[j].line
  BY <1>1, SourceTyped
<1>4. Len(cs.lines) <= Len(source)
  BY <1>3 DEF TypeInv
<1> QED
  BY <1>2, <1>3, <1>4 DEF LinesInv

(* A search for a line finds the offset of an entry for it, or there is    *)
(* none.                                                                   *)
LEMMA SearchOfMap ==
    ASSUME TypeInv, LinesInv, NEW line \in Int
    PROVE  \/ /\ compiler_find_line_offset(cs, line) \in Nat
              /\ compiler_find_line_offset(cs, line) <= Len(cs.code)
              /\ \E k \in DOMAIN cs.lines :
                    /\ cs.lines[k].line = line
                    /\ cs.lines[k].offset = compiler_find_line_offset(cs, line)
           \/ /\ compiler_find_line_offset(cs, line) = -1
              /\ \A k \in DOMAIN cs.lines : cs.lines[k].line # line
<1>1. cs.lines \in LinesType
  BY StateFields DEF TypeInv
<1>2. \A k \in DOMAIN cs.lines : /\ cs.lines[k].offset \in Nat
                                 /\ cs.lines[k].offset <= Len(cs.code)
  BY <1>1, LinesTyped DEF LinesInv
<1>3. \A i, j \in DOMAIN cs.lines : i < j => cs.lines[i].line <= cs.lines[j].line
  BY MapAscends
<1> QED
  BY <1>1, <1>2, <1>3, SearchFinds

(* At first there is no code.                                              *)
LEMMA InvAtFirst == CompilerInit => CompilerInv
<1> SUFFICES ASSUME CompilerInit PROVE CompilerInv
  OBVIOUS
<1>1. /\ source \in Sources /\ todo = <<>> /\ next = 1 /\ phase = "compiling"
      /\ cs = [code |-> <<>>, lines |-> <<>>, data |-> <<>>, fixups |-> <<>>,
               error |-> FALSE]
  BY DEF CompilerInit, NewCompilerState
<1>2. cs \in StateType
  BY <1>1 DEF StateType, LinesType
<1>3. Len(source) \in Nat
  BY <1>1, SourceTyped
<1>4. TypeInv
  <2>1. cs.lines = <<>> /\ cs.fixups = <<>> /\ cs.error = FALSE /\ Len(cs.lines) = 0
    BY <1>1
  <2>2. todo \in Seq(CallType)
    BY <1>1
  <2>3. cs.error = (phase = "failed")
    BY <1>1, <2>1
  <2>4. source \in Sources /\ next = 1 /\ phase = "compiling"
    BY <1>1
  <2> QED
    BY <1>2, <1>3, <2>1, <2>2, <2>3, <2>4 DEF TypeInv
<1>5. ToSet(todo) = {}
  BY <1>1 DEF ToSet
<1>6. LinesInv /\ FixupsInv
  BY <1>1 DEF LinesInv, FixupsInv
<1>7. JumpsInv
  BY <1>1, <1>5 DEF JumpsInv, Emits
<1>8. OwedInv
  BY <1>1, <1>5 DEF OwedInv, OwedByFixup, Holders, Unresolved
<1> QED
  BY <1>4, <1>6, <1>7, <1>8 DEF CompilerInv

(* The next statement: a new entry of the line map.                        *)
LEMMA InvNextStatement == CompilerInv /\ CompileNextStatement => CompilerInv'
<1> SUFFICES ASSUME CompilerInv, CompileNextStatement PROVE CompilerInv'
  OBVIOUS
<1> DEFINE n == Len(cs.lines)
           line == source[next].line
<1>1. TypeInv /\ LinesInv /\ FixupsInv /\ JumpsInv /\ OwedInv
  BY DEF CompilerInv
<1>2. /\ phase = "compiling" /\ todo = <<>> /\ next <= Len(source)
      /\ cs' = compiler_add_line_mapping(cs, line)
      /\ todo' = <<Statement(source[next].stmt)>>
      /\ next' = next + 1 /\ source' = source /\ phase' = phase
  BY DEF CompileNextStatement
<1>3. source \in Sources /\ cs \in StateType /\ next \in Nat /\ next >= 1 /\ next = n + 1
  BY <1>1, <1>2 DEF TypeInv
<1>4. Len(source) \in Nat /\ line \in Word /\ source[next].stmt \in StatementTree
  BY <1>2, <1>3, SourceTyped
<1>5. /\ cs' \in StateType /\ cs'.code = cs.code /\ cs'.fixups = cs.fixups
      /\ cs'.error = cs.error
      /\ cs'.lines = Append(cs.lines, LineMapping(line, Len(cs.code)))
  BY <1>2, <1>3, <1>4, LinesEffect
<1>6. /\ n \in Nat /\ DOMAIN cs.lines = 1..n /\ Len(cs'.lines) = n + 1
      /\ DOMAIN cs'.lines = 1..(n + 1)
      /\ \A k \in 1..n : cs'.lines[k] = cs.lines[k] /\ cs.lines[k].offset \in Nat
      /\ cs'.lines[n + 1] = LineMapping(line, Len(cs.code))
  <2>1. cs.lines \in LinesType
    BY <1>3, StateFields
  <2>2. n \in Nat /\ DOMAIN cs.lines = 1..n /\ \A k \in 1..n : cs.lines[k].offset \in Nat
    BY <2>1, LinesTyped
  <2>3. /\ Len(cs'.lines) = n + 1 /\ DOMAIN cs'.lines = 1..(n + 1)
        /\ \A k \in 1..n : cs'.lines[k] = cs.lines[k]
        /\ cs'.lines[n + 1] = LineMapping(line, Len(cs.code))
    <3>1. cs.lines \in Seq([line : Word, offset : Nat])
      BY <2>1 DEF LinesType
    <3> QED
      BY <1>5, <3>1, AppendAt
  <2> QED
    BY <2>2, <2>3
<1>7. TypeInv'
  <2>1. Statement(source[next].stmt) \in CallType
    BY <1>4, OnePlain DEF CallType
  <2>2. todo' \in Seq(CallType)
    BY <1>2, <2>1
  <2> QED
    BY <1>1, <1>2, <1>3, <1>4, <1>5, <1>6, <2>2 DEF TypeInv
<1>8. Len(cs.code) \in Nat
  BY <1>3, StateFields
<1>9. LinesInv'
  <2>1. /\ cs'.lines[n + 1].line = source[n + 1].line
        /\ cs'.lines[n + 1].offset = Len(cs.code)
    BY <1>3, <1>6 DEF LineMapping
  <2>2. \A k \in 1..n : cs'.lines[k].line = source[k].line
                        /\ cs'.lines[k].offset <= Len(cs.code)
    BY <1>1, <1>6 DEF LinesInv
  <2>3. \A k, l \in 1..n : k < l => cs'.lines[k].offset <= cs'.lines[l].offset
    BY <1>1, <1>6 DEF LinesInv
  <2>4. \A k \in 1..(n + 1) : k \in 1..n \/ k = n + 1
    BY <1>6
  <2> QED
    BY <1>2, <1>5, <1>6, <1>8, <2>1, <2>2, <2>3, <2>4 DEF LinesInv
<1>10. FixupsInv'
  BY <1>1, <1>5 DEF FixupsInv
<1>11. ToSet(todo') = {Statement(source[next].stmt)}
       /\ Statement(source[next].stmt).call = "statement"
  BY <1>2 DEF ToSet, Statement
<1>12. JumpsInv'
  <2>1. ToSet(Tail(todo')) = {} /\ todo'[1] = Statement(source[next].stmt)
    BY <1>2 DEF ToSet
  <2>2. Emit("JUMP_IF_FALSE", 0).call = "emit" /\ Emit("JUMP", 0).call = "emit"
    BY DEF Emit
  <2> QED
    BY <1>11, <2>1, <2>2 DEF JumpsInv, Emits
<1>13. OwedInv'
  <2>1. Holders' = Holders
    BY <1>5 DEF Holders
  <2>2. OwedByFixup' = OwedByFixup
    BY <1>2, <1>5 DEF OwedByFixup, Unresolved
  <2>3. OwedByIf = {}
    BY <1>2 DEF OwedByIf
  <2> QED
    BY <1>1, <1>2, <1>5, <1>11, <2>1, <2>2, <2>3 DEF OwedInv, Fits
<1> QED
  BY <1>7, <1>9, <1>10, <1>12, <1>13 DEF CompilerInv

(* When all statements have been compiled, all fixups are still to be      *)
(* resolved.                                                               *)
LEMMA InvResolveJumps == CompilerInv /\ ResolveJumps => CompilerInv'
<1> SUFFICES ASSUME CompilerInv, ResolveJumps PROVE CompilerInv'
  OBVIOUS
<1>1. TypeInv /\ LinesInv /\ FixupsInv /\ JumpsInv /\ OwedInv
  BY DEF CompilerInv
<1>2. /\ phase = "compiling" /\ todo = <<>> /\ next > Len(source)
      /\ phase' = "resolving" /\ next' = 1
      /\ source' = source /\ cs' = cs /\ todo' = todo
  BY DEF ResolveJumps
<1>3. source \in Sources /\ cs \in StateType /\ next = Len(cs.lines) + 1
      /\ Len(cs.lines) <= Len(source)
  BY <1>1, <1>2 DEF TypeInv
<1>4. Len(source) \in Nat /\ Len(cs.lines) \in Nat
      /\ Len(cs.fixups) \in Nat /\ DOMAIN cs.fixups = 1..Len(cs.fixups)
  BY <1>3, SourceTyped, StateFields, LinesTyped
<1>5. TypeInv'
  BY <1>1, <1>2, <1>3, <1>4 DEF TypeInv
<1>6. LinesInv' /\ FixupsInv' /\ JumpsInv'
  BY <1>1, <1>2 DEF LinesInv, FixupsInv, JumpsInv, Emits
<1>7. OwedInv'
  <2>1. Holders' = Holders /\ OwedByIf' = OwedByIf /\ Fits' = Fits
    BY <1>2 DEF Holders, OwedByIf, Fits
  <2>2. OwedByFixup' = OwedByFixup
    BY <1>2, <1>4 DEF OwedByFixup, Unresolved
  <2> QED
    BY <1>1, <1>2, <2>1, <2>2 DEF OwedInv
<1> QED
  BY <1>5, <1>6, <1>7 DEF CompilerInv

(* The end: no fixup is left.                                              *)
LEMMA InvReturnProgram == CompilerInv /\ ReturnProgram => CompilerInv'
<1> SUFFICES ASSUME CompilerInv, ReturnProgram PROVE CompilerInv'
  OBVIOUS
<1>1. TypeInv /\ LinesInv /\ FixupsInv /\ JumpsInv /\ OwedInv
  BY DEF CompilerInv
<1>2. /\ phase = "resolving" /\ next > Len(cs.fixups) /\ phase' = "compiled"
      /\ source' = source /\ cs' = cs /\ todo' = todo /\ next' = next
  BY DEF ReturnProgram
<1>3. cs \in StateType /\ next \in Nat
  BY <1>1 DEF TypeInv
<1>4. Len(cs.fixups) \in Nat
  BY <1>3, StateFields
<1>5. TypeInv'
  BY <1>1, <1>2 DEF TypeInv
<1>6. LinesInv' /\ FixupsInv' /\ JumpsInv'
  BY <1>1, <1>2 DEF LinesInv, FixupsInv, JumpsInv, Emits
<1>7. OwedInv'
  <2>1. Holders' = Holders /\ OwedByIf' = OwedByIf /\ Fits' = Fits
    BY <1>2 DEF Holders, OwedByIf, Fits
  <2>2. Unresolved = {} /\ Unresolved' = {}
    BY <1>2, <1>3, <1>4 DEF Unresolved
  <2>3. OwedByFixup' = OwedByFixup
    BY <2>2 DEF OwedByFixup
  <2> QED
    BY <1>1, <1>2, <2>1, <2>3 DEF OwedInv
<1> QED
  BY <1>5, <1>6, <1>7 DEF CompilerInv

(* What resolving a fixup changes: the operand, or nothing but the error.  *)
LEMMA FixupEffect ==
    ASSUME TypeInv, LinesInv, FixupsInv, ResolveNextFixup
    PROVE  /\ cs' \in StateType /\ next \in 1..Len(cs.fixups)
           /\ cs.fixups[next] \in FixupType
           /\ cs'.lines = cs.lines /\ cs'.data = cs.data /\ cs'.fixups = cs.fixups
           /\ Len(cs'.code) = Len(cs.code)
           /\ \/ /\ compiler_find_line_offset(cs, cs.fixups[next].line) = -1
                 /\ \A k \in DOMAIN cs.lines : cs.lines[k].line # cs.fixups[next].line
                 /\ cs'.code = cs.code /\ cs'.error = TRUE /\ phase' = "failed"
              \/ \E k \in DOMAIN cs.lines :
                    /\ cs.lines[k].line = cs.fixups[next].line
                    /\ cs.lines[k].offset \in Nat /\ cs.lines[k].offset <= Len(cs.code)
                    /\ \A i \in 1..Len(cs.code) :
                          cs'.code[i] = IF i = cs.fixups[next].pc + 1
                                        THEN Instruction(cs.code[i].op,
                                                         Operand16(cs.lines[k].offset))
                                        ELSE cs.code[i]
                    /\ cs'.error = FALSE /\ phase' = "resolving"
<1> DEFINE fixup == cs.fixups[next]
           offset == compiler_find_line_offset(cs, fixup.line)
<1>1. /\ phase = "resolving" /\ next <= Len(cs.fixups)
      /\ cs' = ResolveFixup(cs, fixup)
      /\ phase' = IF cs'.error THEN "failed" ELSE phase
  BY DEF ResolveNextFixup
<1>2. cs \in StateType /\ next \in Nat /\ next >= 1 /\ cs.error = FALSE
  BY <1>1 DEF TypeInv
<1>3. next \in 1..Len(cs.fixups) /\ fixup \in FixupType
  BY <1>1, <1>2, StateFields
<1>4. fixup.line \in Int /\ fixup.pc \in Nat
  BY <1>3, WordRange DEF FixupType
<1>5. \/ offset \in Nat /\ offset <= Len(cs.code)
         /\ \E k \in DOMAIN cs.lines : /\ cs.lines[k].line = fixup.line
                                       /\ cs.lines[k].offset = offset
      \/ offset = -1 /\ \A k \in DOMAIN cs.lines : cs.lines[k].line # fixup.line
  BY <1>4, SearchOfMap
<1> HIDE DEF fixup
<1>6. CASE offset = -1
  <2>1. cs' = [cs EXCEPT !.error = TRUE]
    BY <1>1, <1>6 DEF ResolveFixup
  <2>2. /\ cs.code \in Seq(InstType) /\ cs.lines \in LinesType
        /\ cs.data \in Seq(DataEntryType) /\ cs.fixups \in Seq(FixupType)
    BY <1>2, StateFields
  <2>3. cs' = [code |-> cs.code, lines |-> cs.lines, data |-> cs.data,
               fixups |-> cs.fixups, error |-> TRUE]
    BY <1>2, <2>1 DEF StateType
  <2>4. cs' \in StateType /\ cs'.error = TRUE
    BY <2>2, <2>3 DEF StateType
  <2>5. /\ cs'.lines = cs.lines /\ cs'.data = cs.data /\ cs'.fixups = cs.fixups
        /\ cs'.code = cs.code /\ phase' = "failed"
    BY <1>1, <2>3
  <2> QED
    BY <1>3, <1>5, <1>6, <2>4, <2>5 DEF fixup
<1>7. CASE offset \in Nat
  <2>1. cs' = Patch(cs, fixup.pc, offset)
    BY <1>1, <1>7 DEF ResolveFixup
  <2> HIDE DEF offset
  <2>2. /\ cs' \in StateType /\ RestIs(cs', cs) /\ cs'.fixups = cs.fixups
        /\ Len(cs'.code) = Len(cs.code)
        /\ \A i \in 1..Len(cs.code) :
              cs'.code[i] = IF i = fixup.pc + 1
                            THEN Instruction(cs.code[i].op, Operand16(offset))
                            ELSE cs.code[i]
    BY <1>2, <1>4, <1>7, <2>1, PatchEffect
  <2>3. cs'.error = FALSE /\ phase' = "resolving"
    BY <1>1, <1>2, <2>2 DEF RestIs
  <2>4. offset <= Len(cs.code) /\ \E k \in DOMAIN cs.lines :
           cs.lines[k].line = fixup.line /\ cs.lines[k].offset = offset
    BY <1>5, <1>7
  <2> QED
    BY <1>3, <1>7, <2>2, <2>3, <2>4 DEF RestIs, fixup
<1> QED
  BY <1>5, <1>6, <1>7

(* The fields of an instruction.                                           *)
LEMMA InstructionFields ==
    ASSUME NEW op, NEW arg
    PROVE  Instruction(op, arg).op = op /\ Instruction(op, arg).arg = arg
BY DEF Instruction

(* A place of the code is its own operand when the code has sixteen bits.  *)
LEMMA PlaceFits ==
    ASSUME NEW n \in Nat, n < Placeholder
    PROVE  Operand16(n) = n /\ n # Placeholder
BY DEF Operand16, Placeholder

(* A fixup resolved: the operand of its instruction is no placeholder any  *)
(* longer, and it alone.                                                   *)
LEMMA InvNextFixup == CompilerInv /\ ResolveNextFixup => CompilerInv'
<1> SUFFICES ASSUME CompilerInv, ResolveNextFixup PROVE CompilerInv'
  OBVIOUS
<1> DEFINE fixup == cs.fixups[next]
           L == Len(cs.code)
           m == Len(cs.fixups)
           p == fixup.pc + 1
<1>1. TypeInv /\ LinesInv /\ FixupsInv /\ JumpsInv /\ OwedInv
  BY DEF CompilerInv
<1>2. /\ phase = "resolving" /\ next <= m /\ next' = next + 1
      /\ source' = source /\ todo' = todo
  BY DEF ResolveNextFixup
<1>3. /\ cs \in StateType /\ source \in Sources /\ next \in Nat /\ next >= 1 /\ todo = <<>>
      /\ Len(cs.lines) = Len(source)
  BY <1>1, <1>2 DEF TypeInv
<1>4. /\ L \in Nat /\ m \in Nat /\ DOMAIN cs.code = 1..L /\ DOMAIN cs.fixups = 1..m
      /\ \A f \in 1..m : cs.fixups[f].pc \in Nat
  BY <1>3, StateFields DEF FixupType
<1>5. /\ cs' \in StateType /\ next \in 1..m
      /\ cs'.lines = cs.lines /\ cs'.data = cs.data /\ cs'.fixups = cs.fixups
      /\ Len(cs'.code) = L
      /\ phase' = "failed" => cs'.error = TRUE
      /\ phase' # "failed" => cs'.error = FALSE /\ phase' = "resolving"
      /\ \/ cs'.code = cs.code /\ phase' = "failed"
         \/ \E offset \in Nat :
               /\ offset <= L
               /\ \A i \in 1..L :
                     cs'.code[i] = IF i = p THEN Instruction(cs.code[i].op, Operand16(offset))
                                   ELSE cs.code[i]
               /\ phase' = "resolving"
  BY <1>1, FixupEffect
<1>6. DOMAIN cs'.code = 1..L
  BY <1>5, StateFields
<1>7. \A i \in 1..L : cs'.code[i].op = cs.code[i].op
  <2> HIDE DEF L, p
  <2> QED
    BY <1>5, InstructionFields
<1>8. TypeInv'
  <2>1. phase' \in {"resolving", "failed"} /\ cs'.error = (phase' = "failed")
    BY <1>5
  <2> QED
    BY <1>2, <1>3, <1>5, <2>1 DEF TypeInv
<1>9. LinesInv'
  BY <1>1, <1>2, <1>5 DEF LinesInv
<1>10. FixupsInv'
  <2>1. \A f \in 1..m : cs.fixups[f].pc + 1 \in 1..L
    BY <1>1, <1>4 DEF FixupsInv
  <2> QED
    BY <1>1, <1>4, <1>5, <1>7, <2>1 DEF FixupsInv
<1>11. ToSet(todo) = {}
  BY <1>3 DEF ToSet
<1>12. JumpsInv'
  BY <1>2, <1>3, <1>11 DEF JumpsInv, Emits
<1>13. OwedInv'
  <2> SUFFICES ASSUME Fits', phase' # "failed" PROVE OwedInv'
    BY DEF OwedInv
  <2>1. Fits /\ L < Placeholder /\ phase' = "resolving"
    BY <1>5 DEF Fits
  <2>2. PICK offset \in Nat :
           /\ offset <= L
           /\ \A i \in 1..L :
                 cs'.code[i] = IF i = p THEN Instruction(cs.code[i].op, Operand16(offset))
                               ELSE cs.code[i]
    BY <1>5
  <2>3. Operand16(offset) # Placeholder
    BY <1>4, <2>1, <2>2, PlaceFits DEF Placeholder
  <2>4. p \in 1..L /\ cs.code[p].op \in ReferenceOps
    BY <1>1, <1>4, <1>5 DEF FixupsInv
  <2>5. cs'.code[p].op = cs.code[p].op /\ cs'.code[p].arg = Operand16(offset)
        /\ \A i \in 1..L : i # p => cs'.code[i] = cs.code[i]
    <3> HIDE DEF L, p
    <3> QED
      BY <2>2, <2>4, InstructionFields
  <2>6. Holders' = Holders \ {p}
    <3>1. Holders' = {i \in 1..L : IsReference(cs'.code[i]) /\ cs'.code[i].arg = Placeholder}
      BY <1>6 DEF Holders, IsReference
    <3>2. Holders = {i \in 1..L : IsReference(cs.code[i]) /\ cs.code[i].arg = Placeholder}
      BY <1>4 DEF Holders
    <3> QED
      BY <2>3, <2>5, <3>1, <3>2
  <2>7. OwedByFixup' = OwedByFixup \ {p}
    <3>1. Unresolved = next..m /\ Unresolved' = (next + 1)..m
      BY <1>2, <1>5, <2>1 DEF Unresolved
    <3>2. ASSUME NEW f \in (next + 1)..m PROVE cs.fixups[f].pc + 1 # p
      <4>1. f \in 1..m /\ next \in 1..m /\ next < f
        BY <1>4, <1>5
      <4>2. cs.fixups[next].pc < cs.fixups[f].pc
        BY <1>1, <1>4, <4>1 DEF FixupsInv
      <4>3. cs.fixups[next].pc \in Nat /\ cs.fixups[f].pc \in Nat
        BY <1>4, <4>1
      <4> QED
        BY <4>2, <4>3
    <3>3. next..m = {next} \cup ((next + 1)..m)
      BY <1>4, <1>5
    <3>4. OwedByFixup' = {cs.fixups[f].pc + 1 : f \in (next + 1)..m}
      BY <1>5, <3>1 DEF OwedByFixup
    <3>5. OwedByFixup = {cs.fixups[f].pc + 1 : f \in next..m}
      BY <3>1 DEF OwedByFixup
    <3>6. OwedByFixup = {p} \cup {cs.fixups[f].pc + 1 : f \in (next + 1)..m}
      BY <3>3, <3>5
    <3>7. p \notin {cs.fixups[f].pc + 1 : f \in (next + 1)..m}
      BY <3>2
    <3> QED
      BY <3>4, <3>6, <3>7
  <2>8. OwedByIf' = OwedByIf
    BY <1>2 DEF OwedByIf
  <2>9. \A i \in 1..L : cs'.code[i].op = "JUMP_IF_FALSE" /\ cs'.code[i].arg = 0 =>
           i \in OwedByIf
    <3>1. cs'.code[p].op # "JUMP_IF_FALSE"
      BY <2>4, <2>5 DEF ReferenceOps
    <3> QED
      BY <1>1, <1>2, <1>4, <2>1, <2>5, <3>1 DEF OwedInv
  <2> QED
    BY <1>1, <1>2, <1>6, <1>11, <2>1, <2>6, <2>7, <2>8, <2>9 DEF OwedInv
<1> QED
  BY <1>8, <1>9, <1>10, <1>12, <1>13 DEF CompilerInv

(* The call c is made: its effect, and the calls q that take its place.    *)
MadeCall(c, q, rest) ==
    /\ cs \in StateType /\ cs' = Effect(cs, c) /\ c \in CallType /\ q = Calls(cs, c)
    /\ phase = "compiling" /\ phase' = phase /\ source' = source /\ next' = next
    /\ todo \in Seq(CallType) /\ todo # <<>> /\ todo[1] = c /\ todo = <<c>> \o rest
    /\ rest \in Seq(CallType) /\ ToSet(rest) \subseteq CallType
    /\ ToSet(todo) = {c} \cup ToSet(rest)
    /\ ToSet(Tail(todo)) = ToSet(rest)
    /\ q \in Seq(CallType) /\ todo' \in Seq(CallType) /\ todo' = q \o rest
    /\ CallsMade(todo', q, rest) /\ (todo' = <<>> => q = <<>>)

(* That is what a step does.                                               *)
LEMMA CallStep ==
    ASSUME TypeInv, MakeCall
    PROVE  \E c, q, rest : MadeCall(c, q, rest)
<1> DEFINE c == todo[1]
           q == Calls(cs, c)
           rest == Tail(todo)
<1>1. /\ todo # <<>> /\ cs' = Effect(cs, Head(todo))
      /\ todo' = Calls(cs, Head(todo)) \o Tail(todo)
      /\ source' = source /\ next' = next /\ phase' = phase
  BY DEF MakeCall
<1>2. cs \in StateType /\ todo \in Seq(CallType) /\ phase = "compiling"
  BY <1>1 DEF TypeInv
<1>3. Head(todo) = c /\ c \in CallType /\ rest \in Seq(CallType)
      /\ ToSet(todo) = {c} \cup ToSet(rest)
  BY <1>1, <1>2, ToSetHead
<1>4. todo = <<c>> \o rest
  BY <1>1, <1>2
<1>5. q \in Seq(CallType)
  BY <1>2, <1>3, CallsTyped
<1>6. todo' = q \o rest
  BY <1>1, <1>3
<1>7. ToSet(Tail(todo)) = ToSet(rest)
  OBVIOUS
<1> HIDE DEF c, q, rest
<1>8. ToSet(rest) \subseteq CallType
  BY <1>3, ToSetJoin
<1>9. todo' \in Seq(CallType) /\ CallsMade(todo', q, rest)
  BY <1>3, <1>5, <1>6, CallMade
<1>10. todo' = <<>> => q = <<>>
  <2>1. Len(q \o rest) = Len(q) + Len(rest) /\ Len(q) \in Nat /\ Len(rest) \in Nat
    BY <1>3, <1>5
  <2>2. Len(q) = 0 => q = <<>>
    BY <1>5
  <2>3. todo' = <<>> => Len(q \o rest) = 0
    BY <1>6
  <2> QED
    BY <2>1, <2>2, <2>3
<1>11. MadeCall(c, q, rest)
  BY <1>1, <1>2, <1>3, <1>4, <1>5, <1>6, <1>7, <1>8, <1>9, <1>10 DEF MadeCall, c, q
<1> QED
  BY <1>11

(* The code only grows, and keeps its opcodes.                             *)
LEMMA CodeGrows ==
    ASSUME NEW st \in StateType, NEW c \in CallType, NEW nt, nt = Effect(st, c)
    PROVE  /\ nt \in StateType /\ Len(st.code) \in Nat /\ Len(nt.code) \in Nat
           /\ DOMAIN st.code = 1..Len(st.code) /\ DOMAIN nt.code = 1..Len(nt.code)
           /\ Len(nt.code) >= Len(st.code)
           /\ \A i \in 1..Len(st.code) : nt.code[i].op = st.code[i].op
           /\ c.call # "patch" => \A i \in 1..Len(st.code) : nt.code[i] = st.code[i]
<1>1. nt \in StateType
  BY EffectTyped
<1>2. /\ Len(st.code) \in Nat /\ Len(nt.code) \in Nat /\ st.code \in Seq(InstType)
      /\ DOMAIN st.code = 1..Len(st.code) /\ DOMAIN nt.code = 1..Len(nt.code)
  BY <1>1, StateFields
<1>3. ASSUME NEW x, nt.code = Append(st.code, x)
      PROVE  /\ Len(nt.code) >= Len(st.code)
             /\ \A i \in 1..Len(st.code) : nt.code[i] = st.code[i]
  BY <1>2, <1>3
<1>4. CASE c.call = "emit"
  <2>1. nt.code = Append(st.code, Instruction(c.op, c.arg))
    BY <1>4, EffectTyped
  <2>2. /\ Len(nt.code) >= Len(st.code)
        /\ \A i \in 1..Len(st.code) : nt.code[i] = st.code[i]
    BY <1>3, <2>1
  <2> QED
    BY <1>1, <1>2, <2>2
<1>5. CASE c.call = "reference"
  <2>1. ReferenceMade(nt, st, c.op, c.number % 65536)
    BY <1>5, EffectTyped
  <2>2. \E arg : nt.code = Append(st.code, Instruction(c.op, arg))
    BY <2>1 DEF ReferenceMade
  <2>3. /\ Len(nt.code) >= Len(st.code)
        /\ \A i \in 1..Len(st.code) : nt.code[i] = st.code[i]
    BY <1>3, <2>2
  <2> QED
    BY <1>1, <1>2, <2>3
<1>6. CASE c.call = "patch"
  <2>1. /\ Len(nt.code) = Len(st.code)
        /\ \A i \in 1..Len(st.code) :
              nt.code[i] = IF i = c.pc + 1
                           THEN Instruction(st.code[i].op, Operand16(Len(st.code)))
                           ELSE st.code[i]
    BY <1>6, EffectTyped
  <2>2. \A i \in 1..Len(st.code) : nt.code[i].op = st.code[i].op
    BY <2>1, InstructionFields
  <2> QED
    BY <1>1, <1>2, <1>6, <2>1, <2>2
<1>7. CASE c.call \notin {"emit", "reference", "patch"}
  BY <1>1, <1>2, <1>7, EffectTyped
<1> QED
  BY <1>4, <1>5, <1>6, <1>7

(* Types, the line map and the fixups after a call.                        *)
LEMMA CallKeepsTypes ==
    ASSUME TypeInv, LinesInv, FixupsInv, MakeCall
    PROVE  TypeInv' /\ LinesInv' /\ FixupsInv'
<1> DEFINE L == Len(cs.code)
<1>0. PICK c, q, rest : MadeCall(c, q, rest)
  BY CallStep
<1>1. /\ cs \in StateType /\ cs' = Effect(cs, c) /\ c \in CallType
      /\ phase = "compiling" /\ phase' = phase /\ source' = source /\ next' = next
      /\ todo' \in Seq(CallType)
  BY <1>0 DEF MadeCall
<1>2. cs' \in StateType /\ cs'.lines = cs.lines /\ cs'.error = cs.error
  BY <1>1, EffectTyped
<1>3. TypeInv'
  BY <1>1, <1>2 DEF TypeInv
<1>4. /\ L \in Nat /\ Len(cs'.code) \in Nat /\ Len(cs'.code) >= L
      /\ DOMAIN cs.code = 1..L /\ DOMAIN cs'.code = 1..Len(cs'.code)
      /\ \A i \in 1..L : cs'.code[i].op = cs.code[i].op
  BY <1>1, CodeGrows
<1>5. LinesInv'
  <2>1. \A k \in DOMAIN cs.lines : cs.lines[k].offset \in Nat
    BY <1>1, StateFields, LinesTyped
  <2> QED
    BY <1>1, <1>2, <1>4, <2>1 DEF LinesInv
<1>6. /\ Len(cs.fixups) \in Nat /\ DOMAIN cs.fixups = 1..Len(cs.fixups)
      /\ cs.fixups \in Seq(FixupType)
      /\ \A f \in 1..Len(cs.fixups) : cs.fixups[f].pc \in Nat
  BY <1>1, StateFields DEF FixupType
<1>7. ASSUME NEW f \in 1..Len(cs.fixups)
      PROVE  cs.fixups[f].pc < L /\ cs'.code[cs.fixups[f].pc + 1].op \in ReferenceOps
  <2>1. cs.fixups[f].pc < L /\ cs.code[cs.fixups[f].pc + 1].op \in ReferenceOps
    BY <1>6 DEF FixupsInv
  <2>2. cs.fixups[f].pc \in Nat /\ cs.fixups[f].pc + 1 \in 1..L
    BY <1>4, <1>6, <2>1
  <2> QED
    BY <1>4, <2>1, <2>2
<1>8. CASE cs'.fixups = cs.fixups
  <2>1. \A f \in 1..Len(cs.fixups) : cs.fixups[f].pc < Len(cs'.code)
    BY <1>4, <1>6, <1>7
  <2>2. FixupsInv'
    BY <1>6, <1>7, <1>8, <2>1 DEF FixupsInv
  <2> QED
    BY <1>3, <1>5, <2>2
<1>9. CASE c.call = "reference" /\ cs'.fixups # cs.fixups
  <2> DEFINE fixup == [pc |-> L, line |-> c.number % 65536]
             m == Len(cs.fixups)
  <2>1. /\ cs'.code = Append(cs.code, Instruction(c.op, Placeholder))
        /\ cs'.fixups = Append(cs.fixups, fixup)
    <3>1. ReferenceMade(cs', cs, c.op, c.number % 65536)
      BY <1>1, <1>9, EffectTyped
    <3> QED
      BY <1>9, <3>1 DEF ReferenceMade
  <2>2. c.op \in ReferenceOps /\ fixup.pc = L
    BY <1>1, <1>9, CallKinds DEF PlainEmit, ReferenceCall
  <2> HIDE DEF fixup
  <2>3. /\ DOMAIN cs'.fixups = 1..(m + 1) /\ cs'.fixups[m + 1] = fixup
        /\ \A f \in 1..m : cs'.fixups[f] = cs.fixups[f]
    BY <1>6, <2>1, AppendAt
  <2>4. Len(cs'.code) = L + 1 /\ cs'.code[L + 1].op = c.op
    <3>1. cs.code \in Seq(InstType)
      BY <1>1, StateFields
    <3>2. Len(cs'.code) = L + 1 /\ cs'.code[L + 1] = Instruction(c.op, Placeholder)
      BY <2>1, <3>1, AppendAt
    <3> QED
      BY <3>2, InstructionFields
  <2>5. \A f \in 1..(m + 1) : f = m + 1 \/ f \in 1..m
    BY <1>6
  <2>6. cs'.fixups[m + 1].pc = L
    BY <2>2, <2>3
  <2>7. ASSUME NEW f \in 1..(m + 1)
        PROVE  /\ cs'.fixups[f].pc < Len(cs'.code)
               /\ cs'.code[cs'.fixups[f].pc + 1].op \in ReferenceOps
    <3>1. CASE f = m + 1
      BY <1>4, <2>2, <2>4, <2>6, <3>1
    <3>2. CASE f \in 1..m
      <4>1. cs'.fixups[f] = cs.fixups[f] /\ cs.fixups[f].pc \in Nat
        BY <1>6, <2>3, <3>2
      <4> QED
        BY <1>4, <1>7, <3>2, <4>1
    <3> QED
      BY <2>5, <3>1, <3>2
  <2>8. ASSUME NEW f \in 1..(m + 1), NEW g \in 1..(m + 1), f < g
        PROVE  cs'.fixups[f].pc < cs'.fixups[g].pc
    <3>1. f \in 1..m /\ cs'.fixups[f] = cs.fixups[f]
      BY <1>6, <2>3, <2>8
    <3>2. CASE g = m + 1
      BY <1>7, <2>6, <3>1, <3>2
    <3>3. CASE g \in 1..m
      <4>1. cs'.fixups[g] = cs.fixups[g] /\ cs.fixups[f].pc < cs.fixups[g].pc
        BY <1>6, <2>3, <2>8, <3>1, <3>3 DEF FixupsInv
      <4> QED
        BY <3>1, <4>1
    <3> QED
      BY <2>5, <3>2, <3>3
  <2> HIDE DEF m, L
  <2>9. FixupsInv'
    BY <2>3, <2>7, <2>8 DEF FixupsInv
  <2> QED
    BY <1>3, <1>5, <2>9
<1>10. c.call # "reference" => cs'.fixups = cs.fixups
  BY <1>1, EffectTyped
<1> QED
  BY <1>3, <1>5, <1>8, <1>9, <1>10

(* What may come of a call: nothing to do with the patches of an IF, or    *)
(* the end of the THEN part is still to come, or the patches are.          *)
LEMMA CallsAre ==
    ASSUME NEW st \in StateType, NEW c \in CallType, NEW q, q = Calls(st, c)
    PROVE  \/ /\ q \in Seq(PlainCall) /\ ToSet(q) \subseteq PlainCall
              /\ ToSet(Tail(q)) \subseteq PlainCall \/ q = <<>>
              /\ c.call # "else"
           \/ /\ c.call = "then" /\ c.stmt \in IfStatement
              /\ q # <<>> /\ q[1] = Emit("JUMP_IF_FALSE", 0)
              /\ ToSet(q) \subseteq {q[1], ElsePart(c.stmt, Len(st.code))} \cup PlainCall
              /\ ToSet(Tail(q)) \subseteq {ElsePart(c.stmt, Len(st.code))} \cup PlainCall
              /\ ElsePart(c.stmt, Len(st.code)) \in ToSet(q)
           \/ /\ c.call = "else" /\ c.stmt \in IfStatement /\ c.test \in Nat
              /\ q # <<>> /\ PatchHere(c.test) \in ToSet(q)
              /\ ToSet(Tail(q)) \subseteq {PatchHere(c.test), PatchHere(Len(st.code))}
                                             \cup PlainCall
              /\ \/ q[1] = PatchHere(c.test) /\ ToSet(q) = {PatchHere(c.test)}
                 \/ /\ q[1] = Emit("JUMP", 0)
                    /\ ToSet(q) = {Emit("JUMP", 0)} \cup ToSet(Tail(q))
                    /\ PatchHere(Len(st.code)) \in ToSet(q)
<1>1. CASE c.call = "then"
  <2>1. c.stmt \in IfStatement
    BY <1>1, CallKinds DEF PlainEmit, ReferenceCall
  <2> QED
    BY <1>1, <2>1, ThenCalls
<1>2. CASE c.call = "else"
  <2>1. c.stmt \in IfStatement /\ c.test \in Nat
    BY <1>2, CallKinds DEF PlainEmit, ReferenceCall
  <2>2. q = <<PatchHere(c.test)>> => q[1] = PatchHere(c.test)
    OBVIOUS
  <2> QED
    BY <1>2, <2>1, <2>2, ElseCalls
<1>3. CASE c.call \notin {"then", "else"}
  <2>1. q \in Seq(PlainCall)
    BY <1>3, CallsPlain
  <2>2. ToSet(q) \subseteq PlainCall
    BY <2>1, PlainSequence
  <2>3. q # <<>> => Tail(q) \in Seq(PlainCall)
    BY <2>1
  <2>4. q # <<>> => ToSet(Tail(q)) \subseteq PlainCall
    BY <2>3, PlainSequence
  <2> QED
    BY <1>3, <2>1, <2>2, <2>4
<1> QED
  BY <1>1, <1>2, <1>3

(* The records of calls that are no instructions.                          *)
LEMMA PatchesAre ==
    /\ \A s, n : /\ ElsePart(s, n).call = "else" /\ ElsePart(s, n).test = n
                 /\ ElsePart(s, n).stmt = s /\ ElsePart(s, n) \notin IfJump
    /\ \A n : PatchHere(n).call = "patch" /\ PatchHere(n).pc = n /\ PatchHere(n) \notin IfJump
    /\ \A op \in {"JUMP", "JUMP_IF_FALSE"} :
          /\ Emit(op, 0).call = "emit" /\ Emit(op, 0).op = op /\ Emit(op, 0).arg = 0
          /\ Emit(op, 0) \in IfJump
<1>1. \A s, n : /\ ElsePart(s, n).call = "else" /\ ElsePart(s, n).test = n
                /\ ElsePart(s, n).stmt = s
  BY DEF ElsePart
<1>2. \A n : PatchHere(n).call = "patch" /\ PatchHere(n).pc = n
  BY DEF PatchHere
<1>3. \A op \in {"JUMP", "JUMP_IF_FALSE"} :
          /\ Emit(op, 0).call = "emit" /\ Emit(op, 0).op = op /\ Emit(op, 0).arg = 0
          /\ Emit(op, 0) \in IfJump
  BY DEF Emit, IfJump
<1>4. \A c \in IfJump : c.call = "emit"
  BY <1>3 DEF IfJump
<1> QED
  BY <1>1, <1>2, <1>3, <1>4

(* An instruction that a call emits.                                       *)
LEMMA CallEmits ==
    ASSUME NEW st \in StateType, NEW c \in CallType, NEW nt, nt = Effect(st, c),
           c.call = "emit"
    PROVE  /\ Len(nt.code) = Len(st.code) + 1
           /\ nt.code[Len(st.code) + 1].op = c.op /\ nt.code[Len(st.code) + 1].arg = c.arg
<1>1. nt.code = Append(st.code, Instruction(c.op, c.arg))
  BY EffectTyped
<1>2. st.code \in Seq(InstType)
  BY StateFields
<1>3. Len(nt.code) = Len(st.code) + 1
      /\ nt.code[Len(st.code) + 1] = Instruction(c.op, c.arg)
  BY <1>1, <1>2, AppendAt
<1> QED
  BY <1>3, InstructionFields

(* The jumps that are to be patched, after a call.                         *)
LEMMA CallKeepsJumps ==
    ASSUME TypeInv, JumpsInv, MakeCall
    PROVE  JumpsInv'
<1> DEFINE L == Len(cs.code)
           M == Len(cs'.code)
           TestOK(x) == \/ x.test < M /\ cs'.code[x.test + 1].op = "JUMP_IF_FALSE"
                        \/ x.test = M /\ Emits("JUMP_IF_FALSE")'
           PatchOK(x) == \/ x.pc < M /\ cs'.code[x.pc + 1].op \in {"JUMP_IF_FALSE", "JUMP"}
                         \/ x.pc = M /\ Emits("JUMP")'
<1>0. PICK c, q, rest : MadeCall(c, q, rest)
  BY CallStep
<1>1. /\ cs \in StateType /\ cs' = Effect(cs, c) /\ c \in CallType /\ q = Calls(cs, c)
      /\ todo # <<>> /\ todo[1] = c /\ ToSet(rest) \subseteq CallType
      /\ ToSet(todo) = {c} \cup ToSet(rest) /\ ToSet(Tail(todo)) = ToSet(rest)
      /\ todo' = <<>> => q = <<>>
  BY <1>0 DEF MadeCall
<1>2. /\ ToSet(todo') = ToSet(q) \cup ToSet(rest)
      /\ todo' # <<>> =>
            /\ q = <<>> => todo'[1] \in ToSet(rest)
            /\ q # <<>> => todo'[1] = q[1] /\ q[1] \in ToSet(q)
            /\ q = <<>> => ToSet(Tail(todo')) \subseteq ToSet(rest)
            /\ q # <<>> => ToSet(Tail(todo')) = ToSet(Tail(q)) \cup ToSet(rest)
  BY <1>0 DEF MadeCall, CallsMade
<1>3. Emits("JUMP_IF_FALSE") <=> c = Emit("JUMP_IF_FALSE", 0)
  BY <1>1 DEF Emits
<1>4. Emits("JUMP") <=> c = Emit("JUMP", 0)
  BY <1>1 DEF Emits
<1>5. ToSet(rest) \cap IfJump = {}
  BY <1>1 DEF JumpsInv
<1>6. \/ /\ ToSet(q) \subseteq PlainCall
         /\ ToSet(Tail(q)) \subseteq PlainCall \/ q = <<>>
         /\ c.call # "else"
      \/ /\ c.call = "then"
         /\ q # <<>> /\ q[1] = Emit("JUMP_IF_FALSE", 0)
         /\ ToSet(q) \subseteq {q[1], ElsePart(c.stmt, L)} \cup PlainCall
         /\ ToSet(Tail(q)) \subseteq {ElsePart(c.stmt, L)} \cup PlainCall
         /\ ElsePart(c.stmt, L) \in ToSet(q)
      \/ /\ c.call = "else" /\ c.test \in Nat
         /\ q # <<>>
         /\ ToSet(Tail(q)) \subseteq {PatchHere(c.test), PatchHere(L)} \cup PlainCall
         /\ \/ q[1] = PatchHere(c.test) /\ ToSet(q) = {PatchHere(c.test)}
            \/ /\ q[1] = Emit("JUMP", 0)
               /\ ToSet(q) = {Emit("JUMP", 0)} \cup ToSet(Tail(q))
               /\ PatchHere(L) \in ToSet(q)
  BY <1>1, CallsAre
<1>7. /\ L \in Nat /\ M \in Nat /\ M >= L
      /\ \A i \in 1..L : cs'.code[i].op = cs.code[i].op
  BY <1>1, CodeGrows
<1>8. c.call = "emit" => M = L + 1 /\ cs'.code[L + 1].op = c.op
  BY <1>1, CallEmits
<1>9. c.call \in {"then", "else"} => M = L
  <2>1. c.call \in {"then", "else"} => cs'.code = cs.code
    BY <1>1, EffectTyped
  <2> QED
    BY <2>1
<1>10. ASSUME NEW x \in ToSet(rest), x.call = "else" PROVE TestOK(x)
  <2>1. x.test \in Nat
    BY <1>1, <1>10, CallKinds DEF PlainEmit, ReferenceCall
  <2>2. \/ x.test < L /\ cs.code[x.test + 1].op = "JUMP_IF_FALSE"
        \/ x.test = L /\ c = Emit("JUMP_IF_FALSE", 0)
    BY <1>1, <1>3, <1>10 DEF JumpsInv
  <2>3. CASE x.test < L /\ cs.code[x.test + 1].op = "JUMP_IF_FALSE"
    BY <1>7, <2>1, <2>3
  <2>4. CASE x.test = L /\ c = Emit("JUMP_IF_FALSE", 0)
    BY <1>7, <1>8, <2>4, PatchesAre
  <2> QED
    BY <2>2, <2>3, <2>4
<1>11. ASSUME NEW x \in ToSet(rest), x.call = "patch" PROVE PatchOK(x)
  <2>1. x.pc \in Nat
    BY <1>1, <1>11, CallKinds DEF PlainEmit, ReferenceCall
  <2>2. \/ x.pc < L /\ cs.code[x.pc + 1].op \in {"JUMP_IF_FALSE", "JUMP"}
        \/ x.pc = L /\ c = Emit("JUMP", 0)
    BY <1>1, <1>4, <1>11 DEF JumpsInv
  <2>3. CASE x.pc < L /\ cs.code[x.pc + 1].op \in {"JUMP_IF_FALSE", "JUMP"}
    BY <1>7, <2>1, <2>3
  <2>4. CASE x.pc = L /\ c = Emit("JUMP", 0)
    BY <1>7, <1>8, <2>4, PatchesAre
  <2> QED
    BY <2>2, <2>3, <2>4
<1> HIDE DEF L, M
<1>12. ASSUME NEW x \in ToSet(q) PROVE (x.call = "else" => TestOK(x))
                                       /\ (x.call = "patch" => PatchOK(x))
  <2>1. CASE ToSet(q) \subseteq PlainCall
    BY <1>12, <2>1, PlainIsPlain
  <2>2. CASE c.call = "then" /\ q # <<>> /\ q[1] = Emit("JUMP_IF_FALSE", 0)
             /\ ToSet(q) \subseteq {q[1], ElsePart(c.stmt, L)} \cup PlainCall
    <3>1. Emits("JUMP_IF_FALSE")'
      BY <1>1, <1>2, <2>2 DEF Emits
    <3>2. x.call \notin {"else", "patch"} \/ x = ElsePart(c.stmt, L)
      BY <1>12, <2>2, PatchesAre, PlainIsPlain
    <3> QED
      BY <1>9, <2>2, <3>1, <3>2, PatchesAre
  <2>3. CASE c.call = "else" /\ c.test \in Nat
             /\ q # <<>>
             /\ ToSet(Tail(q)) \subseteq {PatchHere(c.test), PatchHere(L)} \cup PlainCall
             /\ \/ ToSet(q) = {PatchHere(c.test)}
                \/ /\ q[1] = Emit("JUMP", 0)
                   /\ ToSet(q) = {Emit("JUMP", 0)} \cup ToSet(Tail(q))
    <3>1. c.test < L /\ cs.code[c.test + 1].op = "JUMP_IF_FALSE"
      BY <1>1, <1>3, <2>3, PatchesAre DEF JumpsInv, L
    <3>2. PatchOK(PatchHere(c.test))
      BY <1>7, <1>9, <2>3, <3>1, PatchesAre
    <3>3. CASE ToSet(q) = {PatchHere(c.test)}
      BY <1>12, <3>2, <3>3, PatchesAre
    <3>4. CASE q[1] = Emit("JUMP", 0) /\ ToSet(q) = {Emit("JUMP", 0)} \cup ToSet(Tail(q))
      <4>1. Emits("JUMP")'
        BY <1>1, <1>2, <2>3, <3>4 DEF Emits
      <4>2. PatchOK(PatchHere(L))
        BY <1>9, <2>3, <4>1, PatchesAre
      <4>3. \/ x.call \notin {"else", "patch"}
            \/ x \in {PatchHere(c.test), PatchHere(L)}
        BY <1>12, <2>3, <3>4, PatchesAre, PlainIsPlain
      <4> HIDE DEF PatchOK, TestOK
      <4> QED
        BY <3>2, <4>2, <4>3, PatchesAre
    <3> QED
      BY <2>3, <3>3, <3>4
  <2> QED
    BY <1>6, <2>1, <2>2, <2>3
<1>13. \A x \in ToSet(todo') : (x.call = "else" => TestOK(x))
                               /\ (x.call = "patch" => PatchOK(x))
  <2> HIDE DEF TestOK, PatchOK
  <2> QED
    BY <1>2, <1>10, <1>11, <1>12
<1>14. q # <<>> => ToSet(Tail(q)) \cap IfJump = {}
  BY <1>6, PatchesAre, PlainIsPlain
<1>15. todo' # <<>> => ToSet(Tail(todo')) \cap IfJump = {}
  BY <1>2, <1>5, <1>14
<1>16. ASSUME Emits("JUMP_IF_FALSE")'
       PROVE  \E x \in ToSet(todo') : x.call = "else" /\ x.test = M
  <2>1. todo' # <<>> /\ todo'[1] = Emit("JUMP_IF_FALSE", 0) /\ todo'[1] \in IfJump
    BY <1>16, PatchesAre DEF Emits
  <2>2. q # <<>> /\ q[1] = Emit("JUMP_IF_FALSE", 0) /\ q[1] \in ToSet(q)
    BY <1>2, <1>5, <2>1
  <2>3. q[1] \notin PlainCall /\ q[1] \in IfJump /\ q[1] # Emit("JUMP", 0)
    BY <2>2, PatchesAre, PlainIsPlain
  <2>4. c.call = "then" /\ ElsePart(c.stmt, L) \in ToSet(q)
    BY <1>6, <2>2, <2>3, PatchesAre
  <2> QED
    BY <1>2, <1>9, <2>4, PatchesAre
<1>17. ASSUME Emits("JUMP")'
       PROVE  \E x \in ToSet(todo') : x.call = "patch" /\ x.pc = M
  <2>1. todo' # <<>> /\ todo'[1] = Emit("JUMP", 0) /\ todo'[1] \in IfJump
    BY <1>17, PatchesAre DEF Emits
  <2>2. q # <<>> /\ q[1] = Emit("JUMP", 0) /\ q[1] \in ToSet(q)
    BY <1>2, <1>5, <2>1
  <2>3. q[1] \notin PlainCall /\ q[1] \in IfJump /\ q[1] # Emit("JUMP_IF_FALSE", 0)
    BY <2>2, PatchesAre, PlainIsPlain
  <2>4. c.call = "else" /\ PatchHere(L) \in ToSet(q)
    BY <1>6, <2>2, <2>3, PatchesAre
  <2> QED
    BY <1>2, <1>9, <2>4, PatchesAre
<1> QED
  BY <1>13, <1>15, <1>16, <1>17 DEF JumpsInv, M

(* The instructions that the calls of a set will patch.                    *)
OwedOf(calls) == {x.test + 1 : x \in {y \in calls : y.call = "else"}}
                 \cup {x.pc + 1 : x \in {y \in calls : y.call = "patch"}}

(* The jumps of an IF that are to be patched are those of the calls.       *)
LEMMA OwedByCalls ==
    /\ OwedByIf = OwedOf(ToSet(todo))
    /\ OwedByIf' = OwedOf(ToSet(todo'))
BY DEF OwedByIf, OwedOf, ToSet

(* The placeholders among the operands when an instruction is added.       *)
HoldersOf(code) == {i \in DOMAIN code : IsReference(code[i]) /\ code[i].arg = Placeholder}

HoldersGrow(t, s, x) ==
    /\ x.op \in ReferenceOps /\ x.arg = Placeholder =>
          HoldersOf(t) = HoldersOf(s) \cup {Len(s) + 1}
    /\ ~(x.op \in ReferenceOps /\ x.arg = Placeholder) => HoldersOf(t) = HoldersOf(s)

(* An instruction that is added may be one more to hold the placeholder.   *)
LEMMA HoldersAppend ==
    ASSUME NEW s \in Seq(InstType), NEW x, NEW t, t = Append(s, x)
    PROVE  HoldersGrow(t, s, x)
<1>1. /\ Len(s) \in Nat /\ DOMAIN s = 1..Len(s) /\ DOMAIN t = 1..(Len(s) + 1)
      /\ \A i \in 1..Len(s) : t[i] = s[i]
      /\ t[Len(s) + 1] = x
  BY AppendAt
<1>2. IsReference(x) <=> x.op \in ReferenceOps
  BY DEF IsReference, ReferenceOps
<1>3. \A i \in 1..(Len(s) + 1) : i \in 1..Len(s) \/ i = Len(s) + 1
  BY <1>1
<1>4. (\A i \in 1..Len(s) : i \in 1..(Len(s) + 1)) /\ Len(s) + 1 \in 1..(Len(s) + 1)
  BY <1>1
<1> QED
  BY <1>1, <1>2, <1>3, <1>4 DEF HoldersOf, HoldersGrow

(* What a call does to the placeholders and to the fixups.                 *)
LEMMA CallHolders ==
    ASSUME TypeInv, LinesInv, FixupsInv, JumpsInv, OwedInv, NEW c, NEW q, NEW rest,
           MadeCall(c, q, rest), Fits'
    PROVE  /\ HoldersOf(cs'.code) = {cs'.fixups[f].pc + 1 : f \in DOMAIN cs'.fixups}
           /\ \A x \in ToSet(todo') : x.call = "patch" /\ x.pc < Len(cs'.code) =>
                 x.pc + 1 \notin HoldersOf(cs'.code)
<1> DEFINE L == Len(cs.code)
           M == Len(cs'.code)
           H == HoldersOf(cs.code)
           O == {cs.fixups[f].pc + 1 : f \in DOMAIN cs.fixups}
<1>1. /\ cs \in StateType /\ cs' = Effect(cs, c) /\ c \in CallType /\ q = Calls(cs, c)
      /\ phase = "compiling"
      /\ todo # <<>> /\ todo[1] = c /\ ToSet(rest) \subseteq CallType
      /\ ToSet(todo) = {c} \cup ToSet(rest)
      /\ ToSet(todo') = ToSet(q) \cup ToSet(rest)
  BY DEF MadeCall, CallsMade
<1>2. /\ cs' \in StateType /\ L \in Nat /\ M \in Nat /\ M >= L
      /\ DOMAIN cs.code = 1..L /\ DOMAIN cs'.code = 1..M
      /\ \A i \in 1..L : cs'.code[i].op = cs.code[i].op
  BY <1>1, CodeGrows
<1>3. L < Placeholder /\ Fits /\ M < Placeholder
  BY <1>2 DEF Fits, Placeholder
<1>4. H = O /\ \A x \in ToSet(todo) : x.call = "patch" /\ x.pc < L => x.pc + 1 \notin H
  <2>1. OwedByFixup = O
    BY <1>1 DEF OwedByFixup, Unresolved
  <2>2. Holders = H
    BY DEF Holders, HoldersOf
  <2> QED
    BY <1>1, <1>3, <2>1, <2>2 DEF OwedInv
<1>5. \A x \in ToSet(rest) : x.call = "patch" =>
         x.pc \in Nat /\ (x.pc < L => x.pc + 1 \notin H)
         /\ (x.pc >= L => c = Emit("JUMP", 0))
  <2>1. \A x \in ToSet(rest) : x.call = "patch" => x.pc \in Nat
    BY <1>1, CallKinds DEF PlainEmit, ReferenceCall
  <2>2. \A x \in ToSet(rest) : x.call = "patch" => x.pc < L \/ c = Emit("JUMP", 0)
    BY <1>1 DEF JumpsInv, Emits
  <2> QED
    BY <1>1, <1>2, <1>4, <2>1, <2>2
<1>6. ASSUME NEW x \in ToSet(q), x.call = "patch"
      PROVE  c.call = "else" /\ (x.pc >= L \/ x.pc + 1 \notin H)
  <2>1. CASE ToSet(q) \subseteq PlainCall
    BY <1>6, <2>1, PlainIsPlain
  <2>2. CASE ToSet(q) \subseteq {q[1], ElsePart(c.stmt, L)} \cup PlainCall
             /\ q[1] = Emit("JUMP_IF_FALSE", 0)
    BY <1>6, <2>2, PatchesAre, PlainIsPlain
  <2>3. CASE c.call = "else" /\ c.test \in Nat
             /\ ToSet(Tail(q)) \subseteq {PatchHere(c.test), PatchHere(L)} \cup PlainCall
             /\ \/ ToSet(q) = {PatchHere(c.test)}
                \/ ToSet(q) = {Emit("JUMP", 0)} \cup ToSet(Tail(q))
    <3>1. x = PatchHere(c.test) \/ x = PatchHere(L)
      BY <1>6, <2>3, PatchesAre, PlainIsPlain
    <3>2. c.test + 1 \notin H
      <4>1. c.test < L /\ cs.code[c.test + 1].op = "JUMP_IF_FALSE"
        BY <1>1, <2>3, PatchesAre DEF JumpsInv, Emits
      <4> QED
        BY <4>1 DEF HoldersOf, IsReference
    <3> QED
      BY <1>2, <2>3, <3>1, <3>2, PatchesAre
  <2> QED
    BY <1>1, <2>1, <2>2, <2>3, CallsAre
<1>12. ASSUME NEW op, NEW arg, cs'.code = Append(cs.code, Instruction(op, arg))
       PROVE  /\ op \in ReferenceOps /\ arg = Placeholder => HoldersOf(cs'.code) = H \cup {L + 1}
              /\ ~(op \in ReferenceOps /\ arg = Placeholder) => HoldersOf(cs'.code) = H
  <2> DEFINE x == Instruction(op, arg)
  <2>1. x.op = op /\ x.arg = arg
    BY InstructionFields
  <2>2. cs'.code = Append(cs.code, x) /\ cs.code \in Seq(InstType)
    BY <1>1, <1>12, StateFields
  <2> HIDE DEF x
  <2>3. HoldersGrow(cs'.code, cs.code, x)
    BY <2>2, HoldersAppend
  <2> QED
    BY <2>1, <2>3 DEF HoldersGrow
<1>7. CASE cs'.code = cs.code /\ cs'.fixups = cs.fixups /\ c.call # "emit"
  <2>1. \A x \in ToSet(rest) : x.call = "patch" /\ x.pc < L => x.pc + 1 \notin H
    BY <1>5
  <2>2. ASSUME NEW x \in ToSet(q), x.call = "patch", x.pc < L PROVE x.pc + 1 \notin H
    <3>1. x.pc \in Nat
      BY <1>1, <2>2, CallsTyped, ToSetJoin, CallKinds DEF PlainEmit, ReferenceCall
    <3> QED
      BY <1>2, <1>6, <2>2, <3>1
  <2> QED
    BY <1>1, <1>4, <1>7, <2>1, <2>2
<1>8. CASE c.call = "emit"
  <2>1. /\ cs'.code = Append(cs.code, Instruction(c.op, c.arg)) /\ cs'.fixups = cs.fixups
        /\ M = L + 1
    BY <1>1, <1>8, EffectTyped, CallEmits
  <2>2. ~(c.op \in ReferenceOps /\ c.arg = Placeholder)
    BY <1>1, <1>8, CallKinds DEF PlainEmit, ReferenceCall, ReferenceOps, JumpOps, Placeholder
  <2>3. HoldersOf(cs'.code) = H
    BY <1>12, <2>1, <2>2
  <2>4. L + 1 \notin H
    BY <1>2 DEF HoldersOf
  <2>5. ASSUME NEW x \in ToSet(todo'), x.call = "patch", x.pc < M PROVE x.pc + 1 \notin H
    <3>1. x \in ToSet(rest)
      BY <1>1, <1>6, <1>8, <2>5
    <3>2. x.pc \in Nat /\ (x.pc < L => x.pc + 1 \notin H)
      BY <1>5, <2>5, <3>1
    <3>3. x.pc < L \/ x.pc = L
      BY <1>2, <2>1, <2>5, <3>2
    <3> QED
      BY <2>4, <3>2, <3>3
  <2> QED
    BY <1>4, <2>1, <2>3, <2>5
<1>9. CASE c.call = "reference"
  <2> DEFINE line == c.number % 65536
             offset == compiler_find_line_offset(cs, line)
  <2>1. c.op \in ReferenceOps /\ c.number \in Int
    BY <1>1, <1>9, CallKinds DEF PlainEmit, ReferenceCall
  <2>2. ReferenceMade(cs', cs, c.op, line)
    BY <1>1, <1>9, EffectTyped
  <2>3. line \in Int
    BY <2>1, WordCut, WordRange
  <2>4. offset = -1 \/ (offset \in Nat /\ offset <= L)
    BY <2>3, SearchOfMap
  <2>5. \/ /\ offset \in Nat /\ offset <= L
           /\ cs'.code = Append(cs.code, Instruction(c.op, Operand16(offset)))
           /\ cs'.fixups = cs.fixups
        \/ /\ cs'.code = Append(cs.code, Instruction(c.op, Placeholder))
           /\ cs'.fixups = Append(cs.fixups, [pc |-> L, line |-> line])
    BY <2>2, <2>4 DEF ReferenceMade
  <2> HIDE DEF line, offset
  <2>6. M = L + 1
    <3>1. cs.code \in Seq(InstType)
      BY <1>1, StateFields
    <3>2. ASSUME NEW x, cs'.code = Append(cs.code, x) PROVE M = L + 1
      BY <3>1, <3>2, AppendAt
    <3> QED
      BY <2>5, <3>2
  <2>7. ASSUME NEW x \in ToSet(todo'), x.call = "patch", x.pc < M
        PROVE  x.pc + 1 \notin H /\ x.pc + 1 # L + 1
    <3>1. x \in ToSet(rest)
      BY <1>1, <1>6, <1>9, <2>7
    <3>2. c # Emit("JUMP", 0)
      BY <1>9, PatchesAre
    <3>3. x.pc \in Nat /\ x.pc < L
      BY <1>2, <1>5, <2>7, <3>1, <3>2
    <3> QED
      BY <1>2, <1>5, <2>7, <3>1, <3>3
  <2>8. CASE offset \in Nat /\ offset <= L
             /\ cs'.code = Append(cs.code, Instruction(c.op, Operand16(offset)))
             /\ cs'.fixups = cs.fixups
    <3>1. Operand16(offset) # Placeholder
      BY <1>2, <1>3, <2>8, PlaceFits DEF Placeholder
    <3>2. HoldersOf(cs'.code) = H
      BY <1>12, <2>8, <3>1
    <3> QED
      BY <1>4, <2>7, <2>8, <3>2
  <2>9. CASE cs'.code = Append(cs.code, Instruction(c.op, Placeholder))
             /\ cs'.fixups = Append(cs.fixups, [pc |-> L, line |-> line])
    <3> DEFINE fixup == [pc |-> L, line |-> line]
               m == Len(cs.fixups)
    <3>1. HoldersOf(cs'.code) = H \cup {L + 1}
      BY <1>12, <2>1, <2>9
    <3>2. cs.fixups \in Seq(FixupType) /\ fixup.pc = L
      BY <1>1, StateFields
    <3>3. cs'.fixups = Append(cs.fixups, fixup)
      BY <2>9
    <3> HIDE DEF fixup
    <3>4. /\ m \in Nat /\ DOMAIN cs.fixups = 1..m /\ DOMAIN cs'.fixups = 1..(m + 1)
          /\ \A f \in 1..m : cs'.fixups[f] = cs.fixups[f]
          /\ cs'.fixups[m + 1] = fixup
      BY <3>2, <3>3, AppendAt
    <3>5. 1..(m + 1) = 1..m \cup {m + 1}
      BY <3>4
    <3>6. {cs'.fixups[f].pc + 1 : f \in DOMAIN cs'.fixups} = O \cup {L + 1}
      <4> HIDE DEF m, L
      <4> QED
        BY <3>2, <3>4, <3>5
    <3> QED
      BY <1>4, <2>7, <3>1, <3>6
  <2> QED
    BY <2>5, <2>8, <2>9
<1>10. CASE c.call = "patch"
  <2> DEFINE p == c.pc + 1
  <2>1. c.pc \in Nat /\ c.pc < L
    <3>1. c.pc \in Nat /\ c # Emit("JUMP", 0)
      BY <1>1, <1>10, CallKinds, PatchesAre DEF PlainEmit, ReferenceCall
    <3> QED
      BY <1>1, <1>10, <3>1 DEF JumpsInv, Emits
  <2>2. /\ cs'.fixups = cs.fixups /\ M = L
        /\ \A i \in 1..L : cs'.code[i] = IF i = p THEN Instruction(cs.code[i].op, Operand16(L))
                                         ELSE cs.code[i]
    BY <1>1, <1>10, EffectTyped
  <2>3. p \in 1..L /\ p \notin H
    BY <1>1, <1>2, <1>4, <1>10, <2>1
  <2>4. Operand16(L) # Placeholder
    BY <1>2, <1>3, PlaceFits
  <2> HIDE DEF p
  <2>5. cs'.code[p].arg = Operand16(L) /\ \A i \in 1..L : i # p => cs'.code[i] = cs.code[i]
    BY <2>2, <2>3, InstructionFields
  <2>6. HoldersOf(cs'.code) = H
    BY <1>2, <2>2, <2>3, <2>4, <2>5 DEF HoldersOf
  <2>7. ASSUME NEW x \in ToSet(todo'), x.call = "patch", x.pc < M PROVE x.pc + 1 \notin H
    <3>1. x \in ToSet(rest)
      BY <1>1, <1>6, <1>10, <2>7
    <3> QED
      BY <1>5, <2>2, <2>7, <3>1
  <2> QED
    BY <1>4, <2>2, <2>6, <2>7
<1>11. c.call \notin {"emit", "reference", "patch"} =>
          cs'.code = cs.code /\ cs'.fixups = cs.fixups
  BY <1>1, EffectTyped
<1> QED
  BY <1>7, <1>8, <1>9, <1>10, <1>11

(* What is owed, after a call.                                             *)
LEMMA CallKeepsOwed ==
    ASSUME TypeInv, LinesInv, FixupsInv, JumpsInv, OwedInv, MakeCall
    PROVE  OwedInv'
<1> DEFINE L == Len(cs.code)
           M == Len(cs'.code)
<1>0. PICK c, q, rest : MadeCall(c, q, rest)
  BY CallStep
<1>1. /\ cs \in StateType /\ cs' = Effect(cs, c) /\ c \in CallType /\ q = Calls(cs, c)
      /\ phase = "compiling" /\ phase' = phase
      /\ todo # <<>> /\ todo[1] = c /\ ToSet(rest) \subseteq CallType
      /\ ToSet(todo) = {c} \cup ToSet(rest)
      /\ ToSet(todo') = ToSet(q) \cup ToSet(rest)
  BY <1>0 DEF MadeCall, CallsMade
<1> SUFFICES ASSUME Fits' PROVE OwedInv'
  BY DEF OwedInv
<1>2. /\ L \in Nat /\ M \in Nat /\ M >= L
      /\ DOMAIN cs.code = 1..L /\ DOMAIN cs'.code = 1..M
      /\ \A i \in 1..L : cs'.code[i].op = cs.code[i].op
      /\ c.call # "patch" => \A i \in 1..L : cs'.code[i] = cs.code[i]
  BY <1>1, CodeGrows
<1>3. Fits
  BY <1>2 DEF Fits, Placeholder
<1>4. OwedByFixup' = Holders'
  <2>1. HoldersOf(cs'.code) = {cs'.fixups[f].pc + 1 : f \in DOMAIN cs'.fixups}
    BY <1>0, CallHolders
  <2>2. OwedByFixup' = {cs'.fixups[f].pc + 1 : f \in DOMAIN cs'.fixups}
    BY <1>1 DEF OwedByFixup, Unresolved
  <2>3. Holders' = HoldersOf(cs'.code)
    BY DEF Holders, HoldersOf, IsReference
  <2> QED
    BY <2>1, <2>2, <2>3
<1>5. \A x \in ToSet(todo') : x.call = "patch" /\ x.pc < Len(cs'.code) =>
         x.pc + 1 \notin Holders'
  <2>1. Holders' = HoldersOf(cs'.code)
    BY DEF Holders, HoldersOf, IsReference
  <2> QED
    BY <1>0, <2>1, CallHolders
<1>6. \A x \in ToSet(rest) : /\ x.call = "else" => x.test + 1 \in OwedByIf'
                             /\ x.call = "patch" => x.pc + 1 \in OwedByIf'
  <2>1. OwedByIf' = OwedOf(ToSet(todo'))
    BY OwedByCalls
  <2> QED
    BY <1>1, <2>1 DEF OwedOf
<1>7. c.call = "else" => c.test + 1 \in OwedByIf'
  <2>1. c.call = "else" => PatchHere(c.test) \in ToSet(q)
    BY <1>1, CallsAre
  <2>2. OwedByIf' = OwedOf(ToSet(todo'))
    BY OwedByCalls
  <2> QED
    BY <1>1, <2>1, <2>2, PatchesAre DEF OwedOf
<1>8. ASSUME NEW i \in 1..L, cs.code[i].op = "JUMP_IF_FALSE", cs.code[i].arg = 0,
             c.call # "patch" \/ i # c.pc + 1
      PROVE  i \in OwedByIf'
  <2>1. i \in OwedOf(ToSet(todo))
    BY <1>1, <1>2, <1>3, <1>8, OwedByCalls DEF OwedInv
  <2>2. \E x \in ToSet(todo) : \/ x.call = "else" /\ i = x.test + 1
                               \/ x.call = "patch" /\ i = x.pc + 1
    BY <2>1 DEF OwedOf
  <2> QED
    BY <1>1, <1>6, <1>7, <1>8, <2>2
<1>9. ASSUME NEW i \in 1..M, cs'.code[i].op = "JUMP_IF_FALSE", cs'.code[i].arg = 0
      PROVE  i \in OwedByIf'
  <2>1. CASE c.call = "patch"
    <3>1. /\ M = L
          /\ \A j \in 1..L :
                cs'.code[j] = IF j = c.pc + 1 THEN Instruction(cs.code[j].op, Operand16(L))
                              ELSE cs.code[j]
      BY <1>1, <2>1, EffectTyped
    <3>2. i \in 1..L /\ L > 0
      BY <1>2, <3>1
    <3>3. Operand16(L) # 0
      BY <1>2, <1>3, <3>2, PlaceFits DEF Fits
    <3>4. i # c.pc + 1
      BY <1>9, <3>1, <3>2, <3>3, InstructionFields
    <3> QED
      BY <1>8, <1>9, <3>1, <3>2, <3>4
  <2>2. CASE c.call = "emit"
    <3>1. M = L + 1 /\ cs'.code[L + 1].op = c.op /\ cs'.code[L + 1].arg = c.arg
      BY <1>1, <2>2, CallEmits
    <3>2. CASE i = L + 1
      <4>1. c = Emit("JUMP_IF_FALSE", 0)
        BY <1>1, <1>9, <2>2, <3>1, <3>2, CallKinds
           DEF PlainEmit, ReferenceCall, JumpOps
      <4>2. PICK x \in ToSet(todo) : x.call = "else" /\ x.test = L
        BY <1>1, <4>1 DEF JumpsInv, Emits
      <4>3. x \in ToSet(rest)
        BY <1>1, <2>2, <4>2
      <4> QED
        BY <1>6, <3>2, <4>2, <4>3
    <3>3. CASE i # L + 1
      <4>1. i \in 1..L
        BY <1>2, <3>1, <3>3
      <4> QED
        BY <1>2, <1>8, <1>9, <2>2, <4>1
    <3> QED
      BY <3>2, <3>3
  <2>3. CASE c.call = "reference"
    <3>1. c.op \in ReferenceOps
      BY <1>1, <2>3, CallKinds DEF PlainEmit, ReferenceCall
    <3>2. \E arg : cs'.code = Append(cs.code, Instruction(c.op, arg))
      <4>1. ReferenceMade(cs', cs, c.op, c.number % 65536)
        BY <1>1, <2>3, EffectTyped
      <4> QED
        BY <4>1 DEF ReferenceMade
    <3>3. M = L + 1 /\ cs'.code[L + 1].op = c.op
      <4>1. cs.code \in Seq(InstType)
        BY <1>1, StateFields
      <4> QED
        BY <3>2, <4>1, AppendAt, InstructionFields
    <3>4. i # L + 1
      BY <1>9, <3>1, <3>3 DEF ReferenceOps
    <3>5. i \in 1..L
      BY <1>2, <3>3, <3>4
    <3> QED
      BY <1>2, <1>8, <1>9, <2>3, <3>5
  <2>4. CASE c.call \notin {"patch", "emit", "reference"}
    <3>1. cs'.code = cs.code
      BY <1>1, <2>4, EffectTyped
    <3> QED
      BY <1>8, <1>9, <2>4, <3>1
  <2> QED
    BY <2>1, <2>2, <2>3, <2>4
<1> QED
  BY <1>2, <1>4, <1>5, <1>9 DEF OwedInv

(* A call made.                                                            *)
LEMMA InvMakeCall == CompilerInv /\ MakeCall => CompilerInv'
BY CallKeepsTypes, CallKeepsJumps, CallKeepsOwed DEF CompilerInv

(* Every step.                                                             *)
LEMMA InvKept == CompilerInv /\ [CompilerNext]_compilerVars => CompilerInv'
<1>1. ASSUME CompilerInv, UNCHANGED compilerVars PROVE CompilerInv'
  BY <1>1 DEF compilerVars, CompilerInv, TypeInv, LinesInv, FixupsInv, JumpsInv, Emits,
              OwedInv, OwedByFixup, Unresolved, OwedByIf, Holders, Fits, IsReference
<1> QED
  BY <1>1, InvNextStatement, InvMakeCall, InvResolveJumps, InvNextFixup, InvReturnProgram
     DEF CompilerNext

(* The invariant holds whatever the sources.                               *)
THEOREM CompilerInvariant == CompilerSpec => []CompilerInv
BY InvAtFirst, InvKept, PTL DEF CompilerSpec

-----------------------------------------------------------------------------
(* What follows.                                                           *)

(* A patch is owed to the references that hold the placeholder, and to the *)
(* jumps of an IF that have the operand 0.                                 *)
THEOREM OwesPatches == CompilerSpec => []PatchesOwed
<1>1. ASSUME CompilerInv PROVE PatchesOwed
  <2> SUFFICES ASSUME phase # "failed", Fits PROVE PatchesOwed
    BY DEF PatchesOwed
  <2>1. TypeInv /\ FixupsInv /\ OwedInv
    BY <1>1 DEF CompilerInv
  <2>2. cs \in StateType /\ next \in Nat /\ next >= 1
    BY <2>1 DEF TypeInv
  <2>3. /\ Len(cs.fixups) \in Nat /\ DOMAIN cs.fixups = 1..Len(cs.fixups)
        /\ \A f \in 1..Len(cs.fixups) : cs.fixups[f].pc \in Nat
    BY <2>2, StateFields DEF FixupType
  <2>4. Unresolved \subseteq DOMAIN cs.fixups
    BY <2>2, <2>3 DEF Unresolved
  <2>5. ASSUME NEW f \in Unresolved, NEW g \in Unresolved,
               cs.fixups[f].pc = cs.fixups[g].pc
        PROVE  f = g
    <3>1. f \in 1..Len(cs.fixups) /\ g \in 1..Len(cs.fixups)
      BY <2>3, <2>4
    <3>2. f < g => cs.fixups[f].pc < cs.fixups[g].pc
      BY <2>1, <2>3, <3>1 DEF FixupsInv
    <3>3. g < f => cs.fixups[g].pc < cs.fixups[f].pc
      BY <2>1, <2>3, <3>1 DEF FixupsInv
    <3>4. cs.fixups[f].pc \in Nat /\ cs.fixups[g].pc \in Nat
      BY <2>3, <3>1
    <3> QED
      BY <2>5, <3>1, <3>2, <3>3, <3>4
  <2> QED
    BY <2>1, <2>5 DEF PatchesOwed, OwedInv, Holders
<1> QED
  BY <1>1, CompilerInvariant, PTL

(* Code once emitted stays, but for the patches that are owed to it.       *)
THEOREM CodeStays == CompilerSpec => EmittedCodeStays
<1>1. ASSUME CompilerInv, [CompilerNext]_compilerVars
      PROVE  [EmittedStaysStep]_compilerVars
  <2>1. TypeInv /\ LinesInv /\ FixupsInv /\ JumpsInv
    BY <1>1 DEF CompilerInv
  <2>2. cs \in StateType
    BY <2>1 DEF TypeInv
  <2>3. Len(cs.code) \in Nat /\ DOMAIN cs.code = 1..Len(cs.code)
    BY <2>2, StateFields
  <2>4. cs'.code = cs.code => EmittedStaysStep
    BY <2>3 DEF EmittedStaysStep
  <2>5. CASE CompileNextStatement
    <3>1. cs'.code = cs.code
      BY <2>5 DEF CompileNextStatement, compiler_add_line_mapping, CodeLen
    <3> QED
      BY <2>4, <3>1
  <2>6. CASE ResolveJumps \/ ReturnProgram
    BY <2>4, <2>6 DEF ResolveJumps, ReturnProgram
  <2>7. CASE MakeCall
    <3>1. PICK c, q, rest : MadeCall(c, q, rest)
      BY <2>1, <2>7, CallStep
    <3>2. cs' = Effect(cs, c) /\ c \in CallType /\ c \in ToSet(todo)
      BY <3>1 DEF MadeCall
    <3>3. /\ Len(cs'.code) >= Len(cs.code)
          /\ \A i \in 1..Len(cs.code) : cs'.code[i].op = cs.code[i].op
          /\ c.call # "patch" => \A i \in 1..Len(cs.code) : cs'.code[i] = cs.code[i]
      BY <2>2, <3>2, CodeGrows
    <3>4. c.call = "patch" => /\ c.pc + 1 \in OwedByIf
                              /\ \A i \in 1..Len(cs.code) :
                                    i # c.pc + 1 => cs'.code[i] = cs.code[i]
      <4>1. c.call = "patch" => c.pc + 1 \in OwedByIf
        BY <3>2, OwedByCalls DEF OwedOf
      <4> QED
        BY <2>2, <3>2, <4>1, EffectTyped
    <3> QED
      BY <2>3, <3>3, <3>4 DEF EmittedStaysStep
  <2>8. CASE ResolveNextFixup
    <3> DEFINE p == cs.fixups[next].pc + 1
    <3>1. /\ next \in 1..Len(cs.fixups) /\ Len(cs'.code) = Len(cs.code)
          /\ \/ cs'.code = cs.code
             \/ \E offset \in Nat :
                   \A i \in 1..Len(cs.code) :
                      cs'.code[i] = IF i = p THEN Instruction(cs.code[i].op, Operand16(offset))
                                    ELSE cs.code[i]
      BY <2>1, <2>8, FixupEffect
    <3>2. p \in OwedByFixup
      <4>1. Unresolved = next..Len(cs.fixups) /\ Len(cs.fixups) \in Nat
        BY <2>2, <2>8, StateFields DEF Unresolved, ResolveNextFixup
      <4> QED
        BY <3>1, <4>1 DEF OwedByFixup
    <3> HIDE DEF p
    <3>3. \A i \in 1..Len(cs.code) : /\ cs'.code[i].op = cs.code[i].op
                                     /\ i # p => cs'.code[i] = cs.code[i]
      BY <3>1, InstructionFields
    <3> QED
      BY <2>3, <3>1, <3>2, <3>3 DEF EmittedStaysStep
  <2> QED
    BY <1>1, <2>5, <2>6, <2>7, <2>8 DEF CompilerNext
<1> QED
  BY <1>1, CompilerInvariant, PTL DEF CompilerSpec, EmittedCodeStays
=============================================================================
