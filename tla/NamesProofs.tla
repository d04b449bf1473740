---------------------------- MODULE NamesProofs ----------------------------
(***************************************************************************)
(* Theorems about names: names that have no segment from each other have   *)
(* no buffer in common, names are in order, numbers as segments too, and   *)
(* the text of a name is read back as the name.                            *)
(***************************************************************************)
EXTENDS Names, FiniteSetTheorems, SequenceTheorems, TLAPS

BufferRecord == [bytes : Seq(Byte), position : Nat]

NamesTypeOK ==
    /\ names \in [Name -> Seq(SegmentRecord) \cup {None}]
    /\ value \in [Cell -> BufferRecord \cup {None}]
    /\ family \in [Name -> SUBSET Name]

(* The buffers of a name are there *)
ValuesHeld ==
    \A n \in Live : \A c \in CellsOf(names[n]) : value[c] \in BufferRecord

(* Every name is of one family, and has it in common with its relatives *)
FamiliesAgree ==
    \A n \in Live :
        /\ n \in family[n] /\ family[n] \subseteq Live
        /\ \A m \in family[n] : family[m] = family[n]

NamesInv == NamesTypeOK /\ ValuesHeld /\ FamiliesAgree /\ CopiesShareNothing

UsedBy(now) == UNION {CellsOf(now[m]) : m \in {k \in Name : now[k] # None}}

----------------------------------------------------------------------------
(* Lemmas about the operators *)

LEMMA MinOfTwo ==
    ASSUME NEW a \in Int, NEW b \in Int
    PROVE  Min({a, b}) = IF a <= b THEN a ELSE b
<1> DEFINE m == IF a <= b THEN a ELSE b
<1>1. m \in {a, b} /\ \A y \in {a, b} : m <= y
  OBVIOUS
<1>2. \A x \in {a, b} : (\A y \in {a, b} : x <= y) => x = m
  OBVIOUS
<1>3. Min({a, b}) = CHOOSE x \in {a, b} : \A y \in {a, b} : x <= y
  BY DEF Min
<1> HIDE DEF m
<1>4. Min({a, b}) = m
  BY <1>1, <1>2, <1>3, Zenon
<1>5. QED BY <1>4 DEF m

(* A set of natural numbers has a first one.                               *)
LEMMA LeastExists ==
    ASSUME NEW S \in SUBSET Nat, S # {}
    PROVE  \E m \in S : \A k \in S : m <= k
<1>1. PICK m \in S : \A k \in S : <<k, m>> \notin OpToRel(<, Nat)
  BY WFMin, NatLessThanWellFounded, Zenon
<1>2. \A k \in S : ~(k < m)
  BY <1>1 DEF OpToRel
<1>3. QED BY <1>2

LEMMA MinOfNumbers ==
    ASSUME NEW S \in SUBSET Nat, S # {}
    PROVE  Min(S) \in S /\ \A k \in S : Min(S) <= k
<1>1. \E m \in S : \A k \in S : m <= k
  BY LeastExists
<1>2. QED BY <1>1, Zenon DEF Min

(* Buffers for new segments are taken from those no name has.              *)
LEMMA FreshCellsAreFree ==
    ASSUME NEW now, NEW count \in Nat
    PROVE  FreshCells(now, count) \in Seq(Cell \ UsedBy(now))
<1> DEFINE S == Cell \ UsedBy(now)
           free == SetToSeq(S)
<1>1. IsFiniteSet(S)
  <2>1. IsFiniteSet(Cell) /\ S \in SUBSET Cell
    BY FS_Interval, NamesAssumption DEF Cell
  <2>2. QED BY <2>1, FS_Subset
<1>2. Cardinality(S) \in Nat /\ ExistsBijection(1 .. Cardinality(S), S)
  BY <1>1, FS_CardinalityType
<1>3. \E f \in [1 .. Cardinality(S) -> S] : IsInjective(f)
  BY <1>2 DEF ExistsBijection, Bijection, Injection
<1>4. free \in [1 .. Cardinality(S) -> S]
  <2> HIDE DEF S
  <2>1. free = CHOOSE f \in [1 .. Cardinality(S) -> S] : IsInjective(f)
    BY DEF SetToSeq
  <2> HIDE DEF free
  <2>2. QED BY <1>3, <2>1, Zenon
<1>5. FreshCells(now, count) = SubSeq(free, 1, Min({count, Len(free)}))
  BY DEF FreshCells, UsedBy
<1> HIDE DEF free, S
<1>6. free \in Seq(S) /\ Len(free) \in Nat
  BY <1>2, <1>4
<1>7. Min({count, Len(free)}) \in 0 .. Len(free)
  BY <1>6, MinOfTwo
<1>8. SubSeq(free, 1, Min({count, Len(free)})) \in Seq(S)
  <2>1. \A k \in 0 .. Len(free) : SubSeq(free, 1, k) \in Seq(S)
    BY <1>6
  <2>2. QED BY <1>7, <2>1
<1>9. QED BY <1>5, <1>8 DEF S

LEMMA CellsOfSequence ==
    ASSUME NEW s \in Seq(SegmentRecord)
    PROVE  CellsOf(s) \subseteq Cell
<1>1. \A i \in DOMAIN s : s[i] \in SegmentRecord
  OBVIOUS
<1>2. \A r \in SegmentRecord : r.value \in Cell
  BY DEF SegmentRecord
<1>3. QED BY <1>1, <1>2 DEF CellsOf

LEMMA CellsOfPrefix ==
    ASSUME NEW s \in Seq(SegmentRecord), NEW k \in 0 .. Len(s)
    PROVE  /\ SubSeq(s, 1, k) \in Seq(SegmentRecord)
           /\ CellsOf(SubSeq(s, 1, k)) \subseteq CellsOf(s)
<1>1. SubSeq(s, 1, k) \in Seq(SegmentRecord)
  OBVIOUS
<1>2. \A i \in DOMAIN SubSeq(s, 1, k) : i \in DOMAIN s /\ SubSeq(s, 1, k)[i] = s[i]
  OBVIOUS
<1>3. QED BY <1>1, <1>2 DEF CellsOf

(* What is placed behind the segments of a name.                           *)
LEMMA PlacedSegments ==
    ASSUME NEW old \in Seq(SegmentRecord), NEW contents \in Seq(Content),
           NEW S \in SUBSET Cell, NEW cells \in Seq(S), Len(cells) = Len(contents)
    PROVE  /\ Placed(old, contents, cells) \in Seq(SegmentRecord)
           /\ CellsOf(Placed(old, contents, cells)) = CellsOf(old) \cup ToSet(cells)
<1> DEFINE new == [i \in DOMAIN contents |->
                     [type |-> contents[i].type, parameter |-> contents[i].parameter,
                      value |-> cells[i]]]
           all == old \o new
<1>1. Placed(old, contents, cells) = all
  BY DEF Placed
<1>2. DOMAIN contents = 1 .. Len(contents) /\ Len(contents) \in Nat
  OBVIOUS
<1>3. \A i \in 1 .. Len(contents) : new[i] \in SegmentRecord /\ new[i].value = cells[i]
  <2> SUFFICES ASSUME NEW i \in 1 .. Len(contents)
               PROVE  new[i] \in SegmentRecord /\ new[i].value = cells[i]
    OBVIOUS
  <2>1. cells[i] \in Cell
    <3>1. cells[i] \in S
      OBVIOUS
    <3>2. QED BY <3>1
  <2>2. contents[i] \in Content
    OBVIOUS
  <2>3. /\ contents[i].type \in Nat \ {BADNAME, Unknown}
        /\ contents[i].parameter \in Seq(Byte) \cup {None}
    BY <2>2 DEF Content
  <2>4. new[i] = [type |-> contents[i].type, parameter |-> contents[i].parameter,
                  value |-> cells[i]]
    BY <1>2
  <2> HIDE DEF new
  <2>5. QED BY <2>1, <2>3, <2>4 DEF SegmentRecord
<1>4. new \in Seq(SegmentRecord) /\ Len(new) = Len(contents)
  <2>1. DOMAIN new = 1 .. Len(contents)
    BY <1>2
  <2>2. new \in [1 .. Len(contents) -> SegmentRecord]
    BY <1>3, <1>2
  <2> HIDE DEF new
  <2>3. QED BY <2>1, <2>2, <1>2
<1> HIDE DEF new
<1>5. /\ all \in Seq(SegmentRecord) /\ Len(all) = Len(old) + Len(contents)
      /\ \A i \in 1 .. Len(old) : all[i] = old[i]
      /\ \A i \in 1 .. Len(contents) : all[Len(old) + i] = new[i]
  BY <1>4
<1> HIDE DEF all
<1>6. CellsOf(all) \subseteq CellsOf(old) \cup ToSet(cells)
  <2> DEFINE X == CellsOf(old) \cup ToSet(cells)
  <2> SUFFICES ASSUME NEW i \in 1 .. Len(old) + Len(contents)
               PROVE  all[i].value \in X
    <3>1. DOMAIN all = 1 .. Len(old) + Len(contents)
      BY <1>5
    <3> HIDE DEF X
    <3>2. CellsOf(all) \subseteq X
      BY <3>1 DEF CellsOf
    <3>3. QED BY <3>2 DEF X
  <2>1. CASE i <= Len(old)
    BY <2>1, <1>5 DEF CellsOf
  <2>2. CASE i > Len(old)
    <3>1. i - Len(old) \in 1 .. Len(contents) /\ i = Len(old) + (i - Len(old))
      BY <2>2
    <3>2. all[i].value = cells[i - Len(old)]
      BY <3>1, <1>5, <1>3
    <3>3. QED BY <3>1, <3>2 DEF ToSet
  <2>3. QED BY <2>1, <2>2
<1>7. CellsOf(old) \subseteq CellsOf(all)
  BY SMTT(30), <1>5 DEF CellsOf
<1>8. ToSet(cells) \subseteq CellsOf(all)
  <2> SUFFICES ASSUME NEW i \in 1 .. Len(contents) PROVE cells[i] \in CellsOf(all)
    BY DEF ToSet
  <2> DEFINE k == Len(old) + i
             m == Len(old)
             n == Len(contents)
  <2>1. m \in Nat /\ n \in Nat /\ i \in 1 .. n /\ DOMAIN all = 1 .. m + n
    BY <1>2, <1>5
  <2> HIDE DEF m, n
  <2>2. m + i \in 1 .. m + n
    BY <2>1
  <2>3. k \in DOMAIN all
    BY <2>1, <2>2 DEF m
  <2>4. all[k] = new[i]
    BY <1>5
  <2>5. new[i].value = cells[i]
    BY <1>3
  <2> HIDE DEF k
  <2>6. QED BY <2>3, <2>4, <2>5 DEF CellsOf
<1>9. QED BY <1>1, <1>5, <1>6, <1>7, <1>8

LEMMA ContentsOfName ==
    ASSUME NamesInv, NEW n \in Live
    PROVE  /\ Contents(n) \in Seq(Content)
           /\ Len(Contents(n)) = Len(names[n])
<1>1. names[n] \in Seq(SegmentRecord)
  BY DEF NamesInv, NamesTypeOK, Live
<1> DEFINE Seen(i) == [type      |-> names[n][i].type,
                       parameter |-> names[n][i].parameter,
                       bytes     |-> Left(value[names[n][i].value])]
<1>2. ASSUME NEW i \in 1 .. Len(names[n]) PROVE Seen(i) \in Content
  <2>1. names[n][i] \in SegmentRecord
    BY <1>1
  <2>2. value[names[n][i].value] \in BufferRecord
    <3>1. names[n][i].value \in CellsOf(names[n])
      BY <1>1 DEF CellsOf
    <3>2. QED BY <3>1, Zenon DEF NamesInv, ValuesHeld
  <2>3. ASSUME NEW b \in BufferRecord PROVE Left(b) \in Seq(Byte)
    BY DEF BufferRecord, Left
  <2>4. Left(value[names[n][i].value]) \in Seq(Byte)
    BY <2>2, <2>3
  <2>5. /\ names[n][i].type \in Nat \ {BADNAME, Unknown}
        /\ names[n][i].parameter \in Seq(Byte) \cup {None}
    BY <2>1 DEF SegmentRecord
  <2>6. QED BY <2>4, <2>5 DEF Content
<1>3. Contents(n) = [i \in 1 .. Len(names[n]) |-> Seen(i)]
  BY <1>1 DEF Contents
<1> HIDE DEF Seen
<1>4. QED BY <1>1, <1>2, <1>3

(* What becoming other segments does to a name, and to the others.         *)
LEMMA BecomeNames ==
    ASSUME NamesInv, NEW n \in Name, NEW old \in Seq(SegmentRecord),
           NEW contents \in Seq(Content),
           \A c \in CellsOf(old) : value[c] \in BufferRecord,
           Become(n, old, contents)
    PROVE  /\ names' \in [Name -> Seq(SegmentRecord) \cup {None}]
           /\ value' \in [Cell -> BufferRecord \cup {None}]
           /\ Live' = Live \cup {n}
           /\ \A m \in Live \ {n} : names'[m] = names[m]
           /\ \A m \in Live' : \A c \in CellsOf(names'[m]) : value'[c] \in BufferRecord
           /\ \E fresh \in SUBSET Cell :
                 /\ CellsOf(names'[n]) = CellsOf(old) \cup fresh
                 /\ \A m \in Live \ {n} : fresh \cap CellsOf(names[m]) = {}
<1> DEFINE now == [names EXCEPT ![n] = old]
           cells == FreshCells(now, Len(contents))
           segments == Placed(old, contents, cells)
           all == [names EXCEPT ![n] = segments]
           used == UNION {CellsOf(all[m]) : m \in {k \in Name : all[k] # None}}
           At(c) == IF c \in ToSet(cells)
                    THEN Buffer(contents[CHOOSE i \in DOMAIN cells : cells[i] = c].bytes)
                    ELSE IF c \in used THEN value[c] ELSE None
<1>1. /\ Len(cells) = Len(contents) /\ names' = all
      /\ value' = [c \in Cell |-> At(c)]
  BY DEF Become
<1>2. cells \in Seq(Cell \ UsedBy(now)) /\ cells \in Seq(Cell)
  <2>1. Len(contents) \in Nat
    OBVIOUS
  <2>2. cells \in Seq(Cell \ UsedBy(now))
    BY <2>1, FreshCellsAreFree
  <2>3. QED BY <2>2, SeqMonotonic
<1> HIDE DEF cells
<1>3. /\ segments \in Seq(SegmentRecord)
      /\ CellsOf(segments) = CellsOf(old) \cup ToSet(cells)
  <2>1. Cell \in SUBSET Cell
    OBVIOUS
  <2> HIDE DEF now
  <2>2. QED BY <1>1, <1>2, <2>1, PlacedSegments
<1> HIDE DEF segments, At
<1>4. names \in [Name -> Seq(SegmentRecord) \cup {None}]
  BY DEF NamesInv, NamesTypeOK
<1>5. names' \in [Name -> Seq(SegmentRecord) \cup {None}]
  BY <1>1, <1>3, <1>4
<1>6. names'[n] = segments /\ \A m \in Name \ {n} : names'[m] = names[m]
  BY <1>1, <1>4
<1>7. Live' = Live \cup {n}
  <2>1. segments # None
    BY <1>3, NoneAssumption
  <2>2. QED BY <1>6, <2>1 DEF Live
<1>8. \A m \in Live \ {n} : ToSet(cells) \cap CellsOf(names[m]) = {}
  <2>1. ToSet(cells) \subseteq Cell \ UsedBy(now)
    <3> HIDE DEF now
    <3>1. QED BY <1>2 DEF ToSet
  <2>2. \A m \in Live \ {n} : now[m] = names[m] /\ names[m] # None /\ m \in Name
    BY <1>4 DEF Live
  <2> HIDE DEF now
  <2>3. \A m \in Live \ {n} : CellsOf(names[m]) \subseteq UsedBy(now)
    BY <2>2 DEF UsedBy
  <2>4. QED BY <2>1, <2>3
<1>9. ToSet(cells) \subseteq Cell
  <2> HIDE DEF now
  <2>1. QED BY <1>2 DEF ToSet
<1>10. ASSUME NEW c \in ToSet(cells) PROVE At(c) \in BufferRecord
  <2> DEFINE i == CHOOSE j \in DOMAIN cells : cells[j] = c
  <2>1. i \in DOMAIN cells
    BY Zenon DEF ToSet
  <2> HIDE DEF i
  <2>2. contents[i] \in Content
    BY <2>1, <1>1, <1>2
  <2>3. contents[i].bytes \in Seq(Byte)
    BY <2>2 DEF Content
  <2>4. Buffer(contents[i].bytes) \in BufferRecord
    BY <2>3 DEF Buffer, BufferRecord
  <2>5. At(c) = Buffer(contents[i].bytes)
    BY DEF At, i
  <2>6. QED BY <2>4, <2>5
<1>11. ASSUME NEW m \in Live', NEW c \in CellsOf(names'[m])
       PROVE  c \in Cell /\ At(c) \in BufferRecord
  <2>1. m \in Name /\ all[m] # None /\ c \in CellsOf(all[m])
    BY <1>1 DEF Live
  <2>2. c \in used
    BY <2>1, Zenon
  <2>3. c \in Cell
    <3>1. names'[m] \in Seq(SegmentRecord)
      BY <1>5 DEF Live
    <3>2. QED BY <3>1, CellsOfSequence
  <2>4. CASE c \in ToSet(cells)
    BY <2>3, <2>4, <1>10
  <2>5. CASE c \notin ToSet(cells)
    <3>1. At(c) = value[c]
      BY <2>2, <2>5, Zenon DEF At
    <3>2. CASE m = n
      <4>1. c \in CellsOf(old)
        BY <3>2, <2>5, <1>3, <1>6
      <4>2. QED BY <4>1, <3>1, <2>3
    <3>3. CASE m # n
      <4>1. m \in Live /\ c \in CellsOf(names[m])
        BY <3>3, <1>6, <1>7, <2>1
      <4>2. QED BY <4>1, <3>1, <2>3 DEF NamesInv, ValuesHeld
    <3>4. QED BY <3>2, <3>3
  <2>6. QED BY <2>4, <2>5
<1>12. value' \in [Cell -> BufferRecord \cup {None}]
  <2>1. \A c \in Cell : At(c) \in BufferRecord \cup {None}
    <3> SUFFICES ASSUME NEW c \in Cell PROVE At(c) \in BufferRecord \cup {None}
      OBVIOUS
    <3>1. CASE c \in ToSet(cells)
      BY <3>1, <1>10
    <3>2. CASE c \notin ToSet(cells)
      <4>1. At(c) = value[c] \/ At(c) = None
        BY <3>2, Zenon DEF At
      <4>2. value[c] \in BufferRecord \cup {None}
        BY DEF NamesInv, NamesTypeOK
      <4>3. QED BY <4>1, <4>2
    <3>3. QED BY <3>1, <3>2
  <2>2. QED BY <1>1, <2>1
<1>13. \A m \in Live' : \A c \in CellsOf(names'[m]) : value'[c] \in BufferRecord
  BY <1>1, <1>11
<1>14. \E fresh \in SUBSET Cell :
          /\ CellsOf(names'[n]) = CellsOf(old) \cup fresh
          /\ \A m \in Live \ {n} : fresh \cap CellsOf(names[m]) = {}
  <2>1. CellsOf(names'[n]) = CellsOf(old) \cup ToSet(cells)
    BY <1>3, <1>6
  <2>2. QED BY <2>1, <1>8, <1>9, Zenon
<1>15. \A m \in Live \ {n} : names'[m] = names[m]
  BY <1>6 DEF Live
<1> HIDE DEF now, all, used
<1>16. QED BY <1>5, <1>7, <1>12, <1>13, <1>14, <1>15, Zenon

----------------------------------------------------------------------------
(* Every step keeps the invariant.                                         *)

(* A new name, with segments of its relatives' and buffers of its own      *)
LEMMA MadeInv ==
    ASSUME NamesInv, NEW n \in Name, NEW old \in Seq(SegmentRecord),
           NEW contents \in Seq(Content), NEW relatives \in SUBSET Live,
           \A c \in CellsOf(old) : value[c] \in BufferRecord,
           \A m \in relatives : family[m] = relatives,
           \A m \in Live \ relatives : CellsOf(old) \cap CellsOf(names[m]) = {},
           Made(n, old, contents, relatives)
    PROVE  NamesInv'
<1>1. n \notin Live /\ Become(n, old, contents)
  BY DEF Made, Live
<1>2. /\ names' \in [Name -> Seq(SegmentRecord) \cup {None}]
      /\ value' \in [Cell -> BufferRecord \cup {None}]
      /\ Live' = Live \cup {n}
      /\ \A m \in Live \ {n} : names'[m] = names[m]
      /\ \A m \in Live' : \A c \in CellsOf(names'[m]) : value'[c] \in BufferRecord
      /\ \E fresh \in SUBSET Cell :
            /\ CellsOf(names'[n]) = CellsOf(old) \cup fresh
            /\ \A m \in Live \ {n} : fresh \cap CellsOf(names[m]) = {}
  BY <1>1, BecomeNames
<1>3. PICK fresh \in SUBSET Cell :
          /\ CellsOf(names'[n]) = CellsOf(old) \cup fresh
          /\ \A m \in Live \ {n} : fresh \cap CellsOf(names[m]) = {}
  BY <1>2
<1>4. family' = [m \in Name |-> IF m \in relatives \cup {n}
                                THEN relatives \cup {n} ELSE family[m]]
  BY DEF Made
<1>5. /\ family \in [Name -> SUBSET Name] /\ Live \subseteq Name
      /\ \A m \in Live : /\ m \in family[m] /\ family[m] \subseteq Live
                         /\ \A k \in family[m] : family[k] = family[m]
  BY DEF NamesInv, NamesTypeOK, FamiliesAgree, Live
<1>6. family' \in [Name -> SUBSET Name]
  BY <1>4, <1>5
<1>7. \A m \in Live \ relatives : /\ m # n /\ n \notin family[m] /\ family'[m] = family[m]
                                  /\ family[m] \cap relatives = {}
  <2> SUFFICES ASSUME NEW m \in Live \ relatives
               PROVE  /\ m # n /\ n \notin family[m] /\ family'[m] = family[m]
                      /\ family[m] \cap relatives = {}
    OBVIOUS
  <2>1. m # n /\ n \notin family[m] /\ m \in Name
    BY <1>1, <1>5
  <2>2. family'[m] = family[m]
    BY <2>1, <1>4
  <2>3. family[m] \cap relatives = {}
    BY <1>5
  <2>4. QED BY <2>1, <2>2, <2>3
<1>8. \A m \in relatives \cup {n} : m \in Name /\ family'[m] = relatives \cup {n}
  BY <1>4, <1>5
<1>9. FamiliesAgree'
  <2> SUFFICES ASSUME NEW m \in Live'
               PROVE  /\ m \in family'[m] /\ family'[m] \subseteq Live'
                      /\ \A k \in family'[m] : family'[k] = family'[m]
    BY DEF FamiliesAgree
  <2>1. CASE m \in relatives \cup {n}
    BY <2>1, <1>2, <1>8
  <2>2. CASE m \notin relatives \cup {n}
    <3>1. m \in Live \ relatives /\ family'[m] = family[m]
      BY <2>2, <1>2, <1>7
    <3>2. \A k \in family[m] : k \in Live \ relatives
      BY <3>1, <1>5, <1>7
    <3>3. QED BY <3>1, <3>2, <1>2, <1>5, <1>7
  <2>3. QED BY <2>1, <2>2
<1>10. CopiesShareNothing'
  <2> SUFFICES ASSUME NEW k \in Live', NEW m \in Live', m \notin family'[k]
               PROVE  CellsOf(names'[k]) \cap CellsOf(names'[m]) = {}
    BY DEF CopiesShareNothing
  <2>1. \A j, i \in Live : i \notin family[j] => CellsOf(names[j]) \cap CellsOf(names[i]) = {}
    BY DEF NamesInv, CopiesShareNothing
  <2>2. k # m
    BY <1>9 DEF FamiliesAgree
  <2>3. \A j \in Live \ relatives : CellsOf(names'[n]) \cap CellsOf(names'[j]) = {}
    BY <1>1, <1>2, <1>3
  <2>4. CASE k = n
    <3>1. m \in Live \ relatives
      BY <2>2, <2>4, <1>2, <1>8
    <3>2. QED BY <2>3, <2>4, <3>1
  <2>5. CASE m = n
    <3>1. k \in Live \ relatives
      BY <2>2, <2>5, <1>2, <1>8
    <3>2. QED BY <2>3, <2>5, <3>1
  <2>6. CASE k # n /\ m # n
    <3>1. k \in Live /\ m \in Live /\ names'[k] = names[k] /\ names'[m] = names[m]
      BY <2>6, <1>2
    <3>2. m \notin family[k]
      <4>1. CASE k \in relatives
        BY <4>1, <1>8
      <4>2. CASE k \notin relatives
        BY <4>2, <3>1, <1>7
      <4>3. QED BY <4>1, <4>2
    <3>3. QED BY <2>1, <3>1, <3>2
  <2>7. QED BY <2>4, <2>5, <2>6
<1>11. NamesTypeOK' /\ ValuesHeld'
  BY <1>2, <1>6 DEF NamesTypeOK, ValuesHeld
<1>12. QED BY <1>9, <1>10, <1>11 DEF NamesInv

(* A name that is cut, or gets more segments                               *)
LEMMA GrownInv ==
    ASSUME NamesInv, NEW n \in Live, NEW k \in 0 .. Len(names[n]),
           NEW contents \in Seq(Content),
           Become(n, SubSeq(names[n], 1, k), contents), UNCHANGED family
    PROVE  NamesInv'
<1> DEFINE old == SubSeq(names[n], 1, k)
<1>1. n \in Name /\ names[n] \in Seq(SegmentRecord)
  BY DEF NamesInv, NamesTypeOK, Live
<1>2. old \in Seq(SegmentRecord) /\ CellsOf(old) \subseteq CellsOf(names[n])
  BY <1>1, CellsOfPrefix
<1>3. \A c \in CellsOf(old) : value[c] \in BufferRecord
  BY <1>2 DEF NamesInv, ValuesHeld
<1>4. Become(n, old, contents)
  OBVIOUS
<1> HIDE DEF old
<1>5. /\ names' \in [Name -> Seq(SegmentRecord) \cup {None}]
      /\ value' \in [Cell -> BufferRecord \cup {None}]
      /\ Live' = Live \cup {n}
      /\ \A m \in Live \ {n} : names'[m] = names[m]
      /\ \A m \in Live' : \A c \in CellsOf(names'[m]) : value'[c] \in BufferRecord
      /\ \E fresh \in SUBSET Cell :
            /\ CellsOf(names'[n]) = CellsOf(old) \cup fresh
            /\ \A m \in Live \ {n} : fresh \cap CellsOf(names[m]) = {}
  BY <1>1, <1>2, <1>3, <1>4, BecomeNames
<1>6. PICK fresh \in SUBSET Cell :
          /\ CellsOf(names'[n]) = CellsOf(old) \cup fresh
          /\ \A m \in Live \ {n} : fresh \cap CellsOf(names[m]) = {}
  BY <1>5
<1>7. Live' = Live /\ family' = family
  BY <1>5
<1>8. FamiliesAgree'
  BY <1>7 DEF NamesInv, FamiliesAgree
<1>9. CopiesShareNothing'
  <2> SUFFICES ASSUME NEW j \in Live, NEW m \in Live, m \notin family[j]
               PROVE  CellsOf(names'[j]) \cap CellsOf(names'[m]) = {}
    BY <1>7 DEF CopiesShareNothing
  <2>1. CellsOf(names[j]) \cap CellsOf(names[m]) = {} /\ j # m
    BY DEF NamesInv, CopiesShareNothing, FamiliesAgree
  <2>2. \A i \in Live \ {n} : CellsOf(names[n]) \cap CellsOf(names[i]) = {} =>
                              CellsOf(names'[n]) \cap CellsOf(names'[i]) = {}
    BY <1>2, <1>5, <1>6
  <2>3. CASE j = n
    BY <2>1, <2>2, <2>3
  <2>4. CASE m = n
    BY <2>1, <2>2, <2>4
  <2>5. CASE j # n /\ m # n
    BY <2>1, <2>5, <1>5
  <2>6. QED BY <2>3, <2>4, <2>5
<1>10. NamesTypeOK' /\ ValuesHeld'
  BY <1>5, <1>7 DEF NamesInv, NamesTypeOK, ValuesHeld
<1>11. QED BY <1>8, <1>9, <1>10 DEF NamesInv

----------------------------------------------------------------------------
(* Texts: where the delimiters are, what is a label, and what comes back   *)

ByteToken == {"byte"} \X Byte
LabelWord == {":", "Name", "PayloadId", "Serial", "C", "hunk", "Meta", "App", "Time"}
WordToken == ({"word"} \X LabelWord) \cup ({"number"} \X Nat)
TextToken == ByteToken \cup WordToken

(* Nothing in the parameter ends the URI or stands for something else.     *)
IsClean(s) == ToSet(s.parameter) \cap Delimiter = {}

LEMMA Tokens ==
    /\ ByteToken \subseteq TextToken /\ WordToken \subseteq TextToken /\ Equal \in ByteToken
    /\ Equal \notin WordToken /\ Colon \in WordToken /\ Colon \notin ByteToken
    /\ \A w \in LabelWord : Word(w) \in WordToken
    /\ \A n \in Nat : Decimal(n) \in WordToken /\ Decimal(n) # Colon
    /\ \A b \in Byte : <<"byte", b>> \in ByteToken /\ (<<"byte", b>> = Equal <=> b = EqualSign)
<1>1. EqualSign \in Byte
  BY NamesAssumption
<1>2. ByteToken \subseteq TextToken /\ WordToken \subseteq TextToken
  BY DEF TextToken
<1>3. Equal \in ByteToken /\ Equal \notin WordToken
  BY <1>1 DEF ByteToken, WordToken, Equal
<1>4. Colon \in WordToken /\ Colon \notin ByteToken
  BY DEF ByteToken, WordToken, Colon, LabelWord
<1>5. \A w \in LabelWord : Word(w) \in WordToken
  BY DEF WordToken, Word
<1>6. \A n \in Nat : Decimal(n) \in WordToken /\ Decimal(n) # Colon
  BY DEF WordToken, Decimal, Colon
<1>7. \A b \in Byte : <<"byte", b>> \in ByteToken /\ (<<"byte", b>> = Equal <=> b = EqualSign)
  BY DEF ByteToken, Equal
<1>8. QED BY <1>2, <1>3, <1>4, <1>5, <1>6, <1>7

LEMMA BytesAreTokens ==
    ASSUME NEW b \in Seq(Byte)
    PROVE  /\ Bytes(b) \in Seq(ByteToken) /\ Bytes(b) \in Seq(TextToken)
           /\ Len(Bytes(b)) = Len(b)
           /\ \A i \in 1 .. Len(b) : Bytes(b)[i] = <<"byte", b[i]>>
           /\ ByteOf(Bytes(b)) = b
<1>1. /\ DOMAIN b = 1 .. Len(b) /\ Len(b) \in Nat
      /\ \A i \in 1 .. Len(b) : b[i] \in Byte
  OBVIOUS
<1>2. Bytes(b) = [i \in 1 .. Len(b) |-> <<"byte", b[i]>>]
  BY <1>1 DEF Bytes
<1>3. \A i \in 1 .. Len(b) : <<"byte", b[i]>> \in ByteToken
  BY <1>1, Tokens
<1>4. Bytes(b) \in [1 .. Len(b) -> ByteToken]
  BY <1>2, <1>3
<1>5. Bytes(b) \in Seq(ByteToken) /\ Len(Bytes(b)) = Len(b)
  BY <1>1, <1>4
<1>6. Bytes(b) \in Seq(TextToken)
  BY <1>5, Tokens, SeqMonotonic
<1>7. ByteOf(Bytes(b)) = [i \in 1 .. Len(b) |-> b[i]]
  BY <1>2 DEF ByteOf
<1>8. b = [i \in 1 .. Len(b) |-> b[i]]
  BY <1>1
<1>9. QED BY <1>2, <1>5, <1>6, <1>7, <1>8

LEMMA ByteOfTokens ==
    ASSUME NEW text \in Seq(ByteToken)
    PROVE  ByteOf(text) \in Seq(Byte)
<1>1. DOMAIN text = 1 .. Len(text) /\ Len(text) \in Nat
  OBVIOUS
<1>2. \A t \in ByteToken : t[2] \in Byte
  BY DEF ByteToken
<1>3. \A i \in 1 .. Len(text) : text[i][2] \in Byte
  BY <1>1, <1>2
<1>4. ByteOf(text) \in [1 .. Len(text) -> Byte]
  BY <1>1, <1>3 DEF ByteOf
<1>5. QED BY <1>1, <1>4

LEMMA Joined ==
    ASSUME NEW S, NEW s \in Seq(S), NEW t \in Seq(S)
    PROVE  /\ s \o t \in Seq(S) /\ Len(s \o t) = Len(s) + Len(t)
           /\ Len(s) \in Nat /\ Len(t) \in Nat
           /\ \A i \in 1 .. Len(s) : (s \o t)[i] = s[i]
           /\ \A i \in 1 .. Len(t) : (s \o t)[Len(s) + i] = t[i]
OBVIOUS

LEMMA Cut ==
    ASSUME NEW S, NEW s \in Seq(S), NEW k \in 0 .. Len(s)
    PROVE  /\ SubSeq(s, 1, k) \in Seq(S) /\ Len(SubSeq(s, 1, k)) = k
           /\ \A i \in 1 .. k : SubSeq(s, 1, k)[i] = s[i]
           /\ SubSeq(s, k + 1, Len(s)) \in Seq(S)
           /\ Len(SubSeq(s, k + 1, Len(s))) = Len(s) - k
           /\ \A i \in 1 .. Len(s) - k : SubSeq(s, k + 1, Len(s))[i] = s[k + i]
<1>1. Len(s) \in Nat /\ k \in Nat /\ k + 1 \in Int /\ k <= Len(s)
  OBVIOUS
<1>2. /\ SubSeq(s, 1, k) \in Seq(S) /\ Len(SubSeq(s, 1, k)) = k
      /\ \A i \in 1 .. k : SubSeq(s, 1, k)[i] = s[i]
  OBVIOUS
<1>3. /\ SubSeq(s, k + 1, Len(s)) \in Seq(S)
      /\ Len(SubSeq(s, k + 1, Len(s))) = IF k + 1 <= Len(s) THEN Len(s) - (k + 1) + 1 ELSE 0
      /\ \A i \in 1 .. Len(s) - (k + 1) + 1 :
            SubSeq(s, k + 1, Len(s))[i] = s[(k + 1) + i - 1]
  <2>1. \A i \in k + 1 .. Len(s) : s[i] \in S
    OBVIOUS
  <2>2. Len(s) \in Int
    BY <1>1
  <2>3. QED BY <1>1, <2>1, <2>2, SubSeqProperties
<1>4. Len(SubSeq(s, k + 1, Len(s))) = Len(s) - k
  <2>1. (IF k + 1 <= Len(s) THEN Len(s) - (k + 1) + 1 ELSE 0) = Len(s) - k
    BY <1>1
  <2>2. QED BY <1>3, <2>1
<1>5. \A i \in 1 .. Len(s) - k : SubSeq(s, k + 1, Len(s))[i] = s[k + i]
  <2> SUFFICES ASSUME NEW i \in 1 .. Len(s) - k PROVE SubSeq(s, k + 1, Len(s))[i] = s[k + i]
    OBVIOUS
  <2>1. i \in 1 .. Len(s) - (k + 1) + 1 /\ (k + 1) + i - 1 = k + i
    BY <1>1
  <2>2. SubSeq(s, k + 1, Len(s))[i] = s[(k + 1) + i - 1]
    BY <1>3, <2>1, Zenon
  <2>3. QED BY <2>1, <2>2
<1>6. QED BY <1>2, <1>3, <1>4, <1>5

(* A delimiter is found where it is first.                                 *)
LEMMA IndexFound ==
    ASSUME NEW S, NEW text \in Seq(S), NEW token, NEW i \in 1 .. Len(text),
           text[i] = token, \A j \in 1 .. i - 1 : text[j] # token
    PROVE  Index(token, text) = i
<1> DEFINE I == {j \in 1 .. Len(text) : text[j] = token}
<1>1. Index(token, text) = IF I # {} THEN Min(I) ELSE 0
  BY DEF Index, SelectInSeq
<1>2. i \in I /\ I \in SUBSET Nat /\ \A j \in I : i <= j
  OBVIOUS
<1> HIDE DEF I
<1>3. Min(I) \in I /\ \A k \in I : Min(I) <= k
  BY <1>2, MinOfNumbers
<1>4. Min(I) = i
  <2>1. Min(I) \in Nat /\ i \in Nat /\ Min(I) <= i /\ i <= Min(I)
    BY <1>2, <1>3
  <2>2. QED BY ONLY <2>1
<1>5. QED BY <1>1, <1>2, <1>4

LEMMA IndexMissing ==
    ASSUME NEW S, NEW text \in Seq(S), NEW token,
           \A j \in 1 .. Len(text) : text[j] # token
    PROVE  Index(token, text) = 0
BY DEF Index, SelectInSeq

(* A text without a `=' is a value.                                        *)
LEMMA ParseValue ==
    ASSUME NEW b \in Seq(Byte), EqualSign \notin ToSet(b)
    PROVE  ParseSegment(Bytes(b)) = [type |-> NAME, parameter |-> None, bytes |-> b]
<1>1. \A j \in 1 .. Len(Bytes(b)) : Bytes(b)[j] # Equal
  <2> SUFFICES ASSUME NEW j \in 1 .. Len(b) PROVE <<"byte", b[j]>> # Equal
    BY BytesAreTokens
  <2>1. b[j] \in Byte /\ b[j] # EqualSign
    BY DEF ToSet
  <2>2. QED BY <2>1, Tokens
<1>2. Index(Equal, Bytes(b)) = 0
  BY <1>1, BytesAreTokens, IndexMissing
<1>3. NAME \notin {BADNAME, Unknown}
  BY DEF NAME, BADNAME, Unknown
<1>4. QED BY <1>2, <1>3, BytesAreTokens DEF ParseSegment, Labelled

(* The first `=' of a text ends its label.                                 *)
LEMMA ParseAtEqual ==
    ASSUME NEW label \in Seq(TextToken), label # <<>>, NEW rest \in Seq(TextToken),
           \A j \in 1 .. Len(label) : label[j] # Equal
    PROVE  ParseSegment(label \o <<Equal>> \o rest) = ParseLabel(label, ByteOf(rest))
<1> DEFINE one == <<Equal>>
           text == label \o one \o rest
           e == Len(label) + 1
<1>1. Equal \in TextToken
  BY Tokens
<1>2. one \in Seq(TextToken) /\ Len(one) = 1 /\ one[1] = Equal
  BY <1>1
<1> HIDE DEF one
<1>3. /\ text \in Seq(TextToken) /\ Len(text) = e + Len(rest)
      /\ \A j \in 1 .. Len(label) : text[j] = label[j]
      /\ text[e] = Equal
      /\ \A j \in 1 .. Len(rest) : text[e + j] = rest[j]
  <2> DEFINE front == label \o one
  <2>1. /\ front \in Seq(TextToken) /\ Len(front) = e /\ front[e] = Equal
        /\ \A j \in 1 .. Len(label) : front[j] = label[j]
    <3>1. /\ front \in Seq(TextToken) /\ Len(front) = Len(label) + 1
          /\ \A j \in 1 .. Len(label) + 1 :
                front[j] = IF j <= Len(label) THEN label[j] ELSE one[j - Len(label)]
      <4>1. one \in Seq(TextToken)
        BY <1>2
      <4>2. /\ front \in Seq(TextToken) /\ Len(front) = Len(label) + Len(one)
            /\ \A j \in 1 .. Len(label) + Len(one) :
                  front[j] = IF j <= Len(label) THEN label[j] ELSE one[j - Len(label)]
        BY <4>1, ConcatProperties, Zenon
      <4>3. QED BY <4>2, <1>2
    <3>2. Len(label) \in Nat
      OBVIOUS
    <3> HIDE DEF front
    <3>3. QED BY <1>2, <3>1, <3>2
  <2> HIDE DEF front
  <2>2. /\ front \o rest \in Seq(TextToken) /\ Len(front \o rest) = e + Len(rest)
        /\ \A j \in 1 .. e : (front \o rest)[j] = front[j]
        /\ \A j \in 1 .. Len(rest) : (front \o rest)[e + j] = rest[j]
    BY SMTT(30), <2>1
  <2>3. text = front \o rest
    BY DEF front
  <2>4. Len(label) \in Nat
    OBVIOUS
  <2> HIDE DEF text
  <2>5. QED BY <2>1, <2>2, <2>3, <2>4
<1>4. /\ Len(label) \in Nat /\ Len(label) > 0 /\ Len(rest) \in Nat
      /\ e \in 1 .. Len(text) /\ e > 1 /\ e - 1 = Len(label)
  BY <1>3
<1>5. \A j \in 1 .. e - 1 : text[j] # Equal
  BY <1>3, <1>4
<1> HIDE DEF text, e
<1>6. Index(Equal, text) = e
  BY <1>3, <1>4, <1>5, IndexFound
<1>7. SubSeq(text, 1, e - 1) = label
  <2>1. /\ SubSeq(text, 1, e - 1) \in Seq(TextToken) /\ Len(SubSeq(text, 1, e - 1)) = Len(label)
        /\ \A j \in 1 .. Len(label) : SubSeq(text, 1, e - 1)[j] = label[j]
    BY <1>3, <1>4
  <2>2. QED BY <2>1, SeqEqual
<1>8. SubSeq(text, e + 1, Len(text)) = rest
  <2>1. /\ SubSeq(text, e + 1, Len(text)) \in Seq(TextToken)
        /\ Len(SubSeq(text, e + 1, Len(text))) = Len(rest)
    BY <1>3, <1>4
  <2>2. \A j \in 1 .. Len(rest) : SubSeq(text, e + 1, Len(text))[j] = text[e + 1 + j - 1]
    BY <1>3, <1>4
  <2>3. \A j \in 1 .. Len(rest) : SubSeq(text, e + 1, Len(text))[j] = rest[j]
    BY <1>3, <1>4, <2>2
  <2>4. QED BY <2>1, <2>3, SeqEqual
<1>9. ParseSegment(text) = ParseLabel(label, ByteOf(rest))
  <2>1. e # 0 /\ e # 1
    BY <1>4
  <2>2. QED BY <2>1, <1>6, <1>7, <1>8, Zenon DEF ParseSegment
<1>10. QED BY <1>9 DEF text, one

(* The table of mnemonics: no two are of one type, none begins with one    *)
(* that is before it.                                                      *)
LEMMA MnemonicTable ==
    /\ DOMAIN Mnemonics = 1 .. 7
    /\ Mnemonics[6] = [words |-> <<"App">>, type |-> APP0]
    /\ \A i \in 1 .. 7 :
          /\ Mnemonics[i].words \in Seq(LabelWord \ {":"}) /\ Mnemonics[i].words # <<>>
          /\ Mnemonics[i].type \in Nat
    /\ \A i, j \in 1 .. 7 : Mnemonics[i].type = Mnemonics[j].type => i = j
    /\ \A i, j \in 1 .. 7 : j < i =>
          \/ Len(Mnemonics[i].words) > Len(Mnemonics[j].words)
          \/ Mnemonics[i].words[1] # Mnemonics[j].words[1]
<1>1. /\ DOMAIN Mnemonics = 1 .. 7
      /\ Mnemonics[1] = [words |-> <<"Name">>, type |-> 1]
      /\ Mnemonics[2] = [words |-> <<"PayloadId">>, type |-> 2]
      /\ Mnemonics[3] = [words |-> <<"Serial">>, type |-> 19]
      /\ Mnemonics[4] = [words |-> <<"C", "hunk">>, type |-> 16]
      /\ Mnemonics[5] = [words |-> <<"C", "hunk", "Meta">>, type |-> 17]
      /\ Mnemonics[6] = [words |-> <<"App">>, type |-> 4096]
      /\ Mnemonics[7] = [words |-> <<"Time">>, type |-> 18]
  BY DEF Mnemonics, NAME, PAYLOADID, SERIAL, CHUNK, CHUNKMETA, APP0, TIME
<1> DEFINE W(i) == Mnemonics[i].words
           T(i) == Mnemonics[i].type
<1>2. /\ W(1) = <<"Name">> /\ W(2) = <<"PayloadId">> /\ W(3) = <<"Serial">>
      /\ W(4) = <<"C", "hunk">> /\ W(5) = <<"C", "hunk", "Meta">>
      /\ W(6) = <<"App">> /\ W(7) = <<"Time">>
  BY <1>1
<1>9. /\ T(1) = 1 /\ T(2) = 2 /\ T(3) = 19 /\ T(4) = 16 /\ T(5) = 17 /\ T(6) = 4096 /\ T(7) = 18
  BY <1>1
<1> HIDE DEF W, T
<1>3. /\ Len(W(1)) = 1 /\ Len(W(2)) = 1 /\ Len(W(3)) = 1 /\ Len(W(4)) = 2
      /\ Len(W(5)) = 3 /\ Len(W(6)) = 1 /\ Len(W(7)) = 1
      /\ W(1)[1] = "Name" /\ W(2)[1] = "PayloadId" /\ W(3)[1] = "Serial" /\ W(4)[1] = "C"
      /\ W(5)[1] = "C" /\ W(6)[1] = "App" /\ W(7)[1] = "Time"
  BY <1>2
<1>4. \A i \in 1 .. 7 : i = 1 \/ i = 2 \/ i = 3 \/ i = 4 \/ i = 5 \/ i = 6 \/ i = 7
  OBVIOUS
<1>5. \A i, j \in 1 .. 7 : T(i) = T(j) => i = j
  BY <1>9, <1>4
<1>6. \A i, j \in 1 .. 7 : j < i => Len(W(i)) > Len(W(j)) \/ W(i)[1] # W(j)[1]
  <2> DEFINE L(i) == Len(W(i))
             F(i) == W(i)[1]
  <2>1. /\ L(1) = 1 /\ L(2) = 1 /\ L(3) = 1 /\ L(4) = 2 /\ L(5) = 3 /\ L(6) = 1 /\ L(7) = 1
        /\ F(1) = "Name" /\ F(2) = "PayloadId" /\ F(3) = "Serial" /\ F(4) = "C"
        /\ F(5) = "C" /\ F(6) = "App" /\ F(7) = "Time"
    BY <1>3
  <2> HIDE DEF L, F
  <2>2. F(4) = F(5) /\ L(5) > L(4)
    BY <2>1
  <2>3. \A i, j \in 1 .. 7 : j < i /\ ~(i = 5 /\ j = 4) => F(i) # F(j)
    BY <2>1, <1>4
  <2>4. \A i, j \in 1 .. 7 : j < i => L(i) > L(j) \/ F(i) # F(j)
    BY <2>2, <2>3
  <2>5. QED BY <2>4 DEF L, F
<1>7. \A i \in 1 .. 7 : T(i) \in Nat
  BY <1>9, <1>4
<1>8. \A i \in 1 .. 7 : W(i) \in Seq(LabelWord \ {":"}) /\ W(i) # <<>>
  <2> DEFINE L == LabelWord \ {":"}
  <2>1. /\ "Name" \in L /\ "PayloadId" \in L /\ "Serial" \in L /\ "C" \in L /\ "hunk" \in L
        /\ "Meta" \in L /\ "App" \in L /\ "Time" \in L
    BY DEF LabelWord
  <2> HIDE DEF L
  <2>2. \A a, b, c \in L : <<a>> \in Seq(L) /\ <<a, b>> \in Seq(L) /\ <<a, b, c>> \in Seq(L)
    OBVIOUS
  <2>3. \A i \in 1 .. 7 : W(i) \in Seq(L)
    <3>1. /\ <<"Name">> \in Seq(L) /\ <<"PayloadId">> \in Seq(L) /\ <<"Serial">> \in Seq(L)
          /\ <<"App">> \in Seq(L) /\ <<"Time">> \in Seq(L)
      BY <2>1, <2>2, Zenon
    <3>2. <<"C", "hunk">> \in Seq(L) /\ <<"C", "hunk", "Meta">> \in Seq(L)
      BY <2>1, <2>2, Zenon
    <3>3. W(1) \in Seq(L)
      BY <3>1, <1>2, Zenon
    <3>4. W(2) \in Seq(L)
      BY <3>1, <1>2, Zenon
    <3>5. W(3) \in Seq(L)
      BY <3>1, <1>2, Zenon
    <3>6. W(4) \in Seq(L)
      BY <3>2, <1>2, Zenon
    <3>7. W(5) \in Seq(L)
      BY <3>2, <1>2, Zenon
    <3>8. W(6) \in Seq(L)
      BY <3>1, <1>2, Zenon
    <3>9. W(7) \in Seq(L)
      BY <3>1, <1>2, Zenon
    <3>10. QED BY <3>3, <3>4, <3>5, <3>6, <3>7, <3>8, <3>9, <1>4, Zenon
  <2>4. \A i \in 1 .. 7 : W(i) # <<>>
    BY <1>3, <1>4
  <2>5. QED BY <2>3, <2>4 DEF L
<1>10. QED BY SMTT(30), <1>1, <1>5, <1>6, <1>7, <1>8 DEF W, T, APP0

LEMMA WordsAreTokens ==
    ASSUME NEW words \in Seq(LabelWord \ {":"})
    PROVE  /\ Words(words) \in Seq(WordToken) /\ Words(words) \in Seq(TextToken)
           /\ Len(Words(words)) = Len(words)
           /\ \A i \in 1 .. Len(words) :
                 Words(words)[i] = Word(words[i]) /\ Words(words)[i] # Colon
<1>1. /\ DOMAIN words = 1 .. Len(words) /\ Len(words) \in Nat
      /\ \A i \in 1 .. Len(words) : words[i] \in LabelWord /\ words[i] # ":"
  <2>1. \A i \in 1 .. Len(words) : words[i] \in LabelWord \ {":"}
    OBVIOUS
  <2>2. QED BY <2>1
<1>2. Words(words) = [i \in 1 .. Len(words) |-> Word(words[i])]
  BY <1>1 DEF Words
<1>3. \A i \in 1 .. Len(words) : Word(words[i]) \in WordToken /\ Word(words[i]) # Colon
  BY <1>1, Tokens DEF Word, Colon
<1>4. Words(words) \in [1 .. Len(words) -> WordToken]
  BY <1>2, <1>3
<1>5. Words(words) \in Seq(WordToken) /\ Len(Words(words)) = Len(words)
  BY <1>1, <1>4
<1>6. Words(words) \in Seq(TextToken)
  BY <1>5, Tokens, SeqMonotonic
<1>7. QED BY <1>2, <1>3, <1>5, <1>6

(* A mnemonic resolves to its type.                                        *)
LEMMA MnemonicResolves ==
    ASSUME NEW i \in 1 .. 7
    PROVE  ResolveMnemonic(Words(Mnemonics[i].words)) = Mnemonics[i].type
<1> DEFINE W(j) == Words(Mnemonics[j].words)
           matching == {j \in DOMAIN Mnemonics : IsPrefix(W(i), W(j))}
<1>1. \A j \in 1 .. 7 : /\ W(j) \in Seq(WordToken) /\ Len(W(j)) = Len(Mnemonics[j].words)
                        /\ Len(W(j)) \in Nat \ {0}
                        /\ W(j)[1] = Word(Mnemonics[j].words[1])
  <2> SUFFICES ASSUME NEW j \in 1 .. 7
               PROVE  /\ W(j) \in Seq(WordToken) /\ Len(W(j)) = Len(Mnemonics[j].words)
                      /\ Len(W(j)) \in Nat \ {0}
                      /\ W(j)[1] = Word(Mnemonics[j].words[1])
    OBVIOUS
  <2> DEFINE words == Mnemonics[j].words
  <2>1. words \in Seq(LabelWord \ {":"}) /\ words # <<>>
    BY MnemonicTable
  <2>2. Len(words) \in Nat \ {0}
    BY <2>1
  <2> HIDE DEF words
  <2>3. /\ Words(words) \in Seq(WordToken) /\ Len(Words(words)) = Len(words)
        /\ \A k \in 1 .. Len(words) : Words(words)[k] = Word(words[k])
    BY <2>1, WordsAreTokens
  <2>4. QED BY <2>2, <2>3 DEF words
<1>2. \A j \in 1 .. 7 : j < i => ~IsPrefix(W(i), W(j))
  <2> SUFFICES ASSUME NEW j \in 1 .. 7, j < i, IsPrefix(W(i), W(j)) PROVE FALSE
    OBVIOUS
  <2>1. /\ Len(W(i)) <= Len(W(j))
        /\ SubSeq(W(i), 1, Len(W(i))) = SubSeq(W(j), 1, Len(W(i)))
    BY DEF IsPrefix
  <2> HIDE DEF W
  <2>2. W(i)[1] = W(j)[1]
    <3>1. Len(W(i)) \in Nat \ {0} /\ Len(W(j)) \in Nat \ {0}
      BY <1>1
    <3>2. SubSeq(W(i), 1, Len(W(i)))[1] = W(i)[1] /\ SubSeq(W(j), 1, Len(W(i)))[1] = W(j)[1]
      <4>1. /\ 1 \in 1 .. Len(W(i)) /\ \A k \in 1 .. Len(W(i)) : W(i)[k] \in WordToken
            /\ \A k \in 1 .. Len(W(i)) : W(j)[k] \in WordToken
        <5>1. W(i) \in Seq(WordToken) /\ W(j) \in Seq(WordToken)
          BY <1>1
        <5>2. /\ \A k \in 1 .. Len(W(i)) : W(i)[k] \in WordToken
              /\ \A k \in 1 .. Len(W(j)) : W(j)[k] \in WordToken
          BY <5>1
        <5>3. QED BY <5>2, <2>1, <3>1
      <4>2. QED BY <3>1, <4>1, SubSeqProperties
    <3>3. QED BY <2>1, <3>2
  <2>3. Mnemonics[i].words[1] = Mnemonics[j].words[1]
    <3>1. W(i)[1] = Word(Mnemonics[i].words[1]) /\ W(j)[1] = Word(Mnemonics[j].words[1])
      BY <1>1
    <3>2. Word(Mnemonics[i].words[1]) = Word(Mnemonics[j].words[1])
      BY <2>2, <3>1
    <3>3. QED BY <3>2 DEF Word
  <2>4. Len(Mnemonics[i].words) > Len(Mnemonics[j].words)
    BY <2>3, MnemonicTable
  <2>5. /\ Len(W(i)) = Len(Mnemonics[i].words) /\ Len(W(j)) = Len(Mnemonics[j].words)
        /\ Len(W(i)) \in Nat /\ Len(W(j)) \in Nat
    BY <1>1
  <2>6. QED BY <2>1, <2>4, <2>5
<1>3. IsPrefix(W(i), W(i))
  <2>1. Len(W(i)) \in Nat
    BY <1>1
  <2> HIDE DEF W
  <2>2. QED BY <2>1 DEF IsPrefix
<1>4. /\ DOMAIN Mnemonics = 1 .. 7 /\ i \in matching /\ matching \in SUBSET Nat
      /\ \A j \in matching : i <= j
  <2>1. DOMAIN Mnemonics = 1 .. 7
    BY MnemonicTable
  <2> HIDE DEF W
  <2>2. QED BY <2>1, <1>2, <1>3
<1>5. ResolveMnemonic(W(i)) =
          IF matching = {} THEN Unknown ELSE Mnemonics[Min(matching)].type
  BY DEF ResolveMnemonic
<1> HIDE DEF matching, W
<1>6. Min(matching) \in matching /\ \A k \in matching : Min(matching) <= k
  BY <1>4, MinOfNumbers
<1>7. Min(matching) = i
  <2>1. Min(matching) \in Nat /\ Min(matching) <= i /\ i <= Min(matching) /\ i \in Nat
    BY <1>4, <1>6
  <2>2. QED BY ONLY <2>1
<1>8. ResolveMnemonic(W(i)) = Mnemonics[i].type
  BY <1>4, <1>5, <1>7
<1>9. QED BY <1>8 DEF W

(* The label of a type is read back as the type.                           *)
LEMMA LabelOfType ==
    ASSUME NEW type \in Nat
    PROVE  /\ ToMnemonic(type) \in Seq(WordToken) /\ ToMnemonic(type) # <<>>
           /\ \A i \in 1 .. Len(ToMnemonic(type)) : ToMnemonic(type)[i] # Colon
           /\ Resolve(ToMnemonic(type)) = type
<1> DEFINE known == {m \in ToSet(Mnemonics) : m.type = type}
           label == ToMnemonic(type)
<1>1. label = IF known = {} THEN <<Decimal(type)>> ELSE Words((CHOOSE m \in known : TRUE).words)
  BY DEF ToMnemonic
<1>2. CASE known = {}
  <2>1. label = <<Decimal(type)>>
    BY <1>1, <1>2
  <2>2. Decimal(type) \in WordToken /\ Decimal(type) # Colon
    BY Tokens
  <2>3. /\ label \in Seq(WordToken) /\ Len(label) = 1 /\ label # <<>>
        /\ label[1] = Decimal(type)
    BY <2>1, <2>2
  <2>4. label[1][1] = "number" /\ label[1][2] = type
    BY <2>3 DEF Decimal
  <2> HIDE DEF label
  <2>5. Resolve(label) = type
    BY <2>3, <2>4, Zenon DEF Resolve
  <2>6. \A i \in 1 .. Len(label) : label[i] # Colon
    BY <2>2, <2>3
  <2>7. QED BY <2>3, <2>5, <2>6 DEF label
<1>3. CASE known # {}
  <2>1. PICK i \in 1 .. 7 : Mnemonics[i].type = type
    <3>1. PICK m \in known : TRUE
      BY <1>3
    <3>2. PICK i \in DOMAIN Mnemonics : m = Mnemonics[i]
      BY <3>1, Zenon DEF ToSet
    <3>3. QED BY <3>1, <3>2, MnemonicTable
  <2>2. \A m \in known : m = Mnemonics[i]
    BY <2>1, MnemonicTable DEF ToSet
  <2>3. (CHOOSE m \in known : TRUE) = Mnemonics[i]
    <3> HIDE DEF known
    <3>1. QED BY <1>3, <2>2, Zenon
  <2> HIDE DEF known
  <2> DEFINE words == Mnemonics[i].words
  <2>4. label = Words(words)
    BY <1>1, <1>3, <2>3
  <2>5. words \in Seq(LabelWord \ {":"}) /\ words # <<>>
    BY MnemonicTable
  <2>6. Resolve(label) = type
    <3>1. ResolveMnemonic(label) = type
      BY <2>1, <2>4, MnemonicResolves
    <3> HIDE DEF words, label
    <3>2. Len(words) \in Nat \ {0}
      BY <2>5
    <3>3. label # <<>> /\ label[1] = Word(words[1])
      BY <3>2, <2>4, <2>5, WordsAreTokens
    <3>4. label[1][1] # "number"
      BY <3>3 DEF Word
    <3>5. QED BY <3>1, <3>3, <3>4, Zenon DEF Resolve
  <2> HIDE DEF words, label
  <2>7. Len(words) \in Nat \ {0}
    BY <2>5
  <2>8. /\ label \in Seq(WordToken) /\ Len(label) = Len(words)
        /\ \A k \in 1 .. Len(words) : label[k] # Colon
    BY <2>4, <2>5, WordsAreTokens
  <2>9. label # <<>>
    BY <2>7, <2>8
  <2>10. QED BY <2>6, <2>8, <2>9 DEF label
<1>4. QED BY <1>2, <1>3

LEMMA AppResolves == Resolve(<<Word("App")>>) = APP0
<1> DEFINE label == <<Word("App")>>
<1>1. Words(Mnemonics[6].words) = label
  BY MnemonicTable DEF Words
<1>2. ResolveMnemonic(label) = APP0
  <2>1. ResolveMnemonic(Words(Mnemonics[6].words)) = Mnemonics[6].type
    BY MnemonicResolves
  <2>2. QED BY <1>1, <2>1, MnemonicTable
<1>3. label # <<>> /\ label[1][1] # "number"
  BY DEF Word
<1> HIDE DEF label
<1>4. Resolve(label) = APP0
  BY <1>2, <1>3, Zenon DEF Resolve
<1>5. QED BY <1>4 DEF label

(* A label without a parameter, one with a parameter, and that of an       *)
(* application                                                             *)
LEMMA ParsePlainLabel ==
    ASSUME NEW label \in Seq(WordToken), \A i \in 1 .. Len(label) : label[i] # Colon, NEW bytes
    PROVE  ParseLabel(label, bytes) = Labelled(Resolve(label), None, bytes)
<1>1. Index(Colon, label) = 0
  BY IndexMissing
<1>2. QED BY <1>1, Zenon DEF ParseLabel

LEMMA LabelWithParameter ==
    ASSUME NEW label \in Seq(WordToken), NEW p \in Seq(Byte)
    PROVE  LET all == label \o (<<Colon>> \o Bytes(p))
           IN  /\ all \in Seq(TextToken) /\ Len(all) = Len(label) + 1 + Len(p)
               /\ \A i \in 1 .. Len(label) : all[i] = label[i]
               /\ all[Len(label) + 1] = Colon
               /\ \A i \in 1 .. Len(p) : all[Len(label) + 1 + i] = <<"byte", p[i]>>
<1> DEFINE one == <<Colon>>
           more == one \o Bytes(p)
           all == label \o more
<1>1. /\ one \in Seq(TextToken) /\ Len(one) = 1 /\ one[1] = Colon
  BY Tokens
<1>2. /\ Bytes(p) \in Seq(TextToken) /\ Len(Bytes(p)) = Len(p) /\ Len(p) \in Nat
      /\ \A i \in 1 .. Len(p) : Bytes(p)[i] = <<"byte", p[i]>>
  BY BytesAreTokens
<1>3. label \in Seq(TextToken) /\ Len(label) \in Nat
  BY Tokens, SeqMonotonic
<1> HIDE DEF one
<1>4. /\ more \in Seq(TextToken) /\ Len(more) = 1 + Len(p) /\ more[1] = Colon
      /\ \A i \in 1 .. Len(p) : more[1 + i] = <<"byte", p[i]>>
  <2>1. /\ more \in Seq(TextToken) /\ Len(more) = Len(one) + Len(Bytes(p))
        /\ \A i \in 1 .. Len(one) : more[i] = one[i]
        /\ \A i \in 1 .. Len(Bytes(p)) : more[Len(one) + i] = Bytes(p)[i]
    <3>1. one \in Seq(TextToken) /\ Bytes(p) \in Seq(TextToken)
      BY <1>1, <1>2
    <3>2. QED BY <3>1, Joined
  <2>2. 1 \in 1 .. Len(one)
    BY <1>1
  <2> HIDE DEF more
  <2>3. QED BY <2>1, <2>2, <1>1, <1>2
<1> HIDE DEF more
<1>5. /\ all \in Seq(TextToken) /\ Len(all) = Len(label) + Len(more)
      /\ \A i \in 1 .. Len(label) : all[i] = label[i]
      /\ \A i \in 1 .. Len(more) : all[Len(label) + i] = more[i]
  <2>1. label \in Seq(TextToken) /\ more \in Seq(TextToken)
    BY <1>3, <1>4
  <2>2. QED BY <2>1, Joined
<1> HIDE DEF all
<1>6. /\ all \in Seq(TextToken) /\ Len(all) = Len(label) + 1 + Len(p)
      /\ \A i \in 1 .. Len(label) : all[i] = label[i]
      /\ all[Len(label) + 1] = Colon
      /\ \A i \in 1 .. Len(p) : all[Len(label) + 1 + i] = <<"byte", p[i]>>
  <2>1. Len(all) = Len(label) + 1 + Len(p) /\ 1 \in 1 .. Len(more)
    BY <1>2, <1>3, <1>4, <1>5
  <2>2. all[Len(label) + 1] = Colon
    BY <1>4, <1>5, <2>1
  <2>3. ASSUME NEW i \in 1 .. Len(p) PROVE all[Len(label) + 1 + i] = <<"byte", p[i]>>
    <3>1. 1 + i \in 1 .. Len(more) /\ Len(label) + (1 + i) = Len(label) + 1 + i
      BY <1>2, <1>3, <1>4
    <3>2. all[Len(label) + (1 + i)] = more[1 + i]
      BY <1>5, <3>1, Zenon
    <3>3. QED BY <1>4, <3>1, <3>2
  <2>4. QED BY <1>5, <2>1, <2>2, <2>3
<1>7. QED BY <1>6 DEF all, more, one

LEMMA ParseParameterLabel ==
    ASSUME NEW label \in Seq(WordToken), \A i \in 1 .. Len(label) : label[i] # Colon,
           NEW p \in Seq(Byte), NEW bytes, Resolve(label) # APP0
    PROVE  ParseLabel(label \o (<<Colon>> \o Bytes(p)), bytes) = Labelled(Resolve(label), p, bytes)
<1> DEFINE all == label \o (<<Colon>> \o Bytes(p))
           c == Len(label) + 1
<1>1. /\ all \in Seq(TextToken) /\ Len(all) = c + Len(p)
      /\ \A i \in 1 .. Len(label) : all[i] = label[i]
      /\ all[c] = Colon
      /\ \A i \in 1 .. Len(p) : all[c + i] = <<"byte", p[i]>>
  BY LabelWithParameter
<1>2. Len(label) \in Nat /\ Len(p) \in Nat /\ c \in 1 .. Len(all) /\ c # 0 /\ c - 1 = Len(label)
  BY <1>1
<1> HIDE DEF all
<1>3. \A j \in 1 .. c - 1 : all[j] # Colon
  BY <1>1, <1>2
<1> HIDE DEF c
<1>4. Index(Colon, all) = c
  BY <1>1, <1>2, <1>3, IndexFound
<1>5. SubSeq(all, 1, c - 1) = label
  <2>1. \A i \in 1 .. c - 1 : all[i] \in WordToken
    BY SMTT(30), <1>1, <1>2
  <2>2. /\ SubSeq(all, 1, c - 1) \in Seq(WordToken) /\ Len(SubSeq(all, 1, c - 1)) = Len(label)
        /\ \A i \in 1 .. Len(label) : SubSeq(all, 1, c - 1)[i] = label[i]
    BY <1>1, <1>2, <2>1, SubSeqProperties
  <2>3. QED BY <2>2, SeqEqual
<1>6. ByteOf(SubSeq(all, c + 1, Len(all))) = p
  <2> DEFINE after == SubSeq(all, c + 1, Len(all))
  <2>1. c \in 0 .. Len(all) /\ Len(all) - c = Len(p)
    BY <1>1, <1>2
  <2>2. /\ after \in Seq(TextToken) /\ Len(after) = Len(all) - c
        /\ \A i \in 1 .. Len(all) - c : after[i] = all[c + i]
    BY SMTT(30), <1>1, <2>1, Cut, Zenon
  <2> HIDE DEF after
  <2>4. /\ after \in Seq(TextToken) /\ Len(after) = Len(p)
        /\ \A i \in 1 .. Len(p) : after[i] = all[c + i]
    BY <2>1, <2>2
  <2>5. \A i \in 1 .. Len(p) : after[i] = Bytes(p)[i]
    BY <2>4, <1>1, BytesAreTokens
  <2>6. after = Bytes(p)
    BY <2>4, <2>5, BytesAreTokens, SeqEqual
  <2>7. QED BY <2>6, BytesAreTokens DEF after
<1>7. ParseLabel(all, bytes) = Labelled(Resolve(label), p, bytes)
  BY <1>2, <1>4, <1>5, <1>6, Zenon DEF ParseLabel
<1>8. QED BY <1>7 DEF all

LEMMA ParseAppLabel ==
    ASSUME NEW k \in Nat, NEW bytes
    PROVE  ParseLabel(<<Word("App"), Colon, Decimal(k)>>, bytes) = Labelled(APP0 + k, None, bytes)
<1> DEFINE label == <<Word("App"), Colon, Decimal(k)>>
<1>1. Word("App") \in WordToken /\ Colon \in WordToken /\ Decimal(k) \in WordToken
  BY Tokens DEF LabelWord
<1>2. /\ label \in Seq(WordToken) /\ Len(label) = 3 /\ label[1] = Word("App")
      /\ label[2] = Colon /\ label[3] = Decimal(k)
  BY <1>1
<1>3. Word("App") # Colon
  BY DEF Word, Colon
<1> HIDE DEF label
<1>4. Index(Colon, label) = 2
  <2>1. 2 \in 1 .. Len(label) /\ \A j \in 1 .. 2 - 1 : label[j] # Colon
    BY <1>2, <1>3
  <2>2. QED BY <1>2, <2>1, IndexFound
<1>5. SubSeq(label, 1, 2 - 1) = <<Word("App")>>
  <2>1. /\ SubSeq(label, 1, 1) \in Seq(WordToken) /\ Len(SubSeq(label, 1, 1)) = 1
        /\ SubSeq(label, 1, 1)[1] = Word("App")
    <3>1. label \in Seq(WordToken) /\ 1 \in 0 .. Len(label) /\ 1 \in 1 .. 1
      BY <1>2
    <3>2. /\ SubSeq(label, 1, 1) \in Seq(WordToken) /\ Len(SubSeq(label, 1, 1)) = 1
          /\ \A i \in 1 .. 1 : SubSeq(label, 1, 1)[i] = label[i]
      BY <3>1, Cut
    <3>3. QED BY <3>1, <3>2, <1>2
  <2>2. SubSeq(label, 1, 1) = <<Word("App")>>
    <3> DEFINE w == Word("App")
               s == SubSeq(label, 1, 1)
    <3>1. s \in Seq(WordToken) /\ Len(s) = 1 /\ s[1] = w /\ w \in WordToken
      BY <2>1, <1>1
    <3> HIDE DEF w, s
    <3>2. <<w>> \in Seq(WordToken) /\ Len(<<w>>) = 1 /\ <<w>>[1] = w
      BY <3>1
    <3>3. s = <<w>>
      BY <3>1, <3>2, SeqEqual
    <3>4. QED BY <3>3 DEF w, s
  <2>3. QED BY <2>2
<1>6. SubSeq(label, 2 + 1, Len(label))[1][2] = k
  BY <1>2 DEF Decimal
<1>7. ParseLabel(label, bytes) = Labelled(APP0 + k, None, bytes)
  <2>1. 2 # 0
    OBVIOUS
  <2>2. QED BY <2>1, <1>4, <1>5, <1>6, AppResolves, Zenon DEF ParseLabel
<1>8. QED BY <1>7 DEF label

----------------------------------------------------------------------------
(* The text of a segment is read back as the segment.                      *)

LEMMA LabelledContent ==
    ASSUME NEW type \in Nat, NEW parameter \in Seq(Byte) \cup {None}, NEW bytes \in Seq(Byte)
    PROVE  Labelled(type, parameter, bytes) \in Content \cup {None}
<1>1. CASE type \in {BADNAME, Unknown}
  BY <1>1 DEF Labelled
<1>2. CASE type \notin {BADNAME, Unknown}
  <2>1. Labelled(type, parameter, bytes) =
            [type |-> type, parameter |-> parameter, bytes |-> bytes]
    BY <1>2, Zenon DEF Labelled
  <2>2. type \in Nat \ {BADNAME, Unknown}
    BY <1>2
  <2>3. QED BY <2>1, <2>2 DEF Content
<1>3. QED BY <1>1, <1>2

LEMMA LabelledSegment ==
    ASSUME NEW s \in Content, NEW parameter
    PROVE  Labelled(s.type, parameter, s.bytes) = [s EXCEPT !.parameter = parameter]
<1>1. /\ s.type \in Nat \ {BADNAME, Unknown}
      /\ s = [type |-> s.type, parameter |-> s.parameter, bytes |-> s.bytes]
  BY DEF Content
<1>2. Labelled(s.type, parameter, s.bytes) =
          [type |-> s.type, parameter |-> parameter, bytes |-> s.bytes]
  <2>1. s.type \notin {BADNAME, Unknown}
    BY <1>1
  <2>2. QED BY <2>1, Zenon DEF Labelled
<1>3. QED BY <1>1, <1>2

LEMMA ParseValueText ==
    ASSUME NEW s \in Content, ~NeedsLabel(s)
    PROVE  ParseSegment(SegmentText(s)) = [s EXCEPT !.parameter = None]
<1>1. s.bytes \in Seq(Byte)
  BY DEF Content
<1>2. SegmentText(s) = Bytes(s.bytes)
  <2>1. SegmentText(s) = <<>> \o Bytes(s.bytes)
    BY DEF SegmentText
  <2>2. Bytes(s.bytes) \in Seq(TextToken)
    BY <1>1, BytesAreTokens
  <2> DEFINE b == Bytes(s.bytes)
  <2> HIDE DEF b
  <2>3. <<>> \o b = b
    BY <2>2, ConcatEmptySeq DEF b
  <2>4. QED BY <2>1, <2>3 DEF b
<1>3. s.type = NAME /\ \A i \in DOMAIN s.bytes : s.bytes[i] \in Letter
  BY DEF NeedsLabel, IsEscaped
<1>4. EqualSign \notin ToSet(s.bytes)
  BY <1>3, NamesAssumption DEF ToSet
<1>5. ParseSegment(Bytes(s.bytes)) = [type |-> NAME, parameter |-> None, bytes |-> s.bytes]
  BY <1>1, <1>4, ParseValue
<1>6. NAME \notin {BADNAME, Unknown}
  BY DEF NAME, BADNAME, Unknown
<1>7. Labelled(s.type, None, s.bytes) = [type |-> NAME, parameter |-> None, bytes |-> s.bytes]
  BY <1>3, <1>6, Zenon DEF Labelled
<1>8. QED BY <1>2, <1>5, <1>7, LabelledSegment

(* Behind a label that has no `=' come the bytes of the value.             *)
LEMMA ParseLabelledText ==
    ASSUME NEW label \in Seq(TextToken), label # <<>>,
           \A i \in 1 .. Len(label) : label[i] # Equal, NEW bytes \in Seq(Byte)
    PROVE  ParseSegment((label \o <<Equal>>) \o Bytes(bytes)) = ParseLabel(label, bytes)
<1>1. Bytes(bytes) \in Seq(TextToken) /\ ByteOf(Bytes(bytes)) = bytes
  BY BytesAreTokens
<1>2. ParseSegment(label \o <<Equal>> \o Bytes(bytes)) = ParseLabel(label, ByteOf(Bytes(bytes)))
  BY <1>1, ParseAtEqual
<1>3. QED BY <1>1, <1>2

LEMMA WordsHaveNoEqual ==
    ASSUME NEW label \in Seq(WordToken)
    PROVE  label \in Seq(TextToken) /\ \A i \in 1 .. Len(label) : label[i] # Equal
<1>1. \A i \in 1 .. Len(label) : label[i] \in WordToken
  OBVIOUS
<1>2. label \in Seq(TextToken)
  BY Tokens, SeqMonotonic
<1>3. QED BY <1>1, <1>2, Tokens

LEMMA ParseAppText ==
    ASSUME NEW s \in Content, NeedsLabel(s), IsApp(s.type)
    PROVE  ParseSegment(SegmentText(s)) = [s EXCEPT !.parameter = None]
<1> DEFINE k == s.type - APP0
           label == <<Word("App"), Colon, Decimal(k)>>
<1>1. s.bytes \in Seq(Byte) /\ s.type \in Nat
  BY DEF Content
<1>2. k \in Nat /\ APP0 + k = s.type
  <2>1. s.type \in 4096 .. 8192 /\ APP0 = 4096
    BY SMTT(30) DEF IsApp, APP0, APP4096
  <2>2. \A t \in 4096 .. 8192 : t - 4096 \in Nat /\ 4096 + (t - 4096) = t
    OBVIOUS
  <2> DEFINE t == s.type
  <2>3. t \in 4096 .. 8192
    BY SMTT(30), <2>1
  <2> HIDE DEF t
  <2>4. t - 4096 \in Nat /\ 4096 + (t - 4096) = t
    BY <2>2, <2>3
  <2>5. QED BY <2>1, <2>4 DEF t
<1> HIDE DEF k
<1>3. Word("App") \in WordToken /\ Colon \in WordToken /\ Decimal(k) \in WordToken
  BY <1>2, Tokens DEF LabelWord
<1>4. label \in Seq(WordToken) /\ label # <<>>
  BY <1>3
<1>5. LabelText(s) = label \o <<Equal>>
  <2>1. LabelText(s) = <<Word("App"), Colon, Decimal(k), Equal>>
    BY DEF LabelText, k
  <2>2. \A a, b, c, d : <<a, b, c, d>> = <<a, b, c>> \o <<d>>
    OBVIOUS
  <2>3. QED BY <2>1, <2>2, Zenon
<1> HIDE DEF label
<1>6. SegmentText(s) = (label \o <<Equal>>) \o Bytes(s.bytes)
  BY <1>5, Zenon DEF SegmentText
<1>7. ParseSegment(SegmentText(s)) = ParseLabel(label, s.bytes)
  <2>1. label \in Seq(TextToken) /\ \A i \in 1 .. Len(label) : label[i] # Equal
    BY <1>4, WordsHaveNoEqual
  <2>2. QED BY <2>1, <1>1, <1>4, <1>6, ParseLabelledText
<1>8. ParseLabel(label, s.bytes) = Labelled(APP0 + k, None, s.bytes)
  BY <1>2, ParseAppLabel DEF label
<1>9. QED BY <1>2, <1>7, <1>8, LabelledSegment

LEMMA ParsePlainText ==
    ASSUME NEW s \in Content, NeedsLabel(s), ~IsApp(s.type), s.parameter = None
    PROVE  ParseSegment(SegmentText(s)) = [s EXCEPT !.parameter = None]
<1> DEFINE label == ToMnemonic(s.type)
<1>1. s.bytes \in Seq(Byte) /\ s.type \in Nat
  BY DEF Content
<1>2. /\ label \in Seq(WordToken) /\ label # <<>>
      /\ \A i \in 1 .. Len(label) : label[i] # Colon
      /\ Resolve(label) = s.type
  BY <1>1, LabelOfType
<1>3. LabelText(s) = (label \o <<>>) \o <<Equal>>
  BY Zenon DEF LabelText
<1> HIDE DEF label
<1>4. label \o <<>> = label
  BY <1>2, ConcatEmptySeq
<1>5. SegmentText(s) = (label \o <<Equal>>) \o Bytes(s.bytes)
  BY <1>3, <1>4, Zenon DEF SegmentText
<1>6. ParseSegment(SegmentText(s)) = ParseLabel(label, s.bytes)
  <2>1. label \in Seq(TextToken) /\ \A i \in 1 .. Len(label) : label[i] # Equal
    BY <1>2, WordsHaveNoEqual
  <2>2. QED BY <2>1, <1>1, <1>2, <1>5, ParseLabelledText
<1>7. ParseLabel(label, s.bytes) = Labelled(s.type, None, s.bytes)
  BY <1>2, ParsePlainLabel
<1>8. QED BY <1>6, <1>7, LabelledSegment

(* A parameter without a delimiter is written as its bytes are.            *)
LEMMA UnescapedBytes ==
    ASSUME NEW b, ToSet(b) \cap Delimiter = {}
    PROVE  Unescaped(b) = Bytes(b)
<1>1. \A i \in DOMAIN b : b[i] \notin Delimiter
  BY DEF ToSet
<1>2. \A i \in DOMAIN b :
         <<IF b[i] \in Delimiter THEN "raw" ELSE "byte", b[i]>> = <<"byte", b[i]>>
  BY <1>1
<1>3. QED BY <1>2 DEF Unescaped, Bytes

(* A delimiter in a parameter is raw in the text of the segment.           *)
LEMMA DelimitersAreRaw ==
    ASSUME NEW s \in Content, Kept(s), ~IsClean(s)
    PROVE  \E j \in DOMAIN SegmentText(s) : SegmentText(s)[j][1] = "raw"
<1> DEFINE word == ToMnemonic(s.type)
           p == s.parameter
           raw == Unescaped(p)
           label == word \o (<<Colon>> \o raw)
           long == label \o <<Equal>>
           b == Bytes(s.bytes)
           S == {word[i] : i \in DOMAIN word} \cup {raw[i] : i \in DOMAIN raw}
                    \cup {b[i] : i \in DOMAIN b} \cup {Colon, Equal}
<1>1. /\ s.bytes \in Seq(Byte) /\ s.type \in Nat /\ p \in Seq(Byte)
      /\ NeedsLabel(s) /\ ~IsApp(s.type) /\ s.parameter # None
  BY DEF Content, Kept
<1>2. word \in Seq(WordToken) /\ b \in Seq(ByteToken)
  BY <1>1, LabelOfType, BytesAreTokens
<1>3. /\ DOMAIN p = 1 .. Len(p) /\ Len(p) \in Nat
      /\ raw = [i \in 1 .. Len(p) |-> <<IF p[i] \in Delimiter THEN "raw" ELSE "byte", p[i]>>]
  BY <1>1 DEF Unescaped
<1>4. PICK k \in 1 .. Len(p) : p[k] \in Delimiter
  BY <1>3 DEF IsClean, ToSet
<1>5. SegmentText(s) = long \o b
  <2>1. LabelText(s) = long
    BY <1>1, Zenon DEF LabelText
  <2> HIDE DEF long
  <2>2. QED BY <1>1, <2>1, Zenon DEF SegmentText
<1>6. raw[k] = <<"raw", p[k]>> /\ k \in DOMAIN raw
  BY <1>3, <1>4
<1> HIDE DEF word, b, p
<1>7. raw \in Seq(S) /\ Len(raw) = Len(p)
  <2>1. raw \in [1 .. Len(p) -> S]
    BY <1>3
  <2> HIDE DEF raw, S
  <2>2. QED BY <1>3, <2>1
<1>8. word \in Seq(S) /\ b \in Seq(S)
  <2>1. ASSUME NEW T, NEW q \in Seq(T), {q[i] : i \in DOMAIN q} \subseteq S PROVE q \in Seq(S)
    <3> HIDE DEF S
    <3>1. \A i \in 1 .. Len(q) : q[i] \in S
      BY <2>1
    <3>2. QED BY <3>1
  <2>2. {word[i] : i \in DOMAIN word} \subseteq S /\ {b[i] : i \in DOMAIN b} \subseteq S
    OBVIOUS
  <2>3. QED BY <1>2, <2>1, <2>2
<1>9. <<Colon>> \in Seq(S) /\ <<Equal>> \in Seq(S)
  OBVIOUS
<1> DEFINE more == <<Colon>> \o raw
           at == Len(word) + 1 + k
<1> HIDE DEF raw, S
<1>10. /\ more \in Seq(S) /\ Len(more) = 1 + Len(p) /\ more[1 + k] = raw[k]
  BY <1>3, <1>4, <1>7, <1>9
<1> HIDE DEF more
<1>11. /\ label \in Seq(S) /\ Len(label) = Len(word) + 1 + Len(p) /\ label[at] = raw[k]
       /\ Len(word) \in Nat
  <2>1. label = word \o more /\ word \in Seq(S) /\ more \in Seq(S)
    BY <1>8, <1>10 DEF more
  <2> HIDE DEF label
  <2>2. /\ label \in Seq(S) /\ Len(label) = Len(word) + Len(more) /\ Len(word) \in Nat
        /\ \A i \in 1 .. Len(more) : label[Len(word) + i] = more[i]
    BY <2>1, Joined
  <2>3. 1 + k \in 1 .. Len(more) /\ Len(word) + (1 + k) = at
    BY <1>3, <1>4, <1>10, <2>2
  <2>4. label[Len(word) + (1 + k)] = more[1 + k]
    BY <2>2, <2>3
  <2>5. Len(label) = Len(word) + 1 + Len(p)
    BY <1>3, <1>10, <2>2
  <2>6. QED BY <1>10, <2>2, <2>3, <2>4, <2>5
<1> HIDE DEF label
<1>12. at \in 1 .. Len(label)
  BY <1>3, <1>4, <1>11
<1> HIDE DEF at
<1>13. long \in Seq(S) /\ at \in 1 .. Len(long) /\ long[at] = raw[k]
  BY <1>9, <1>11, <1>12
<1> HIDE DEF long
<1>14. at \in DOMAIN (long \o b) /\ (long \o b)[at] = raw[k]
  BY <1>8, <1>13
<1>15. QED BY <1>5, <1>6, <1>14

(* A parameter comes back as far as it has no `='.                         *)
LEMMA ParseParameterText ==
    ASSUME NEW s \in Content, Kept(s), IsClean(s)
    PROVE  /\ ParseSegment(SegmentText(s)) \in Content \cup {None}
           /\ EqualSign \notin ToSet(s.parameter) => ParseSegment(SegmentText(s)) = s
<1> DEFINE word == ToMnemonic(s.type)
           p == s.parameter
           label == word \o (<<Colon>> \o Bytes(p))
<1>1. /\ s.bytes \in Seq(Byte) /\ s.type \in Nat /\ p \in Seq(Byte)
      /\ NeedsLabel(s) /\ ~IsApp(s.type) /\ s.parameter # None
  BY DEF Content, Kept
<1>2. /\ word \in Seq(WordToken) /\ word # <<>>
      /\ \A i \in 1 .. Len(word) : word[i] # Colon
      /\ Resolve(word) = s.type
  BY <1>1, LabelOfType
<1>3. s.type # APP0
  <2>1. APP0 \in APP0 .. APP4096
    BY DEF APP0, APP4096
  <2>2. QED BY <1>1, <2>1, Zenon DEF IsApp
<1>4. SegmentText(s) = (label \o <<Equal>>) \o Bytes(s.bytes)
  <2>1. Unescaped(p) = Bytes(p)
    BY UnescapedBytes DEF IsClean
  <2>2. LabelText(s) = label \o <<Equal>>
    BY <1>1, <2>1, Zenon DEF LabelText
  <2> HIDE DEF label
  <2>3. QED BY <1>1, <2>2, Zenon DEF SegmentText
<1>5. \A i \in 1 .. Len(word) : word[i] # Equal
  BY <1>2, WordsHaveNoEqual
<1>6. Colon # Equal
  BY Tokens
<1> HIDE DEF word
<1>7. ASSUME NEW q \in Seq(Byte), EqualSign \notin ToSet(q)
      PROVE  LET l == word \o (<<Colon>> \o Bytes(q))
             IN  l \in Seq(TextToken) /\ l # <<>> /\ \A i \in 1 .. Len(l) : l[i] # Equal
  <2> DEFINE l == word \o (<<Colon>> \o Bytes(q))
  <2>1. /\ l \in Seq(TextToken) /\ Len(l) = Len(word) + 1 + Len(q)
        /\ \A i \in 1 .. Len(word) : l[i] = word[i]
        /\ l[Len(word) + 1] = Colon
        /\ \A i \in 1 .. Len(q) : l[Len(word) + 1 + i] = <<"byte", q[i]>>
    BY <1>2, LabelWithParameter
  <2>2. Len(word) \in Nat /\ Len(q) \in Nat
    BY <1>2
  <2> HIDE DEF l
  <2>3. l # <<>>
    BY <2>1, <2>2
  <2>4. ASSUME NEW i \in 1 .. Len(l) PROVE l[i] # Equal
    <3>1. CASE i <= Len(word)
      BY <3>1, <2>1, <2>2, <1>5
    <3>2. CASE i = Len(word) + 1
      BY <3>2, <2>1, <1>6
    <3>3. CASE i > Len(word) + 1
      <4> DEFINE j == i - (Len(word) + 1)
      <4>1. j \in 1 .. Len(q) /\ i = Len(word) + 1 + j
        BY <3>3, <2>1, <2>2
      <4> HIDE DEF j
      <4>2. q[j] \in Byte /\ q[j] # EqualSign
        <5>1. q[j] \in Byte /\ j \in DOMAIN q
          BY <4>1
        <5>2. q[j] \in ToSet(q)
          BY <5>1, Zenon DEF ToSet
        <5>3. QED BY <5>1, <5>2, <1>7
      <4>3. QED BY <4>1, <4>2, <2>1, Tokens
    <3>4. QED BY SMTT(30), <3>1, <3>2, <3>3, <2>1, <2>2
  <2>5. QED BY <2>1, <2>3, <2>4 DEF l
<1>8. ASSUME EqualSign \notin ToSet(p) PROVE ParseSegment(SegmentText(s)) = s
  <2>1. label \in Seq(TextToken) /\ label # <<>> /\ \A i \in 1 .. Len(label) : label[i] # Equal
    BY <1>1, <1>7, <1>8
  <2>2. ParseLabel(label, s.bytes) = Labelled(s.type, p, s.bytes)
    BY <1>1, <1>2, <1>3, ParseParameterLabel
  <2> HIDE DEF label
  <2>3. ParseSegment(SegmentText(s)) = ParseLabel(label, s.bytes)
    BY <2>1, <1>1, <1>4, ParseLabelledText
  <2>4. Labelled(s.type, p, s.bytes) = [s EXCEPT !.parameter = p]
    BY LabelledSegment
  <2>5. [s EXCEPT !.parameter = p] = s
    BY DEF Content
  <2>6. QED BY <2>2, <2>3, <2>4, <2>5
<1>9. ASSUME EqualSign \in ToSet(p) PROVE ParseSegment(SegmentText(s)) \in Content \cup {None}
  <2>1. PICK e \in 1 .. Len(p) : p[e] = EqualSign /\ \A j \in 1 .. e - 1 : p[j] # EqualSign
    <3> DEFINE I == {j \in 1 .. Len(p) : p[j] = EqualSign}
    <3>1. I # {} /\ I \in SUBSET Nat
      BY <1>1, <1>9 DEF ToSet
    <3> HIDE DEF I
    <3>2. PICK e \in I : \A k \in I : e <= k
      BY <3>1, LeastExists
    <3>3. QED BY <3>2 DEF I
  <2> DEFINE n == Len(word) + 1
             text == SegmentText(s)
             q == SubSeq(p, 1, e - 1)
             front == word \o (<<Colon>> \o Bytes(q))
             before == SubSeq(text, 1, (n + e) - 1)
             rest == SubSeq(text, n + e + 1, Len(text))
  <2>2. /\ e - 1 \in 0 .. Len(p) /\ Len(p) \in Nat /\ Len(s.bytes) \in Nat /\ n \in Nat
        /\ e \in Nat /\ e >= 1 /\ e <= Len(p)
    BY <1>1, <1>2
  <2>3. q \in Seq(Byte) /\ Len(q) = e - 1 /\ \A i \in 1 .. e - 1 : q[i] = p[i]
    BY <1>1, <2>2, Cut
  <2> HIDE DEF q
  <2>4. EqualSign \notin ToSet(q)
    BY <2>1, <2>3 DEF ToSet
  <2>5. /\ text \in Seq(TextToken) /\ Len(text) = n + Len(p) + 1 + Len(s.bytes)
        /\ \A i \in 1 .. Len(word) : text[i] = word[i]
        /\ text[n] = Colon
        /\ \A i \in 1 .. Len(p) : text[n + i] = <<"byte", p[i]>>
        /\ text[n + Len(p) + 1] = Equal
        /\ \A i \in 1 .. Len(s.bytes) : text[n + Len(p) + 1 + i] = <<"byte", s.bytes[i]>>
    <3> DEFINE one == <<Equal>>
               long == label \o one
               b == Bytes(s.bytes)
    <3>1. /\ label \in Seq(TextToken) /\ Len(label) = n + Len(p)
          /\ \A i \in 1 .. Len(word) : label[i] = word[i]
          /\ label[n] = Colon
          /\ \A i \in 1 .. Len(p) : label[n + i] = <<"byte", p[i]>>
      BY <1>1, <1>2, LabelWithParameter
    <3>2. one \in Seq(TextToken) /\ Len(one) = 1 /\ one[1] = Equal
      BY Tokens
    <3>3. b \in Seq(TextToken) /\ Len(b) = Len(s.bytes)
          /\ \A i \in 1 .. Len(s.bytes) : b[i] = <<"byte", s.bytes[i]>>
      BY <1>1, BytesAreTokens
    <3>4. text = long \o b
      BY <1>4
    <3> HIDE DEF one, label, b, text
    <3>5. /\ long \in Seq(TextToken) /\ Len(long) = Len(label) + Len(one)
          /\ \A i \in 1 .. Len(label) : long[i] = label[i]
          /\ \A i \in 1 .. Len(one) : long[Len(label) + i] = one[i]
      <4>1. label \in Seq(TextToken) /\ one \in Seq(TextToken)
        BY <3>1, <3>2
      <4>2. QED BY <4>1, Joined
    <3> HIDE DEF long
    <3>6. /\ text \in Seq(TextToken) /\ Len(text) = Len(long) + Len(b)
          /\ \A i \in 1 .. Len(long) : text[i] = long[i]
          /\ \A i \in 1 .. Len(b) : text[Len(long) + i] = b[i]
      <4>1. long \in Seq(TextToken) /\ b \in Seq(TextToken)
        BY <3>3, <3>5
      <4>2. QED BY <4>1, <3>4, Joined
    <3>7. Len(long) = n + Len(p) + 1 /\ Len(text) = n + Len(p) + 1 + Len(s.bytes)
      BY <3>1, <3>2, <3>3, <3>5, <3>6, <2>2
    <3>8. /\ \A i \in 1 .. Len(word) : i \in 1 .. Len(long) /\ i \in 1 .. Len(label)
          /\ n \in 1 .. Len(long) /\ n \in 1 .. Len(label)
          /\ \A i \in 1 .. Len(p) : n + i \in 1 .. Len(long) /\ n + i \in 1 .. Len(label)
          /\ n + Len(p) + 1 \in 1 .. Len(long) /\ 1 \in 1 .. Len(one)
      <4>1. Len(word) \in Nat /\ n = Len(word) + 1
        BY <1>2
      <4>2. Len(label) = n + Len(p) /\ Len(one) = 1 /\ Len(long) = n + Len(p) + 1
        BY <3>1, <3>2, <3>7
      <4>3. Len(p) \in Nat
        BY <2>2
      <4> HIDE DEF n, p
      <4>4. QED BY ONLY <4>1, <4>2, <4>3
    <3> HIDE DEF n
    <3>9. text[n + Len(p) + 1] = Equal
      <4>1. long[Len(label) + 1] = Equal
        BY <3>2, <3>5, <3>8
      <4>2. Len(label) + 1 = n + Len(p) + 1
        BY <3>1
      <4>3. QED BY <4>1, <4>2, <3>6, <3>8
    <3>10. /\ \A i \in 1 .. Len(word) : text[i] = word[i]
           /\ text[n] = Colon
           /\ \A i \in 1 .. Len(p) : text[n + i] = <<"byte", p[i]>>
      BY <3>1, <3>5, <3>6, <3>8
    <3>11. \A i \in 1 .. Len(s.bytes) : text[n + Len(p) + 1 + i] = <<"byte", s.bytes[i]>>
      BY <3>3, <3>6, <3>7
    <3>12. QED BY <3>6, <3>7, <3>9, <3>10, <3>11
  <2>6. /\ front \in Seq(TextToken) /\ Len(front) = n + (e - 1)
        /\ \A i \in 1 .. Len(word) : front[i] = word[i]
        /\ front[n] = Colon
        /\ \A i \in 1 .. e - 1 : front[n + i] = <<"byte", q[i]>>
    <3>1. /\ front \in Seq(TextToken) /\ Len(front) = Len(word) + 1 + Len(q)
          /\ \A i \in 1 .. Len(word) : front[i] = word[i]
          /\ front[Len(word) + 1] = Colon
          /\ \A i \in 1 .. Len(q) : front[Len(word) + 1 + i] = <<"byte", q[i]>>
      BY <1>2, <2>3, LabelWithParameter
    <3> HIDE DEF front
    <3>2. QED BY <3>1, <2>3
  <2> HIDE DEF text
  <2>7. \A i \in 1 .. Len(p) : p[i] \in Byte
    BY <1>1
  <2>8. \A i \in 1 .. Len(s.bytes) : s.bytes[i] \in Byte
    BY <1>1
  <2>9. Len(word) \in Nat /\ n = Len(word) + 1
    BY <1>2
  <2> HIDE DEF n, p
  <2>10. Len(text) = n + Len(p) + 1 + Len(s.bytes)
    BY <2>5
  <2>11. text[n + e] = Equal
    BY <2>1, <2>5 DEF Equal
  <2>12. /\ before \in Seq(TextToken) /\ Len(before) = (n + e) - 1
         /\ \A i \in 1 .. (n + e) - 1 : before[i] = text[i]
    <3>1. (n + e) - 1 \in 0 .. Len(text)
      <4> DEFINE P == Len(p)
                 B == Len(s.bytes)
                 T == Len(text)
      <4>1. /\ P \in Nat /\ B \in Nat /\ n \in Nat /\ T = n + P + 1 + B
            /\ e \in Nat /\ e >= 1 /\ e <= P
        BY <2>2, <2>10
      <4> HIDE DEF P, B, T
      <4>2. (n + e) - 1 \in 0 .. T
        BY ONLY <4>1
      <4>3. QED BY <4>2 DEF T
    <3>2. QED BY <3>1, <2>5, Cut
  <2> HIDE DEF front, before
  <2>13. before = front
    <3>1. ASSUME NEW i \in 1 .. (n + e) - 1 PROVE before[i] = front[i]
      <4>1. before[i] = text[i]
        BY <2>12
      <4>2. CASE i <= Len(word)
        <5>1. i \in 1 .. Len(word)
          BY <4>2, <2>9, <2>2
        <5>2. text[i] = word[i] /\ front[i] = word[i]
          BY <5>1, <2>5, <2>6
        <5>3. QED BY <5>2, <4>1
      <4>3. CASE i = n
        <5>1. text[n] = Colon /\ front[n] = Colon
          BY <2>5, <2>6
        <5>2. QED BY <5>1, <4>1, <4>3
      <4>4. CASE i > n
        <5> DEFINE k == i - n
        <5>1. k \in 1 .. e - 1 /\ i = n + k /\ k \in 1 .. Len(p)
          BY <4>4, <2>2
        <5> HIDE DEF k
        <5>2. text[n + k] = <<"byte", p[k]>> /\ front[n + k] = <<"byte", q[k]>> /\ q[k] = p[k]
          BY <5>1, <2>3, <2>5, <2>6
        <5>3. QED BY <5>1, <5>2, <4>1
      <4>5. QED BY <4>2, <4>3, <4>4, <2>2, <2>9
    <3>2. Len(front) = Len(before)
      BY <2>2, <2>6, <2>12
    <3>3. QED BY <3>1, <3>2, <2>6, <2>12, SeqEqual
  <2>14. \A j \in 1 .. (n + e) - 1 : text[j] # Equal
    <3>1. front \in Seq(TextToken) /\ \A i \in 1 .. Len(front) : front[i] # Equal
      BY <1>7, <2>3, <2>4 DEF front
    <3>2. QED BY <3>1, <2>12, <2>13
  <2>15. Index(Equal, text) = n + e
    <3>1. n + e \in 1 .. Len(text)
      <4> DEFINE P == Len(p)
                 B == Len(s.bytes)
                 T == Len(text)
      <4>1. /\ P \in Nat /\ B \in Nat /\ n \in Nat /\ T = n + P + 1 + B
            /\ e \in Nat /\ e >= 1 /\ e <= P
        BY <2>2, <2>10
      <4> HIDE DEF P, B, T
      <4>2. n + e \in 1 .. T
        BY <4>1
      <4>3. QED BY <4>2 DEF T
    <3>2. text \in Seq(TextToken)
      BY <2>5
    <3>3. QED BY <3>1, <3>2, <2>11, <2>14, IndexFound
  <2>16. rest \in Seq(ByteToken)
    <3>1. \A i \in n + e + 1 .. Len(text) : text[i] \in ByteToken
      <4> SUFFICES ASSUME NEW i \in n + e + 1 .. Len(text) PROVE text[i] \in ByteToken
        OBVIOUS
      <4>1. CASE i <= n + Len(p)
        <5> DEFINE k == i - n
        <5>1. k \in 1 .. Len(p) /\ i = n + k
          BY <4>1, <2>2
        <5> HIDE DEF k
        <5>2. QED BY <5>1, <2>5, <2>7, Tokens
      <4>2. CASE i = n + Len(p) + 1
        BY <4>2, <2>5, Tokens
      <4>3. CASE i > n + Len(p) + 1
        <5> DEFINE k == i - (n + Len(p) + 1)
        <5>1. k \in 1 .. Len(s.bytes) /\ i = n + Len(p) + 1 + k
          <6> DEFINE P == Len(p)
                     B == Len(s.bytes)
                     T == Len(text)
          <6>1. /\ P \in Nat /\ B \in Nat /\ n \in Nat /\ T = n + P + 1 + B
            BY <2>2, <2>10
          <6>2. i \in Int /\ i <= T /\ i > n + P + 1
            BY <4>3
          <6> HIDE DEF P, B, T
          <6>3. i - (n + P + 1) \in 1 .. B /\ i = n + P + 1 + (i - (n + P + 1))
            BY ONLY <6>1, <6>2
          <6>4. QED BY <6>3 DEF P, B
        <5> HIDE DEF k
        <5>2. QED BY <5>1, <2>5, <2>8, Tokens
      <4>4. QED BY <4>1, <4>2, <4>3, <2>2
    <3>2. n + e + 1 \in Int /\ Len(text) \in Int
      BY <2>2, <2>5
    <3>3. QED BY <3>1, <3>2, SubSeqProperties
  <2> HIDE DEF rest
  <2>17. ParseSegment(text) = ParseLabel(front, ByteOf(rest))
    <3>1. n + e # 0 /\ n + e # 1
      BY <2>2, <2>9
    <3>2. before = SubSeq(text, 1, (n + e) - 1) /\ rest = SubSeq(text, (n + e) + 1, Len(text))
      BY Zenon DEF before, rest
    <3>3. QED BY <3>1, <3>2, <2>13, <2>15, Zenon DEF ParseSegment
  <2>18. ParseLabel(front, ByteOf(rest)) = Labelled(s.type, q, ByteOf(rest))
    BY <1>2, <1>3, <2>3, ParseParameterLabel DEF front
  <2>19. Labelled(s.type, q, ByteOf(rest)) \in Content \cup {None}
    <3>1. q \in Seq(Byte) \cup {None} /\ ByteOf(rest) \in Seq(Byte)
      BY <2>3, <2>16, ByteOfTokens
    <3>2. QED BY <3>1, <1>1, LabelledContent
  <2>20. QED BY <2>17, <2>18, <2>19 DEF text
<1>10. QED BY <1>8, <1>9

LEMMA SegmentRoundTrip ==
    ASSUME NEW s \in Content, Kept(s) => IsClean(s)
    PROVE  /\ ParseSegment(SegmentText(s)) \in Content \cup {None}
           /\ ReadBack(s) \in Content
           /\ (Kept(s) => EqualSign \notin ToSet(s.parameter)) =>
                  ParseSegment(SegmentText(s)) = ReadBack(s)
<1>1. [s EXCEPT !.parameter = None] \in Content
  BY DEF Content
<1>2. CASE Kept(s)
  <2>1. ReadBack(s) = s
    BY <1>2 DEF ReadBack
  <2>2. QED BY <1>2, <2>1, ParseParameterText
<1>3. CASE ~Kept(s)
  <2>1. ReadBack(s) = [s EXCEPT !.parameter = None]
    BY <1>3 DEF ReadBack
  <2>2. ParseSegment(SegmentText(s)) = [s EXCEPT !.parameter = None]
    <3>1. CASE ~NeedsLabel(s)
      BY <3>1, ParseValueText
    <3>2. CASE NeedsLabel(s) /\ IsApp(s.type)
      BY <3>2, ParseAppText
    <3>3. CASE NeedsLabel(s) /\ ~IsApp(s.type)
      <4>1. s.parameter = None
        BY <1>3, <3>3 DEF Kept
      <4>2. QED BY <3>3, <4>1, ParsePlainText
    <3>4. QED BY <3>1, <3>2, <3>3
  <2>3. QED BY <1>1, <2>1, <2>2
<1>4. QED BY <1>2, <1>3

(* What a text is parsed to                                                *)
LEMMA ParsedName ==
    ASSUME NEW S, NEW text \in Seq(S),
           \A i \in 1 .. Len(text) : ParseSegment(text[i]) \in Content \cup {None},
           ParseName(text) # None
    PROVE  ParseName(text) \in Seq(Content)
<1> DEFINE path == Path(text)
           segments == [i \in DOMAIN path |-> ParseSegment(path[i])]
<1>1. /\ path \in Seq(S)
      /\ \A i \in 1 .. Len(path) : ParseSegment(path[i]) \in Content \cup {None}
  <2>1. CASE HasAuthority(text)
    <3>1. path = SubSeq(text, 2 + 1, Len(text))
      BY <2>1 DEF Path
    <3>2. Len(text) \in Nat /\ Len(text) > 1 /\ 2 \in 0 .. Len(text)
      BY <2>1 DEF HasAuthority
    <3> HIDE DEF path
    <3>3. /\ path \in Seq(S) /\ Len(path) = Len(text) - 2
          /\ \A i \in 1 .. Len(text) - 2 : path[i] = text[2 + i]
      BY <3>1, <3>2, Cut
    <3>4. \A i \in 1 .. Len(path) : 2 + i \in 1 .. Len(text) /\ path[i] = text[2 + i]
      BY <3>2, <3>3
    <3>5. QED BY <3>3, <3>4
  <2>2. CASE ~HasAuthority(text)
    BY <2>2 DEF Path
  <2>3. QED BY <2>1, <2>2
<1>2. ParseName(text) = IF None \in ToSet(segments) THEN None ELSE segments
  BY DEF ParseName
<1> HIDE DEF path
<1>3. DOMAIN path = 1 .. Len(path) /\ Len(path) \in Nat
  BY <1>1
<1>4. \A i \in 1 .. Len(path) : segments[i] = ParseSegment(path[i]) /\ segments[i] \in ToSet(segments)
  BY <1>3 DEF ToSet
<1>5. None \notin ToSet(segments) /\ ParseName(text) = segments
  BY <1>2
<1>6. \A i \in 1 .. Len(path) : segments[i] \in Content
  BY <1>1, <1>4, <1>5
<1>7. segments \in [1 .. Len(path) -> Content]
  BY <1>3, <1>6
<1>8. QED BY <1>3, <1>5, <1>7

(* The text of a readable name is read back as the name.                   *)
LEMMA NameRoundTrip ==
    ASSUME NEW x \in Seq(Content), Readable(x)
    PROVE  ParseName(NameText(x)) = [i \in DOMAIN x |-> ReadBack(x[i])]
<1> DEFINE text == [i \in DOMAIN x |-> SegmentText(x[i])]
           segments == [i \in DOMAIN text |-> ParseSegment(text[i])]
           back == [i \in DOMAIN x |-> ReadBack(x[i])]
<1>1. NameText(x) = text
  BY DEF NameText, Readable
<1>2. Path(text) = text
  BY <1>1 DEF Path, Readable
<1>3. \A i \in DOMAIN x :
         /\ x[i] \in Content
         /\ Kept(x[i]) => (EqualSign \notin ToSet(x[i].parameter) /\ IsClean(x[i]))
  <2>1. SUFFICES ASSUME NEW i \in DOMAIN x, Kept(x[i])
                 PROVE  EqualSign \notin ToSet(x[i].parameter) /\ IsClean(x[i])
    OBVIOUS
  <2>2. ToSet(x[i].parameter) \cap (Delimiter \cup {EqualSign}) = {}
    BY <2>1 DEF Readable
  <2>3. EqualSign \notin ToSet(x[i].parameter) /\ ToSet(x[i].parameter) \cap Delimiter = {}
    BY <2>2
  <2>4. QED BY <2>3 DEF IsClean
<1>4. \A i \in DOMAIN x : ParseSegment(SegmentText(x[i])) = ReadBack(x[i]) /\ ReadBack(x[i]) \in Content
  BY <1>3, SegmentRoundTrip
<1>5. segments = back
  BY <1>4
<1>6. None \notin ToSet(back)
  BY <1>4, NoneAssumption DEF ToSet
<1>7. ParseName(text) = IF None \in ToSet(segments) THEN None ELSE segments
  BY <1>2, Zenon DEF ParseName
<1>8. QED BY <1>1, <1>5, <1>6, <1>7, Zenon

----------------------------------------------------------------------------
(* The operations *)

LEMMA InitInv == ASSUME Init PROVE NamesInv
<1>1. Live = {}
  BY DEF Init, Live
<1>2. NamesTypeOK
  BY DEF Init, NamesTypeOK
<1>3. QED BY <1>1, <1>2 DEF NamesInv, ValuesHeld, FamiliesAgree, CopiesShareNothing

(* A new name with buffers of its own                                      *)
LEMMA OwnInv ==
    ASSUME NamesInv, NEW n \in Name, NEW contents \in Seq(Content),
           Made(n, <<>>, contents, {})
    PROVE  NamesInv'
<1>1. <<>> \in Seq(SegmentRecord) /\ CellsOf(<<>>) = {} /\ {} \in SUBSET Live
  BY DEF CellsOf
<1>2. /\ \A c \in CellsOf(<<>>) : value[c] \in BufferRecord
      /\ \A m \in {} : family[m] = {}
      /\ \A m \in Live \ {} : CellsOf(<<>>) \cap CellsOf(names[m]) = {}
  BY <1>1
<1>3. QED BY <1>1, <1>2, MadeInv

LEMMA CreateFromCStringInv ==
    ASSUME NamesInv, NEW n \in Name, NEW text \in Text, CreateFromCString(n, text)
    PROVE  NamesInv'
<1> DEFINE contents == ParseName(text)
<1>1. contents # None /\ Made(n, <<>>, contents, {})
  BY DEF CreateFromCString
<1>2. /\ text \in Seq(Seq(Token))
      /\ \A i \in 1 .. Len(text) : ParseSegment(text[i]) \in Content \cup {None}
  <2>1. text \in Seq(Seq(Token)) /\ \A i \in DOMAIN text : ParseSegment(text[i]) \in Content \cup {None}
    BY TextAssumption
  <2>2. DOMAIN text = 1 .. Len(text)
    BY <2>1
  <2>3. QED BY <2>1, <2>2
<1>3. contents \in Seq(Content)
  BY <1>1, <1>2, ParsedName
<1>4. QED BY <1>1, <1>3, OwnInv

LEMMA CopyInv ==
    ASSUME NamesInv, NEW n \in Name, NEW m \in Live, Copy(n, m)
    PROVE  NamesInv'
BY ContentsOfName, OwnInv DEF Copy

LEMMA CreatePrefixInv ==
    ASSUME NamesInv, NEW n \in Name, NEW m \in Live, NEW length \in Nat,
           CreatePrefix(n, m, length)
    PROVE  NamesInv'
<1> DEFINE k == Min({length, Len(names[m])})
           old == SubSeq(names[m], 1, k)
<1>1. names[m] \in Seq(SegmentRecord) /\ Len(names[m]) \in Nat
  BY DEF NamesInv, NamesTypeOK, Live
<1>2. k \in 0 .. Len(names[m])
  BY <1>1, MinOfTwo
<1>3. Made(n, old, <<>>, family[m])
  BY DEF CreatePrefix
<1> HIDE DEF k
<1>4. old \in Seq(SegmentRecord) /\ CellsOf(old) \subseteq CellsOf(names[m])
  BY <1>1, <1>2, CellsOfPrefix
<1> HIDE DEF old
<1>5. \A c \in CellsOf(old) : value[c] \in BufferRecord
  BY <1>4 DEF NamesInv, ValuesHeld
<1>6. family[m] \in SUBSET Live /\ \A j \in family[m] : family[j] = family[m]
  BY DEF NamesInv, FamiliesAgree
<1>7. \A j \in Live \ family[m] : CellsOf(old) \cap CellsOf(names[j]) = {}
  BY <1>4 DEF NamesInv, CopiesShareNothing
<1>8. <<>> \in Seq(Content)
  OBVIOUS
<1>9. QED BY <1>3, <1>4, <1>5, <1>6, <1>7, <1>8, MadeInv

LEMMA ComposeNAMEInv ==
    ASSUME NamesInv, NEW n \in Name, NEW m \in Live, NEW suffix \in Suffix,
           ComposeNAME(n, m, suffix)
    PROVE  NamesInv'
<1> DEFINE segment == NameSegment(NAME, suffix)
           contents == Append(Contents(m), segment)
<1>1. Contents(m) \in Seq(Content)
  BY ContentsOfName
<1>2. segment \in Content
  <2>1. suffix \in Seq(Byte) /\ NAME \in Nat \ {BADNAME, Unknown}
    BY NamesAssumption DEF NAME, BADNAME, Unknown
  <2>2. QED BY <2>1 DEF NameSegment, Content
<1> HIDE DEF segment
<1>3. contents \in Seq(Content)
  BY <1>1, <1>2
<1>4. Made(n, <<>>, contents, {})
  BY DEF ComposeNAME, segment
<1>5. QED BY <1>3, <1>4, OwnInv

LEMMA ComposeFormatStringInv ==
    ASSUME NamesInv, NEW n \in Name, NEW m \in Live, NEW text \in Text,
           ComposeFormatString(n, m, text)
    PROVE  NamesInv'
<1> DEFINE x == Contents(m)
           front == NameText(x)
           all == front \o text
           S == {front[i] : i \in DOMAIN front} \cup Seq(Token)
<1> PICK read \in ReadAs(all) : CreateFromCString(n, read)
  BY DEF ComposeFormatString
<1> SUFFICES ASSUME IsPlain(all) PROVE NamesInv'
  BY CreateFromCStringInv DEF ReadAs
<1>1. ParseName(all) # None /\ Made(n, <<>>, ParseName(all), {})
  BY DEF CreateFromCString, ReadAs
<1>2. x \in Seq(Content)
  BY ContentsOfName
<1> HIDE DEF x
<1>3. /\ DOMAIN front = 1 .. Len(front) /\ Len(front) \in Nat
      /\ x # <<>> => /\ DOMAIN x = 1 .. Len(front)
                     /\ \A i \in 1 .. Len(front) : x[i] \in Content /\ front[i] = SegmentText(x[i])
      /\ x = <<>> => front = << <<>> >>
  <2>1. CASE x = <<>>
    BY <2>1 DEF NameText
  <2>2. CASE x # <<>>
    <3>1. front = [i \in DOMAIN x |-> SegmentText(x[i])]
      BY <2>2 DEF NameText
    <3>2. DOMAIN x = 1 .. Len(x) /\ Len(x) \in Nat /\ \A i \in 1 .. Len(x) : x[i] \in Content
      BY <1>2
    <3> HIDE DEF front
    <3>3. DOMAIN front = 1 .. Len(x) /\ Len(front) = Len(x)
      BY <3>1, <3>2
    <3>4. QED BY <2>2, <3>1, <3>2, <3>3
  <2>3. QED BY <2>1, <2>2
<1> HIDE DEF front
<1>4. front \in Seq(S)
  <2>1. \A i \in 1 .. Len(front) : front[i] \in S
    BY <1>3
  <2>2. front = [i \in 1 .. Len(front) |-> front[i]]
    <3>1. CASE x = <<>>
      <4>1. front = << <<>> >>
        BY <3>1 DEF NameText, front
      <4>2. QED BY <4>1
    <3>2. CASE x # <<>>
      <4>1. front = [i \in DOMAIN x |-> SegmentText(x[i])]
        BY <3>2 DEF NameText, front
      <4>2. QED BY <4>1, <1>3
    <3>3. QED BY <3>1, <3>2
  <2> HIDE DEF S
  <2>3. QED BY <1>3, <2>1, <2>2
<1>5. /\ text \in Seq(Seq(Token))
      /\ \A i \in 1 .. Len(text) : ParseSegment(text[i]) \in Content \cup {None}
  <2>1. text \in Seq(Seq(Token)) /\ \A i \in DOMAIN text : ParseSegment(text[i]) \in Content \cup {None}
    BY TextAssumption
  <2>2. DOMAIN text = 1 .. Len(text)
    BY <2>1
  <2>3. QED BY <2>1, <2>2
<1>6. text \in Seq(S)
  BY <1>5, SeqMonotonic
<1> HIDE DEF S
<1>7. /\ all \in Seq(S) /\ Len(all) = Len(front) + Len(text) /\ Len(text) \in Nat
      /\ \A i \in 1 .. Len(front) : all[i] = front[i]
      /\ \A i \in 1 .. Len(text) : all[Len(front) + i] = text[i]
  BY <1>4, <1>6, Joined
<1>8. \A i \in 1 .. Len(front) : ParseSegment(front[i]) \in Content \cup {None}
  <2>1. CASE x = <<>>
    <3>1. <<>> = Bytes(<<>>) /\ <<>> \in Seq(Byte) /\ ToSet(<<>>) = {}
      BY DEF Bytes, ToSet
    <3>2. ParseSegment(<<>>) \in Content \cup {None}
      <4>1. ParseSegment(<<>>) = [type |-> NAME, parameter |-> None, bytes |-> <<>>]
        BY <3>1, ParseValue
      <4>2. NAME \in Nat \ {BADNAME, Unknown}
        BY DEF NAME, BADNAME, Unknown
      <4>3. [type |-> NAME, parameter |-> None, bytes |-> <<>>] \in Content
        BY ONLY <4>2, <3>1 DEF Content
      <4>4. QED BY <4>1, <4>3
    <3>3. QED BY <1>3, <2>1, <3>2
  <2>2. ASSUME x # <<>>, NEW i \in 1 .. Len(front)
        PROVE  ParseSegment(front[i]) \in Content \cup {None}
    <3>1. x[i] \in Content /\ front[i] = SegmentText(x[i])
      BY <1>3, <2>2
    <3>2. i \in DOMAIN all /\ all[i] = front[i]
      <4> HIDE DEF all
      <4>1. QED BY <1>3, <1>7
    <3>3. \A j \in DOMAIN SegmentText(x[i]) : SegmentText(x[i])[j][1] # "raw"
      <4> HIDE DEF all
      <4>1. QED BY <3>1, <3>2, Zenon DEF IsPlain
    <3>4. Kept(x[i]) => IsClean(x[i])
      BY <3>1, <3>3, DelimitersAreRaw
    <3>5. QED BY <3>1, <3>4, SegmentRoundTrip
  <2>3. QED BY <2>1, <2>2
<1> HIDE DEF all
<1>9. ASSUME NEW i \in 1 .. Len(all) PROVE ParseSegment(all[i]) \in Content \cup {None}
  <2>1. CASE i <= Len(front)
    <3>1. i \in 1 .. Len(front)
      BY <2>1, <1>3
    <3>2. QED BY <3>1, <1>7, <1>8
  <2>2. CASE i > Len(front)
    <3> DEFINE k == i - Len(front)
    <3>1. k \in 1 .. Len(text) /\ i = Len(front) + k
      BY <2>2, <1>3, <1>7
    <3> HIDE DEF k
    <3>2. QED BY <3>1, <1>5, <1>7
  <2>3. QED BY <2>1, <2>2, <1>3, <1>7
<1>10. ParseName(all) \in Seq(Content)
  BY <1>1, <1>7, <1>9, ParsedName
<1>11. QED BY <1>1, <1>10, OwnInv

LEMMA AppendSegmentInv ==
    ASSUME NamesInv, NEW n \in Live, NEW segment \in Content, AppendSegment(n, segment)
    PROVE  NamesInv'
<1>1. names[n] \in Seq(SegmentRecord)
  BY DEF NamesInv, NamesTypeOK, Live
<1> DEFINE all == Len(names[n])
<1>2. all \in Nat /\ all \in 0 .. all /\ SubSeq(names[n], 1, all) = names[n]
  BY <1>1, SubSeqFull
<1>3. Become(n, SubSeq(names[n], 1, all), <<segment>>) /\ UNCHANGED family
  BY <1>2 DEF AppendSegment
<1>4. <<segment>> \in Seq(Content)
  OBVIOUS
<1>5. QED BY <1>2, <1>3, <1>4, GrownInv

(* The families of the two names become one.                               *)
LEMMA AppendSegmentOfInv ==
    ASSUME NamesInv, NEW n \in Live, NEW m \in Live, NEW i \in DOMAIN names[m],
           AppendSegmentOf(n, m, i)
    PROVE  NamesInv'
<1> DEFINE old == Append(names[n], names[m][i])
           joined == family[n] \cup family[m]
<1>1. /\ n \in Name /\ m \in Name
      /\ names[n] \in Seq(SegmentRecord) /\ names[m] \in Seq(SegmentRecord)
      /\ family \in [Name -> SUBSET Name]
  BY DEF NamesInv, NamesTypeOK, Live
<1>2. names[m][i] \in SegmentRecord
  BY <1>1
<1>3. old \in Seq(SegmentRecord) /\ CellsOf(old) \subseteq CellsOf(names[n]) \cup CellsOf(names[m])
  <2>1. old \in Seq(SegmentRecord)
    BY <1>1, <1>2
  <2>2. ASSUME NEW j \in DOMAIN old PROVE old[j].value \in CellsOf(names[n]) \cup CellsOf(names[m])
    <3>1. old[j] = names[m][i] \/ (j \in DOMAIN names[n] /\ old[j] = names[n][j])
      BY <1>1, <1>2
    <3> HIDE DEF old
    <3>2. QED BY <3>1 DEF CellsOf
  <2> HIDE DEF old
  <2>3. QED BY <2>1, <2>2 DEF CellsOf
<1>4. /\ Become(n, old, <<>>) /\ <<>> \in Seq(Content)
      /\ family' = [k \in Name |-> IF k \in joined THEN joined ELSE family[k]]
  BY DEF AppendSegmentOf
<1>5. \A c \in CellsOf(old) : value[c] \in BufferRecord
  BY <1>3 DEF NamesInv, ValuesHeld
<1> HIDE DEF old
<1>6. /\ names' \in [Name -> Seq(SegmentRecord) \cup {None}]
      /\ value' \in [Cell -> BufferRecord \cup {None}]
      /\ Live' = Live \cup {n}
      /\ \A k \in Live \ {n} : names'[k] = names[k]
      /\ \A k \in Live' : \A c \in CellsOf(names'[k]) : value'[c] \in BufferRecord
      /\ \E fresh \in SUBSET Cell :
            /\ CellsOf(names'[n]) = CellsOf(old) \cup fresh
            /\ \A k \in Live \ {n} : fresh \cap CellsOf(names[k]) = {}
  BY <1>1, <1>3, <1>4, <1>5, BecomeNames
<1>7. PICK fresh \in SUBSET Cell :
          /\ CellsOf(names'[n]) = CellsOf(old) \cup fresh
          /\ \A k \in Live \ {n} : fresh \cap CellsOf(names[k]) = {}
  BY <1>6
<1>8. /\ Live' = Live /\ Live \subseteq Name
      /\ \A k \in Live : /\ k \in family[k] /\ family[k] \subseteq Live
                         /\ \A j \in family[k] : family[j] = family[k]
  BY <1>6 DEF NamesInv, FamiliesAgree, Live
<1>9. /\ joined \subseteq Live /\ n \in joined /\ m \in joined
      /\ \A k \in Live \ joined : family[k] \cap joined = {}
  BY <1>8
<1> HIDE DEF joined
<1>10. /\ family' \in [Name -> SUBSET Name]
       /\ \A k \in joined : family'[k] = joined
       /\ \A k \in Live \ joined : family'[k] = family[k]
  BY <1>1, <1>4, <1>8, <1>9
<1>11. FamiliesAgree'
  <2> SUFFICES ASSUME NEW k \in Live
               PROVE  /\ k \in family'[k] /\ family'[k] \subseteq Live
                      /\ \A j \in family'[k] : family'[j] = family'[k]
    BY <1>8 DEF FamiliesAgree
  <2>1. CASE k \in joined
    BY <2>1, <1>9, <1>10
  <2>2. CASE k \notin joined
    <3>1. family'[k] = family[k] /\ \A j \in family[k] : j \in Live \ joined
      BY <2>2, <1>8, <1>9, <1>10
    <3>2. QED BY <3>1, <1>8, <1>10
  <2>3. QED BY <2>1, <2>2
<1>12. CopiesShareNothing'
  <2> SUFFICES ASSUME NEW k \in Live, NEW j \in Live, j \notin family'[k]
               PROVE  CellsOf(names'[k]) \cap CellsOf(names'[j]) = {}
    BY <1>8 DEF CopiesShareNothing
  <2>1. \A a, b \in Live : b \notin family[a] => CellsOf(names[a]) \cap CellsOf(names[b]) = {}
    BY DEF NamesInv, CopiesShareNothing
  <2>2. \A a \in Live \ joined : CellsOf(names'[n]) \cap CellsOf(names'[a]) = {}
    <3> SUFFICES ASSUME NEW a \in Live \ joined
                 PROVE  CellsOf(names'[n]) \cap CellsOf(names'[a]) = {}
      OBVIOUS
    <3>1. a # n /\ names'[a] = names[a] /\ n \notin family[a] /\ m \notin family[a]
      BY <1>6, <1>9
    <3>2. /\ CellsOf(names[a]) \cap CellsOf(names[n]) = {}
          /\ CellsOf(names[a]) \cap CellsOf(names[m]) = {}
      BY <2>1, <3>1
    <3>3. QED BY <1>3, <1>7, <3>1, <3>2
  <2>3. CASE k = n
    BY <2>2, <2>3, <1>9, <1>10
  <2>4. CASE j = n
    <3>1. k \notin joined
      BY <2>4, <1>9, <1>10
    <3>2. QED BY <2>2, <2>4, <3>1
  <2>5. CASE k # n /\ j # n
    <3>1. names'[k] = names[k] /\ names'[j] = names[j]
      BY <2>5, <1>6
    <3>2. j \notin family[k]
      <4>1. CASE k \in joined
        <5>1. j \notin joined
          BY <4>1, <1>10
        <5>2. \A a \in joined : family[a] \subseteq joined
          BY <1>8 DEF joined
        <5>3. QED BY <4>1, <5>1, <5>2
      <4>2. CASE k \notin joined
        BY <4>2, <1>10
      <4>3. QED BY <4>1, <4>2
    <3>3. QED BY <2>1, <3>1, <3>2
  <2>6. QED BY <2>3, <2>4, <2>5
<1>13. NamesTypeOK' /\ ValuesHeld'
  BY <1>6, <1>10 DEF NamesTypeOK, ValuesHeld
<1>14. QED BY <1>11, <1>12, <1>13 DEF NamesInv

LEMMA TrimInv ==
    ASSUME NamesInv, NEW n \in Live, NEW count \in Nat, Trim(n, count)
    PROVE  NamesInv'
<1> DEFINE all == Len(names[n])
           k == all - Min({count, all})
<1>1. names[n] \in Seq(SegmentRecord) /\ all \in Nat
  BY DEF NamesInv, NamesTypeOK, Live
<1>2. k \in 0 .. all
  BY <1>1, MinOfTwo
<1>3. Become(n, SubSeq(names[n], 1, k), <<>>) /\ UNCHANGED family
  BY DEF Trim
<1>4. <<>> \in Seq(Content)
  OBVIOUS
<1>5. QED BY <1>2, <1>3, <1>4, GrownInv

LEMMA ReleaseInv ==
    ASSUME NamesInv, NEW n \in Live, Release(n)
    PROVE  NamesInv'
<1> DEFINE used == UNION {CellsOf(names[m]) : m \in Live \ {n}}
<1>1. /\ names \in [Name -> Seq(SegmentRecord) \cup {None}]
      /\ value \in [Cell -> BufferRecord \cup {None}]
      /\ family \in [Name -> SUBSET Name] /\ n \in Name
  BY DEF NamesInv, NamesTypeOK, Live
<1>2. /\ names' = [names EXCEPT ![n] = None]
      /\ value' = [c \in Cell |-> IF c \in used THEN value[c] ELSE None]
      /\ family' = [m \in Name |-> IF m = n THEN {} ELSE family[m] \ {n}]
  BY DEF Release
<1>3. /\ Live' = Live \ {n}
      /\ \A m \in Live' : names'[m] = names[m] /\ family'[m] = family[m] \ {n}
  BY <1>1, <1>2 DEF Live
<1>4. NamesTypeOK'
  <2>1. names' \in [Name -> Seq(SegmentRecord) \cup {None}]
    BY <1>1, <1>2
  <2>2. value' \in [Cell -> BufferRecord \cup {None}]
    BY <1>1, <1>2
  <2>3. family' \in [Name -> SUBSET Name]
    BY <1>1, <1>2
  <2>4. QED BY <2>1, <2>2, <2>3 DEF NamesTypeOK
<1>5. ValuesHeld'
  <2> SUFFICES ASSUME NEW m \in Live', NEW c \in CellsOf(names'[m])
               PROVE  value'[c] \in BufferRecord
    BY DEF ValuesHeld
  <2>1. m \in Live \ {n} /\ c \in CellsOf(names[m])
    BY <1>3
  <2>2. c \in used
    BY <2>1
  <2>3. c \in Cell
    BY <1>1, <2>1, CellsOfSequence DEF Live
  <2>4. value[c] \in BufferRecord
    BY <2>1 DEF NamesInv, ValuesHeld
  <2> HIDE DEF used
  <2>5. QED BY <1>2, <2>2, <2>3, <2>4
<1>6. FamiliesAgree'
  <2> SUFFICES ASSUME NEW m \in Live'
               PROVE  /\ m \in family'[m] /\ family'[m] \subseteq Live'
                      /\ \A j \in family'[m] : family'[j] = family'[m]
    BY DEF FamiliesAgree
  <2>1. m \in Live \ {n} /\ family'[m] = family[m] \ {n}
    BY <1>3
  <2>2. m \in family[m] /\ family[m] \subseteq Live /\ \A j \in family[m] : family[j] = family[m]
    BY <2>1 DEF NamesInv, FamiliesAgree
  <2>3. QED BY <1>3, <2>1, <2>2
<1>7. CopiesShareNothing'
  <2> SUFFICES ASSUME NEW m \in Live', NEW j \in Live', j \notin family'[m]
               PROVE  CellsOf(names'[m]) \cap CellsOf(names'[j]) = {}
    BY DEF CopiesShareNothing
  <2>1. m \in Live /\ j \in Live /\ j # n /\ j \notin family[m]
    BY <1>3
  <2>2. CellsOf(names[m]) \cap CellsOf(names[j]) = {}
    BY <2>1 DEF NamesInv, CopiesShareNothing
  <2>3. QED BY <1>3, <2>2
<1>8. QED BY <1>4, <1>5, <1>6, <1>7 DEF NamesInv

LEMMA ReadValueInv ==
    ASSUME NamesInv, NEW n \in Live, NEW i \in DOMAIN names[n], NEW to \in Nat,
           ReadValue(n, i, to)
    PROVE  NamesInv'
<1> DEFINE cell == names[n][i].value
<1>1. /\ names \in [Name -> Seq(SegmentRecord) \cup {None}]
      /\ value \in [Cell -> BufferRecord \cup {None}]
      /\ family \in [Name -> SUBSET Name] /\ names[n] \in Seq(SegmentRecord)
  BY DEF NamesInv, NamesTypeOK, Live
<1>2. cell \in CellsOf(names[n]) /\ cell \in Cell
  BY <1>1, CellsOfSequence DEF CellsOf
<1>3. value[cell] \in BufferRecord
  BY <1>2 DEF NamesInv, ValuesHeld
<1>4. value' = [value EXCEPT ![cell] = [@ EXCEPT !.position = to]] /\ UNCHANGED <<names, family>>
  BY DEF ReadValue
<1> HIDE DEF cell
<1>5. [value[cell] EXCEPT !.position = to] \in BufferRecord
  BY <1>3 DEF BufferRecord
<1>6. value' \in [Cell -> BufferRecord \cup {None}] /\ \A c \in Cell : value[c] \in BufferRecord => value'[c] \in BufferRecord
  BY <1>1, <1>2, <1>4, <1>5
<1>7. NamesTypeOK'
  BY <1>1, <1>4, <1>6 DEF NamesTypeOK
<1>8. Live' = Live /\ \A m \in Live : names[m] \in Seq(SegmentRecord) /\ names'[m] = names[m] /\ family'[m] = family[m]
  BY <1>1, <1>4 DEF Live
<1>9. ValuesHeld'
  <2> SUFFICES ASSUME NEW m \in Live, NEW c \in CellsOf(names[m])
               PROVE  value'[c] \in BufferRecord
    BY <1>8 DEF ValuesHeld
  <2>1. c \in Cell
    BY <1>8, CellsOfSequence
  <2>2. value[c] \in BufferRecord
    BY DEF NamesInv, ValuesHeld
  <2>3. QED BY <1>6, <2>1, <2>2
<1>10. FamiliesAgree' /\ CopiesShareNothing'
  BY <1>8, <1>4 DEF NamesInv, FamiliesAgree, CopiesShareNothing
<1>11. QED BY <1>7, <1>9, <1>10 DEF NamesInv

----------------------------------------------------------------------------
(* Numbers *)

(* Induction over the natural numbers, for a set instead of a predicate.   *)
LEMMA Induction ==
    ASSUME NEW S, 0 \in S, \A n \in Nat : n \in S => n + 1 \in S
    PROVE  Nat \subseteq S
<1> DEFINE T == Nat \ S
<1> SUFFICES ASSUME T # {} PROVE FALSE
  OBVIOUS
<1>1. PICK m \in T : \A k \in T : m <= k
  BY LeastExists
<1>2. m \in Nat /\ m # 0 /\ m - 1 \in Nat
  OBVIOUS
<1>3. m - 1 \in S
  BY <1>1, <1>2
<1>4. QED BY <1>2, <1>3

(* What a recursion over 0 .. n defines is there.                          *)
Follows(f, n, first, step) ==
    f[0] = first /\ \A i \in 1 .. n : f[i] = step[<<i, f[i - 1]>>]

LEMMA Recursion ==
    ASSUME NEW S, NEW first \in S, NEW n \in Nat, NEW step \in [Nat \X S -> S]
    PROVE  \E f \in [0 .. n -> S] : Follows(f, n, first, step)
<1> DEFINE Defined(m, f) == Follows(f, m, first, step)
           T == {m \in Nat : \E f \in [0 .. m -> S] : Defined(m, f)}
<1>1. 0 \in T
  <2>1. [i \in 0 .. 0 |-> first] \in [0 .. 0 -> S] /\ Defined(0, [i \in 0 .. 0 |-> first])
    BY DEF Follows
  <2>2. QED BY <2>1
<1>2. ASSUME NEW m \in Nat, m \in T PROVE m + 1 \in T
  <2>1. PICK f \in [0 .. m -> S] : Defined(m, f)
    BY <1>2
  <2>0. f[0] = first /\ \A i \in 1 .. m : f[i] = step[<<i, f[i - 1]>>]
    BY <2>1 DEF Follows
  <2> DEFINE next == step[<<m + 1, f[m]>>]
             g == [i \in 0 .. m + 1 |-> IF i = m + 1 THEN next ELSE f[i]]
  <2>2. next \in S
    OBVIOUS
  <2> HIDE DEF next
  <2>3. g \in [0 .. m + 1 -> S]
    BY <2>2
  <2>4. g[0] = first
    BY <2>0
  <2>5. ASSUME NEW i \in 1 .. m + 1 PROVE g[i] = step[<<i, g[i - 1]>>]
    <3>1. g[i - 1] = f[i - 1]
      OBVIOUS
    <3>2. CASE i = m + 1
      <4>1. (m + 1) - 1 = m
        OBVIOUS
      <4>2. g[i] = next
        BY <3>2
      <4>3. step[<<i, f[i - 1]>>] = next
        BY <3>2, <4>1, Zenon DEF next
      <4>4. QED BY <3>1, <4>2, <4>3
    <3>3. CASE i # m + 1
      <4>1. i \in 1 .. m /\ g[i] = f[i]
        BY <3>3
      <4>2. QED BY <2>0, <3>1, <4>1
    <3>4. QED BY <3>2, <3>3
  <2>6. Defined(m + 1, g)
    BY <2>4, <2>5 DEF Follows
  <2> HIDE DEF g, Defined
  <2>7. QED BY <2>3, <2>6
<1>3. n \in T
  <2> HIDE DEF T
  <2>1. QED BY <1>1, <1>2, Induction
<1>4. QED BY <1>3

LEMMA Powers ==
    /\ Power \in [0 .. NumberBytes -> Nat \ {0}]
    /\ Power[0] = 1
    /\ \A i \in 1 .. NumberBytes : Power[i] = Base * Power[i - 1]
<1> DEFINE S == Nat \ {0}
           step == [p \in Nat \X S |-> Base * p[2]]
           Step(f) == f = [i \in 0 .. NumberBytes |-> IF i = 0 THEN 1 ELSE Base * f[i - 1]]
<1>1. Base \in Nat \ {0} /\ NumberBytes \in Nat /\ NumberBytes # 0
  BY NamesAssumption
<1>2. \A p \in Nat \X S : Base * p[2] \in S
  BY <1>1
<1>3. step \in [Nat \X S -> S] /\ 1 \in S
  BY <1>2
<1>4. \A i \in Nat, s \in S : step[<<i, s>>] = Base * s
  OBVIOUS
<1> HIDE DEF S, step
<1>5. PICK f \in [0 .. NumberBytes -> S] :
            /\ f[0] = 1 /\ \A i \in 1 .. NumberBytes : f[i] = step[<<i, f[i - 1]>>]
  <2>1. \E f \in [0 .. NumberBytes -> S] : Follows(f, NumberBytes, 1, step)
    BY <1>1, <1>3, Recursion
  <2>2. QED BY <2>1 DEF Follows
<1>6. \A i \in 1 .. NumberBytes : i \in Nat /\ i # 0 /\ i - 1 \in 0 .. NumberBytes
  BY <1>1
<1>7. \A i \in 1 .. NumberBytes : f[i] = Base * f[i - 1]
  BY <1>4, <1>5, <1>6
<1>8. Step(f)
  <2>1. ASSUME NEW i \in 0 .. NumberBytes
        PROVE  f[i] = IF i = 0 THEN 1 ELSE Base * f[i - 1]
    <3>1. i # 0 => i \in 1 .. NumberBytes
      BY <1>1
    <3>2. QED BY <1>5, <1>7, <3>1
  <2>2. QED BY <2>1, <1>5
<1>9. Step(Power)
  BY <1>8, Zenon DEF Power
<1>10. \A i \in 0 .. NumberBytes : Power[i] = IF i = 0 THEN 1 ELSE Base * Power[i - 1]
  BY <1>9, Zenon
<1>11. Power[0] = 1 /\ \A i \in 1 .. NumberBytes : Power[i] = Base * Power[i - 1]
  <2>1. 0 \in 0 .. NumberBytes /\ \A i \in 1 .. NumberBytes : i \in 0 .. NumberBytes
    BY <1>1
  <2>2. QED BY <1>6, <1>10, <2>1
<1>12. \A i \in Nat : i <= NumberBytes => Power[i] = f[i]
  <2> DEFINE T == {i \in Nat : i <= NumberBytes => Power[i] = f[i]}
  <2>1. 0 \in T
    BY <1>5, <1>11
  <2>2. ASSUME NEW i \in Nat, i \in T PROVE i + 1 \in T
    <3> SUFFICES ASSUME i + 1 <= NumberBytes PROVE Power[i + 1] = f[i + 1]
      OBVIOUS
    <3>1. i + 1 \in 1 .. NumberBytes /\ (i + 1) - 1 = i /\ i <= NumberBytes
      BY <1>1
    <3>2. QED BY <2>2, <3>1, <1>7, <1>11
  <2>3. QED BY <2>1, <2>2, Induction
<1>13. \A i \in 0 .. NumberBytes : Power[i] \in Nat \ {0}
  BY <1>1, <1>5, <1>12 DEF S
<1>14. DOMAIN Power = 0 .. NumberBytes /\ Power = [i \in DOMAIN Power |-> Power[i]]
  <2> DEFINE P == [i \in 0 .. NumberBytes |-> IF i = 0 THEN 1 ELSE Base * Power[i - 1]]
  <2>1. Power = P
    BY <1>9, Zenon
  <2>2. DOMAIN P = 0 .. NumberBytes /\ P = [i \in DOMAIN P |-> P[i]]
    OBVIOUS
  <2> HIDE DEF P
  <2>3. QED BY <2>1, <2>2
<1>15. QED BY <1>11, <1>13, <1>14

LEMMA Division ==
    ASSUME NEW n \in Nat, NEW b \in Nat \ {0}
    PROVE  /\ n \div b \in Nat /\ n % b \in 0 .. b - 1
           /\ n = b * (n \div b) + (n % b)
OBVIOUS

LEMMA Multiples ==
    ASSUME NEW b \in Nat \ {0}, NEW p \in Int, NEW q \in Int, p < q
    PROVE  b * p + b <= b * q /\ b * p \in Int /\ b * q \in Int
<1> DEFINE d == q - p - 1
<1>1. d \in Nat /\ q = (p + d) + 1
  OBVIOUS
<1> HIDE DEF d
<1>2. b * d \in Nat
  BY <1>1
<1>3. b * ((p + d) + 1) = (b * p + b * d) + b
  BY <1>1
<1>4. b * p \in Int /\ b * q \in Int
  OBVIOUS
<1>5. QED BY <1>1, <1>2, <1>3, <1>4

LEMMA DivisionIs ==
    ASSUME NEW n \in Nat, NEW b \in Nat \ {0}, NEW q \in Nat, NEW r \in 0 .. b - 1,
           n = b * q + r
    PROVE  n \div b = q /\ n % b = r
<1> DEFINE p == n \div b
           s == n % b
<1>1. p \in Nat /\ s \in 0 .. b - 1 /\ n = b * p + s
  BY Division
<1> HIDE DEF p, s
<1>2. ~(p < q)
  <2> SUFFICES ASSUME p < q PROVE FALSE
    OBVIOUS
  <2>1. b * p + b <= b * q /\ b * p \in Int /\ b * q \in Int
    BY <1>1, Multiples
  <2>2. QED BY <1>1, <2>1
<1>3. ~(q < p)
  <2> SUFFICES ASSUME q < p PROVE FALSE
    OBVIOUS
  <2>1. b * q + b <= b * p /\ b * p \in Int /\ b * q \in Int
    BY <1>1, Multiples
  <2>2. QED BY <1>1, <2>1
<1>4. p = q
  BY <1>1, <1>2, <1>3
<1>5. b * q \in Int
  OBVIOUS
<1>6. QED BY <1>1, <1>4, <1>5 DEF p, s

LEMMA DivisionTwice ==
    ASSUME NEW n \in Nat, NEW a \in Nat \ {0}, NEW b \in Nat \ {0}
    PROVE  n \div (b * a) = (n \div a) \div b
<1> DEFINE p == n \div a
           r == n % a
           q == p \div b
           s == p % b
<1>1. p \in Nat /\ r \in 0 .. a - 1 /\ n = a * p + r
  BY Division
<1> HIDE DEF p, r
<1>2. q \in Nat /\ s \in 0 .. b - 1 /\ p = b * q + s
  BY <1>1, Division
<1> HIDE DEF q, s
<1> DEFINE ab == b * a
           rest == a * s + r
<1>3. ab \in Nat \ {0}
  OBVIOUS
<1>4. a * s + a <= a * b /\ a * b = ab
  BY <1>2, Multiples
<1>5. a * s \in Nat
  BY <1>2
<1>6. rest \in 0 .. ab - 1
  BY <1>1, <1>3, <1>4, <1>5
<1>7. a * (b * q + s) = ab * q + a * s
  BY <1>2
<1>8. ab * q \in Nat
  BY <1>2, <1>3
<1>9. n = ab * q + rest
  BY <1>1, <1>2, <1>5, <1>7, <1>8
<1> HIDE DEF ab, rest
<1>10. n \div ab = q
  BY <1>2, <1>3, <1>6, <1>9, DivisionIs
<1>11. QED BY <1>10 DEF ab, q, p

(* The bytes of a number, the zeros before it among them *)
Digits(n) == [i \in 1 .. NumberBytes |-> (n \div Power[NumberBytes - i]) % Base]
FirstDigit(n) == Min({i \in 1 .. NumberBytes : Digits(n)[i] # 0 \/ i = NumberBytes})

(* The number without its last bytes, all but k of them *)
Shifted(n, k) == n \div Power[NumberBytes - k]

LEMMA DigitsOf ==
    ASSUME NEW n \in Nat
    PROVE  /\ \A i \in 1 .. NumberBytes : Digits(n)[i] = Shifted(n, i) % Base
           /\ FirstDigit(n) \in 1 .. NumberBytes
           /\ \A i \in 1 .. FirstDigit(n) - 1 : Digits(n)[i] = 0
           /\ Digits(n)[FirstDigit(n)] # 0 \/ FirstDigit(n) = NumberBytes
           /\ NumberToBytes(n) \in Seq(Byte)
           /\ Len(NumberToBytes(n)) = (NumberBytes - FirstDigit(n)) + 1
           /\ \A j \in 1 .. (NumberBytes - FirstDigit(n)) + 1 :
                 NumberToBytes(n)[j] = Digits(n)[(FirstDigit(n) - 1) + j]
<1> DEFINE digits == Digits(n)
           ends == {i \in 1 .. NumberBytes : digits[i] # 0 \/ i = NumberBytes}
           first == FirstDigit(n)
<1>1. Base \in Nat \ {0} /\ NumberBytes \in Nat \ {0}
  BY NamesAssumption
<1>2. \A i \in 1 .. NumberBytes : digits[i] = Shifted(n, i) % Base
  BY DEF Digits, Shifted
<1>3. ASSUME NEW i \in 1 .. NumberBytes PROVE Shifted(n, i) \in Nat
  <2>1. NumberBytes - i \in 0 .. NumberBytes
    BY <1>1
  <2>2. Power[NumberBytes - i] \in Nat \ {0}
    BY <2>1, Powers
  <2>3. QED BY <2>2, Division DEF Shifted
<1>4. \A i \in 1 .. NumberBytes : digits[i] \in Byte
  <2> SUFFICES ASSUME NEW i \in 1 .. NumberBytes PROVE Shifted(n, i) % Base \in Byte
    BY <1>2
  <2>1. Shifted(n, i) % Base \in 0 .. Base - 1
    BY <1>1, <1>3, Division
  <2>2. QED BY <2>1 DEF Byte
<1>5. digits = [i \in 1 .. NumberBytes |-> digits[i]]
  BY DEF Digits
<1> HIDE DEF digits
<1>6. digits \in Seq(Byte) /\ Len(digits) = NumberBytes
  BY <1>1, <1>4, <1>5
<1>7. first = Min(ends)
  BY DEF FirstDigit, digits
<1>8. ends \in SUBSET Nat /\ ends # {}
  <2>1. NumberBytes \in ends
    BY <1>1
  <2>2. QED BY <2>1
<1> HIDE DEF first
<1>9. first \in ends /\ \A k \in ends : first <= k
  BY <1>7, <1>8, MinOfNumbers
<1>10. first \in 1 .. NumberBytes /\ (digits[first] # 0 \/ first = NumberBytes)
  BY <1>9
<1>11. \A i \in 1 .. first - 1 : digits[i] = 0
  <2> SUFFICES ASSUME NEW i \in 1 .. first - 1, digits[i] # 0 PROVE FALSE
    OBVIOUS
  <2>1. i \in 1 .. NumberBytes /\ ~(first <= i)
    BY <1>1, <1>10
  <2>2. i \in ends
    BY <2>1
  <2>3. QED BY <1>9, <2>1, <2>2
<1>12. NumberToBytes(n) = SubSeq(digits, first, NumberBytes)
  BY DEF NumberToBytes, digits, first, Digits, FirstDigit
<1>13. /\ SubSeq(digits, first, NumberBytes) \in Seq(Byte)
       /\ Len(SubSeq(digits, first, NumberBytes)) = (NumberBytes - first) + 1
       /\ \A j \in 1 .. (NumberBytes - first) + 1 :
             SubSeq(digits, first, NumberBytes)[j] = digits[(first - 1) + j]
  <2> DEFINE k == first - 1
  <2>1. k \in 0 .. Len(digits) /\ k + 1 = first /\ NumberBytes - k = (NumberBytes - first) + 1
    BY <1>1, <1>6, <1>10
  <2> HIDE DEF k
  <2>2. /\ SubSeq(digits, k + 1, Len(digits)) \in Seq(Byte)
        /\ Len(SubSeq(digits, k + 1, Len(digits))) = Len(digits) - k
        /\ \A i \in 1 .. Len(digits) - k : SubSeq(digits, k + 1, Len(digits))[i] = digits[k + i]
    BY <1>6, <2>1, Cut
  <2>3. /\ SubSeq(digits, first, NumberBytes) \in Seq(Byte)
        /\ Len(SubSeq(digits, first, NumberBytes)) = NumberBytes - k
        /\ \A j \in 1 .. NumberBytes - k : SubSeq(digits, first, NumberBytes)[j] = digits[k + j]
    BY <1>6, <2>1, <2>2
  <2>4. QED BY <2>1, <2>3 DEF k
<1>14. QED BY <1>2, <1>10, <1>11, <1>12, <1>13 DEF digits, first

LEMMA AppendNumberInv ==
    ASSUME NamesInv, NEW n \in Live, NEW number \in Number, AppendNumber(n, number)
    PROVE  NamesInv'
<1> DEFINE segment == NameSegment(CHUNK, NumberToBytes(number))
<1>1. number \in Nat
  BY NumberAssumption
<1>2. NumberToBytes(number) \in Seq(Byte)
  BY <1>1, DigitsOf
<1>3. CHUNK \in Nat \ {BADNAME, Unknown}
  BY DEF CHUNK, BADNAME, Unknown
<1>4. segment \in Content
  BY <1>2, <1>3 DEF NameSegment, Content
<1>5. AppendSegment(n, segment)
  BY DEF AppendNumber
<1> HIDE DEF segment
<1>6. QED BY <1>4, <1>5, AppendSegmentInv

----------------------------------------------------------------------------
(* Theorems of the specification *)

(* The inductive invariant: what buffers a live name's segments have are   *)
(* there, the relatives of a name are live and have the same relatives,    *)
(* and names that are not related have no buffer in common.                *)
THEOREM NamesInvariance == Spec => []NamesInv
<1>1. Init => NamesInv
  BY InitInv
<1>2. NamesInv /\ [Next]_nameVars => NamesInv'
  <2> SUFFICES ASSUME NamesInv, [Next]_nameVars PROVE NamesInv'
    OBVIOUS
  <2>1. CASE UNCHANGED nameVars
    BY <2>1 DEF nameVars, NamesInv, NamesTypeOK, ValuesHeld, FamiliesAgree,
                CopiesShareNothing, Live
  <2>2. \A m \in Live : m \in Name
    BY DEF Live
  <2>3. ASSUME NEW n \in Name, Create(n) PROVE NamesInv'
    <3>1. <<>> \in Seq(Content)
      OBVIOUS
    <3>2. QED BY <2>3, <3>1, OwnInv DEF Create
  <2>4. ASSUME NEW n \in Name, NEW text \in Text, CreateFromCString(n, text) PROVE NamesInv'
    BY <2>4, CreateFromCStringInv
  <2>5. ASSUME NEW n \in Name, NEW m \in Live, Copy(n, m) PROVE NamesInv'
    BY <2>5, CopyInv
  <2>6. ASSUME NEW n \in Name, NEW m \in Live, NEW length \in 0 .. MaxSegments + 1,
               CreatePrefix(n, m, length)
        PROVE  NamesInv'
    <3>1. length \in Nat
      BY NamesAssumption
    <3>2. QED BY <2>6, <3>1, CreatePrefixInv
  <2>7. ASSUME NEW n \in Name, NEW m \in Live, NEW suffix \in Suffix, ComposeNAME(n, m, suffix)
        PROVE  NamesInv'
    BY <2>7, ComposeNAMEInv
  <2>8. ASSUME NEW n \in Name, NEW m \in Live, NEW text \in Text, ComposeFormatString(n, m, text)
        PROVE  NamesInv'
    BY <2>8, ComposeFormatStringInv
  <2>9. ASSUME NEW n \in Live, NEW segment \in NewSegment, AppendSegment(n, segment)
        PROVE  NamesInv'
    <3>1. segment \in Content
      BY NamesAssumption
    <3>2. QED BY <2>9, <3>1, AppendSegmentInv
  <2>10. ASSUME NEW n \in Live, NEW number \in Number, AppendNumber(n, number) PROVE NamesInv'
    BY <2>10, AppendNumberInv
  <2>11. ASSUME NEW n \in Live, NEW count \in 0 .. MaxSegments + 1, Trim(n, count)
         PROVE  NamesInv'
    <3>1. count \in Nat
      BY NamesAssumption
    <3>2. QED BY <2>11, <3>1, TrimInv
  <2>12. ASSUME NEW n \in Live, NEW i \in DOMAIN names[n],
                NEW position \in 0 .. Len(value[names[n][i].value].bytes),
                ReadValue(n, i, position)
         PROVE  NamesInv'
    <3>1. position \in Nat
      OBVIOUS
    <3>2. QED BY <2>12, <3>1, ReadValueInv
  <2>13. ASSUME NEW n \in Live, Release(n) PROVE NamesInv'
    BY <2>13, ReleaseInv
  <2>14. ASSUME NEW n \in Live, NEW m \in Live, NEW i \in DOMAIN names[m],
                AppendSegmentOf(n, m, i)
         PROVE  NamesInv'
    BY <2>14, AppendSegmentOfInv
  <2>15. QED BY <2>1, <2>3, <2>4, <2>5, <2>6, <2>7, <2>8, <2>9, <2>10, <2>11, <2>12, <2>13, <2>14
             DEF Next
<1>3. QED BY <1>1, <1>2, PTL DEF Spec

(* Names that have no segment from each other, nor from a third, as        *)
(* prefixes or by appending it, have no buffer in common (ccnxName_Copy,   *)
(* ccnxName_CreatePrefix, ccnxName_Append and the ways to compose a name). *)
THEOREM CopiesStayApart == Spec => []CopiesShareNothing
<1>1. NamesInv => CopiesShareNothing
  BY DEF NamesInv
<1>2. QED BY <1>1, NamesInvariance, PTL

(* The text of a name, if it can be read at all, is read back as the name, *)
(* segment for segment (ccnxName_ToString, ccnxName_CreateFromCString).    *)
THEOREM TextsAreReadBack == Spec => []TextRoundTrips
<1>1. NamesInv => TextRoundTrips
  BY ContentsOfName, NameRoundTrip DEF TextRoundTrips
<1>2. QED BY <1>1, NamesInvariance, PTL

(* Reading a value of a name, or setting it back, changes neither a copy   *)
(* of the name nor a name composed from it: only its relatives, the names  *)
(* that have come to have segments in common by prefixes and appending.    *)
ReadsStayInFamily ==
    \A n \in Live : \A i \in DOMAIN names[n], position \in Nat :
        ReadValue(n, i, position) =>
            \A m \in Live \ family[n] : m \in Live' /\ Contents(m)' = Contents(m)

THEOREM ReadsReachRelativesOnly == Spec => [][ReadsStayInFamily]_nameVars
<1>1. NamesInv => ReadsStayInFamily
  <2> SUFFICES ASSUME NamesInv, NEW n \in Live, NEW i \in DOMAIN names[n],
                      NEW position \in Nat, ReadValue(n, i, position),
                      NEW m \in Live \ family[n]
               PROVE  m \in Live' /\ Contents(m)' = Contents(m)
    BY DEF ReadsStayInFamily
  <2> DEFINE cell == names[n][i].value
  <2>1. /\ names \in [Name -> Seq(SegmentRecord) \cup {None}]
        /\ value \in [Cell -> BufferRecord \cup {None}]
        /\ m \in Name /\ names[m] \in Seq(SegmentRecord)
        /\ n \in Name /\ names[n] \in Seq(SegmentRecord)
    BY DEF NamesInv, NamesTypeOK, Live
  <2>2. value' = [value EXCEPT ![cell] = [@ EXCEPT !.position = position]] /\ names' = names
    BY DEF ReadValue
  <2>3. cell \in CellsOf(names[n])
    BY DEF CellsOf
  <2>4. CellsOf(names[n]) \cap CellsOf(names[m]) = {}
    BY DEF NamesInv, CopiesShareNothing
  <2> HIDE DEF cell
  <2>5. ASSUME NEW j \in DOMAIN names[m]
        PROVE  value'[names[m][j].value] = value[names[m][j].value]
    <3>1. names[m][j].value \in CellsOf(names[m])
      BY DEF CellsOf
    <3>2. names[m][j].value \in Cell
      BY <2>1, <3>1, CellsOfSequence
    <3>3. names[m][j].value # cell
      BY <2>3, <2>4, <3>1
    <3>4. QED BY <2>1, <2>2, <3>2, <3>3
  <2>6. m \in Live'
    BY <2>2 DEF Live
  <2>7. Contents(m)' = Contents(m)
    BY <2>2, <2>5 DEF Contents
  <2>8. QED BY <2>6, <2>7
<1>2. QED BY <1>1, NamesInvariance, PTL

----------------------------------------------------------------------------
(* Numbers as segments *)

(* The value of bytes is what the loop over them has in the end.           *)
LEMMA ValueOf ==
    ASSUME NEW bytes \in Seq(Byte)
    PROVE  \E r \in [0 .. Len(bytes) -> Nat] :
              /\ r[0] = 0
              /\ \A i \in 1 .. Len(bytes) :
                    r[i] = (r[i - 1] * Base + bytes[i]) % Power[NumberBytes]
              /\ NumberValue(bytes) = r[Len(bytes)]
<1> DEFINE n == Len(bytes)
           Next1(i, s) == (s * Base + bytes[i]) % Power[NumberBytes]
           step == [p \in Nat \X Nat |-> IF p[1] \in 1 .. n THEN Next1(p[1], p[2]) ELSE 0]
           Step(f) == f = [i \in 0 .. n |-> IF i = 0 THEN 0 ELSE Next1(i, f[i - 1])]
           result == CHOOSE f : Step(f)
<1>1. n \in Nat /\ NumberBytes \in Nat /\ Base \in Nat /\ \A i \in 1 .. n : bytes[i] \in Nat
  <2>1. \A i \in 1 .. n : bytes[i] \in Byte
    OBVIOUS
  <2>2. QED BY <2>1, NamesAssumption DEF Byte
<1>2. Power[NumberBytes] \in Nat \ {0}
  BY <1>1, Powers
<1>3. ASSUME NEW i \in 1 .. n, NEW s \in Nat PROVE Next1(i, s) \in Nat
  <2>1. s * Base \in Nat
    BY <1>1
  <2>2. s * Base + bytes[i] \in Nat
    BY <1>1, <2>1
  <2> DEFINE a == s * Base + bytes[i]
             b == Power[NumberBytes]
  <2> HIDE DEF a, b
  <2>3. a % b \in 0 .. b - 1
    BY <1>2, <2>2, Division DEF a, b
  <2>4. a % b \in Nat
    BY <2>3
  <2>5. QED BY <2>4 DEF a, b
<1>4. NumberValue(bytes) = result[n]
  BY DEF NumberValue
<1> HIDE DEF Next1, n
<1>5. step \in [Nat \X Nat -> Nat]
  <2>1. \A p \in Nat \X Nat : p[1] \in Nat /\ p[2] \in Nat
    OBVIOUS
  <2>2. QED BY <1>3, <2>1
<1>6. \A i \in 1 .. n, s \in Nat : step[<<i, s>>] = Next1(i, s)
  <2>1. \A i \in 1 .. n : i \in Nat
    BY <1>1
  <2>2. QED BY <2>1
<1> HIDE DEF step
<1>7. PICK f \in [0 .. n -> Nat] : Follows(f, n, 0, step)
  BY <1>1, <1>5, Recursion
<1>8. f[0] = 0 /\ \A i \in 1 .. n : i # 0 /\ f[i] = Next1(i, f[i - 1])
  <2>1. \A i \in 1 .. n : f[i] = step[<<i, f[i - 1]>>] /\ i - 1 \in 0 .. n /\ i # 0
    BY <1>1, <1>7 DEF Follows
  <2>2. QED BY <1>6, <1>7, <2>1 DEF Follows
<1>9. Step(f)
  <2>1. ASSUME NEW i \in 0 .. n PROVE f[i] = IF i = 0 THEN 0 ELSE Next1(i, f[i - 1])
    <3>1. i # 0 => i \in 1 .. n
      BY <1>1
    <3>2. QED BY <1>8, <3>1
  <2>2. QED BY <1>7, <2>1
<1>10. Step(result)
  BY <1>9
<1> HIDE DEF result
<1>11. /\ result[0] = 0
       /\ \A i \in 1 .. n : result[i] = Next1(i, result[i - 1])
  <2>1. 0 \in 0 .. n /\ \A i \in 1 .. n : i \in 0 .. n /\ i # 0
    BY <1>1
  <2>2. QED BY <1>10, <2>1
<1>12. \A i \in Nat : i <= n => result[i] = f[i]
  <2> DEFINE T == {i \in Nat : i <= n => result[i] = f[i]}
  <2>1. 0 \in T
    BY <1>8, <1>11
  <2>2. ASSUME NEW i \in Nat, i \in T PROVE i + 1 \in T
    <3> SUFFICES ASSUME i + 1 <= n PROVE result[i + 1] = f[i + 1]
      OBVIOUS
    <3>1. i + 1 \in 1 .. n /\ (i + 1) - 1 = i /\ i <= n
      BY <1>1
    <3>2. result[i + 1] = Next1(i + 1, result[i]) /\ f[i + 1] = Next1(i + 1, f[i])
      BY <3>1, <1>8, <1>11
    <3>3. QED BY <2>2, <3>1, <3>2
  <2>3. QED BY <2>1, <2>2, Induction
<1>13. NumberValue(bytes) = f[n]
  BY <1>1, <1>4, <1>12
<1>14. QED BY <1>7, <1>8, <1>13 DEF n, Next1

LEMMA ShiftedOnce ==
    ASSUME NEW n \in Nat, NEW k \in 1 .. NumberBytes
    PROVE  /\ Shifted(n, k) \in Nat /\ Shifted(n, k - 1) \in Nat
           /\ Shifted(n, k - 1) = Shifted(n, k) \div Base
           /\ Shifted(n, k) = Base * Shifted(n, k - 1) + Digits(n)[k]
           /\ Digits(n)[k] \in 0 .. Base - 1
<1> DEFINE a == Power[NumberBytes - k]
           b == Power[NumberBytes - (k - 1)]
<1>1. Base \in Nat \ {0} /\ NumberBytes \in Nat
  BY NamesAssumption
<1>2. /\ NumberBytes - (k - 1) \in 1 .. NumberBytes /\ NumberBytes - k \in 0 .. NumberBytes
      /\ (NumberBytes - (k - 1)) - 1 = NumberBytes - k
  BY <1>1
<1>3. a \in Nat \ {0} /\ b = Base * a
  BY <1>2, Powers
<1> HIDE DEF a, b
<1>4. n \div a \in Nat /\ n \div b = (n \div a) \div Base
  BY <1>1, <1>3, Division, DivisionTwice
<1>5. /\ (n \div a) \div Base \in Nat /\ (n \div a) % Base \in 0 .. Base - 1
      /\ n \div a = Base * ((n \div a) \div Base) + ((n \div a) % Base)
  BY <1>1, <1>4, Division
<1>6. Shifted(n, k) = n \div a /\ Shifted(n, k - 1) = n \div b
  BY DEF Shifted, a, b
<1>7. Digits(n)[k] = Shifted(n, k) % Base
  BY DigitsOf
<1>8. QED BY <1>4, <1>5, <1>6, <1>7

LEMMA ShiftedEnds ==
    ASSUME NEW n \in 0 .. Power[NumberBytes] - 1
    PROVE  /\ Shifted(n, 0) = 0 /\ Shifted(n, NumberBytes) = n
           /\ \A k \in 0 .. NumberBytes : Shifted(n, k) \in 0 .. Power[NumberBytes] - 1
<1> DEFINE top == Power[NumberBytes]
<1>1. NumberBytes \in Nat /\ top \in Nat \ {0} /\ n \in Nat /\ Power[0] = 1
  <2>1. NumberBytes \in Nat
    BY NamesAssumption
  <2>2. top \in Nat \ {0}
    BY <2>1, Powers
  <2>3. QED BY <2>1, <2>2, Powers
<1>2. Shifted(n, 0) = 0
  <2>1. NumberBytes - 0 = NumberBytes
    BY <1>1
  <2>2. n = top * 0 + n /\ n \in 0 .. top - 1
    BY <1>1
  <2> HIDE DEF top
  <2>3. n \div top = 0
    BY <1>1, <2>2, DivisionIs
  <2>4. QED BY <2>1, <2>3 DEF Shifted, top
<1>3. Shifted(n, NumberBytes) = n
  <2>1. NumberBytes - NumberBytes = 0
    BY <1>1
  <2>2. n \div 1 = n
    BY <1>1
  <2>3. QED BY <1>1, <2>1, <2>2 DEF Shifted
<1>4. ASSUME NEW k \in 0 .. NumberBytes PROVE Shifted(n, k) \in 0 .. top - 1
  <2> DEFINE a == Power[NumberBytes - k]
             q == n \div a
             r == n % a
  <2>1. a \in Nat \ {0}
    <3>1. NumberBytes - k \in 0 .. NumberBytes
      BY <1>1
    <3>2. QED BY <3>1, Powers
  <2> HIDE DEF a, top
  <2>2. q \in Nat /\ r \in Nat /\ n = a * q + r
    <3>1. r \in 0 .. a - 1 /\ q \in Nat /\ n = a * q + r
      BY <1>1, <2>1, Division
    <3>2. QED BY <2>1, <3>1
  <2> HIDE DEF q, r
  <2>3. q <= a * q
    BY <2>1, <2>2
  <2>4. a * q \in Nat /\ n <= top - 1
    BY <2>1, <2>2 DEF top
  <2>5. q \in 0 .. top - 1
    BY <1>1, <2>2, <2>3, <2>4
  <2>6. QED BY <2>5 DEF q, a, Shifted
<1>5. QED BY <1>2, <1>3, <1>4

(* A number is the value of its bytes.                                     *)
LEMMA NumberReadBack ==
    ASSUME NEW n \in 0 .. Power[NumberBytes] - 1
    PROVE  NumberValue(NumberToBytes(n)) = n
<1> DEFINE first == FirstDigit(n)
           bytes == NumberToBytes(n)
           size == (NumberBytes - first) + 1
           top == Power[NumberBytes]
           At(k) == Shifted(n, k)
<1>1. NumberBytes \in Nat /\ n \in Nat /\ Base \in Nat \ {0} /\ top \in Nat \ {0}
  <2>1. NumberBytes \in Nat /\ Base \in Nat \ {0}
    BY NamesAssumption
  <2>2. top \in Nat \ {0}
    BY <2>1, Powers
  <2>3. QED BY <2>1, <2>2
<1>2. /\ first \in 1 .. NumberBytes
      /\ \A i \in 1 .. first - 1 : Digits(n)[i] = 0
      /\ bytes \in Seq(Byte) /\ Len(bytes) = size
      /\ \A j \in 1 .. size : bytes[j] = Digits(n)[(first - 1) + j]
  BY <1>1, DigitsOf
<1>3. PICK r \in [0 .. size -> Nat] :
            /\ r[0] = 0
            /\ \A i \in 1 .. size : r[i] = (r[i - 1] * Base + bytes[i]) % top
            /\ NumberValue(bytes) = r[size]
  BY <1>2, ValueOf
<1>4. At(0) = 0 /\ At(NumberBytes) = n /\ \A k \in 0 .. NumberBytes : At(k) \in 0 .. top - 1
  BY ShiftedEnds
<1>5. \A k \in 1 .. NumberBytes : At(k) = Base * At(k - 1) + Digits(n)[k]
  BY <1>1, ShiftedOnce
<1> HIDE DEF first, bytes, top, At, size
<1>6. size \in Nat /\ size = (NumberBytes - first) + 1
  BY <1>1, <1>2 DEF size
<1>7. \A k \in Nat : k < first => At(k) = 0
  <2> DEFINE T == {k \in Nat : k < first => At(k) = 0}
  <2>1. 0 \in T
    BY <1>4
  <2>2. ASSUME NEW k \in Nat, k \in T PROVE k + 1 \in T
    <3> SUFFICES ASSUME k + 1 < first PROVE At(k + 1) = 0
      OBVIOUS
    <3>1. /\ k + 1 \in 1 .. NumberBytes /\ k + 1 \in 1 .. first - 1
          /\ (k + 1) - 1 = k /\ k < first
      BY <1>1, <1>2
    <3>2. At(k + 1) = Base * At(k) + 0 /\ At(k) = 0
      BY <1>2, <1>5, <2>2, <3>1
    <3>3. QED BY <1>1, <3>2
  <2>3. QED BY <2>1, <2>2, Induction
<1>8. \A j \in Nat : j <= size => r[j] = At((first - 1) + j)
  <2> DEFINE T == {j \in Nat : j <= size => r[j] = At((first - 1) + j)}
  <2>1. 0 \in T
    <3>1. (first - 1) + 0 = first - 1 /\ first - 1 \in Nat /\ first - 1 < first
      BY <1>1, <1>2
    <3>2. QED BY <1>3, <1>7, <3>1
  <2>2. ASSUME NEW j \in Nat, j \in T PROVE j + 1 \in T
    <3> SUFFICES ASSUME j + 1 <= size PROVE r[j + 1] = At((first - 1) + (j + 1))
      OBVIOUS
    <3> DEFINE k == (first - 1) + (j + 1)
               l == (first - 1) + j
    <3>1. /\ j + 1 \in 1 .. size /\ (j + 1) - 1 = j /\ j <= size
          /\ k \in 1 .. NumberBytes /\ k - 1 = l /\ k \in 0 .. NumberBytes /\ l \in 0 .. NumberBytes
      BY <1>1, <1>2, <1>6
    <3>2. bytes[j + 1] = Digits(n)[k] /\ r[j] = At(l)
      BY <1>2, <2>2, <3>1 DEF size
    <3>3. r[j + 1] = (At(l) * Base + Digits(n)[k]) % top
      BY <1>3, <3>1, <3>2
    <3>4. At(k) = Base * At(l) + Digits(n)[k] /\ At(k) \in 0 .. top - 1 /\ At(l) \in Nat
      BY <1>1, <1>4, <1>5, <3>1
    <3> HIDE DEF k, l
    <3>5. At(l) * Base + Digits(n)[k] = At(k)
      BY <1>1, <3>4
    <3>6. At(k) % top = At(k)
      <4> DEFINE v == At(k)
      <4>1. v \in Nat /\ v = top * 0 + v /\ v \in 0 .. top - 1
        BY <1>1, <3>4
      <4> HIDE DEF v
      <4>2. v % top = v
        BY <1>1, <4>1, DivisionIs
      <4>3. QED BY <4>2 DEF v
    <3>7. QED BY <3>3, <3>5, <3>6 DEF k
  <2>3. QED BY <2>1, <2>2, Induction
<1>9. r[size] = At((first - 1) + size) /\ (first - 1) + size = NumberBytes
  BY <1>1, <1>2, <1>6, <1>8
<1>10. QED BY <1>3, <1>4, <1>9 DEF bytes

LEMMA PowersGrow ==
    ASSUME NEW i \in 0 .. NumberBytes, NEW j \in i .. NumberBytes
    PROVE  Power[i] <= Power[j]
<1>1. NumberBytes \in Nat /\ Base \in Nat \ {0}
  BY NamesAssumption
<1> DEFINE T == {d \in Nat : i + d <= NumberBytes => Power[i] <= Power[i + d]}
<1>2. 0 \in T
  <2>1. i + 0 = i /\ Power[i] \in Nat
    BY <1>1, Powers
  <2>2. QED BY <2>1
<1>3. ASSUME NEW d \in Nat, d \in T PROVE d + 1 \in T
  <2> SUFFICES ASSUME i + (d + 1) <= NumberBytes PROVE Power[i] <= Power[i + (d + 1)]
    OBVIOUS
  <2> DEFINE k == i + (d + 1)
             a == Power[i]
             b == Power[i + d]
  <2>1. k \in 1 .. NumberBytes /\ k - 1 = i + d /\ i + d \in 0 .. NumberBytes /\ i + d <= NumberBytes
    BY <1>1
  <2>2. Power[k] = Base * b /\ a \in Nat /\ b \in Nat /\ a <= b
    BY <1>3, <2>1, Powers
  <2> HIDE DEF k, a, b
  <2>3. b <= Base * b /\ Base * b \in Nat
    BY <1>1, <2>2
  <2>4. a <= Power[k]
    BY <2>2, <2>3
  <2>5. QED BY <2>4 DEF a, k
<1> DEFINE d == j - i
<1>4. d \in Nat /\ i + d = j /\ j <= NumberBytes
  BY <1>1
<1> HIDE DEF T, d
<1>5. d \in T
  BY <1>2, <1>3, <1>4, Induction
<1>6. QED BY <1>4, <1>5 DEF T

(* What a loop over not too many bytes has after each of them: nothing is  *)
(* ever lost of it.                                                        *)
Accumulated(bytes, r) ==
    /\ r \in [0 .. Len(bytes) -> Nat] /\ r[0] = 0
    /\ \A i \in 1 .. Len(bytes) : r[i] = r[i - 1] * Base + bytes[i]
    /\ \A i \in 0 .. Len(bytes) : r[i] <= Power[i] - 1
    /\ NumberValue(bytes) = r[Len(bytes)]

LEMMA ValueAccumulated ==
    ASSUME NEW bytes \in Seq(Byte), Len(bytes) <= NumberBytes
    PROVE  \E r : Accumulated(bytes, r)
<1> DEFINE n == Len(bytes)
           top == Power[NumberBytes]
<1>1. /\ NumberBytes \in Nat /\ Base \in Nat \ {0} /\ n \in Nat /\ n <= NumberBytes
      /\ \A i \in 1 .. n : bytes[i] \in 0 .. Base - 1
  BY NamesAssumption DEF Byte
<1>2. PICK r \in [0 .. n -> Nat] :
            /\ r[0] = 0
            /\ \A i \in 1 .. n : r[i] = (r[i - 1] * Base + bytes[i]) % top
            /\ NumberValue(bytes) = r[n]
  BY ValueOf
<1> DEFINE Good(i) == r[i] <= Power[i] - 1 /\ (i # 0 => r[i] = r[i - 1] * Base + bytes[i])
<1>3. \A i \in Nat : i <= n => Good(i)
  <2> DEFINE T == {i \in Nat : i <= n => Good(i)}
  <2>1. 0 \in T
    BY <1>2, Powers
  <2>2. ASSUME NEW i \in Nat, i \in T PROVE i + 1 \in T
    <3> SUFFICES ASSUME i + 1 <= n PROVE Good(i + 1)
      OBVIOUS
    <3> DEFINE s == r[i]
               b == bytes[i + 1]
               p == Power[i]
               q == Power[i + 1]
               sum == s * Base + b
    <3>1. /\ i + 1 \in 1 .. n /\ (i + 1) - 1 = i /\ i <= n /\ i \in 0 .. n
          /\ i + 1 \in 1 .. NumberBytes /\ i \in 0 .. NumberBytes
          /\ i + 1 \in 0 .. NumberBytes /\ NumberBytes \in i + 1 .. NumberBytes
          /\ NumberBytes \in 0 .. NumberBytes
      BY <1>1
    <3>2. s \in Nat /\ b \in 0 .. Base - 1 /\ s <= p - 1
      BY <1>1, <1>2, <2>2, <3>1
    <3>3. p \in Nat \ {0} /\ q = Base * p /\ q <= top /\ top \in Nat \ {0} /\ q \in Nat
      BY <3>1, Powers, PowersGrow
    <3>4. r[i + 1] = sum % top
      BY <1>2, <3>1
    <3> HIDE DEF s, b, p, q, top
    <3>5. Base * s + Base <= Base * p
      BY <1>1, <3>2, <3>3, Multiples
    <3>6. s * Base = Base * s /\ s * Base \in Nat
      BY <1>1, <3>2
    <3>7. sum \in 0 .. q - 1
      <4> DEFINE m == s * Base
      <4>1. m + Base <= q /\ m \in Nat
        BY <3>3, <3>5, <3>6
      <4>2. sum = m + b
        OBVIOUS
      <4> HIDE DEF m, sum
      <4>3. QED BY <1>1, <3>2, <3>3, <4>1, <4>2
    <3> HIDE DEF sum
    <3>8. sum \in 0 .. top - 1 /\ sum \in Nat /\ sum = top * 0 + sum
      BY <3>3, <3>7
    <3>9. sum % top = sum
      BY <3>3, <3>8, DivisionIs
    <3>10. r[i + 1] = sum /\ r[i + 1] <= q - 1
      BY <3>3, <3>4, <3>7, <3>9
    <3>11. QED BY <3>1, <3>10 DEF sum, s, b, q
  <2>3. QED BY <2>1, <2>2, Induction
<1> HIDE DEF n
<1>4. \A i \in 0 .. n : Good(i)
  BY <1>1, <1>3
<1>5. Accumulated(bytes, r)
  <2>1. \A i \in 1 .. n : i \in 0 .. n /\ i # 0
    BY <1>1
  <2>2. QED BY <1>2, <1>4, <2>1 DEF Accumulated, n
<1>6. QED BY <1>5

(* Bytes without leading zeros are the bytes of their value.               *)
LEMMA BytesReadBack ==
    ASSUME NEW bytes \in Seq(Byte), Canonical(bytes)
    PROVE  NumberToBytes(NumberValue(bytes)) = bytes
<1> DEFINE n == Len(bytes)
           v == NumberValue(bytes)
           all == NumberBytes
           before == all - n
           first == FirstDigit(v)
           back == NumberToBytes(v)
<1>1. /\ n \in 1 .. all /\ all \in Nat /\ Base \in Nat \ {0} /\ (bytes[1] = 0 => n = 1)
      /\ \A i \in 1 .. n : bytes[i] \in 0 .. Base - 1
  BY NamesAssumption DEF Canonical, Byte
<1>2. PICK r : Accumulated(bytes, r)
  BY <1>1, ValueAccumulated
<1>3. /\ r \in [0 .. n -> Nat] /\ r[0] = 0 /\ v = r[n]
      /\ \A i \in 1 .. n : r[i] = r[i - 1] * Base + bytes[i]
      /\ \A i \in 0 .. n : r[i] <= Power[i] - 1
  BY <1>2 DEF Accumulated
<1> HIDE DEF v
<1>4. v \in Nat
  BY <1>1, <1>3
<1>5. ASSUME NEW i \in 1 .. n PROVE r[i] \div Base = r[i - 1] /\ r[i] % Base = bytes[i]
  <2> DEFINE s == r[i - 1]
             b == bytes[i]
             t == r[i]
  <2>1. s \in Nat /\ b \in 0 .. Base - 1 /\ t = s * Base + b /\ t \in Nat
    BY SMTT(30), <1>1, <1>3
  <2> HIDE DEF s, b, t
  <2>2. t = Base * s + b
    BY <1>1, <2>1
  <2>3. t \div Base = s /\ t % Base = b
    BY <1>1, <2>1, <2>2, DivisionIs
  <2>4. QED BY <2>3 DEF s, b, t
<1> HIDE DEF n, all
<1>6. \A d \in Nat : d <= n => v \div Power[d] = r[n - d]
  <2> DEFINE T == {d \in Nat : d <= n => v \div Power[d] = r[n - d]}
  <2>1. 0 \in T
    <3>1. n - 0 = n /\ v \div 1 = v
      BY <1>1, <1>4
    <3>2. QED BY <1>3, <3>1, Powers
  <2>2. ASSUME NEW d \in Nat, d \in T PROVE d + 1 \in T
    <3> SUFFICES ASSUME d + 1 <= n PROVE v \div Power[d + 1] = r[n - (d + 1)]
      OBVIOUS
    <3> DEFINE p == Power[d]
    <3>1. /\ d + 1 \in 1 .. all /\ (d + 1) - 1 = d /\ d \in 0 .. all /\ d <= n
          /\ n - d \in 1 .. n /\ (n - d) - 1 = n - (d + 1)
      BY <1>1
    <3>2. p \in Nat \ {0} /\ Power[d + 1] = Base * p
      BY <3>1, Powers DEF all
    <3>3. v \div p = r[n - d]
      BY <2>2, <3>1
    <3> HIDE DEF p
    <3>4. v \div (Base * p) = (v \div p) \div Base
      BY <1>1, <1>4, <3>2, DivisionTwice
    <3>5. QED BY <1>5, <3>1, <3>2, <3>3, <3>4
  <2>3. QED BY <2>1, <2>2, Induction
<1>7. ASSUME NEW i \in 1 .. n PROVE Digits(v)[before + i] = bytes[i]
  <2> DEFINE k == before + i
             d == all - k
  <2>1. k \in 1 .. all /\ d \in Nat /\ d <= n /\ n - d = i
    BY <1>1
  <2>2. Digits(v)[k] = Shifted(v, k) % Base
    BY <1>4, <2>1, DigitsOf DEF all
  <2>3. Shifted(v, k) = r[i]
    BY <1>6, <2>1 DEF Shifted, all
  <2>4. QED BY <1>5, <2>2, <2>3
<1>8. ASSUME NEW k \in 1 .. before PROVE Digits(v)[k] = 0
  <2> DEFINE p == Power[all - k]
  <2>1. k \in 1 .. all /\ all - k \in n .. all /\ n \in 0 .. all /\ all - k \in 0 .. all
    BY <1>1
  <2>2. p \in Nat \ {0} /\ Power[n] <= p /\ Power[n] \in Nat
    BY <2>1, Powers, PowersGrow DEF all
  <2>3. n \in 0 .. n
    BY <1>1
  <2>4. v <= Power[n] - 1
    BY <1>3, <2>3
  <2> HIDE DEF p
  <2>5. v \in 0 .. p - 1 /\ v = p * 0 + v
    BY <1>4, <2>2, <2>4
  <2>6. v \div p = 0
    BY <1>4, <2>2, <2>5, DivisionIs
  <2>7. Shifted(v, k) = 0
    BY <2>6 DEF Shifted, p, all
  <2>8. 0 = Base * 0 + 0 /\ 0 \in 0 .. Base - 1
    BY <1>1
  <2>9. 0 % Base = 0
    BY <1>1, <2>8, DivisionIs
  <2>10. QED BY <1>4, <2>1, <2>7, <2>9, DigitsOf DEF all
<1>9. /\ first \in 1 .. all
      /\ \A i \in 1 .. first - 1 : Digits(v)[i] = 0
      /\ Digits(v)[first] # 0 \/ first = all
      /\ back \in Seq(Byte)
      /\ Len(back) = (all - first) + 1
      /\ \A j \in 1 .. (all - first) + 1 : back[j] = Digits(v)[(first - 1) + j]
  BY <1>4, DigitsOf DEF all
<1> HIDE DEF first, back
<1>10. first = before + 1
  <2>1. ~(first <= before)
    <3> SUFFICES ASSUME first <= before PROVE FALSE
      OBVIOUS
    <3>1. first \in 1 .. before /\ first # all
      BY <1>1, <1>9
    <3>2. QED BY <1>8, <1>9, <3>1
  <2>2. ~(first > before + 1)
    <3> SUFFICES ASSUME first > before + 1 PROVE FALSE
      OBVIOUS
    <3>1. before + 1 \in 1 .. first - 1 /\ n # 1 /\ 1 \in 1 .. n
      BY <1>1, <1>9
    <3>2. bytes[1] = 0
      BY <1>7, <1>9, <3>1
    <3>3. QED BY <1>1, <3>1, <3>2
  <2>3. QED BY <1>1, <1>9, <2>1, <2>2
<1>11. Len(back) = n /\ \A j \in 1 .. n : back[j] = bytes[j]
  <2>1. (all - first) + 1 = n /\ first - 1 = before
    BY <1>1, <1>10
  <2>2. QED BY <1>7, <1>9, <2>1
<1>12. back = bytes
  BY <1>9, <1>11, SeqEqual DEF n
<1>13. QED BY <1>12 DEF back, v

----------------------------------------------------------------------------
(* The order of segments and of names *)

LEMMA Signs ==
    ASSUME NEW i \in Int
    PROVE  /\ Sign(i) \in {-1, 0, 1} /\ Sign(-i) = -Sign(i)
           /\ (Sign(i) < 0 <=> i < 0) /\ (Sign(i) = 0 <=> i = 0) /\ (Sign(i) <= 0 <=> i <= 0)
           /\ (i < 0 <=> Sign(i) = -1) /\ (i > 0 <=> Sign(i) = 1)
BY DEF Sign

(* Up to k, two byte strings are the same.                                 *)
SameUpTo(a, b, k) == \A j \in 1 .. k : a[j] = b[j]

LEMMA BytesDiffer ==
    ASSUME NEW a \in Seq(Byte), NEW b \in Seq(Byte), Len(a) = Len(b),
           NEW i \in 1 .. Len(a), SameUpTo(a, b, i - 1), a[i] # b[i]
    PROVE  CompareBytes(a, b) = Sign(a[i] - b[i])
<1> DEFINE different == {j \in DOMAIN a : a[j] # b[j]}
<1>1. i \in different /\ different \in SUBSET Nat /\ different # {}
  OBVIOUS
<1>2. \A j \in different : i <= j
  <2> SUFFICES ASSUME NEW j \in different, ~(i <= j) PROVE FALSE
    OBVIOUS
  <2>1. j \in 1 .. i - 1
    OBVIOUS
  <2>2. QED BY <2>1 DEF SameUpTo
<1>3. CompareBytes(a, b) = IF different = {} THEN 0
                           ELSE Sign(a[Min(different)] - b[Min(different)])
  BY DEF CompareBytes
<1> HIDE DEF different
<1>4. Min(different) \in different /\ \A k \in different : Min(different) <= k
  BY <1>1, MinOfNumbers
<1>5. Min(different) = i
  <2> DEFINE m == Min(different)
  <2>1. m \in Nat /\ m <= i /\ i <= m
    BY <1>1, <1>2, <1>4
  <2> HIDE DEF m
  <2>2. m = i
    BY <2>1
  <2>3. QED BY <2>2 DEF m
<1>6. QED BY <1>1, <1>3, <1>5

LEMMA BytesSame ==
    ASSUME NEW a \in Seq(Byte)
    PROVE  CompareBytes(a, a) = 0
BY DEF CompareBytes

LEMMA FirstDifference ==
    ASSUME NEW a \in Seq(Byte), NEW b \in Seq(Byte), Len(a) = Len(b), a # b
    PROVE  \E i \in 1 .. Len(a) : SameUpTo(a, b, i - 1) /\ a[i] # b[i]
<1> DEFINE different == {j \in 1 .. Len(a) : a[j] # b[j]}
<1>1. different # {}
  <2> SUFFICES ASSUME different = {} PROVE FALSE
    OBVIOUS
  <2>1. \A j \in 1 .. Len(a) : a[j] = b[j]
    OBVIOUS
  <2>2. a = b
    BY <2>1, SeqEqual
  <2>3. QED BY <2>2
<1>2. different \in SUBSET Nat
  OBVIOUS
<1> HIDE DEF different
<1>3. PICK i \in different : \A k \in different : i <= k
  BY <1>1, <1>2, LeastExists
<1>4. i \in 1 .. Len(a) /\ a[i] # b[i]
  BY DEF different
<1>5. SameUpTo(a, b, i - 1)
  <2> SUFFICES ASSUME NEW j \in 1 .. i - 1, a[j] # b[j] PROVE FALSE
    BY DEF SameUpTo
  <2>1. j \in 1 .. Len(a) /\ ~(i <= j)
    BY <1>4
  <2>2. QED BY <1>3, <2>1 DEF different
<1>6. QED BY <1>4, <1>5

(* Byte strings are in order: shorter ones first, and else as they differ. *)
LEMMA SegmentsInOrder ==
    ASSUME NEW s \in Content, NEW t \in Content
    PROVE  /\ CompareSegments(s, t) \in {-1, 0, 1}
           /\ CompareSegments(s, t) = 0 <=> s.bytes = t.bytes
           /\ CompareSegments(s, t) = - CompareSegments(t, s)
<1> DEFINE a == s.bytes
           b == t.bytes
<1>1. a \in Seq(Byte) /\ b \in Seq(Byte) /\ Len(a) \in Nat /\ Len(b) \in Nat
  BY DEF Content
<1>2. /\ CompareSegments(s, t) = IF Len(a) # Len(b) THEN Sign(Len(a) - Len(b)) ELSE CompareBytes(a, b)
      /\ CompareSegments(t, s) = IF Len(b) # Len(a) THEN Sign(Len(b) - Len(a)) ELSE CompareBytes(b, a)
  BY DEF CompareSegments
<1> HIDE DEF a, b
<1>3. CASE Len(a) # Len(b)
  <2> DEFINE d == Len(a) - Len(b)
  <2>1. d \in Int /\ Len(b) - Len(a) = -d /\ d # 0
    BY <1>1, <1>3
  <2>2. CompareSegments(s, t) = Sign(d) /\ CompareSegments(t, s) = Sign(-d) /\ a # b
    BY <1>2, <1>3, <2>1
  <2> HIDE DEF d
  <2>3. Sign(d) \in {-1, 0, 1} /\ Sign(-d) = -Sign(d) /\ Sign(d) # 0
    BY <2>1, Signs
  <2>4. QED BY <2>2, <2>3 DEF a, b
<1>4. CASE Len(a) = Len(b) /\ a = b
  BY <1>1, <1>2, <1>4, BytesSame DEF a, b
<1>5. CASE Len(a) = Len(b) /\ a # b
  <2>1. PICK i \in 1 .. Len(a) : SameUpTo(a, b, i - 1) /\ a[i] # b[i]
    BY <1>1, <1>5, FirstDifference
  <2>2. SameUpTo(b, a, i - 1) /\ b[i] # a[i] /\ i \in 1 .. Len(b)
    BY <1>5, <2>1 DEF SameUpTo
  <2> DEFINE d == a[i] - b[i]
  <2>3. d \in Int /\ b[i] - a[i] = -d /\ d # 0
    <3>1. a[i] \in Byte /\ b[i] \in Byte
      BY <1>1, <2>1, <2>2
    <3>2. a[i] \in Int /\ b[i] \in Int
      BY <3>1 DEF Byte
    <3>3. QED BY <2>1, <3>2
  <2>4. CompareBytes(a, b) = Sign(d) /\ CompareBytes(b, a) = Sign(-d)
    BY <1>1, <1>5, <2>1, <2>2, <2>3, BytesDiffer
  <2> HIDE DEF d
  <2>5. Sign(d) \in {-1, 0, 1} /\ Sign(-d) = -Sign(d) /\ Sign(d) # 0
    BY <2>3, Signs
  <2>6. QED BY <1>2, <1>5, <2>4, <2>5 DEF a, b
<1>6. QED BY <1>3, <1>4, <1>5

LEMMA SegmentsTransitive ==
    ASSUME NEW s \in Content, NEW t \in Content, NEW u \in Content,
           CompareSegments(s, t) < 0, CompareSegments(t, u) < 0
    PROVE  CompareSegments(s, u) < 0
<1> DEFINE a == s.bytes
           b == t.bytes
           c == u.bytes
           Before(p, q) == \/ Len(p) < Len(q)
                           \/ /\ Len(p) = Len(q)
                              /\ \E i \in 1 .. Len(p) : SameUpTo(p, q, i - 1) /\ p[i] < q[i]
<1>1. /\ a \in Seq(Byte) /\ b \in Seq(Byte) /\ c \in Seq(Byte)
      /\ Len(a) \in Nat /\ Len(b) \in Nat /\ Len(c) \in Nat
  BY DEF Content
<1>2. ASSUME NEW p \in Seq(Byte), NEW i \in 1 .. Len(p) PROVE p[i] \in Int
  <2>1. p[i] \in Byte
    OBVIOUS
  <2>2. QED BY <2>1 DEF Byte
<1>3. ASSUME NEW v \in Content, NEW w \in Content
      PROVE  CompareSegments(v, w) < 0 <=> Before(v.bytes, w.bytes)
  <2> DEFINE p == v.bytes
             q == w.bytes
  <2>1. p \in Seq(Byte) /\ q \in Seq(Byte) /\ Len(p) \in Nat /\ Len(q) \in Nat
    BY DEF Content
  <2>2. CompareSegments(v, w) = IF Len(p) # Len(q) THEN Sign(Len(p) - Len(q)) ELSE CompareBytes(p, q)
    BY DEF CompareSegments
  <2> SUFFICES CompareSegments(v, w) < 0 <=> Before(p, q)
    OBVIOUS
  <2> HIDE DEF p, q
  <2>3. CASE Len(p) # Len(q)
    <3>1. Sign(Len(p) - Len(q)) < 0 <=> Len(p) - Len(q) < 0
      BY <2>1, Signs
    <3>2. QED BY <2>1, <2>2, <2>3, <3>1
  <2>4. CASE Len(p) = Len(q) /\ p = q
    <3>1. CompareBytes(p, q) = 0
      BY <2>1, <2>4, BytesSame
    <3>2. \A i \in 1 .. Len(p) : ~(p[i] < q[i])
      BY <1>2, <2>1, <2>4
    <3>3. QED BY <2>1, <2>2, <2>4, <3>1, <3>2
  <2>5. CASE Len(p) = Len(q) /\ p # q
    <3>1. ASSUME NEW i \in 1 .. Len(p), SameUpTo(p, q, i - 1), p[i] # q[i]
          PROVE  CompareSegments(v, w) < 0 <=> p[i] < q[i]
      <4>1. CompareBytes(p, q) = Sign(p[i] - q[i])
        BY <2>1, <2>5, <3>1, BytesDiffer
      <4>2. p[i] \in Int /\ q[i] \in Int
        BY <1>2, <2>1, <2>5
      <4> DEFINE d == p[i] - q[i]
      <4>3. d \in Int /\ (d < 0 <=> p[i] < q[i])
        BY <4>2
      <4> HIDE DEF d
      <4>4. Sign(d) < 0 <=> d < 0
        BY <4>3, Signs
      <4>5. QED BY <2>2, <2>5, <4>1, <4>3, <4>4 DEF d
    <3>2. PICK i \in 1 .. Len(p) : SameUpTo(p, q, i - 1) /\ p[i] # q[i]
      BY <2>1, <2>5, FirstDifference
    <3>3. CompareSegments(v, w) < 0 => Before(p, q)
      BY <2>5, <3>1, <3>2
    <3>4. Before(p, q) => CompareSegments(v, w) < 0
      <4> SUFFICES ASSUME NEW j \in 1 .. Len(p), SameUpTo(p, q, j - 1), p[j] < q[j]
                   PROVE  CompareSegments(v, w) < 0
        BY <2>1, <2>5
      <4>1. p[j] \in Int /\ q[j] \in Int
        BY <1>2, <2>1, <2>5
      <4>2. QED BY <3>1, <4>1
    <3>5. QED BY <3>3, <3>4
  <2>6. QED BY <2>3, <2>4, <2>5
<1>4. Before(a, b) /\ Before(b, c)
  BY <1>3
<1> SUFFICES Before(a, c)
  BY <1>3
<1> HIDE DEF a, b, c
<1>5. CASE Len(a) # Len(b) \/ Len(b) # Len(c)
  BY <1>1, <1>4, <1>5
<1>6. CASE Len(a) = Len(b) /\ Len(b) = Len(c)
  <2>1. PICK i \in 1 .. Len(a) : SameUpTo(a, b, i - 1) /\ a[i] < b[i]
    BY <1>1, <1>4, <1>6
  <2>2. PICK j \in 1 .. Len(b) : SameUpTo(b, c, j - 1) /\ b[j] < c[j]
    BY <1>1, <1>4, <1>6
  <2> DEFINE k == IF i <= j THEN i ELSE j
  <2>3. k \in 1 .. Len(a) /\ k <= i /\ k <= j /\ (k = i \/ k = j)
    BY <1>1, <1>6
  <2>4. SameUpTo(a, c, k - 1)
    <3> SUFFICES ASSUME NEW h \in 1 .. k - 1 PROVE a[h] = c[h]
      BY DEF SameUpTo
    <3>1. h \in 1 .. i - 1 /\ h \in 1 .. j - 1
      BY <2>3
    <3>2. QED BY <2>1, <2>2, <3>1 DEF SameUpTo
  <2>5. a[k] < c[k]
    <3>1. a[k] \in Int /\ b[k] \in Int /\ c[k] \in Int
      BY <1>1, <1>2, <1>6, <2>3
    <3>2. a[k] <= b[k]
      <4>1. k # i => k \in 1 .. i - 1
        BY <2>3
      <4>2. QED BY <2>1, <3>1, <4>1 DEF SameUpTo
    <3>3. b[k] <= c[k]
      <4>1. k # j => k \in 1 .. j - 1
        BY <2>3
      <4>2. QED BY <2>2, <3>1, <4>1 DEF SameUpTo
    <3>4. a[k] < b[k] \/ b[k] < c[k]
      BY <2>1, <2>2, <2>3
    <3>5. QED BY <3>1, <3>2, <3>3, <3>4
  <2> HIDE DEF k
  <2>6. QED BY <1>6, <2>3, <2>4, <2>5
<1>7. QED BY <1>5, <1>6

(* Up to k, two names have values that are the same.                       *)
AgreeUpTo(x, y, k) == \A j \in 1 .. k : x[j].bytes = y[j].bytes

Shorter(x, y) == IF Len(x) <= Len(y) THEN Len(x) ELSE Len(y)

LEMMA NamesDiffer ==
    ASSUME NEW x \in Seq(Content), NEW y \in Seq(Content),
           NEW i \in 1 .. Shorter(x, y), AgreeUpTo(x, y, i - 1), x[i].bytes # y[i].bytes
    PROVE  Compare(x, y) = CompareSegments(x[i], y[i])
<1> DEFINE common == 1 .. Min({Len(x), Len(y)})
           different == {j \in common : CompareSegments(x[j], y[j]) # 0}
<1>1. Len(x) \in Nat /\ Len(y) \in Nat /\ common = 1 .. Shorter(x, y)
  BY MinOfTwo DEF Shorter
<1>2. \A j \in common : x[j] \in Content /\ y[j] \in Content
  <2>1. ASSUME NEW j \in 1 .. Shorter(x, y) PROVE x[j] \in Content /\ y[j] \in Content
    BY DEF Shorter
  <2>2. QED BY <1>1, <2>1
<1>3. Compare(x, y) = IF different = {} THEN Sign(Len(x) - Len(y))
                      ELSE CompareSegments(x[Min(different)], y[Min(different)])
  BY DEF Compare
<1> HIDE DEF common
<1>4. different = {j \in common : x[j].bytes # y[j].bytes}
  BY <1>2, SegmentsInOrder
<1>5. i \in common /\ common \in SUBSET Nat
  BY <1>1
<1> HIDE DEF different
<1>6. i \in different /\ different \in SUBSET Nat /\ different # {}
  BY <1>4, <1>5
<1>7. \A j \in different : i <= j
  <2> SUFFICES ASSUME NEW j \in different, ~(i <= j) PROVE FALSE
    OBVIOUS
  <2>1. j \in 1 .. i - 1 /\ x[j].bytes # y[j].bytes
    BY <1>1, <1>4, <1>5
  <2>2. QED BY <2>1 DEF AgreeUpTo
<1>8. Min(different) \in different /\ \A k \in different : Min(different) <= k
  BY <1>6, MinOfNumbers
<1>9. Min(different) = i
  <2> DEFINE m == Min(different)
  <2>1. m \in Nat /\ m <= i /\ i <= m /\ i \in Nat
    BY <1>6, <1>7, <1>8
  <2> HIDE DEF m
  <2>2. m = i
    BY <2>1
  <2>3. QED BY <2>2 DEF m
<1>10. QED BY <1>3, <1>6, <1>9

LEMMA NamesAgree ==
    ASSUME NEW x \in Seq(Content), NEW y \in Seq(Content), AgreeUpTo(x, y, Shorter(x, y))
    PROVE  Compare(x, y) = Sign(Len(x) - Len(y))
<1> DEFINE common == 1 .. Min({Len(x), Len(y)})
           different == {j \in common : CompareSegments(x[j], y[j]) # 0}
<1>1. Len(x) \in Nat /\ Len(y) \in Nat /\ common = 1 .. Shorter(x, y)
  BY MinOfTwo DEF Shorter
<1>2. \A j \in common : x[j] \in Content /\ y[j] \in Content /\ x[j].bytes = y[j].bytes
  <2>1. ASSUME NEW j \in 1 .. Shorter(x, y) PROVE x[j] \in Content /\ y[j] \in Content
    BY DEF Shorter
  <2>2. QED BY <1>1, <2>1 DEF AgreeUpTo
<1>3. Compare(x, y) = IF different = {} THEN Sign(Len(x) - Len(y))
                      ELSE CompareSegments(x[Min(different)], y[Min(different)])
  BY DEF Compare
<1> HIDE DEF common
<1>4. different = {}
  BY <1>2, SegmentsInOrder
<1>5. QED BY <1>3, <1>4

LEMMA FirstSegmentThatDiffers ==
    ASSUME NEW x \in Seq(Content), NEW y \in Seq(Content), NEW k \in Nat, ~AgreeUpTo(x, y, k)
    PROVE  \E i \in 1 .. k : AgreeUpTo(x, y, i - 1) /\ x[i].bytes # y[i].bytes
<1> DEFINE different == {j \in 1 .. k : x[j].bytes # y[j].bytes}
<1>1. different # {} /\ different \in SUBSET Nat
  BY DEF AgreeUpTo
<1> HIDE DEF different
<1>2. PICK i \in different : \A j \in different : i <= j
  BY <1>1, LeastExists
<1>3. i \in 1 .. k /\ x[i].bytes # y[i].bytes
  BY DEF different
<1>4. AgreeUpTo(x, y, i - 1)
  <2> SUFFICES ASSUME NEW j \in 1 .. i - 1, x[j].bytes # y[j].bytes PROVE FALSE
    BY DEF AgreeUpTo
  <2>1. j \in 1 .. k /\ ~(i <= j)
    BY <1>3
  <2>2. QED BY <1>2, <2>1 DEF different
<1>5. QED BY <1>3, <1>4

(* The two ways a comparison can end *)
DifferAt(x, y, i) ==
    /\ i \in 1 .. Shorter(x, y) /\ AgreeUpTo(x, y, i - 1) /\ x[i].bytes # y[i].bytes
    /\ Compare(x, y) = CompareSegments(x[i], y[i])
AgreeAll(x, y) ==
    AgreeUpTo(x, y, Shorter(x, y)) /\ Compare(x, y) = Sign(Len(x) - Len(y))

LEMMA NamesCompared ==
    ASSUME NEW x \in Seq(Content), NEW y \in Seq(Content)
    PROVE  AgreeAll(x, y) \/ \E i \in 1 .. Shorter(x, y) : DifferAt(x, y, i)
<1>1. Shorter(x, y) \in Nat
  BY DEF Shorter
<1>2. CASE AgreeUpTo(x, y, Shorter(x, y))
  BY <1>2, NamesAgree DEF AgreeAll
<1>3. CASE ~AgreeUpTo(x, y, Shorter(x, y))
  <2>1. PICK i \in 1 .. Shorter(x, y) : AgreeUpTo(x, y, i - 1) /\ x[i].bytes # y[i].bytes
    BY <1>1, <1>3, FirstSegmentThatDiffers
  <2>2. QED BY <2>1, NamesDiffer DEF DifferAt
<1>4. QED BY <1>2, <1>3

LEMMA CompareAntisymmetric ==
    ASSUME NEW x \in Seq(Content), NEW y \in Seq(Content)
    PROVE  /\ Compare(x, y) \in {-1, 0, 1}
           /\ Compare(x, y) = - Compare(y, x)
           /\ Compare(x, y) = 0 <=> Len(x) = Len(y) /\ AgreeUpTo(x, y, Len(x))
<1>1. Len(x) \in Nat /\ Len(y) \in Nat /\ Shorter(x, y) = Shorter(y, x) /\ Shorter(x, y) \in Nat
  BY DEF Shorter
<1>2. CASE AgreeAll(x, y)
  <2> DEFINE d == Len(x) - Len(y)
  <2>1. d \in Int /\ Len(y) - Len(x) = -d /\ (d = 0 <=> Len(x) = Len(y))
    BY <1>1
  <2>2. AgreeUpTo(y, x, Shorter(y, x))
    BY <1>1, <1>2 DEF AgreeAll, AgreeUpTo
  <2>3. Compare(x, y) = Sign(d) /\ Compare(y, x) = Sign(-d)
    BY <1>2, <2>1, <2>2, NamesAgree DEF AgreeAll
  <2>4. Len(x) = Len(y) => AgreeUpTo(x, y, Len(x))
    BY <1>2 DEF AgreeAll, Shorter
  <2> HIDE DEF d
  <2>5. Sign(d) \in {-1, 0, 1} /\ Sign(-d) = -Sign(d) /\ (Sign(d) = 0 <=> d = 0)
    BY <2>1, Signs
  <2>6. QED BY <2>1, <2>3, <2>4, <2>5
<1>3. ASSUME NEW i \in 1 .. Shorter(x, y), DifferAt(x, y, i)
      PROVE  /\ Compare(x, y) \in {-1, 0, 1}
             /\ Compare(x, y) = - Compare(y, x)
             /\ Compare(x, y) = 0 <=> Len(x) = Len(y) /\ AgreeUpTo(x, y, Len(x))
  <2>1. x[i] \in Content /\ y[i] \in Content
    BY <1>1 DEF Shorter
  <2>2. AgreeUpTo(y, x, i - 1) /\ y[i].bytes # x[i].bytes /\ i \in 1 .. Shorter(y, x)
    BY <1>1, <1>3 DEF AgreeUpTo, DifferAt
  <2>3. Compare(y, x) = CompareSegments(y[i], x[i])
    BY <2>2, NamesDiffer
  <2>4. Compare(x, y) = CompareSegments(x[i], y[i]) /\ x[i].bytes # y[i].bytes
    BY <1>3 DEF DifferAt
  <2>5. ~(Len(x) = Len(y) /\ AgreeUpTo(x, y, Len(x)))
    <3>1. i \in 1 .. Len(x)
      BY <1>1 DEF Shorter
    <3>2. QED BY <2>4, <3>1 DEF AgreeUpTo
  <2>6. QED BY <2>1, <2>3, <2>4, <2>5, SegmentsInOrder
<1>4. QED BY <1>2, <1>3, NamesCompared

LEMMA CompareTransitive ==
    ASSUME NEW x \in Seq(Content), NEW y \in Seq(Content), NEW z \in Seq(Content),
           Compare(x, y) <= 0, Compare(y, z) <= 0
    PROVE  Compare(x, z) <= 0
<1>1. Len(x) \in Nat /\ Len(y) \in Nat /\ Len(z) \in Nat
  OBVIOUS
<1>2. ASSUME NEW i \in 1 .. Shorter(x, z), AgreeUpTo(x, z, i - 1),
             CompareSegments(x[i], z[i]) < 0
      PROVE  Compare(x, z) <= 0
  <2>1. x[i] \in Content /\ z[i] \in Content
    BY <1>1 DEF Shorter
  <2>2. CompareSegments(x[i], z[i]) # 0
    BY <1>2
  <2>3. x[i].bytes # z[i].bytes
    BY <2>1, <2>2, SegmentsInOrder
  <2>4. Compare(x, z) = CompareSegments(x[i], z[i]) /\ CompareSegments(x[i], z[i]) \in {-1, 0, 1}
    BY <1>2, <2>1, <2>3, NamesDiffer, SegmentsInOrder
  <2>5. QED BY <1>2, <2>4
<1>3. ASSUME NEW s \in Content, NEW t \in Content, NEW u \in Content
      PROVE  /\ t.bytes = u.bytes => CompareSegments(s, t) = CompareSegments(s, u)
             /\ s.bytes = t.bytes => CompareSegments(s, u) = CompareSegments(t, u)
  BY DEF CompareSegments
<1>4. ASSUME NEW a \in Seq(Content), NEW b \in Seq(Content), Compare(a, b) <= 0, AgreeAll(a, b)
      PROVE  Len(a) <= Len(b)
  <2> DEFINE d == Len(a) - Len(b)
  <2>1. d \in Int /\ Sign(d) <= 0
    BY <1>4 DEF AgreeAll
  <2> HIDE DEF d
  <2>2. d <= 0
    BY <2>1, Signs
  <2>3. QED BY <2>2 DEF d
<1>5. ASSUME NEW a \in Seq(Content), NEW b \in Seq(Content), Compare(a, b) <= 0,
             NEW i \in 1 .. Shorter(a, b), DifferAt(a, b, i)
      PROVE  a[i] \in Content /\ b[i] \in Content /\ CompareSegments(a[i], b[i]) < 0
  <2>1. a[i] \in Content /\ b[i] \in Content
    BY DEF Shorter
  <2>2. CompareSegments(a[i], b[i]) <= 0 /\ a[i].bytes # b[i].bytes
    BY <1>5 DEF DifferAt
  <2> DEFINE d == CompareSegments(a[i], b[i])
  <2>3. d \in {-1, 0, 1} /\ d # 0 /\ d <= 0
    BY <2>1, <2>2, SegmentsInOrder
  <2> HIDE DEF d
  <2>4. d < 0
    BY <2>3
  <2>5. QED BY <2>1, <2>4 DEF d
<1>6. CASE AgreeAll(x, y) /\ AgreeAll(y, z)
  <2>1. Len(x) <= Len(y) /\ Len(y) <= Len(z)
    BY <1>4, <1>6
  <2>2. AgreeUpTo(x, z, Shorter(x, z))
    BY <1>1, <1>6, <2>1 DEF AgreeAll, AgreeUpTo, Shorter
  <2>3. Compare(x, z) = Sign(Len(x) - Len(z)) /\ Len(x) - Len(z) <= 0 /\ Len(x) - Len(z) \in Int
    BY <1>1, <2>1, <2>2, NamesAgree
  <2> DEFINE d == Len(x) - Len(z)
  <2> HIDE DEF d
  <2>4. Sign(d) <= 0
    BY <2>3, Signs DEF d
  <2>5. QED BY <2>3, <2>4 DEF d
<1>7. ASSUME NEW i \in 1 .. Shorter(x, y), DifferAt(x, y, i), AgreeAll(y, z)
      PROVE  Compare(x, z) <= 0
  <2>1. Len(y) <= Len(z)
    BY <1>4, <1>7
  <2>2. i \in 1 .. Shorter(x, z) /\ i \in 1 .. Shorter(y, z)
    BY <1>1, <2>1 DEF Shorter
  <2>3. AgreeUpTo(x, z, i - 1) /\ y[i].bytes = z[i].bytes
    BY <1>1, <1>7, <2>2 DEF AgreeAll, AgreeUpTo, DifferAt, Shorter
  <2>4. x[i] \in Content /\ y[i] \in Content /\ CompareSegments(x[i], y[i]) < 0
    BY <1>5, <1>7
  <2>5. z[i] \in Content
    BY <1>1, <2>2 DEF Shorter
  <2>6. CompareSegments(x[i], z[i]) < 0
    BY <1>3, <2>3, <2>4, <2>5
  <2>7. QED BY <1>2, <2>2, <2>3, <2>6
<1>8. ASSUME NEW j \in 1 .. Shorter(y, z), DifferAt(y, z, j), AgreeAll(x, y)
      PROVE  Compare(x, z) <= 0
  <2>1. Len(x) <= Len(y)
    BY <1>4, <1>8
  <2>2. y[j] \in Content /\ z[j] \in Content /\ CompareSegments(y[j], z[j]) < 0
    BY <1>5, <1>8
  <2>3. CASE j <= Len(x)
    <3>1. j \in 1 .. Shorter(x, z) /\ j \in 1 .. Shorter(x, y)
      BY <1>1, <2>1, <2>3 DEF Shorter
    <3>2. AgreeUpTo(x, z, j - 1) /\ x[j].bytes = y[j].bytes
      BY <1>1, <1>8, <3>1 DEF AgreeAll, AgreeUpTo, DifferAt, Shorter
    <3>3. x[j] \in Content
      BY <1>1, <2>3
    <3>4. CompareSegments(x[j], z[j]) < 0
      BY <1>3, <2>2, <3>2, <3>3
    <3>5. QED BY <1>2, <3>1, <3>2, <3>4
  <2>4. CASE ~(j <= Len(x))
    <3>1. Shorter(x, z) = Len(x) /\ Shorter(x, y) = Len(x) /\ Len(x) - Len(z) <= 0 /\ Len(x) <= j - 1
      BY <1>1, <2>1, <2>4 DEF Shorter
    <3>2. AgreeUpTo(x, z, Shorter(x, z))
      BY <1>1, <1>8, <3>1 DEF AgreeAll, AgreeUpTo, DifferAt
    <3>3. Compare(x, z) = Sign(Len(x) - Len(z))
      BY <3>2, NamesAgree
    <3> DEFINE d == Len(x) - Len(z)
    <3>4. d \in Int /\ d <= 0
      BY <1>1, <3>1
    <3> HIDE DEF d
    <3>5. Sign(d) <= 0
      BY <3>4, Signs
    <3>6. QED BY <3>3, <3>5 DEF d
  <2>5. QED BY <2>3, <2>4
<1>9. ASSUME NEW i \in 1 .. Shorter(x, y), DifferAt(x, y, i),
             NEW j \in 1 .. Shorter(y, z), DifferAt(y, z, j)
      PROVE  Compare(x, z) <= 0
  <2>1. x[i] \in Content /\ y[i] \in Content /\ CompareSegments(x[i], y[i]) < 0
    BY <1>5, <1>9
  <2>2. y[j] \in Content /\ z[j] \in Content /\ CompareSegments(y[j], z[j]) < 0
    BY <1>5, <1>9
  <2>3. CASE i < j
    <3>1. i \in 1 .. Shorter(x, z) /\ i \in 1 .. j - 1
      BY <1>1, <2>3 DEF Shorter
    <3>2. AgreeUpTo(x, z, i - 1) /\ y[i].bytes = z[i].bytes
      BY <1>1, <1>9, <3>1 DEF AgreeUpTo, DifferAt
    <3>3. z[i] \in Content
      BY <1>1, <3>1 DEF Shorter
    <3>4. CompareSegments(x[i], z[i]) < 0
      BY <1>3, <2>1, <3>2, <3>3
    <3>5. QED BY <1>2, <3>1, <3>2, <3>4
  <2>4. CASE j < i
    <3>1. j \in 1 .. Shorter(x, z) /\ j \in 1 .. i - 1
      BY <1>1, <2>4 DEF Shorter
    <3>2. AgreeUpTo(x, z, j - 1) /\ x[j].bytes = y[j].bytes
      BY <1>1, <1>9, <3>1 DEF AgreeUpTo, DifferAt
    <3>3. x[j] \in Content
      BY <1>1, <3>1 DEF Shorter
    <3>4. CompareSegments(x[j], z[j]) < 0
      BY <1>3, <2>2, <3>2, <3>3
    <3>5. QED BY <1>2, <3>1, <3>2, <3>4
  <2>5. CASE i = j
    <3>1. i \in 1 .. Shorter(x, z)
      BY <1>1, <2>5 DEF Shorter
    <3>2. AgreeUpTo(x, z, i - 1)
      BY <1>9, <2>5 DEF AgreeUpTo, DifferAt
    <3>3. CompareSegments(x[i], z[i]) < 0
      BY <2>1, <2>2, <2>5, SegmentsTransitive
    <3>4. QED BY <1>2, <3>1, <3>2, <3>3
  <2>6. QED BY <1>1, <2>3, <2>4, <2>5
<1>10. QED BY <1>6, <1>7, <1>8, <1>9, NamesCompared

(* A loop over bytes that are more first has more in the end: with a first *)
(* byte that is not zero at least the power of the bytes behind it, and of *)
(* two byte strings the one that is less where they differ has less.       *)
LEMMA AtLeastPower ==
    ASSUME NEW bytes \in Seq(Byte), Len(bytes) \in 1 .. NumberBytes, bytes[1] # 0,
           NEW r, Accumulated(bytes, r)
    PROVE  Power[Len(bytes) - 1] <= NumberValue(bytes)
<1> DEFINE n == Len(bytes)
<1>1. /\ NumberBytes \in Nat /\ Base \in Nat \ {0} /\ n \in 1 .. NumberBytes
      /\ \A i \in 1 .. n : bytes[i] \in Nat
  BY NamesAssumption DEF Byte
<1>2. /\ r \in [0 .. n -> Nat] /\ r[0] = 0 /\ NumberValue(bytes) = r[n]
      /\ \A i \in 1 .. n : r[i] = r[i - 1] * Base + bytes[i]
  BY DEF Accumulated
<1>3. bytes[1] # 0
  OBVIOUS
<1> HIDE DEF n
<1>4. \A i \in Nat : i + 1 <= n => Power[i] <= r[i + 1]
  <2> DEFINE T == {i \in Nat : i + 1 <= n => Power[i] <= r[i + 1]}
  <2>1. 0 \in T
    <3>1. 1 \in 1 .. n /\ 1 - 1 = 0 /\ 0 + 1 = 1
      BY <1>1
    <3>2. r[1] = 0 * Base + bytes[1] /\ bytes[1] \in Nat
      BY <1>1, <1>2, <3>1
    <3>3. r[1] = bytes[1]
      BY <1>1, <3>2
    <3>4. QED BY <1>3, <3>1, <3>2, <3>3, Powers
  <2>2. ASSUME NEW i \in Nat, i \in T PROVE i + 1 \in T
    <3> SUFFICES ASSUME (i + 1) + 1 <= n PROVE Power[i + 1] <= r[(i + 1) + 1]
      OBVIOUS
    <3> DEFINE p == Power[i]
               s == r[i + 1]
               b == bytes[(i + 1) + 1]
    <3>1. /\ (i + 1) + 1 \in 1 .. n /\ ((i + 1) + 1) - 1 = i + 1 /\ i + 1 \in 0 .. n
          /\ i + 1 \in 1 .. NumberBytes /\ (i + 1) - 1 = i /\ i \in 0 .. NumberBytes /\ i + 1 <= n
      BY <1>1
    <3>2. /\ Power[i + 1] = Base * p /\ p \in Nat /\ r[(i + 1) + 1] = s * Base + b
          /\ s \in Nat /\ b \in Nat /\ p <= s
      BY <1>1, <1>2, <2>2, <3>1, Powers
    <3> HIDE DEF p, s, b
    <3>3. Base * p <= s * Base /\ s * Base \in Nat /\ Base * p \in Nat
      <4>1. CASE p = s
        BY <1>1, <3>2, <4>1
      <4>2. CASE p < s
        <5>1. Base * p + Base <= Base * s /\ Base * p \in Int /\ Base * s \in Int
          BY <1>1, <3>2, <4>2, Multiples
        <5>2. s * Base = Base * s /\ Base * p \in Nat /\ s * Base \in Nat
          BY <1>1, <3>2
        <5>3. QED BY <1>1, <5>1, <5>2
      <4>3. QED BY <3>2, <4>1, <4>2
    <3>4. QED BY <3>2, <3>3
  <2>3. QED BY <2>1, <2>2, Induction
<1>5. n - 1 \in Nat /\ (n - 1) + 1 = n
  BY <1>1
<1>6. Power[n - 1] <= r[n]
  BY <1>1, <1>4, <1>5
<1>7. QED BY <1>2, <1>6 DEF n

LEMMA LessWhereTheyDiffer ==
    ASSUME NEW a \in Seq(Byte), NEW b \in Seq(Byte), Len(a) = Len(b),
           NEW f, Accumulated(a, f), NEW g, Accumulated(b, g),
           NEW i \in 1 .. Len(a), SameUpTo(a, b, i - 1), a[i] < b[i]
    PROVE  NumberValue(a) < NumberValue(b)
<1> DEFINE n == Len(a)
<1>1. /\ Base \in Nat \ {0} /\ n \in Nat /\ i \in 1 .. n
      /\ \A j \in 1 .. n : a[j] \in 0 .. Base - 1 /\ b[j] \in 0 .. Base - 1
  <2>1. Base \in Nat \ {0} /\ n \in Nat /\ i \in 1 .. n
    BY NamesAssumption
  <2>2. ASSUME NEW j \in 1 .. n PROVE a[j] \in Byte /\ b[j] \in Byte
    <3>1. j \in DOMAIN a /\ j \in DOMAIN b
      OBVIOUS
    <3>2. QED BY <3>1
  <2>3. QED BY <2>1, <2>2 DEF Byte
<1>2. /\ f \in [0 .. n -> Nat] /\ f[0] = 0 /\ NumberValue(a) = f[n]
      /\ \A j \in 1 .. n : f[j] = f[j - 1] * Base + a[j]
      /\ g \in [0 .. n -> Nat] /\ g[0] = 0 /\ NumberValue(b) = g[n]
      /\ \A j \in 1 .. n : g[j] = g[j - 1] * Base + b[j]
  BY DEF Accumulated
<1>3. SameUpTo(a, b, i - 1) /\ a[i] < b[i]
  OBVIOUS
<1> HIDE DEF n
<1>4. \A j \in Nat : j < i => f[j] = g[j]
  <2> DEFINE T == {j \in Nat : j < i => f[j] = g[j]}
  <2>1. 0 \in T
    BY <1>2
  <2>2. ASSUME NEW j \in Nat, j \in T PROVE j + 1 \in T
    <3> SUFFICES ASSUME j + 1 < i PROVE f[j + 1] = g[j + 1]
      OBVIOUS
    <3>1. j + 1 \in 1 .. n /\ j + 1 \in 1 .. i - 1 /\ (j + 1) - 1 = j /\ j < i
      BY <1>1
    <3>2. a[j + 1] = b[j + 1] /\ f[j] = g[j]
      BY <1>3, <2>2, <3>1 DEF SameUpTo
    <3>3. f[j + 1] = f[j] * Base + a[j + 1] /\ g[j + 1] = g[j] * Base + b[j + 1]
      BY <1>2, <3>1
    <3>4. QED BY <3>2, <3>3
  <2>3. QED BY <2>1, <2>2, Induction
<1>5. \A d \in Nat : i + d <= n => f[i + d] < g[i + d]
  <2> DEFINE T == {d \in Nat : i + d <= n => f[i + d] < g[i + d]}
  <2>1. 0 \in T
    <3> DEFINE s == f[i - 1]
    <3>1. i + 0 = i /\ i - 1 \in Nat /\ i - 1 < i /\ i - 1 \in 0 .. n
      BY <1>1
    <3>2. f[i] = s * Base + a[i] /\ g[i] = s * Base + b[i] /\ s \in Nat
      BY <1>1, <1>2, <1>4, <3>1
    <3> HIDE DEF s
    <3> DEFINE m == s * Base
    <3>3. m \in Nat /\ f[i] = m + a[i] /\ g[i] = m + b[i]
      BY <1>1, <3>2
    <3> HIDE DEF m
    <3>4. f[i] < g[i]
      BY <1>1, <1>3, <3>3
    <3>5. QED BY <3>1, <3>4
  <2>2. ASSUME NEW d \in Nat, d \in T PROVE d + 1 \in T
    <3> SUFFICES ASSUME i + (d + 1) <= n PROVE f[i + (d + 1)] < g[i + (d + 1)]
      OBVIOUS
    <3> DEFINE k == i + (d + 1)
               s == f[i + d]
               t == g[i + d]
    <3>1. k \in 1 .. n /\ k - 1 = i + d /\ i + d \in 0 .. n /\ i + d <= n
      BY <1>1
    <3>2. /\ s \in Nat /\ t \in Nat /\ s < t
          /\ f[k] = s * Base + a[k] /\ g[k] = t * Base + b[k]
          /\ a[k] \in 0 .. Base - 1 /\ b[k] \in 0 .. Base - 1
      BY <1>1, <1>2, <2>2, <3>1
    <3> HIDE DEF k, s, t
    <3>3. Base * s + Base <= Base * t /\ Base * s \in Int /\ Base * t \in Int
      BY <1>1, <3>2, Multiples
    <3>4. s * Base = Base * s /\ t * Base = Base * t
      BY <1>1, <3>2
    <3> DEFINE u == Base * s
               v == Base * t
    <3>5. u + Base <= v /\ u \in Int /\ v \in Int /\ f[k] = u + a[k] /\ g[k] = v + b[k]
      BY <3>2, <3>3, <3>4
    <3> HIDE DEF u, v
    <3> DEFINE x == a[k]
               y == b[k]
    <3>6. f[k] = u + x /\ g[k] = v + y /\ x \in 0 .. Base - 1 /\ y \in 0 .. Base - 1
      BY <3>2, <3>5
    <3> HIDE DEF x, y
    <3>7. u + x < v + y
      BY <1>1, <3>5, <3>6
    <3>8. f[k] < g[k]
      BY <3>6, <3>7
    <3>9. QED BY <3>8 DEF k
  <2>3. QED BY <2>1, <2>2, Induction
<1>6. n - i \in Nat /\ i + (n - i) = n
  BY <1>1
<1>7. f[n] < g[n]
  <2> DEFINE d == n - i
  <2>1. d \in Nat /\ i + d = n /\ i + d <= n
    BY <1>1, <1>6
  <2> HIDE DEF d
  <2>2. f[i + d] < g[i + d]
    BY <1>5, <2>1
  <2>3. QED BY <2>1, <2>2
<1>8. QED BY <1>2, <1>7

LEMMA NumbersCompared ==
    ASSUME NEW s \in Content, NEW t \in Content, Canonical(s.bytes), Canonical(t.bytes)
    PROVE  CompareSegments(s, t) = Sign(NumberValue(s.bytes) - NumberValue(t.bytes))
<1> DEFINE a == s.bytes
           b == t.bytes
           m == Len(a)
           n == Len(b)
           v == NumberValue(a)
           w == NumberValue(b)
<1>1. /\ a \in Seq(Byte) /\ b \in Seq(Byte) /\ NumberBytes \in Nat
      /\ m \in 1 .. NumberBytes /\ n \in 1 .. NumberBytes
      /\ (a[1] = 0 => m = 1) /\ (b[1] = 0 => n = 1)
  BY NamesAssumption DEF Content, Canonical
<1>2. CompareSegments(s, t) = IF m # n THEN Sign(m - n) ELSE CompareBytes(a, b)
  BY DEF CompareSegments
<1> SUFFICES CompareSegments(s, t) = Sign(v - w)
  OBVIOUS
<1> HIDE DEF a, b
<1>3. m <= NumberBytes /\ n <= NumberBytes
  BY <1>1
<1>4. PICK f : Accumulated(a, f)
  BY <1>1, <1>3, ValueAccumulated
<1>5. PICK g : Accumulated(b, g)
  BY <1>1, <1>3, ValueAccumulated
<1> HIDE DEF v, w
<1>6. v \in Nat /\ w \in Nat /\ v <= Power[m] - 1 /\ w <= Power[n] - 1
  <2>1. m \in 0 .. m /\ n \in 0 .. n
    BY <1>1
  <2>2. QED BY <1>4, <1>5, <2>1 DEF Accumulated, v, w
<1>7. CASE m < n
  <2> DEFINE p == Power[m]
             q == Power[n - 1]
  <2>1. /\ m \in 0 .. NumberBytes /\ n - 1 \in m .. NumberBytes /\ n - 1 \in 0 .. NumberBytes
        /\ n # 1
    BY <1>1, <1>7
  <2>2. p \in Nat /\ q \in Nat /\ p <= q
    BY <2>1, Powers, PowersGrow
  <2>3. q <= w
    BY <1>1, <1>5, <2>1, AtLeastPower DEF w
  <2> HIDE DEF p, q
  <2>4. v - w < 0 /\ v - w \in Int
    BY <1>6, <2>2, <2>3 DEF p
  <2>5. m - n < 0 /\ m - n \in Int /\ m # n
    BY <1>1, <1>7
  <2>6. Sign(m - n) = -1 /\ Sign(v - w) = -1
    BY <2>4, <2>5, Signs
  <2>7. QED BY <1>2, <2>5, <2>6
<1>8. CASE n < m
  <2> DEFINE p == Power[n]
             q == Power[m - 1]
  <2>1. /\ n \in 0 .. NumberBytes /\ m - 1 \in n .. NumberBytes /\ m - 1 \in 0 .. NumberBytes
        /\ m # 1
    BY <1>1, <1>8
  <2>2. p \in Nat /\ q \in Nat /\ p <= q
    BY <2>1, Powers, PowersGrow
  <2>3. q <= v
    BY <1>1, <1>4, <2>1, AtLeastPower DEF v
  <2> HIDE DEF p, q
  <2>4. v - w > 0 /\ v - w \in Int
    BY <1>6, <2>2, <2>3 DEF p
  <2>5. m - n > 0 /\ m - n \in Int /\ m # n
    BY <1>1, <1>8
  <2>6. Sign(m - n) = 1 /\ Sign(v - w) = 1
    BY <2>4, <2>5, Signs
  <2>7. QED BY <1>2, <2>5, <2>6
<1>9. CASE m = n /\ a = b
  <2>1. v = w /\ CompareBytes(a, b) = 0
    BY <1>1, <1>9, BytesSame DEF v, w
  <2>2. v - w = 0 /\ Sign(0) = 0
    BY <1>6, <2>1 DEF Sign
  <2>3. QED BY <1>2, <1>9, <2>1, <2>2
<1>10. CASE m = n /\ a # b
  <2>1. PICK i \in 1 .. m : SameUpTo(a, b, i - 1) /\ a[i] # b[i]
    BY <1>1, <1>10, FirstDifference
  <2>2. SameUpTo(b, a, i - 1) /\ i \in 1 .. n /\ m = n
    BY <1>10, <2>1 DEF SameUpTo
  <2>3. a[i] \in Int /\ b[i] \in Int
    <3>1. a[i] \in Byte /\ b[i] \in Byte
      BY <1>1, <2>1, <2>2
    <3>2. QED BY <3>1 DEF Byte
  <2>4. CompareBytes(a, b) = Sign(a[i] - b[i])
    BY <1>1, <1>10, <2>1, BytesDiffer
  <2>5. CASE a[i] < b[i]
    <3>1. v < w
      BY <1>1, <1>4, <1>5, <1>10, <2>1, <2>5, LessWhereTheyDiffer DEF v, w
    <3>2. v - w < 0 /\ v - w \in Int /\ a[i] - b[i] < 0 /\ a[i] - b[i] \in Int
      BY <1>6, <2>3, <2>5, <3>1
    <3>3. Sign(a[i] - b[i]) = -1 /\ Sign(v - w) = -1
      BY <3>2, Signs
    <3>4. QED BY <1>2, <1>10, <2>4, <3>3
  <2>6. CASE b[i] < a[i]
    <3>1. w < v
      BY <1>1, <1>4, <1>5, <1>10, <2>2, <2>6, LessWhereTheyDiffer DEF v, w
    <3>2. v - w > 0 /\ v - w \in Int /\ a[i] - b[i] > 0 /\ a[i] - b[i] \in Int
      BY <1>6, <2>3, <2>6, <3>1
    <3>3. Sign(a[i] - b[i]) = 1 /\ Sign(v - w) = 1
      BY <3>2, Signs
    <3>4. QED BY <1>2, <1>10, <2>4, <3>3
  <2>7. QED BY <2>1, <2>3, <2>5, <2>6
<1>11. QED BY <1>1, <1>7, <1>8, <1>9, <1>10

----------------------------------------------------------------------------
(* The names a client can ask about are in order.                          *)

LEMMA KnownContents ==
    ASSUME NamesInv, NEW x \in Known
    PROVE  x \in Seq(Content)
<1>0. PICK n \in Live : \E k \in 0 .. Len(names[n]) : x = SubSeq(Contents(n), 1, k)
  BY DEF Known
<1>1. PICK k \in 0 .. Len(names[n]) : x = SubSeq(Contents(n), 1, k)
  BY <1>0
<1>2. names[n] \in Seq(SegmentRecord) /\ Contents(n) \in Seq(Content)
  BY ContentsOfName DEF NamesInv, NamesTypeOK, Live
<1>3. Len(Contents(n)) = Len(names[n])
  <2>1. DOMAIN Contents(n) = DOMAIN names[n]
    BY DEF Contents
  <2>2. DOMAIN names[n] = 1 .. Len(names[n]) /\ DOMAIN Contents(n) = 1 .. Len(Contents(n))
        /\ Len(names[n]) \in Nat /\ Len(Contents(n)) \in Nat
    BY <1>2
  <2> DEFINE a == Len(names[n])
             b == Len(Contents(n))
  <2> HIDE DEF a, b
  <2>3. a \in Nat /\ b \in Nat /\ 1 .. a = 1 .. b
    BY <2>1, <2>2 DEF a, b
  <2>4. a = b
    BY <2>3
  <2>5. QED BY <2>4 DEF a, b
<1> DEFINE s == Contents(n)
<1> HIDE DEF s
<1>4. s \in Seq(Content) /\ k \in 0 .. Len(s) /\ x = SubSeq(s, 1, k)
  BY <1>1, <1>2, <1>3 DEF s
<1>5. QED BY <1>4, Cut

(* A prefix is what a name begins with, and not after it.                  *)
LEMMA PrefixesCompared ==
    ASSUME NEW x \in Seq(Content), NEW y \in Seq(Content)
    PROVE  /\ StartsWith(x, y) <=> Len(y) <= Len(x) /\ Compare(SubSeq(x, 1, Len(y)), y) = 0
           /\ StartsWith(x, y) => Compare(y, x) <= 0
<1> DEFINE m == Len(y)
           front == SubSeq(x, 1, m)
<1>1. Len(x) \in Nat /\ m \in Nat /\ DOMAIN y = 1 .. m
  OBVIOUS
<1> SUFFICES ASSUME m <= Len(x)
             PROVE  /\ StartsWith(x, y) <=> Compare(front, y) = 0
                    /\ StartsWith(x, y) => Compare(y, x) <= 0
  BY <1>1 DEF StartsWith
<1>2. m \in 0 .. Len(x)
  BY <1>1
<1>3. front \in Seq(Content) /\ Len(front) = m /\ \A i \in 1 .. m : front[i] = x[i]
  BY <1>2, Cut
<1>4. \A i \in 1 .. m : x[i] \in Content /\ y[i] \in Content
  BY <1>1
<1>5. StartsWith(x, y) <=> AgreeUpTo(x, y, m)
  <2>1. StartsWith(x, y) <=> \A i \in 1 .. m : CompareSegments(y[i], x[i]) = 0
    BY <1>1 DEF StartsWith
  <2>2. \A i \in 1 .. m : CompareSegments(y[i], x[i]) = 0 <=> x[i].bytes = y[i].bytes
    BY <1>4, SegmentsInOrder
  <2>3. QED BY <2>1, <2>2 DEF AgreeUpTo
<1>6. AgreeUpTo(x, y, m) <=> AgreeUpTo(front, y, m)
  BY <1>3 DEF AgreeUpTo
<1> HIDE DEF front
<1>7. Compare(front, y) = 0 <=> AgreeUpTo(front, y, m)
  BY <1>3, CompareAntisymmetric
<1>8. ASSUME AgreeUpTo(x, y, m) PROVE Compare(y, x) <= 0
  <2>1. Shorter(y, x) = m
    BY <1>1 DEF Shorter
  <2>2. AgreeUpTo(y, x, Shorter(y, x))
    BY <1>8, <2>1 DEF AgreeUpTo
  <2>3. Compare(y, x) = Sign(Len(y) - Len(x))
    BY <2>2, NamesAgree
  <2> DEFINE d == Len(y) - Len(x)
  <2>4. d \in Int /\ d <= 0
    BY <1>1
  <2> HIDE DEF d
  <2>5. Sign(d) <= 0
    BY <2>4, Signs
  <2>6. QED BY <2>3, <2>5 DEF d
<1>9. QED BY <1>5, <1>6, <1>7, <1>8

LEMMA HashOfPrefix ==
    ASSUME NEW x \in Seq(Content), NEW count \in Nat
    PROVE  LeftMostHash(x, count) = HashCode(SubSeq(x, 1, Min({count, Len(x)})))
<1> DEFINE k == Min({count, Len(x)})
           front == SubSeq(x, 1, k)
<1>1. k \in 0 .. Len(x) /\ Len(x) \in Nat
  BY MinOfTwo
<1>2. LeftMostHash(x, count) = [i \in 1 .. k |-> SegmentHash(x[i])]
  BY DEF LeftMostHash
<1> HIDE DEF k
<1>3. front \in Seq(Content) /\ Len(front) = k /\ \A i \in 1 .. k : front[i] = x[i]
  BY <1>1, Cut
<1>4. HashCode(front) = [i \in 1 .. Min({k, k}) |-> SegmentHash(front[i])]
  BY <1>3 DEF HashCode, LeftMostHash
<1> HIDE DEF front
<1>5. Min({k, k}) = k
  BY <1>1, MinOfTwo
<1>6. HashCode(front) = [i \in 1 .. k |-> SegmentHash(front[i])]
  BY <1>4, <1>5
<1>7. \A i \in 1 .. k : SegmentHash(front[i]) = SegmentHash(x[i])
  BY <1>3
<1>8. HashCode(front) = LeftMostHash(x, count)
  BY <1>2, <1>6, <1>7
<1>9. QED BY <1>8 DEF front, k

(* Whatever was done to the names and whoever has read their values, the   *)
(* order of names is a total preorder that their equality, hashes and      *)
(* prefixes agree with (ccnxName_Compare, _Equals, _HashCode, _StartsWith, *)
(* _LeftMostHashCode); a number is the value of its bytes, bytes without   *)
(* leading zeros are the bytes of their value, and segments of numbers are *)
(* in the order of the numbers (ccnxNameSegmentNumber_Create, _Value).     *)
THEOREM NamesAreInOrder == Spec => []OrderCoherent
<1>1. NamesInv => NumbersInOrder
  <2> SUFFICES ASSUME NamesInv PROVE NumbersInOrder
    OBVIOUS
  <2>1. \A number \in Number : NumberValue(NumberToBytes(number)) = number
    BY NumberAssumption, NumberReadBack
  <2>2. ASSUME NEW x \in Known, NEW y \in Known, NEW i \in DOMAIN x, NEW j \in DOMAIN y,
               Canonical(x[i].bytes), Canonical(y[j].bytes)
        PROVE  /\ NumberToBytes(NumberValue(x[i].bytes)) = x[i].bytes
               /\ CompareSegments(x[i], y[j])
                    = Sign(NumberValue(x[i].bytes) - NumberValue(y[j].bytes))
    <3>1. x \in Seq(Content) /\ y \in Seq(Content)
      BY KnownContents
    <3>2. x[i] \in Content /\ y[j] \in Content
      BY <3>1
    <3>3. x[i].bytes \in Seq(Byte)
      BY <3>2 DEF Content
    <3>4. QED BY <2>2, <3>2, <3>3, BytesReadBack, NumbersCompared
  <2>3. QED BY <2>1, <2>2 DEF NumbersInOrder
<1>2. NamesInv => NamesInOrder
  <2> SUFFICES ASSUME NamesInv, NEW x \in Known, NEW y \in Known
               PROVE  /\ Compare(x, y) = - Compare(y, x)
                      /\ \A z \in Known : Compare(x, y) <= 0 /\ Compare(y, z) <= 0
                                             => Compare(x, z) <= 0
                      /\ NameEquals(x, y) =>
                            /\ Compare(x, y) = 0 /\ HashCode(x) = HashCode(y)
                            /\ NameText(x) = NameText(y)
                      /\ Compare(x, y) = 0 =>
                            Len(x) = Len(y) /\ \A i \in DOMAIN x : x[i].bytes = y[i].bytes
                      /\ StartsWith(x, y) <=>
                            Len(y) <= Len(x) /\ Compare(SubSeq(x, 1, Len(y)), y) = 0
                      /\ StartsWith(x, y) => Compare(y, x) <= 0
                      /\ \A count \in 0 .. MaxSegments + 1 :
                            LeftMostHash(x, count) = HashCode(SubSeq(x, 1, Min({count, Len(x)})))
    BY DEF NamesInOrder
  <2>1. x \in Seq(Content) /\ y \in Seq(Content)
    BY KnownContents
  <2>2. Compare(x, y) = - Compare(y, x)
    BY <2>1, CompareAntisymmetric
  <2>3. \A z \in Known : Compare(x, y) <= 0 /\ Compare(y, z) <= 0 => Compare(x, z) <= 0
    BY <2>1, KnownContents, CompareTransitive
  <2>4. ASSUME NameEquals(x, y)
        PROVE  Compare(x, y) = 0 /\ HashCode(x) = HashCode(y) /\ NameText(x) = NameText(y)
    <3>1. x = y
      BY <2>4 DEF NameEquals
    <3>2. Len(x) = Len(y) /\ AgreeUpTo(x, y, Len(x))
      BY <3>1 DEF AgreeUpTo
    <3>3. Compare(x, y) = 0
      BY <2>1, <3>2, CompareAntisymmetric
    <3>4. QED BY <3>1, <3>3
  <2>5. ASSUME Compare(x, y) = 0
        PROVE  Len(x) = Len(y) /\ \A i \in DOMAIN x : x[i].bytes = y[i].bytes
    <3>1. Len(x) = Len(y) /\ AgreeUpTo(x, y, Len(x)) /\ DOMAIN x = 1 .. Len(x)
      BY <2>1, <2>5, CompareAntisymmetric
    <3>2. QED BY <3>1 DEF AgreeUpTo
  <2>6. /\ StartsWith(x, y) <=> Len(y) <= Len(x) /\ Compare(SubSeq(x, 1, Len(y)), y) = 0
        /\ StartsWith(x, y) => Compare(y, x) <= 0
    BY <2>1, PrefixesCompared
  <2>7. ASSUME NEW count \in 0 .. MaxSegments + 1
        PROVE  LeftMostHash(x, count) = HashCode(SubSeq(x, 1, Min({count, Len(x)})))
    <3>1. count \in Nat
      BY NamesAssumption
    <3>2. QED BY <2>1, <3>1, HashOfPrefix
  <2>8. QED BY <2>2, <2>3, <2>4, <2>5, <2>6, <2>7
<1>3. NamesInv => OrderCoherent
  BY <1>1, <1>2 DEF OrderCoherent
<1>4. QED BY <1>3, NamesInvariance, PTL
=============================================================================
