-------------------------- MODULE ManifestsProofs --------------------------
(***************************************************************************)
(* Theorems about manifests and hash groups: what a manifest gives back of *)
(* the groups that were added to it, what an iterator returns of a group   *)
(* that grows, and what Interests are made of a manifest.                  *)
(***************************************************************************)
EXTENDS Manifests, SequenceTheorems, WellFoundedInduction, NaturalsInduction,
        TLAPS

(* Induction over the natural numbers, for a set instead of a predicate.   *)
LEMMA Induction ==
    ASSUME NEW S, 0 \in S, \A n \in Nat : n \in S => n + 1 \in S
    PROVE  Nat \subseteq S
<1> DEFINE T == Nat \ S
<1> SUFFICES ASSUME T # {} PROVE FALSE
  OBVIOUS
<1>1. PICK m \in T : \A k \in T : <<k, m>> \notin OpToRel(<, Nat)
  BY WFMin, NatLessThanWellFounded, Zenon
<1>2. \A k \in T : ~(k < m)
  BY <1>1 DEF OpToRel
<1>3. m \in Nat /\ m # 0 /\ m - 1 \in Nat
  OBVIOUS
<1>4. m - 1 \in S
  BY <1>2, <1>3
<1>5. QED BY <1>3, <1>4

GroupRecord ==
    [pointers : Seq(Pointer), overallDataDigest : Digest \cup {None},
     locator : Name \cup {None}, size : [SizeField -> Nat]]
Fits(g) == g \in GroupRecord /\ Len(g.pointers) <= MaxPointers

----------------------------------------------------------------------------
(* What is written of a group is read back.                                *)

LEMMA JsonFields ==
    ASSUME NEW g \in GroupRecord
    PROVE  /\ DOMAIN ToJson(g) = {"HashGroup"} \cup Metadata(g)
           /\ ToJson(g)["HashGroup"] = [i \in DOMAIN g.pointers |->
                  [type   |-> TypeNumber(g.pointers[i].pointerType),
                   digest |-> g.pointers[i].digest]]
           /\ g.overallDataDigest = IF "overallDataDigest" \in DOMAIN ToJson(g)
                                    THEN ToJson(g)["overallDataDigest"] ELSE None
           /\ g.locator = IF "locator" \in DOMAIN ToJson(g) THEN ToJson(g)["locator"] ELSE None
           /\ \A field \in SizeField :
                 g.size[field] = IF field \in DOMAIN ToJson(g) THEN ToJson(g)[field] ELSE 0
<1> DEFINE json == ToJson(g)
           items == [i \in DOMAIN g.pointers |->
                       [type   |-> TypeNumber(g.pointers[i].pointerType),
                        digest |-> g.pointers[i].digest]]
<1>1. /\ SizeField \subseteq {"entrySize", "dataSize", "blockSize", "treeHeight"}
      /\ \A field \in SizeField : g.size[field] \in Nat
  BY ManifestAssumption DEF GroupRecord
<1>2. json = [name \in {"HashGroup"} \cup Metadata(g) |->
                CASE name = "HashGroup" -> items
                  [] name \in SizeField -> g.size[name]
                  [] OTHER -> g[name]]
  BY DEF ToJson
<1>3. /\ "HashGroup" \notin SizeField /\ "overallDataDigest" \notin SizeField
      /\ "locator" \notin SizeField
  BY <1>1
<1>4. /\ \A field \in SizeField : field \in Metadata(g) <=> g.size[field] > 0
      /\ "overallDataDigest" \in Metadata(g) <=> g.overallDataDigest # None
      /\ "locator" \in Metadata(g) <=> g.locator # None
  BY <1>3 DEF Metadata
<1> HIDE DEF json, items
<1>5. DOMAIN json = {"HashGroup"} \cup Metadata(g)
  BY <1>2
<1>6. json["HashGroup"] = items
  BY <1>2, <1>3
<1>7. /\ g.overallDataDigest = IF "overallDataDigest" \in DOMAIN json
                               THEN json["overallDataDigest"] ELSE None
      /\ g.locator = IF "locator" \in DOMAIN json THEN json["locator"] ELSE None
  BY <1>2, <1>3, <1>4, <1>5
<1>8. ASSUME NEW field \in SizeField
      PROVE  g.size[field] = IF field \in DOMAIN json THEN json[field] ELSE 0
  <2>1. field # "HashGroup" /\ g.size[field] \in Nat
    BY <1>1, <1>3
  <2>2. field \in DOMAIN json => json[field] = g.size[field]
    BY <1>2, <1>5, <2>1
  <2>3. QED BY <1>4, <1>5, <2>1, <2>2
<1>9. QED BY <1>5, <1>6, <1>7, <1>8 DEF json, items

LEMMA PointerReadBack ==
    ASSUME NEW p \in Pointer
    PROVE  ReadPointer([type |-> TypeNumber(p.pointerType), digest |-> p.digest]) = p
<1>1. p.pointerType \in {"Data", "Manifest"}
  BY DEF Pointer, PointerType
<1>2. p = [pointerType |-> p.pointerType, digest |-> p.digest]
  BY DEF Pointer
<1>3. QED BY <1>1, <1>2 DEF ReadPointer, TypeNumber

LEMMA BareGroup ==
    ASSUME NEW digest, NEW name, NEW size
    PROVE  [EmptyGroup EXCEPT !.overallDataDigest = digest, !.locator = name, !.size = size]
             = [pointers |-> <<>>, overallDataDigest |-> digest, locator |-> name, size |-> size]
<1> DEFINE zero == [field \in SizeField |-> 0]
           empty == <<>>
<1>1. EmptyGroup = [pointers |-> empty, overallDataDigest |-> None, locator |-> None,
                    size |-> zero]
  BY DEF EmptyGroup
<1> HIDE DEF zero, empty
<1> DEFINE bare == [EmptyGroup EXCEPT !.overallDataDigest = digest, !.locator = name, !.size = size]
<1>2. EmptyGroup \in [pointers : {empty}, overallDataDigest : {None, digest},
                     locator : {None, name}, size : {zero, size}]
  BY <1>1
<1>3. /\ bare \in [pointers : {empty}, overallDataDigest : {None, digest},
                   locator : {None, name}, size : {zero, size}]
      /\ bare.overallDataDigest = digest /\ bare.locator = name /\ bare.size = size
  BY <1>2
<1> HIDE DEF bare
<1>4. bare.pointers = empty
  BY <1>3
<1>5. bare = [pointers |-> empty, overallDataDigest |-> digest, locator |-> name, size |-> size]
  BY <1>3, <1>4
<1>6. QED BY <1>5 DEF bare, empty

(* ccnxManifestHashGroup_CreateFromJson is the inverse of                  *)
(* ccnxManifestHashGroup_ToJson on every group a client can make: all      *)
(* pointers, their types and their order, and all metadata come back.      *)
THEOREM JsonRoundTrip ==
    ASSUME NEW g, Fits(g)
    PROVE  CreateFromJson(ToJson(g)) = g
<1> DEFINE json == ToJson(g)
           Value(name, default) == IF name \in DOMAIN json THEN json[name] ELSE default
           items == json["HashGroup"]
           bare == [EmptyGroup EXCEPT
                      !.overallDataDigest = Value("overallDataDigest", None),
                      !.locator = Value("locator", None),
                      !.size = [field \in SizeField |-> Value(field, 0)]]
           n == Len(items)
           Step(f) == f = [i \in 0..n |->
                             IF i = 0 THEN bare
                             ELSE WithPointer(f[i - 1], ReadPointer(items[i]))]
           read == CHOOSE f : Step(f)
           At(i) == [pointers |-> SubSeq(g.pointers, 1, i),
                     overallDataDigest |-> g.overallDataDigest,
                     locator |-> g.locator, size |-> g.size]
           closed == [i \in 0..n |-> At(i)]
<1>1. g \in GroupRecord /\ g.pointers \in Seq(Pointer) /\ Len(g.pointers) \in Nat
      /\ Len(g.pointers) <= MaxPointers /\ MaxPointers \in Nat
      /\ DOMAIN g.pointers = 1..Len(g.pointers)
      /\ \A i \in 1..Len(g.pointers) : g.pointers[i] \in Pointer
  BY ManifestAssumption DEF Fits, GroupRecord
<1>2. /\ items = [i \in 1..Len(g.pointers) |->
                    [type   |-> TypeNumber(g.pointers[i].pointerType),
                     digest |-> g.pointers[i].digest]]
      /\ Value("overallDataDigest", None) = g.overallDataDigest
      /\ Value("locator", None) = g.locator
      /\ \A field \in SizeField : Value(field, 0) = g.size[field]
  BY <1>1, JsonFields
<1>3. CreateFromJson(json) = read[n]
  BY DEF CreateFromJson
<1> HIDE DEF Value, items
<1>4. n = Len(g.pointers)
  BY <1>1, <1>2
<1>5. bare = At(0)
  <2>1. [field \in SizeField |-> Value(field, 0)] = g.size
    BY <1>1, <1>2 DEF GroupRecord
  <2>2. SubSeq(g.pointers, 1, 0) = <<>>
    BY SubSeqEmpty
  <2>3. bare = [EmptyGroup EXCEPT !.overallDataDigest = g.overallDataDigest,
                                  !.locator = g.locator, !.size = g.size]
    BY <1>2, <2>1
  <2>4. [EmptyGroup EXCEPT !.overallDataDigest = g.overallDataDigest,
                           !.locator = g.locator, !.size = g.size]
          = [pointers |-> <<>>, overallDataDigest |-> g.overallDataDigest,
             locator |-> g.locator, size |-> g.size]
    BY ONLY BareGroup
  <2>5. QED BY <2>2, <2>3, <2>4
<1>6. ASSUME NEW i \in 1..n
      PROVE  At(i) = WithPointer(At(i - 1), ReadPointer(items[i]))
  <2>1. i \in 1..Len(g.pointers) /\ i \in Nat /\ i - 1 \in Nat /\ i <= Len(g.pointers)
    BY <1>1, <1>4
  <2>2. ReadPointer(items[i]) = g.pointers[i]
    BY <1>1, <1>2, <2>1, PointerReadBack
  <2> DEFINE pointers == g.pointers
             before == SubSeq(pointers, 1, i - 1)
             after == SubSeq(pointers, 1, i)
  <2>3. pointers \in Seq(Pointer) /\ i \in 1..Len(pointers) /\ Len(pointers) \in Nat
    BY <1>1, <2>1
  <2> HIDE DEF pointers
  <2>4. before \in Seq(Pointer) /\ Len(before) = i - 1
    BY ONLY <2>1, <2>3
  <2>5. Append(before, pointers[i]) = after
    BY ONLY <2>1, <2>3
  <2> HIDE DEF before, after
  <2>6. ~(Len(before) >= MaxPointers)
    BY <1>1, <2>1, <2>4
  <2> DEFINE acc == [pointers |-> before, overallDataDigest |-> g.overallDataDigest,
                     locator |-> g.locator, size |-> g.size]
  <2>7. acc.pointers = before
        /\ [acc EXCEPT !.pointers = Append(acc.pointers, pointers[i])]
             = [pointers |-> after, overallDataDigest |-> g.overallDataDigest,
                locator |-> g.locator, size |-> g.size]
    BY <2>5
  <2> HIDE DEF acc
  <2>8. WithPointer(acc, pointers[i])
          = [pointers |-> after, overallDataDigest |-> g.overallDataDigest,
             locator |-> g.locator, size |-> g.size]
    BY <2>6, <2>7 DEF WithPointer, IsFull
  <2>9. QED BY <2>2, <2>8 DEF acc, before, after, pointers
<1> HIDE DEF At, bare, n
<1>7. Step(closed)
  <2>1. \A i \in 0..n : closed[i] = IF i = 0 THEN bare
                                    ELSE WithPointer(closed[i - 1], ReadPointer(items[i]))
    <3> SUFFICES ASSUME NEW i \in 0..n
                 PROVE  closed[i] = IF i = 0 THEN bare
                                    ELSE WithPointer(closed[i - 1], ReadPointer(items[i]))
      OBVIOUS
    <3>1. CASE i = 0
      BY <1>5, <3>1
    <3>2. CASE i # 0
      <4>1. i \in 1..n /\ i - 1 \in 0..n
        BY <1>1, <1>4, <3>2
      <4>2. QED BY <1>6, <3>2, <4>1
    <3>3. QED BY <3>1, <3>2
  <2>2. QED BY <2>1
<1>8. Step(read)
  BY <1>7
<1> HIDE DEF read
<1>9. \A i \in Nat : i <= n => read[i] = At(i)
  <2> DEFINE S == {i \in Nat : i <= n => read[i] = At(i)}
  <2>1. 0 \in S
    BY <1>1, <1>4, <1>5, <1>8
  <2>2. ASSUME NEW i \in Nat, i \in S PROVE i + 1 \in S
    <3> SUFFICES ASSUME i + 1 <= n PROVE read[i + 1] = At(i + 1)
      OBVIOUS
    <3>1. i + 1 \in 1..n /\ i + 1 \in 0..n /\ (i + 1) - 1 = i /\ i <= n /\ i + 1 # 0
      BY <1>1, <1>4
    <3>2. read[i + 1] = WithPointer(read[i], ReadPointer(items[i + 1]))
      BY <1>8, <3>1
    <3>3. At(i + 1) = WithPointer(At(i), ReadPointer(items[i + 1]))
      BY <1>6, <3>1
    <3>4. QED BY <2>2, <3>1, <3>2, <3>3
  <2>3. QED BY <2>1, <2>2, Induction
<1>10. read[n] = At(n)
  BY <1>1, <1>4, <1>9
<1>11. At(n) = g
  <2>1. SubSeq(g.pointers, 1, n) = g.pointers
    BY <1>1, <1>4
  <2>2. g = [pointers |-> g.pointers, overallDataDigest |-> g.overallDataDigest,
             locator |-> g.locator, size |-> g.size]
    BY <1>1 DEF GroupRecord
  <2>3. QED BY <2>1, <2>2 DEF At
<1>12. QED BY <1>3, <1>10, <1>11

----------------------------------------------------------------------------
(* A loop over a group's iterator meets every pointer once, in order.      *)

LEMMA OneWalked ==
    ASSUME NEW pointers \in Seq(Pointer), NEW i \in 1..Len(pointers), NEW acc,
           acc.state.pointerNumber = i - 1, acc.state.atEnd = FALSE,
           acc.met = SubSeq(pointers, 1, i - 1)
    PROVE  WalkedOne(acc, pointers) =
             [state |-> [pointerNumber |-> i, atEnd |-> (i = Len(pointers))],
              met   |-> SubSeq(pointers, 1, i)]
<1>1. /\ i \in Nat /\ Len(pointers) \in Nat /\ i - 1 + 1 = i
      /\ i - 1 \in Nat /\ pointers[i] \in Pointer
  OBVIOUS
<1>2. NextState(acc.state, pointers) = [pointerNumber |-> i, atEnd |-> (i = Len(pointers))]
  BY <1>1 DEF NextState
<1>3. NextState(acc.state, pointers).pointerNumber = i
  BY <1>2
<1>4. Append(SubSeq(pointers, 1, i - 1), pointers[i]) = SubSeq(pointers, 1, i)
  OBVIOUS
<1>5. WalkedOne(acc, pointers) =
        [state |-> NextState(acc.state, pointers),
         met   |-> Append(acc.met, pointers[NextState(acc.state, pointers).pointerNumber])]
  BY DEF WalkedOne, HasNext
<1>6. QED BY <1>2, <1>3, <1>4, <1>5

LEMMA WalkedAll ==
    ASSUME NEW pointers \in Seq(Pointer), pointers # <<>>
    PROVE  Walked(pointers) = pointers
<1> DEFINE n == Len(pointers)
           start == [state |-> IteratorStart, met |-> <<>>]
           Step(f) == f = [i \in 0..n |-> IF i = 0 THEN start ELSE WalkedOne(f[i - 1], pointers)]
           walk == CHOOSE f : Step(f)
           At(i) == [state |-> [pointerNumber |-> i, atEnd |-> (i = n)],
                     met   |-> SubSeq(pointers, 1, i)]
           closed == [i \in 0..n |-> At(i)]
<1>1. n \in Nat /\ n # 0
  OBVIOUS
<1>2. Walked(pointers) = walk[n].met
  BY DEF Walked
<1>3. At(0) = start
  <2>1. SubSeq(pointers, 1, 0) = <<>>
    BY SubSeqEmpty
  <2>2. (0 = n) = FALSE
    BY <1>1
  <2> HIDE DEF n
  <2>3. QED BY <2>1, <2>2 DEF IteratorStart
<1>4. ASSUME NEW i \in 1..n PROVE At(i) = WalkedOne(At(i - 1), pointers)
  <2>1. /\ At(i - 1).state.pointerNumber = i - 1
        /\ At(i - 1).met = SubSeq(pointers, 1, i - 1)
    OBVIOUS
  <2>2. At(i - 1).state.atEnd = FALSE
    <3>1. (i - 1 = n) = FALSE
      BY <1>1
    <3>2. At(i - 1).state.atEnd = (i - 1 = n)
      OBVIOUS
    <3>3. QED BY <3>1, <3>2
  <2> DEFINE acc == At(i - 1)
  <2> HIDE DEF acc
  <2>3. WalkedOne(acc, pointers) =
          [state |-> [pointerNumber |-> i, atEnd |-> (i = Len(pointers))],
           met   |-> SubSeq(pointers, 1, i)]
    BY <2>1, <2>2, OneWalked DEF acc
  <2>4. QED BY <2>3 DEF acc
<1> HIDE DEF At, start, n
<1>5. Step(closed)
  <2>1. \A i \in 0..n : closed[i] = IF i = 0 THEN start ELSE WalkedOne(closed[i - 1], pointers)
    <3> SUFFICES ASSUME NEW i \in 0..n
                 PROVE  closed[i] = IF i = 0 THEN start ELSE WalkedOne(closed[i - 1], pointers)
      OBVIOUS
    <3>1. CASE i = 0
      BY <1>3, <3>1
    <3>2. CASE i # 0
      <4>1. i \in 1..n /\ i - 1 \in 0..n
        BY <1>1, <3>2
      <4>2. QED BY <1>4, <3>2, <4>1
    <3>3. QED BY <3>1, <3>2
  <2>2. QED BY <2>1
<1>6. Step(walk)
  BY <1>5
<1> HIDE DEF walk
<1>7. \A i \in Nat : i <= n => walk[i] = At(i)
  <2> DEFINE S == {i \in Nat : i <= n => walk[i] = At(i)}
  <2>1. 0 \in S
    BY <1>1, <1>3, <1>6
  <2>2. ASSUME NEW i \in Nat, i \in S PROVE i + 1 \in S
    <3> SUFFICES ASSUME i + 1 <= n PROVE walk[i + 1] = At(i + 1)
      OBVIOUS
    <3>1. i + 1 \in 1..n /\ i + 1 \in 0..n /\ (i + 1) - 1 = i /\ i <= n /\ i + 1 # 0
      BY <1>1
    <3>2. walk[i + 1] = WalkedOne(walk[i], pointers)
      BY <1>6, <3>1
    <3>3. At(i + 1) = WalkedOne(At(i), pointers)
      BY <1>4, <3>1
    <3>4. QED BY <2>2, <3>1, <3>2, <3>3
  <2>3. QED BY <2>1, <2>2, Induction
<1>8. walk[n] = At(n)
  BY <1>1, <1>7
<1>9. SubSeq(pointers, 1, n) = pointers
  BY DEF n
<1>10. QED BY <1>2, <1>8, <1>9 DEF At

----------------------------------------------------------------------------
(* The inductive invariant.  The list of a manifest is, head first, the    *)
(* JSON of the groups that were added, last first.                         *)

Json == {ToJson(g) : g \in GroupRecord}
ManifestRecord == [name : Name \cup {None}, hashGroups : Seq(Json)]
IteratorRecord == [group : Group, state : [pointerNumber : Nat, atEnd : BOOLEAN]]

ManifestTypeOK ==
    /\ group \in [Group -> GroupRecord]
    /\ manifest \in [Manifest -> ManifestRecord]
    /\ added \in [Manifest -> Seq(GroupRecord)]
    /\ iterator \in IteratorRecord \cup {None}
    /\ returned \in Seq(Pointer)
    /\ seen \in Nat
    /\ undisturbed \in BOOLEAN

AddedKept ==
    /\ \A x \in Group : Len(group[x].pointers) <= MaxPointers
    /\ \A y \in Manifest :
          /\ Len(manifest[y].hashGroups) = Len(added[y])
          /\ \A i \in 1..Len(added[y]) :
                /\ Len(added[y][i].pointers) <= MaxPointers
                /\ manifest[y].hashGroups[Len(added[y]) + 1 - i] = ToJson(added[y][i])

IInv == ManifestTypeOK /\ AddedKept /\ IteratorFaithful

LEMMA InitIInv == Init => IInv
<1> SUFFICES ASSUME Init PROVE IInv
  OBVIOUS
<1>1. MaxPointers \in Nat /\ EmptyGroup \in GroupRecord /\ Len(EmptyGroup.pointers) = 0
  <2>1. /\ EmptyGroup.pointers = <<>> /\ <<>> \in Seq(Pointer) /\ Len(<<>>) = 0
        /\ [field \in SizeField |-> 0] \in [SizeField -> Nat]
    BY DEF EmptyGroup
  <2>2. QED BY <2>1, ManifestAssumption DEF EmptyGroup, GroupRecord
<1>2. PICK name \in [Manifest -> Name \cup {None}] :
        manifest = [y \in Manifest |-> [Nameless EXCEPT !.name = name[y]]]
  BY DEF Init
<1>3. ASSUME NEW y \in Manifest
      PROVE  manifest[y] \in ManifestRecord /\ manifest[y].hashGroups = <<>>
  <2>1. manifest[y] = [name |-> name[y], hashGroups |-> <<>>]
    BY <1>2 DEF Nameless
  <2>2. <<>> \in Seq(Json) /\ name[y] \in Name \cup {None}
    BY <1>2
  <2>3. QED BY <2>1, <2>2 DEF ManifestRecord
<1>4. ManifestTypeOK
  <2>1. manifest \in [Manifest -> ManifestRecord]
    BY <1>2, <1>3
  <2>2. group \in [Group -> GroupRecord]
    BY <1>1 DEF Init
  <2>3. added \in [Manifest -> Seq(GroupRecord)]
    BY DEF Init
  <2>4. QED BY <2>1, <2>2, <2>3 DEF Init, ManifestTypeOK
<1>5. AddedKept
  <2>1. \A y \in Manifest : added[y] = <<>> /\ Len(<<>>) = 0
    BY DEF Init
  <2>2. \A x \in Group : Len(group[x].pointers) = 0
    BY <1>1 DEF Init
  <2>3. QED BY <1>1, <1>3, <2>1, <2>2 DEF AddedKept
<1>6. IteratorFaithful
  BY DEF Init, IteratorFaithful
<1>7. QED BY <1>4, <1>5, <1>6 DEF IInv

(* A call that changes one group object.  Only what it does to the list of *)
(* pointers matters to an iterator.                                        *)
LEMMA GroupChanged ==
    ASSUME IInv, NEW x \in Group, NEW g, Fits(g), group' = [group EXCEPT ![x] = g],
           UNCHANGED <<manifest, added, iterator, returned, seen>>,
           undisturbed' \in BOOLEAN, undisturbed' => undisturbed,
           \/ g.pointers = group[x].pointers
           \/ Len(g.pointers) = Len(group[x].pointers) + 1,
           \/ \A n \in 0..Len(group[x].pointers) :
                 SubSeq(g.pointers, 1, n) = SubSeq(group[x].pointers, 1, n)
           \/ undisturbed' => (iterator # None => iterator.group # x)
    PROVE  IInv'
<1>1. /\ group \in [Group -> GroupRecord] /\ g \in GroupRecord
      /\ group' \in [Group -> GroupRecord]
      /\ group'[x] = g /\ \A z \in Group : z # x => group'[z] = group[z]
      /\ Len(g.pointers) <= MaxPointers
  BY DEF IInv, ManifestTypeOK, Fits
<1>2. ManifestTypeOK'
  BY <1>1 DEF IInv, ManifestTypeOK
<1>3. AddedKept'
  BY <1>1 DEF IInv, AddedKept
<1>4. IteratorFaithful'
  <2> SUFFICES ASSUME iterator # None PROVE IteratorFaithful'
    BY DEF IteratorFaithful
  <2> DEFINE z == iterator.group
             old == group[z].pointers
             new == group'[z].pointers
             n == iterator.state.pointerNumber
  <2>1. z \in Group /\ n \in Nat /\ iterator.state.atEnd \in BOOLEAN
    BY DEF IInv, ManifestTypeOK, IteratorRecord
  <2>2. old \in Seq(Pointer) /\ new \in Seq(Pointer)
    BY <1>1, <2>1 DEF GroupRecord
  <2>3. /\ n = Len(returned) /\ n <= Len(old)
        /\ undisturbed => returned = SubSeq(old, 1, n)
        /\ ~HasNext(iterator.state) => 0 < n /\ n = seen
        /\ HasNext(iterator.state) /\ old # <<>> => n < Len(old)
    BY DEF IInv, IteratorFaithful
  <2>4. new = old \/ Len(new) = Len(old) + 1
    BY <1>1, <2>1
  <2>5. undisturbed' => SubSeq(new, 1, n) = SubSeq(old, 1, n)
    <3>1. CASE z # x
      BY <1>1, <2>1, <3>1
    <3>2. CASE z = x
      <4>1. n \in 0..Len(group[x].pointers)
        BY <2>1, <2>2, <2>3, <3>2
      <4>2. QED BY <1>1, <3>2, <4>1
    <3>3. QED BY <3>1, <3>2
  <2>6. Len(old) \in Nat /\ Len(new) \in Nat
    BY <2>2
  <2> HIDE DEF old, new, n
  <2>7. /\ n = Len(returned) /\ n <= Len(new)
        /\ undisturbed' => returned = SubSeq(new, 1, n)
        /\ ~HasNext(iterator.state) => 0 < n /\ n = seen
        /\ HasNext(iterator.state) /\ new # <<>> => n < Len(new)
    BY <2>1, <2>3, <2>4, <2>5, <2>6
  <2>8. QED BY <2>7 DEF IteratorFaithful, new, n
<1>5. QED BY <1>2, <1>3, <1>4 DEF IInv

LEMMA GroupOperations ==
    ASSUME IInv, NEW x \in Group,
           \/ \E pointer \in Pointer : AppendPointer(x, pointer) \/ PrependPointer(x, pointer)
           \/ \E field \in SizeField, n \in Size : SetSize(x, field, n)
           \/ \E digest \in Digest : SetOverallDataDigest(x, digest)
           \/ \E name \in Name : SetLocator(x, name)
    PROVE  IInv'
<1> DEFINE old == group[x]
           pointers == old.pointers
<1>1. /\ old \in GroupRecord /\ Len(pointers) <= MaxPointers
      /\ group \in [Group -> GroupRecord] /\ undisturbed \in BOOLEAN
      /\ MaxPointers \in Nat /\ Size \subseteq Nat
  BY ManifestAssumption DEF IInv, ManifestTypeOK, AddedKept
<1>2. pointers \in Seq(Pointer) /\ Len(pointers) \in Nat
  BY <1>1 DEF GroupRecord
<1>3. ASSUME NEW pointer \in Pointer, AppendPointer(x, pointer) PROVE IInv'
  <2>1. /\ group' = [group EXCEPT ![x] = WithPointer(old, pointer)]
        /\ UNCHANGED <<manifest, added, iterator, returned, seen, undisturbed>>
    BY <1>3 DEF AppendPointer, walkVars
  <2>2. CASE IsFull(old)
    <3>1. WithPointer(old, pointer) = old
      BY <2>2 DEF WithPointer
    <3>2. QED BY <1>1, <2>1, <3>1, GroupChanged DEF Fits
  <2>3. CASE ~IsFull(old)
    <3> DEFINE longer == Append(pointers, pointer)
               g == [old EXCEPT !.pointers = longer]
    <3>1. WithPointer(old, pointer) = g
      BY <2>3 DEF WithPointer
    <3>2. /\ longer \in Seq(Pointer) /\ Len(longer) = Len(pointers) + 1
          /\ \A n \in 0..Len(pointers) : SubSeq(longer, 1, n) = SubSeq(pointers, 1, n)
      <4> HIDE DEF pointers
      <4>1. QED BY <1>2
    <3> HIDE DEF longer, old
    <3>3. g \in GroupRecord /\ g.pointers = longer
      BY <1>1, <3>2 DEF GroupRecord
    <3> HIDE DEF g, pointers
    <3>4. Len(g.pointers) <= MaxPointers
      BY <1>1, <1>2, <2>3, <3>2, <3>3 DEF IsFull, pointers
    <3>5. Fits(g) /\ group' = [group EXCEPT ![x] = g]
      BY <2>1, <3>1, <3>3, <3>4 DEF Fits
    <3>6. Len(g.pointers) = Len(pointers) + 1
          /\ \A n \in 0..Len(pointers) : SubSeq(g.pointers, 1, n) = SubSeq(pointers, 1, n)
      BY <3>2, <3>3
    <3>7. QED BY <1>1, <2>1, <3>5, <3>6, GroupChanged DEF pointers, old
  <2>4. QED BY <2>2, <2>3
<1>4. ASSUME NEW pointer \in Pointer, PrependPointer(x, pointer) PROVE IInv'
  <2>1. UNCHANGED <<manifest, added, iterator, returned, seen>>
    BY <1>4 DEF PrependPointer
  <2>2. CASE IsFull(old)
    <3>1. UNCHANGED <<group, undisturbed>>
      BY <1>4, <2>2 DEF PrependPointer
    <3>2. group' = [group EXCEPT ![x] = old]
      BY <1>1, <3>1
    <3>3. QED BY <1>1, <2>1, <3>1, <3>2, GroupChanged DEF Fits
  <2>3. CASE ~IsFull(old)
    <3> DEFINE longer == <<pointer>> \o pointers
               g == [old EXCEPT !.pointers = longer]
    <3>1. /\ group' = [group EXCEPT ![x] = g]
          /\ undisturbed' = (undisturbed /\ (iterator # None => iterator.group # x))
      BY <1>4, <2>3 DEF PrependPointer
    <3>2. longer \in Seq(Pointer) /\ Len(longer) = Len(pointers) + 1
      <4> HIDE DEF pointers
      <4>1. QED BY <1>2
    <3> HIDE DEF longer, old
    <3>3. g \in GroupRecord /\ g.pointers = longer
      BY <1>1, <3>2 DEF GroupRecord
    <3> HIDE DEF g, pointers
    <3>4. Len(g.pointers) <= MaxPointers /\ Len(g.pointers) = Len(pointers) + 1
      BY <1>1, <1>2, <2>3, <3>2, <3>3 DEF IsFull, pointers
    <3>5. Fits(g)
      BY <3>3, <3>4 DEF Fits
    <3>6. /\ undisturbed' \in BOOLEAN /\ undisturbed' => undisturbed
          /\ undisturbed' => (iterator # None => iterator.group # x)
      BY <3>1
    <3>7. QED BY <2>1, <3>1, <3>4, <3>5, <3>6, GroupChanged DEF pointers, old
  <2>4. QED BY <2>2, <2>3
<1>5. ASSUME NEW g \in GroupRecord, g.pointers = pointers, group' = [group EXCEPT ![x] = g],
             UNCHANGED <<manifest, added, iterator, returned, seen, undisturbed>>
      PROVE  IInv'
  BY <1>1, <1>5, GroupChanged DEF Fits
<1>6. ASSUME NEW field \in SizeField, NEW n \in Size, SetSize(x, field, n) PROVE IInv'
  <2> DEFINE size == [old.size EXCEPT ![field] = n]
             g == [old EXCEPT !.size = size]
  <2>1. /\ group' = [group EXCEPT ![x] = g]
        /\ UNCHANGED <<manifest, added, iterator, returned, seen, undisturbed>>
    BY <1>6 DEF SetSize, walkVars
  <2>2. size \in [SizeField -> Nat]
    BY <1>1 DEF GroupRecord
  <2> HIDE DEF size, old
  <2>3. g \in GroupRecord /\ g.pointers = old.pointers
    BY <1>1, <2>2 DEF GroupRecord
  <2> HIDE DEF g
  <2>4. QED BY <1>5, <2>1, <2>3 DEF pointers
<1>7. ASSUME NEW digest \in Digest, SetOverallDataDigest(x, digest) PROVE IInv'
  <2> DEFINE g == [old EXCEPT !.overallDataDigest = digest]
  <2>1. /\ group' = [group EXCEPT ![x] = g]
        /\ UNCHANGED <<manifest, added, iterator, returned, seen, undisturbed>>
    BY <1>7 DEF SetOverallDataDigest, walkVars
  <2> HIDE DEF old
  <2>2. g \in GroupRecord /\ g.pointers = old.pointers
    BY <1>1 DEF GroupRecord
  <2> HIDE DEF g
  <2>3. QED BY <1>5, <2>1, <2>2 DEF pointers
<1>8. ASSUME NEW name \in Name, SetLocator(x, name) PROVE IInv'
  <2> DEFINE g == [old EXCEPT !.locator = name]
  <2>1. /\ group' = [group EXCEPT ![x] = g]
        /\ UNCHANGED <<manifest, added, iterator, returned, seen, undisturbed>>
    BY <1>8 DEF SetLocator, walkVars
  <2> HIDE DEF old
  <2>2. g \in GroupRecord /\ g.pointers = old.pointers
    BY <1>1 DEF GroupRecord
  <2> HIDE DEF g
  <2>3. QED BY <1>5, <2>1, <2>2 DEF pointers
<1>9. QED BY <1>3, <1>4, <1>6, <1>7, <1>8

LEMMA AddKeepsIInv ==
    ASSUME IInv, NEW x \in Group, NEW y \in Manifest, AddHashGroup(y, x)
    PROVE  IInv'
<1> DEFINE g == group[x]
           json == ToJson(g)
           old == manifest[y]
           list == old.hashGroups
           longer == <<json>> \o list
           m == [old EXCEPT !.hashGroups = longer]
           before == added[y]
           after == Append(before, g)
           n == Len(before)
<1>1. /\ g \in GroupRecord /\ Len(g.pointers) <= MaxPointers
      /\ old \in ManifestRecord /\ before \in Seq(GroupRecord)
      /\ manifest \in [Manifest -> ManifestRecord] /\ added \in [Manifest -> Seq(GroupRecord)]
  BY DEF IInv, ManifestTypeOK, AddedKept
<1>2. json \in Json /\ list \in Seq(Json)
  BY <1>1 DEF Json, ManifestRecord
<1>3. /\ n \in Nat /\ Len(list) = n
      /\ \A i \in 1..n : Len(before[i].pointers) <= MaxPointers /\ list[n + 1 - i] = ToJson(before[i])
  <2>1. /\ Len(manifest[y].hashGroups) = Len(added[y])
        /\ \A i \in 1..Len(added[y]) :
              /\ Len(added[y][i].pointers) <= MaxPointers
              /\ manifest[y].hashGroups[Len(added[y]) + 1 - i] = ToJson(added[y][i])
    BY DEF IInv, AddedKept
  <2>2. Len(added[y]) \in Nat
    BY <1>1
  <2>3. QED BY ONLY <2>1, <2>2
<1>4. /\ manifest' = [manifest EXCEPT ![y] = m]
      /\ added' = [added EXCEPT ![y] = after]
      /\ UNCHANGED <<group, iterator, returned, seen, undisturbed>>
  BY DEF AddHashGroup, WithHashGroup, walkVars
<1> HIDE DEF list, json, before
<1>5. /\ longer \in Seq(Json) /\ Len(longer) = n + 1
      /\ longer[1] = json /\ \A i \in 2..(n + 1) : longer[i] = list[i - 1]
  BY <1>2, <1>3
<1>6. /\ after \in Seq(GroupRecord) /\ Len(after) = n + 1
      /\ after[n + 1] = g /\ \A i \in 1..n : after[i] = before[i]
  BY <1>1, <1>3
<1> HIDE DEF longer, after, n, old
<1>7. m \in ManifestRecord /\ m.hashGroups = longer
  BY <1>1, <1>5 DEF ManifestRecord
<1> HIDE DEF m
<1>8. /\ manifest' \in [Manifest -> ManifestRecord] /\ added' \in [Manifest -> Seq(GroupRecord)]
      /\ manifest'[y] = m /\ added'[y] = after
      /\ \A z \in Manifest : z # y => manifest'[z] = manifest[z] /\ added'[z] = added[z]
  BY <1>1, <1>4, <1>6, <1>7
<1>9. ManifestTypeOK'
  BY <1>4, <1>8 DEF IInv, ManifestTypeOK
<1>10. ASSUME NEW i \in 1..(n + 1)
       PROVE  Len(after[i].pointers) <= MaxPointers /\ longer[n + 2 - i] = ToJson(after[i])
  <2>1. CASE i = n + 1
    <3>1. n + 2 - i = 1
      BY <1>3, <2>1
    <3>2. QED BY <1>1, <1>5, <1>6, <2>1, <3>1 DEF json
  <2>2. CASE i # n + 1
    <3>1. i \in 1..n /\ n + 2 - i \in 2..(n + 1) /\ (n + 2 - i) - 1 = n + 1 - i
      BY <1>3, <2>2
    <3>2. QED BY <1>3, <1>5, <1>6, <3>1
  <2>3. QED BY <2>1, <2>2
<1>11. AddedKept'
  <2>1. ASSUME NEW z \in Manifest
        PROVE  /\ Len(manifest'[z].hashGroups) = Len(added'[z])
               /\ \A i \in 1..Len(added'[z]) :
                     /\ Len(added'[z][i].pointers) <= MaxPointers
                     /\ manifest'[z].hashGroups[Len(added'[z]) + 1 - i] = ToJson(added'[z][i])
    <3>1. CASE z # y
      BY <1>8, <3>1 DEF IInv, AddedKept
    <3>2. CASE z = y
      <4>1. n + 1 + 1 = n + 2
        BY <1>3
      <4>2. /\ manifest'[z].hashGroups = longer /\ added'[z] = after
            /\ Len(longer) = n + 1 /\ Len(after) = n + 1
        BY <1>5, <1>6, <1>7, <1>8, <3>2
      <4>3. \A i \in 1..(n + 1) :
               Len(after[i].pointers) <= MaxPointers /\ longer[(n + 1) + 1 - i] = ToJson(after[i])
        <5>1. \A i \in 1..(n + 1) : (n + 1) + 1 - i = n + 2 - i
          BY <1>3
        <5>2. QED BY <1>10, <5>1
      <4>4. QED BY ONLY <4>2, <4>3
    <3>3. QED BY <3>1, <3>2
  <2>2. QED BY <1>4, <2>1 DEF IInv, AddedKept
<1>12. IteratorFaithful'
  BY <1>4 DEF IInv, IteratorFaithful
<1>13. QED BY <1>9, <1>11, <1>12 DEF IInv

LEMMA WalkKeepsIInv ==
    ASSUME IInv, (\E x \in Group : CreateIterator(x)) \/ IteratorNext \/ ReleaseIterator
    PROVE  IInv'
<1>1. UNCHANGED <<group, manifest, added>>
  BY DEF CreateIterator, IteratorNext, ReleaseIterator
<1>2. AddedKept'
  BY <1>1 DEF IInv, AddedKept
<1>3. ASSUME NEW x \in Group, CreateIterator(x) PROVE ManifestTypeOK' /\ IteratorFaithful'
  <2> DEFINE pointers == group[x].pointers
             new == [group |-> x, state |-> IteratorStart]
  <2>1. iterator' = new /\ returned' = <<>> /\ seen' = 0 /\ undisturbed' = TRUE
    BY <1>3 DEF CreateIterator
  <2>2. pointers \in Seq(Pointer)
    BY DEF IInv, ManifestTypeOK, GroupRecord
  <2>3. /\ new \in IteratorRecord /\ new.group = x /\ new.state.pointerNumber = 0
        /\ HasNext(new.state)
    BY DEF IteratorRecord, IteratorStart, HasNext
  <2>4. ManifestTypeOK'
    BY <1>1, <2>1, <2>3 DEF IInv, ManifestTypeOK
  <2> HIDE DEF new
  <2>5. group'[iterator'.group].pointers = pointers
    BY <1>1, <2>1, <2>3
  <2> HIDE DEF pointers
  <2>6. /\ 0 = Len(<<>>) /\ 0 <= Len(pointers) /\ <<>> = SubSeq(pointers, 1, 0)
        /\ pointers # <<>> => 0 < Len(pointers)
    BY <2>2
  <2>7. QED BY <2>1, <2>3, <2>4, <2>5, <2>6 DEF IteratorFaithful
<1>4. ASSUME IteratorNext PROVE ManifestTypeOK' /\ IteratorFaithful'
  <2> DEFINE x == iterator.group
             pointers == group[x].pointers
             state == iterator.state
             next == NextState(state, pointers)
             n == state.pointerNumber
             new == [iterator EXCEPT !.state = next]
  <2>1. /\ iterator # None /\ HasNext(state)
        /\ next.pointerNumber \in DOMAIN pointers
        /\ iterator' = new /\ returned' = Append(returned, pointers[next.pointerNumber])
        /\ undisturbed' = undisturbed /\ seen' = Len(pointers)
    BY <1>4 DEF IteratorNext
  <2>2. /\ iterator \in IteratorRecord /\ x \in Group
        /\ state \in [pointerNumber : Nat, atEnd : BOOLEAN] /\ n \in Nat
        /\ returned \in Seq(Pointer)
    BY <2>1 DEF IInv, ManifestTypeOK, IteratorRecord
  <2>3. pointers \in Seq(Pointer) /\ Len(pointers) \in Nat
    BY <2>2 DEF IInv, ManifestTypeOK, GroupRecord
  <2>4. n = Len(returned) /\ (undisturbed => returned = SubSeq(pointers, 1, n))
    BY <2>1 DEF IInv, IteratorFaithful
  <2>5. next.pointerNumber = n + 1 /\ next.atEnd = (state.atEnd \/ n + 1 = Len(pointers))
    BY DEF NextState
  <2>6. next \in [pointerNumber : Nat, atEnd : BOOLEAN]
    BY <2>2 DEF NextState
  <2> HIDE DEF next, state, x
  <2>7. new \in IteratorRecord /\ new.state = next /\ new.group = x
    BY <2>2, <2>6 DEF IteratorRecord, x
  <2> HIDE DEF new, pointers, n
  <2>8. n + 1 \in 1..Len(pointers) /\ pointers[n + 1] \in Pointer
    BY <2>1, <2>3, <2>5
  <2>9. /\ returned' \in Seq(Pointer) /\ Len(returned') = n + 1
        /\ returned' = Append(returned, pointers[n + 1])
    BY <2>1, <2>2, <2>4, <2>5, <2>8
  <2>10. ManifestTypeOK'
    BY <1>1, <2>1, <2>3, <2>7, <2>9 DEF IInv, ManifestTypeOK
  <2>11. undisturbed => returned' = SubSeq(pointers, 1, n + 1)
    <3>1. Append(SubSeq(pointers, 1, n), pointers[n + 1]) = SubSeq(pointers, 1, n + 1)
      BY <2>2, <2>3, <2>8
    <3>2. QED BY <2>4, <2>9, <3>1
  <2>12. HasNext(next) => n + 1 < Len(pointers)
    <3>1. HasNext(next) => n + 1 # Len(pointers)
      BY <2>5, Zenon DEF HasNext
    <3>2. QED BY <2>2, <2>3, <2>8, <3>1
  <2>13. ~HasNext(next) => 0 < n + 1 /\ n + 1 = Len(pointers)
    <3>1. HasNext(state)
      BY <2>1
    <3>2. ~HasNext(next) => n + 1 = Len(pointers)
      BY <2>5, <3>1, Zenon DEF HasNext
    <3>3. QED BY <2>2, <3>2
  <2>14. group'[iterator'.group].pointers = pointers
    BY <1>1, <2>1, <2>7 DEF pointers
  <2>15. IteratorFaithful'
    BY <2>1, <2>3, <2>5, <2>7, <2>8, <2>9, <2>11, <2>12, <2>13, <2>14 DEF IteratorFaithful
  <2>16. QED BY <2>10, <2>15
<1>5. ASSUME ReleaseIterator PROVE ManifestTypeOK' /\ IteratorFaithful'
  <2>1. iterator' = None /\ returned' = <<>> /\ seen' = 0 /\ undisturbed' = TRUE
    BY <1>5 DEF ReleaseIterator
  <2>2. IteratorFaithful'
    BY <2>1 DEF IteratorFaithful
  <2>3. ManifestTypeOK'
    BY <1>1, <2>1 DEF IInv, ManifestTypeOK
  <2>4. QED BY <2>2, <2>3
<1>6. QED BY <1>2, <1>3, <1>4, <1>5 DEF IInv

----------------------------------------------------------------------------
(* IInv holds of every behaviour, for any groups, manifests and calls.     *)
THEOREM ManifestInvariance == Spec => []IInv
<1>1. IInv /\ [Next]_manifestVars => IInv'
  <2> SUFFICES ASSUME IInv, [Next]_manifestVars PROVE IInv'
    OBVIOUS
  <2>1. CASE Next
    BY <2>1, GroupOperations, AddKeepsIInv, WalkKeepsIInv DEF Next
  <2>2. CASE UNCHANGED manifestVars
    BY <2>2 DEF manifestVars, walkVars, IInv, ManifestTypeOK, AddedKept, IteratorFaithful
  <2>3. QED BY <2>1, <2>2
<1>2. QED BY <1>1, InitIInv, PTL DEF Spec

(* An iterator over a group that grows skips no pointer and returns none   *)
(* twice, it is at the end only when it has returned as many as the group  *)
(* had when it returned the last, and has a next one only if there is one. *)
THEOREM IteratorReturnsAll == Spec => []IteratorFaithful
<1>1. IInv => IteratorFaithful
  BY DEF IInv
<1>2. QED BY <1>1, ManifestInvariance, PTL

(* The group read back from the i-th JSON is the one that was added.       *)
LEMMA GroupReadBack ==
    ASSUME IInv, NEW y \in Manifest, NEW i \in 1..Len(added[y])
    PROVE  /\ added[y][i] \in GroupRecord
           /\ GetHashGroup(manifest[y], Len(added[y]) - i) = added[y][i]
<1>1. added[y] \in Seq(GroupRecord)
  BY DEF IInv, ManifestTypeOK
<1>2. Fits(added[y][i])
  BY <1>1 DEF IInv, AddedKept, Fits
<1>3. (Len(added[y]) - i) + 1 = Len(added[y]) + 1 - i
  BY <1>1
<1>4. manifest[y].hashGroups[(Len(added[y]) - i) + 1] = ToJson(added[y][i])
  BY <1>3 DEF IInv, AddedKept
<1>5. QED BY <1>2, <1>4, JsonRoundTrip DEF GetHashGroup, Fits

(* A manifest gives back by index the groups as they were when they were   *)
(* added, the last one first.                                              *)
THEOREM SnapshotsKept == Spec => []HashGroupsAreSnapshots
<1>1. IInv => HashGroupsAreSnapshots
  <2> SUFFICES ASSUME IInv, NEW y \in Manifest
               PROVE  /\ NumberOfHashGroups(manifest[y]) = Len(added[y])
                      /\ \A i \in DOMAIN added[y] :
                            GroupEquals(GetHashGroup(manifest[y], Len(added[y]) - i), added[y][i])
    BY DEF HashGroupsAreSnapshots
  <2>1. DOMAIN added[y] = 1..Len(added[y])
    BY DEF IInv, ManifestTypeOK
  <2>2. NumberOfHashGroups(manifest[y]) = Len(added[y])
    BY DEF IInv, AddedKept, NumberOfHashGroups
  <2>3. \A g : GroupEquals(g, g)
    BY DEF GroupEquals
  <2>4. QED BY <2>1, <2>2, <2>3, GroupReadBack
<1>2. QED BY <1>1, ManifestInvariance, PTL

(* The Interests made of a manifest ask once for every pointer of every    *)
(* group, by its digest, and under the locator that comes first.           *)
THEOREM InterestsComplete == Spec => []InterestsCoverPointers
<1>1. IInv => InterestsCoverPointers
  <2> SUFFICES ASSUME IInv, NEW y \in Manifest, NEW locator \in Name \cup {None},
                      \A i \in DOMAIN added[y] : added[y][i].pointers # <<>>
               PROVE
          LET NameFor(g) ==
                CHOOSE name \in Name \cup {None} :
                   \/ g.locator # None /\ name = g.locator
                   \/ g.locator = None /\ manifest[y].name # None /\ name = manifest[y].name
                   \/ g.locator = None /\ manifest[y].name = None /\ name = locator
              Wanted(g) ==
                IF NameFor(g) = None THEN <<>>
                ELSE [i \in DOMAIN g.pointers |->
                        [name |-> NameFor(g), restriction |-> g.pointers[i].digest]]
          IN CreateInterestList(manifest[y], locator)
                = FlattenSeq([i \in DOMAIN added[y] |-> Wanted(Reverse(added[y])[i])])
    BY DEF InterestsCoverPointers
  <2> DEFINE NameFor(g) ==
                CHOOSE name \in Name \cup {None} :
                   \/ g.locator # None /\ name = g.locator
                   \/ g.locator = None /\ manifest[y].name # None /\ name = manifest[y].name
                   \/ g.locator = None /\ manifest[y].name = None /\ name = locator
             Wanted(g) ==
                IF NameFor(g) = None THEN <<>>
                ELSE [i \in DOMAIN g.pointers |->
                        [name |-> NameFor(g), restriction |-> g.pointers[i].digest]]
             N == Len(added[y])
             given == GroupLocator(manifest[y], locator)
  <2>1. /\ added[y] \in Seq(GroupRecord) /\ N \in Nat /\ DOMAIN added[y] = 1..N
        /\ manifest[y].name \in Name \cup {None}
        /\ NumberOfHashGroups(manifest[y]) = N
    BY DEF IInv, ManifestTypeOK, ManifestRecord, AddedKept, NumberOfHashGroups
  <2>2. ASSUME NEW g \in GroupRecord, g.pointers # <<>>
        PROVE  GroupInterests(g, given) = Wanted(g)
    <3> DEFINE want == IF g.locator = None THEN given ELSE g.locator
    <3>1. g.locator \in Name \cup {None} /\ g.pointers \in Seq(Pointer)
      BY DEF GroupRecord
    <3>2. want \in Name \cup {None}
      BY <2>1, <3>1 DEF GroupLocator
    <3>3. NameFor(g) = want
      BY <3>2 DEF GroupLocator
    <3>4. Walked(g.pointers) = g.pointers
      BY <2>2, <3>1, WalkedAll
    <3>5. GroupInterests(g, given) =
            IF want = None THEN <<>>
            ELSE [i \in DOMAIN g.pointers |->
                    [name |-> want, restriction |-> g.pointers[i].digest]]
      BY <3>4 DEF GroupInterests
    <3> HIDE DEF NameFor, want
    <3>6. QED BY <3>3, <3>5
  <2>3. ASSUME NEW i \in 1..N
        PROVE  GroupInterests(GetHashGroup(manifest[y], i - 1), given)
                 = Wanted(Reverse(added[y])[i])
    <3> DEFINE k == N - i + 1
    <3>1. k \in 1..N /\ N - k = i - 1
      BY <2>1
    <3>2. Reverse(added[y])[i] = added[y][k]
      BY <2>1 DEF Reverse
    <3> HIDE DEF k
    <3>3. /\ added[y][k] \in GroupRecord /\ added[y][k].pointers # <<>>
          /\ GetHashGroup(manifest[y], i - 1) = added[y][k]
      BY <2>1, <3>1, GroupReadBack
    <3> HIDE DEF Wanted
    <3>4. QED BY <2>2, <3>2, <3>3
  <2> HIDE DEF Wanted, NameFor
  <2>4. [i \in 1..N |-> GroupInterests(GetHashGroup(manifest[y], i - 1), given)]
          = [i \in DOMAIN added[y] |-> Wanted(Reverse(added[y])[i])]
    BY <2>1, <2>3
  <2>5. CreateInterestList(manifest[y], locator)
          = FlattenSeq([i \in 1..N |-> GroupInterests(GetHashGroup(manifest[y], i - 1), given)])
    BY <2>1 DEF CreateInterestList
  <2>6. CreateInterestList(manifest[y], locator)
          = FlattenSeq([i \in DOMAIN added[y] |-> Wanted(Reverse(added[y])[i])])
    BY <2>4, <2>5
  <2>7. QED BY <2>6 DEF Wanted, NameFor
<1>2. QED BY <1>1, ManifestInvariance, PTL
=============================================================================
