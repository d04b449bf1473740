--------------------------- MODULE MessagesProofs ---------------------------
(***************************************************************************)
(* Theorems about the dictionary and about the messages made of it: what   *)
(* the reference count of a value is, what a copy holds, and that what a   *)
(* setter put together stays together while messages share objects.        *)
(***************************************************************************)
EXTENDS Messages, FiniteSetTheorems, SequenceTheorems, TLAPS

----------------------------------------------------------------------------
(* Counting the places in one dictionary.                                  *)

Count(dict, o) == Cardinality(Places(dict, o))

(* A dictionary as the operations leave it. *)
Sound(dict) ==
    /\ dict \in DictionaryRecord
    /\ \A list \in ListKey : Len(dict.lists[list]) <= MaxList

LEMMA PlacesFinite ==
    ASSUME NEW dict, NEW o
    PROVE  /\ IsFiniteSet(InArray(dict, o)) /\ IsFiniteSet(InLists(dict, o))
           /\ IsFiniteSet(Places(dict, o))
           /\ Count(dict, o) = Cardinality(InArray(dict, o)) + Cardinality(InLists(dict, o))
           /\ Cardinality(InArray(dict, o)) \in Nat /\ Cardinality(InLists(dict, o)) \in Nat
           /\ Count(dict, o) \in Nat
<1>1. IsFiniteSet({0}) /\ IsFiniteSet(1..MaxList)
  <2>1. MaxList \in Int /\ 1 \in Int
    BY CountAssumption
  <2>2. QED BY <2>1, FS_Singleton, FS_Interval, Zenon
<1>2. IsFiniteSet(FastKey \X {0}) /\ IsFiniteSet(ListKey \X (1..MaxList))
  BY <1>1, KeyAssumption, FS_Product
<1>3. InArray(dict, o) \in SUBSET (FastKey \X {0})
  BY DEF InArray
<1>4. InLists(dict, o) \in SUBSET (ListKey \X (1..MaxList))
  BY DEF InLists
<1>5. IsFiniteSet(InArray(dict, o)) /\ IsFiniteSet(InLists(dict, o))
  BY <1>2, <1>3, <1>4, FS_Subset
<1>6. InArray(dict, o) \cap InLists(dict, o) = {}
  <2>1. \A place \in InArray(dict, o) : place[2] = 0
    BY <1>3
  <2>2. \A place \in InLists(dict, o) : place[2] >= 1
    BY <1>4
  <2>3. QED BY <2>1, <2>2
<1>7. /\ IsFiniteSet(Places(dict, o))
      /\ Count(dict, o) = Cardinality(InArray(dict, o)) + Cardinality(InLists(dict, o))
                            - Cardinality(InArray(dict, o) \cap InLists(dict, o))
  BY <1>5, FS_Union, Zenon DEF Places, Count
<1>8. Cardinality(InArray(dict, o) \cap InLists(dict, o)) = 0
  BY <1>6, FS_EmptySet, Zenon
<1>9. Cardinality(InArray(dict, o)) \in Nat /\ Cardinality(InLists(dict, o)) \in Nat
  BY <1>5, FS_CardinalityType
<1>10. Count(dict, o) = Cardinality(InArray(dict, o)) + Cardinality(InLists(dict, o))
  BY <1>7, <1>8, <1>9
<1>11. QED BY <1>5, <1>7, <1>9, <1>10

(* Only the values in the array and the lists count. *)
LEMMA CountDependsOn ==
    ASSUME NEW a, NEW b, NEW o, a.lists = b.lists,
           \A key \in FastKey :
              a.direct[key] = ValueEntry(o) <=> b.direct[key] = ValueEntry(o)
    PROVE  Count(a, o) = Count(b, o)
<1>1. InArray(a, o) = InArray(b, o)
  BY DEF InArray
<1>2. InLists(a, o) = InLists(b, o)
  BY DEF InLists
<1>3. QED BY <1>1, <1>2 DEF Count, Places

LEMMA EntryFacts ==
    /\ \A o \in Object : ValueEntry(o) \in Entry /\ ValueEntry(o).kind = kindOf[o]
                          /\ ValueEntry(o).value = o /\ ValueEntry(o).kind \in Kind
    /\ \A n \in Integer : IntegerEntry(n) \in Entry /\ IntegerEntry(n).kind = "INTEGER"
                           /\ IntegerEntry(n).integer = n
    /\ Unset \in Entry /\ Unset.kind = "UNSET"
    /\ \A entry \in Entry :
          /\ entry.kind = "UNSET" => entry = Unset
          /\ entry.kind \in Kind => \E o \in Object : entry = ValueEntry(o)
          /\ entry.kind \in Kind \cup {"UNSET", "INTEGER"}
    /\ "UNSET" \notin Kind /\ "INTEGER" \notin Kind
<1>1. "UNSET" \notin Kind /\ "INTEGER" \notin Kind
  BY DEF Kind
<1>2. \A o \in Object : ValueEntry(o) \in Entry /\ ValueEntry(o).kind = kindOf[o]
                          /\ ValueEntry(o).value = o /\ ValueEntry(o).kind \in Kind
  BY ObjectAssumption DEF ValueEntry, Entry
<1>3. \A n \in Integer : IntegerEntry(n) \in Entry /\ IntegerEntry(n).kind = "INTEGER"
                           /\ IntegerEntry(n).integer = n
  BY DEF IntegerEntry, Entry
<1>4. Unset \in Entry /\ Unset.kind = "UNSET"
  BY DEF Unset, Entry
<1>5. ASSUME NEW entry \in Entry
      PROVE  \/ entry = Unset \/ \E o \in Object : entry = ValueEntry(o)
             \/ \E n \in Integer : entry = IntegerEntry(n)
  BY DEF Entry
<1>6. ASSUME NEW entry \in Entry
      PROVE  /\ entry.kind = "UNSET" => entry = Unset
             /\ entry.kind \in Kind => \E o \in Object : entry = ValueEntry(o)
             /\ entry.kind \in Kind \cup {"UNSET", "INTEGER"}
  BY <1>1, <1>2, <1>3, <1>4, <1>5
<1>7. QED BY <1>1, <1>2, <1>3, <1>4, <1>6

LEMMA EmptyCounts ==
    ASSUME NEW type \in MessageType
    PROVE  /\ Sound(EmptyDictionary(type))
           /\ \A o \in Object : Count(EmptyDictionary(type), o) = 0
<1> DEFINE dict == EmptyDictionary(type)
<1>1. dict \in DictionaryRecord
  <2>1. [key \in FastKey |-> Unset] \in [FastKey -> Entry]
    BY EntryFacts
  <2>2. [list \in ListKey |-> <<>>] \in [ListKey -> Seq(ListEntry)]
    OBVIOUS
  <2>3. QED BY <2>1, <2>2 DEF EmptyDictionary, DictionaryRecord
<1>2. Sound(dict)
  BY <1>1, CountAssumption DEF Sound, EmptyDictionary
<1>3. ASSUME NEW o \in Object PROVE Count(dict, o) = 0
  <2>1. InArray(dict, o) = {}
    BY EntryFacts DEF InArray, EmptyDictionary
  <2>2. InLists(dict, o) = {}
    BY DEF InLists, EmptyDictionary
  <2>3. QED BY <2>1, <2>2, FS_EmptySet DEF Count, Places
<1>4. QED BY <1>2, <1>3

LEMMA EntryShape ==
    ASSUME NEW dict \in DictionaryRecord, NEW key \in FastKey, NEW entry
    PROVE  /\ WithEntry(dict, key, entry).references = dict.references
           /\ WithEntry(dict, key, entry).type = dict.type
           /\ WithEntry(dict, key, entry).lists = dict.lists
           /\ WithEntry(dict, key, entry).direct[key] = entry
           /\ \A k \in FastKey : k # key =>
                 WithEntry(dict, key, entry).direct[k] = dict.direct[k]
           /\ entry \in Entry => WithEntry(dict, key, entry) \in DictionaryRecord
BY DEF WithEntry, DictionaryRecord

(* A value put under a key that was unset is referred to once more. *)
LEMMA EntryCounts ==
    ASSUME NEW dict, Sound(dict), NEW key \in FastKey, dict.direct[key] = Unset,
           NEW v \in Object
    PROVE  /\ Sound(WithEntry(dict, key, ValueEntry(v)))
           /\ \A o \in Object : Count(WithEntry(dict, key, ValueEntry(v)), o) =
                 Count(dict, o) + IF o = v THEN 1 ELSE 0
<1> DEFINE new == WithEntry(dict, key, ValueEntry(v))
<1>1. dict \in DictionaryRecord /\ ValueEntry(v) \in Entry
  BY EntryFacts DEF Sound
<1>2. /\ new.lists = dict.lists /\ new \in DictionaryRecord
      /\ new.direct[key] = ValueEntry(v)
      /\ \A k \in FastKey : k # key => new.direct[k] = dict.direct[k]
  BY <1>1, EntryShape
<1>3. Sound(new)
  BY <1>2 DEF Sound
<1> HIDE DEF new
<1>4. ASSUME NEW o \in Object
      PROVE  Count(new, o) = Count(dict, o) + IF o = v THEN 1 ELSE 0
  <2>1. Unset # ValueEntry(o)
    BY EntryFacts
  <2>2. ValueEntry(v) = ValueEntry(o) <=> o = v
    BY EntryFacts
  <2>3. InLists(new, o) = InLists(dict, o)
    BY <1>2 DEF InLists
  <2>4. InArray(new, o) = IF o = v THEN InArray(dict, o) \cup {<<key, 0>>}
                                   ELSE InArray(dict, o)
    BY <1>2, <2>1, <2>2 DEF InArray
  <2>5. <<key, 0>> \notin InArray(dict, o)
    BY <2>1 DEF InArray
  <2>6. IsFiniteSet(InArray(dict, o))
    BY PlacesFinite
  <2>7. Cardinality(InArray(dict, o) \cup {<<key, 0>>}) = Cardinality(InArray(dict, o)) + 1
    BY <2>5, <2>6, FS_AddElement
  <2>8. Cardinality(InArray(new, o)) = Cardinality(InArray(dict, o)) + IF o = v THEN 1 ELSE 0
    <3>1. CASE o = v
      BY <3>1, <2>4, <2>7
    <3>2. CASE o # v
      BY <3>2, <2>4, PlacesFinite
    <3>3. QED BY <3>1, <3>2
  <2>9. /\ Count(dict, o) = Cardinality(InArray(dict, o)) + Cardinality(InLists(dict, o))
        /\ Count(new, o) = Cardinality(InArray(new, o)) + Cardinality(InLists(dict, o))
        /\ Cardinality(InArray(dict, o)) \in Nat /\ Cardinality(InLists(dict, o)) \in Nat
    BY <2>3, PlacesFinite
  <2>10. QED BY <2>8, <2>9
<1>5. QED BY <1>3, <1>4 DEF new

(* An integer replaces no value. *)
LEMMA IntegerCounts ==
    ASSUME NEW dict, Sound(dict), NEW key \in FastKey, NEW n \in Integer
    PROVE  /\ Sound(WithInteger(dict, key, n))
           /\ \A o \in Object : Count(WithInteger(dict, key, n), o) = Count(dict, o)
<1>1. CASE ~CanPutInteger(dict, key)
  BY <1>1 DEF WithInteger
<1>2. CASE CanPutInteger(dict, key)
  <2> DEFINE new == WithEntry(dict, key, IntegerEntry(n))
  <2>1. WithInteger(dict, key, n) = new
    BY <1>2 DEF WithInteger
  <2>2. dict \in DictionaryRecord /\ IntegerEntry(n) \in Entry
    BY EntryFacts DEF Sound
  <2>3. /\ new.lists = dict.lists /\ new \in DictionaryRecord
        /\ new.direct[key] = IntegerEntry(n)
        /\ \A k \in FastKey : k # key => new.direct[k] = dict.direct[k]
    BY <2>2, EntryShape
  <2>4. Sound(new)
    BY <2>3 DEF Sound
  <2> HIDE DEF new
  <2>5. ASSUME NEW o \in Object PROVE Count(new, o) = Count(dict, o)
    <3>1. IntegerEntry(n) # ValueEntry(o) /\ dict.direct[key] # ValueEntry(o)
      BY <1>2, EntryFacts DEF CanPutInteger
    <3>2. \A k \in FastKey : new.direct[k] = ValueEntry(o) <=> dict.direct[k] = ValueEntry(o)
      BY <2>3, <3>1
    <3>3. QED BY <2>3, <3>2, CountDependsOn
  <2>6. QED BY <2>1, <2>4, <2>5
<1>3. QED BY <1>1, <1>2

(* A bijection given by its two halves. *)
LEMMA CountedAlike ==
    ASSUME NEW S, NEW T, IsFiniteSet(S), NEW f \in [S -> T], NEW g \in [T -> S],
           \A x \in S : g[f[x]] = x, \A y \in T : f[g[y]] = y
    PROVE  IsFiniteSet(T) /\ Cardinality(T) = Cardinality(S)
<1>1. f \in Bijection(S, T)
  <2>1. \A x, y \in S : f[x] = f[y] => x = y
    OBVIOUS
  <2>2. \A y \in T : \E x \in S : f[x] = y
    OBVIOUS
  <2>3. QED BY <2>1, <2>2 DEF Bijection, Injection, Surjection, IsInjective
<1>2. QED BY <1>1, FS_Bijection DEF ExistsBijection

LEMMA ListShape ==
    ASSUME NEW dict \in DictionaryRecord, NEW list \in ListKey, NEW key, NEW buffer
    PROVE  /\ WithListBuffer(dict, list, key, buffer).references = dict.references
           /\ WithListBuffer(dict, list, key, buffer).type = dict.type
           /\ WithListBuffer(dict, list, key, buffer).direct = dict.direct
           /\ WithListBuffer(dict, list, key, buffer).lists =
                 [dict.lists EXCEPT ![list] = <<[key |-> key, buffer |-> buffer]>> \o @]
           /\ key \in EntryKey /\ buffer \in BufferObject
                 => WithListBuffer(dict, list, key, buffer) \in DictionaryRecord
<1> DEFINE entry == [key |-> key, buffer |-> buffer]
           longer == [dict.lists EXCEPT ![list] = <<entry>> \o @]
<1>1. WithListBuffer(dict, list, key, buffer) = [dict EXCEPT !.lists = longer]
  BY DEF WithListBuffer, DictionaryRecord
<1>2. ASSUME key \in EntryKey, buffer \in BufferObject
      PROVE  longer \in [ListKey -> Seq(ListEntry)]
  <2>1. entry \in ListEntry
    BY <1>2 DEF ListEntry
  <2> HIDE DEF entry
  <2>2. <<entry>> \o dict.lists[list] \in Seq(ListEntry)
    BY <2>1 DEF DictionaryRecord
  <2>3. QED BY <2>2 DEF DictionaryRecord
<1> HIDE DEF longer
<1>3. QED BY <1>1, <1>2 DEF DictionaryRecord, longer

(* A buffer put at the head of a list is referred to once more: the other  *)
(* entries of the list move up by one.                                     *)
LEMMA ListCounts ==
    ASSUME NEW dict, Sound(dict), NEW list \in ListKey, Len(dict.lists[list]) < MaxList,
           NEW key \in EntryKey, NEW buffer \in BufferObject
    PROVE  /\ Sound(WithListBuffer(dict, list, key, buffer))
           /\ \A o \in Object : Count(WithListBuffer(dict, list, key, buffer), o) =
                 Count(dict, o) + IF o = buffer THEN 1 ELSE 0
<1> DEFINE new == WithListBuffer(dict, list, key, buffer)
           entry == [key |-> key, buffer |-> buffer]
           old == dict.lists[list]
<1>1. dict \in DictionaryRecord
  BY DEF Sound
<1>2. /\ new \in DictionaryRecord /\ new.direct = dict.direct
      /\ new.lists = [dict.lists EXCEPT ![list] = <<entry>> \o @]
  BY <1>1, ListShape
<1>3. /\ dict.lists \in [ListKey -> Seq(ListEntry)] /\ old \in Seq(ListEntry)
      /\ entry \in ListEntry /\ entry.buffer = buffer
  BY <1>1 DEF DictionaryRecord, ListEntry
<1> HIDE DEF new, entry
<1>4. /\ new.lists[list] = <<entry>> \o old
      /\ \A l \in ListKey : l # list => new.lists[l] = dict.lists[l]
  BY <1>2, <1>3
<1>5. /\ Len(new.lists[list]) = Len(old) + 1
      /\ new.lists[list][1] = entry
      /\ \A i \in 1..Len(old) : new.lists[list][i + 1] = old[i]
      /\ DOMAIN new.lists[list] = 1..(Len(old) + 1) /\ DOMAIN old = 1..Len(old)
      /\ Len(old) \in Nat
  BY <1>3, <1>4
<1>6. Sound(new)
  BY <1>2, <1>4, <1>5, CountAssumption DEF Sound
<1>7. ASSUME NEW o \in Object
      PROVE  Count(new, o) = Count(dict, o) + IF o = buffer THEN 1 ELSE 0
  <2> DEFINE S == InLists(dict, o)
             T == InLists(new, o) \ {<<list, 1>>}
             f == [p \in S |-> IF p[1] = list THEN <<list, p[2] + 1>> ELSE p]
             g == [p \in T |-> IF p[1] = list THEN <<list, p[2] - 1>> ELSE p]
  <2>1. /\ MaxList \in Nat /\ Len(old) + 1 <= MaxList
    BY <1>5, CountAssumption
  <2>2. \A l \in ListKey, i \in Int :
           <<l, i>> \in S <=> /\ i \in 1..MaxList /\ i \in DOMAIN dict.lists[l]
                              /\ dict.lists[l][i].buffer = o
    BY DEF InLists
  <2>3. \A l \in ListKey, i \in Int :
           <<l, i>> \in InLists(new, o) <=>
              /\ i \in 1..MaxList /\ i \in DOMAIN new.lists[l]
              /\ new.lists[l][i].buffer = o
    BY DEF InLists
  <2>4. /\ \A p \in S : p = <<p[1], p[2]>> /\ p[1] \in ListKey /\ p[2] \in 1..MaxList
        /\ \A p \in InLists(new, o) : p = <<p[1], p[2]>> /\ p[1] \in ListKey /\ p[2] \in 1..MaxList
    BY DEF InLists
  <2>5. \A l \in ListKey, i \in 1..MaxList :
           l # list => (<<l, i>> \in InLists(new, o) <=> <<l, i>> \in S)
    BY <2>2, <2>3, <1>4
  <2>6. \A i \in 1..MaxList : <<list, i>> \in S => <<list, i + 1>> \in InLists(new, o)
    <3> TAKE i \in 1..MaxList
    <3> HAVE <<list, i>> \in S
    <3>1. i \in 1..Len(old) /\ old[i].buffer = o
      BY <1>5, <2>2
    <3>2. i + 1 \in 1..(Len(old) + 1) /\ i + 1 \in 1..MaxList
      BY SMTT(30), <1>5, <2>1, <3>1
    <3>3. i + 1 \in DOMAIN new.lists[list] /\ new.lists[list][i + 1].buffer = o
      BY <1>5, <3>1, <3>2
    <3>4. QED BY <3>2, <3>3, <2>3
  <2>7. \A i \in 2..MaxList : <<list, i>> \in InLists(new, o) => <<list, i - 1>> \in S
    <3> TAKE i \in 2..MaxList
    <3> HAVE <<list, i>> \in InLists(new, o)
    <3>1. i \in 1..(Len(old) + 1) /\ new.lists[list][i].buffer = o
      BY <1>5, <2>3
    <3>2. i - 1 \in 1..Len(old) /\ new.lists[list][(i - 1) + 1] = old[i - 1] /\ (i - 1) + 1 = i
      BY <1>5, <3>1
    <3>3. i - 1 \in 1..MaxList /\ i - 1 \in DOMAIN old /\ old[i - 1].buffer = o
      BY SMTT(30), <1>5, <2>1, <3>1, <3>2
    <3>4. QED BY <3>3, <2>2
  <2>8. <<list, 1>> \in InLists(new, o) <=> o = buffer
    BY <2>1, <2>3, <1>3, <1>5
  <2>9. IsFiniteSet(S) /\ IsFiniteSet(T) /\ IsFiniteSet(InLists(new, o))
    BY PlacesFinite, FS_Difference
  <2>10. Cardinality(T) = Cardinality(S)
    <3> HIDE DEF S
    <3>1. \A p \in S : p = <<p[1], p[2]>> /\ p[1] \in ListKey /\ p[2] \in 1..MaxList
      BY <2>4 DEF S
    <3>2. \A p \in T : /\ p = <<p[1], p[2]>> /\ p[1] \in ListKey /\ p[2] \in 1..MaxList
                       /\ p \in InLists(new, o) /\ (p[1] = list => p[2] \in 2..MaxList)
      BY <2>4, <2>1
    <3>3. ASSUME NEW p \in S
          PROVE  /\ (IF p[1] = list THEN <<list, p[2] + 1>> ELSE p) \in T
      <4>1. CASE p[1] = list
        BY <4>1, <3>1, <2>6
      <4>2. CASE p[1] # list
        BY <4>2, <3>1, <2>5
      <4>3. QED BY <4>1, <4>2
    <3>4. ASSUME NEW p \in T
          PROVE  (IF p[1] = list THEN <<list, p[2] - 1>> ELSE p) \in S
      <4>1. CASE p[1] = list
        BY <4>1, <3>2, <2>7
      <4>2. CASE p[1] # list
        BY <4>2, <3>2, <2>5
      <4>3. QED BY <4>1, <4>2
    <3> HIDE DEF T
    <3>5. f \in [S -> T] /\ g \in [T -> S]
      BY <3>3, <3>4
    <3>6. \A p \in S : g[f[p]] = p
      BY <3>1, <3>3, <3>5
    <3>7. \A p \in T : f[g[p]] = p
      BY <3>2, <3>4, <3>5
    <3> HIDE DEF f, g
    <3>8. QED BY <3>5, <3>6, <3>7, <2>9, CountedAlike
  <2>11. Cardinality(InLists(new, o)) = Cardinality(T) + IF o = buffer THEN 1 ELSE 0
    <3>1. Cardinality(T) = IF <<list, 1>> \in InLists(new, o)
                           THEN Cardinality(InLists(new, o)) - 1 ELSE Cardinality(InLists(new, o))
      BY <2>9, FS_RemoveElement
    <3>2. Cardinality(InLists(new, o)) \in Nat
      BY PlacesFinite
    <3> HIDE DEF T
    <3>3. QED BY <3>1, <3>2, <2>8
  <2>12. InArray(new, o) = InArray(dict, o)
    BY <1>2 DEF InArray
  <2>13. /\ Count(dict, o) = Cardinality(InArray(dict, o)) + Cardinality(S)
         /\ Count(new, o) = Cardinality(InArray(dict, o)) + Cardinality(InLists(new, o))
         /\ Cardinality(InArray(dict, o)) \in Nat /\ Cardinality(S) \in Nat
    BY <2>12, PlacesFinite
  <2> HIDE DEF S, T
  <2>14. QED BY <2>10, <2>11, <2>13
<1>8. QED BY <1>6, <1>7 DEF new

LEMMA Reversed ==
    ASSUME NEW T, NEW s \in Seq(T)
    PROVE  /\ Reverse(s) \in Seq(T) /\ Len(Reverse(s)) = Len(s)
           /\ DOMAIN s = 1..Len(s) /\ DOMAIN Reverse(s) = 1..Len(s) /\ Len(s) \in Nat
           /\ \A i \in 1..Len(s) : /\ (Len(s) - i) + 1 \in 1..Len(s)
                                   /\ (Len(s) - ((Len(s) - i) + 1)) + 1 = i
                                   /\ Reverse(s)[i] = s[(Len(s) - i) + 1]
                                   /\ Reverse(s)[(Len(s) - i) + 1] = s[i]
<1>1. Len(s) \in Nat /\ DOMAIN s = 1..Len(s) /\ \A i \in 1..Len(s) : s[i] \in T
  OBVIOUS
<1>2. \A i \in 1..Len(s) : /\ (Len(s) - i) + 1 \in 1..Len(s)
                           /\ (Len(s) - ((Len(s) - i) + 1)) + 1 = i
  BY <1>1
<1>3. Reverse(s) = [i \in 1..Len(s) |-> s[(Len(s) - i) + 1]]
  BY DEF Reverse
<1>4. Reverse(s) \in Seq(T) /\ Len(Reverse(s)) = Len(s)
  <2>1. \A i \in 1..Len(s) : s[(Len(s) - i) + 1] \in T
    BY <1>1, <1>2
  <2>2. QED BY <1>1, <1>3, <2>1
<1>5. DOMAIN Reverse(s) = 1..Len(s) /\ \A i \in 1..Len(s) : Reverse(s)[i] = s[(Len(s) - i) + 1]
  BY <1>3
<1>6. \A i \in 1..Len(s) : Reverse(s)[(Len(s) - i) + 1] = s[i]
  BY <1>2, <1>5
<1>7. QED BY <1>1, <1>2, <1>4, <1>5, <1>6

LEMMA CopyShape ==
    ASSUME NEW dict \in DictionaryRecord
    PROVE  /\ Copied(dict) \in DictionaryRecord
           /\ Copied(dict).references = 1 /\ Copied(dict).type = dict.type
           /\ Copied(dict).direct = dict.direct
           /\ \A list \in ListKey : Copied(dict).lists[list] = Reverse(dict.lists[list])
<1> DEFINE lists == [list \in ListKey |-> Reverse(dict.lists[list])]
<1>1. \A list \in ListKey : Reverse(dict.lists[list]) \in Seq(ListEntry)
  BY Reversed DEF DictionaryRecord
<1>2. lists \in [ListKey -> Seq(ListEntry)] /\ \A list \in ListKey : lists[list] = Reverse(dict.lists[list])
  BY <1>1
<1>3. Copied(dict) = [dict EXCEPT !.references = 1, !.lists = lists]
  BY DEF Copied, DictionaryRecord
<1> HIDE DEF lists
<1>4. Copied(dict).references = 1 /\ Copied(dict).type = dict.type
      /\ Copied(dict).direct = dict.direct /\ Copied(dict).lists = lists
  BY <1>3 DEF DictionaryRecord
<1>5. Copied(dict) \in DictionaryRecord
  <2>1. lists \in [ListKey -> Seq(ListEntry)]
    BY <1>2
  <2> DEFINE one == [dict EXCEPT !.references = 1]
  <2>2. one \in DictionaryRecord
    BY DEF DictionaryRecord
  <2>3. Copied(dict) = [one EXCEPT !.lists = lists]
    BY <1>3 DEF DictionaryRecord
  <2> HIDE DEF one
  <2>4. [one EXCEPT !.lists = lists] \in DictionaryRecord
    BY <2>1, <2>2 DEF DictionaryRecord
  <2>5. QED BY <2>3, <2>4
<1>6. QED BY <1>2, <1>4, <1>5

(* A copy refers to what its source refers to, as often. *)
LEMMA CopyCounts ==
    ASSUME NEW dict, Sound(dict)
    PROVE  /\ Sound(Copied(dict))
           /\ \A o \in Object : Count(Copied(dict), o) = Count(dict, o)
<1> DEFINE new == Copied(dict)
<1>1. /\ dict \in DictionaryRecord /\ new \in DictionaryRecord /\ new.direct = dict.direct
      /\ \A list \in ListKey : new.lists[list] = Reverse(dict.lists[list])
  BY CopyShape DEF Sound
<1> HIDE DEF new
<1>2. \A list \in ListKey : dict.lists[list] \in Seq(ListEntry)
  BY <1>1 DEF DictionaryRecord
<1>3. \A list \in ListKey :
         /\ Len(new.lists[list]) = Len(dict.lists[list]) /\ Len(dict.lists[list]) \in Nat
         /\ DOMAIN dict.lists[list] = 1..Len(dict.lists[list])
         /\ DOMAIN new.lists[list] = 1..Len(dict.lists[list])
         /\ \A i \in 1..Len(dict.lists[list]) :
               /\ (Len(dict.lists[list]) - i) + 1 \in 1..Len(dict.lists[list])
               /\ (Len(dict.lists[list]) - ((Len(dict.lists[list]) - i) + 1)) + 1 = i
               /\ new.lists[list][i] = dict.lists[list][(Len(dict.lists[list]) - i) + 1]
               /\ new.lists[list][(Len(dict.lists[list]) - i) + 1] = dict.lists[list][i]
  <2> TAKE list \in ListKey
  <2> DEFINE s == dict.lists[list]
  <2>1. s \in Seq(ListEntry) /\ new.lists[list] = Reverse(s)
    BY <1>1, <1>2
  <2> HIDE DEF s
  <2>2. QED BY <2>1, Reversed DEF s
<1>4. /\ Sound(new)
      /\ \A list \in ListKey : Len(dict.lists[list]) <= MaxList
  BY <1>1, <1>3 DEF Sound
<1>5. ASSUME NEW o \in Object PROVE Count(new, o) = Count(dict, o)
  <2> DEFINE Mirror(p) == <<p[1], (Len(dict.lists[p[1]]) - p[2]) + 1>>
             S == InLists(dict, o)
             T == InLists(new, o)
             f == [p \in S |-> Mirror(p)]
             g == [p \in T |-> Mirror(p)]
  <2>1. ASSUME NEW p \in S
        PROVE  Mirror(p) \in T /\ Mirror(Mirror(p)) = p
    <3>1. /\ p = <<p[1], p[2]>> /\ p[1] \in ListKey /\ p[2] \in 1..Len(dict.lists[p[1]])
          /\ dict.lists[p[1]][p[2]].buffer = o
      BY <1>3 DEF InLists
    <3> DEFINE i == (Len(dict.lists[p[1]]) - p[2]) + 1
    <3>2. /\ i \in 1..Len(dict.lists[p[1]]) /\ (Len(dict.lists[p[1]]) - i) + 1 = p[2]
          /\ new.lists[p[1]][i].buffer = o
      BY <1>3, <3>1
    <3>3. i \in 1..MaxList
      BY <3>1, <3>2, <1>3, <1>4, CountAssumption
    <3> HIDE DEF i
    <3>4. <<p[1], i>> \in T
      BY <3>1, <3>2, <3>3, <1>3 DEF InLists
    <3>5. QED BY <3>1, <3>2, <3>4 DEF i
  <2>2. ASSUME NEW p \in T
        PROVE  Mirror(p) \in S /\ Mirror(Mirror(p)) = p
    <3>1. /\ p = <<p[1], p[2]>> /\ p[1] \in ListKey /\ p[2] \in 1..Len(dict.lists[p[1]])
          /\ new.lists[p[1]][p[2]].buffer = o
      BY <1>3 DEF InLists
    <3> DEFINE i == (Len(dict.lists[p[1]]) - p[2]) + 1
    <3>2. /\ i \in 1..Len(dict.lists[p[1]]) /\ (Len(dict.lists[p[1]]) - i) + 1 = p[2]
          /\ dict.lists[p[1]][i].buffer = o
      BY <1>3, <3>1
    <3>3. i \in 1..MaxList
      BY <3>1, <3>2, <1>3, <1>4, CountAssumption
    <3> HIDE DEF i
    <3>4. <<p[1], i>> \in S
      BY <3>1, <3>2, <3>3, <1>3 DEF InLists
    <3>5. QED BY <3>1, <3>2, <3>4 DEF i
  <2>3. Cardinality(T) = Cardinality(S)
    <3>1. IsFiniteSet(S)
      BY PlacesFinite
    <3> HIDE DEF S, T, Mirror
    <3>2. f \in [S -> T] /\ g \in [T -> S]
      BY <2>1, <2>2
    <3>3. \A p \in S : g[f[p]] = p
      BY <2>1
    <3>4. \A p \in T : f[g[p]] = p
      BY <2>2
    <3> HIDE DEF f, g
    <3>5. QED BY <3>1, <3>2, <3>3, <3>4, CountedAlike
  <2>4. InArray(new, o) = InArray(dict, o)
    BY <1>1 DEF InArray
  <2>5. QED BY <2>3, <2>4, PlacesFinite
<1>6. QED BY <1>4, <1>5 DEF new

----------------------------------------------------------------------------
(* Counting over all dictionaries.                                         *)

HoldersIn(all, o) ==
    UNION {{d} \X Places(all[d], o) : d \in {e \in Dictionary : all[e] # NoDictionary}}

CountIn(dict, o) == IF dict = NoDictionary THEN 0 ELSE Count(dict, o)

LEMMA HoldersAreIn == \A o : Holders(o) = HoldersIn(dictionary, o)
BY DEF Holders, HoldersIn, Live

(* When one dictionary changes, the holders change by what it counts. *)
LEMMA OneDictionaryCounts ==
    ASSUME NEW all, NEW d \in Dictionary, NEW new, NEW o,
           DOMAIN all = Dictionary, IsFiniteSet(HoldersIn(all, o))
    PROVE  /\ IsFiniteSet(HoldersIn([all EXCEPT ![d] = new], o))
           /\ Cardinality(HoldersIn([all EXCEPT ![d] = new], o)) =
                 Cardinality(HoldersIn(all, o)) - CountIn(all[d], o) + CountIn(new, o)
           /\ Cardinality(HoldersIn(all, o)) \in Nat
<1> DEFINE Of(dict) == IF dict = NoDictionary THEN {} ELSE {d} \X Places(dict, o)
           rest == UNION {{e} \X Places(all[e], o) :
                            e \in {e \in Dictionary \ {d} : all[e] # NoDictionary}}
           next == [all EXCEPT ![d] = new]
<1>1. HoldersIn(all, o) = rest \cup Of(all[d])
  BY DEF HoldersIn
<1>2. HoldersIn(next, o) = rest \cup Of(new)
  <2>1. next[d] = new /\ \A e \in Dictionary \ {d} : next[e] = all[e]
    OBVIOUS
  <2> HIDE DEF next
  <2>2. QED BY <2>1 DEF HoldersIn
<1>3. \A dict : rest \cap Of(dict) = {}
  OBVIOUS
<1>4. ASSUME NEW dict
      PROVE  IsFiniteSet(Of(dict)) /\ Cardinality(Of(dict)) = CountIn(dict, o)
             /\ CountIn(dict, o) \in Nat
  <2>1. CASE dict = NoDictionary
    BY <2>1, FS_EmptySet DEF CountIn
  <2>2. CASE dict # NoDictionary
    <3>1. IsFiniteSet(Places(dict, o)) /\ Cardinality(Places(dict, o)) \in Nat
      BY PlacesFinite DEF Count
    <3>2. IsFiniteSet({d}) /\ Cardinality({d}) = 1
      BY FS_Singleton
    <3>3. /\ IsFiniteSet({d} \X Places(dict, o))
          /\ Cardinality({d} \X Places(dict, o)) = 1 * Cardinality(Places(dict, o))
      BY <3>1, <3>2, FS_Product
    <3>4. QED BY <2>2, <3>1, <3>3 DEF CountIn, Count
  <2>3. QED BY <2>1, <2>2
<1> HIDE DEF rest, Of, next
<1>5. IsFiniteSet(rest)
  <2>1. rest \in SUBSET HoldersIn(all, o)
    BY <1>1
  <2>2. QED BY <2>1, FS_Subset
<1>6. ASSUME NEW dict
      PROVE  /\ IsFiniteSet(rest \cup Of(dict))
             /\ Cardinality(rest \cup Of(dict)) = Cardinality(rest) + CountIn(dict, o)
             /\ CountIn(dict, o) \in Nat /\ Cardinality(rest) \in Nat
  <2>1. Cardinality(rest \cap Of(dict)) = 0
    BY <1>3, FS_EmptySet
  <2>2. /\ IsFiniteSet(rest \cup Of(dict))
        /\ Cardinality(rest \cup Of(dict)) =
              Cardinality(rest) + Cardinality(Of(dict)) - Cardinality(rest \cap Of(dict))
    BY <1>4, <1>5, FS_Union
  <2>3. Cardinality(rest) \in Nat
    BY <1>5, FS_CardinalityType
  <2>4. QED BY <1>4, <2>1, <2>2, <2>3
<1>7. IsFiniteSet(HoldersIn(next, o))
  BY <1>2, <1>6
<1>8. Cardinality(HoldersIn(next, o)) =
         Cardinality(HoldersIn(all, o)) - CountIn(all[d], o) + CountIn(new, o)
  <2>1. Cardinality(HoldersIn(next, o)) = Cardinality(rest) + CountIn(new, o)
    BY <1>2, <1>6
  <2>2. Cardinality(HoldersIn(all, o)) = Cardinality(rest) + CountIn(all[d], o)
    BY <1>1, <1>6
  <2>3. CountIn(all[d], o) \in Nat /\ CountIn(new, o) \in Nat /\ Cardinality(rest) \in Nat
    BY <1>6
  <2>4. QED BY <2>1, <2>2, <2>3
<1>9. Cardinality(HoldersIn(all, o)) \in Nat
  BY FS_CardinalityType
<1>10. QED BY <1>7, <1>8, <1>9 DEF next

----------------------------------------------------------------------------
(* The inductive invariant of the dictionary.                              *)

ListsBounded == \A d \in Live : Sound(dictionary[d])
HoldersFinite == \A o \in Object : IsFiniteSet(Holders(o))
DictionaryInv == DictionaryTypeOK /\ ReferencesExact /\ ListsBounded /\ HoldersFinite

(* The objects' counts stay exact when an action changes the one           *)
(* dictionary d, what the client holds, and the counts by as much.         *)
LEMMA OneChanged ==
    ASSUME DictionaryInv, NEW d \in Dictionary, NEW new,
           new = NoDictionary \/ Sound(new),
           dictionary' = [dictionary EXCEPT ![d] = new],
           held' \in [Object -> Nat], references' \in [Object -> Int],
           \A o \in Object :
              references'[o] - held'[o] =
                 references[o] - held[o] + CountIn(new, o) - CountIn(dictionary[d], o)
    PROVE  DictionaryInv'
<1>1. dictionary' \in [Dictionary -> DictionaryRecord \cup {NoDictionary}]
  BY DEF DictionaryInv, DictionaryTypeOK, Sound
<1>2. ListsBounded'
  BY DEF DictionaryInv, ListsBounded, Live, DictionaryTypeOK
<1>3. ASSUME NEW o \in Object
      PROVE  /\ IsFiniteSet(Holders(o)')
             /\ references'[o] = held'[o] + Cardinality(Holders(o)')
             /\ references'[o] \in Nat
  <2>1. /\ IsFiniteSet(HoldersIn(dictionary, o)) /\ DOMAIN dictionary = Dictionary
        /\ references[o] = held[o] + Cardinality(HoldersIn(dictionary, o))
        /\ references[o] \in Nat /\ held[o] \in Nat
    BY HoldersAreIn DEF DictionaryInv, HoldersFinite, ReferencesExact, DictionaryTypeOK
  <2>2. /\ IsFiniteSet(HoldersIn(dictionary', o))
        /\ Cardinality(HoldersIn(dictionary', o)) =
              Cardinality(HoldersIn(dictionary, o)) - CountIn(dictionary[d], o) + CountIn(new, o)
        /\ Cardinality(HoldersIn(dictionary, o)) \in Nat
    <3>1. /\ IsFiniteSet(HoldersIn([dictionary EXCEPT ![d] = new], o))
          /\ Cardinality(HoldersIn([dictionary EXCEPT ![d] = new], o)) =
                Cardinality(HoldersIn(dictionary, o)) - CountIn(dictionary[d], o)
                   + CountIn(new, o)
          /\ Cardinality(HoldersIn(dictionary, o)) \in Nat
      BY <2>1, OneDictionaryCounts, Zenon
    <3>2. dictionary' = [dictionary EXCEPT ![d] = new]
      OBVIOUS
    <3>3. QED BY <3>1, <3>2, Zenon
  <2>3. CountIn(new, o) \in Nat /\ CountIn(dictionary[d], o) \in Nat
    BY PlacesFinite DEF CountIn
  <2>4. Holders(o)' = HoldersIn(dictionary', o)
    BY DEF Holders, HoldersIn, Live
  <2>5. references'[o] \in Int /\ held'[o] \in Nat
    OBVIOUS
  <2>6. references'[o] - held'[o] =
           references[o] - held[o] + CountIn(new, o) - CountIn(dictionary[d], o)
    OBVIOUS
  <2>7. Cardinality(HoldersIn(dictionary', o)) \in Nat
    BY <2>2, FS_CardinalityType
  <2>8. references'[o] = held'[o] + Cardinality(HoldersIn(dictionary', o))
    BY ONLY <2>1, <2>2, <2>3, <2>5, <2>6, <2>7
  <2>9. QED BY <2>2, <2>4, <2>5, <2>7, <2>8
<1>4. ReferencesExact' /\ HoldersFinite'
  BY <1>3 DEF ReferencesExact, HoldersFinite
<1>5. references' \in [Object -> Nat]
  BY <1>3
<1>6. QED BY <1>1, <1>2, <1>4, <1>5 DEF DictionaryInv, DictionaryTypeOK

(* ... or changes no dictionary. *)
LEMMA HeldChanged ==
    ASSUME DictionaryInv, dictionary' = dictionary,
           held' \in [Object -> Nat], references' \in [Object -> Int],
           \A o \in Object : references'[o] - held'[o] = references[o] - held[o]
    PROVE  DictionaryInv'
<1>1. \A o \in Object : Holders(o)' = Holders(o)
  BY DEF Holders, Live
<1>2. ListsBounded' /\ HoldersFinite'
  BY <1>1 DEF DictionaryInv, ListsBounded, HoldersFinite, Live
<1>3. ASSUME NEW o \in Object
      PROVE  references'[o] = held'[o] + Cardinality(Holders(o)') /\ references'[o] \in Nat
  <2>1. /\ references[o] = held[o] + Cardinality(Holders(o))
        /\ references[o] \in Nat /\ held[o] \in Nat
        /\ Cardinality(Holders(o)) \in Nat
    BY FS_CardinalityType DEF DictionaryInv, HoldersFinite, ReferencesExact, DictionaryTypeOK
  <2>2. references'[o] \in Int /\ held'[o] \in Nat /\ references'[o] - held'[o] = references[o] - held[o]
    OBVIOUS
  <2>3. references'[o] = held'[o] + Cardinality(Holders(o))
    BY ONLY <2>1, <2>2
  <2>4. QED BY <1>1, <2>1, <2>2, <2>3
<1>4. ReferencesExact'
  BY <1>3 DEF ReferencesExact
<1>5. DictionaryTypeOK'
  BY <1>3 DEF DictionaryInv, DictionaryTypeOK
<1>6. QED BY <1>2, <1>4, <1>5 DEF DictionaryInv

LEMMA LiveSound ==
    ASSUME DictionaryInv, NEW d \in Live
    PROVE  /\ d \in Dictionary /\ Sound(dictionary[d]) /\ dictionary[d] \in DictionaryRecord
           /\ dictionary[d].references \in Nat \ {0} /\ dictionary[d].type \in MessageType
           /\ dictionary[d].direct \in [FastKey -> Entry]
           /\ dictionary[d].lists \in [ListKey -> Seq(ListEntry)]
           /\ \A o \in Object : CountIn(dictionary[d], o) = Count(dictionary[d], o)
           /\ \A o \in Object : Count(dictionary[d], o) \in Nat
<1>1. d \in Dictionary /\ dictionary[d] # NoDictionary /\ Sound(dictionary[d])
  BY DEF DictionaryInv, ListsBounded, Live
<1>2. dictionary[d] \in DictionaryRecord
  BY <1>1 DEF Sound
<1>3. /\ dictionary[d].references \in Nat \ {0} /\ dictionary[d].type \in MessageType
      /\ dictionary[d].direct \in [FastKey -> Entry]
      /\ dictionary[d].lists \in [ListKey -> Seq(ListEntry)]
  BY <1>2 DEF DictionaryRecord
<1>4. QED BY <1>1, <1>2, <1>3, PlacesFinite DEF CountIn

(* A change to a live dictionary that leaves the objects alone. *)
LEMMA CountKept ==
    ASSUME DictionaryInv, NEW d \in Live, NEW new, Sound(new),
           \A o \in Object : Count(new, o) = Count(dictionary[d], o),
           dictionary' = [dictionary EXCEPT ![d] = new], UNCHANGED objectVars
    PROVE  DictionaryInv'
<1>1. new # NoDictionary
  BY NoDictionaryAssumption DEF Sound
<1>2. d \in Dictionary /\ \A o \in Object : CountIn(dictionary[d], o) = Count(dictionary[d], o)
  BY LiveSound
<1>3. \A o \in Object : CountIn(new, o) = Count(dictionary[d], o) /\ Count(dictionary[d], o) \in Nat
  BY <1>1, PlacesFinite DEF CountIn
<1>4. /\ held' \in [Object -> Nat] /\ references' \in [Object -> Nat]
      /\ held' = held /\ references' = references
  BY DEF DictionaryInv, DictionaryTypeOK, objectVars
<1>5. \A o \in Object :
         references'[o] - held'[o] =
            references[o] - held[o] + CountIn(new, o) - CountIn(dictionary[d], o)
  BY <1>2, <1>3, <1>4
<1>6. references' \in [Object -> Int]
  BY <1>4
<1>7. QED BY <1>2, <1>4, <1>5, <1>6, OneChanged

LEMMA DictionaryInvInit == Init => DictionaryInv
<1> SUFFICES ASSUME Init PROVE DictionaryInv
  OBVIOUS
<1>1. /\ Live = {} /\ \A o : Holders(o) = {}
      /\ references \in [Object -> Nat] /\ held \in [Object -> Nat]
      /\ \A o \in Object : references[o] = 0 /\ held[o] = 0
      /\ dictionary \in [Dictionary -> DictionaryRecord \cup {NoDictionary}]
  BY DEF Init, Live, Holders
<1>2. ReferencesExact /\ HoldersFinite
  <2>1. \A o : IsFiniteSet(Holders(o)) /\ Cardinality(Holders(o)) = 0
    BY <1>1, FS_EmptySet, Zenon
  <2>2. QED BY <1>1, <2>1 DEF ReferencesExact, HoldersFinite
<1>3. QED BY <1>1, <1>2 DEF DictionaryInv, DictionaryTypeOK, ListsBounded

(* Lending a value out of a dictionary. *)
LEMMA AcquireEntryKeeps ==
    ASSUME DictionaryInv, NEW d \in Dictionary, NEW key \in FastKey, AcquireEntry(d, key)
    PROVE  DictionaryInv'
<1> DEFINE v == dictionary[d].direct[key].value
<1>1. d \in Live /\ dictionary[d].direct[key].kind \in Kind
  BY DEF AcquireEntry
<1>2. v \in Object
  BY <1>1, LiveSound, EntryFacts
<1>3. /\ references' = [references EXCEPT ![v] = @ + 1]
      /\ held' = [held EXCEPT ![v] = @ + 1] /\ dictionary' = dictionary
  BY DEF AcquireEntry
<1>4. references \in [Object -> Nat] /\ held \in [Object -> Nat]
  BY DEF DictionaryInv, DictionaryTypeOK
<1> HIDE DEF v
<1>5. /\ held' \in [Object -> Nat] /\ references' \in [Object -> Int]
      /\ \A p \in Object : references'[p] - held'[p] = references[p] - held[p]
  BY <1>2, <1>3, <1>4
<1>6. QED BY <1>3, <1>5, HeldChanged

LEMMA CreateKeeps ==
    ASSUME DictionaryInv, NEW d \in Dictionary, NEW type \in MessageType, Create(d, type)
    PROVE  DictionaryInv'
<1> DEFINE new == EmptyDictionary(type)
<1>1. Sound(new) /\ \A o \in Object : Count(new, o) = 0
  BY EmptyCounts
<1>2. /\ dictionary[d] = NoDictionary /\ dictionary' = [dictionary EXCEPT ![d] = new]
      /\ references' = references /\ held' = held
  BY DEF Create, Live, objectVars
<1> HIDE DEF new
<1>3. new # NoDictionary
  BY <1>1, NoDictionaryAssumption DEF Sound
<1>4. /\ references' \in [Object -> Int] /\ held' \in [Object -> Nat]
      /\ \A o \in Object :
            references'[o] - held'[o] =
               references[o] - held[o] + CountIn(new, o) - CountIn(dictionary[d], o)
  BY <1>1, <1>2, <1>3 DEF CountIn, DictionaryInv, DictionaryTypeOK
<1>5. QED BY <1>1, <1>2, <1>4, OneChanged

LEMMA HeaderKeeps ==
    ASSUME DictionaryInv, NEW d \in Live, NEW references_ \in Nat \ {0},
           NEW type \in MessageType, UNCHANGED objectVars,
           dictionary' = [dictionary EXCEPT ![d] =
              [dictionary[d] EXCEPT !.references = references_, !.type = type]]
    PROVE  DictionaryInv'
<1> DEFINE one == [dictionary[d] EXCEPT !.references = references_]
           new == [one EXCEPT !.type = type]
<1>1. d \in Dictionary /\ dictionary[d] \in DictionaryRecord
      /\ \A list \in ListKey : Len(dictionary[d].lists[list]) <= MaxList
  BY LiveSound DEF Sound
<1>2. one \in DictionaryRecord /\ one.lists = dictionary[d].lists /\ one.direct = dictionary[d].direct
  BY <1>1 DEF DictionaryRecord
<1>3. [dictionary[d] EXCEPT !.references = references_, !.type = type] = new
  BY <1>1 DEF DictionaryRecord
<1> HIDE DEF one
<1>4. new \in DictionaryRecord /\ new.lists = one.lists /\ new.direct = one.direct
  BY <1>2 DEF DictionaryRecord
<1>5. Sound(new)
  BY <1>1, <1>2, <1>4 DEF Sound
<1> HIDE DEF new
<1>6. \A o \in Object : Count(new, o) = Count(dictionary[d], o)
  BY <1>2, <1>4, CountDependsOn
<1>7. dictionary' = [dictionary EXCEPT ![d] = new]
  BY <1>3
<1>8. QED BY <1>5, <1>6, <1>7, CountKept

(* The last release gives back every reference of the dictionary. *)
LEMMA FinalReleaseKeeps ==
    ASSUME DictionaryInv, NEW d \in Live, FinalRelease(d)
    PROVE  DictionaryInv'
<1>1. /\ d \in Dictionary /\ \A o \in Object : CountIn(dictionary[d], o) = Count(dictionary[d], o)
      /\ \A o \in Object : Count(dictionary[d], o) \in Nat
  BY LiveSound
<1>2. /\ dictionary' = [dictionary EXCEPT ![d] = NoDictionary] /\ held' = held
      /\ references' = [o \in Object |-> references[o] - Count(dictionary[d], o)]
  BY DEF FinalRelease, Count
<1>3. \A o : CountIn(NoDictionary, o) = 0
  BY DEF CountIn
<1>4. /\ references \in [Object -> Nat] /\ held \in [Object -> Nat]
  BY DEF DictionaryInv, DictionaryTypeOK
<1>5. /\ references' \in [Object -> Int] /\ held' \in [Object -> Nat]
      /\ \A o \in Object :
            references'[o] - held'[o] =
               references[o] - held[o] + CountIn(NoDictionary, o) - CountIn(dictionary[d], o)
  BY <1>1, <1>2, <1>3, <1>4
<1>6. QED BY <1>1, <1>2, <1>5, OneChanged

LEMMA ReleaseKeeps ==
    ASSUME DictionaryInv, NEW d \in Dictionary, Release(d)
    PROVE  DictionaryInv'
<1>1. d \in Live
  BY DEF Release
<1>2. CASE dictionary[d].references = 1 /\ FinalRelease(d)
  BY <1>1, <1>2, FinalReleaseKeeps
<1>3. CASE /\ dictionary[d].references > 1
           /\ dictionary' = [dictionary EXCEPT ![d].references = @ - 1]
           /\ UNCHANGED objectVars
  <2>1. /\ dictionary[d] \in DictionaryRecord /\ dictionary[d].references - 1 \in Nat \ {0}
        /\ dictionary[d].type \in MessageType
    BY <1>1, <1>3, LiveSound
  <2>2. [dictionary[d] EXCEPT !.references = @ - 1] =
        [dictionary[d] EXCEPT !.references = dictionary[d].references - 1,
                              !.type = dictionary[d].type]
    BY <2>1 DEF DictionaryRecord
  <2>3. dictionary' = [dictionary EXCEPT ![d] =
           [dictionary[d] EXCEPT !.references = dictionary[d].references - 1,
                                 !.type = dictionary[d].type]]
    BY <1>3, <2>2
  <2>4. UNCHANGED objectVars
    BY <1>3
  <2>5. QED BY <1>1, <2>1, <2>3, <2>4, HeaderKeeps
<1>4. QED BY <1>2, <1>3 DEF Release

LEMMA HeadersKeep ==
    ASSUME DictionaryInv, NEW d \in Dictionary, NEW type \in MessageType,
           Acquire(d) \/ SetMessageType(d, type)
    PROVE  DictionaryInv'
<1>1. d \in Live
  BY DEF Acquire, SetMessageType
<1>2. /\ dictionary[d] \in DictionaryRecord /\ dictionary[d].references + 1 \in Nat \ {0}
      /\ dictionary[d].references \in Nat \ {0} /\ dictionary[d].type \in MessageType
  BY <1>1, LiveSound
<1>3. CASE Acquire(d)
  <2>1. [dictionary[d] EXCEPT !.references = @ + 1] =
        [dictionary[d] EXCEPT !.references = dictionary[d].references + 1,
                              !.type = dictionary[d].type]
    BY <1>2 DEF DictionaryRecord
  <2>2. dictionary' = [dictionary EXCEPT ![d] =
           [dictionary[d] EXCEPT !.references = dictionary[d].references + 1,
                                 !.type = dictionary[d].type]]
    BY <1>3, <2>1 DEF Acquire
  <2>3. UNCHANGED objectVars
    BY <1>3 DEF Acquire
  <2>4. QED BY <1>1, <1>2, <2>2, <2>3, HeaderKeeps
<1>4. CASE SetMessageType(d, type)
  <2>1. [dictionary[d] EXCEPT !.type = type] =
        [dictionary[d] EXCEPT !.references = dictionary[d].references, !.type = type]
    BY <1>2 DEF DictionaryRecord
  <2>2. dictionary' = [dictionary EXCEPT ![d] =
           [dictionary[d] EXCEPT !.references = dictionary[d].references, !.type = type]]
    BY <1>4, <2>1 DEF SetMessageType
  <2>3. UNCHANGED objectVars
    BY <1>4 DEF SetMessageType
  <2>4. QED BY <1>1, <1>2, <2>2, <2>3, HeaderKeeps
<1>5. QED BY <1>3, <1>4

LEMMA PutKeeps ==
    ASSUME DictionaryInv, NEW d \in Dictionary, NEW key \in FastKey, NEW o \in Object,
           Put(d, key, o)
    PROVE  DictionaryInv'
<1>1. d \in Live /\ held' = held
  BY DEF Put
<1>2. Sound(dictionary[d]) /\ \A p \in Object : /\ CountIn(dictionary[d], p) = Count(dictionary[d], p)
                                               /\ Count(dictionary[d], p) \in Nat
  BY <1>1, LiveSound
<1>3. /\ references \in [Object -> Nat] /\ held \in [Object -> Nat]
  BY DEF DictionaryInv, DictionaryTypeOK
<1>4. CASE ~IsUnset(dictionary[d], key)
  <2>1. /\ dictionary' = dictionary /\ references' \in [Object -> Int] /\ held' \in [Object -> Nat]
        /\ \A p \in Object : references'[p] - held'[p] = references[p] - held[p]
    BY <1>1, <1>3, <1>4 DEF Put
  <2>2. QED BY <2>1, HeldChanged
<1>5. CASE IsUnset(dictionary[d], key)
  <2> DEFINE new == WithEntry(dictionary[d], key, ValueEntry(o))
  <2>1. Sound(new) /\ \A p \in Object : Count(new, p) = Count(dictionary[d], p) + IF p = o THEN 1 ELSE 0
    BY <1>2, <1>5, EntryCounts DEF IsUnset
  <2>2. /\ dictionary' = [dictionary EXCEPT ![d] = new]
        /\ references' = [references EXCEPT ![o] = @ + 1]
    BY <1>5 DEF Put
  <2> HIDE DEF new
  <2>3. \A p \in Object : CountIn(new, p) = Count(new, p)
    BY <2>1, NoDictionaryAssumption DEF CountIn, Sound
  <2>4. /\ references' \in [Object -> Int] /\ held' \in [Object -> Nat]
        /\ \A p \in Object :
              references'[p] - held'[p] =
                 references[p] - held[p] + CountIn(new, p) - CountIn(dictionary[d], p)
    BY <1>1, <1>2, <1>3, <2>1, <2>2, <2>3
  <2>5. QED BY <2>1, <2>2, <2>4, OneChanged
<1>6. QED BY <1>4, <1>5

LEMMA PutIntegerKeeps ==
    ASSUME DictionaryInv, NEW d \in Dictionary, NEW key \in FastKey, NEW n \in Integer,
           PutInteger(d, key, n)
    PROVE  DictionaryInv'
<1>1. d \in Live /\ UNCHANGED objectVars /\ Sound(dictionary[d])
  BY LiveSound DEF PutInteger
<1>2. /\ Sound(WithInteger(dictionary[d], key, n))
      /\ \A o \in Object : Count(WithInteger(dictionary[d], key, n), o) = Count(dictionary[d], o)
  BY <1>1, IntegerCounts
<1>3. dictionary' = [dictionary EXCEPT ![d] = WithInteger(dictionary[d], key, n)]
  BY DEF PutInteger
<1>4. QED BY <1>1, <1>2, <1>3, CountKept

LEMMA PutListKeeps ==
    ASSUME DictionaryInv, NEW d \in Dictionary, NEW list \in ListKey, NEW key \in EntryKey,
           NEW buffer \in BufferObject, PutListBuffer(d, list, key, buffer)
    PROVE  DictionaryInv'
<1> DEFINE new == WithListBuffer(dictionary[d], list, key, buffer)
<1>1. /\ d \in Live /\ held' = held /\ Len(dictionary[d].lists[list]) < MaxList
      /\ dictionary' = [dictionary EXCEPT ![d] = new]
      /\ references' = [references EXCEPT ![buffer] = @ + 1]
  BY DEF PutListBuffer
<1>2. Sound(dictionary[d]) /\ \A p \in Object : /\ CountIn(dictionary[d], p) = Count(dictionary[d], p)
                                               /\ Count(dictionary[d], p) \in Nat
  BY <1>1, LiveSound
<1>3. /\ references \in [Object -> Nat] /\ held \in [Object -> Nat] /\ buffer \in Object
  BY DEF DictionaryInv, DictionaryTypeOK, BufferObject
<1>4. /\ Sound(new)
      /\ \A p \in Object : Count(new, p) = Count(dictionary[d], p) + IF p = buffer THEN 1 ELSE 0
  BY <1>1, <1>2, ListCounts
<1> HIDE DEF new
<1>5. \A p \in Object : CountIn(new, p) = Count(new, p)
  BY <1>4, NoDictionaryAssumption DEF CountIn, Sound
<1>6. /\ references' \in [Object -> Int] /\ held' \in [Object -> Nat]
      /\ \A p \in Object :
            references'[p] - held'[p] =
               references[p] - held[p] + CountIn(new, p) - CountIn(dictionary[d], p)
  BY SMTT(30), <1>1, <1>2, <1>3, <1>4, <1>5
<1>7. QED BY <1>1, <1>4, <1>6, OneChanged

LEMMA ShallowCopyKeeps ==
    ASSUME DictionaryInv, NEW d \in Dictionary, NEW source \in Dictionary,
           ShallowCopy(d, source)
    PROVE  DictionaryInv'
<1> DEFINE new == Copied(dictionary[source])
<1>1. /\ source \in Live /\ held' = held
      /\ dictionary[d] = NoDictionary /\ dictionary' = [dictionary EXCEPT ![d] = new]
      /\ references' = [o \in Object |-> references[o] + Count(dictionary[source], o)]
  BY DEF ShallowCopy, Live, Count
<1>2. Sound(dictionary[source]) /\ \A o \in Object : Count(dictionary[source], o) \in Nat
  BY <1>1, LiveSound
<1>3. Sound(new) /\ \A o \in Object : Count(new, o) = Count(dictionary[source], o)
  BY <1>2, CopyCounts
<1> HIDE DEF new
<1>4. \A o \in Object : CountIn(new, o) = Count(new, o) /\ CountIn(dictionary[d], o) = 0
  BY <1>1, <1>3, NoDictionaryAssumption DEF CountIn, Sound
<1>5. references \in [Object -> Nat] /\ held \in [Object -> Nat]
  BY DEF DictionaryInv, DictionaryTypeOK
<1>6. /\ references' \in [Object -> Int] /\ held' \in [Object -> Nat]
      /\ \A o \in Object :
            references'[o] - held'[o] =
               references[o] - held[o] + CountIn(new, o) - CountIn(dictionary[d], o)
  BY <1>1, <1>2, <1>3, <1>4, <1>5
<1>7. QED BY <1>1, <1>3, <1>6, OneChanged

LEMMA DictionaryInvStep == DictionaryInv /\ [Next]_dictionaryVars => DictionaryInv'
<1> SUFFICES ASSUME DictionaryInv, [Next]_dictionaryVars PROVE DictionaryInv'
  OBVIOUS
<1>1. CASE UNCHANGED dictionaryVars
  BY <1>1 DEF dictionaryVars, objectVars, DictionaryInv, DictionaryTypeOK, ReferencesExact,
              ListsBounded, HoldersFinite, Holders, Live
<1>2. ASSUME NEW o \in Object, NewObject(o) \/ ReleaseObject(o) PROVE DictionaryInv'
  <2>1. /\ references \in [Object -> Nat] /\ held \in [Object -> Nat]
        /\ \A p \in Object : /\ references[p] = held[p] + Cardinality(Holders(p))
                             /\ Cardinality(Holders(p)) \in Nat
    BY FS_CardinalityType DEF DictionaryInv, DictionaryTypeOK, ReferencesExact, HoldersFinite
  <2>2. /\ held' \in [Object -> Nat] /\ references' \in [Object -> Int]
        /\ \A p \in Object : references'[p] - held'[p] = references[p] - held[p]
        /\ dictionary' = dictionary
    <3>1. CASE NewObject(o)
      <4>1. held[o] = 0 /\ references[o] = 0
        BY <2>1, <3>1 DEF NewObject
      <4>2. QED BY <2>1, <3>1, <4>1 DEF NewObject
    <3>2. CASE ReleaseObject(o)
      BY <2>1, <3>2 DEF ReleaseObject
    <3>3. QED BY <1>2, <3>1, <3>2
  <2>3. QED BY <2>2, HeldChanged
<1>3. ASSUME NEW d \in Dictionary, NEW type \in MessageType,
             Create(d, type) \/ SetMessageType(d, type)
      PROVE  DictionaryInv'
  BY <1>3, CreateKeeps, HeadersKeep
<1>4. ASSUME NEW d \in Dictionary, Acquire(d) \/ Release(d) PROVE DictionaryInv'
  <2>1. CASE Acquire(d)
    <3>1. dictionary[d].type \in MessageType
      BY <2>1, LiveSound DEF Acquire
    <3>2. QED BY <2>1, <3>1, HeadersKeep
  <2>2. QED BY <1>4, <2>1, ReleaseKeeps
<1>5. ASSUME NEW d \in Dictionary, NEW source \in Dictionary, ShallowCopy(d, source)
      PROVE  DictionaryInv'
  BY <1>5, ShallowCopyKeeps
<1>6. ASSUME NEW d \in Dictionary, NEW key \in FastKey,
             \/ AcquireEntry(d, key)
             \/ \E o \in Object : Put(d, key, o)
             \/ \E n \in Integer : PutInteger(d, key, n)
      PROVE  DictionaryInv'
  BY <1>6, AcquireEntryKeeps, PutKeeps, PutIntegerKeeps
<1>7. ASSUME NEW d \in Dictionary, NEW list \in ListKey, NEW key \in EntryKey,
             NEW buffer \in BufferObject, PutListBuffer(d, list, key, buffer)
      PROVE  DictionaryInv'
  BY <1>7, PutListKeeps
<1>8. QED BY <1>1, <1>2, <1>3, <1>4, <1>5, <1>6, <1>7 DEF Next

(* In every order of creations, puts, copies and releases the entries have *)
(* the kind of their value, and no count is negative                       *)
(* (internal/ccnx_TlvDictionary.c).                                        *)
THEOREM DictionaryTypes == Spec => []DictionaryTypeOK
<1>1. DictionaryInv => DictionaryTypeOK
  BY DEF DictionaryInv
<1>2. QED BY <1>1, DictionaryInvInit, DictionaryInvStep, PTL DEF Spec

(* An object's count is the client's references plus one for every place   *)
(* in a live dictionary: nothing that can be reached is freed, and nothing *)
(* that cannot be reached stays.                                           *)
THEOREM ReferencesAreExact == Spec => []ReferencesExact
<1>1. DictionaryInv => ReferencesExact
  BY DEF DictionaryInv
<1>2. QED BY <1>1, DictionaryInvInit, DictionaryInvStep, PTL DEF Spec

(* A copy equals its source exactly when every list reads the same both    *)
(* ways, and the copy of a copy always does                                *)
(* (ccnxTlvDictionary_ShallowCopy reads and writes at the head).           *)
THEOREM CopiesMirror == Spec => []CopyMirrorsLists
<1>1. ASSUME DictionaryInv, NEW d \in Live
      PROVE  LET dict == dictionary[d]
                 copy == Copied(dict)
             IN /\ DictionaryEquals(copy, dict)
                      <=> \A list \in ListKey : Palindrome(dict.lists[list])
                /\ DictionaryEquals(Copied(copy), dict)
  <2> DEFINE dict == dictionary[d]
             copy == Copied(dict)
             again == Copied(copy)
  <2>1. dict \in DictionaryRecord
    BY <1>1, LiveSound
  <2> HIDE DEF dict
  <2>2. /\ copy \in DictionaryRecord /\ copy.type = dict.type /\ copy.direct = dict.direct
        /\ \A list \in ListKey : copy.lists[list] = Reverse(dict.lists[list])
    BY <2>1, CopyShape
  <2> HIDE DEF copy
  <2>3. /\ again.type = copy.type /\ again.direct = copy.direct
        /\ \A list \in ListKey : again.lists[list] = Reverse(copy.lists[list])
    BY <2>2, CopyShape
  <2> HIDE DEF again
  <2>4. \A key \in FastKey : /\ EntryEquals(copy.direct[key], dict.direct[key])
                             /\ EntryEquals(again.direct[key], dict.direct[key])
    BY <2>2, <2>3 DEF EntryEquals
  <2>5. ASSUME NEW list \in ListKey
        PROVE  /\ ListEquals(copy.lists[list], dict.lists[list]) <=> Palindrome(dict.lists[list])
               /\ ListEquals(again.lists[list], dict.lists[list])
    <3> DEFINE s == dict.lists[list]
    <3>1. s \in Seq(ListEntry) /\ copy.lists[list] = Reverse(s) /\ again.lists[list] = Reverse(Reverse(s))
      BY <2>1, <2>2, <2>3 DEF DictionaryRecord
    <3> HIDE DEF s
    <3>2. /\ Len(Reverse(s)) = Len(s) /\ DOMAIN s = 1..Len(s) /\ DOMAIN Reverse(s) = 1..Len(s)
          /\ Reverse(s) \in Seq(ListEntry)
          /\ \A i \in 1..Len(s) : (Len(s) - i) + 1 \in 1..Len(s)
          /\ \A i \in 1..Len(s) : Reverse(s)[(Len(s) - i) + 1] = s[i]
      BY <3>1, Reversed
    <3>3. /\ Len(Reverse(Reverse(s))) = Len(s) /\ DOMAIN Reverse(Reverse(s)) = 1..Len(s)
          /\ \A i \in 1..Len(s) : Reverse(Reverse(s))[i] = Reverse(s)[(Len(s) - i) + 1]
      <4> DEFINE t == Reverse(s)
      <4>1. t \in Seq(ListEntry) /\ Len(t) = Len(s)
        BY <3>2
      <4> HIDE DEF t
      <4>2. /\ Len(Reverse(t)) = Len(t) /\ DOMAIN Reverse(t) = 1..Len(t)
            /\ \A i \in 1..Len(t) : Reverse(t)[i] = t[(Len(t) - i) + 1]
        BY <4>1, Reversed
      <4>3. QED BY <4>1, <4>2 DEF t
    <3>4. ListEquals(Reverse(s), s) <=> Palindrome(s)
      BY <3>2 DEF ListEquals, Palindrome
    <3>5. ListEquals(Reverse(Reverse(s)), s)
      BY <3>2, <3>3 DEF ListEquals
    <3>6. QED BY <3>1, <3>4, <3>5 DEF s
  <2>6. DictionaryEquals(copy, dict) <=> \A list \in ListKey : Palindrome(dict.lists[list])
    BY <2>2, <2>4, <2>5 DEF DictionaryEquals
  <2>7. DictionaryEquals(again, dict)
    BY <2>2, <2>3, <2>4, <2>5 DEF DictionaryEquals
  <2>8. QED BY <2>6, <2>7 DEF again, copy, dict
<1>2. DictionaryInv => CopyMirrorsLists
  BY <1>1 DEF CopyMirrorsLists
<1>3. QED BY <1>2, DictionaryInvInit, DictionaryInvStep, PTL DEF Spec

----------------------------------------------------------------------------
(* The inductive invariant of the messages.                                *)

HeaderRecord == [packetType : WireType \cup {"InterestReturn"}, hopLimit : 0..255,
                 returnCode : {0} \cup ReturnCode]

ContentTypeOK ==
    /\ segments \in [Name -> Seq({PayloadId(payload) : payload \in Given})]
    /\ header \in [Packet -> HeaderRecord]
    /\ returns \subseteq Dictionary
    /\ identified \in [Dictionary -> Given \cup {NoObject}]
    /\ payloadTyped \in [Dictionary -> PayloadType]
    /\ setter \in [Packet -> Dictionary \cup {NoDictionary}]

(* Nothing is said of what is not there. *)
HistoryLive ==
    /\ \A d \in Dictionary \ Live : identified[d] = NoObject
    /\ \A packet \in Packet : setter[packet] \in Live \cup {NoDictionary}
    /\ \A d \in returns : IsOfType(d, {"InterestReturn"})

(* The two integers the properties read are never values. *)
IntegersAre ==
    \A d \in Live : \A key \in {"PAYLOADTYPE", "HOPLIMIT"} :
        dictionary[d].direct[key].kind \in {"UNSET", "INTEGER"}

(* A message that set a packet's hop limit has that packet attached; it    *)
(* has no other, so what it sets later goes to the same packet.            *)
SetterAttached ==
    \A packet \in Packet : setter[packet] # NoDictionary =>
        dictionary[setter[packet]].direct["WIRE"] = ValueEntry(packet)

MessageInv ==
    /\ DictionaryInv /\ ContentTypeOK /\ HistoryLive /\ IntegersAre /\ SetterAttached
    /\ IdentifiedByName /\ PayloadTypeBelongs /\ HopLimitInSync

----------------------------------------------------------------------------
(* What puts make of a dictionary record.                                  *)

LEMMA Acquired ==
    ASSUME NEW S, NEW o
    PROVE  Cardinality({o} \cap S) = IF o \in S THEN 1 ELSE 0
<1>1. CASE o \in S
  <2>1. {o} \cap S = {o}
    BY <1>1
  <2>2. QED BY <1>1, <2>1, FS_Singleton
<1>2. CASE o \notin S
  <2>1. {o} \cap S = {}
    BY <1>2
  <2>2. QED BY <1>2, <2>1, FS_EmptySet
<1>3. QED BY <1>1, <1>2

LEMMA Keys ==
    /\ "NAME" \in FastKey /\ "PAYLOAD" \in FastKey /\ "PAYLOADTYPE" \in FastKey
    /\ "HOPLIMIT" \in FastKey /\ "KEYID_RESTRICTION" \in FastKey
    /\ "RETURN_CODE" \in FastKey /\ "WIRE" \in FastKey /\ "HASH_GROUPS" \in ListKey
    /\ "Interest" \in MessageType /\ "InterestReturn" \in MessageType
    /\ "ContentObject" \in MessageType /\ "Manifest" \in MessageType
BY MessageAssumption

LEMMA ValuePut ==
    ASSUME NEW dict, Sound(dict), NEW key \in FastKey, NEW o \in Object
    PROVE  /\ Sound(WithValue(dict, key, o))
           /\ WithValue(dict, key, o).type = dict.type
           /\ WithValue(dict, key, o).references = dict.references
           /\ WithValue(dict, key, o).lists = dict.lists
           /\ \A k \in FastKey : k # key => WithValue(dict, key, o).direct[k] = dict.direct[k]
           /\ dict.direct[key] # Unset => WithValue(dict, key, o) = dict
           /\ dict.direct[key] = Unset => WithValue(dict, key, o).direct[key] = ValueEntry(o)
           /\ \A p \in Object : Count(WithValue(dict, key, o), p) =
                 Count(dict, p) + IF IsUnset(dict, key) /\ p = o THEN 1 ELSE 0
<1>1. dict \in DictionaryRecord /\ ValueEntry(o) \in Entry
      /\ \A p \in Object : Count(dict, p) \in Nat
  BY EntryFacts, PlacesFinite DEF Sound
<1>2. CASE dict.direct[key] # Unset
  BY <1>1, <1>2 DEF WithValue, IsUnset
<1>3. CASE dict.direct[key] = Unset
  <2>1. WithValue(dict, key, o) = WithEntry(dict, key, ValueEntry(o))
    BY <1>3 DEF WithValue, IsUnset
  <2>2. /\ Sound(WithEntry(dict, key, ValueEntry(o)))
        /\ \A p \in Object : Count(WithEntry(dict, key, ValueEntry(o)), p) =
              Count(dict, p) + IF p = o THEN 1 ELSE 0
    BY <1>3, EntryCounts
  <2>3. /\ WithEntry(dict, key, ValueEntry(o)).type = dict.type
        /\ WithEntry(dict, key, ValueEntry(o)).references = dict.references
        /\ WithEntry(dict, key, ValueEntry(o)).lists = dict.lists
        /\ WithEntry(dict, key, ValueEntry(o)).direct[key] = ValueEntry(o)
        /\ \A k \in FastKey : k # key =>
              WithEntry(dict, key, ValueEntry(o)).direct[k] = dict.direct[k]
    BY <1>1, EntryShape
  <2>4. QED BY <1>3, <2>1, <2>2, <2>3 DEF IsUnset
<1>4. QED BY <1>2, <1>3

LEMMA OptionalPut ==
    ASSUME NEW dict, Sound(dict), NEW key \in FastKey, NEW o \in Object \cup {NoObject},
           dict.direct[key] = Unset
    PROVE  /\ Sound(WithOptional(dict, key, o))
           /\ WithOptional(dict, key, o).type = dict.type
           /\ WithOptional(dict, key, o).lists = dict.lists
           /\ \A k \in FastKey : k # key => WithOptional(dict, key, o).direct[k] = dict.direct[k]
           /\ o = NoObject => WithOptional(dict, key, o).direct[key] = Unset
           /\ o # NoObject => WithOptional(dict, key, o).direct[key] = ValueEntry(o)
           /\ \A p \in Object : Count(WithOptional(dict, key, o), p) =
                 Count(dict, p) + IF p = o THEN 1 ELSE 0
<1>1. \A p \in Object : Count(dict, p) \in Nat
  BY PlacesFinite
<1>2. CASE o = NoObject
  BY <1>1, <1>2, MessageAssumption DEF WithOptional
<1>3. CASE o # NoObject
  <2>1. o \in Object /\ WithOptional(dict, key, o) = WithValue(dict, key, o)
    BY <1>3 DEF WithOptional
  <2>2. /\ Sound(WithValue(dict, key, o))
        /\ WithValue(dict, key, o).type = dict.type
        /\ WithValue(dict, key, o).lists = dict.lists
        /\ \A k \in FastKey : k # key => WithValue(dict, key, o).direct[k] = dict.direct[k]
        /\ WithValue(dict, key, o).direct[key] = ValueEntry(o)
        /\ \A p \in Object : Count(WithValue(dict, key, o), p) =
              Count(dict, p) + IF IsUnset(dict, key) /\ p = o THEN 1 ELSE 0
    BY <2>1, ValuePut
  <2>3. QED BY <1>3, <2>1, <2>2 DEF IsUnset
<1>4. QED BY <1>2, <1>3

LEMMA IntegerPut ==
    ASSUME NEW dict, Sound(dict), NEW key \in FastKey, NEW n \in Integer
    PROVE  /\ Sound(WithInteger(dict, key, n))
           /\ WithInteger(dict, key, n).type = dict.type
           /\ WithInteger(dict, key, n).lists = dict.lists
           /\ \A k \in FastKey : k # key => WithInteger(dict, key, n).direct[k] = dict.direct[k]
           /\ dict.direct[key].kind \in {"UNSET", "INTEGER"} =>
                 WithInteger(dict, key, n).direct[key] = IntegerEntry(n)
           /\ \A o \in Object : Count(WithInteger(dict, key, n), o) = Count(dict, o)
<1>1. /\ Sound(WithInteger(dict, key, n))
      /\ \A o \in Object : Count(WithInteger(dict, key, n), o) = Count(dict, o)
  BY IntegerCounts
<1>2. CASE ~CanPutInteger(dict, key)
  BY <1>1, <1>2 DEF WithInteger, CanPutInteger
<1>3. CASE CanPutInteger(dict, key)
  <2>1. dict \in DictionaryRecord /\ IntegerEntry(n) \in Entry
    BY EntryFacts DEF Sound
  <2>2. WithInteger(dict, key, n) = WithEntry(dict, key, IntegerEntry(n))
    BY <1>3 DEF WithInteger
  <2>3. /\ WithEntry(dict, key, IntegerEntry(n)).type = dict.type
        /\ WithEntry(dict, key, IntegerEntry(n)).lists = dict.lists
        /\ WithEntry(dict, key, IntegerEntry(n)).direct[key] = IntegerEntry(n)
        /\ \A k \in FastKey : k # key =>
              WithEntry(dict, key, IntegerEntry(n)).direct[k] = dict.direct[k]
    BY <2>1, EntryShape
  <2>4. QED BY <1>1, <2>2, <2>3
<1>4. QED BY <1>2, <1>3

LEMMA EmptyFields ==
    ASSUME NEW type \in MessageType
    PROVE  /\ Sound(EmptyDictionary(type)) /\ EmptyDictionary(type).type = type
           /\ \A key \in FastKey : EmptyDictionary(type).direct[key] = Unset
           /\ \A o \in Object : Count(EmptyDictionary(type), o) = 0
BY EmptyCounts DEF EmptyDictionary

(* A message grows by the objects that are put into it. *)
LEMMA GrowthKeeps ==
    ASSUME DictionaryInv, NEW d \in Dictionary, NEW new, NEW S, Sound(new),
           \A o \in Object : Count(new, o) = CountIn(dictionary[d], o) + IF o \in S THEN 1 ELSE 0,
           dictionary' = [dictionary EXCEPT ![d] = new], Acquiring(S), held' = held
    PROVE  DictionaryInv'
<1>1. /\ references' = [o \in Object |-> references[o] + Cardinality({o} \cap S)]
      /\ references \in [Object -> Nat] /\ held \in [Object -> Nat]
  BY DEF Acquiring, DictionaryInv, DictionaryTypeOK
<1>2. \A o \in Object : references'[o] = references[o] + IF o \in S THEN 1 ELSE 0
  BY <1>1, Acquired
<1>3. \A o \in Object : CountIn(new, o) = Count(new, o) /\ CountIn(dictionary[d], o) \in Nat
  BY PlacesFinite, NoDictionaryAssumption DEF CountIn, Sound
<1>4. references' \in [Object -> Int] /\ held' \in [Object -> Nat]
  BY <1>1, <1>2
<1>5. \A o \in Object :
         references'[o] - held'[o] =
            references[o] - held[o] + CountIn(new, o) - CountIn(dictionary[d], o)
  BY <1>1, <1>2, <1>3
<1>6. QED BY <1>4, <1>5, OneChanged

----------------------------------------------------------------------------
(* The invariant, message by message and packet by packet.                 *)

MessageOK(dict, id, type, names) ==
    /\ \A key \in {"PAYLOADTYPE", "HOPLIMIT"} : dict.direct[key].kind \in {"UNSET", "INTEGER"}
    /\ id # NoObject => /\ dict.direct["PAYLOAD"] = ValueEntry(id)
                        /\ dict.direct["NAME"].kind = "NAME"
                        /\ PayloadId(id) \in ToSet(names[dict.direct["NAME"].value])
    /\ dict.type = "ContentObject" /\ dict.direct["PAYLOAD"] # Unset
          => GetPayloadType(dict) = type

PacketOK(dict, packet, hopLimit) ==
    /\ dict.direct["WIRE"] = ValueEntry(packet)
    /\ dict.direct["HOPLIMIT"].kind = "INTEGER"
    /\ hopLimit = Byte(dict.direct["HOPLIMIT"].integer)

LEMMA InvParts ==
    MessageInv <=>
        /\ DictionaryInv /\ ContentTypeOK /\ HistoryLive
        /\ \A d \in Live : MessageOK(dictionary[d], identified[d], payloadTyped[d], segments)
        /\ \A packet \in Packet : setter[packet] # NoDictionary =>
              PacketOK(dictionary[setter[packet]], packet, header[packet].hopLimit)
<1>1. (IntegersAre /\ IdentifiedByName /\ PayloadTypeBelongs) <=>
         \A d \in Live : MessageOK(dictionary[d], identified[d], payloadTyped[d], segments)
  BY DEF IntegersAre, IdentifiedByName, PayloadTypeBelongs, MessageOK, HasEntry, IsOfType, IsUnset
<1>2. (SetterAttached /\ HopLimitInSync) <=>
         \A packet \in Packet : setter[packet] # NoDictionary =>
            PacketOK(dictionary[setter[packet]], packet, header[packet].hopLimit)
  BY DEF SetterAttached, HopLimitInSync, PacketOK
<1>3. QED BY <1>1, <1>2 DEF MessageInv

LEMMA UnchangedKeeps == MessageInv /\ UNCHANGED messageVars => MessageInv'
<1> SUFFICES ASSUME MessageInv, UNCHANGED messageVars PROVE MessageInv'
  OBVIOUS
<1>1. UNCHANGED <<dictionary, references, held, segments, header, returns,
                  identified, payloadTyped, setter>>
  BY DEF messageVars, dictionaryVars, objectVars, contentVars, historyVars
<1>2. DictionaryInv'
  BY <1>1 DEF MessageInv, DictionaryInv, DictionaryTypeOK, ReferencesExact,
              ListsBounded, HoldersFinite, Holders, Live
<1>3. (ContentTypeOK /\ HistoryLive /\ IntegersAre /\ SetterAttached)'
  BY <1>1 DEF MessageInv, ContentTypeOK, HistoryLive, IntegersAre, SetterAttached, IsOfType, Live
<1>4. (IdentifiedByName /\ PayloadTypeBelongs /\ HopLimitInSync)'
  BY <1>1 DEF MessageInv, IdentifiedByName, PayloadTypeBelongs, HopLimitInSync, IsOfType, Live,
              HasEntry, IsUnset
<1>5. QED BY <1>2, <1>3, <1>4 DEF MessageInv

(* One message changes, and the history of that one. *)
LEMMA OneMessageChanged ==
    ASSUME MessageInv, DictionaryInv', ContentTypeOK', NEW d \in Dictionary, NEW new,
           Sound(new), dictionary' = [dictionary EXCEPT ![d] = new],
           \A e \in Dictionary \ {d} : /\ identified'[e] = identified[e]
                                       /\ payloadTyped'[e] = payloadTyped[e],
           \A name \in Name : ToSet(segments[name]) \subseteq ToSet(segments'[name]),
           returns' \subseteq returns \cup {d},
           d \in returns' => new.type = "InterestReturn",
           MessageOK(new, identified'[d], payloadTyped'[d], segments'),
           \A packet \in Packet :
              \/ setter'[packet] = NoDictionary
              \/ setter'[packet] = d /\ PacketOK(new, packet, header'[packet].hopLimit)
              \/ /\ setter'[packet] = setter[packet] /\ setter[packet] # d
                 /\ header'[packet].hopLimit = header[packet].hopLimit
    PROVE  MessageInv'
<1>1. /\ DictionaryInv /\ ContentTypeOK /\ HistoryLive
      /\ \A e \in Live : MessageOK(dictionary[e], identified[e], payloadTyped[e], segments)
      /\ \A packet \in Packet : setter[packet] # NoDictionary =>
            PacketOK(dictionary[setter[packet]], packet, header[packet].hopLimit)
  BY InvParts
<1>2. /\ new # NoDictionary /\ DOMAIN dictionary = Dictionary
      /\ dictionary'[d] = new /\ \A e \in Dictionary : e # d => dictionary'[e] = dictionary[e]
  BY <1>1, NoDictionaryAssumption DEF Sound, DictionaryInv, DictionaryTypeOK
<1>3. Live' = Live \cup {d}
  BY <1>2 DEF Live
<1>4. HistoryLive'
  <2>1. \A e \in Dictionary \ Live' : identified'[e] = NoObject
    BY <1>1, <1>3 DEF HistoryLive
  <2>2. \A packet \in Packet : setter'[packet] \in Live' \cup {NoDictionary}
    BY <1>1, <1>3 DEF HistoryLive
  <2>3. \A e \in returns' : e \in Live' /\ dictionary'[e].type = "InterestReturn"
    BY <1>1, <1>2, <1>3 DEF HistoryLive, IsOfType, Live
  <2>4. QED BY <2>1, <2>2, <2>3 DEF HistoryLive, IsOfType
<1>5. ASSUME NEW e \in Live'
      PROVE  MessageOK(dictionary'[e], identified'[e], payloadTyped'[e], segments')
  <2>1. CASE e = d
    BY <2>1, <1>2
  <2>2. CASE e # d
    <3>1. /\ e \in Live /\ dictionary'[e] = dictionary[e] /\ identified'[e] = identified[e]
          /\ payloadTyped'[e] = payloadTyped[e]
          /\ MessageOK(dictionary[e], identified[e], payloadTyped[e], segments)
      BY <1>1, <1>2, <1>3, <2>2 DEF Live
    <3>2. dictionary[e].direct["NAME"] \in Entry
      BY <1>1, <3>1, LiveSound, Keys
    <3>3. dictionary[e].direct["NAME"].kind = "NAME" => dictionary[e].direct["NAME"].value \in Name
      BY <3>2, EntryFacts DEF Name, Kind
    <3>4. QED BY <3>1, <3>3 DEF MessageOK
  <2>3. QED BY <2>1, <2>2
<1>6. ASSUME NEW packet \in Packet, setter'[packet] # NoDictionary
      PROVE  PacketOK(dictionary'[setter'[packet]], packet, header'[packet].hopLimit)
  <2>1. CASE setter'[packet] = d /\ PacketOK(new, packet, header'[packet].hopLimit)
    BY <1>2, <2>1
  <2>2. CASE /\ setter'[packet] = setter[packet] /\ setter[packet] # d
             /\ header'[packet].hopLimit = header[packet].hopLimit
    <3>1. setter[packet] \in Dictionary
      BY <1>1, <1>6, <2>2 DEF ContentTypeOK
    <3>2. QED BY <1>1, <1>2, <1>6, <2>2, <3>1
  <2>3. QED BY <1>6, <2>1, <2>2
<1>7. MessageInv'
  <2>1. \A e \in Live' : MessageOK(dictionary'[e], identified'[e], payloadTyped'[e], segments')
    BY <1>5
  <2>2. \A packet \in Packet : setter'[packet] # NoDictionary =>
            PacketOK(dictionary'[setter'[packet]], packet, header'[packet].hopLimit)
    BY <1>6
  <2>3. (IntegersAre /\ IdentifiedByName /\ PayloadTypeBelongs)'
    BY <2>1 DEF IntegersAre, IdentifiedByName, PayloadTypeBelongs, MessageOK, HasEntry,
                IsOfType, IsUnset
  <2>4. (SetterAttached /\ HopLimitInSync)'
    BY <2>2 DEF SetterAttached, HopLimitInSync, PacketOK
  <2>5. QED BY <1>4, <2>3, <2>4 DEF MessageInv
<1>8. QED BY <1>7

(* A message that was not there: what is known of it is given with it. *)
LEMMA CreationKeeps ==
    ASSUME MessageInv, DictionaryInv', NEW d \in Dictionary, NEW new, Sound(new),
           Created(d, new), NEW id \in Given \cup {NoObject}, NEW type \in PayloadType,
           identified' = [identified EXCEPT ![d] = id],
           payloadTyped' = [payloadTyped EXCEPT ![d] = type],
           \/ returns' = returns
           \/ returns' = returns \cup {d} /\ new.type = "InterestReturn",
           MessageOK(new, id, type, segments)
    PROVE  MessageInv'
<1>1. DictionaryInv /\ ContentTypeOK /\ HistoryLive
  BY InvParts
<1>2. /\ d \notin Live /\ dictionary' = [dictionary EXCEPT ![d] = new]
      /\ segments' = segments /\ header' = header /\ setter' = setter
  BY DEF Created, contentVars
<1>3. d \notin returns
  BY <1>1, <1>2 DEF HistoryLive, IsOfType
<1>4. ContentTypeOK'
  BY <1>1, <1>2 DEF ContentTypeOK
<1>5. /\ identified'[d] = id /\ payloadTyped'[d] = type
      /\ \A e \in Dictionary \ {d} : /\ identified'[e] = identified[e]
                                     /\ payloadTyped'[e] = payloadTyped[e]
  BY <1>1 DEF ContentTypeOK
<1>6. \A packet \in Packet :
         \/ setter'[packet] = NoDictionary
         \/ /\ setter'[packet] = setter[packet] /\ setter[packet] # d
            /\ header'[packet].hopLimit = header[packet].hopLimit
  BY <1>1, <1>2 DEF HistoryLive
<1>7. MessageOK(new, identified'[d], payloadTyped'[d], segments')
  BY <1>2, <1>5
<1>8. /\ \A name \in Name : ToSet(segments[name]) \subseteq ToSet(segments'[name])
      /\ returns' \subseteq returns \cup {d}
      /\ d \in returns' => new.type = "InterestReturn"
  BY <1>2, <1>3
<1>9. QED BY <1>2, <1>4, <1>5, <1>6, <1>7, <1>8, OneMessageChanged

(* A message that changes without its hop limit: its packet stays, or is   *)
(* its first.                                                              *)
LEMMA SettingKeeps ==
    ASSUME MessageInv, DictionaryInv', ContentTypeOK', NEW d \in Live, NEW new, Sound(new),
           dictionary' = [dictionary EXCEPT ![d] = new],
           \A e \in Dictionary \ {d} : /\ identified'[e] = identified[e]
                                       /\ payloadTyped'[e] = payloadTyped[e],
           \A name \in Name : ToSet(segments[name]) \subseteq ToSet(segments'[name]),
           returns' = returns, setter' = setter,
           \A packet \in Packet : header'[packet].hopLimit = header[packet].hopLimit,
           new.type = dictionary[d].type,
           dictionary[d].direct["WIRE"] # Unset
              => new.direct["WIRE"] = dictionary[d].direct["WIRE"],
           new.direct["HOPLIMIT"] = dictionary[d].direct["HOPLIMIT"],
           MessageOK(new, identified'[d], payloadTyped'[d], segments')
    PROVE  MessageInv'
<1>1. /\ DictionaryInv /\ ContentTypeOK /\ HistoryLive
      /\ \A packet \in Packet : setter[packet] # NoDictionary =>
            PacketOK(dictionary[setter[packet]], packet, header[packet].hopLimit)
  BY InvParts
<1>2. d \in Dictionary
  BY DEF Live
<1>3. d \in returns' => new.type = "InterestReturn"
  BY <1>1 DEF HistoryLive, IsOfType
<1>4. ASSUME NEW packet \in Packet, setter[packet] = d, setter[packet] # NoDictionary
      PROVE  PacketOK(new, packet, header'[packet].hopLimit)
  <2>1. PacketOK(dictionary[d], packet, header[packet].hopLimit)
    BY <1>1, <1>4
  <2>2. ValueEntry(packet) # Unset
    BY EntryFacts DEF Packet
  <2>3. QED BY <2>1, <2>2 DEF PacketOK
<1>5. \A packet \in Packet :
         \/ setter'[packet] = NoDictionary
         \/ setter'[packet] = d /\ PacketOK(new, packet, header'[packet].hopLimit)
         \/ /\ setter'[packet] = setter[packet] /\ setter[packet] # d
            /\ header'[packet].hopLimit = header[packet].hopLimit
  BY <1>4
<1>6. returns' \subseteq returns \cup {d}
  OBVIOUS
<1>7. QED BY <1>2, <1>3, <1>5, <1>6, OneMessageChanged

----------------------------------------------------------------------------
(* Creation. *)

LEMMA CreateInterestKeeps ==
    ASSUME MessageInv, NEW d \in Dictionary, NEW name \in Name,
           NEW hop \in HopLimit \cup {DefaultHopLimit}, NEW hash \in Hash \cup {NoObject},
           CreateInterest(d, name, hop, hash)
    PROVE  MessageInv'
<1> DEFINE empty == EmptyDictionary("Interest")
           named == WithEntry(empty, "NAME", ValueEntry(name))
           limited == IF hop = DefaultHopLimit THEN named ELSE WithInteger(named, "HOPLIMIT", hop)
           new == WithOptional(limited, "KEYID_RESTRICTION", hash)
<1>1. /\ DictionaryInv /\ ContentTypeOK /\ HistoryLive
  BY InvParts
<1>2. /\ name \in Object /\ kindOf[name] = "NAME" /\ hash \in Object \cup {NoObject}
      /\ hash # name /\ hop \in Integer
  BY MessageAssumption DEF Name, Hash
<1>3. /\ Created(d, new) /\ Acquiring({name, hash}) /\ returns' = returns
      /\ identified' = identified /\ payloadTyped' = payloadTyped
  BY DEF CreateInterest
<1>4. /\ Sound(empty) /\ empty.type = "Interest" /\ \A key \in FastKey : empty.direct[key] = Unset
      /\ \A o \in Object : Count(empty, o) = 0
  BY EmptyFields, Keys
<1> HIDE DEF empty
<1>5. /\ Sound(named) /\ named.type = "Interest" /\ named.direct["NAME"] = ValueEntry(name)
      /\ \A key \in FastKey : key # "NAME" => named.direct[key] = Unset
      /\ \A o \in Object : Count(named, o) = IF o = name THEN 1 ELSE 0
  <2>1. empty \in DictionaryRecord /\ empty.direct["NAME"] = Unset
    BY <1>4, Keys DEF Sound
  <2>2. /\ Sound(named)
        /\ \A o \in Object : Count(named, o) = Count(empty, o) + IF o = name THEN 1 ELSE 0
    BY <1>2, <1>4, <2>1, EntryCounts, Keys
  <2>3. /\ named.type = empty.type /\ named.direct["NAME"] = ValueEntry(name)
        /\ \A key \in FastKey : key # "NAME" => named.direct[key] = empty.direct[key]
    BY <2>1, EntryShape, Keys
  <2> HIDE DEF named
  <2>4. QED BY <1>4, <2>2, <2>3
<1> HIDE DEF named
<1>6. /\ Sound(limited) /\ limited.type = "Interest" /\ limited.direct["NAME"] = ValueEntry(name)
      /\ limited.direct["HOPLIMIT"].kind \in {"UNSET", "INTEGER"}
      /\ \A key \in FastKey \ {"NAME", "HOPLIMIT"} : limited.direct[key] = Unset
      /\ \A o \in Object : Count(limited, o) = IF o = name THEN 1 ELSE 0
  <2>1. CASE hop = DefaultHopLimit
    BY <1>5, <2>1, EntryFacts, Keys
  <2>2. CASE hop # DefaultHopLimit
    <3> DEFINE with == WithInteger(named, "HOPLIMIT", hop)
    <3>1. /\ Sound(with) /\ with.type = named.type
          /\ \A k \in FastKey : k # "HOPLIMIT" => with.direct[k] = named.direct[k]
          /\ named.direct["HOPLIMIT"].kind \in {"UNSET", "INTEGER"} =>
                with.direct["HOPLIMIT"] = IntegerEntry(hop)
          /\ \A o \in Object : Count(with, o) = Count(named, o)
      <4>1. "HOPLIMIT" \in FastKey /\ hop \in Integer /\ Sound(named)
        BY <1>2, <1>5, Keys
      <4>2. QED BY <4>1, IntegerPut, Zenon
    <3>2. limited = with
      BY <2>2
    <3> HIDE DEF with, limited
    <3>3. QED BY <1>2, <1>5, <3>1, <3>2, EntryFacts, Keys
  <2>3. QED BY <2>1, <2>2
<1> HIDE DEF limited
<1>7. /\ Sound(new) /\ new.type = "Interest"
      /\ \A k \in FastKey : k # "KEYID_RESTRICTION" => new.direct[k] = limited.direct[k]
      /\ \A o \in Object : Count(new, o) = Count(limited, o) + IF o = hash THEN 1 ELSE 0
  BY <1>2, <1>6, OptionalPut, Keys
<1> HIDE DEF new
<1>8. /\ d \notin Live /\ held' = held /\ dictionary' = [dictionary EXCEPT ![d] = new]
      /\ dictionary[d] = NoDictionary
  BY <1>3 DEF Created, Live
<1>9. \A o \in Object : Count(new, o) = CountIn(dictionary[d], o) + IF o \in {name, hash} THEN 1 ELSE 0
  BY <1>2, <1>6, <1>7, <1>8 DEF CountIn
<1>10. DictionaryInv'
  BY <1>1, <1>3, <1>7, <1>8, <1>9, GrowthKeeps
<1>11. /\ identified[d] = NoObject /\ payloadTyped[d] \in PayloadType
       /\ identified' = [identified EXCEPT ![d] = NoObject]
       /\ payloadTyped' = [payloadTyped EXCEPT ![d] = payloadTyped[d]]
  BY <1>1, <1>3, <1>8 DEF HistoryLive, ContentTypeOK
<1>12. MessageOK(new, NoObject, payloadTyped[d], segments)
  BY <1>6, <1>7, EntryFacts, Keys DEF MessageOK
<1>13. NoObject \in Given \cup {NoObject}
  OBVIOUS
<1>14. QED BY <1>3, <1>7, <1>10, <1>11, <1>12, <1>13, CreationKeeps

LEMMA CreateContentObjectKeeps ==
    ASSUME MessageInv, NEW d \in Dictionary, NEW name \in Name \cup {NoObject},
           NEW type \in PayloadType, NEW payload \in Given \cup {NoObject},
           CreateContentObject(d, name, type, payload)
    PROVE  MessageInv'
<1> DEFINE empty == EmptyDictionary("ContentObject")
           named == WithOptional(empty, "NAME", name)
           typed == IF type = DATA THEN named ELSE WithInteger(named, "PAYLOADTYPE", type)
           new == WithOptional(typed, "PAYLOAD", payload)
<1>1. /\ DictionaryInv /\ ContentTypeOK /\ HistoryLive
  BY InvParts
<1>2. /\ name \in Object \cup {NoObject} /\ payload \in Object \cup {NoObject}
      /\ name = payload => name \notin Object
  BY MessageAssumption, ObjectAssumption DEF Name, Given, Payload, BufferObject
<1>3. type \in Integer
  BY MessageAssumption
<1>4. /\ Created(d, new) /\ Acquiring({name, payload}) /\ returns' = returns
      /\ identified' = identified /\ payloadTyped' = [payloadTyped EXCEPT ![d] = type]
  BY DEF CreateContentObject
<1>5. /\ Sound(empty) /\ empty.type = "ContentObject"
      /\ \A key \in FastKey : empty.direct[key] = Unset
      /\ \A o \in Object : Count(empty, o) = 0
  BY EmptyFields, Keys
<1> HIDE DEF empty
<1>6. /\ Sound(named) /\ named.type = "ContentObject"
      /\ \A key \in FastKey : key # "NAME" => named.direct[key] = Unset
      /\ \A o \in Object : Count(named, o) = IF o = name THEN 1 ELSE 0
  <2>1. "NAME" \in FastKey /\ empty.direct["NAME"] = Unset
    BY <1>5, Keys
  <2>2. /\ Sound(named) /\ named.type = empty.type
        /\ \A key \in FastKey : key # "NAME" => named.direct[key] = empty.direct[key]
        /\ \A o \in Object : Count(named, o) = Count(empty, o) + IF o = name THEN 1 ELSE 0
    BY <1>2, <1>5, <2>1, OptionalPut
  <2> HIDE DEF named
  <2>3. QED BY <1>5, <2>2
<1> HIDE DEF named
<1>7. /\ Sound(typed) /\ typed.type = "ContentObject"
      /\ typed.direct["PAYLOADTYPE"] = IF type = DATA THEN Unset ELSE IntegerEntry(type)
      /\ \A key \in FastKey \ {"NAME", "PAYLOADTYPE"} : typed.direct[key] = Unset
      /\ \A o \in Object : Count(typed, o) = IF o = name THEN 1 ELSE 0
  <2>1. CASE type = DATA
    BY <1>6, <2>1, Keys
  <2>2. CASE type # DATA
    <3> DEFINE with == WithInteger(named, "PAYLOADTYPE", type)
    <3>1. "PAYLOADTYPE" \in FastKey /\ named.direct["PAYLOADTYPE"].kind = "UNSET"
      BY <1>6, Keys, EntryFacts
    <3>2. /\ Sound(with) /\ with.type = named.type
          /\ \A k \in FastKey : k # "PAYLOADTYPE" => with.direct[k] = named.direct[k]
          /\ named.direct["PAYLOADTYPE"].kind \in {"UNSET", "INTEGER"} =>
                with.direct["PAYLOADTYPE"] = IntegerEntry(type)
          /\ \A o \in Object : Count(with, o) = Count(named, o)
      BY <1>3, <1>6, <3>1, IntegerPut, Zenon
    <3>3. typed = with
      BY <2>2
    <3> HIDE DEF with, typed
    <3>4. QED BY <1>6, <2>2, <3>1, <3>2, <3>3
  <2>3. QED BY <2>1, <2>2
<1> HIDE DEF typed
<1>8. /\ Sound(new) /\ new.type = "ContentObject"
      /\ \A k \in FastKey : k # "PAYLOAD" => new.direct[k] = typed.direct[k]
      /\ \A o \in Object : Count(new, o) = Count(typed, o) + IF o = payload THEN 1 ELSE 0
  <2>1. "PAYLOAD" \in FastKey /\ typed.direct["PAYLOAD"] = Unset
    BY <1>7, Keys
  <2>2. QED BY <1>2, <1>7, <2>1, OptionalPut
<1> HIDE DEF new
<1>9. /\ d \notin Live /\ held' = held /\ dictionary' = [dictionary EXCEPT ![d] = new]
      /\ dictionary[d] = NoDictionary
  BY <1>4 DEF Created, Live
<1>10. \A o \in Object : Count(new, o) = CountIn(dictionary[d], o) + IF o \in {name, payload} THEN 1 ELSE 0
  BY <1>2, <1>7, <1>8, <1>9 DEF CountIn
<1>11. DictionaryInv'
  BY <1>1, <1>4, <1>8, <1>9, <1>10, GrowthKeeps
<1>12. /\ identified[d] = NoObject /\ identified' = [identified EXCEPT ![d] = NoObject]
  BY <1>1, <1>4, <1>9 DEF HistoryLive, ContentTypeOK
<1>13. MessageOK(new, NoObject, type, segments)
  <2>1. /\ new.direct["PAYLOADTYPE"] = IF type = DATA THEN Unset ELSE IntegerEntry(type)
        /\ new.direct["HOPLIMIT"] = Unset
    BY <1>7, <1>8, Keys
  <2>2. GetPayloadType(new) = type
    BY <1>3, <2>1, EntryFacts DEF GetPayloadType, DATA
  <2>3. new.direct["PAYLOADTYPE"].kind \in {"UNSET", "INTEGER"}
    BY <1>3, <2>1, EntryFacts
  <2>4. QED BY <2>1, <2>2, <2>3, EntryFacts DEF MessageOK
<1>14. NoObject \in Given \cup {NoObject}
  OBVIOUS
<1>15. QED BY <1>4, <1>8, <1>11, <1>12, <1>13, <1>14, CreationKeeps

LEMMA CreateManifestKeeps ==
    ASSUME MessageInv, NEW d \in Dictionary, NEW name \in Name \cup {NoObject},
           CreateManifest(d, name)
    PROVE  MessageInv'
<1> DEFINE empty == EmptyDictionary("Manifest")
           new == WithOptional(empty, "NAME", name)
<1>1. /\ DictionaryInv /\ ContentTypeOK /\ HistoryLive /\ name \in Object \cup {NoObject}
  BY InvParts DEF Name
<1>2. /\ Created(d, new) /\ Acquiring({name}) /\ returns' = returns
      /\ identified' = identified /\ payloadTyped' = payloadTyped
  BY DEF CreateManifest
<1>3. /\ Sound(empty) /\ empty.type = "Manifest"
      /\ \A key \in FastKey : empty.direct[key] = Unset
      /\ \A o \in Object : Count(empty, o) = 0
  BY EmptyFields, Keys
<1> HIDE DEF empty
<1>4. /\ Sound(new) /\ new.type = empty.type
      /\ \A key \in FastKey : key # "NAME" => new.direct[key] = empty.direct[key]
      /\ \A o \in Object : Count(new, o) = Count(empty, o) + IF o = name THEN 1 ELSE 0
  <2>1. "NAME" \in FastKey /\ empty.direct["NAME"] = Unset
    BY <1>3, Keys
  <2>2. QED BY <1>1, <1>3, <2>1, OptionalPut
<1> HIDE DEF new
<1>5. /\ d \notin Live /\ held' = held /\ dictionary' = [dictionary EXCEPT ![d] = new]
      /\ dictionary[d] = NoDictionary
  BY <1>2 DEF Created, Live
<1>6. \A o \in Object : Count(new, o) = CountIn(dictionary[d], o) + IF o \in {name} THEN 1 ELSE 0
  BY <1>3, <1>4, <1>5 DEF CountIn
<1>7. DictionaryInv'
  BY <1>1, <1>2, <1>4, <1>5, <1>6, GrowthKeeps
<1>8. /\ identified[d] = NoObject /\ payloadTyped[d] \in PayloadType
      /\ identified' = [identified EXCEPT ![d] = NoObject]
      /\ payloadTyped' = [payloadTyped EXCEPT ![d] = payloadTyped[d]]
  BY <1>1, <1>2, <1>5 DEF HistoryLive, ContentTypeOK
<1>9. MessageOK(new, NoObject, payloadTyped[d], segments)
  BY <1>3, <1>4, EntryFacts, Keys DEF MessageOK
<1>10. NoObject \in Given \cup {NoObject}
  OBVIOUS
<1>11. QED BY <1>2, <1>4, <1>7, <1>8, <1>9, <1>10, CreationKeeps

LEMMA FromWireFormatKeeps ==
    ASSUME MessageInv, NEW d \in Dictionary, NEW packet \in Packet, NEW type \in MessageType,
           FromWireFormat(d, packet, type)
    PROVE  MessageInv'
<1> DEFINE empty == EmptyDictionary(type)
           new == WithEntry(empty, "WIRE", ValueEntry(packet))
<1>1. /\ DictionaryInv /\ ContentTypeOK /\ HistoryLive /\ packet \in Object
  BY InvParts DEF Packet
<1>2. /\ Created(d, new) /\ Acquiring({packet}) /\ returns' = returns
      /\ identified' = identified /\ payloadTyped' = payloadTyped
  BY DEF FromWireFormat
<1>3. /\ Sound(empty) /\ empty \in DictionaryRecord
      /\ \A key \in FastKey : empty.direct[key] = Unset
      /\ \A o \in Object : Count(empty, o) = 0
  BY EmptyFields, Keys DEF Sound
<1> HIDE DEF empty
<1>4. /\ Sound(new)
      /\ \A key \in FastKey : key # "WIRE" => new.direct[key] = empty.direct[key]
      /\ \A o \in Object : Count(new, o) = Count(empty, o) + IF o = packet THEN 1 ELSE 0
  <2>1. "WIRE" \in FastKey /\ empty.direct["WIRE"] = Unset
    BY <1>3, Keys
  <2>2. /\ Sound(new)
        /\ \A o \in Object : Count(new, o) = Count(empty, o) + IF o = packet THEN 1 ELSE 0
    BY <1>1, <1>3, <2>1, EntryCounts
  <2>3. \A key \in FastKey : key # "WIRE" => new.direct[key] = empty.direct[key]
    BY <1>3, <2>1, EntryShape
  <2>4. QED BY <2>2, <2>3
<1> HIDE DEF new
<1>5. /\ d \notin Live /\ held' = held /\ dictionary' = [dictionary EXCEPT ![d] = new]
      /\ dictionary[d] = NoDictionary
  BY <1>2 DEF Created, Live
<1>6. \A o \in Object : Count(new, o) = CountIn(dictionary[d], o) + IF o \in {packet} THEN 1 ELSE 0
  BY <1>3, <1>4, <1>5 DEF CountIn
<1>7. DictionaryInv'
  BY <1>1, <1>2, <1>4, <1>5, <1>6, GrowthKeeps
<1>8. /\ identified[d] = NoObject /\ payloadTyped[d] \in PayloadType
      /\ identified' = [identified EXCEPT ![d] = NoObject]
      /\ payloadTyped' = [payloadTyped EXCEPT ![d] = payloadTyped[d]]
  BY <1>1, <1>2, <1>5 DEF HistoryLive, ContentTypeOK
<1>9. MessageOK(new, NoObject, payloadTyped[d], segments)
  BY <1>3, <1>4, EntryFacts, Keys DEF MessageOK
<1>10. NoObject \in Given \cup {NoObject}
  OBVIOUS
<1>11. QED BY <1>2, <1>4, <1>7, <1>8, <1>9, <1>10, CreationKeeps

(* The copy of an Interest has its payload, its name and its id. *)
LEMMA CreateInterestReturnKeeps ==
    ASSUME MessageInv, NEW d \in Dictionary, NEW interest \in Dictionary, NEW code \in ReturnCode,
           CreateInterestReturn(d, interest, code)
    PROVE  MessageInv'
<1> DEFINE old == dictionary[interest]
           copy == Copied(old)
           typed == [copy EXCEPT !.type = "InterestReturn"]
           new == WithInteger(typed, "RETURN_CODE", code)
<1>1. /\ DictionaryInv /\ ContentTypeOK /\ HistoryLive
      /\ \A e \in Live : MessageOK(dictionary[e], identified[e], payloadTyped[e], segments)
  BY InvParts
<1>2. /\ interest \in Live /\ Created(d, new)
      /\ references' = [o \in Object |-> references[o] + Count(old, o)]
      /\ returns' = returns \cup {d}
      /\ identified' = [identified EXCEPT ![d] = identified[interest]]
      /\ payloadTyped' = payloadTyped
  BY DEF CreateInterestReturn, IsOfType, Count
<1>3. /\ Sound(old) /\ old \in DictionaryRecord /\ MessageOK(old, identified[interest], payloadTyped[interest], segments)
      /\ \A o \in Object : Count(old, o) \in Nat
  BY <1>1, <1>2, LiveSound
<1> HIDE DEF old
<1>4. /\ Sound(copy) /\ copy \in DictionaryRecord /\ copy.direct = old.direct
      /\ \A o \in Object : Count(copy, o) = Count(old, o)
  BY <1>3, CopyCounts, CopyShape
<1> HIDE DEF copy
<1>5. /\ Sound(typed) /\ typed.direct = old.direct /\ typed.type = "InterestReturn"
      /\ \A o \in Object : Count(typed, o) = Count(old, o)
  <2>1. /\ typed \in DictionaryRecord /\ typed.direct = copy.direct /\ typed.lists = copy.lists
        /\ typed.type = "InterestReturn"
    BY <1>4, Keys DEF DictionaryRecord
  <2> HIDE DEF typed
  <2>2. Sound(typed)
    BY <1>4, <2>1 DEF Sound
  <2>3. \A o \in Object : Count(typed, o) = Count(copy, o)
    BY <2>1, CountDependsOn
  <2>4. QED BY <1>4, <2>1, <2>2, <2>3
<1> HIDE DEF typed
<1>6. /\ Sound(new) /\ new.type = "InterestReturn"
      /\ \A k \in FastKey : k # "RETURN_CODE" => new.direct[k] = old.direct[k]
      /\ \A o \in Object : Count(new, o) = Count(old, o)
  <2>1. "RETURN_CODE" \in FastKey /\ code \in Integer
    BY Keys, MessageAssumption
  <2>2. /\ Sound(new) /\ new.type = typed.type
        /\ \A k \in FastKey : k # "RETURN_CODE" => new.direct[k] = typed.direct[k]
        /\ \A o \in Object : Count(new, o) = Count(typed, o)
    BY <1>5, <2>1, IntegerPut, Zenon
  <2> HIDE DEF new
  <2>3. QED BY <1>5, <2>2
<1> HIDE DEF new
<1>7. /\ d \notin Live /\ held' = held /\ dictionary' = [dictionary EXCEPT ![d] = new]
      /\ dictionary[d] = NoDictionary
  BY <1>2 DEF Created, Live
<1>8. DictionaryInv'
  <2>1. \A o \in Object : CountIn(new, o) = Count(old, o) /\ CountIn(dictionary[d], o) = 0
    BY <1>6, <1>7, NoDictionaryAssumption DEF CountIn, Sound
  <2>2. references \in [Object -> Nat] /\ held \in [Object -> Nat]
    BY <1>1 DEF DictionaryInv, DictionaryTypeOK
  <2>3. /\ references' \in [Object -> Int] /\ held' \in [Object -> Nat]
        /\ \A o \in Object :
              references'[o] - held'[o] =
                 references[o] - held[o] + CountIn(new, o) - CountIn(dictionary[d], o)
    BY <1>2, <1>3, <1>7, <2>1, <2>2
  <2>4. QED BY <1>1, <1>6, <1>7, <2>3, OneChanged
<1>9. /\ identified[interest] \in Given \cup {NoObject} /\ payloadTyped[d] \in PayloadType
      /\ payloadTyped' = [payloadTyped EXCEPT ![d] = payloadTyped[d]]
  BY <1>1, <1>2 DEF ContentTypeOK
<1>10. MessageOK(new, identified[interest], payloadTyped[d], segments)
  BY <1>3, <1>6, Keys DEF MessageOK
<1>11. QED BY <1>2, <1>6, <1>8, <1>9, <1>10, CreationKeeps

----------------------------------------------------------------------------
(* Setters. *)

(* What a setter that puts one value makes of the references. *)
LEMMA PuttingKeeps ==
    ASSUME DictionaryInv, NEW d \in Live, NEW key \in FastKey, NEW o \in Object,
           Putting(d, key, o)
    PROVE  DictionaryInv'
<1> DEFINE new == WithValue(dictionary[d], key, o)
<1>1. /\ d \in Dictionary /\ Sound(dictionary[d])
      /\ \A p \in Object : CountIn(dictionary[d], p) = Count(dictionary[d], p)
      /\ \A p \in Object : Count(dictionary[d], p) \in Nat
  BY LiveSound
<1>2. /\ Sound(new)
      /\ \A p \in Object : Count(new, p) =
            Count(dictionary[d], p) + IF IsUnset(dictionary[d], key) /\ p = o THEN 1 ELSE 0
  BY <1>1, ValuePut
<1>3. /\ dictionary' = [dictionary EXCEPT ![d] = new] /\ held' = held
      /\ IF IsUnset(dictionary[d], key) THEN Acquiring({o}) ELSE references' = references
  BY DEF Putting
<1> HIDE DEF new
<1>4. CASE IsUnset(dictionary[d], key)
  <2>1. \A p \in Object : Count(new, p) = CountIn(dictionary[d], p) + IF p \in {o} THEN 1 ELSE 0
    BY <1>1, <1>2, <1>4
  <2>2. Acquiring({o})
    BY <1>3, <1>4
  <2>3. QED BY <1>1, <1>2, <1>3, <2>1, <2>2, GrowthKeeps
<1>5. CASE ~IsUnset(dictionary[d], key)
  <2>1. \A p \in Object : Count(new, p) = Count(dictionary[d], p)
    BY <1>1, <1>2, <1>5
  <2>2. UNCHANGED objectVars
    BY <1>3, <1>5 DEF objectVars
  <2>3. QED BY <1>2, <1>3, <2>1, <2>2, CountKept
<1>6. QED BY <1>4, <1>5

(* ... and of the message: an entry that is there stays. *)
LEMMA PuttingShape ==
    ASSUME MessageInv, NEW d \in Live, NEW key \in FastKey, NEW o \in Object,
           Putting(d, key, o), NEW new, new = WithValue(dictionary[d], key, o)
    PROVE  /\ DictionaryInv' /\ d \in Dictionary /\ Sound(new)
           /\ dictionary' = [dictionary EXCEPT ![d] = new]
           /\ new.type = dictionary[d].type
           /\ \A k \in FastKey : k # key => new.direct[k] = dictionary[d].direct[k]
           /\ dictionary[d].direct[key] # Unset => new = dictionary[d]
           /\ dictionary[d].direct[key] = Unset => new.direct[key] = ValueEntry(o)
           /\ MessageOK(dictionary[d], identified[d], payloadTyped[d], segments)
<1>1. DictionaryInv /\ MessageOK(dictionary[d], identified[d], payloadTyped[d], segments)
  BY InvParts
<1>2. DictionaryInv' /\ d \in Dictionary /\ Sound(dictionary[d])
  BY <1>1, PuttingKeeps, LiveSound
<1>3. dictionary' = [dictionary EXCEPT ![d] = new]
  BY DEF Putting
<1>4. /\ Sound(new) /\ new.type = dictionary[d].type
      /\ \A k \in FastKey : k # key => new.direct[k] = dictionary[d].direct[k]
      /\ dictionary[d].direct[key] # Unset => new = dictionary[d]
      /\ dictionary[d].direct[key] = Unset => new.direct[key] = ValueEntry(o)
  BY <1>2, ValuePut
<1>5. QED BY <1>1, <1>2, <1>3, <1>4

(* Values whose keys no history speaks of. *)
LEMMA PlainPutKeeps ==
    ASSUME MessageInv, NEW d \in Live, NEW key \in {"KEYID_RESTRICTION", "WIRE"},
           NEW o \in Object, Putting(d, key, o), UNCHANGED <<contentVars, returns, historyVars>>
    PROVE  MessageInv'
<1> DEFINE new == WithValue(dictionary[d], key, o)
<1>1. key \in FastKey
  BY Keys
<1>2. new = WithValue(dictionary[d], key, o)
  OBVIOUS
<1> HIDE DEF new
<1>3. /\ DictionaryInv' /\ d \in Dictionary /\ Sound(new)
      /\ dictionary' = [dictionary EXCEPT ![d] = new]
      /\ new.type = dictionary[d].type
      /\ \A k \in FastKey : k # key => new.direct[k] = dictionary[d].direct[k]
      /\ dictionary[d].direct[key] # Unset => new = dictionary[d]
      /\ MessageOK(dictionary[d], identified[d], payloadTyped[d], segments)
  BY <1>1, <1>2, PuttingShape
<1>4. /\ segments' = segments /\ header' = header /\ returns' = returns /\ setter' = setter
      /\ identified' = identified /\ payloadTyped' = payloadTyped
  BY DEF contentVars, historyVars
<1>5. ContentTypeOK'
  BY <1>4, InvParts DEF ContentTypeOK
<1>6. MessageOK(new, identified'[d], payloadTyped'[d], segments')
  BY <1>3, <1>4, Keys DEF MessageOK, GetPayloadType
<1>7. /\ new.direct["HOPLIMIT"] = dictionary[d].direct["HOPLIMIT"]
      /\ dictionary[d].direct["WIRE"] # Unset => new.direct["WIRE"] = dictionary[d].direct["WIRE"]
  BY <1>3, Keys
<1>8. /\ \A e \in Dictionary \ {d} : identified'[e] = identified[e] /\ payloadTyped'[e] = payloadTyped[e]
      /\ \A name \in Name : ToSet(segments[name]) \subseteq ToSet(segments'[name])
      /\ \A packet \in Packet : header'[packet].hopLimit = header[packet].hopLimit
  BY <1>4
<1>9. QED BY <1>3, <1>4, <1>5, <1>6, <1>7, <1>8, SettingKeeps

(* An Interest's payload, with an id appended to its name or without. *)
LEMMA InterestPayloadKeeps ==
    ASSUME MessageInv, NEW d \in Live, NEW payload \in Given, NEW new,
           dictionary[d].type # "ContentObject", Putting(d, "PAYLOAD", payload),
           new = WithValue(dictionary[d], "PAYLOAD", payload),
           ContentTypeOK', header' = header, returns' = returns,
           payloadTyped' = payloadTyped, setter' = setter,
           \A name \in Name : ToSet(segments[name]) \subseteq ToSet(segments'[name]),
           \/ identified' = identified
           \/ /\ identified' = [identified EXCEPT ![d] = payload]
              /\ IsUnset(dictionary[d], "PAYLOAD") /\ HasEntry(d, "NAME", "NAME")
              /\ PayloadId(payload) \in ToSet(segments'[dictionary[d].direct["NAME"].value])
    PROVE  MessageInv'
<1>1. "PAYLOAD" \in FastKey /\ payload \in Object
  BY Keys DEF Given, Payload, BufferObject
<1>2. /\ DictionaryInv' /\ d \in Dictionary /\ Sound(new)
      /\ dictionary' = [dictionary EXCEPT ![d] = new]
      /\ new.type = dictionary[d].type
      /\ \A k \in FastKey : k # "PAYLOAD" => new.direct[k] = dictionary[d].direct[k]
      /\ dictionary[d].direct["PAYLOAD"] # Unset => new = dictionary[d]
      /\ dictionary[d].direct["PAYLOAD"] = Unset => new.direct["PAYLOAD"] = ValueEntry(payload)
      /\ MessageOK(dictionary[d], identified[d], payloadTyped[d], segments)
  BY <1>1, PuttingShape
<1>3. DictionaryInv /\ identified \in [Dictionary -> Given \cup {NoObject}]
  BY InvParts DEF ContentTypeOK
<1>4. dictionary[d].direct["NAME"].kind = "NAME" => dictionary[d].direct["NAME"].value \in Name
  <2>1. dictionary[d].direct["NAME"] \in Entry
    BY <1>3, LiveSound, Keys
  <2>2. QED BY <2>1, EntryFacts DEF Name, Kind
<1>5. /\ new.direct["NAME"] = dictionary[d].direct["NAME"]
      /\ new.direct["HOPLIMIT"] = dictionary[d].direct["HOPLIMIT"]
      /\ new.direct["PAYLOADTYPE"] = dictionary[d].direct["PAYLOADTYPE"]
      /\ new.direct["WIRE"] = dictionary[d].direct["WIRE"]
  BY <1>2, Keys
<1>6. MessageOK(new, identified'[d], payloadTyped'[d], segments')
  <2>1. CASE identified' = identified
    <3>1. identified[d] # NoObject =>
             /\ new.direct["PAYLOAD"] = ValueEntry(identified[d])
             /\ new.direct["NAME"].kind = "NAME"
             /\ PayloadId(identified[d]) \in ToSet(segments'[new.direct["NAME"].value])
      <4>1. HAVE identified[d] # NoObject
      <4>2. /\ dictionary[d].direct["PAYLOAD"] = ValueEntry(identified[d])
            /\ dictionary[d].direct["NAME"].kind = "NAME"
            /\ PayloadId(identified[d]) \in ToSet(segments[dictionary[d].direct["NAME"].value])
        BY <1>2, <4>1 DEF MessageOK
      <4>3. ValueEntry(identified[d]) # Unset
        BY <1>3, <1>2, <4>1, EntryFacts DEF Given, Payload, BufferObject
      <4>4. QED BY <1>2, <1>4, <1>5, <4>2, <4>3
    <3>2. QED BY <1>2, <1>5, <2>1, <3>1 DEF MessageOK
  <2>2. CASE /\ identified' = [identified EXCEPT ![d] = payload]
             /\ IsUnset(dictionary[d], "PAYLOAD") /\ HasEntry(d, "NAME", "NAME")
             /\ PayloadId(payload) \in ToSet(segments'[dictionary[d].direct["NAME"].value])
    <3>1. identified'[d] = payload /\ new.direct["PAYLOAD"] = ValueEntry(payload)
      BY <1>2, <1>3, <2>2 DEF IsUnset
    <3>2. QED BY <1>2, <1>5, <2>2, <3>1 DEF MessageOK, HasEntry
  <2>3. QED BY <2>1, <2>2
<1>7. \A e \in Dictionary \ {d} : identified'[e] = identified[e] /\ payloadTyped'[e] = payloadTyped[e]
  BY <1>3
<1>8. \A packet \in Packet : header'[packet].hopLimit = header[packet].hopLimit
  OBVIOUS
<1>9. QED BY <1>2, <1>5, <1>6, <1>7, <1>8, SettingKeeps

LEMMA SetPayloadKeeps ==
    ASSUME MessageInv, NEW d \in Dictionary, NEW payload \in Given, SetPayload(d, payload)
    PROVE  MessageInv'
<1>1. /\ d \in Live /\ dictionary[d].type # "ContentObject" /\ Putting(d, "PAYLOAD", payload)
      /\ segments' = segments /\ header' = header /\ returns' = returns /\ setter' = setter
      /\ identified' = identified /\ payloadTyped' = payloadTyped
  BY DEF SetPayload, IsOfType, contentVars, historyVars
<1>2. ContentTypeOK'
  BY <1>1, InvParts DEF ContentTypeOK
<1>3. \A name \in Name : ToSet(segments[name]) \subseteq ToSet(segments'[name])
  BY <1>1
<1>4. QED BY <1>1, <1>2, <1>3, InterestPayloadKeeps

LEMMA SetPayloadWithIdKeeps ==
    ASSUME MessageInv, NEW d \in Dictionary, NEW payload \in Given, NEW other \in Given,
           SetPayloadWithId(d, payload, PayloadId(other))
    PROVE  MessageInv'
<1> DEFINE name == dictionary[d].direct["NAME"].value
           id == PayloadId(other)
<1>1. /\ d \in Live /\ dictionary[d].type # "ContentObject" /\ Putting(d, "PAYLOAD", payload)
      /\ HasEntry(d, "NAME", "NAME")
      /\ segments' = [segments EXCEPT ![name] = Append(@, id)]
      /\ header' = header /\ returns' = returns /\ setter' = setter /\ payloadTyped' = payloadTyped
      /\ identified' = IF IsUnset(dictionary[d], "PAYLOAD") /\ id = PayloadId(payload)
                       THEN [identified EXCEPT ![d] = payload] ELSE identified
  BY DEF SetPayloadWithId, IsOfType
<1>2. DictionaryInv /\ ContentTypeOK
  BY InvParts
<1>3. name \in Name
  <2>1. dictionary[d].direct["NAME"] \in Entry /\ dictionary[d].direct["NAME"].kind = "NAME"
    BY <1>1, <1>2, LiveSound, Keys DEF HasEntry
  <2>2. QED BY <2>1, EntryFacts DEF Name, Kind
<1> HIDE DEF name
<1>4. /\ segments \in [Name -> Seq({PayloadId(p) : p \in Given})] /\ id \in {PayloadId(p) : p \in Given}
  BY <1>2 DEF ContentTypeOK
<1> HIDE DEF id
<1>5. /\ segments' \in [Name -> Seq({PayloadId(p) : p \in Given})]
      /\ segments'[name] = Append(segments[name], id)
      /\ \A n \in Name \ {name} : segments'[n] = segments[n]
  BY <1>1, <1>3, <1>4
<1>6. ToSet(Append(segments[name], id)) = ToSet(segments[name]) \cup {id}
  <2> DEFINE s == segments[name]
             t == Append(s, id)
  <2>1. s \in Seq({PayloadId(p) : p \in Given})
    BY <1>3, <1>4
  <2>2. /\ DOMAIN t = 1..(Len(s) + 1) /\ DOMAIN s = 1..Len(s) /\ Len(s) \in Nat
        /\ \A i \in 1..Len(s) : t[i] = s[i]
        /\ t[Len(s) + 1] = id
    BY <1>4, <2>1
  <2> HIDE DEF s, t
  <2>3. QED BY <2>2 DEF ToSet, s, t
<1>7. \A n \in Name : ToSet(segments[n]) \subseteq ToSet(segments'[n])
  BY <1>5, <1>6
<1>8. ContentTypeOK'
  <2>1. identified' \in [Dictionary -> Given \cup {NoObject}]
    BY <1>1, <1>2 DEF ContentTypeOK
  <2>2. QED BY <1>1, <1>2, <1>5, <2>1 DEF ContentTypeOK
<1>9. CASE IsUnset(dictionary[d], "PAYLOAD") /\ id = PayloadId(payload)
  <2>1. PayloadId(payload) \in ToSet(segments'[dictionary[d].direct["NAME"].value])
    BY <1>5, <1>6, <1>9 DEF name
  <2>2. identified' = [identified EXCEPT ![d] = payload]
    BY <1>1, <1>9
  <2>3. QED BY <1>1, <1>7, <1>8, <1>9, <2>1, <2>2, InterestPayloadKeeps
<1>10. CASE ~(IsUnset(dictionary[d], "PAYLOAD") /\ id = PayloadId(payload))
  <2>1. identified' = identified
    BY <1>1, <1>10
  <2>2. QED BY <1>1, <1>7, <1>8, <2>1, InterestPayloadKeeps
<1>11. QED BY <1>9, <1>10

(* The dictionary's limit, and the byte of the packet that is attached.    *)
LEMMA SetHopLimitKeeps ==
    ASSUME MessageInv, NEW d \in Dictionary, NEW hop \in HopLimit, SetHopLimit(d, hop)
    PROVE  MessageInv'
<1> DEFINE old == dictionary[d]
           new == WithInteger(old, "HOPLIMIT", hop)
           packet == old.direct["WIRE"].value
<1>1. /\ d \in Live /\ dictionary' = [dictionary EXCEPT ![d] = new]
      /\ held' = held /\ references' = references /\ segments' = segments /\ returns' = returns
      /\ identified' = identified /\ payloadTyped' = payloadTyped
      /\ IF old.direct["WIRE"].kind = "IOVEC"
         THEN /\ header' = [header EXCEPT ![packet].hopLimit = Byte(hop)]
              /\ setter' = [setter EXCEPT ![packet] = d]
         ELSE header' = header /\ setter' = setter
  BY DEF SetHopLimit, IsOfType, HasEntry, objectVars
<1>2. /\ DictionaryInv /\ ContentTypeOK /\ HistoryLive
      /\ MessageOK(old, identified[d], payloadTyped[d], segments)
      /\ \A p \in Packet : setter[p] # NoDictionary =>
            PacketOK(dictionary[setter[p]], p, header[p].hopLimit)
  BY <1>1, InvParts
<1>3. "HOPLIMIT" \in FastKey /\ hop \in Integer /\ hop \in Nat /\ Sound(old)
  BY <1>1, <1>2, LiveSound, Keys, MessageAssumption
<1>4. /\ Sound(new) /\ new.type = old.type
      /\ \A k \in FastKey : k # "HOPLIMIT" => new.direct[k] = old.direct[k]
      /\ old.direct["HOPLIMIT"].kind \in {"UNSET", "INTEGER"} =>
            new.direct["HOPLIMIT"] = IntegerEntry(hop)
      /\ \A o \in Object : Count(new, o) = Count(old, o)
  BY SMTT(30), <1>3, IntegerPut, Zenon
<1>5. old.direct["WIRE"] \in Entry
  BY <1>1, <1>2, LiveSound, Keys
<1> HIDE DEF new
<1>6. new.direct["HOPLIMIT"] = IntegerEntry(hop)
  BY <1>2, <1>4 DEF MessageOK
<1>7. DictionaryInv'
  <2>1. dictionary' = [dictionary EXCEPT ![d] = new] /\ UNCHANGED objectVars
    BY <1>1 DEF objectVars
  <2>2. \A o \in Object : Count(new, o) = Count(dictionary[d], o)
    BY <1>4
  <2>3. QED BY <1>1, <1>2, <1>4, <2>1, <2>2, CountKept
<1>8. MessageOK(new, identified'[d], payloadTyped'[d], segments')
  <2>1. /\ new.direct["PAYLOADTYPE"] = old.direct["PAYLOADTYPE"]
        /\ new.direct["PAYLOAD"] = old.direct["PAYLOAD"] /\ new.direct["NAME"] = old.direct["NAME"]
    BY <1>4, Keys
  <2>2. new.direct["HOPLIMIT"].kind = "INTEGER"
    BY <1>3, <1>6, EntryFacts
  <2>3. QED BY <1>1, <1>2, <1>4, <2>1, <2>2 DEF MessageOK, GetPayloadType
<1>9. new.direct["WIRE"] = old.direct["WIRE"] /\ Byte(hop) \in 0..255
  BY <1>3, <1>4, Keys DEF Byte
<1>10. d \in returns' => new.type = "InterestReturn"
  BY <1>1, <1>2, <1>4 DEF HistoryLive, IsOfType
<1>11. CASE old.direct["WIRE"].kind = "IOVEC"
  <2>1. packet \in Packet /\ old.direct["WIRE"] = ValueEntry(packet)
    BY <1>5, <1>11, EntryFacts DEF Packet, Kind
  <2> HIDE DEF packet
  <2>2. /\ header' = [header EXCEPT ![packet].hopLimit = Byte(hop)]
        /\ setter' = [setter EXCEPT ![packet] = d]
    BY <1>1, <1>11
  <2>3. /\ header'[packet].hopLimit = Byte(hop) /\ header' \in [Packet -> HeaderRecord]
        /\ \A p \in Packet : p # packet => header'[p] = header[p]
    <3>1. header \in [Packet -> HeaderRecord]
      BY <1>2 DEF ContentTypeOK
    <3>2. [header[packet] EXCEPT !.hopLimit = Byte(hop)] \in HeaderRecord
          /\ [header[packet] EXCEPT !.hopLimit = Byte(hop)].hopLimit = Byte(hop)
      BY <1>9, <2>1, <3>1 DEF HeaderRecord
    <3> DEFINE head == [header[packet] EXCEPT !.hopLimit = Byte(hop)]
    <3>3. header' = [header EXCEPT ![packet] = head]
      BY <2>2
    <3>4. head \in HeaderRecord /\ head.hopLimit = Byte(hop)
      BY <3>2
    <3> HIDE DEF head
    <3>5. QED BY <2>1, <3>1, <3>3, <3>4
  <2>4. ContentTypeOK'
    BY <1>1, <1>2, <2>1, <2>2, <2>3 DEF ContentTypeOK
  <2>5. PacketOK(new, packet, header'[packet].hopLimit)
    BY <1>3, <1>6, <1>9, <2>1, <2>3, EntryFacts DEF PacketOK
  <2>6. ASSUME NEW p \in Packet, p # packet
        PROVE  setter[p] # d \/ setter[p] = NoDictionary
    <3>1. SUFFICES ASSUME setter[p] = d, setter[p] # NoDictionary PROVE FALSE
      OBVIOUS
    <3>2. old.direct["WIRE"] = ValueEntry(p) /\ p \in Object /\ packet \in Object
      BY <1>2, <2>1, <3>1 DEF PacketOK, Packet
    <3>3. ValueEntry(p).value = p /\ ValueEntry(packet).value = packet
      BY <3>2, EntryFacts
    <3>4. ValueEntry(p) = ValueEntry(packet)
      BY <2>1, <3>2
    <3>5. QED BY <2>6, <3>3, <3>4
  <2>7. \A p \in Packet :
           \/ setter'[p] = NoDictionary
           \/ setter'[p] = d /\ PacketOK(new, p, header'[p].hopLimit)
           \/ /\ setter'[p] = setter[p] /\ setter[p] # d
              /\ header'[p].hopLimit = header[p].hopLimit
    <3>1. setter \in [Packet -> Dictionary \cup {NoDictionary}]
      BY <1>2 DEF ContentTypeOK
    <3>2. QED BY <2>1, <2>2, <2>3, <2>5, <2>6, <3>1
  <2>8. /\ \A e \in Dictionary \ {d} : identified'[e] = identified[e] /\ payloadTyped'[e] = payloadTyped[e]
        /\ \A name \in Name : ToSet(segments[name]) \subseteq ToSet(segments'[name])
        /\ returns' \subseteq returns \cup {d}
        /\ dictionary' = [dictionary EXCEPT ![d] = new]
    BY <1>1
  <2>9. QED BY <1>4, <1>7, <1>8, <1>10, <2>4, <2>7, <2>8, OneMessageChanged
<1>12. CASE old.direct["WIRE"].kind # "IOVEC"
  <2>1. header' = header /\ setter' = setter
    BY <1>1, <1>12
  <2>2. ContentTypeOK'
    BY <1>1, <1>2, <2>1 DEF ContentTypeOK
  <2>3. \A p \in Packet : setter[p] # d \/ setter[p] = NoDictionary
    <3>1. \A p \in Packet : ValueEntry(p).kind = "IOVEC"
      BY EntryFacts DEF Packet
    <3>2. QED BY <1>2, <1>12, <3>1 DEF PacketOK
  <2>4. \A p \in Packet :
           \/ setter'[p] = NoDictionary
           \/ setter'[p] = d /\ PacketOK(new, p, header'[p].hopLimit)
           \/ /\ setter'[p] = setter[p] /\ setter[p] # d
              /\ header'[p].hopLimit = header[p].hopLimit
    BY <2>1, <2>3
  <2>5. /\ \A e \in Dictionary \ {d} : identified'[e] = identified[e] /\ payloadTyped'[e] = payloadTyped[e]
        /\ \A name \in Name : ToSet(segments[name]) \subseteq ToSet(segments'[name])
        /\ returns' \subseteq returns \cup {d}
        /\ dictionary' = [dictionary EXCEPT ![d] = new]
    BY <1>1
  <2>6. QED BY <1>4, <1>7, <1>8, <1>10, <2>2, <2>4, <2>5, OneMessageChanged
<1>13. QED BY <1>11, <1>12

(* The bytes of a packet change, the dictionary does not. *)
LEMMA HeaderPutKeeps ==
    ASSUME MessageInv, UNCHANGED <<dictionaryVars, segments, returns, identified, payloadTyped>>,
           header' \in [Packet -> HeaderRecord],
           setter' \in [Packet -> Dictionary \cup {NoDictionary}],
           \A p \in Packet : \/ setter'[p] = NoDictionary
                             \/ setter'[p] = setter[p] /\ header'[p].hopLimit = header[p].hopLimit
    PROVE  MessageInv'
<1>1. /\ dictionary' = dictionary /\ held' = held /\ references' = references
      /\ segments' = segments /\ returns' = returns
      /\ identified' = identified /\ payloadTyped' = payloadTyped
  BY DEF dictionaryVars, objectVars
<1>2. /\ DictionaryInv /\ ContentTypeOK /\ HistoryLive
      /\ \A e \in Live : MessageOK(dictionary[e], identified[e], payloadTyped[e], segments)
      /\ \A p \in Packet : setter[p] # NoDictionary =>
            PacketOK(dictionary[setter[p]], p, header[p].hopLimit)
  BY InvParts
<1>3. ContentTypeOK'
  BY <1>1, <1>2 DEF ContentTypeOK
<1>4. Live' = Live /\ DictionaryInv'
  BY <1>1, <1>2 DEF Live, DictionaryInv, DictionaryTypeOK, ReferencesExact, ListsBounded,
                    HoldersFinite, Holders
<1>5. HistoryLive'
  BY <1>1, <1>2, <1>4 DEF HistoryLive, IsOfType
<1>6. \A p \in Packet : setter'[p] # NoDictionary =>
          PacketOK(dictionary'[setter'[p]], p, header'[p].hopLimit)
  BY <1>1, <1>2
<1>7. \A e \in Live' : MessageOK(dictionary'[e], identified'[e], payloadTyped'[e], segments')
  BY <1>1, <1>2, <1>4
<1>8. (IntegersAre /\ IdentifiedByName /\ PayloadTypeBelongs)'
  BY <1>7 DEF IntegersAre, IdentifiedByName, PayloadTypeBelongs, MessageOK, HasEntry,
               IsOfType, IsUnset
<1>9. (SetterAttached /\ HopLimitInSync)'
  BY <1>6 DEF SetterAttached, HopLimitInSync, PacketOK
<1>10. QED BY <1>3, <1>4, <1>5, <1>8, <1>9 DEF MessageInv

LEMMA AttachedPacket ==
    ASSUME MessageInv, NEW d \in Live, HasEntry(d, "WIRE", "IOVEC")
    PROVE  dictionary[d].direct["WIRE"].value \in Packet
<1>1. dictionary[d].direct["WIRE"] \in Entry /\ dictionary[d].direct["WIRE"].kind = "IOVEC"
  BY LiveSound, Keys DEF MessageInv, HasEntry
<1>2. QED BY <1>1, EntryFacts DEF Packet, Kind

LEMMA WireSetHopLimitKeeps ==
    ASSUME MessageInv, NEW d \in Dictionary, NEW hop \in HopLimit, WireSetHopLimit(d, hop)
    PROVE  MessageInv'
<1> DEFINE packet == dictionary[d].direct["WIRE"].value
           head == [header[packet] EXCEPT !.hopLimit = Byte(hop)]
<1>1. packet \in Packet
  BY AttachedPacket DEF WireSetHopLimit
<1>2. /\ UNCHANGED <<dictionaryVars, segments, returns, identified, payloadTyped>>
      /\ header' = [header EXCEPT ![packet] = head]
      /\ setter' = [setter EXCEPT ![packet] = NoDictionary]
  BY DEF WireSetHopLimit
<1>3. header \in [Packet -> HeaderRecord] /\ setter \in [Packet -> Dictionary \cup {NoDictionary}]
  BY DEF MessageInv, ContentTypeOK
<1> HIDE DEF packet
<1>4. head \in HeaderRecord
  <2>1. hop \in Nat
    BY MessageAssumption
  <2>2. Byte(hop) \in 0..255
    BY <2>1 DEF Byte
  <2>3. QED BY <1>1, <1>3, <2>2 DEF HeaderRecord
<1> HIDE DEF head
<1>5. /\ header' \in [Packet -> HeaderRecord] /\ setter' \in [Packet -> Dictionary \cup {NoDictionary}]
      /\ \A p \in Packet : \/ setter'[p] = NoDictionary
                           \/ setter'[p] = setter[p] /\ header'[p].hopLimit = header[p].hopLimit
  BY <1>1, <1>2, <1>3, <1>4
<1>6. QED BY <1>2, <1>5, HeaderPutKeeps

LEMMA ConvertKeeps ==
    ASSUME MessageInv, NEW d \in Dictionary, NEW code \in ReturnCode,
           ConvertInterestToInterestReturn(d, code)
    PROVE  MessageInv'
<1> DEFINE packet == dictionary[d].direct["WIRE"].value
           one == [header[packet] EXCEPT !.packetType = "InterestReturn"]
           two == [one EXCEPT !.returnCode = code]
<1>1. packet \in Packet
  BY AttachedPacket DEF ConvertInterestToInterestReturn
<1>2. /\ UNCHANGED <<dictionaryVars, segments, returns, identified, payloadTyped>>
      /\ header' = [header EXCEPT ![packet].packetType = "InterestReturn",
                                  ![packet].returnCode = code]
      /\ setter' = setter
  BY DEF ConvertInterestToInterestReturn, historyVars
<1>3. header \in [Packet -> HeaderRecord] /\ setter \in [Packet -> Dictionary \cup {NoDictionary}]
  BY DEF MessageInv, ContentTypeOK
<1> HIDE DEF packet
<1>4. one \in HeaderRecord /\ one.hopLimit = header[packet].hopLimit
  BY <1>1, <1>3 DEF HeaderRecord
<1>5. header' = [header EXCEPT ![packet] = two]
  BY <1>1, <1>2, <1>3
<1> HIDE DEF one
<1>6. two \in HeaderRecord /\ two.hopLimit = header[packet].hopLimit
  BY <1>4 DEF HeaderRecord
<1> HIDE DEF two
<1>7. /\ header' \in [Packet -> HeaderRecord] /\ setter' \in [Packet -> Dictionary \cup {NoDictionary}]
      /\ \A p \in Packet : \/ setter'[p] = NoDictionary
                           \/ setter'[p] = setter[p] /\ header'[p].hopLimit = header[p].hopLimit
  BY <1>1, <1>2, <1>3, <1>5, <1>6
<1>8. QED BY <1>2, <1>7, HeaderPutKeeps

(* The payload of a Content Object, and its type with it. *)
LEMMA SetContentPayloadKeeps ==
    ASSUME MessageInv, NEW d \in Dictionary, NEW type \in PayloadType, NEW payload \in Given,
           SetContentPayload(d, type, payload)
    PROVE  MessageInv'
<1> DEFINE old == dictionary[d]
           put == WithValue(old, "PAYLOAD", payload)
           new == IF GetPayloadType(put) # type THEN WithInteger(put, "PAYLOADTYPE", type) ELSE put
<1>1. /\ d \in Live /\ old.type = "ContentObject" /\ held' = held
      /\ segments' = segments /\ header' = header /\ returns' = returns
      /\ identified' = identified /\ setter' = setter
  BY DEF SetContentPayload, IsOfType, contentVars
<1>2. /\ DictionaryInv /\ ContentTypeOK /\ HistoryLive
      /\ MessageOK(old, identified[d], payloadTyped[d], segments)
  BY <1>1, InvParts
<1>3. /\ Sound(old) /\ d \in Dictionary /\ "PAYLOAD" \in FastKey /\ "PAYLOADTYPE" \in FastKey
      /\ payload \in Object /\ type \in Integer
      /\ \A p \in Object : CountIn(old, p) = Count(old, p)
      /\ \A p \in Object : Count(old, p) \in Nat
  <2>1. type \in Integer
    BY MessageAssumption
  <2>2. payload \in Object /\ "PAYLOAD" \in FastKey /\ "PAYLOADTYPE" \in FastKey
    BY Keys DEF Given, Payload, BufferObject
  <2>3. QED BY <1>1, <1>2, <2>1, <2>2, LiveSound
<1>4. CASE ~IsUnset(old, "PAYLOAD")
  <2>1. dictionary' = dictionary /\ references' = references /\ payloadTyped' = payloadTyped
    BY <1>4 DEF SetContentPayload
  <2>2. UNCHANGED messageVars
    BY <1>1, <2>1 DEF messageVars, dictionaryVars, objectVars, contentVars, historyVars
  <2>3. QED BY <2>2, UnchangedKeeps
<1>5. CASE IsUnset(old, "PAYLOAD")
  <2>1. /\ dictionary' = [dictionary EXCEPT ![d] = new] /\ Acquiring({payload})
        /\ payloadTyped' = [payloadTyped EXCEPT ![d] = type]
    BY <1>5 DEF SetContentPayload
  <2>2. /\ Sound(put) /\ put.type = old.type
        /\ \A k \in FastKey : k # "PAYLOAD" => put.direct[k] = old.direct[k]
        /\ \A p \in Object : Count(put, p) = Count(old, p) + IF p = payload THEN 1 ELSE 0
    BY <1>3, <1>5, ValuePut
  <2> HIDE DEF put
  <2>3. put.direct["PAYLOADTYPE"].kind \in {"UNSET", "INTEGER"}
    BY <1>2, <1>3, <2>2 DEF MessageOK
  <2> DEFINE with == WithInteger(put, "PAYLOADTYPE", type)
  <2>4. /\ Sound(with) /\ with.type = put.type
        /\ \A k \in FastKey : k # "PAYLOADTYPE" => with.direct[k] = put.direct[k]
        /\ put.direct["PAYLOADTYPE"].kind \in {"UNSET", "INTEGER"} =>
              with.direct["PAYLOADTYPE"] = IntegerEntry(type)
        /\ \A p \in Object : Count(with, p) = Count(put, p)
    BY SMTT(30), <1>3, <2>2, IntegerPut, Zenon
  <2>5. new = IF GetPayloadType(put) # type THEN with ELSE put
    OBVIOUS
  <2> HIDE DEF with, new
  <2>6. GetPayloadType(with) = type /\ with.direct["PAYLOADTYPE"].kind = "INTEGER"
    BY <1>3, <2>3, <2>4, EntryFacts DEF GetPayloadType
  <2>7. /\ Sound(new) /\ new.type = old.type /\ GetPayloadType(new) = type
        /\ new.direct["PAYLOADTYPE"].kind \in {"UNSET", "INTEGER"}
        /\ \A k \in FastKey \ {"PAYLOAD", "PAYLOADTYPE"} : new.direct[k] = old.direct[k]
        /\ \A p \in Object : Count(new, p) = Count(old, p) + IF p = payload THEN 1 ELSE 0
    <3>1. CASE GetPayloadType(put) # type
      <4>1. new = with
        BY <2>5, <3>1
      <4>2. QED BY <2>2, <2>4, <2>6, <4>1
    <3>2. CASE GetPayloadType(put) = type
      <4>1. new = put
        BY <2>5, <3>2
      <4>2. QED BY <2>2, <2>3, <3>2, <4>1
    <3>3. QED BY <3>1, <3>2
  <2>8. \A p \in Object : Count(new, p) = CountIn(dictionary[d], p) + IF p \in {payload} THEN 1 ELSE 0
    BY <1>3, <2>7
  <2>9. DictionaryInv'
    BY <1>1, <1>2, <1>3, <2>1, <2>7, <2>8, GrowthKeeps
  <2>10. ContentTypeOK'
    BY <1>1, <1>2, <2>1 DEF ContentTypeOK
  <2>11. /\ payloadTyped'[d] = type /\ identified'[d] = identified[d]
         /\ \A e \in Dictionary \ {d} : identified'[e] = identified[e] /\ payloadTyped'[e] = payloadTyped[e]
    BY <1>1, <1>2, <2>1 DEF ContentTypeOK
  <2>12. identified[d] = NoObject
    <3>1. old.direct["PAYLOAD"] = Unset /\ identified[d] \in Object \cup {NoObject}
      BY <1>2, <1>3, <1>5 DEF IsUnset, ContentTypeOK, Given, Payload, BufferObject
    <3>2. QED BY <1>2, <3>1, EntryFacts DEF MessageOK
  <2>13. new.direct["HOPLIMIT"] = old.direct["HOPLIMIT"] /\ new.direct["WIRE"] = old.direct["WIRE"]
    BY <2>7, Keys
  <2>14. MessageOK(new, identified'[d], payloadTyped'[d], segments')
    BY <1>2, <2>7, <2>11, <2>12, <2>13 DEF MessageOK
  <2>15. /\ \A name \in Name : ToSet(segments[name]) \subseteq ToSet(segments'[name])
         /\ \A packet \in Packet : header'[packet].hopLimit = header[packet].hopLimit
    BY <1>1
  <2>16. QED BY <1>1, <2>1, <2>7, <2>9, <2>10, <2>11, <2>13, <2>14, <2>15, SettingKeeps
<1>6. QED BY <1>4, <1>5

LEMMA AddHashGroupKeeps ==
    ASSUME MessageInv, NEW d \in Dictionary, NEW group \in Payload \ Given, AddHashGroup(d, group)
    PROVE  MessageInv'
<1> DEFINE old == dictionary[d]
           number == Len(old.lists["HASH_GROUPS"])
           new == WithListBuffer(old, "HASH_GROUPS", number, group)
<1>1. /\ d \in Live /\ old.type = "Manifest" /\ held' = held
      /\ number < MaxList
      /\ dictionary' = [dictionary EXCEPT ![d] = new] /\ Acquiring({group})
      /\ segments' = segments /\ header' = header /\ returns' = returns
      /\ identified' = identified /\ payloadTyped' = payloadTyped /\ setter' = setter
  BY DEF AddHashGroup, IsOfType, contentVars, historyVars
<1>2. /\ DictionaryInv /\ ContentTypeOK /\ HistoryLive
      /\ MessageOK(old, identified[d], payloadTyped[d], segments)
  BY <1>1, InvParts
<1>3. /\ Sound(old) /\ d \in Dictionary /\ old \in DictionaryRecord
      /\ old.lists \in [ListKey -> Seq(ListEntry)]
      /\ \A p \in Object : CountIn(old, p) = Count(old, p)
  BY <1>1, <1>2, LiveSound
<1>4. /\ "HASH_GROUPS" \in ListKey /\ group \in BufferObject
      /\ number \in EntryKey
  <2>1. "HASH_GROUPS" \in ListKey /\ 0..(MaxList - 1) \subseteq EntryKey
    BY MessageAssumption
  <2>2. number \in Nat /\ MaxList \in Nat
    BY <1>3, <2>1, CountAssumption
  <2>3. number \in 0..(MaxList - 1)
    BY <1>1, <2>2
  <2>4. QED BY <2>1, <2>3 DEF Payload
<1>5. /\ Sound(new)
      /\ \A o \in Object : Count(new, o) = Count(old, o) + IF o = group THEN 1 ELSE 0
  BY <1>1, <1>3, <1>4, ListCounts
<1>6. new.type = old.type /\ new.direct = old.direct
  <2>1. old \in DictionaryRecord /\ "HASH_GROUPS" \in ListKey
    BY <1>3, <1>4
  <2>2. QED BY <2>1 DEF WithListBuffer, DictionaryRecord
<1> HIDE DEF new
<1>7. \A o \in Object : Count(new, o) = CountIn(dictionary[d], o) + IF o \in {group} THEN 1 ELSE 0
  BY <1>3, <1>5
<1>8. DictionaryInv'
  BY <1>1, <1>2, <1>3, <1>5, <1>7, GrowthKeeps
<1>9. ContentTypeOK'
  BY <1>1, <1>2 DEF ContentTypeOK
<1>10. MessageOK(new, identified'[d], payloadTyped'[d], segments')
  BY <1>1, <1>2, <1>6 DEF MessageOK, GetPayloadType
<1>11. /\ \A e \in Dictionary \ {d} : identified'[e] = identified[e] /\ payloadTyped'[e] = payloadTyped[e]
       /\ \A name \in Name : ToSet(segments[name]) \subseteq ToSet(segments'[name])
       /\ \A packet \in Packet : header'[packet].hopLimit = header[packet].hopLimit
  BY <1>1
<1>12. /\ new.type = dictionary[d].type
       /\ new.direct["WIRE"] = dictionary[d].direct["WIRE"]
       /\ new.direct["HOPLIMIT"] = dictionary[d].direct["HOPLIMIT"]
  BY <1>6
<1>13. QED BY <1>1, <1>5, <1>8, <1>9, <1>10, <1>11, <1>12, SettingKeeps

----------------------------------------------------------------------------
(* Release: what nobody can reach has no history. *)
LEMMA ReleaseMessageKeeps ==
    ASSUME MessageInv, NEW d \in Dictionary, ReleaseMessage(d)
    PROVE  MessageInv'
<1>1. /\ DictionaryInv /\ ContentTypeOK /\ HistoryLive
      /\ \A e \in Live : MessageOK(dictionary[e], identified[e], payloadTyped[e], segments)
      /\ \A p \in Packet : setter[p] # NoDictionary =>
            PacketOK(dictionary[setter[p]], p, header[p].hopLimit)
  BY InvParts
<1>2. /\ Release(d) /\ d \in Live /\ segments' = segments /\ header' = header
  BY DEF ReleaseMessage, Release, contentVars
<1>3. DictionaryInv'
  BY <1>1, <1>2, ReleaseKeeps
<1>4. /\ dictionary \in [Dictionary -> DictionaryRecord \cup {NoDictionary}]
      /\ NoDictionary \notin DictionaryRecord
  BY <1>1, NoDictionaryAssumption DEF DictionaryInv, DictionaryTypeOK
<1>5. CASE /\ dictionary[d].references > 1
           /\ dictionary' = [dictionary EXCEPT ![d].references = @ - 1]
  <2> DEFINE new == [dictionary[d] EXCEPT !.references = @ - 1]
  <2>1. /\ new \in DictionaryRecord /\ new.type = dictionary[d].type
        /\ new.direct = dictionary[d].direct
    <3>1. dictionary[d] \in DictionaryRecord /\ dictionary[d].references - 1 \in Nat \ {0}
      BY <1>1, <1>2, <1>5, LiveSound
    <3>2. QED BY <3>1 DEF DictionaryRecord
  <2>2. dictionary' = [dictionary EXCEPT ![d] = new]
    BY <1>5
  <2> HIDE DEF new
  <2>3. dictionary'[d] = new /\ \A e \in Dictionary : e # d => dictionary'[e] = dictionary[e]
    BY <1>4, <2>2
  <2>4. d \in Live'
    BY <1>4, <2>1, <2>3 DEF Live
  <2>5. /\ returns' = returns /\ identified' = identified /\ payloadTyped' = payloadTyped
        /\ setter' = setter
    BY <2>4 DEF ReleaseMessage, historyVars
  <2>6. ContentTypeOK'
    BY <1>1, <1>2, <2>5 DEF ContentTypeOK
  <2>7. MessageOK(new, identified'[d], payloadTyped'[d], segments')
    BY <1>1, <1>2, <2>1, <2>5 DEF MessageOK, GetPayloadType
  <2>8. /\ \A e \in Dictionary \ {d} : identified'[e] = identified[e] /\ payloadTyped'[e] = payloadTyped[e]
        /\ \A name \in Name : ToSet(segments[name]) \subseteq ToSet(segments'[name])
        /\ \A packet \in Packet : header'[packet].hopLimit = header[packet].hopLimit
    BY <1>2, <2>5
  <2>9. /\ new.direct["WIRE"] = dictionary[d].direct["WIRE"]
        /\ new.direct["HOPLIMIT"] = dictionary[d].direct["HOPLIMIT"]
    BY <2>1
  <2>10. Sound(new)
    BY <1>3, <2>3, <2>4 DEF DictionaryInv, ListsBounded
  <2>11. QED BY <1>2, <1>3, <2>1, <2>2, <2>5, <2>6, <2>7, <2>8, <2>9, <2>10, SettingKeeps
<1>6. CASE dictionary' = [dictionary EXCEPT ![d] = NoDictionary]
  <2>1. dictionary'[d] = NoDictionary /\ \A e \in Dictionary : e # d => dictionary'[e] = dictionary[e]
    BY <1>4, <1>6
  <2>2. Live' = Live \ {d}
    BY <2>1 DEF Live
  <2>3. /\ returns' = returns \ {d}
        /\ identified' = [identified EXCEPT ![d] = NoObject]
        /\ payloadTyped' = [payloadTyped EXCEPT ![d] = DATA]
        /\ setter' = [p \in Packet |-> IF setter[p] = d THEN NoDictionary ELSE setter[p]]
    BY <2>2 DEF ReleaseMessage
  <2>4. ContentTypeOK'
    <3>1. DATA \in PayloadType
      BY DEF DATA, PayloadType
    <3>2. QED BY <1>1, <1>2, <2>3, <3>1 DEF ContentTypeOK
  <2>5. HistoryLive'
    <3>1. identified \in [Dictionary -> Given \cup {NoObject}] /\ returns \subseteq Dictionary
      BY <1>1 DEF ContentTypeOK
    <3>2. \A e \in Dictionary \ Live' : identified'[e] = NoObject
      BY <1>1, <2>2, <2>3, <3>1 DEF HistoryLive
    <3>3. \A p \in Packet : setter'[p] \in Live' \cup {NoDictionary}
      BY <1>1, <2>2, <2>3 DEF HistoryLive
    <3>4. \A e \in returns' : e \in Live' /\ dictionary'[e].type \in {"InterestReturn"}
      BY <1>1, <2>1, <2>2, <2>3, <3>1 DEF HistoryLive, IsOfType
    <3>5. QED BY <3>2, <3>3, <3>4 DEF HistoryLive, IsOfType
  <2>6. \A e \in Live' : MessageOK(dictionary'[e], identified'[e], payloadTyped'[e], segments')
    <3>1. \A e \in Live' : /\ e \in Live /\ dictionary'[e] = dictionary[e]
                           /\ identified'[e] = identified[e] /\ payloadTyped'[e] = payloadTyped[e]
      BY <1>1, <2>1, <2>2, <2>3 DEF ContentTypeOK, Live
    <3>2. QED BY <1>1, <1>2, <3>1
  <2>7. \A p \in Packet : setter'[p] # NoDictionary =>
            PacketOK(dictionary'[setter'[p]], p, header'[p].hopLimit)
    <3>1. \A p \in Packet : setter'[p] # NoDictionary =>
             /\ setter'[p] = setter[p] /\ setter[p] # d /\ setter[p] # NoDictionary
             /\ setter[p] \in Dictionary
      BY <1>1, <2>3 DEF ContentTypeOK
    <3>2. QED BY <1>1, <1>2, <2>1, <3>1
  <2>8. (IntegersAre /\ IdentifiedByName /\ PayloadTypeBelongs)'
    BY <2>6 DEF IntegersAre, IdentifiedByName, PayloadTypeBelongs, MessageOK, HasEntry,
                IsOfType, IsUnset
  <2>9. (SetterAttached /\ HopLimitInSync)'
    BY <2>7 DEF SetterAttached, HopLimitInSync, PacketOK
  <2>10. QED BY <1>3, <2>4, <2>5, <2>8, <2>9 DEF MessageInv
<1>7. QED BY <1>2, <1>5, <1>6 DEF Release, FinalRelease

----------------------------------------------------------------------------
(* The theorems about messages. *)

LEMMA MessageInvInit == MessageInit => MessageInv
<1> SUFFICES ASSUME MessageInit PROVE MessageInv
  OBVIOUS
<1>1. /\ Live = {} /\ \A o : Holders(o) = {}
      /\ held \in [Object -> Nat] /\ references = held
      /\ dictionary \in [Dictionary -> DictionaryRecord \cup {NoDictionary}]
  BY DEF MessageInit, Live, Holders
<1>2. ReferencesExact /\ HoldersFinite
  <2>1. \A o : IsFiniteSet(Holders(o)) /\ Cardinality(Holders(o)) = 0
    BY <1>1, FS_EmptySet, Zenon
  <2>2. QED BY <1>1, <2>1 DEF ReferencesExact, HoldersFinite
<1>3. DictionaryInv
  BY <1>1, <1>2 DEF DictionaryInv, DictionaryTypeOK, ListsBounded
<1>4. ContentTypeOK
  <2>1. /\ DefaultHopLimit \in 0..255 /\ DATA \in PayloadType
    BY SMTT(30), MessageAssumption DEF DATA, PayloadType
  <2>2. header \in [Packet -> HeaderRecord]
    BY <2>1 DEF MessageInit, HeaderRecord
  <2>3. segments \in [Name -> Seq({PayloadId(payload) : payload \in Given})]
    BY DEF MessageInit
  <2>4. QED BY <2>1, <2>2, <2>3 DEF MessageInit, ContentTypeOK
<1>5. HistoryLive
  BY <1>1 DEF MessageInit, HistoryLive
<1>6. /\ \A d \in Live : MessageOK(dictionary[d], identified[d], payloadTyped[d], segments)
      /\ \A packet \in Packet : setter[packet] # NoDictionary =>
            PacketOK(dictionary[setter[packet]], packet, header[packet].hopLimit)
  BY <1>1 DEF MessageInit
<1>7. QED BY <1>3, <1>4, <1>5, <1>6, InvParts

LEMMA MessageInvStep == MessageInv /\ [MessageNext]_messageVars => MessageInv'
<1> SUFFICES ASSUME MessageInv, [MessageNext]_messageVars PROVE MessageInv'
  OBVIOUS
<1>1. CASE UNCHANGED messageVars
  BY <1>1, UnchangedKeeps
<1>2. ASSUME NEW d \in Dictionary, Creating(d) PROVE MessageInv'
  BY <1>2, CreateInterestKeeps, CreateContentObjectKeeps, CreateManifestKeeps,
     CreateInterestReturnKeeps, FromWireFormatKeeps DEF Creating
<1>3. ASSUME NEW d \in Dictionary, Setting(d) PROVE MessageInv'
  <2>1. ASSUME NEW payload \in Given,
               \/ SetPayload(d, payload)
               \/ \E other \in Given : SetPayloadWithId(d, payload, PayloadId(other))
               \/ \E type \in PayloadType : SetContentPayload(d, type, payload)
        PROVE  MessageInv'
    BY <2>1, SetPayloadKeeps, SetPayloadWithIdKeeps, SetContentPayloadKeeps
  <2>2. ASSUME NEW hash \in Hash, SetKeyIdRestriction(d, hash) PROVE MessageInv'
    <3>1. /\ d \in Live /\ hash \in Object /\ Putting(d, "KEYID_RESTRICTION", hash)
          /\ UNCHANGED <<contentVars, returns, historyVars>>
      BY <2>2 DEF SetKeyIdRestriction, IsOfType, Hash
    <3>2. QED BY <3>1, PlainPutKeeps
  <2>3. ASSUME NEW packet \in Packet, PutWireFormat(d, packet) PROVE MessageInv'
    <3>1. /\ d \in Live /\ packet \in Object /\ Putting(d, "WIRE", packet)
          /\ UNCHANGED <<contentVars, returns, historyVars>>
      BY <2>3 DEF PutWireFormat, Packet
    <3>2. QED BY <3>1, PlainPutKeeps
  <2>4. ASSUME NEW hop \in HopLimit, SetHopLimit(d, hop) \/ WireSetHopLimit(d, hop)
        PROVE  MessageInv'
    BY <2>4, SetHopLimitKeeps, WireSetHopLimitKeeps
  <2>5. ASSUME NEW code \in ReturnCode, ConvertInterestToInterestReturn(d, code)
        PROVE  MessageInv'
    BY <2>5, ConvertKeeps
  <2>6. ASSUME NEW group \in Payload \ Given, AddHashGroup(d, group) PROVE MessageInv'
    BY <2>6, AddHashGroupKeeps
  <2>7. QED BY <1>3, <2>1, <2>2, <2>3, <2>4, <2>5, <2>6 DEF Setting
<1>4. ASSUME NEW d \in Dictionary, ReleaseMessage(d) PROVE MessageInv'
  BY <1>4, ReleaseMessageKeeps
<1>5. QED BY <1>1, <1>2, <1>3, <1>4 DEF MessageNext

LEMMA MessageInvariance == MessageSpec => []MessageInv
BY MessageInvInit, MessageInvStep, PTL DEF MessageSpec

(* Entries have the kind of their value, the names hold payload ids, hop   *)
(* limits are bytes, and history speaks of messages that are there.        *)
THEOREM MessageTypes == MessageSpec => []MessageTypeOK
<1>1. MessageInv => MessageTypeOK
  <2>1. SUFFICES ASSUME MessageInv PROVE MessageTypeOK
    OBVIOUS
  <2>2. DictionaryInv /\ ContentTypeOK /\ HistoryLive
    BY <2>1 DEF MessageInv
  <2>3. \A packet \in Packet : header[packet].hopLimit \in 0..255
    BY <2>2 DEF ContentTypeOK, HeaderRecord
  <2>4. QED BY <2>2, <2>3 DEF MessageTypeOK, ContentTypeOK, HistoryLive, DictionaryInv
<1>2. QED BY <1>1, MessageInvariance, PTL

(* The facades' puts, the objects they make and drop, and the release of   *)
(* messages keep every object's count at what refers to it.                *)
THEOREM MessageReferencesAreExact == MessageSpec => []ReferencesExact
<1>1. MessageInv => ReferencesExact
  BY DEF MessageInv, DictionaryInv
<1>2. QED BY <1>1, MessageInvariance, PTL

(* The id of a payload that was put together with it is in the Interest's  *)
(* name, and in that of every InterestReturn made of it, whatever other    *)
(* messages append to the name they share (ccnxInterest_SetPayloadAndId).  *)
THEOREM IdentifiedPayloads == MessageSpec => []IdentifiedByName
<1>1. MessageInv => IdentifiedByName
  BY DEF MessageInv
<1>2. QED BY <1>1, MessageInvariance, PTL

(* A Content Object's payload has the type that was given with it          *)
(* (ccnxContentObject_SetPayload after ..._CreateWithPayload).             *)
THEOREM PayloadTypesBelong == MessageSpec => []PayloadTypeBelongs
<1>1. MessageInv => PayloadTypeBelongs
  BY DEF MessageInv
<1>2. QED BY <1>1, MessageInvariance, PTL

(* After ccnxInterest_SetHopLimit the packet has the low byte of the       *)
(* dictionary's limit, until somebody else sets it.                        *)
THEOREM HopLimitsInSync == MessageSpec => []HopLimitInSync
<1>1. MessageInv => HopLimitInSync
  BY DEF MessageInv
<1>2. QED BY <1>1, MessageInvariance, PTL
=============================================================================
