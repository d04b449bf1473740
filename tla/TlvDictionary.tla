--------------------------- MODULE TlvDictionary ---------------------------
(***************************************************************************)
(* The dictionary that is every message (internal/ccnx_TlvDictionary.c):   *)
(* an array of typed entries, lists of custom entries, and references to   *)
(* the values in both, which clients and other dictionaries share.         *)
(*                                                                         *)
(* An object is a buffer, a name, an IoVec, a JSON tree or any other       *)
(* PARCObject; an entry's kind is that of its object.  `references' is the *)
(* object's own count; it is freed when the count drops to zero.  `held'   *)
(* is history: the references the client owns.  A client uses an object    *)
(* only while it holds it, or through a dictionary it holds.               *)
(***************************************************************************)
EXTENDS Integers, FiniteSets, SequencesExt

CONSTANTS
    Dictionary,    \* the dictionaries a run creates
    Object,        \* the reference counted values
    kindOf,        \* what each of them is
    contentOf,     \* what parcBuffer_Equals and its like compare
    FastKey,       \* keys of the fast array
    ListKey,       \* keys of the lists
    EntryKey,      \* keys of the entries of a list
    Integer,       \* values of integer entries
    MessageType,
    NoDictionary,  \* not created, or released
    MaxReferences, \* bound on the references a client holds to a dictionary
    MaxHeld,       \* ... and to an object
    MaxList        \* bound on the length of a list

Kind == {"BUFFER", "NAME", "IOVEC", "JSON", "OBJECT"}

ASSUME ObjectAssumption ==
    /\ kindOf \in [Object -> Kind]
    /\ DOMAIN contentOf = Object
ASSUME CountAssumption == {MaxReferences, MaxHeld, MaxList} \subseteq Nat

(* fastArray and listHead have a fixed length. *)
ASSUME KeyAssumption == IsFiniteSet(FastKey) /\ IsFiniteSet(ListKey)

VARIABLES dictionary, references, held

objectVars == <<references, held>>
dictionaryVars == <<dictionary, objectVars>>

Live == {d \in Dictionary : dictionary[d] # NoDictionary}

(* ENTRY_UNSET; the entry's other half is then never read. *)
Unset == [kind |-> "UNSET"]
ValueEntry(o) == [kind |-> kindOf[o], value |-> o]
IntegerEntry(n) == [kind |-> "INTEGER", integer |-> n]

Entry == {Unset} \cup {ValueEntry(o) : o \in Object}
                 \cup {IntegerEntry(n) : n \in Integer}
BufferObject == {o \in Object : kindOf[o] = "BUFFER"}
ListEntry == [key : EntryKey, buffer : BufferObject]

DictionaryRecord ==
    [references : Nat \ {0},
     type       : MessageType,
     direct     : [FastKey -> Entry],
     lists      : [ListKey -> Seq(ListEntry)]]

ASSUME NoDictionaryAssumption == NoDictionary \notin DictionaryRecord

----------------------------------------------------------------------------
(* The places where a dictionary refers to o: <<key, 0>> in the array and  *)
(* <<list, position>> in a list.                                           *)
InArray(dict, o) ==
    {<<key, 0>> : key \in {k \in FastKey : dict.direct[k] = ValueEntry(o)}}
InLists(dict, o) ==
    {place \in ListKey \X (1..MaxList) :
        /\ place[2] \in DOMAIN dict.lists[place[1]]
        /\ dict.lists[place[1]][place[2]].buffer = o}
Places(dict, o) == InArray(dict, o) \cup InLists(dict, o)

----------------------------------------------------------------------------
(* Reading and comparing. *)

IsUnset(dict, key) == dict.direct[key] = Unset

(* ccnxTlvDictionary_Equals: the same keys with equal values, the lists    *)
(* walked in parallel.                                                     *)
EntryEquals(a, b) ==
    /\ a.kind = b.kind
    /\ a.kind = "INTEGER" => a.integer = b.integer
    /\ a.kind \in Kind => contentOf[a.value] = contentOf[b.value]
ListEquals(a, b) ==
    /\ Len(a) = Len(b)
    /\ \A i \in DOMAIN a : /\ a[i].key = b[i].key
                           /\ contentOf[a[i].buffer] = contentOf[b[i].buffer]
DictionaryEquals(a, b) ==
    /\ a.type = b.type
    /\ \A key \in FastKey : EntryEquals(a.direct[key], b.direct[key])
    /\ \A list \in ListKey : ListEquals(a.lists[list], b.lists[list])

----------------------------------------------------------------------------
(* What the operations make of a dictionary. *)

EmptyDictionary(type) ==
    [references |-> 1,
     type       |-> type,
     direct     |-> [key \in FastKey |-> Unset],
     lists      |-> [list \in ListKey |-> <<>>]]

(* PutBuffer, PutObject, PutName, PutIoVec, PutJson: the first value stays. *)
WithEntry(dict, key, entry) == [dict EXCEPT !.direct[key] = entry]

CanPutInteger(dict, key) == dict.direct[key].kind \in {"UNSET", "INTEGER"}

WithInteger(dict, key, n) ==
    IF CanPutInteger(dict, key) THEN WithEntry(dict, key, IntegerEntry(n)) ELSE dict

(* A new entry becomes the head. *)
WithListBuffer(dict, list, key, buffer) ==
    [dict EXCEPT !.lists[list] = <<[key |-> key, buffer |-> buffer]>> \o @]

(* ShallowCopy reads each list from the head and puts what it reads at the *)
(* head of the new one, and puts what each kind's getter returns.          *)
Copied_NoObjects(dict) ==
    [dict EXCEPT
        !.references = 1,
        !.direct = [key \in FastKey |-> IF @[key].kind = "OBJECT" THEN Unset ELSE @[key]],
        !.lists = [list \in ListKey |-> Reverse(@[list])]]
Copied(dict) ==
    [dict EXCEPT !.references = 1,
                 !.lists = [list \in ListKey |-> Reverse(@[list])]]
----------------------------------------------------------------------------
(* Handles. *)

(* A client creates a buffer, a name, ... and later releases it. *)
NewObject(o) ==
    /\ references[o] = 0
    /\ references' = [references EXCEPT ![o] = 1]
    /\ held' = [held EXCEPT ![o] = 1]
    /\ UNCHANGED dictionary

ReleaseObject(o) ==
    /\ held[o] > 0
    /\ references' = [references EXCEPT ![o] = @ - 1]
    /\ held' = [held EXCEPT ![o] = @ - 1]
    /\ UNCHANGED dictionary

(* A getter lends the value; the caller keeps it by acquiring it. *)
AcquireEntry(d, key) ==
    /\ d \in Live
    /\ dictionary[d].direct[key].kind \in Kind
    /\ LET o == dictionary[d].direct[key].value
       IN /\ held[o] < MaxHeld
          /\ references' = [references EXCEPT ![o] = @ + 1]
          /\ held' = [held EXCEPT ![o] = @ + 1]
    /\ UNCHANGED dictionary

Create(d, type) ==
    /\ d \notin Live
    /\ dictionary' = [dictionary EXCEPT ![d] = EmptyDictionary(type)]
    /\ UNCHANGED objectVars

Acquire(d) ==
    /\ d \in Live
    /\ dictionary[d].references < MaxReferences
    /\ dictionary' = [dictionary EXCEPT ![d].references = @ + 1]
    /\ UNCHANGED objectVars

(* The last reference releases what the entries and the lists hold. *)
FinalRelease_ListHeads(d) ==
    /\ dictionary' = [dictionary EXCEPT ![d] = NoDictionary]
    /\ references' = [o \in Object |->
          references[o] - Cardinality({place \in Places(dictionary[d], o) : place[2] < 2})]
    /\ UNCHANGED held
FinalRelease(d) ==
    /\ dictionary' = [dictionary EXCEPT ![d] = NoDictionary]
    /\ references' = [o \in Object |-> references[o] - Cardinality(Places(dictionary[d], o))]
    /\ UNCHANGED held

Release(d) ==
    /\ d \in Live
    /\ \/ /\ dictionary[d].references > 1
          /\ dictionary' = [dictionary EXCEPT ![d].references = @ - 1]
          /\ UNCHANGED objectVars
       \/ dictionary[d].references = 1 /\ FinalRelease(d)

----------------------------------------------------------------------------
(* Putting. *)

Put(d, key, o) ==
    /\ d \in Live /\ held[o] > 0
    /\ IF IsUnset(dictionary[d], key)
       THEN /\ dictionary' = [dictionary EXCEPT ![d] = WithEntry(@, key, ValueEntry(o))]
            /\ references' = [references EXCEPT ![o] = @ + 1]
       ELSE UNCHANGED <<dictionary, references>>
    /\ UNCHANGED held

PutInteger(d, key, n) ==
    /\ d \in Live
    /\ dictionary' = [dictionary EXCEPT ![d] = WithInteger(@, key, n)]
    /\ UNCHANGED objectVars

PutListBuffer(d, list, key, buffer) ==
    /\ d \in Live /\ held[buffer] > 0
    /\ Len(dictionary[d].lists[list]) < MaxList
    /\ dictionary' = [dictionary EXCEPT ![d] = WithListBuffer(@, list, key, buffer)]
    /\ references' = [references EXCEPT ![buffer] = @ + 1]
    /\ UNCHANGED held

SetMessageType(d, type) ==
    /\ d \in Live
    /\ dictionary' = [dictionary EXCEPT ![d].type = type]
    /\ UNCHANGED objectVars

(* Every put into the new dictionary acquires its value. *)
ShallowCopy(d, source) ==
    /\ source \in Live /\ d \notin Live
    /\ dictionary' = [dictionary EXCEPT ![d] = Copied(dictionary[source])]
    /\ references' = [o \in Object |-> references[o] + Cardinality(Places(dictionary[source], o))]
    /\ UNCHANGED held

Init ==
    /\ dictionary = [d \in Dictionary |-> NoDictionary]
    /\ references = [o \in Object |-> 0]
    /\ held = [o \in Object |-> 0]

Next ==
    \/ \E o \in Object : NewObject(o) \/ ReleaseObject(o)
    \/ \E d \in Dictionary :
         \/ \E type \in MessageType : Create(d, type) \/ SetMessageType(d, type)
         \/ Acquire(d) \/ Release(d)
         \/ \E source \in Dictionary : ShallowCopy(d, source)
         \/ \E key \in FastKey :
              \/ AcquireEntry(d, key)
              \/ \E o \in Object : Put(d, key, o)
              \/ \E n \in Integer : PutInteger(d, key, n)
         \/ \E list \in ListKey, key \in EntryKey, buffer \in BufferObject :
              PutListBuffer(d, list, key, buffer)

Spec == Init /\ [][Next]_dictionaryVars

----------------------------------------------------------------------------
(* Who refers to o, and where. *)
Holders(o) == UNION {{d} \X Places(dictionary[d], o) : d \in Live}

(* Entries have the kind of their value, and what nobody created has no    *)
(* handle.                                                                 *)
DictionaryTypeOK ==
    /\ dictionary \in [Dictionary -> DictionaryRecord \cup {NoDictionary}]
    /\ references \in [Object -> Nat]
    /\ held \in [Object -> Nat]

(* An object's count is the client's references plus one for every place   *)
(* in a live dictionary, in every order of puts, copies and releases: a    *)
(* value lives as long as something can reach it, and no longer.           *)
ReferencesExact ==
    \A o \in Object : references[o] = held[o] + Cardinality(Holders(o))

Palindrome(list) == ListEquals(list, Reverse(list))

(* A copy holds every entry of its source, with its lists read backwards:  *)
(* it equals its source exactly when every list reads the same both ways,  *)
(* and a copy of the copy always does.                                     *)
CopyMirrorsLists ==
    \A d \in Live :
        LET dict == dictionary[d]
            copy == Copied(dict)
        IN /\ DictionaryEquals(copy, dict)
                 <=> \A list \in ListKey : Palindrome(dict.lists[list])
           /\ DictionaryEquals(Copied(copy), dict)

(* ccnx_TlvDictionary.h:1059-1060: "The new instance contains the same     *)
(* contents as the original CCNxTlvDictionary", and line 1085 asserts that *)
(* the two are equal.                                                      *)
CopyEqualsSource ==
    \A d \in Live : DictionaryEquals(Copied(dictionary[d]), dictionary[d])
=============================================================================
