--------------------------- MODULE EncodingBuffer ---------------------------
(***************************************************************************)
(* codec/ccnxCodec_EncodingBuffer.c: a list of references to PARCBuffers   *)
(* for a gathering write.  The linked list head..tail of arrays is the     *)
(* sequence `arrays'; the used part of an array is the sequence `entries', *)
(* whose length is the code's count.  An entry keeps, from the moment it   *)
(* is made, where in its buffer it begins and how long it is.              *)
(*                                                                         *)
(* `references' is the count of each PARCBuffer (libparc); `held' and      *)
(* `handles' are history: the client's own references to buffers and to    *)
(* encoding buffers.                                                       *)
(***************************************************************************)
EXTENDS Integers, FiniteSets, SequencesExt

CONSTANTS
    List,            \* the encoding buffers a run creates
    Buffer,          \* the PARCBuffers
    lengthOf,        \* bytes in each of them
    IOVec,           \* the IOVecs a run creates
    DefaultCapacity, \* entries of a new array (32)
    NoList,          \* not created, or released
    NoIOVec,
    MaxReferences,   \* bound on the references to an encoding buffer
    MaxEntries       \* bound on the entries in use when one is inserted

EntryType == [buffer : Buffer, base : Nat, length : Nat]
ArrayType == [capacity : Nat, entries : Seq(EntryType), bytes : Nat]
ListType == [references : Nat \ {0}, arrays : Seq(ArrayType),
             totalCount : Nat, totalBytes : Nat]
VecType == [encodingBuffer : List, iovcnt : Nat, iov : Seq(EntryType)]

ASSUME NoneAssumption ==
    /\ NoList \notin ListType /\ NoIOVec \notin VecType
    /\ {NoList, NoIOVec} \cap Seq(Buffer \X Nat) = {}

ASSUME EncodingAssumption ==
    /\ lengthOf \in [Buffer -> Nat]
    /\ DefaultCapacity \in Nat \ {0}
    /\ {MaxReferences, MaxEntries} \subseteq Nat

VARIABLES lists, vecs, handles, references, held, position

bufferVars == <<references, held, position>>
encodingVars == <<lists, vecs, handles, bufferVars>>

Live == {l \in List : lists[l] # NoList}
LiveVec == {v \in IOVec : vecs[v] # NoIOVec}

----------------------------------------------------------------------------
(* What the operations make of a list. *)

(* _Entry_SetIOVec: what the buffer has left at this moment. *)
EntryFor_WholeBuffer(b) == [buffer |-> b, base |-> 0, length |-> lengthOf[b]]
EntryFor(b) ==
    [buffer |-> b, base |-> position[b], length |-> lengthOf[b] - position[b]]

(* _LinkedArray_Create *)
NewArray(capacity) == [capacity |-> capacity, entries |-> <<>>, bytes |-> 0]

EmptyList == [references |-> 1, arrays |-> <<>>, totalCount |-> 0, totalBytes |-> 0]

Full(array) == Len(array.entries) = array.capacity

(* The entries in the order in which every walk of the list meets them. *)
Entries(list) == FlattenSeq([i \in DOMAIN list.arrays |-> list.arrays[i].entries])

TailWithRoom(arrays) ==
    IF arrays = <<>> \/ Full(Last(arrays))
    THEN Append(arrays, NewArray(DefaultCapacity)) ELSE arrays

HeadWithRoom(arrays) ==
    IF Full(Head(arrays)) THEN <<NewArray(DefaultCapacity)>> \o arrays ELSE arrays

(* The loop that makes room at index 0 moves entries upwards in ascending  *)
(* order: each is overwritten before it is moved, so behind the new entry  *)
(* there is the old first one, as often as there were entries.             *)
Shifted(entries, e) ==
    [i \in 1..(Len(entries) + 1) |-> IF i = 1 THEN e ELSE entries[1]]

(* Array i of the list gets the entries and the counts grow by e. *)
Grown_ArrayOnly(list, arrays, i, entries, e) ==
    [list EXCEPT
        !.arrays = [arrays EXCEPT ![i].entries = entries, ![i].bytes = @ + e.length],
        !.totalCount = @ + 1]
Grown(list, arrays, i, entries, e) ==
    [list EXCEPT
        !.arrays = [arrays EXCEPT ![i].entries = entries, ![i].bytes = @ + e.length],
        !.totalCount = @ + 1,
        !.totalBytes = @ + e.length]

Appended(list, e) ==
    LET arrays == TailWithRoom(list.arrays)
    IN Grown(list, arrays, Len(arrays), Append(Last(arrays).entries, e), e)

Prepended(list, e) ==
    LET arrays == HeadWithRoom(list.arrays)
    IN Grown(list, arrays, 1, Shifted(Head(arrays).entries, e), e)

(* Slice looks at one entry: the part of it that begins at `offset' is     *)
(* taken, and then `offset' is where the next entry begins.                *)
Taken_Uncapped(e, skipped, length) == e.length - skipped
Taken(e, skipped, length) ==
    IF e.length - skipped > length THEN length ELSE e.length - skipped

Look(acc, e) ==
    LET skipped == acc.offset - acc.position
        taken == Taken(e, skipped, acc.length)
    IN IF acc.length = 0 THEN acc
       ELSE IF skipped >= 0 /\ acc.offset < acc.position + e.length
       THEN [offset   |-> acc.offset + taken,
             length   |-> acc.length - taken,
             position |-> acc.position + e.length,
             entries  |-> Append(acc.entries,
                            [buffer |-> e.buffer, base |-> e.base + skipped,
                             length |-> taken])]
       ELSE [acc EXCEPT !.position = @ + e.length]

Selected(entries, offset, length) ==
    LET looked[i \in 0..Len(entries)] ==
          IF i = 0
          THEN [offset |-> offset, length |-> length, position |-> 0, entries |-> <<>>]
          ELSE Look(looked[i - 1], entries[i])
    IN looked[Len(entries)].entries

Bytes(entries) ==
    LET sum[i \in 0..Len(entries)] == IF i = 0 THEN 0 ELSE sum[i - 1] + entries[i].length
    IN sum[Len(entries)]

(* The slice is one array with room for as many entries as the source has. *)
SliceOf(list, offset, length) ==
    LET entries == Selected(Entries(list), offset, length)
    IN [references |-> 1,
        arrays     |-> <<[capacity |-> list.totalCount, entries |-> entries,
                          bytes |-> Bytes(entries)]>>,
        totalCount |-> Len(entries),
        totalBytes |-> Bytes(entries)]

EntriesInUse == Cardinality(UNION {{l} \X DOMAIN Entries(lists[l]) : l \in Live})

(* Where a sequence of entries names b, and where the lists do. *)
Naming(entries, b) == {i \in DOMAIN entries : entries[i].buffer = b}
Uses(entries, b) == Cardinality(Naming(entries, b))
Places(b) == UNION {{l} \X Naming(Entries(lists[l]), b) : l \in Live}

----------------------------------------------------------------------------
(* The operations *)

Create(l) ==
    /\ l \notin Live
    /\ lists' = [lists EXCEPT ![l] = EmptyList]
    /\ handles' = [handles EXCEPT ![l] = 1]
    /\ UNCHANGED <<vecs, bufferVars>>

Acquire(l) ==
    /\ handles[l] > 0 /\ lists[l].references < MaxReferences
    /\ lists' = [lists EXCEPT ![l].references = @ + 1]
    /\ handles' = [handles EXCEPT ![l] = @ + 1]
    /\ UNCHANGED <<vecs, bufferVars>>

(* parcObject release of an encoding buffer: the last one releases every   *)
(* array, and with it every buffer its entries name (_FinalRelease).       *)
FinalReferences_HeadOnly(list) ==
    [b \in Buffer |->
        references[b] - IF list.arrays = <<>> THEN 0 ELSE Uses(Head(list.arrays).entries, b)]
FinalReferences(list) == [b \in Buffer |-> references[b] - Uses(Entries(list), b)]

ReleaseList(l) ==
    IF lists[l].references > 1
    THEN /\ lists' = [lists EXCEPT ![l].references = @ - 1]
         /\ UNCHANGED bufferVars
    ELSE /\ lists' = [lists EXCEPT ![l] = NoList]
         /\ references' = FinalReferences(lists[l])
         /\ UNCHANGED <<held, position>>

Release(l) ==
    /\ handles[l] > 0
    /\ ReleaseList(l)
    /\ handles' = [handles EXCEPT ![l] = @ - 1]
    /\ UNCHANGED vecs

Insert(l, b, list) ==
    /\ handles[l] > 0 /\ held[b] > 0
    /\ EntriesInUse < MaxEntries
    /\ lists' = [lists EXCEPT ![l] = list]
    /\ references' = [references EXCEPT ![b] = @ + 1]
    /\ UNCHANGED <<vecs, handles, held, position>>

AppendBuffer(l, b) == Insert(l, b, Appended(lists[l], EntryFor(b)))

(* On an empty list the code follows a null head. *)
PrependBuffer(l, b) ==
    /\ l \in Live /\ lists[l].arrays # <<>>
    /\ Insert(l, b, Prepended(lists[l], EntryFor(b)))

(* NULL is returned, and nothing kept, when no byte is selected. *)
Slice(l, slice, offset, length) ==
    /\ handles[l] > 0 /\ slice \notin Live
    /\ LET list == SliceOf(lists[l], offset, length)
       IN /\ list.totalCount > 0
          /\ lists' = [lists EXCEPT ![slice] = list]
          /\ references' = [b \in Buffer |-> references[b] + Uses(Entries(list), b)]
    /\ handles' = [handles EXCEPT ![slice] = 1]
    /\ UNCHANGED <<vecs, held, position>>

(* iovcnt entries are allocated and one is filled for each entry. *)
CreateIOVec(l, v) ==
    /\ handles[l] > 0 /\ v \notin LiveVec
    /\ lists[l].references < MaxReferences
    /\ lists' = [lists EXCEPT ![l].references = @ + 1]
    /\ vecs' = [vecs EXCEPT ![v] = [encodingBuffer |-> l,
                                    iovcnt |-> lists[l].totalCount,
                                    iov    |-> Entries(lists[l])]]
    /\ UNCHANGED <<handles, bufferVars>>

IOVecRelease(v) ==
    /\ v \in LiveVec
    /\ ReleaseList(vecs[v].encodingBuffer)
    /\ vecs' = [vecs EXCEPT ![v] = NoIOVec]
    /\ UNCHANGED handles

(* The client and its PARCBuffers: reading moves the position. *)
ReadBuffer(b) ==
    /\ held[b] > 0 /\ position[b] < lengthOf[b]
    /\ position' = [position EXCEPT ![b] = @ + 1]
    /\ UNCHANGED <<lists, vecs, handles, references, held>>

ReleaseBuffer(b) ==
    /\ held[b] > 0
    /\ held' = [held EXCEPT ![b] = @ - 1]
    /\ references' = [references EXCEPT ![b] = @ - 1]
    /\ UNCHANGED <<lists, vecs, handles, position>>

----------------------------------------------------------------------------
Init ==
    /\ lists = [l \in List |-> NoList]
    /\ vecs = [v \in IOVec |-> NoIOVec]
    /\ handles = [l \in List |-> 0]
    /\ references = [b \in Buffer |-> 1]
    /\ held = [b \in Buffer |-> 1]
    /\ position = [b \in Buffer |-> 0]

ListStep ==
    \/ \E l \in List : Create(l) \/ Acquire(l) \/ Release(l)
    \/ \E l \in List, b \in Buffer : AppendBuffer(l, b)
    \/ \E l, slice \in List :
          \E offset, length \in 0..(MaxEntries + 1) : Slice(l, slice, offset, length)
    \/ \E l \in List, v \in IOVec : CreateIOVec(l, v)
    \/ \E v \in IOVec : IOVecRelease(v)

BufferStep == \E b \in Buffer : ReadBuffer(b) \/ ReleaseBuffer(b)

(* Any client that does not prepend to an empty list. *)
Next == ListStep \/ BufferStep \/ \E l \in List, b \in Buffer : PrependBuffer(l, b)

Spec == Init /\ [][Next]_encodingVars

(* A client that prepends only where the shifting loop is right: the first *)
(* array is full, so that a new one is made, or it has at most one entry.  *)
ShiftsRight(list) == Full(Head(list.arrays)) \/ Len(Head(list.arrays).entries) <= 1

CarefulNext ==
    \/ ListStep
    \/ BufferStep
    \/ \E l \in List, b \in Buffer :
          l \in Live /\ lists[l].arrays # <<>> /\ ShiftsRight(lists[l]) /\ PrependBuffer(l, b)

CarefulSpec == Init /\ [][CarefulNext]_encodingVars

----------------------------------------------------------------------------
(* Properties *)

(* What the code asserts of a list when it is asked to (_Validate), after  *)
(* every operation: counts and bytes are those of the entries, in each     *)
(* array and in the list, and no array holds more than it has room for.    *)
(* CreateIOVec fills an array of totalCount entries on the strength of it. *)
Accounted ==
    \A l \in Live :
        /\ lists[l] \in ListType
        /\ \A i \in DOMAIN lists[l].arrays :
              LET array == lists[l].arrays[i]
              IN Len(array.entries) <= array.capacity /\ array.bytes = Bytes(array.entries)
        /\ lists[l].totalCount = Len(Entries(lists[l]))
        /\ lists[l].totalBytes = Bytes(Entries(lists[l]))

(* The references of buffers and lists are exactly those of their users:   *)
(* a slice shares its source's buffers and outlives it, an IOVec keeps its *)
(* list, and so the memory it points into, alive after the client let go.  *)
EncodingReferencesExact ==
    /\ \A b \in Buffer :
          references[b] = held[b] + Cardinality(Places(b))
    /\ \A l \in List :
          LET users == handles[l] + Cardinality({v \in LiveVec : vecs[v].encodingBuffer = l})
          IN IF l \in Live THEN lists[l].references = users ELSE users = 0

(* The bytes a sequence of entries points at. *)
BytesAt(entries) ==
    FlattenSeq([i \in DOMAIN entries |->
        [k \in 1..entries[i].length |-> <<entries[i].buffer, entries[i].base + k - 1>>]])

ListBytes == [l \in List |-> IF l \in Live THEN BytesAt(Entries(lists[l])) ELSE NoList]
VecBytes == [v \in IOVec |-> IF v \in LiveVec THEN BytesAt(vecs[v].iov) ELSE NoIOVec]

Bytewise == INSTANCE ByteLists WITH content <- ListBytes, sent <- VecBytes

(* A slice is exactly the bytes asked for, as far as the list goes, however*)
(* the entries and the arrays are cut and whether or not some are empty.   *)
SliceSelectsBytes ==
    \A l \in Live : \A offset, length \in 0..(Len(ListBytes[l]) + 1) :
        LET end == IF offset + length > Len(ListBytes[l])
                   THEN Len(ListBytes[l]) ELSE offset + length
        IN BytesAt(Selected(Entries(lists[l]), offset, length))
              = SubSeq(ListBytes[l], offset + 1, end)

(* The list reads as the concatenation of its buffers, each from where it  *)
(* was positioned when it was inserted; a slice is a part of its source;   *)
(* an IOVec gathers what its list held when it was made, and insertions    *)
(* after that do not change it.                                            *)
ImplementsByteLists == Bytewise!ByteSpec

(* ccnxCodec_EncodingBuffer.h:217: PrependBuffer inserts at the head   *)
(* of the encoding buffer, of which nothing else is then changed.          *)
PrependInsertsAtHead ==
    [][\A l \in List, b \in Buffer :
          PrependBuffer(l, b) => ListBytes'[l] = BytesAt(<<EntryFor(b)>>) \o ListBytes[l]]_encodingVars
=============================================================================
