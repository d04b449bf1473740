----------------------------- MODULE Manifests -----------------------------
(***************************************************************************)
(* Manifests and their hash groups: ccnx_ManifestHashGroup.c, and          *)
(* ccnx_Manifest.c over internal/ccnx_ManifestFacadeV1.c.                  *)
(*                                                                         *)
(* A hash group is an object its client goes on changing; what a manifest  *)
(* keeps of it is the JSON text it had when it was added.  An iterator     *)
(* lives beside the group it walks, which may grow meanwhile.              *)
(*                                                                         *)
(* History: `added' holds the groups as they were when they were added to  *)
(* each manifest, `returned' what an iterator has returned, `seen' how     *)
(* many pointers its group had when it returned the last of them, and      *)
(* `undisturbed' that nothing was prepended to the group since the         *)
(* iterator was created.                                                   *)
(*                                                                         *)
(* A name or a digest is what its text in the JSON is read back as.        *)
(***************************************************************************)
EXTENDS Integers, FiniteSets, SequencesExt

CONSTANTS
    Group,          \* the hash group objects a client works with
    Manifest,       \* the manifests it makes
    Name, Digest,
    SizeField,      \* which of the four sizes of a group a run sets
    Size,           \* and the values it sets them to
    None,           \* NULL
    MaxPointers,    \* MAX_NUMBER_OF_POINTERS (1500)
    MaxHashGroups,  \* bound on the groups added to a manifest
    MaxMetadata     \* bound on the metadata a client sets in a group

PointerType == {"Data", "Manifest"}
Pointer == [pointerType : PointerType, digest : Digest]

ASSUME ManifestAssumption ==
    /\ SizeField \subseteq {"entrySize", "dataSize", "blockSize", "treeHeight"}
    /\ Size \subseteq Nat
    /\ None \notin Name \cup Digest
    /\ MaxPointers \in Nat \ {0}
    /\ MaxHashGroups \in Nat /\ MaxMetadata \in Nat

VARIABLES group, manifest, iterator, added, returned, seen, undisturbed

walkVars == <<iterator, returned, seen, undisturbed>>
manifestVars == <<group, manifest, added, walkVars>>

----------------------------------------------------------------------------
(* A hash group and its JSON *)

EmptyGroup ==
    [pointers          |-> <<>>,
     overallDataDigest |-> None,
     locator           |-> None,
     size              |-> [field \in SizeField |-> 0]]

IsFull(g) == Len(g.pointers) >= MaxPointers

(* Only what is there is written: sizes that are zero are left out.  The   *)
(* type of a pointer is written as the number of the enumeration.          *)
Metadata(g) ==
    {field \in SizeField : g.size[field] > 0}
        \cup {field \in {"overallDataDigest", "locator"} : g[field] # None}

TypeNumber(type) == IF type = "Data" THEN 0 ELSE 1

ToJson(g) ==
    [name \in {"HashGroup"} \cup Metadata(g) |->
        CASE name = "HashGroup" ->
               [i \in DOMAIN g.pointers |->
                  [type   |-> TypeNumber(g.pointers[i].pointerType),
                   digest |-> g.pointers[i].digest]]
          [] name \in SizeField -> g.size[name]
          [] OTHER -> g[name]]

(* Only what is there is read.  The pointers are appended one by one, and  *)
(* one that the group is too full for is dropped.                          *)
WithPointer(g, pointer) ==
    IF IsFull(g) THEN g ELSE [g EXCEPT !.pointers = Append(@, pointer)]

ReadPointer_Swapped(item) ==
    [pointerType |-> IF item.type = 1 THEN "Data" ELSE "Manifest",
     digest      |-> item.digest]
ReadPointer(item) ==
    [pointerType |-> IF item.type = 0 THEN "Data" ELSE "Manifest",
     digest      |-> item.digest]

CreateFromJson(json) ==
    LET Value(name, default) == IF name \in DOMAIN json THEN json[name] ELSE default
        bare == [EmptyGroup EXCEPT
                   !.overallDataDigest = Value("overallDataDigest", None),
                   !.locator = Value("locator", None),
                   !.size = [field \in SizeField |-> Value(field, 0)]]
        items == json["HashGroup"]
        read[i \in 0..Len(items)] ==
            IF i = 0 THEN bare ELSE WithPointer(read[i - 1], ReadPointer(items[i]))
    IN read[Len(items)]

(* ccnxManifestHashGroup_Equals *)
GroupEquals(a, b) ==
    /\ a.size = b.size
    /\ a.locator = b.locator
    /\ a.overallDataDigest = b.overallDataDigest
    /\ Len(a.pointers) = Len(b.pointers)
    /\ \A i \in DOMAIN a.pointers : a.pointers[i] = b.pointers[i]

----------------------------------------------------------------------------
(* Walking the pointers of a group *)

IteratorStart == [pointerNumber |-> 0, atEnd |-> FALSE]

HasNext(state) == ~state.atEnd

(* The end is noticed by the number reaching the size of the list.         *)
NextState_OneEarly(state, pointers) ==
    LET n == state.pointerNumber + 1
    IN [pointerNumber |-> n, atEnd |-> state.atEnd \/ n >= Len(pointers) - 1]
NextState(state, pointers) ==
    LET n == state.pointerNumber + 1
    IN [pointerNumber |-> n, atEnd |-> state.atEnd \/ n = Len(pointers)]

(* The pointers that a loop `while (HasNext) Next' meets in a group that   *)
(* does not change meanwhile, and that has pointers: without any, the      *)
(* first Next traps (see IteratorNext).                                    *)
WalkedOne(acc, pointers) ==
    LET next == NextState(acc.state, pointers)
    IN IF HasNext(acc.state)
       THEN [state |-> next, met |-> Append(acc.met, pointers[next.pointerNumber])]
       ELSE acc

Walked(pointers) ==
    LET walk[n \in 0..Len(pointers)] ==
            IF n = 0 THEN [state |-> IteratorStart, met |-> <<>>]
            ELSE WalkedOne(walk[n - 1], pointers)
    IN walk[Len(pointers)].met

(* CreateInterestList of a group: its own locator comes before the name it *)
(* is given; without either no Interest is made.                           *)
GroupInterests(g, locator) ==
    LET name == IF g.locator = None THEN locator ELSE g.locator
    IN IF name = None THEN <<>>
       ELSE LET met == Walked(g.pointers)
            IN [i \in DOMAIN met |-> [name |-> name, restriction |-> met[i].digest]]

----------------------------------------------------------------------------
(* A manifest: its dictionary's name and list of hash groups, head first *)

Nameless == [name |-> None, hashGroups |-> <<>>]

GetHashGroup(m, index) == CreateFromJson(m.hashGroups[index + 1])

NumberOfHashGroups(m) == Len(m.hashGroups)

(* A group is added at the head of the list. *)
WithHashGroup(m, g) == [m EXCEPT !.hashGroups = <<ToJson(g)>> \o @]

(* The manifest's name comes before the locator that the caller gives. *)
GroupLocator_CallersFirst(m, locator) == IF locator = None THEN m.name ELSE locator
GroupLocator(m, locator) == IF m.name = None THEN locator ELSE m.name

CreateInterestList(m, locator) ==
    FlattenSeq([i \in 1..NumberOfHashGroups(m) |->
                  GroupInterests(GetHashGroup(m, i - 1), GroupLocator(m, locator))])

----------------------------------------------------------------------------
(* The operations *)

AppendPointer(x, pointer) ==
    /\ group' = [group EXCEPT ![x] = WithPointer(@, pointer)]
    /\ UNCHANGED <<manifest, added, walkVars>>

PrependPointer(x, pointer) ==
    /\ IF IsFull(group[x]) THEN UNCHANGED <<group, undisturbed>>
       ELSE /\ group' = [group EXCEPT ![x].pointers = <<pointer>> \o @]
            /\ undisturbed' = (undisturbed /\ (iterator # None => iterator.group # x))
    /\ UNCHANGED <<manifest, added, iterator, returned, seen>>

(* SetEntrySize, SetDataSize, SetBlockSize, SetTreeHeight *)
SetSize(x, field, n) ==
    /\ Cardinality(Metadata(group[x]) \cup {field}) <= MaxMetadata
    /\ group' = [group EXCEPT ![x].size[field] = n]
    /\ UNCHANGED <<manifest, added, walkVars>>

SetOverallDataDigest(x, digest) ==
    /\ Cardinality(Metadata(group[x]) \cup {"overallDataDigest"}) <= MaxMetadata
    /\ group' = [group EXCEPT ![x].overallDataDigest = digest]
    /\ UNCHANGED <<manifest, added, walkVars>>

SetLocator(x, name) ==
    /\ Cardinality(Metadata(group[x]) \cup {"locator"}) <= MaxMetadata
    /\ group' = [group EXCEPT ![x].locator = name]
    /\ UNCHANGED <<manifest, added, walkVars>>

AddHashGroup(y, x) ==
    /\ NumberOfHashGroups(manifest[y]) < MaxHashGroups
    /\ manifest' = [manifest EXCEPT ![y] = WithHashGroup(@, group[x])]
    /\ added' = [added EXCEPT ![y] = Append(@, group[x])]
    /\ UNCHANGED <<group, walkVars>>

CreateIterator(x) ==
    /\ iterator' = [group |-> x, state |-> IteratorStart]
    /\ returned' = <<>> /\ seen' = 0 /\ undisturbed' = TRUE
    /\ UNCHANGED <<group, manifest, added>>

(* On a group without pointers HasNext is true and Next traps. *)
IteratorNext ==
    /\ iterator # None /\ HasNext(iterator.state)
    /\ LET pointers == group[iterator.group].pointers
           next == NextState(iterator.state, pointers)
       IN /\ next.pointerNumber \in DOMAIN pointers
          /\ iterator' = [iterator EXCEPT !.state = next]
          /\ returned' = Append(returned, pointers[next.pointerNumber])
          /\ seen' = Len(pointers)
    /\ UNCHANGED <<group, manifest, added, undisturbed>>

ReleaseIterator ==
    /\ iterator # None
    /\ iterator' = None /\ returned' = <<>> /\ seen' = 0 /\ undisturbed' = TRUE
    /\ UNCHANGED <<group, manifest, added>>

----------------------------------------------------------------------------
Init ==
    /\ group = [x \in Group |-> EmptyGroup]
    /\ \E name \in [Manifest -> Name \cup {None}] :
          manifest = [y \in Manifest |-> [Nameless EXCEPT !.name = name[y]]]
    /\ added = [y \in Manifest |-> <<>>]
    /\ iterator = None /\ returned = <<>> /\ seen = 0 /\ undisturbed = TRUE

Next ==
    \/ \E x \in Group, pointer \in Pointer : AppendPointer(x, pointer) \/ PrependPointer(x, pointer)
    \/ \E x \in Group, field \in SizeField, n \in Size : SetSize(x, field, n)
    \/ \E x \in Group, digest \in Digest : SetOverallDataDigest(x, digest)
    \/ \E x \in Group, name \in Name : SetLocator(x, name)
    \/ \E x \in Group, y \in Manifest : AddHashGroup(y, x)
    \/ \E x \in Group : CreateIterator(x)
    \/ IteratorNext \/ ReleaseIterator

Spec == Init /\ [][Next]_manifestVars

----------------------------------------------------------------------------
(* Properties *)

(* A manifest gives back, by index, the groups that were added to it, the  *)
(* last one first, each as it was when it was added: with all its          *)
(* pointers, their types and their order, and all its metadata, and        *)
(* whatever was done to the group object afterwards.                       *)
HashGroupsAreSnapshots ==
    \A y \in Manifest :
        /\ NumberOfHashGroups(manifest[y]) = Len(added[y])
        /\ \A i \in DOMAIN added[y] :
              GroupEquals(GetHashGroup(manifest[y], Len(added[y]) - i), added[y][i])

(* An iterator over a group that grows returns what is there: no pointer   *)
(* is skipped or returned twice as long as pointers are only appended.  It *)
(* is at the end only when it has returned as many pointers as the group   *)
(* had when it returned the last, and it says that there is a next one of  *)
(* a group with pointers only when there is.                               *)
IteratorFaithful ==
    iterator # None =>
        LET pointers == group[iterator.group].pointers
            n == iterator.state.pointerNumber
        IN /\ n = Len(returned) /\ n <= Len(pointers)
           /\ undisturbed => returned = SubSeq(pointers, 1, n)
           /\ ~HasNext(iterator.state) => 0 < n /\ n = seen
           /\ HasNext(iterator.state) /\ pointers # <<>> => n < Len(pointers)

(* The Interests made of a manifest ask for every pointer of every group   *)
(* once, by its digest; the name is the group's locator, else the          *)
(* manifest's name, else the caller's, and without one there is none.      *)
(* A group without pointers cannot be walked (IteratorNext).               *)
InterestsCoverPointers ==
    \A y \in Manifest : \A locator \in Name \cup {None} :
        (\A i \in DOMAIN added[y] : added[y][i].pointers # <<>>) =>
            LET NameFor(g) ==
                  CHOOSE name \in Name \cup {None} :
                     \/ g.locator # None /\ name = g.locator
                     \/ g.locator = None /\ manifest[y].name # None /\ name = manifest[y].name
                     \/ g.locator = None /\ manifest[y].name = None /\ name = locator
                Wanted(g) ==
                  IF NameFor(g) = None THEN <<>>
                  ELSE [i \in DOMAIN g.pointers |->
                          [name |-> NameFor(g), restriction |-> g.pointers[i].digest]]
            IN CreateInterestList(manifest[y], locator)
                  = FlattenSeq([i \in DOMAIN added[y] |-> Wanted(Reverse(added[y])[i])])
=============================================================================
