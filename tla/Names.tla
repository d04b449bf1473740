------------------------------- MODULE Names -------------------------------
(***************************************************************************)
(* Names: ccnx_Name.c over ccnx_NameSegment.c, ccnx_NameLabel.c and        *)
(* ccnx_NameSegmentNumber.c.                                               *)
(*                                                                         *)
(* A name is a list of segments; a segment has a type, perhaps a           *)
(* parameter, and a buffer that holds its value.  What a segment's value   *)
(* is, is what is left of that buffer: the buffer is the caller's own, and *)
(* ccnxNameSegment_GetValue gives it to whoever asks.  A prefix has the    *)
(* segments of the name it was made from, a segment of a name may be       *)
(* appended to another, a copy has buffers of its own.                     *)
(*                                                                         *)
(* Bytes are numbers below Base.  Among them are `=', the only one that    *)
(* delimits anything within the text of a segment, the ones that a URI     *)
(* takes for itself, and letters, the ones that a text shows as they are.  *)
(*                                                                         *)
(* History: `family' tells with which names, by taking prefixes and by     *)
(* appending segments of names, a name has come to have segments in        *)
(* common: itself, the names it was made from, the ones made from it and   *)
(* the ones it gave a segment to or has one from, and theirs.              *)
(***************************************************************************)
EXTENDS Integers, FiniteSets, SequencesExt

CONSTANTS
    Name,        \* the CCNxName pointers of a client
    Base,        \* the number of byte values (256)
    NumberBytes, \* the number of bytes of a uint64_t (8)
    EqualSign,   \* the byte `='
    Letter,      \* the bytes that are not escaped in a text
    Delimiter,   \* the bytes a URI takes for itself (/ % ? # and NUL)
    NewSegment,  \* the segments a client makes to append them
    Suffix,      \* the strings it appends with ComposeNAME
    Number,      \* the numbers it makes segments of
    Text,        \* the texts it makes names from
    MaxSegments, \* bound on the segments of a name
    MaxBuffers,  \* bound on the buffers of all names
    None         \* NULL

Byte == 0 .. Base - 1

(* CCNxNameLabelType *)
BADNAME == 0
NAME == 1
PAYLOADID == 2
CHUNK == 16
CHUNKMETA == 17
TIME == 18
SERIAL == 19
APP0 == 4096
APP4096 == APP0 + 4096
Unknown == 1048575

(* What a segment is to whoever reads it *)
Content ==
    [type : Nat \ {BADNAME, Unknown}, parameter : Seq(Byte) \cup {None},
     bytes : Seq(Byte)]

ASSUME NamesAssumption ==
    /\ Base \in Nat \ {0, 1} /\ NumberBytes \in Nat \ {0}
    /\ EqualSign \in Byte /\ Letter \subseteq Byte \ {EqualSign}
    /\ Delimiter \subseteq Byte \ (Letter \cup {EqualSign})
    /\ NewSegment \subseteq Content
    /\ Suffix \subseteq Seq(Byte)
    /\ MaxSegments \in Nat /\ MaxBuffers \in Nat

VARIABLES names, value, family

nameVars == <<names, value, family>>

----------------------------------------------------------------------------
(* Orders, equality and hashes, over the contents of names: sequences of   *)
(* records with a type, a parameter and the bytes of the value             *)

Sign(i) == IF i < 0 THEN -1 ELSE IF i > 0 THEN 1 ELSE 0

(* Of byte strings that are equally long *)
CompareBytes(a, b) ==
    LET different == {i \in DOMAIN a : a[i] # b[i]}
    IN  IF different = {} THEN 0
        ELSE LET i == Min(different) IN Sign(a[i] - b[i])

(* Shorter is less; the type does not count *)
CompareSegments(s, t) ==
    IF Len(s.bytes) # Len(t.bytes) THEN Sign(Len(s.bytes) - Len(t.bytes))
    ELSE CompareBytes(s.bytes, t.bytes)

Compare(x, y) ==
    LET common == 1 .. Min({Len(x), Len(y)})
        different == {i \in common : CompareSegments(x[i], y[i]) # 0}
    IN  IF different = {} THEN Sign(Len(x) - Len(y))
        ELSE LET i == Min(different) IN CompareSegments(x[i], y[i])

StartsWith_AnyLength(x, prefix) ==
    \A i \in 1 .. Min({Len(x), Len(prefix)}) :
        CompareSegments(prefix[i], x[i]) = 0

StartsWith(x, prefix) ==
    /\ Len(prefix) <= Len(x)
    /\ \A i \in DOMAIN prefix : CompareSegments(prefix[i], x[i]) = 0

NameEquals(x, y) == x = y

(* What is hashed.  An empty value adds nothing to the hash of the type,   *)
(* and a parameter is not hashed at all.                                   *)
SegmentHash(s) == <<s.type, s.bytes>>

LeftMostHash(x, count) ==
    [i \in 1 .. Min({count, Len(x)}) |-> SegmentHash(x[i])]

HashCode(x) == LeftMostHash(x, Len(x))

----------------------------------------------------------------------------
(* Numbers: big-endian, without leading zeros *)

Power[i \in 0 .. NumberBytes] == IF i = 0 THEN 1 ELSE Base * Power[i - 1]

ASSUME NumberAssumption == Number \subseteq 0 .. Power[NumberBytes] - 1

NumberToBytes(n) ==
    LET digits == [i \in 1 .. NumberBytes |->
                      (n \div Power[NumberBytes - i]) % Base]
        first  == Min({i \in 1 .. NumberBytes : digits[i] # 0 \/ i = NumberBytes})
    IN  SubSeq(digits, first, NumberBytes)

NumberValue(bytes) ==
    LET result[i \in 0 .. Len(bytes)] ==
            IF i = 0 THEN 0
            ELSE (result[i - 1] * Base + bytes[i]) % Power[NumberBytes]
    IN  result[Len(bytes)]

(* As the code has it, one byte short of what a number may need *)
IsValidNumber(bytes) == Len(bytes) \in 1 .. NumberBytes - 1

----------------------------------------------------------------------------
(* The text of a segment: words of the labels, numbers in decimal, the     *)
(* colon, `=' and bytes.  The bytes of a value are escaped where a URI     *)
(* must escape them and come back as they were, so a text has them as they *)
(* are.  The ones of a parameter are not escaped, and a delimiter of the   *)
(* URI among them is raw: a text that has one is read by ReadAs.           *)

Token == ({"word"} \X STRING) \cup ({"number"} \X Nat) \cup ({"byte"} \X Byte)

Word(w)    == <<"word", w>>
Decimal(n) == <<"number", n>>
Colon      == <<"word", ":">>
Equal      == <<"byte", EqualSign>>
Bytes(b)   == [i \in DOMAIN b |-> <<"byte", b[i]>>]
Unescaped(b) ==
    [i \in DOMAIN b |-> <<IF b[i] \in Delimiter THEN "raw" ELSE "byte", b[i]>>]

(* The table, in its order.  The words of a mnemonic are cut where one is  *)
(* the beginning of another.                                               *)
Mnemonics ==
    << [words |-> <<"Name">>,              type |-> NAME],
       [words |-> <<"PayloadId">>,         type |-> PAYLOADID],
       [words |-> <<"Serial">>,            type |-> SERIAL],
       [words |-> <<"C", "hunk">>,         type |-> CHUNK],
       [words |-> <<"C", "hunk", "Meta">>, type |-> CHUNKMETA],
       [words |-> <<"App">>,               type |-> APP0],
       [words |-> <<"Time">>,              type |-> TIME] >>

Words(words) == [i \in DOMAIN words |-> Word(words[i])]

ToMnemonic(type) ==
    LET known == {m \in ToSet(Mnemonics) : m.type = type}
    IN  IF known = {} THEN <<Decimal(type)>>
        ELSE Words((CHOOSE m \in known : TRUE).words)

(* A mnemonic is compared over the length of the label only, so that any   *)
(* beginning of it will do, and the first of the table is taken.           *)
ResolveMnemonic_MetaFirst(label) ==
    LET matching == {i \in DOMAIN Mnemonics : IsPrefix(label, Words(Mnemonics[i].words))}
    IN  IF matching = {} THEN Unknown ELSE Mnemonics[Max(matching)].type

ResolveMnemonic(label) ==
    LET matching == {i \in DOMAIN Mnemonics : IsPrefix(label, Words(Mnemonics[i].words))}
    IN  IF matching = {} THEN Unknown ELSE Mnemonics[Min(matching)].type

Resolve(label) ==
    IF label = <<>> THEN NAME
    ELSE IF label[1][1] = "number" THEN label[1][2]
    ELSE ResolveMnemonic(label)

IsApp(type) == type \in APP0 .. APP4096

LabelText(s) ==
    IF IsApp(s.type)
    THEN <<Word("App"), Colon, Decimal(s.type - APP0), Equal>>
    ELSE ToMnemonic(s.type)
             \o (IF s.parameter = None THEN <<>> ELSE <<Colon>> \o Unescaped(s.parameter))
             \o <<Equal>>

(* A label is left off when it says NAME and the value needs no escapes *)
IsEscaped(bytes) == \E i \in DOMAIN bytes : bytes[i] \notin Letter

NeedsLabel(s) == s.type # NAME \/ IsEscaped(s.bytes)

SegmentText(s) ==
    (IF NeedsLabel(s) THEN LabelText(s) ELSE <<>>) \o Bytes(s.bytes)

(* An empty name is written with the slash an empty segment would have *)
NameText(x) ==
    IF x = <<>> THEN << <<>> >> ELSE [i \in DOMAIN x |-> SegmentText(x[i])]

----------------------------------------------------------------------------
(* And back *)

ByteOf(text) == [i \in DOMAIN text |-> text[i][2]]

Index(token, text) == SelectInSeq(text, LAMBDA t : t = token)

(* None is a segment that is not valid *)
Labelled(type, parameter, bytes) ==
    IF type \in {BADNAME, Unknown} THEN None
    ELSE [type |-> type, parameter |-> parameter, bytes |-> bytes]

ParseLabel(label, bytes) ==
    LET colon == Index(Colon, label)
        words == IF colon = 0 THEN label ELSE SubSeq(label, 1, colon - 1)
        after == SubSeq(label, colon + 1, Len(label))
        type  == Resolve(words)
    IN  IF colon = 0 THEN Labelled(type, None, bytes)
        ELSE IF type = APP0 THEN Labelled(APP0 + after[1][2], None, bytes)
        ELSE Labelled(type, ByteOf(after), bytes)

ParseSegment(text) ==
    LET equal == Index(Equal, text)
    IN  IF equal = 0 THEN Labelled(NAME, None, ByteOf(text))
        ELSE IF equal = 1 THEN None
        ELSE ParseLabel(SubSeq(text, 1, equal - 1),
                        ByteOf(SubSeq(text, equal + 1, Len(text))))

(* A text is of segments that are valid or not *)
ASSUME TextAssumption ==
    /\ Text \subseteq Seq(Seq(Token))
    /\ \A text \in Text : \A i \in DOMAIN text :
          ParseSegment(text[i]) \in Content \cup {None}

(* What a URI makes of a text: when it begins with two slashes, what       *)
(* follows them is an authority and not a part of the path.                *)
HasAuthority(text) == Len(text) > 1 /\ text[1] = <<>>
Path(text) == IF HasAuthority(text) THEN SubSeq(text, 3, Len(text)) ELSE text

(* Where a URI ends, or what it escapes, at a raw delimiter is left open:  *)
(* what is read of such a text is any text a client could have given.      *)
IsPlain(text) == \A i \in DOMAIN text : \A j \in DOMAIN text[i] : text[i][j][1] # "raw"
ReadAs(text) == IF IsPlain(text) THEN {text} ELSE Text

(* ccnxName_CreateFromCString *)
ParseName(text) ==
    LET path == Path(text)
        segments == [i \in DOMAIN path |-> ParseSegment(path[i])]
    IN  IF None \in ToSet(segments) THEN None ELSE segments

----------------------------------------------------------------------------
(* Names and their buffers *)

Cell == 1 .. MaxBuffers

(* A segment, and the buffer of its value *)
SegmentRecord ==
    [type : Nat \ {BADNAME, Unknown}, parameter : Seq(Byte) \cup {None}, value : Cell]

(* NULL is no segment, and no name *)
ASSUME NoneAssumption == None \notin Content \cup Seq(SegmentRecord)

Live == {n \in Name : names[n] # None}

Left(buffer) == SubSeq(buffer.bytes, buffer.position + 1, Len(buffer.bytes))

Contents(n) ==
    [i \in DOMAIN names[n] |->
        [type      |-> names[n][i].type,
         parameter |-> names[n][i].parameter,
         bytes     |-> Left(value[names[n][i].value])]]

CellsOf(segments) == {segments[i].value : i \in DOMAIN segments}

Buffer(bytes) == [bytes |-> bytes, position |-> 0]

(* As many buffers that none of these names has, if there are *)
FreshCells(now, count) ==
    LET used == UNION {CellsOf(now[m]) : m \in {k \in Name : now[k] # None}}
        free == SetToSeq(Cell \ used)
    IN  SubSeq(free, 1, Min({count, Len(free)}))

Placed(old, contents, cells) ==
    old \o [i \in DOMAIN contents |->
               [type |-> contents[i].type, parameter |-> contents[i].parameter,
                value |-> cells[i]]]

(* n becomes the segments `old', which it or another name has, followed by *)
(* new ones with these contents.  A buffer no name has is given back.      *)
Become(n, old, contents) ==
    LET now   == [names EXCEPT ![n] = old]
        cells == FreshCells(now, Len(contents))
        segments == Placed(old, contents, cells)
        all   == [names EXCEPT ![n] = segments]
        used  == UNION {CellsOf(all[m]) : m \in {k \in Name : all[k] # None}}
    IN  /\ Len(cells) = Len(contents)   \* MaxBuffers
        /\ names' = all
        /\ value' = [c \in Cell |->
                        IF c \in ToSet(cells)
                        THEN Buffer(contents[CHOOSE i \in DOMAIN cells : cells[i] = c].bytes)
                        ELSE IF c \in used THEN value[c] ELSE None]

(* The name a client makes, if the code makes one *)
Made(n, old, contents, relatives) ==
    /\ names[n] = None
    /\ Become(n, old, contents)
    /\ family' = [m \in Name |-> IF m \in relatives \cup {n}
                                 THEN relatives \cup {n} ELSE family[m]]

Create(n) == Made(n, <<>>, <<>>, {})

CreateFromCString(n, text) ==
    LET contents == ParseName(text)
    IN  contents # None /\ Len(contents) <= MaxSegments /\ Made(n, <<>>, contents, {})

Copy_Shallow(n, m) == Made(n, names[m], <<>>, {})

Copy(n, m) == Made(n, <<>>, Contents(m), {})

(* Of as many segments as there are *)
CreatePrefix(n, m, length) ==
    Made(n, SubSeq(names[m], 1, Min({length, Len(names[m])})), <<>>, family[m])

NameSegment(type, bytes) == [type |-> type, parameter |-> None, bytes |-> bytes]

ComposeNAME(n, m, suffix) ==
    /\ Len(names[m]) < MaxSegments
    /\ Made(n, <<>>, Append(Contents(m), NameSegment(NAME, suffix)), {})

(* Through the text of the name and back *)
ComposeFormatString(n, m, text) ==
    \E read \in ReadAs(NameText(Contents(m)) \o text) : CreateFromCString(n, read)

(* A segment that was made for the name *)
AppendSegment(n, segment) ==
    /\ Len(names[n]) < MaxSegments
    /\ Become(n, names[n], <<segment>>)
    /\ UNCHANGED family

(* A segment of a name, which both names have from then on *)
AppendSegmentOf(n, m, i) ==
    /\ Len(names[n]) < MaxSegments
    /\ Become(n, Append(names[n], names[m][i]), <<>>)
    /\ LET joined == family[n] \cup family[m]
       IN  family' = [k \in Name |-> IF k \in joined THEN joined ELSE family[k]]

AppendNumber(n, number) == AppendSegment(n, NameSegment(CHUNK, NumberToBytes(number)))

Trim(n, numberToRemove) ==
    LET count == Min({numberToRemove, Len(names[n])})
    IN  /\ Become(n, SubSeq(names[n], 1, Len(names[n]) - count), <<>>)
        /\ UNCHANGED family

Release(n) ==
    /\ names' = [names EXCEPT ![n] = None]
    /\ LET used == UNION {CellsOf(names[m]) : m \in Live \ {n}}
       IN  value' = [c \in Cell |-> IF c \in used THEN value[c] ELSE None]
    /\ family' = [m \in Name |-> IF m = n THEN {} ELSE family[m] \ {n}]

(* Whoever has the buffer of a value reads some of it, or sets it back *)
ReadValue(n, i, position) ==
    /\ value' = [value EXCEPT ![names[n][i].value].position = position]
    /\ UNCHANGED <<names, family>>

Init ==
    /\ names = [n \in Name |-> None]
    /\ value = [c \in Cell |-> None]
    /\ family = [n \in Name |-> {}]

Next ==
    \/ \E n \in Name :
        \/ Create(n)
        \/ \E text \in Text : CreateFromCString(n, text)
    \/ \E n \in Name, m \in Live :
        \/ Copy(n, m)
        \/ \E length \in 0 .. MaxSegments + 1 : CreatePrefix(n, m, length)
        \/ \E suffix \in Suffix : ComposeNAME(n, m, suffix)
        \/ \E text \in Text : ComposeFormatString(n, m, text)
    \/ \E n \in Live :
        \/ \E segment \in NewSegment : AppendSegment(n, segment)
        \/ \E m \in Live : \E i \in DOMAIN names[m] : AppendSegmentOf(n, m, i)
        \/ \E number \in Number : AppendNumber(n, number)
        \/ \E count \in 0 .. MaxSegments + 1 : Trim(n, count)
        \/ \E i \in DOMAIN names[n] :
              \E position \in 0 .. Len(value[names[n][i].value].bytes) :
                  ReadValue(n, i, position)
        \/ Release(n)

Spec == Init /\ [][Next]_nameVars

----------------------------------------------------------------------------
(* Properties *)

(* The names a client can ask about: the ones it has and their prefixes *)
Known == UNION {{SubSeq(Contents(n), 1, k) : k \in 0 .. Len(names[n])} : n \in Live}

(* A number survives its segment (ccnxNameSegmentNumber_Create, _Value),   *)
(* and segments of numbers are in the order of the numbers, whatever the   *)
(* segments were made of.                                                  *)
Canonical(bytes) ==
    Len(bytes) \in 1 .. NumberBytes /\ (bytes[1] = 0 => Len(bytes) = 1)

NumbersInOrder ==
    /\ \A number \in Number : NumberValue(NumberToBytes(number)) = number
    /\ \A x, y \in Known : \A i \in DOMAIN x, j \in DOMAIN y :
           LET a == x[i].bytes  b == y[j].bytes IN
           Canonical(a) /\ Canonical(b) =>
               /\ NumberToBytes(NumberValue(a)) = a
               /\ CompareSegments(x[i], y[j]) = Sign(NumberValue(a) - NumberValue(b))

(* The order of names, their equality, hashes and prefixes agree with each *)
(* other, whatever was done to the names and whoever has read their        *)
(* values: the order is a total preorder, which tells names apart unless   *)
(* they differ in types and parameters only; what is equal has one hash    *)
(* and one text, and a prefix is never after what it is a prefix of.       *)
NamesInOrder ==
    \A x, y \in Known :
        /\ Compare(x, y) = - Compare(y, x)
        /\ \A z \in Known : Compare(x, y) <= 0 /\ Compare(y, z) <= 0 => Compare(x, z) <= 0
        /\ NameEquals(x, y) =>
              Compare(x, y) = 0 /\ HashCode(x) = HashCode(y) /\ NameText(x) = NameText(y)
        /\ Compare(x, y) = 0 =>
              Len(x) = Len(y) /\ \A i \in DOMAIN x : x[i].bytes = y[i].bytes
        /\ StartsWith(x, y) <=>
              Len(y) <= Len(x) /\ Compare(SubSeq(x, 1, Len(y)), y) = 0
        /\ StartsWith(x, y) => Compare(y, x) <= 0
        /\ \A count \in 0 .. MaxSegments + 1 :
              LeftMostHash(x, count) = HashCode(SubSeq(x, 1, Min({count, Len(x)})))

(* Names are in order, and numbers keep their order as segments.           *)
OrderCoherent == NumbersInOrder /\ NamesInOrder

(* ccnxNameSegmentNumber_IsValid: a valid encoded number has at least 1    *)
(* byte and no more than 8 (ccnx_NameSegmentNumber.h:130).                 *)
NumbersAreValid ==
    \A n \in Live : \A i \in DOMAIN names[n] :
        LET s == Contents(n)[i] IN
        s.type = CHUNK /\ Canonical(s.bytes) => IsValidNumber(s.bytes)

(* The text of a name is read back as the name, segment for segment, type  *)
(* and value and parameter.  What is lost is told here: a parameter where  *)
(* the text of the label has no place for it, an empty name, and a name    *)
(* whose text begins with two slashes.  A parameter is written without     *)
(* escapes: it must have neither a `=' nor a delimiter of URIs.            *)
Kept(s) ==
    s.parameter # None /\ NeedsLabel(s) /\ ~IsApp(s.type)

ReadBack(s) == IF Kept(s) THEN s ELSE [s EXCEPT !.parameter = None]

Readable(x) ==
    /\ x # <<>> /\ ~HasAuthority(NameText(x))
    /\ \A i \in DOMAIN x : Kept(x[i]) =>
          ToSet(x[i].parameter) \cap (Delimiter \cup {EqualSign}) = {}

TextRoundTrips ==
    \A n \in Live :
        LET x == Contents(n) IN
        Readable(x) => ParseName(NameText(x)) = [i \in DOMAIN x |-> ReadBack(x[i])]

(* Two names have a buffer in common only if one was made as a prefix of   *)
(* the other or was given a segment of it, or both of a third, and so on:  *)
(* reading a segment of a name never changes a copy of it, or a name       *)
(* composed from it, that was given none of its segments since.            *)
CopiesShareNothing ==
    \A n, m \in Live :
        m \notin family[n] => CellsOf(names[n]) \cap CellsOf(names[m]) = {}
=============================================================================
