# Libccnx-common in TLA+

Libccnx-common is the CCNx 1.0 message library: names, Interests, Content
Objects, Manifests, and the codec between an in-memory dictionary of a message
and its wire format. The code is `src/ccnx/common`. It is a library without
threads, timers or persistent state. What is hard in it is sequences: a packet
is built by hundreds of small calls on shared mutable objects (a scatter/gather
buffer, a dictionary, reference-counted buffers), each legal by itself, and what
matters is what they add up to.

## 1. Inventory

| component | state it keeps | operations | talks to |
|---|---|---|---|
| network buffer (`codec/ccnxCodec_NetworkBuffer`) | linked list of memory blocks, current block, position, reference count | Put*, SetPosition, Finalize, GetUint8, CreateParcBuffer, ComputeSignature, CreateIoVec, Acquire/Release | libparc's allocator and signer |
| TLV encoder (`codec/ccnxCodec_TlvEncoder`) | a network buffer, the marks of the signed region, the first error, a signer | Append*, SetContainerLength, SetPosition, Mark*, ComputeSignature, SetError | network buffer |
| packet encoder (`codec/schema_v1/*Encoder`) | C locals: the start of each open container, the length accumulated in it | Encode, DictionaryEncode, with one `_encode*` per field | TLV encoder, dictionary, manifest |
| packet decoder (`codec/schema_v1/*Decoder`, `codec/ccnxCodec_TlvDecoder`) | a cursor over a received packet, the first error | Decode, one `_decode*` per field | dictionary |
| TLV dictionary (`internal/ccnx_TlvDictionary`) | a direct array of typed entries, custom lists, info pointer | Put*, Get*, ShallowCopy, Equals | every facade and the codec |
| encoding buffer (`codec/ccnxCodec_EncodingBuffer`) | linked array of (position, length, buffer) | Append, Prepend, Slice, CreateIOVec | - |
| manifest, hash groups (`ccnx_Manifest*`, manifest codecs and facade) | a list of pointers with metadata; a list of groups | Append/PrependPointer, iterators, fetch list, ToJson | names, dictionary, packet encoder |
| wire format messages (`ccnx_WireFormatMessage`, `internal/ccnx_WireFormatFacadeV1`, `ccnxCodec_TlvPacket`) | the wire bytes inside the dictionary, the extents of the signed region | SetHopLimit, ConvertInterestToInterestReturn, region setters, hashes | dictionary, decoder |
| names (`ccnx_Name*`) | a list of segments | Compose, Append, Trim, Compare, StartsWith | - |
| message facades (Interest, ContentObject, InterestReturn, Validation, Chunking) | none: views of a dictionary | Create, Set*, Get* | dictionary |
| validation algorithms (`validation/*`) | none | Set the crypto suite, create signer and verifier | libparc, dictionary |
| keystore utilities, value types (Link, KeyLocator, TimeStamp, payload id), errors | immutable values | create, get | - |

Interaction: a client fills a *dictionary* through a *facade*; the *packet
encoder* reads the dictionary and drives the *TLV encoder*, which writes the
*network buffer* and goes back to patch lengths; the finished buffer leaves as
an IoVec that shares the buffer's memory by reference count. A received packet
is wrapped as a *wire format message* whose dictionary the *decoder* fills.

What is hard in it, per component, and what must be true of it:

* network buffer - a cursor that moves backwards over a list of blocks that
  grow, freeze and are cut off. Every store must stay inside its block, the
  blocks must look like one array, an IoVec must stay a prefix of the packet,
  memory must live exactly as long as somebody can reach it.
* TLV and packet encoder - lengths are written before they are known and
  patched later; a container found empty is erased by moving the position back
  over it; an error must surface once; the signed region is marked while bytes
  before it are still to be patched. The packet must come out as the
  well-formed tree of its fields, with true lengths and a signature over the
  bytes that are sent.
* packet decoder - must accept what the encoder writes, and put back what was
  encoded.
* dictionary - the first value put under a key stays; copies share
  reference-counted values; custom lists are kept newest first.
* encoding buffer - positions and lengths cached in each element must stay the
  running sum over the list.
* manifests - iteration over groups and pointers at the limits (empty, full).
* wire format messages - the region setters, the hop limit and the dictionary
  are three views of the same bytes.

Nothing in the library runs concurrently and nothing is retried or awaited, so
nearly everything claimed is safety. One thing must eventually happen: a put into
the network buffer is a loop over blocks, and it must end. For that loop, and for
nothing else, weak fairness is assumed (section 3).

## 2. Plan

The order is that of importance for what leaves and enters a machine:
bytes first, the objects that hold a message next, the thin layers last.

| module | state | abstract specification | status |
|---|---|---|---|
| `NetworkBuffer`, `NetworkBufferIoVec` | block list, cursor, references | `FlatBuffer` | done, proved |
| `TlvEncoder`, `TlvEncoderClient` | bytes, cursor, open containers | `TlvTree` | done, proved |
| `PacketEncoder`, `PacketDecoder`, `PacketCodec` | calls left, dictionary | decoding is the inverse of encoding | done, checked; proved but for the inverse |
| `TlvDictionary`, `Messages` | the typed array, lists, references of dictionaries that share values; names and packets that change in place | - | done, proved |
| `EncodingBuffer` | lists of arrays of entries, IOVecs, references | `ByteLists` | done, proved |
| `Manifests` | hash groups, the JSON a manifest keeps of them, an iterator | the groups as they were when added | done, proved |
| `Names` | names, the buffers their segments share | a total order in which a prefix comes first; text as an inverse | done, proved |
| `ReceivedMessages` | messages, packets with a position, interface tables, hashes | - | done, proved |
| `Facades` (in `PacketCodec`) | none: setters and getters as functions of a dictionary | what one client says another hears | done, checked |

Composition: `PacketEncoder` extends `TlvEncoder`, whose buffer is the array
`FlatBuffer` promises, which `NetworkBuffer` implements; `PacketCodec` puts
`PacketDecoder` behind `PacketEncoder` and `Facades` on both sides, and lets a
relay send on what it received. `TlvDictionary` owns the references that
`PacketEncoder`'s function `dictionary` leaves out, and `Messages` puts the
setters that share objects on it. `ReceivedMessages` has the packets under the
messages, with their bytes, that `Messages` reduces to a header.

Every module of the table whose status is "proved" has its safety invariants as
theorems (section 10), and the three modules of bytes their refinements. Of packets
two invariants are theorems and one on the decoder for any bytes; that decoding
is the inverse of encoding stays with TLC.

## 3. The network buffer

`ccnxCodec_NetworkBuffer.c` is modelled by three modules.

`NetworkBuffer` - `blocks` is the linked list from `head` to `tail`, each block
with `begin`, `limit`, `capacity` and its memory, where `Unwritten` stands for
bytes nobody stored; `current` and `position` are the C fields. A put of several
bytes is a loop in C, and each iteration is a step: `mode` says which loop runs
and `pending` holds the bytes it has still to store. `finalized` is history.
`AllocatedBlocks`/`AllocatedCurrent` are `_AllocateIfNeeded` and
`EnsuredBlocks`/`EnsuredCurrent` `_EnsureRemaining`. A store outside a block's
memory has no defined behaviour: the model takes no step there, and `MemorySafe`
reports the state before it.

Two specifications share the actions. `Spec` is any client that keeps to the
header file. `CodecSpec` is the codec as a client: it puts an integer at the
limit or wholly over bytes already written (the length of a container), never
across the limit, and writes nothing after `Finalize`. The difference matters:
under `Spec` the buffer is not memory safe (finding 1), under `CodecSpec` it is,
and that is proved.

`NetworkBufferIoVec` adds reference counts and IoVecs. An IoVec copies where each
block lies and how much of it is used when it is created, and the buffer may grow
afterwards. `handles` is history: the references clients hold.

`FlatBuffer` is what the header promises: one array of bytes and a cursor. The
refinement (`ImplementsFlatBuffer`) maps the array to what `GetUint8` reads.

`PutsComplete` says that a put that began returns. `PutArray` leaves a full block
for the next, and whether what is pending gets shorter depends on `position`,
`limit` and `capacity` agreeing in every split. `LiveSpec` assumes weak fairness
of `PutLoop`, the next round of such a loop: it runs in its caller's thread, on a
buffer the caller holds, and nothing but the code can keep it from coming. Nothing
is assumed of the calls themselves: a client may stop between two of them.

`ComputeSignature` is right while the region lies in the head block
(`SignatureInHead`). For regions behind it the code compares a limit that is
relative to a block with absolute positions; `SignatureCoversRegion` states what
it should do and fails (section 9).

## 4. The TLV encoder

`TlvEncoder` is `ccnxCodec_TlvEncoder.c` over a buffer seen as `FlatBuffer`:
`content` and `position`. In C the encoder does not know about nesting; each
codec remembers in locals where its container began and adds up what the calls
returned. The stack of those locals is `open`. The codecs close containers in
four ways, and mix them in one packet: patching the length and measuring
(`CloseMeasured`), patching and counting (`CloseCounted`), counting back from the
end to find the start (`CloseRewritten`, hash groups), or moving the cursor back
over an empty container (`CloseErased`).

`TlvEncoderClient` calls them in any order. `TlvTree` is the promise: a tree
built from outside in, in which nothing is patched, and a closed container has
the length of what it holds. `ImplementsTlvTree` says that patching and moving
back reach exactly the bytes they are meant for.

## 5. The packet codec

`SchemaV1` holds the numbers of the wire format and the dictionary: a function
from field names to entries of a kind (`d.hopLimit.integer`, `d.payload.buffer`).

`PacketEncoder` - each `_encode*` function of `codec/schema_v1` is an operator of
the same name whose value is the sequence of calls the function makes; `todo` is
what is left of them, and one step makes one call. That is faithful because only
one call changes what a later one reads (the signature, which is read by the call
that made it), and because every function returns at the first failure. Of the
interfaces both are there: `ccnxCodecSchemaV1_PacketEncoder_Encode` with a signer,
and `DictionaryEncode`, which does not pass it on and traps on errors. A Control
message that has neither a JSON nor a buffer dereferences a null pointer
(`ccnxCodecSchemaV1_PacketEncoder.c:197`): the outcome is "crashed". After a
packet is done, `EncodeAgain` encodes the same dictionary, possibly later.

`PacketDecoder` - pure functions of the bytes: a cursor (bytes, position, limit
of the container, dictionary, marks of the regions, whether all went well) goes
through the `_decode*` functions; `Decode(b)` returns the dictionary, with the
packet's fixed header in it, and the two regions the decoder marks. The loops of the
code - over the TLVs of a container, the segments of a name, the fields of a link,
the pointers and metadata of a hash group - are one operator, `Loop`, a recursive
function whose rounds are `Field`, `Segment`, `LinkRound`, `GroupRound` and
`MetadataField`; each takes four bytes at least or is at its end, which bounds the
rounds.

`PacketCodec` states what the two do to each other. `Received` is what a receiver
sees of a field: custom lists and hash groups come back mirrored (they are
inserted at the head and written from the head), integers come back as integers
whatever form they had, payload types other than KEY and LINK come back as DATA.
`Receivable` names what is sent and cannot be received: InterestReturns, headers
of 256 bytes and more, validation without a payload, and a KeyName with a
signature time behind it. `DecodesBack` says that there is nothing else, for
every dictionary of the instance.

`Facades` has the setters and getters of Interests, Content Objects, chunks,
validation and the codec's header functions, each as a function of a dictionary.
`ReadsAsSent` takes them across the wire: what the sender's getters say is what
the receiver's say, but for the last byte of a hop limit, payload types the wire
does not know, and two headers of one type, which `GetCustomType` tells apart by an
order that the wire turns around. `ccnxInterest_Equals` compares name, lifetime and
key id restriction only; the facade has an `Equals` of its own that compares
dictionaries, is never called, and would tell the received message from the sent
one, since the decoder adds fields. What the setters do beyond their headers is in
the model, too: a restriction of any length is wrapped as a SHA-256 hash (encoding
then refuses a length that is not 32), and the payload setters of an Interest
return false although they have put the payload
(`ccnx_InterestFacadeV1.c:124-146`).

`Relay` is a node that decodes a packet, changes hop limit or lifetime, and
encodes it again without a signer. `RelayKeepsHash` says that everything behind
the headers stays as it was, so that the signature still verifies and a Content
Object keeps its hash and with it its name. It holds for canonical dictionaries
(`IsCanonical`): lists of two custom fields or hash groups come out mirrored, and
an integer that was put as a buffer comes out in its shortest form. A lifetime that
is added may push the header to 256 bytes, hence `Receivable` in the guard.

## 6. The dictionary and the messages

`TlvDictionary` - `dictionary[d]` is a `CCNxTlvDictionary`: its reference count,
message type, `direct` (the fast array, one typed entry per key) and `lists` (of
custom entries, head first). Buffers, names, IoVecs, JSON trees and hashes are
objects with a count of `references`; `held` is history, the part of it that the
client owns. All puts but that of an integer are `Put`, since a typed put only
differs in the kind of its value; an integer replaces an integer. `FinalRelease`
walks both the array and the lists, and `ShallowCopy` puts into the copy what it
reads from the source.

`ReferencesExact` is what makes sharing safe: a count is the client's share plus
the places in live dictionaries that name the object. `CopyMirrorsLists` is what a
copy is in the code, and `CopyEqualsSource` what the header says it is (section
9). An InterestReturn is made by a shallow copy, so it hands the custom headers of
its Interest on in reverse.

`Messages` - the facades on the same dictionaries. A setter is a sequence of puts,
and some go on when a put was refused: `SetPayloadWithId` appends the payload's id
to the name whether or not the payload was put. The name is the client's own
object, shared with other messages; the attached packet is shared with every
InterestReturn made of its Interest. So `segments` (the content of each name) and
`header` (the bytes of a packet's header that are ever changed) belong to the
objects, not to a message. The history variables say what the client may rely on:
`identified` (a payload put with its id), `payloadTyped` (the type given with a
payload), `setter` (the message whose hop limit the packet was last given).

`HopLimitInSync` holds for the last message that set the hop limit, and only for
that one: `ccnx_Interest.c:375` speaks of "any attached wire format buffers", and
indeed the packet is right, but an Interest and the InterestReturn made of it
share the packet and not the dictionary, so the other one is then out of step.

## 7. The encoding buffer, names, manifests, received messages

`EncodingBuffer` - `lists` are the encoding buffers: linked arrays of entries, each
with the counts the code keeps beside it. An entry remembers where in its
`PARCBuffer` it begins and how much of it there is, as it was when it was inserted.
The header says the buffer is used from its position at the time it is read
(`ccnxCodec_EncodingBuffer.h:190`, `:212`); the model does what the code does, and
`ReadBuffer` moves positions between the calls to show the difference. A slice
shares the buffers of its source and outlives it, an IOVec keeps its list.
`ByteLists` is the promise, a concatenation of bytes without arrays or counts, and
`ImplementsByteLists` shows it kept. There are two specifications. `Spec` is any
client that does not prepend to an empty list (the code follows a null pointer
there). `CarefulSpec` prepends only where the code makes room correctly: the first
array is full, so that a new one is made, or has at most one entry. With two or more the
loop overwrites what it has still to move (`ccnxCodec_EncodingBuffer.c:433`), and
`PrependInsertsAtHead` fails (section 9).

`Names` - `names` are lists of segments whose values lie in buffers, `value`; a
prefix has the buffers of the name it was made of, a copy has its own.
`ccnxName_Append` acquires the segment it is given (`ccnx_Name.c:247`): one made for
the name (`AppendSegment`), or one of a name, as in the example of
`ccnx_Name.h:382-387`, which both names have from then on (`AppendSegmentOf`). Whoever
reads a value moves the position in its buffer, by any number of bytes, and so
shortens the segment in all names that share it. `family` is history: the names
joined by prefixes and by segments given. Order, equality, hash, prefixes and text are functions of
the contents. `OrderCoherent` relates all of them over all names of a state,
`TextRoundTrips` says that a text is read back segment for segment, and tells what
is lost: parameters for which the text of the label has no place, an empty name
(its text is that of a name of one empty segment), and a name that begins with an
empty segment, whose text starts like one with an authority. `ComposeFormatString`
on the empty name makes such a text. A parameter is written without escapes
(`ccnx_NameLabel.c:336-339`): an `=` in it ends the label early, and a byte a URI
takes for itself (`Delimiter`: slash, percent, question mark, number sign, NUL) is a
`raw` token. What a URI makes of a text with raw tokens is external and left open
(`ReadAs`), so `Readable` excludes such parameters. `CopiesShareNothing` is about who
may disturb whom: names share buffers only when they have been joined.

`Manifests` - a hash group is an object its client goes on changing; a manifest
keeps the JSON it had when it was added. `HashGroupsAreSnapshots` says that the
group given back is that group, the last one first. An iterator walks a group that
may grow (`IteratorFaithful`), and `InterestsCoverPointers` relates the Interests
made of a manifest to the pointers, names and locators in it. `seen` is history, the
number of pointers the group had when the iterator last returned one: it is at its end
only when it has returned that many. Locators and digests, names and bytes that the
JSON has as text (`ccnx_ManifestHashGroup.c:364`, `:434`), are what that text is read
back as. An iterator over a group without pointers says it has a next one, and asking
for it traps.

`ReceivedMessages` - messages made of packets beside messages made by clients.
Three kinds of state are shared. A packet's `PARCBuffer` has one position for
all readers, and a header is written *there* (`misplaced` is history of that). The
table of functions that serves InterestReturns is a variable of the process whose
Interest half is filled in by the first InterestReturn made (`interestImpl`), and
which of the tables serves a message is cached in it by the first getter. And the
regions that are hashed are integers in the dictionary, set by the decoder or by
`SetProtectedRegionStart` and its like, whose headers say they cannot be set twice;
integers can. `HashesStand` says what a hash taken once is worth afterwards,
`ServedUnlessReceived` which messages can be used as Interests, and
`AcceptedSignatureStays` what `SetSignature` leaves although integers in the
dictionary are replaced and buffers are not. Messages of the Control type, which
are created like the others, and InterestReturns in pieces are left out.

## 8. Runs

| run | specification | shows |
|---|---|---|
| `netbuffer` | `LiveSpec` | memory safety, tiling, the linear array as a refinement, signing within the head, exact reference counts, an IoVec stays a prefix of the packet, every put returns |
| `netbuffer_overwrite` | `Spec` | finding 1 |
| `tlvencoder` | `ClientSpec` | counted lengths are true lengths, and the bytes are a TLV tree |
| `packet` | `SpecCodec` | what is sent is received, in the dictionary and through the getters; what is signed is verified; encoding twice is stable; a relay keeps signature and hash |
| `packet_key_name` | `SpecCodec` | finding 2 |
| `encoding_buffer` | `CarefulSpec` | the counts the code asserts, exact references, slices byte by byte, the concatenation as a refinement |
| `dictionary` | `TlvDictionary!Spec` | exact reference counts under every order of puts, copies and releases; what a copy is |
| `messages` | `MessageSpec` | payload ids, payload types and hop limits stay with what they belong to, although names and packets are shared |
| `manifests` | `Manifests!Spec` | groups are snapshots, iterators over growing groups, the Interests of a manifest |
| `names` | `Names!Spec` | order, equality, hash, prefix and text agree, but for what a text is said to lose; only prefixes and segments given to a name join names |
| `received` | `ReceivedSpec` | which messages serve as Interests, hashes of regions while headers are written, what an accepted signature keeps |
| `received_return` | `ReceivedSpec` | finding 3 |

Deadlock is not checked: a client may stop at any time, and in the instances it
must when it reaches the bounds.

### Bounds and why they are enough

* Network buffer: the head has two bytes and a further block two, integers have
  two and arrays up to three, positions go to four. So an array spans two blocks
  or three, an integer fits, straddles a boundary, or freezes a tail that is a
  byte short, and `SetPosition` can go back into any block. The branches of the
  code compare `position`, `limit` and `capacity` only with each other; every
  outcome of each comparison occurs. Sizes beyond that are covered by the
  theorems. Bytes are two values, that differ so that misplaced bytes show; they
  are not reduced by symmetry, as the run has a liveness property. One IoVec with
  two references and two handles: an IoVec does not interact with another.
* TLV encoder: a byte has four values, so that a length has two digits that
  differ; containers are open up to two deep below the packet, a value has at most
  a byte, the packet nine. Nine bytes hold a container in a container with a
  byte in it, so all ways of closing meet each other.
* Packet: bytes have 256 values and the header its 8 bytes. Each message type
  carries its mandatory fields, then every other field alone, in each form the
  code tells apart, then all of them together; header lengths just below and just
  at 256; hashes of a right and a wrong size; suites with and without a code;
  signers that sign, that only hash, whose suite is unknown, and none; both
  interfaces; two encodings, the clock standing still or moving between them, or
  a relay between them that sets hop limit 0 or 254, or a lifetime of 1. Beside
  these dictionaries there are those that the facades make. Integers of 32 bits
  are cut to 16 (`WordSize`): the default lifetime is the largest in either.
  Fields are independent in the code except through lengths, signature and order,
  which the combined dictionaries exercise.
* Encoding buffer: two lists, of which one is often a slice of the other, a buffer
  of two bytes that is read while it is inserted, so that entries have two bytes,
  one or none; new arrays have room for one entry, so that lists have several,
  and the array of a slice has room left;
  one IOVec; at most two entries exist when a third is inserted.
* Dictionary: two dictionaries, a key, a list of at most two entries, two buffers
  and a hash. Two dictionaries are what a copy needs, and copies of copies come
  about by releasing the first. Keys do not interact, and a list of two is the
  shortest that reads differently backwards.
* Messages: two messages, one name, one packet, two payloads, two hashes. One name
  and one packet, so that they are shared whenever there are two messages. Hop
  limits 255 and 257 are the default and one that does not fit the packet's byte.
* Manifests: one group object, one manifest to which it is added twice, two
  digests and two names. A group is full at two pointers: the limit is only
  compared with, and an iterator needs two to skip or repeat one. One metadata
  field is set at a time; the fields are written and read independently.
* Names: bytes are NUL, which stands for the delimiters of a URI, `=` and two
  letters; numbers have up to three bytes, and the one appended is of full width; an
  abbreviation with an escaped NUL as its parameter is what comes to be written
  raw; two names of at most two segments over at most three
  buffers. Order and prefixes compare pairs of segments, and transitivity is over
  the prefixes of the two names. The view replaces buffers by who shares them,
  which is all that is ever asked of their identity.
* Received messages: two messages over one packet, in seven forms (type, one piece
  or cut inside the header or the regions, signed or not), six calls. A hash that
  goes stale takes six: make, read, set start and length, hash, overwrite.

## 9. Findings

Each of these three has a run that shows it.

1. `netbuffer_overwrite` - `EnsureRemaining` freezes a short tail even when the
   cursor was moved back below its limit; the next byte is stored at a wrapped
   offset. The header says that such a write is split
   (`ccnxCodec_NetworkBuffer.h:75-80`).
2. `packet_key_name` - the link decoder reads to the end of its decoder, not of
   the link, so a KeyName followed by anything is refused
   (`ccnxCodecSchemaV1_LinkCodec.h:105`).
3. `received_return` - the Interest half of the table of InterestReturns is filled in
   by `ccnxInterestReturn_Create` only (`ccnx_InterestReturnFacadeV1.c:102`). In a
   process that receives InterestReturns and makes none, one whose return code was
   read has no Interest getters any more. The header says it is an Interest
   (`ccnx_InterestReturn.h:61-63`).

More statements of the headers and comments do not hold. They are kept as
definitions; each fails when it takes the place of the properties of the
configuration named.

| definition | configuration | the code |
|---|---|---|
| `SignatureCoversRegion` | `MCNetworkBufferClient` under `CodecSpec` | a relative limit is compared with absolute positions, though the comment says all are absolute (`ccnxCodec_NetworkBuffer.c:664`) |
| `SignerIsUsed` | `MCPacketCodec.cfg`, `Dictionaries <- SignedDictionaries` | `DictionaryEncode` does not use its signer (`ccnxCodec_TlvPacket.h:135-136`) |
| `StoredSignatureCovers` | the same | encoding a signed dictionary again with its signer puts a new time under the old signature (`ccnxCodecSchemaV1_ValidationEncoder.c:158`) |
| `TreeHeightReceived` | `MCPacketCodec.cfg`, `Dictionaries <- TallManifests` | a hash group whose only metadata is its tree height is sent without it |
| `CopyEqualsSource` | `MCTlvDictionary.cfg` | a shallow copy has its lists reversed (`ccnx_TlvDictionary.h:1059-1060`) |
| `NumbersAreValid` | `MCNames.cfg` | a number of eight bytes is not valid (`ccnx_NameSegmentNumber.h:130`) |
| `PrependInsertsAtHead` | `MCEncodingBuffer.cfg` under `Spec`, `DefaultCapacity` and `MaxEntries` 3, no symmetry | the loop that makes room at the front overwrites what it has still to move (`ccnxCodec_EncodingBuffer.c:433`) |

Met while reading, and modelled as the code has it or left out: `SetKeyName` with a
link that has no hash puts a null buffer, which asserts
(`ccnx_ValidationFacadeV1.c:181-182`); a key locator that is a link loses its key id and
hash; the getters of a payload id move the position of the name's own segment
(`ccnx_InterestPayloadId.c:177-193`); the tests for a null interface after it was
used (`ccnx_InterestInterface.c:87`, `ccnx_ManifestInterface.c:89`) cannot succeed.

## 10. Proofs

Every theorem is for all values of the constants: any number of buffers,
dictionaries, messages and names, blocks and packets of any size, any bound on
references. What each assumes of its constants is the `ASSUME` of its module, and
TLC evaluates all of them. `PROJECT.json` lists the theorems.

| module | about | proves |
|---|---|---|
| `NetworkBufferProofs` | `CodecSpec` | `TypeOK`, `BlocksTile`, `RoomAhead`, `CursorInBlock`, `MemorySafe`, `FullBlocksKeepShape`, `ImplementsFlatBuffer`, `SignatureInHead` |
| the same | `IoSpec` | `RefcountExact`, `IoVecIsPacketPrefix` |
| `EncodingBufferProofs` | `CarefulSpec` | `Accounted`, `EncodingReferencesExact`, `SliceSelectsBytes`, `ImplementsByteLists` |
| `PacketCodecProofs` | `TlvEncoderClient!ClientSpec` | `TlvTypeOK`, `InnerLengthExact`, `ImplementsTlvTree` |
| the same, with `Iteration` | `SpecCodec`, and `Decode` of any bytes | `PacketTypeOK`, `ReencodeStable`, and what decoding accepts |
| `MessagesProofs` | `TlvDictionary!Spec`, `MessageSpec` | `ReferencesExact` of both, `CopyMirrorsLists`, `MessageTypeOK`, `IdentifiedByName`, `PayloadTypeBelongs`, `HopLimitInSync` |
| `ManifestsProofs` | `Manifests!Spec` | the JSON of a group as an inverse, `IteratorFaithful`, `HashGroupsAreSnapshots`, `InterestsCoverPointers` |
| `NamesProofs` | `Names!Spec` | `CopiesShareNothing`, `TextRoundTrips`, `OrderCoherent`, and that reading reaches relatives only |
| `ReceivedMessagesProofs` | `ReceivedSpec` | `ServedUnlessReceived`, `HashesStand`, `AcceptedSignatureStays`, and that hashing in pieces hashes the region |

### The network buffer

The assumptions: an integer fits in a new block and is shorter than 32 bytes
(`SizeAssumption`), and `Unwritten` is no byte (`ByteAssumption`).

No safety property of the buffer is inductive by itself. `IInv` is `TypeOK`,
`CursorInBlock`, `RoomAhead`, and

* `Shape`: the blocks tile, every block but the head has room, and two facts that
  follow from the tiling by induction over the list and are carried along
  instead: blocks lie one behind the other (`Ordered`), and every position below
  the limit is held by one (`Covering`), which is what makes the searches of
  `SetPosition` and `Finalize` find one;
* `PendingMode`: a put loop runs exactly while bytes are pending, and ends within
  the bound.

`MemorySafe` follows from it. That an integer in progress never freezes a tail
below the cursor is where `CodecSpec` is needed: its integers are put at the limit
or wholly below it. The proof has one lemma per action (`PutUint8Inv` ...
`FinalizeInv`), on top of lemmas about the block list: what storing
(`StoreShape`), expanding (`ExpandShape`) and truncating (`TruncatedShape`) do to
a list that tiles, and that the holder of a position is unique (`UniqueHolder`).

The second half of the module is the refinement. Under `Shape` the content is the
one function that has, at every position, the byte that some block holds there
(`ReadsWhatIsHeld`), so that an action is followed by following that relation:
storing replaces the bytes it stores (`Placed`), expanding and truncating keep
what is below the limit. One step of a put loop maps to a put in `FlatBuffer`.
The walk of `ComputeSignature` over the blocks is a recursive function; its value
after each block is given in closed form and shown by induction.

The last part of the module is about IoVecs: every step of `IoSpec` is one of `CodecSpec` or leaves
the buffer alone, so `IInv` holds of it (`IoInvariance`). `RefInv` adds that the
live IoVecs are finitely many, without which a count says nothing. `SnapInv` says
that the blocks an IoVec names are there, full but for the last one, and that no
block an IoVec names gets shorter.

### The encoding buffer

The theorems are about `CarefulSpec`, the client that prepends where the code makes
room correctly; with one that prepends anywhere `ImplementsByteLists` is false. The
assumptions are on the constants: lengths are natural numbers, a new array has
room, and `NoList` and `NoIOVec` are neither lists nor IOVecs nor sequences of bytes.

`EncodingInv` is types, `Accounted`, `BufferCounts` and `ListCounts`. The counts are
cardinalities, so that it also says that the sets of places and of IOVecs are
finite. Every operation changes one list: `OneListChanged` says what that does to
the places of a buffer, and leaves of each operation what it does to one list.

What a list reads as is a flattened sequence of sequences, and its counts are sums
over it. `Concatenations` and `FlattenIs` give the flattening by its value after each
of its parts; from them come what appending and putting in front do to
`Entries`, `Bytes` and `Uses`, and then the shape of each new list (`AppendedShape`,
`PrependedShape`, `SliceShape`).

`Slice` walks over the entries with an offset that moves to the next entry once
something was taken. `Reached` says where offset and length stand after m bytes, and
`Selects` what has been selected by then; `PassesBy` and `TakesPart` are the two
branches of the code. An entry of no bytes is passed by, before the slice, in it
and behind it, and an offset beyond the list selects nothing.

For the refinement a release is a step of `ByteLists` that forgets one list or
IOVec or none, and `Acquire` is a stutter.

### The TLV encoder

`PacketCodecProofs` proves `InnerLengthExact` and `TlvTypeOK` of `ClientSpec` for
trees of any depth, from the assumptions that a byte has at least two values and
that clients use types and bytes (`EncoderAssumption`, `ClientAssumption`). The
invariant `EncoderInv` has two parts. `Nested`: every open container begins
behind the one around it and holds as many bytes as were counted. `Buffered`: the
cursor and the marks lie in the buffer. Every action moves the stack in one of three ways
- the innermost grows, one opens, one closes - each with a lemma
(`GrowsKeepsNested`, `OpensKeepsNested`, `ClosesKeepsNested`); the lemmas on the
actions only show which of them applies.

`BuildsTree` is the refinement. `Path` is the state that `TlvTree`'s variable is
mapped to: a container's value is the bytes from its header to where the next
begins. The refinement needs one fact more, `TypesWritten`: an open container has
its type in front of it. A container closed with a length only (`CloseMeasured`,
`CloseCounted`) is a TLV of its type just because nobody wrote over the two
bytes since it was opened. Each step is then two questions, where the containers
lie afterwards (`GrownPlaces`, `OpenedPlaces`, `ClosedPlaces`) and which bytes
changed: a container whose place and bytes did not change keeps its value
(`ValueKept`), and however a container is closed, exactly the four bytes of its
header are those of its type and length (`LengthPatched`, `HeaderRewritten`), so
that the value of the one around it is followed by a TLV (`ClosedValue`). The
bytes an erased container leaves behind, and what `Finalize` cuts off, lie behind
the cursor, in no container.

### Packets

Assumed: a byte has 256 values and the fixed header eight bytes; the dictionaries of
the clients have under each key what the setters of that key can put there
(`IsDictionary`); signers make bytes; a relay sets hop limits and lifetimes that are
natural numbers. There is no bound on sizes, on the number of fields or on
how often a dictionary is encoded.

`DecodedType` is about any bytes, not only those of the encoder. A `Cursor` is a
position in a container that lies in the packet, with a dictionary for which
`IsDictionary` holds; every decoder, given n bytes that its container has, returns
such a cursor in the same container or one that is not ok. Loops keep what their
round keeps: that is proved once, in `Iteration`, a module whose parameters are a
round and what is to hold behind it, and each loop instantiates it. The two loops that do
not stop at their own length, those of links and of names, keep it as well, since
their rounds look at what the container has left.

`PacketTypes` is about the encoder as it runs. The calls that are left form a path
between depths (`Runs`): each opens a container, closes one, or stays, and the path
of `Encode` leads from the empty stack back to the packet's own frame, where the
header is patched, and to the end. That is a fact about the sequence of calls, proved
per `_encode*` function and put together by concatenation (`RunsConcat`).
`PacketInv` says that the depth of the stack is the one at which the path
continues (`At`), and has `EncoderInv` of the TLV encoder, so that the lengths that
`_encodeMessage` adds up are the one measured and the trap in `Encode` cannot go
off. A dictionary without a known type fails behind its provisional header
(`Doomed`), before a call could ask for the code of its type.

`Reencodes` shows that what comes out does not depend on whether the signature is
made or found. `After` says, for each call, what it makes of buffer, cursor and
stack (`Machine`) as a function of dictionary and signer; a `Behind` state is one
that replaying the first k calls of an encoding leads to, which is unique. `ReplayInv`
says that the running encoding is behind as many calls as it made, and that
`previous` is what all calls make. Storing the signature changes only `sigPayload`
(`Alike`), and no call but `sign` asks for that; `EncodePayload` finds in the dictionary
the bits the same signer would make again. The only thing that is different the second
time is the clock, hence `TimeIsKept` in the property: a time that the client set is
kept, and one that the encoder took is not.

### The dictionary and the messages

`ReferencesExact` counts places. `Places(dict, o)` is the set of places of one
dictionary that name `o`, `Holders(o)` the pairs of a live dictionary and a place
in it; a put adds one place or none, a copy as many as its source has, a final
release takes all of a dictionary. `DictionaryInv` adds what that needs: types,
the bound on lists, and that there are finitely many holders
(`HoldersFinite`; `KeyAssumption` says that there are finitely many keys).
`CopiesMirror` needs no invariant but the types: a list reversed twice is itself.

The setters of `Messages` are sequences of puts on one dictionary, and the lemmas on
one put are chained for them. `MessageInv` adds that history speaks of live
messages only, that integers are integers, and `SetterAttached`: a message that
set a packet's hop limit has that very packet attached. `HopLimitInSync` is not
inductive without it, since the setter would change another packet than
the one it is compared with.

### Manifests

`JsonRoundTrip` says that reading the JSON of any group gives the group. Metadata
are looked up by key; the pointers are read in a loop, and what the loop has after
i pointers is stated in closed form, the group cut to i pointers. The iterator's
walk is treated alike (`WalkedAll`). `IInv` is the types, `IteratorFaithful`, and
`AddedKept`: a manifest holds the JSON of the groups that were added, in
reverse, and no group is longer than it may be, which is what makes the
JSON readable.

### Names

`NamesInv` is inductive: the buffers that a live name's segments have are there
(`ValuesHeld`), all members of a family have the same family and live
(`FamiliesAgree`), and `CopiesShareNothing`. New segments take buffers that no
name has (`FreshCellsAreFree`), so only a prefix and a segment of a name that is
appended share any: the one joins the family of its source, the other makes one
family of two. Without `FamiliesAgree` a prefix of a prefix would not be known to its
uncle. `ReadsReachRelativesOnly` is the action property of it, for reads of any length.

`TextRoundTrips` and `OrderCoherent` are statements about all sequences of
segments, to which `ContentsOfName` brings every name. For the text, a segment is
parsed in three cases as it was written in three: a plain value, a label
with or without a parameter, and the App types. The keys are that `=` is found
where the label ends (`IndexFound`), that a value or a parameter without `=` does
not hide it (`IndexMissing`), that a parameter without delimiters is written as its
bytes (`UnescapedBytes`) while any other leaves a raw token in the text
(`DelimitersAreRaw`), and that the words of every mnemonic are resolved to
its own type although the first match of the table wins (`MnemonicResolves`).

Of the order, two comparisons end alike: at a first difference or at the end of
the shorter (`NamesCompared`), and transitivity goes through the pairs of these
cases. For numbers, the value of the bytes read so far is the number without its
last bytes (`ShiftedOnce`: one byte more is one division by `Base` less), which
shows that a number is read back; the reverse holds for bytes without a leading
zero, whose accumulated value never reaches the modulus
(`ValueAccumulated`); and that shorter is less is the bound by powers of `Base`
from both sides (`AtLeastPower`). `NumberBytes` and `Base` are any numbers.
The assumptions: `=` is a byte and no letter, the delimiters are neither, the clients' numbers fit
(`NumberAssumption`), and what texts are given consists of segments that parse to
a segment or to none (`TextAssumption`).

### Received messages

A message is looked at alone: `IInv` says of each which table of functions may
serve it (`Served`), what signature it may have (`Signed`), and what a hash once taken
is worth (`Hashed`), given the packets and the state of the process; a packet's
bytes are never fewer than its header and its pieces are a partition of them
(`Intact`). `HashedOfPiecesIsRegion` is about the loop over the pieces, for any way
to cut a packet.

### What stays with TLC

* Liveness: `PutsComplete`.
* `DecodesBack`, `RegionsAgree`, `ReadsAsSent`, `RelayKeepsHash`: that decoding what
  was encoded gives it back. It is not true for every value of the constants, since
  the encoder writes packets that say something else than the dictionary does:
  lengths of 64 KiB and more wrap, as does the header's length, integers are cut to
  the width of the wire, and a custom field whose type is that of a known one is read
  as that one. A theorem would have to exclude all of these in the dictionary's own
  terms, and then to follow decoder and encoder through every field side by side.
* Of the encoding buffer only `Spec`, the client that prepends anywhere: it is what
  the finding is about.

A theorem on induction that takes the predicate as an operator cannot be instantiated
by the provers at hand; a module that does, as `Iteration`, can. Elsewhere, where a loop had to be followed, the function that describes
it is a recursive function, its value after i rounds is written down in closed
form, and the induction is over the *set* of the i for which it is right
(`Induction`, a consequence of the well-foundedness of the natural numbers). The
existence of a recursive function without a closed form is `Recursion`, for
functions into a set.

Some definitions have the form they have because of this: `Power`, `NumberValue`,
the walks over blocks, pieces, entries and pointers, and the JSON of groups are recursive
functions, not folds; `family` maps a name to the set of its relatives.

## 11. What is not modelled, and why

* The interface a dictionary caches, in `TlvDictionary` and `Messages`: it is in
  `ReceivedMessages`. The info pointer of a dictionary, which nothing sets.
* What a URI makes of its own delimiters where they stand in a parameter
  (`Names!ReadAs`): any of the texts clients give. The parse and the compact form of JSON: a CPI
  message is the same bytes before and after (`PacketDecoder!DecodeCPI`), and so
  are the names and digests in a manifest's JSON.
* Time stamps, errors, the version strings: immutable values. Keystores, display and
  `ToString`: I/O and formatting, but for the text of names, which is read back.
* The arithmetic of CRC32C and the signers and verifiers of `validation/*`, which
  hand on to libparc. libparc (buffers, signers, memory) is external. A signature
  is a constant of its signer, a cryptographic hash is the bytes it is taken of.
* A failing allocator: the library traps.
* Arbitrary bytes as the decoder's input in TLC's runs, which decode what the encoder
  writes; `DecodedType` is about any bytes. The loops of the manifest decoder trust
  inner lengths (`ccnxCodecSchemaV1_ManifestDecoder.c:87`) and are stopped by the
  assertions of the buffer they read; in the model both are a cursor that is not ok.
* Lengths of 64 KiB and more, at which the length of a container
  (`ccnxCodec_TlvEncoder.c:277`) and of the packet
  (`ccnxCodecSchemaV1_PacketEncoder.c:134`) wrap: the code neither checks nor
  promises anything, and the instances stay below.
* What the code leaves to its caller, so that there is nothing to check:
  `Finalize` while an IoVec names the blocks it frees
  (`ccnxCodec_NetworkBuffer.c:532`; the model finalizes without IoVecs), comparing
  IoVecs after their buffer changed (`:841`), a dictionary's suite that is not its
  signer's (`ccnxCodecSchemaV1_ValidationEncoder.c:272`), the message type of a
  dictionary whose packet was turned into an InterestReturn
  (`ccnx_WireFormatFacadeV1.c:166`), and the digest or locator that a second setter
  of a hash group leaks (`ccnx_ManifestHashGroup.c:216`).
* The internal order of errors: which error code is kept when there are several.

More than half of the lines under `src/ccnx/common` are the prose of headers
and prototypes, which no definition translates; the share of the whole that the
definitions stand for is accordingly smaller than that of the code.

## 12. Running

    tlc -config MCNetworkBuffer.cfg MCNetworkBuffer
    tlapm NetworkBufferProofs.tla

and likewise for the other runs of `PROJECT.json` and modules of section 10. The definitions whose names
end in `_Word` are mutants: plausible bugs, each of which makes one property fail.
