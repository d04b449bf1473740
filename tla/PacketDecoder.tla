--------------------------- MODULE PacketDecoder ---------------------------
(***************************************************************************)
(* ccnxCodec_TlvPacket.c's _decodeV1, ccnxCodecSchemaV1_PacketDecoder.c    *)
(* and the decoders it calls, as functions of the packet's bytes.          *)
(*                                                                         *)
(* A decoder is a cursor: the bytes b, the position `at', the `limit' of   *)
(* the container, the dictionary d that is being filled, the marks `start' *)
(* and `stop' of the protected region, and ok.  A function that returns    *)
(* false, or NULL, and an assertion that fails, both make a cursor that is *)
(* not ok; nothing is read with it any more.  The operators below take a   *)
(* cursor and return one.                                                  *)
(*                                                                         *)
(* Left out: which error the decoder keeps.  The JSON of a hash group is   *)
(* the record of what it holds, and its locator the bytes of its URI:      *)
(* ToJson leaves out a field that is 0 or NULL, and CreateFromJson reads a *)
(* field that is not there as 0 or NULL.                                   *)
(***************************************************************************)
EXTENDS SchemaV1, SequencesExt

Bad(c) == [c EXCEPT !.ok = FALSE]
Filled(c, d) == [c EXCEPT !.d = d]
Remaining(c) == c.limit - c.at
U16(b, at) == b[at + 1] * 256 + b[at + 2]
Slice(c, n) == SubSeq(c.b, c.at + 1, c.at + n)
Advance(c, n) == [c EXCEPT !.at = @ + n]

(* EnsureRemaining(4) and EnsureRemaining(length) *)
HasTlv(c) == Remaining(c) >= 4 /\ Remaining(c) - 4 >= U16(c.b, c.at + 2)
TypeAt(c) == U16(c.b, c.at)
LengthAt(c) == U16(c.b, c.at + 2)

(* GetContainer: the decoder of the next n bytes, and going back from it *)
Inside(c, n) == [c EXCEPT !.limit = c.at + n]
Leave(inner, c) == [inner EXCEPT !.limit = c.limit]

(* GetVarInt: one to eight bytes *)
BytesToInt(bytes) ==
    LET value[i \in 0..Len(bytes)] == IF i = 0 THEN 0 ELSE value[i - 1] * 256 + bytes[i]
    IN value[Len(bytes)]

(* A loop over n bytes: each round takes the header of a TLV at least, and *)
(* one that has nothing left to take changes nothing.                      *)
Loop(Round(_), first, n) ==
    LET rounds == n \div 4 + 1
        after[i \in 0..rounds] == IF i = 0 THEN first ELSE Round(after[i - 1])
    IN after[rounds]

----------------------------------------------------------------------------
(* ccnxCodecTlvUtilities_PutAs*: a value of n bytes goes into the          *)
(* dictionary                                                              *)
PutAs(c, n, key, entry) ==
    IF CanPut(c.d, key) THEN Filled(Advance(c, n), PutNew(c.d, key, entry)) ELSE Bad(c)

PutAsBuffer(c, n, key) == PutAs(c, n, key, Entry("buffer", Slice(c, n)))

PutAsInteger(c, n, key) ==
    IF n \in 1..8 /\ CanPutInteger(c.d, key)
    THEN Filled(Advance(c, n), PutInteger(c.d, key, BytesToInt(Slice(c, n))))
    ELSE Bad(c)

PutAsListBuffer(c, n, list, type) ==
    Filled(Advance(c, n), PutList(c.d, list, type, Slice(c, n)))

(* A segment must fit into the decoder, not into the name. *)
Segment(decoded, end) ==
    LET c == decoded.c
        n == LengthAt(c)
    IN IF ~c.ok \/ c.at >= end THEN decoded
       ELSE IF ~HasTlv(c) THEN [c |-> Bad(c), name |-> decoded.name]
       ELSE [c    |-> Advance(c, 4 + n),
             name |-> Append(decoded.name,
                        [type |-> TypeAt(c), value |-> Slice(Advance(c, 4), n)])]

Segments(c, n) ==
    Loop(LAMBDA decoded : Segment(decoded, c.at + n), [c |-> c, name |-> <<>>], n)

PutDecodedName(decoded, key) ==
    IF ~decoded.c.ok THEN decoded.c
    ELSE PutAs(decoded.c, 0, key, Entry("name", decoded.name))
PutAsName(c, n, key) == PutDecodedName(Segments(c, n), key)

(* HashCodec_DecodeValue: a hash is a TLV, that may not be longer than the *)
(* value it is in, and is all that is read of it.                          *)
PutAsHash(c, limit, key) ==
    LET n == LengthAt(c)
        digest == Slice(Advance(c, 4), n)
        fitting == {t \in DOMAIN HashType :
                       HashType[t] = TypeAt(c) /\ ValidHash(t, digest)}
        hash == [type |-> CHOOSE t \in fitting : TRUE, digest |-> digest]
    IN IF HasTlv(c) /\ n <= limit /\ fitting # {}
       THEN PutAs(c, 4 + n, key, Entry("hash", hash))
       ELSE Bad(c)

(* The wire's payload type 0, 1 or 2 *)
PutPayloadType(c, n) ==
    LET known == {t \in DOMAIN PayloadType : PayloadType[t] = BytesToInt(Slice(c, n))}
    IN IF n \in 1..8 /\ known # {} /\ CanPutInteger(c.d, "payloadType")
       THEN Filled(Advance(c, n), PutInteger(c.d, "payloadType", CHOOSE t \in known : TRUE))
       ELSE Bad(c)

----------------------------------------------------------------------------
(* Manifests: a hash group and its metadata are read without looking at    *)
(* what the decoder has left; reading past it is an assertion of the       *)
(* buffer.                                                                 *)

EmptyGroup == [locator |-> <<>>, dataSize |-> 0, blockSize |-> 0, entrySize |-> 0,
               treeHeight |-> 0, digest |-> <<>>, pointers |-> <<>>]

Sizes == {Metadata.dataSize, Metadata.blockSize, Metadata.entrySize, Metadata.treeHeight}

(* parcBuffer_GetUint64 takes eight bytes. *)
SizeIsWhole(c) == TypeAt(c) \in Sizes => LengthAt(c) >= 8
SizeOf(value) == BytesToInt(SubSeq(value, 1, 8))
WithField(group, type, value) ==
    CASE type = Metadata.locator    -> [group EXCEPT !.locator = value]
      [] type = Metadata.dataSize   -> [group EXCEPT !.dataSize = SizeOf(value)]
      [] type = Metadata.blockSize  -> [group EXCEPT !.blockSize = SizeOf(value)]
      [] type = Metadata.entrySize  -> [group EXCEPT !.entrySize = SizeOf(value)]
      [] type = Metadata.treeHeight -> [group EXCEPT !.treeHeight = SizeOf(value)]
      [] type = Metadata.digest     -> [group EXCEPT !.digest = value]
      [] OTHER -> group

MetadataField(decoded, end) ==
    LET c == decoded.c
        n == LengthAt(c)
    IN IF ~c.ok \/ c.at >= end THEN decoded
       ELSE IF ~HasTlv(c) \/ ~SizeIsWhole(c) THEN [c |-> Bad(c), group |-> decoded.group]
       ELSE [c     |-> Advance(c, 4 + n),
             group |-> WithField(decoded.group, TypeAt(c), Slice(Advance(c, 4), n))]

DecodeMetadata(c, n, group) ==
    Loop(LAMBDA decoded : MetadataField(decoded, c.at + n), [c |-> c, group |-> group], n)

PutGroup(c, group) ==
    LET groups == IF "hashGroups" \in DOMAIN c.d THEN c.d.hashGroups ELSE <<>>
    IN Filled(c, Updated(c.d, "hashGroups", <<group>> \o groups))

Pointing(group, type, digest) ==
    [group EXCEPT !.pointers = Append(@, [type |-> type, digest |-> digest])]

(* A step of the loop: c is at the value of the TLV (type, n). *)
GroupField(c, type, n, group) ==
    CASE type = HashGroup.Metadata -> DecodeMetadata(c, n, group)
      [] type = HashGroup.Data ->
           [c |-> Advance(c, n), group |-> Pointing(group, "Data", Slice(c, n))]
      [] type = HashGroup.Manifest ->
           [c |-> Advance(c, n), group |-> Pointing(group, "Manifest", Slice(c, n))]
      [] OTHER -> [c |-> PutAsListBuffer(c, n, "custom", type), group |-> group]

GroupRound(decoded, end) ==
    LET c == decoded.c
    IN IF ~c.ok \/ c.at >= end THEN decoded
       ELSE IF ~HasTlv(c) THEN [c |-> Bad(c), group |-> decoded.group]
       ELSE GroupField(Advance(c, 4), TypeAt(c), LengthAt(c), decoded.group)

PutDecodedGroup(decoded) ==
    IF decoded.c.ok THEN PutGroup(decoded.c, decoded.group) ELSE decoded.c

DecodeHashGroup(c, n) ==
    PutDecodedGroup(Loop(LAMBDA decoded : GroupRound(decoded, c.at + n),
                         [c |-> c, group |-> EmptyGroup], n))

----------------------------------------------------------------------------
(* KeyName is a link: Name, and maybe KeyId and Hash, each once.  The loop *)
(* runs while the decoder has four bytes, whatever the link's length.      *)
NoLink == [Name |-> <<>>, KeyId |-> <<>>, Hash |-> <<>>]

NamedLink(decoded, link) ==
    [c |-> decoded.c, link |-> [link EXCEPT !.Name = <<decoded.name>>]]

(* c is at the value of the TLV (type, n). *)
PutLinkField(c, type, n, link) ==
    CASE type = LinkField.Name /\ link.Name = <<>> -> NamedLink(Segments(c, n), link)
      [] type = LinkField.KeyId /\ link.KeyId = <<>> ->
           [c |-> Advance(c, n), link |-> [link EXCEPT !.KeyId = <<Slice(c, n)>>]]
      [] type = LinkField.Hash /\ link.Hash = <<>> ->
           [c |-> Advance(c, n), link |-> [link EXCEPT !.Hash = <<Slice(c, n)>>]]
      [] OTHER -> [c |-> Bad(c), link |-> link]

LinkRound(decoded) ==
    LET c == decoded.c
    IN IF ~c.ok \/ Remaining(c) < 4 THEN decoded
       ELSE IF ~HasTlv(c) THEN [c |-> Bad(c), link |-> decoded.link]
       ELSE PutLinkField(Advance(c, 4), TypeAt(c), LengthAt(c), decoded.link)

DecodeLink(c) == Loop(LinkRound, [c |-> c, link |-> NoLink], Remaining(c))

(* The KeyId and the hash are put without a look at what comes of it. *)
Also(d, key, field) ==
    IF field = <<>> THEN d ELSE PutNew(d, key, Entry("buffer", field[1]))

PutLink(c, link) ==
    IF ~c.ok \/ link.Name = <<>> THEN Bad(c)
    ELSE LET named == PutAs(c, 0, "keyName", Entry("name", link.Name[1]))
         IN Filled(named, Also(Also(named.d, "keyNameKeyId", link.KeyId),
                               "keyNameHash", link.Hash))

PutDecodedLink(decoded) == PutLink(decoded.c, decoded.link)
PutKeyName(c, n) == PutDecodedLink(DecodeLink(c))

----------------------------------------------------------------------------
(* ccnxCodecTlvUtilities_DecodeContainer: all of a container must be TLVs, *)
(* which are handed to its type decoder.                                   *)

Field(Decoder(_, _, _), c) ==
    IF ~c.ok \/ Remaining(c) = 0 THEN c
    ELSE IF ~HasTlv(c) THEN Bad(c)
    ELSE Decoder(Advance(c, 4), TypeAt(c), LengthAt(c))

DecodeContainer(Decoder(_, _, _), c) ==
    Loop(LAMBDA cursor : Field(Decoder, cursor), c, Remaining(c))

(* The type decoders: c is at the value of the TLV (type, n).              *)

HeadersField(c, type, n) ==
    CASE type = OptionalHeaders.InterestFragment -> PutAsBuffer(c, n, "intFrag")
      [] type = OptionalHeaders.ContentObjectFragment -> PutAsBuffer(c, n, "objFrag")
      [] type = OptionalHeaders.InterestLifetime -> PutAsInteger(c, n, "lifetime")
      [] type = OptionalHeaders.RecommendedCacheTime -> PutAsInteger(c, n, "cacheTime")
      [] OTHER -> PutAsListBuffer(c, n, "headers", type)

MessageField(c, type, n) ==
    CASE type = CCNxMessage.Name -> PutAsName(c, n, "name")
      [] type = CCNxMessage.Payload -> PutAsBuffer(c, n, "payload")
      [] type = CCNxMessage.KeyIdRestriction -> PutAsHash(c, n, "keyIdRestriction")
      [] type = CCNxMessage.ObjectHashRestriction -> PutAsHash(c, n, "objHashRestriction")
      [] type = CCNxMessage.PayloadType -> PutPayloadType(c, n)
      [] type = CCNxMessage.ExpiryTime -> PutAsInteger(c, n, "expiryTime")
      [] type = CCNxMessage.EndChunkNumber -> PutAsInteger(c, n, "endChunk")
      [] OTHER -> PutAsListBuffer(c, n, "custom", type)

ManifestField(c, type, n) ==
    CASE type = CCNxMessage.Name -> PutAsName(c, n, "name")
      [] type = CCNxMessage.HashGroup -> DecodeHashGroup(c, n)
      [] OTHER -> PutAsListBuffer(c, n, "custom", type)

AlgParametersField(c, type, n) ==
    CASE type = ValidationAlg.Cert -> PutAsBuffer(c, n, "certificate")
      [] type = ValidationAlg.KeyId -> PutAsBuffer(c, n, "keyId")
      [] type = ValidationAlg.KeyName -> PutKeyName(c, n)
      [] type = ValidationAlg.SigTime -> PutAsInteger(c, n, "sigTime")
      [] type = ValidationAlg.PublicKey -> PutAsBuffer(c, n, "publicKey")
      [] OTHER -> PutAsListBuffer(c, n, "validation", type)

(* TlvToParc *)
SuitesOf(type) == {s \in DOMAIN SuiteCode : SuiteCode[s] = type}

PutSuite(c, suite) == Filled(c, PutInteger(c.d, "cryptoSuite", suite))

AlgField(c, type, n) ==
    IF SuitesOf(type) = {} THEN PutAsListBuffer(c, n, "validation", type)
    ELSE IF ~CanPutInteger(c.d, "cryptoSuite") THEN Bad(c)
    ELSE Leave(DecodeContainer(AlgParametersField,
                 PutSuite(Inside(c, n), CHOOSE s \in SuitesOf(type) : TRUE)), c)

----------------------------------------------------------------------------
(* PacketDecoder_Decode *)

PacketLength(b) == U16(b, 2)
HeaderLength(b) == b[8]

(* What the code calls an error of the fixed header, and what the hop      *)
(* limit and the return code say, whatever the packet; the dictionary      *)
(* keeps the header for its getters.                                       *)
WithHeader(d, b) ==
    PutInteger(PutInteger(PutNew(d, "fixedHeader", Entry("buffer", SubSeq(b, 1, 8))),
                          "hopLimit", b[5]), "returnCode", b[6])
DecodeFixedHeader(b, d) ==
    [b |-> b, at |-> 8, limit |-> PacketLength(b), d |-> WithHeader(d, b),
     ok |-> /\ b[1] = 1
            /\ PacketLength(b) >= 8 /\ HeaderLength(b) >= 8
            /\ PacketLength(b) >= HeaderLength(b),
     start |-> 0, stop |-> 0]

DecodeOptionalHeaders(c) ==
    IF ~c.ok THEN c
    ELSE Leave(DecodeContainer(HeadersField, Inside(c, HeaderLength(c.b) - 8)), c)

(* The protected region begins here, and so does that of the hash. *)
MarkStart_BeforeHeaders(c) == [c EXCEPT !.start = 8]
MarkStart(c) == [c EXCEPT !.start = c.at]
MarkStop(c) == [c EXCEPT !.stop = c.at]

(* JSON is parsed and put in its compact form; here it is its bytes. *)
DecodeCPI(c) == PutAs(c, Remaining(c), "payload", Entry("json", Slice(c, Remaining(c))))

(* The message's type comes from its TLV, not from the fixed header. *)
SetManifest(c) == Filled(c, Updated(c.d, "type", "Manifest"))

MessageValue(c, type) ==
    CASE type = MessageType.Control -> DecodeCPI(c)
      [] type \in {MessageType.Interest, MessageType.ContentObject} ->
           DecodeContainer(MessageField, c)
      [] type = MessageType.Manifest -> DecodeContainer(ManifestField, SetManifest(c))
      [] OTHER -> Bad(c)

DecodeMessage(c) ==
    IF c.ok /\ HasTlv(c) /\ LengthAt(c) <= PacketLength(c.b) - HeaderLength(c.b)
    THEN Leave(MessageValue(Inside(Advance(c, 4), LengthAt(c)), TypeAt(c)), c)
    ELSE Bad(c)

DecodeValidationAlg(c) ==
    IF HasTlv(c) /\ TypeAt(c) = MessageType.ValidationAlg
    THEN Leave(DecodeContainer(AlgField, Inside(Advance(c, 4), LengthAt(c))), c)
    ELSE Bad(c)

(* A payload of no bytes is an error. *)
DecodeValidationPayload(c) ==
    IF HasTlv(c) /\ TypeAt(c) = MessageType.ValidationPayload /\ LengthAt(c) > 0
    THEN PutAsBuffer(Advance(c, 4), LengthAt(c), "sigPayload")
    ELSE Bad(c)

(* What is behind the message must be the two validation sections. *)
DecodeAfterAlg(c) == IF c.ok THEN DecodeValidationPayload(MarkStop(c)) ELSE c
DecodeValidation(c) ==
    IF ~c.ok \/ Remaining(c) = 0 THEN c ELSE DecodeAfterAlg(DecodeValidationAlg(c))

(* _decodeV1: the type of the fixed header gives the dictionary its type,  *)
(* and there is none for an InterestReturn.                                *)
DecodedTypes == [Interest |-> 0, ContentObject |-> 1, Control |-> 164]

NotDecoded == [ok |-> FALSE]

(* The regions are those of set{Protected,ContentObjectHash}Region{Start,  *)
(* Length}.                                                                *)
Result(c) ==
    IF ~c.ok THEN NotDecoded
    ELSE [ok |-> TRUE,
          dictionary |-> c.d,
          protected |-> SubSeq(c.b, c.start + 1, c.stop),
          hashed |-> SubSeq(c.b, c.start + 1, c.at)]

Decode(b) ==
    LET types == {t \in DOMAIN DecodedTypes : DecodedTypes[t] = b[2]}
        d == [type |-> CHOOSE t \in types : TRUE]
    IN IF types = {} \/ PacketLength(b) > Len(b) THEN NotDecoded
       ELSE Result(DecodeValidation(DecodeMessage(MarkStart(
                   DecodeOptionalHeaders(DecodeFixedHeader(b, d))))))
=============================================================================
