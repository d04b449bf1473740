------------------------------ MODULE Facades ------------------------------
(***************************************************************************)
(* What clients say and ask of a message: the setters and getters of       *)
(* ccnx_Interest.c, ccnx_ContentObject.c and the facades behind them       *)
(* (internal/ccnx_InterestFacadeV1.c, ccnx_ContentObjectFacadeV1.c,        *)
(* ccnx_ChunkingFacadeV1.c, ccnx_ValidationFacadeV1.c), and the getters of *)
(* the codec's headers, as functions of a dictionary.  A setter is the     *)
(* dictionary after it; what is NULL, or not there to ask for, is the      *)
(* empty set, and any other answer a set of one.                           *)
(***************************************************************************)
EXTENDS SchemaV1, SequencesExt, FiniteSetsExt

CONSTANT WordSize    \* the number of values of a uint32_t

ASSUME WordAssumption == WordSize \in Nat /\ WordSize > 255

DefaultLifetime == WordSize - 1
DefaultHopLimit == 255
PAYLOADID == 2

(* The getters of the dictionary *)
ValueOf(d, key, kind) == IF Is(d, key, kind) THEN {d[key][kind]} ELSE {}
FetchUint32(d, key, default) ==
    IF Is(d, key, "integer") THEN d[key].integer % WordSize ELSE default

PutOptional(d, key, kind, values) ==
    IF values = {} THEN d ELSE PutNew(d, key, Entry(kind, CHOOSE v \in values : TRUE))

----------------------------------------------------------------------------
(* Interests.  A restriction is wrapped as a SHA-256 hash, however many    *)
(* bytes it has; the defaults are not put.                                 *)

Restriction(digest) == [type |-> "SHA256", digest |-> digest]
SetKeyIdRestriction(d, keyId) == PutNew(d, "keyIdRestriction", Entry("hash", Restriction(keyId)))
SetContentObjectHashRestriction(d, digest) ==
    PutNew(d, "objHashRestriction", Entry("hash", Restriction(digest)))
SetLifetime(d, lifetime) == PutInteger(d, "lifetime", lifetime)
SetHopLimit(d, hop) == PutInteger(d, "hopLimit", hop)

CreateInterest(name, lifetime, keyIds, digests, hop) ==
    LET named == [type |-> "Interest", name |-> Entry("name", name)]
        timed == IF lifetime = DefaultLifetime THEN named ELSE SetLifetime(named, lifetime)
        keyed == PutOptional(timed, "keyIdRestriction", "hash", {Restriction(k) : k \in keyIds})
        hashed == PutOptional(keyed, "objHashRestriction", "hash", {Restriction(h) : h \in digests})
    IN IF hop = DefaultHopLimit THEN hashed ELSE SetHopLimit(hashed, hop)

(* SetPayloadWithId: the id becomes part of the name whether or not the    *)
(* payload was put.  An id made of the payload is its hash, which tells    *)
(* one payload from another.                                               *)
SetInterestPayload(d, payload) == PutNew(d, "payload", Entry("buffer", payload))
PayloadId(payload) == [type |-> PAYLOADID, value |-> <<1>> \o payload]
SetPayloadWithId(d, payload, id) ==
    [SetInterestPayload(d, payload) EXCEPT !["name"].name = Append(@, id)]
SetPayloadAndId(d, payload) == SetPayloadWithId(d, payload, PayloadId(payload))

GetName(d) == ValueOf(d, "name", "name")
GetPayload(d) == ValueOf(d, "payload", "buffer")
GetLifetime(d) == FetchUint32(d, "lifetime", DefaultLifetime)
GetHopLimit(d) == FetchUint32(d, "hopLimit", DefaultHopLimit)
GetKeyIdRestriction(d) == {hash.digest : hash \in ValueOf(d, "keyIdRestriction", "hash")}
GetContentObjectHashRestriction(d) ==
    {hash.digest : hash \in ValueOf(d, "objHashRestriction", "hash")}

(* ccnxInterestPayloadId_CreateFromSegmentInName: the first id of a name *)
IdInName(name) ==
    LET ids == {i \in DOMAIN name : name[i].type = PAYLOADID}
    IN IF ids = {} THEN {} ELSE {name[Min(ids)]}

(* Two Interests are equal whatever their payloads, hop limits and         *)
(* restrictions of the object's hash are.  (The facade has an Equals of its *)
(* own, of the dictionaries, that is never called.)                        *)
InterestEquals_OfFacade(a, b) == a = b
InterestEquals(a, b) ==
    /\ GetName(a) = GetName(b) /\ GetKeyIdRestriction(a) = GetKeyIdRestriction(b)
    /\ GetLifetime(a) = GetLifetime(b)

InterestView(d) ==
    [name |-> GetName(d), payload |-> GetPayload(d), ids |-> {IdInName(n) : n \in GetName(d)},
     keyId |-> GetKeyIdRestriction(d), digest |-> GetContentObjectHashRestriction(d),
     lifetime |-> GetLifetime(d), hopLimit |-> GetHopLimit(d)]

----------------------------------------------------------------------------
(* Content Objects *)

GetPayloadType(d) == IF Is(d, "payloadType", "integer") THEN d.payloadType.integer ELSE "DATA"

CreateContentObject(names, payloadType, payloads) ==
    LET named == PutOptional("type" :> "ContentObject", "name", "name", names)
        typed == IF payloadType = "DATA" THEN named
                 ELSE PutInteger(named, "payloadType", payloadType)
    IN PutOptional(typed, "payload", "buffer", payloads)

(* The type changes with the payload only. *)
SetContentPayload(d, payloadType, payload) ==
    LET put == PutNew(d, "payload", Entry("buffer", payload))
    IN IF CanPut(d, "payload") /\ GetPayloadType(d) # payloadType
       THEN PutInteger(put, "payloadType", payloadType) ELSE put
SetExpiryTime(d, time) == PutInteger(d, "expiryTime", time)
SetFinalChunkNumber(d, number) == PutInteger(d, "endChunk", number)

GetExpiryTime(d) == ValueOf(d, "expiryTime", "integer")
GetFinalChunkNumber(d) == ValueOf(d, "endChunk", "integer")

ContentObjectView(d) ==
    [name |-> GetName(d), payload |-> GetPayload(d), payloadType |-> GetPayloadType(d),
     expiryTime |-> GetExpiryTime(d), finalChunk |-> GetFinalChunkNumber(d)]

----------------------------------------------------------------------------
(* Validation.  A link is a record of a name, a key id and a hash; a key   *)
(* locator is a key or a link, of which it gives the name only.            *)

SetKeyId(d, keyId) == PutNew(d, "keyId", Entry("buffer", keyId))
SetPublicKey(d, key) == PutNew(d, "publicKey", Entry("buffer", key))
SetCertificate(d, certificate) == PutNew(d, "certificate", Entry("buffer", certificate))
SetCryptoSuite(d, suite) == PutInteger(d, "cryptoSuite", suite)
SetSigningTime(d, time) == PutInteger(d, "sigTime", time)
SetValidationPayload(d, bits) == PutNew(d, "sigPayload", Entry("buffer", bits))

Link(name, keyIds, digests) == [name |-> name, keyId |-> keyIds, digest |-> digests]

(* The parts of the link follow its name, if that was put.  A link without *)
(* a hash is an assertion of PutBuffer.                                    *)
SetKeyName(d, link) ==
    IF ~CanPut(d, "keyName") THEN d
    ELSE LET named == PutNew(d, "keyName", Entry("name", link.name))
             keyed == PutOptional(named, "keyNameKeyId", "buffer", link.keyId)
         IN IF link.keyId = {} \/ CanPut(named, "keyNameKeyId")
            THEN PutOptional(keyed, "keyNameHash", "buffer", link.digest) ELSE keyed

SetKeyLocatorKey(d, key) == SetPublicKey(d, key)
SetKeyLocatorLink(d, link) == PutNew(d, "keyName", Entry("name", link.name))

GetKeyName(d) ==
    {Link(name, ValueOf(d, "keyNameKeyId", "buffer"), ValueOf(d, "keyNameHash", "buffer")) :
        name \in ValueOf(d, "keyName", "name")}

ValidationView(d) ==
    [keyId |-> ValueOf(d, "keyId", "buffer"), publicKey |-> ValueOf(d, "publicKey", "buffer"),
     certificate |-> ValueOf(d, "certificate", "buffer"), keyName |-> GetKeyName(d),
     payload |-> ValueOf(d, "sigPayload", "buffer"),
     suite |-> ValueOf(d, "cryptoSuite", "integer"), time |-> ValueOf(d, "sigTime", "integer")]

----------------------------------------------------------------------------
(* The getters of ccnxCodecSchemaV1_FixedHeaderDecoder.c read the bytes    *)
(* that the decoder has kept; without them they say -1.                    *)

HeaderByte(d, i) == IF Is(d, "fixedHeader", "buffer") THEN d.fixedHeader.buffer[i] ELSE -1
HeaderGetVersion(d) == HeaderByte(d, 1)
HeaderGetPacketType(d) == HeaderByte(d, 2)
HeaderGetPacketLength(d) ==
    IF Is(d, "fixedHeader", "buffer")
    THEN d.fixedHeader.buffer[3] * 256 + d.fixedHeader.buffer[4] ELSE -1
HeaderGetHopLimit(d) == HeaderByte(d, 5)
HeaderGetReturnCode(d) == HeaderByte(d, 6)
HeaderGetFlags(d) == HeaderByte(d, 7)
HeaderGetHeaderLength(d) == IF HeaderByte(d, 8) >= 8 THEN HeaderByte(d, 8) ELSE -1
HeaderGetOptionalHeaderLength(d) == HeaderGetHeaderLength(d) - 8

(* Those of ccnxCodecSchemaV1_OptionalHeadersDecoder.c *)
GetInterestFragmentHeader(d) == ValueOf(d, "intFrag", "buffer")
GetContentObjectFragmentHeader(d) == ValueOf(d, "objFrag", "buffer")
GetRecommendedCacheTimeHeader(d) == ValueOf(d, "cacheTime", "integer")
(* The first in the list is the last that was put. *)
GetCustomType(d, type) ==
    LET of == IF "headers" \in DOMAIN d
              THEN {i \in DOMAIN d.headers : d.headers[i].type = type} ELSE {}
    IN IF of = {} THEN {} ELSE {d.headers[Min(of)].value}

HeadersView(d, types) ==
    [intFrag |-> GetInterestFragmentHeader(d), objFrag |-> GetContentObjectFragmentHeader(d),
     cacheTime |-> GetRecommendedCacheTimeHeader(d),
     custom |-> [type \in types |-> GetCustomType(d, type)]]
=============================================================================
