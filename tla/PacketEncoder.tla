--------------------------- MODULE PacketEncoder ---------------------------
(***************************************************************************)
(* ccnxCodecSchemaV1_PacketEncoder.c and the encoders of codec/schema_v1   *)
(* it calls: a dictionary becomes a packet.                                *)
(*                                                                         *)
(* Every _encode* function is the sequence of calls it makes to the TLV    *)
(* encoder, an operator below; `todo' is what is left of them, and a step  *)
(* makes the next call.  Only a signature changes what is read afterwards, *)
(* and it is read by the call that asked for it.  The functions return at  *)
(* the first failure, so a failing call is the last one.                   *)
(*                                                                         *)
(* The dictionary outlives the encoder: it is encoded again, by another    *)
(* encoder, later.                                                         *)
(***************************************************************************)
EXTENDS TlvEncoder, SchemaV1

CONSTANTS Dictionaries,   \* what a client asks to encode
          Signers,        \* records [algorithm, hash, bits]; bits: a signature
          NoSigner,
          MaxEncodes,     \* bound on how often the dictionary is encoded
          MaxNow          \* bound on the clock

ASSUME PacketAssumption ==
    /\ Base = 256 /\ HeaderSize = 8
    /\ \A d \in Dictionaries : IsDictionary(d)
    /\ \A s \in Signers : s.bits \in Bytes
    /\ MaxEncodes \in Nat \ {0} /\ MaxNow \in Nat \ {0}

VARIABLES dictionary,     \* of the message
          api,            \* "Encode" or "DictionaryEncode"
          asked,          \* the signer the client passed
          now,            \* gettimeofday when this encoding began
          todo,           \* calls left
          outcome,        \* "running", "done", "failed", "trapped", "crashed"
          headerLength,   \* length of fixed and optional headers
          covers,         \* the bytes that were hashed for the signature
          previous,       \* the packet of the encoding before
          encodes         \* how often the dictionary was encoded

client == <<dictionary, api, asked, now>>
history == <<covers, previous, encodes>>
vars == <<tlvVars, client, history, todo, outcome, headerLength>>

(* The calls *)
Call(op, type, value) == [op |-> op, type |-> type, value |-> value]
Do(op) == <<Call(op, 0, <<>>)>>
Tlv(type, value) == <<Call("append", type, value)>>
Raw(bytes) == <<Call("raw", 0, bytes)>>
Fail == Do("fail")
Container(type, calls, close) ==
    <<Call("open", type, <<>>)>> \o calls \o Do(close)

VarInt(v) == Unsigned(v, VarIntLength(v))
Uint64(v) == Unsigned(v, 8)

BufferField(d, key, type) ==
    IF Is(d, key, "buffer") THEN Tlv(type, d[key].buffer) ELSE <<>>

(* An integer, whose bytes are `bytes', or else a buffer *)
IntegerField(d, key, type, bytes) ==
    IF Is(d, key, "integer") THEN Tlv(type, bytes) ELSE BufferField(d, key, type)

Elements(list) == [i \in DOMAIN list |-> Call("append", list[i].type, list[i].value)]
CustomList(d, list) == IF list \in DOMAIN d THEN Elements(d[list]) ELSE <<>>

NameTlv(type, name) == Container(type, Elements(name), "counted")

----------------------------------------------------------------------------
(* Fixed and optional headers *)

HopLimit(d) == IF Is(d, "hopLimit", "integer") THEN d.hopLimit.integer % Base ELSE 255
ReturnCode(d) == IF Is(d, "returnCode", "integer") THEN d.returnCode.integer % Base ELSE 0

FixedHeader_NotTruncated(d, packetType, headerBytes, packetBytes) ==
    <<1, packetType % Base>> \o Uint16(packetBytes) \o <<0, 0, 0, headerBytes>>
FixedHeader(d, packetType, headerBytes, packetBytes) ==
    <<1, packetType % Base>> \o Uint16(packetBytes) \o
    <<IF packetType \in {PacketType.Interest, PacketType.InterestReturn}
      THEN HopLimit(d) ELSE 0,
      IF packetType = PacketType.InterestReturn THEN ReturnCode(d) ELSE 0,
      0,
      headerBytes % Base>>

(* The header that is patched: the type is not known, the lengths are 0. *)
ProvisionalHeader(d) == FixedHeader(d, -1, 0, 0)

EncodeOptionalHeaders(d) ==
    LET custom == CustomList(d, "headers")
    IN CASE d.type \in {"Interest", "InterestReturn"} ->
              BufferField(d, "intFrag", OptionalHeaders.InterestFragment)
              \o IntegerField(d, "lifetime", OptionalHeaders.InterestLifetime, VarInt(d.lifetime.integer))
              \o custom
         [] d.type \in {"ContentObject", "Manifest"} ->
              BufferField(d, "objFrag", OptionalHeaders.ContentObjectFragment)
              \o IntegerField(d, "cacheTime", OptionalHeaders.RecommendedCacheTime, VarInt(d.cacheTime.integer))
              \o custom
         [] d.type = "Control" -> custom
         [] OTHER -> Fail

----------------------------------------------------------------------------
(* Messages *)

EncodeName(d) ==
    IF Is(d, "name", "name") THEN NameTlv(CCNxMessage.Name, d.name.name)
    ELSE IF d.type = "ContentObject" THEN <<>> ELSE Fail

HashRestriction(d, key, type) ==
    IF ~Is(d, key, "hash") THEN <<>>
    ELSE LET hash == d[key].hash
         IN Container(type,
                      IF ValidHash(hash.type, hash.digest)
                      THEN Tlv(HashType[hash.type], hash.digest) ELSE Fail,
                      "counted")

EncodeInterest_Swapped(d) ==
    EncodeName(d)
    \o HashRestriction(d, "keyIdRestriction", CCNxMessage.ObjectHashRestriction)
    \o HashRestriction(d, "objHashRestriction", CCNxMessage.KeyIdRestriction)
    \o BufferField(d, "payload", CCNxMessage.Payload)
EncodeInterest(d) ==
    EncodeName(d)
    \o HashRestriction(d, "keyIdRestriction", CCNxMessage.KeyIdRestriction)
    \o HashRestriction(d, "objHashRestriction", CCNxMessage.ObjectHashRestriction)
    \o BufferField(d, "payload", CCNxMessage.Payload)

(* Any payload type but KEY and LINK is sent as DATA. *)
WirePayloadType(v) ==
    <<IF v \in {"KEY", "LINK"} THEN PayloadType[v] ELSE PayloadType.DATA>>

EncodeContentObject(d) ==
    EncodeName(d)
    \o IntegerField(d, "payloadType", CCNxMessage.PayloadType, WirePayloadType(d.payloadType.integer))
    \o IntegerField(d, "expiryTime", CCNxMessage.ExpiryTime, Uint64(d.expiryTime.integer))
    \o IntegerField(d, "endChunk", CCNxMessage.EndChunkNumber, VarInt(d.endChunk.integer))
    \o BufferField(d, "payload", CCNxMessage.Payload)

HasMetadata(group) ==
    \/ \E key \in {"dataSize", "blockSize", "entrySize"} : group[key] > 0
    \/ group.locator # <<>> \/ group.digest # <<>>

AppendMetadata(group) ==
    LET Name(key) == IF group[key] # <<>> THEN Tlv(Metadata[key], group[key]) ELSE <<>>
        Size(key) == IF group[key] > 0 THEN Tlv(Metadata[key], Uint64(group[key])) ELSE <<>>
    IN Container(HashGroup.Metadata,
                 Name("locator") \o Size("dataSize") \o Size("blockSize")
                 \o Size("entrySize") \o Size("treeHeight") \o Name("digest"),
                 "measured")

EncodeHashGroup(group) ==
    Container(CCNxMessage.HashGroup,
              (IF HasMetadata(group) THEN AppendMetadata(group) ELSE <<>>)
              \o [i \in DOMAIN group.pointers |->
                    Call("append", HashGroup[group.pointers[i].type],
                         group.pointers[i].digest)],
              "rewritten")

EncodeManifest(d) ==
    EncodeName(d)
    \o (IF "hashGroups" \in DOMAIN d
        THEN FlattenSeq([i \in DOMAIN d.hashGroups |-> EncodeHashGroup(d.hashGroups[i])])
        ELSE <<>>)

(* A control message is its payload, JSON or not, and nothing else; that   *)
(* there is one is not looked at, and the buffer used is NULL.             *)
EncodeCPI(d) ==
    IF Is(d, "payload", "json") THEN Raw(d.payload.json)
    ELSE IF Is(d, "payload", "buffer") THEN Raw(d.payload.buffer) ELSE Do("crash")

EncodeMessage(d) ==
    IF d.type \notin DOMAIN PacketType THEN Fail
    ELSE Container(MessageType[d.type],
              IF d.type = "Control" THEN EncodeCPI(d)
              ELSE (CASE d.type \in {"Interest", "InterestReturn"} -> EncodeInterest(d)
                      [] d.type = "ContentObject" -> EncodeContentObject(d)
                      [] d.type = "Manifest" -> EncodeManifest(d))
                   \o CustomList(d, "custom"),
              "measured")

----------------------------------------------------------------------------
(* Validation *)

(* SignAndHashToTlv *)
SuiteOfSigner(s) ==
    CASE s.algorithm = "RSA" /\ s.hash = "SHA256" -> SuiteCode.RSA_SHA256
      [] s.algorithm = "HMAC" /\ s.hash = "SHA256" -> SuiteCode.HMAC_SHA256
      [] s.algorithm = "NULL" /\ s.hash = "CRC32C" -> SuiteCode.NULL_CRC32C
      [] OTHER -> NoSuite

(* The suite of the dictionary, or else a Content Object's signer's *)
Suite(d, s) ==
    IF Is(d, "cryptoSuite", "integer")
    THEN IF d.cryptoSuite.integer \in DOMAIN SuiteCode
         THEN SuiteCode[d.cryptoSuite.integer] ELSE NoSuite
    ELSE IF d.type = "ContentObject" /\ s # NoSigner THEN SuiteOfSigner(s) ELSE NoSuite

EncodeKeyName(d) ==
    IF Is(d, "keyName", "name")
    THEN Container(ValidationAlg.KeyName,
                   NameTlv(LinkField.Name, d.keyName.name)
                   \o BufferField(d, "keyNameKeyId", LinkField.KeyId)
                   \o BufferField(d, "keyNameHash", LinkField.Hash),
                   "measured")
    ELSE <<>>

(* A signer that signs makes the time of signing part of what it signs. *)
EncodeSignatureTime_Always(d, s, time) ==
    IF s # NoSigner THEN Tlv(ValidationAlg.SigTime, Uint64(time)) ELSE <<>>
EncodeSignatureTime(d, s, time) ==
    IF Is(d, "sigTime", "integer")
    THEN Tlv(ValidationAlg.SigTime, Uint64(d.sigTime.integer))
    ELSE IF s # NoSigner /\ s.algorithm \notin {"NULL", "UNKNOWN"}
         THEN Tlv(ValidationAlg.SigTime, Uint64(time)) ELSE <<>>

EncodeAlg(d, s, time) ==
    IF Suite(d, s) = NoSuite THEN <<>>
    ELSE Container(Suite(d, s),
                   BufferField(d, "keyId", ValidationAlg.KeyId)
                   \o BufferField(d, "publicKey", ValidationAlg.PublicKey)
                   \o BufferField(d, "certificate", ValidationAlg.Cert)
                   \o EncodeKeyName(d)
                   \o EncodeSignatureTime(d, s, time),
                   "measured")

EncodeValidationAlg(d, s, time) ==
    IF Is(d, "cryptoSuite", "integer") \/ d.type = "ContentObject"
    THEN Container(MessageType.ValidationAlg, EncodeAlg(d, s, time), "optional")
    ELSE <<>>

(* There is a payload only behind a ValidationAlg that was not erased. *)
EncodeValidationPayload_MarkedLate(d, s) ==
    IF Suite(d, s) = NoSuite THEN <<>>
    ELSE Container(MessageType.ValidationPayload, Do("end") \o Do("sign"), "optional")
EncodeValidationPayload(d, s) ==
    IF Suite(d, s) = NoSuite THEN <<>>
    ELSE Do("end") \o Container(MessageType.ValidationPayload, Do("sign"), "optional")

Encode(d, s, time) ==
    Raw(ProvisionalHeader(d)) \o EncodeOptionalHeaders(d)
    \o Do("start") \o EncodeMessage(d)
    \o EncodeValidationAlg(d, s, time) \o EncodeValidationPayload(d, s)
    \o Do("header") \o Do("finalize")

----------------------------------------------------------------------------
(* DictionaryEncode does not hand the signer to the encoder. *)
Signer == IF api = "Encode" THEN asked ELSE NoSigner

Init ==
    /\ TlvInit
    /\ dictionary \in Dictionaries
    /\ api \in {"Encode", "DictionaryEncode"}
    /\ asked \in Signers \cup {NoSigner}
    /\ now = 1
    /\ todo = Encode(dictionary, Signer, now)
    /\ outcome = "running"
    /\ headerLength = 0
    /\ covers = <<>> /\ previous = <<>> /\ encodes = 1

Now(op) == todo # <<>> /\ Head(todo).op = op
CallDone == todo' = Tail(todo)
Same == UNCHANGED <<client, history, outcome, headerLength>>

DoAppend == Now("append") /\ AppendTlv(Head(todo).type, Head(todo).value) /\ CallDone /\ Same
DoRaw == Now("raw") /\ AppendRaw(Head(todo).value) /\ CallDone /\ Same
DoOpen == Now("open") /\ AppendContainer(Head(todo).type) /\ CallDone /\ Same
DoMeasured == Now("measured") /\ CloseMeasured /\ CallDone /\ Same
DoCounted == Now("counted") /\ CloseCounted /\ CallDone /\ Same
DoRewritten == Now("rewritten") /\ CloseRewritten /\ CallDone /\ Same

(* A section of validation that is empty is taken back. *)
DoErase == Now("optional") /\ CloseErased /\ CallDone /\ Same
DoKeep == Now("optional") /\ Inner > 0 /\ CloseMeasured /\ CallDone /\ Same

(* The headers end where the protected region begins. *)
DoStart ==
    /\ Now("start")
    /\ MarkSignatureStart
    /\ headerLength' = Inner
    /\ CallDone
    /\ UNCHANGED <<client, history, outcome>>
DoEnd == Now("end") /\ MarkSignatureEnd /\ CallDone /\ Same

(* EncodePayload: the payload of the dictionary, or else a signature, that *)
(* goes into the dictionary.                                               *)
UseStored ==
    /\ Now("sign")
    /\ Is(dictionary, "sigPayload", "buffer")
    /\ AppendRaw(dictionary.sigPayload.buffer)
    /\ CallDone /\ Same

DoSign ==
    /\ Now("sign")
    /\ ~Is(dictionary, "sigPayload", "buffer") /\ Signer # NoSigner
    /\ covers' = SubSeq(content, signatureStart + 1, signatureEnd)
    /\ dictionary' = PutNew(dictionary, "sigPayload", Entry("buffer", Signer.bits))
    /\ AppendRaw(Signer.bits)
    /\ CallDone
    /\ UNCHANGED <<api, asked, now, previous, encodes, outcome, headerLength>>

NoSignature ==
    /\ Now("sign")
    /\ ~Is(dictionary, "sigPayload", "buffer") /\ Signer = NoSigner
    /\ UNCHANGED tlvVars
    /\ CallDone /\ Same

(* The length of the packet is counted; that it is the position is trapped *)
(* afterwards, and never happens (PacketTypeOK).                           *)
DoHeader ==
    /\ Now("header")
    /\ PatchHeader(FixedHeader(dictionary, PacketType[dictionary.type],
                               headerLength, Inner))
    /\ CallDone /\ Same

DoFinalize ==
    /\ Now("finalize")
    /\ Finalize
    /\ outcome' = "done"
    /\ CallDone
    /\ UNCHANGED <<client, history, headerLength>>

(* Encode returns -1 with an error in the encoder; DictionaryEncode asserts *)
(* that there is none.                                                     *)
Failing ==
    /\ Now("fail")
    /\ SetError(IF dictionary.type \in DOMAIN PacketType
                THEN "TLV_MISSING_MANDATORY" ELSE "TLV_ERR_PACKETTYPE")
    /\ outcome' = IF api = "Encode" THEN "failed" ELSE "trapped"
    /\ todo' = <<>>
    /\ UNCHANGED <<client, history, headerLength>>

Crashing ==
    /\ Now("crash")
    /\ outcome' = "crashed"
    /\ todo' = <<>>
    /\ UNCHANGED <<tlvVars, client, history, headerLength>>

(* A new encoder: what it is to encode is the dictionary after the step,   *)
(* and the signer is given.                                                *)
NewEncoder(signer) ==
    /\ outcome = "done" /\ encodes < MaxEncodes
    /\ content' = <<>> /\ position' = 0
    /\ open' = <<[type |-> 0, start |-> 0, inner |-> 0]>>
    /\ signatureStart' = NotMarked /\ signatureEnd' = NotMarked
    /\ error' = NoError
    /\ now' \in now..MaxNow
    /\ todo' = Encode(dictionary', signer, now')
    /\ outcome' = "running" /\ headerLength' = 0
    /\ previous' = content /\ encodes' = encodes + 1

(* The same message once more, with the same signer *)
EncodeAgain ==
    /\ UNCHANGED <<dictionary, api, asked, covers>>
    /\ NewEncoder(Signer)

Next ==
    \/ DoAppend \/ DoRaw \/ DoOpen
    \/ DoMeasured \/ DoCounted \/ DoRewritten \/ DoErase \/ DoKeep
    \/ DoStart \/ DoEnd \/ UseStored \/ DoSign \/ NoSignature
    \/ DoHeader \/ DoFinalize \/ Failing \/ Crashing
    \/ EncodeAgain

Spec == Init /\ [][Next]_vars
=============================================================================
