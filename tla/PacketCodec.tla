---------------------------- MODULE PacketCodec ----------------------------
(***************************************************************************)
(* The packet encoder and the packet decoder against each other: what is   *)
(* sent is what is received, in the dictionary and through the getters of  *)
(* the message; the bytes that are signed are those that are verified; a   *)
(* packet that was received is sent on; and the exceptions.                *)
(***************************************************************************)
EXTENDS PacketEncoder, Facades

CONSTANTS RelayedHops, RelayedLifetimes    \* what a relay sets in an Interest

ASSUME CodecAssumption == RelayedHops \cup RelayedLifetimes \subseteq Nat

VARIABLE relayed      \* the dictionary whose packet is being sent on: none, or one

Decoder == INSTANCE PacketDecoder

----------------------------------------------------------------------------
(* A node that receives the packet and sends it on: the dictionary is the  *)
(* decoder's, with what may change from hop to hop, and there is no signer. *)

HopByHop(d) ==
    {d} \cup IF d.type # "Interest" THEN {}
             ELSE {SetHopLimit(d, hop) : hop \in RelayedHops}
                  \cup {SetLifetime(d, lifetime) : lifetime \in RelayedLifetimes}

Relay ==
    LET result == Decoder!Decode(content)
    IN /\ outcome = "done" /\ encodes < MaxEncodes
       /\ result.ok
       /\ dictionary' \in HopByHop(result.dictionary)
       /\ asked' = NoSigner /\ covers' = <<>> /\ UNCHANGED api
       /\ NewEncoder(NoSigner)
       /\ relayed' = {dictionary}

InitCodec == Init /\ relayed = {}
NextCodec == (Next /\ UNCHANGED relayed) \/ Relay

SpecCodec == InitCodec /\ [][NextCodec]_<<vars, relayed>>

----------------------------------------------------------------------------

(* The fields that each type of message carries *)
InterestKeys == {"hopLimit", "intFrag", "lifetime", "headers", "name", "payload",
                 "keyIdRestriction", "objHashRestriction", "custom"}
ContentObjectKeys == {"objFrag", "cacheTime", "headers", "name", "payload",
                      "payloadType", "expiryTime", "endChunk", "custom"}
ManifestKeys == {"objFrag", "cacheTime", "headers", "name", "hashGroups", "custom"}
ControlKeys == {"headers", "payload"}
ValidationKeys == {"cryptoSuite", "keyId", "publicKey", "certificate", "sigTime", "sigPayload"}
                  \cup IF Is(dictionary, "keyName", "name")
                       THEN {"keyName", "keyNameKeyId", "keyNameHash"} ELSE {}

Validated == Suite(dictionary, Signer) # NoSuite

Carried ==
    (CASE dictionary.type = "Interest" -> InterestKeys
       [] dictionary.type = "ContentObject" -> ContentObjectKeys
       [] dictionary.type = "Manifest" -> ManifestKeys
       [] dictionary.type = "Control" -> ControlKeys)
    \cup (IF Validated THEN ValidationKeys ELSE {})

IntegerKeys == {"lifetime", "cacheTime", "expiryTime", "endChunk"}

PayloadTypeNames == <<"DATA", "KEY", "LINK">>

(* What a receiver sees of a field: an integer whatever its form was, a    *)
(* list from its other end, the JSON of a control message.                 *)
Seen(key, field) ==
    CASE key \in {"headers", "custom", "hashGroups"} -> Reverse(field)
      [] key = "hopLimit" -> Entry("integer", field.integer % 256)
      [] key = "payloadType" ->
           Entry("integer",
                 IF "buffer" \in DOMAIN field THEN PayloadTypeNames[field.buffer[1] + 1]
                 ELSE IF field.integer \in {"KEY", "LINK"} THEN field.integer ELSE "DATA")
      [] key \in IntegerKeys /\ "buffer" \in DOMAIN field ->
           Entry("integer", FoldLeft(LAMBDA v, byte : v * 256 + byte, 0, field.buffer))
      [] key = "payload" /\ dictionary.type = "Control" -> Entry("json", IF "json" \in DOMAIN field THEN field.json ELSE field.buffer)
      [] OTHER -> field

SignerSigns == Signer # NoSigner /\ Signer.algorithm \notin {"NULL", "UNKNOWN"}

(* The sender adds the suite and the time of its signer, and a hop limit.  *)
Added ==
    (IF ~Validated THEN <<>>
     ELSE ("cryptoSuite" :> Entry("integer",
             CHOOSE s \in DOMAIN SuiteCode : SuiteCode[s] = Suite(dictionary, Signer)))
          @@ (IF SignerSigns THEN "sigTime" :> Entry("integer", now) ELSE <<>>))
    @@ ("hopLimit" :> Entry("integer", IF dictionary.type = "Interest" THEN 255 ELSE 0))
    @@ ("returnCode" :> Entry("integer", 0))
    @@ ("fixedHeader" :> Entry("buffer", SubSeq(content, 1, HeaderSize)))

Received ==
    [key \in Carried \cap DOMAIN dictionary |-> Seen(key, dictionary[key])]
    @@ Added @@ ("type" :> dictionary.type)

(* A KeyName is not decoded with anything behind it, and the time of the   *)
(* signature is behind it.                                                 *)
TimeSent == Is(dictionary, "sigTime", "integer") \/ SignerSigns
KeyNameIsLast == ~(Is(dictionary, "keyName", "name") /\ TimeSent)

HasPayload == Is(dictionary, "sigPayload", "buffer") /\ dictionary.sigPayload.buffer # <<>>

(* The packets that can be received: not an InterestReturn, no headers     *)
(* longer than the byte for their length can say, no validation section    *)
(* without its payload.                                                    *)
Receivable ==
    /\ dictionary.type # "InterestReturn"
    /\ headerLength < 256
    /\ Validated => HasPayload /\ KeyNameIsLast

----------------------------------------------------------------------------
(* Properties *)

(* The lengths and marks of the packet, and what the client sees of it:    *)
(* the packet length that Encode counts is the one it measures, or it      *)
(* would trap; the buffer ends at the cursor when the packet is done; and  *)
(* a failure leaves an error.                                              *)
PacketTypeOK ==
    /\ TlvTypeOK
    /\ Now("header") => Top = 1 /\ Inner = position
    /\ outcome = "done" => todo = <<>> /\ position = Len(content) /\ Top = 1
    /\ outcome \in {"failed", "trapped"} <=> error # NoError
    /\ outcome = "trapped" => api = "DictionaryEncode"
    /\ encodes \in 1..MaxEncodes /\ now \in 1..MaxNow

(* A dictionary that is encoded and decoded again says the same, field by  *)
(* field, whichever codecs wrote them, in whatever order; and the packets  *)
(* that the decoder refuses are those of Receivable's exceptions.          *)
DecodesBack ==
    outcome = "done" =>
        LET result == Decoder!Decode(content)
        IN /\ result.ok <=> Receivable
           /\ result.ok => result.dictionary = Received

(* The time of the packet that is encoded again is that of the packet that *)
(* was signed.                                                             *)
TimeIsKept == encodes = 1 \/ Is(dictionary, "sigTime", "integer") \/ ~SignerSigns

(* The bytes that the encoder had signed are the protected region that the *)
(* decoder reports, though they mark it independently, and a Content       *)
(* Object's hash is of all that is behind the headers.                     *)
RegionsAgree ==
    outcome = "done" /\ Receivable =>
        LET result == Decoder!Decode(content)
        IN /\ covers # <<>> /\ TimeIsKept => result.protected = covers
           /\ result.hashed = SubSeq(content, headerLength + 1, Len(content))

(* A dictionary that was encoded is not changed by that in a way that      *)
(* shows: encoded again it is the same packet, although its signature now  *)
(* comes from the dictionary.                                              *)
ReencodeStable ==
    outcome = "done" /\ encodes > 1 /\ relayed = {} /\ TimeIsKept => content = previous

(* What the getters read of an integer is sent as an integer, as every     *)
(* setter puts it.                                                         *)
WholeIntegers(d) ==
    \A key \in IntegerKeys \cup {"payloadType"} : key \in DOMAIN d => Is(d, key, "integer")

(* GetCustomType tells headers of one type apart by their order, and a     *)
(* receiver has them in the other order.                                   *)
HeaderTypes(d) == IF "headers" \in DOMAIN d THEN {d.headers[i].type : i \in DOMAIN d.headers} ELSE {}
OneOfEachType(d) == "headers" \in DOMAIN d => Cardinality(HeaderTypes(d)) = Len(d.headers)

(* The sender's view, as it is after the wire *)
SentInterest(d) == [InterestView(d) EXCEPT !.hopLimit = @ % 256]
SentHeaders(d) == [key \in Carried \cap DOMAIN d |-> d[key]]
SentContentObject(d) ==
    [ContentObjectView(d) EXCEPT !.payloadType = IF @ \in {"KEY", "LINK"} THEN @ ELSE "DATA"]

(* What one client says through the setters, another hears through the     *)
(* getters, over the wire: an Interest's name, payload id, restrictions,   *)
(* lifetime and payload, the equal of the one that was sent, with the last *)
(* byte of its hop limit; a Content Object's name, payload, expiry and     *)
(* final chunk, with its payload type if the wire knows it; the optional   *)
(* headers; the suite, the key and the signature; and the header that the  *)
(* decoder kept is that of this packet.                                    *)
ReadsAsSent ==
    outcome = "done" /\ Receivable /\ WholeIntegers(dictionary) =>
        LET received == Decoder!Decode(content).dictionary
        IN /\ dictionary.type = "Interest" =>
                 /\ InterestView(received) = SentInterest(dictionary)
                 /\ InterestEquals(dictionary, received)
                 /\ HeaderGetHopLimit(received) = GetHopLimit(received)
                 /\ HeaderGetReturnCode(received) = 0 /\ HeaderGetFlags(received) = 0
           /\ dictionary.type = "ContentObject" =>
                 ContentObjectView(received) = SentContentObject(dictionary)
           /\ Validated =>
                 ValidationView(received) = ValidationView(dictionary @@ Added)
           /\ dictionary.type # "Control" /\ OneOfEachType(dictionary) =>
                 LET types == HeaderTypes(dictionary)
                 IN HeadersView(received, types) = HeadersView(SentHeaders(dictionary), types)
           /\ HeaderGetPacketLength(received) = Len(content)
           /\ HeaderGetOptionalHeaderLength(received) = headerLength - HeaderSize
           /\ HeaderGetVersion(received) = 1
           /\ HeaderGetPacketType(received) = PacketType[dictionary.type]

(* Lists that a relay does not turn around, and integers that it does not  *)
(* write in another length                                                 *)
IsCanonical(d) ==
    /\ WholeIntegers(d)
    /\ \A list \in {"custom", "hashGroups"} : list \in DOMAIN d => Len(d[list]) < 2

(* A relay that decodes a packet, changes what is hop by hop and encodes   *)
(* it again has sent the same bytes behind the headers: the signature that *)
(* came with the packet still verifies, and a Content Object keeps its     *)
(* hash, and so its name.                                                  *)
RelayKeepsHash ==
    outcome = "done" /\ Receivable /\ (\E d \in relayed : IsCanonical(d)) =>
        LET before == Decoder!Decode(previous)
            after == Decoder!Decode(content)
        IN after.hashed = before.hashed /\ after.protected = before.protected

----------------------------------------------------------------------------
(* What the repository says of the codec, and the code does not do *)

(* ccnxCodec_TlvPacket.h:135-136: "If the dictionary already has a         *)
(* ValidationAlg and ValidationPayload, those are used, not the Signer.    *)
(* Otherwise, if the signer is not null, it is used to sign the wire       *)
(* format."                                                                *)
SignerIsUsed ==
    outcome = "done" /\ asked # NoSigner /\ Suite(dictionary, asked) # NoSuite
        => Is(dictionary, "sigPayload", "buffer")

(* ccnxCodecSchemaV1_LinkCodec.h:97 and :105: decoding a KeyName's link    *)
(* takes the length of its value, so it ends there, and a signed packet    *)
(* that names its key is received.                                         *)
KeyNameDecodes ==
    outcome = "done" /\ dictionary.type = "ContentObject" /\ Validated /\ HasPayload
        => Decoder!Decode(content).ok

(* ccnxCodecSchemaV1_ValidationEncoder.c:158: "We will generate a          *)
(* signature, so generate a signing time": a packet that carries a         *)
(* signature of the dictionary carries the bytes it was made for.          *)
StoredSignatureCovers ==
    outcome = "done" /\ covers # <<>> /\ Receivable
        => Decoder!Decode(content).protected = covers

(* ccnx_ManifestHashGroup.h:695: HasMetadata determines "if this           *)
(* CCNxManifestHashGroup is carrying any metadata", and what is metadata   *)
(* is sent: the tree height of a group is received.                        *)
TreeHeightReceived ==
    outcome = "done" /\ "hashGroups" \in DOMAIN dictionary /\ Receivable =>
        LET groups == Decoder!Decode(content).dictionary.hashGroups
        IN \A i \in DOMAIN groups :
              groups[i].treeHeight = Reverse(dictionary.hashGroups)[i].treeHeight
=============================================================================
