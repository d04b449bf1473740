------------------------------ MODULE SchemaV1 ------------------------------
(***************************************************************************)
(* What the encoders and the decoders of codec/schema_v1 share: the codes  *)
(* of ccnxCodecSchemaV1_Types.h, the tables of the CryptoSuite codec, and  *)
(* the dictionary they read and fill.                                      *)
(*                                                                         *)
(* A dictionary is a function on the keys that are set.  An entry is a     *)
(* record with one field, named for what it holds, as the functions        *)
(* ccnxTlvDictionary_IsValueInteger, _IsValueBuffer ... ask for it; a list *)
(* is a sequence, newest element first, as the dictionary keeps it, and    *)
(* "type" is the dictionary's message type.                                *)
(***************************************************************************)
EXTENDS Integers, Sequences

(* The packet type of a message; a Manifest is sent as a Content Object. *)
PacketType == [Interest |-> 0, ContentObject |-> 1, InterestReturn |-> 2,
               Control |-> 164, Manifest |-> 1]
MessageType == [Interest |-> 1, InterestReturn |-> 1, ContentObject |-> 2,
                ValidationAlg |-> 3, ValidationPayload |-> 4, Manifest |-> 6,
                Control |-> 48879]
OptionalHeaders == [InterestLifetime |-> 1, RecommendedCacheTime |-> 2,
                    InterestFragment |-> 3, ContentObjectFragment |-> 4]
CCNxMessage == [Name |-> 0, Payload |-> 1, KeyIdRestriction |-> 2,
                ObjectHashRestriction |-> 3, PayloadType |-> 5,
                ExpiryTime |-> 6, HashGroup |-> 7, EndChunkNumber |-> 25]
HashGroup == [Metadata |-> 1, Data |-> 2, Manifest |-> 3]
Metadata == [locator |-> 0, dataSize |-> 1, blockSize |-> 2, entrySize |-> 3,
             treeHeight |-> 4, digest |-> 5]
ValidationAlg == [KeyId |-> 9, PublicKey |-> 11, Cert |-> 12, KeyName |-> 14,
                  SigTime |-> 15]
LinkField == [Name |-> 0, KeyId |-> 1, Hash |-> 2]
HashType == [SHA256 |-> 1, SHA512 |-> 2, App |-> 3]
PayloadType == [DATA |-> 0, KEY |-> 1, LINK |-> 2]

(* ParcToTlv: the suites that have a code; TlvToParc is its inverse. *)
SuiteCode == [RSA_SHA256 |-> 6, HMAC_SHA256 |-> 4, NULL_CRC32C |-> 2]
NoSuite == 0

DigestSizes == [SHA256 |-> {32}, SHA512 |-> {32, 64}]
ValidHash(type, digest) == type \in DOMAIN DigestSizes => Len(digest) \in DigestSizes[type]

(* What there is in the lists, and in the entries of each kind: payload    *)
(* types and suites are names here, for the integers of an enumeration.    *)
Bytes == Seq(0..255)
ListEntry == [type : Nat, value : Bytes]
HashValue == [type : DOMAIN HashType, digest : Bytes]
Pointer == [type : {"Data", "Manifest"}, digest : Bytes]
HashGroupValue == [locator : Bytes, dataSize : Nat, blockSize : Nat, entrySize : Nat,
                   treeHeight : Nat, digest : Bytes, pointers : Seq(Pointer)]
CustomLists == {"headers", "custom", "validation"}
Enumerated ==
    [payloadType |-> DOMAIN PayloadType \cup {"MANIFEST"},
     cryptoSuite |-> DOMAIN SuiteCode
                     \cup {"RSA_SHA512", "HMAC_SHA512", "DSA_SHA256", "EC_SECP_256K1"}]
ValuesOf(key, kind) ==
    CASE kind \in {"buffer", "json"} -> Bytes
      [] kind = "name" -> Seq(ListEntry)
      [] kind = "hash" -> HashValue
      [] kind = "integer" -> IF key \in DOMAIN Enumerated THEN Enumerated[key] ELSE Nat
      [] OTHER -> {}

IsDictionary(d) ==
    /\ "type" \in DOMAIN d
    /\ \A list \in CustomLists \cap DOMAIN d : d[list] \in Seq(ListEntry)
    /\ "hashGroups" \in DOMAIN d => d.hashGroups \in Seq(HashGroupValue)
    /\ \A key \in DOMAIN d \ (CustomLists \cup {"type", "hashGroups"}) :
          \A kind \in DOMAIN d[key] : d[key][kind] \in ValuesOf(key, kind)

Entry(kind, value) == [k \in {kind} |-> value]
Is(d, key, kind) == key \in DOMAIN d /\ kind \in DOMAIN d[key]

Updated(d, key, value) == [k \in DOMAIN d \cup {key} |-> IF k = key THEN value ELSE d[k]]

(* PutBuffer, PutName, PutObject, PutJson keep what is there. *)
CanPut(d, key) == key \notin DOMAIN d
PutNew(d, key, entry) == IF CanPut(d, key) THEN Updated(d, key, entry) ELSE d

(* PutInteger replaces an integer. *)
CanPutInteger(d, key) == CanPut(d, key) \/ Is(d, key, "integer")
PutInteger(d, key, v) == Updated(d, key, Entry("integer", v))

(* PutListBuffer inserts at the head. *)
PutList(d, list, type, value) ==
    LET new == <<[type |-> type, value |-> value]>>
    IN Updated(d, list, IF list \in DOMAIN d THEN new \o d[list] ELSE new)
=============================================================================
