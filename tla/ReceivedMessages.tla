-------------------------- MODULE ReceivedMessages --------------------------
(***************************************************************************)
(* Messages made of packets (ccnx_WireFormatMessage and its facade) beside *)
(* messages made by clients: which table of functions serves a message,    *)
(* what is hashed of its packet while the header is overwritten, and whose *)
(* signature it carries.                                                   *)
(*                                                                         *)
(* A packet is a parcBuffer, which has one position for all its readers,   *)
(* or a vector of pieces.  `interestImpl' is the first member of the table *)
(* of InterestReturns, which is empty when the process starts.  A message's*)
(* `created', `digest' and `accepted' are history: made by a client, the   *)
(* region hashed last with its bytes, the SetSignature that succeeded.  So *)
(* is `misplaced': a header was written while a reader stood elsewhere.    *)
(***************************************************************************)
EXTENDS Integers, Sequences, FiniteSets

CONSTANTS
    Message, Packet,
    NoMessage, NoPacket, NoSigner,
    Signer,             \* who makes signatures and key ids
    PacketContent,      \* bytes, lengths of the pieces (<<>> for a parcBuffer) and signer
    MessageLength,      \* of the message in a packet, up to the validation algorithm
    AlgorithmLength,    \* of the validation algorithm, in a signed packet
    Position,           \* where readers leave the position of a parcBuffer
    RegionStart, RegionLength,
    HopLimit, ReturnCode,
    MaxCalls,           \* bound on the length of a behaviour
    Suite               \* among RSA_SHA256, EC_SECP_256K1, HMAC_SHA256, CRC32C

(* struct rta_tlv_schema_v1_interest_header, offsets from its start *)
PACKETTYPE == 1
HOPLIMIT == 4
RETURNCODE == 5
HeaderSize == 8

Byte == 0..255

(* A packet has a header.  A vector's pieces, which may be empty, cover it.*)
ASSUME PacketAssumption ==
    /\ PacketContent \subseteq
          [bytes : Seq(Byte), pieces : Seq(Nat), signer : Signer \cup {NoSigner}]
    /\ \A content \in PacketContent :
          /\ Len(content.bytes) >= HeaderSize
          /\ content.pieces # <<>> =>
                \E offset \in [0..Len(content.pieces) -> 0..Len(content.bytes)] :
                    /\ offset[0] = 0 /\ offset[Len(content.pieces)] = Len(content.bytes)
                    /\ \A i \in 1..Len(content.pieces) :
                          offset[i] = offset[i - 1] + content.pieces[i]

ASSUME InputAssumption ==
    /\ MessageLength \in Nat /\ AlgorithmLength \in Nat /\ Position \subseteq Nat
    /\ RegionStart \subseteq Nat /\ RegionLength \subseteq Nat
    /\ HopLimit \subseteq Byte /\ ReturnCode \subseteq Byte
    /\ NoPacket \notin Packet /\ NoSigner \notin Signer

VARIABLES message, packet, interestImpl, misplaced, calls

receivedVars == <<message, packet, interestImpl, misplaced, calls>>

Live == {m \in Message : message[m] # NoMessage}
Wire(m) == packet[message[m].wire]
HasWire(m) == m \in Live /\ message[m].wire # NoPacket
IsBuffer(p) == packet[p].pieces = <<>>

(* The packet types of the header *)
TypeByte == [Interest |-> 0, ContentObject |-> 1, InterestReturn |-> 2]
TypeOf(byte) == CHOOSE type \in DOMAIN TypeByte : TypeByte[type] = byte

Region == {"Protected", "ContentObjectHash"}
Unset == -1
NoCode == 0
NoRegion == [start |-> Unset, length |-> Unset]
NoDigest == [start |-> Unset, bytes |-> <<>>]
NoValidation == [suite |-> "NONE", keyId |-> NoSigner, locator |-> NoSigner, bits |-> NoSigner]

New(type, interface) ==
    [type |-> type, interface |-> interface, wire |-> NoPacket, named |-> FALSE, code |-> NoCode,
     region |-> [r \in Region |-> NoRegion], validation |-> NoValidation,
     created |-> FALSE, digest |-> NoDigest, accepted |-> NoValidation]

----------------------------------------------------------------------------
(* The tables of functions.  GetInterface of an Interest leaves the table  *)
(* it chose where it was, the others keep it in the message.               *)

InterestTable(msg) == IF msg.interface = "NONE" THEN "Interest" ELSE msg.interface
Cached(msg) == [msg EXCEPT !.interface = IF @ = "NONE" THEN msg.type ELSE @]

(* The functions of ccnx_Interest find a getter in the table: in the one   *)
(* of an InterestReturn by its first member.                               *)
ServesAsInterest(msg) ==
    \/ InterestTable(msg) = "Interest"
    \/ InterestTable(msg) = "InterestReturn" /\ interestImpl

CreateInterest(m) ==
    /\ m \notin Live
    /\ message' = [message EXCEPT ![m] =
          [New("Interest", "Interest") EXCEPT !.named = TRUE, !.created = TRUE]]
    /\ UNCHANGED <<packet, interestImpl, misplaced>>

CreateContentObject(m) ==
    /\ m \notin Live
    /\ message' = [message EXCEPT ![m] =
          [New("ContentObject", "ContentObject") EXCEPT !.named = TRUE, !.created = TRUE]]
    /\ UNCHANGED <<packet, interestImpl, misplaced>>

(* The message must be served by the table of Interests, which it is as    *)
(* long as nobody used it as an InterestReturn.  The copy shares the packet*)
(* and takes over the regions.                                             *)
CreateInterestReturn_TableKept(m, interest, code) ==
    /\ m \notin Live /\ interest \in Live
    /\ message[interest].type \in {"Interest", "InterestReturn"}
    /\ InterestTable(message[interest]) = "Interest"
    /\ message' = [message EXCEPT ![m] =
          [message[interest] EXCEPT !.type = "InterestReturn", !.interface = "InterestReturn",
                                    !.code = code, !.created = TRUE, !.digest = NoDigest]]
    /\ UNCHANGED <<packet, interestImpl, misplaced>>
CreateInterestReturn(m, interest, code) ==
    /\ m \notin Live /\ interest \in Live
    /\ message[interest].type \in {"Interest", "InterestReturn"}
    /\ InterestTable(message[interest]) = "Interest"
    /\ interestImpl' = TRUE
    /\ message' = [message EXCEPT ![m] =
          [message[interest] EXCEPT !.type = "InterestReturn", !.interface = "InterestReturn",
                                    !.code = code, !.created = TRUE, !.digest = NoDigest]]
    /\ UNCHANGED <<packet, misplaced>>

(* ccnxWireFormatMessage_Create looks at the packet's type, wherever its   *)
(* position is; FromInterestPacketType... do not look.                     *)
FromWireFormat(m, p, type) ==
    /\ m \notin Live
    /\ IF IsBuffer(p)
       THEN type \in {"Interest", "ContentObject", TypeOf(packet[p].bytes[PACKETTYPE + 1])}
       ELSE type = "Interest"
    /\ message' = [message EXCEPT ![m] = [New(type, "NONE") EXCEPT !.wire = p]]
    /\ UNCHANGED <<packet, interestImpl, misplaced>>

(* PutWireFormatBuffer, PutIoVec: refused when there is one *)
PutWireFormat(m, p) ==
    /\ m \in Live /\ message[m].wire = NoPacket
    /\ message' = [message EXCEPT ![m].wire = p]
    /\ UNCHANGED <<packet, interestImpl, misplaced>>

(* ccnxCodecTlvPacket_BufferDecode, IoVecDecode: the return code, the name *)
(* and the regions are put, and what signs the packet, if anything does.   *)
(* Clients decode from the packet's first byte, into a message that has    *)
(* nothing but the packet.                                                 *)
Decoded(msg, p) ==
    LET End == Len(packet[p].bytes) - HeaderSize
        signer == packet[p].signer
        parsed == [msg EXCEPT !.named = TRUE, !.code = packet[p].bytes[RETURNCODE + 1],
                     !.region["ContentObjectHash"] = [start |-> HeaderSize, length |-> End]]
    IN IF signer = NoSigner THEN parsed
       ELSE [parsed EXCEPT
               !.region["Protected"] = [start |-> HeaderSize, length |-> MessageLength + AlgorithmLength],
               !.validation = [suite |-> "RSA_SHA256", keyId |-> signer, locator |-> signer, bits |-> signer]]

Decode(m) ==
    /\ HasWire(m) /\ Wire(m).position = 0
    /\ ~message[m].named /\ message[m].validation = NoValidation
    /\ message' = [message EXCEPT ![m] = Decoded(@, @.wire)]
    /\ UNCHANGED <<packet, interestImpl, misplaced>>

(* ccnxInterestReturn_GetReturnCode, the functions of ccnx_ContentObject:  *)
(* reading a message changes it.                                           *)
UseAsReturn(m) ==
    /\ m \in Live /\ message[m].type = "InterestReturn"
    /\ message[m].named /\ message[m].code # NoCode
    /\ message' = [message EXCEPT ![m] = Cached(@)]
    /\ UNCHANGED <<packet, interestImpl, misplaced>>

UseAsContentObject(m) ==
    /\ m \in Live /\ message[m].type = "ContentObject"
    /\ message' = [message EXCEPT ![m] = Cached(@)]
    /\ UNCHANGED <<packet, interestImpl, misplaced>>

Release(m) ==
    /\ m \in Live
    /\ message' = [message EXCEPT ![m] = NoMessage]
    /\ UNCHANGED <<packet, interestImpl, misplaced>>

----------------------------------------------------------------------------
(* The header.  In a buffer it is written at the position, in a vector at  *)
(* the start of the first piece, which must hold all of it.                *)

FixedHeader(p) == IF IsBuffer(p) THEN packet[p].position ELSE 0
HeaderInReach(p) == ~IsBuffer(p) => packet[p].pieces[1] >= HeaderSize

WritingHeader(p, bytes) ==
    /\ HeaderInReach(p)
    /\ packet' = [packet EXCEPT ![p].bytes = bytes]
    /\ misplaced' = [misplaced EXCEPT ![p] = @ \/ FixedHeader(p) # 0]
    /\ UNCHANGED <<message, interestImpl>>

SetHopLimit(m, hop) ==
    /\ HasWire(m)
    /\ LET p == message[m].wire
       IN WritingHeader(p, [packet[p].bytes EXCEPT ![FixedHeader(p) + HOPLIMIT + 1] = hop])

ConvertInterestToInterestReturn(m, code) ==
    /\ HasWire(m)
    /\ LET p == message[m].wire
       IN WritingHeader(p, [packet[p].bytes EXCEPT
             ![FixedHeader(p) + RETURNCODE + 1] = code,
             ![FixedHeader(p) + PACKETTYPE + 1] = TypeByte["InterestReturn"]])

(* A client reads from the buffer; writing it to a file reads the rest and *)
(* rewinds.                                                                *)
Read(p, position) ==
    /\ IsBuffer(p)
    /\ packet' = [packet EXCEPT ![p].position = position]
    /\ UNCHANGED <<message, interestImpl, misplaced>>

WriteToFile(m) ==
    /\ HasWire(m) /\ IsBuffer(message[m].wire)
    /\ packet' = [packet EXCEPT ![message[m].wire].position = 0]
    /\ UNCHANGED <<message, interestImpl, misplaced>>

----------------------------------------------------------------------------
(* Regions, and the hashes of them. *)

(* Integers: a second call replaces the first. *)
SetRegionStart(m, region, n) ==
    /\ m \in Live
    /\ message' = [message EXCEPT ![m].region[region].start = n]
    /\ UNCHANGED <<packet, interestImpl, misplaced>>

SetRegionLength(m, region, n) ==
    /\ m \in Live
    /\ message' = [message EXCEPT ![m].region[region].length = n]
    /\ UNCHANGED <<packet, interestImpl, misplaced>>

(* _hashProtectedRegionIoVec, one round: `start' moves on with what has    *)
(* been hashed.                                                            *)
HashedPiece_StartStays(acc, bytes, len, end) ==
    LET iovEnd == IF acc.iovStart + len > end THEN end ELSE acc.iovStart + len
    IN IF acc.iovStart <= acc.start /\ acc.start < iovEnd
       THEN [acc EXCEPT !.iovStart = @ + len,
                        !.hashed = @ \o SubSeq(bytes, acc.start + 1, iovEnd)]
       ELSE [acc EXCEPT !.iovStart = @ + len]
HashedPiece(acc, bytes, len, end) ==
    LET iovEnd == IF acc.iovStart + len > end THEN end ELSE acc.iovStart + len
    IN IF acc.iovStart <= acc.start /\ acc.start < iovEnd
       THEN [iovStart |-> acc.iovStart + len, start |-> iovEnd,
             hashed |-> acc.hashed \o SubSeq(bytes, acc.start + 1, iovEnd)]
       ELSE [acc EXCEPT !.iovStart = @ + len]

HashedOfPieces(bytes, pieces, start, length) ==
    LET loop[i \in 0..Len(pieces)] ==
            IF i = 0 THEN [iovStart |-> 0, start |-> start, hashed |-> <<>>]
            ELSE HashedPiece(loop[i - 1], bytes, pieces[i], start + length)
    IN loop[Len(pieces)].hashed

(* HashProtectedRegion, ComputeContentObjectHash.  A region that is not    *)
(* there, or does not fit into what is left from the position on, has no   *)
(* hash.  Hashing a buffer rewinds it.                                     *)
HashRegion(m, region) ==
    /\ HasWire(m)
    /\ region = "ContentObjectHash" => message[m].type = "ContentObject"
    /\ LET p == message[m].wire
           start == message[m].region[region].start
           length == message[m].region[region].length
           hashed == IF IsBuffer(p) THEN SubSeq(packet[p].bytes, start + 1, start + length)
                     ELSE HashedOfPieces(packet[p].bytes, packet[p].pieces, start, length)
           digest == IF Unset \in {start, length} THEN NoDigest
                     ELSE IF start + length > Len(packet[p].bytes) - packet[p].position THEN NoDigest
                     ELSE [start |-> start, length |-> length, bytes |-> hashed]
       IN /\ message' = [message EXCEPT ![m].digest = digest]
          /\ packet' = IF digest # NoDigest THEN [packet EXCEPT ![p].position = 0] ELSE packet
    /\ UNCHANGED <<interestImpl, misplaced>>

----------------------------------------------------------------------------
(* Signatures.  An integer is replaced, a value that is there is not. *)

FirstOf(there, value) == IF there = NoSigner THEN value ELSE there

(* The ..._Set of the algorithms: each takes what it has a use for.  A key *)
(* and a link to it, which have a place each, are one locator here.        *)
WithAlgorithm(v, suite, keyId, locator) ==
    [v EXCEPT !.suite = suite,
              !.keyId = IF suite = "CRC32C" THEN @ ELSE FirstOf(@, keyId),
              !.locator = IF suite \in {"RSA_SHA256", "EC_SECP_256K1"} THEN FirstOf(@, locator) ELSE @]

SetAlgorithm(m, suite, keyId, locator) ==
    /\ m \in Live
    /\ message' = [message EXCEPT ![m].validation = WithAlgorithm(@, suite, keyId, locator)]
    /\ UNCHANGED <<packet, interestImpl, misplaced>>

(* ccnxContentObject_SetSignature answers for the bits alone: whether key  *)
(* id and locator were put is not asked, and the suite is replaced before. *)
SetSignature_BitsReplaced(m, suite, keyId, locator, bits) ==
    /\ m \in Live /\ message[m].type = "ContentObject"
    /\ suite \in {"RSA_SHA256", "HMAC_SHA256"}
    /\ LET msg == Cached(message[m])
           v == WithAlgorithm(msg.validation, suite, keyId, locator)
           result == v.bits = NoSigner
       IN message' = [message EXCEPT ![m] =
             [msg EXCEPT !.validation = [v EXCEPT !.bits = bits],
                         !.accepted = IF result THEN [v EXCEPT !.bits = bits] ELSE @]]
    /\ UNCHANGED <<packet, interestImpl, misplaced>>
SetSignature(m, suite, keyId, locator, bits) ==
    /\ m \in Live /\ message[m].type = "ContentObject"
    /\ suite \in {"RSA_SHA256", "HMAC_SHA256"}
    /\ LET msg == Cached(message[m])
           v == WithAlgorithm(msg.validation, suite, keyId, locator)
           result == v.bits = NoSigner
       IN message' = [message EXCEPT ![m] =
             [msg EXCEPT !.validation = [v EXCEPT !.bits = FirstOf(@, bits)],
                         !.accepted = IF result THEN [v EXCEPT !.bits = bits] ELSE @]]
    /\ UNCHANGED <<packet, interestImpl, misplaced>>
----------------------------------------------------------------------------
ReceivedInit ==
    /\ message = [m \in Message |-> NoMessage]
    /\ packet \in [Packet -> {[bytes |-> c.bytes, pieces |-> c.pieces, signer |-> c.signer,
                               position |-> 0] : c \in PacketContent}]
    /\ interestImpl = FALSE
    /\ misplaced = [p \in Packet |-> FALSE]
    /\ calls = 0

Making(m) ==
    \/ CreateInterest(m) \/ CreateContentObject(m)
    \/ \E interest \in Message, code \in ReturnCode : CreateInterestReturn(m, interest, code)
    \/ \E p \in Packet, type \in DOMAIN TypeByte : FromWireFormat(m, p, type)

Using(m) ==
    \/ Decode(m) \/ UseAsReturn(m) \/ UseAsContentObject(m) \/ Release(m) \/ WriteToFile(m)
    \/ \E p \in Packet : PutWireFormat(m, p)
    \/ \E hop \in HopLimit : SetHopLimit(m, hop)
    \/ \E code \in ReturnCode : ConvertInterestToInterestReturn(m, code)
    \/ \E region \in Region :
          \/ \E n \in RegionStart : SetRegionStart(m, region, n)
          \/ \E n \in RegionLength : SetRegionLength(m, region, n)
          \/ HashRegion(m, region)

Signing(m) ==
    \E suite \in Suite, signer \in Signer :
        \E given \in {signer, NoSigner} :
            \/ SetAlgorithm(m, suite, given, given)
            \/ SetSignature(m, suite, given, given, signer)

ReceivedNext ==
    /\ calls < MaxCalls
    /\ calls' = calls + 1
    /\ \/ \E m \in Message : Making(m) \/ Using(m) \/ Signing(m)
       \/ \E p \in Packet, position \in Position : Read(p, position)

ReceivedSpec == ReceivedInit /\ [][ReceivedNext]_receivedVars
----------------------------------------------------------------------------
(* ccnx_InterestReturn.h:62-63, as far as it goes: an InterestReturn that  *)
(* a client made is served by the functions of ccnx_Interest to its end,   *)
(* and so is every message but those that arrived as InterestReturns, were *)
(* read as such, and met no InterestReturn made in the process before.     *)
ServedUnlessReceived ==
    \A m \in Live : message[m].type # "ContentObject" =>
        \/ ServesAsInterest(message[m])
        \/ /\ ~message[m].created /\ message[m].type = "InterestReturn"
           /\ message[m].interface # "NONE" /\ ~interestImpl

(* ccnx_WireFormatMessage.h:282: a hash is of the bytes between start and  *)
(* end however the packet is cut, and of the region behind the header it   *)
(* stays true whatever hop limits and return codes are written through     *)
(* this message or another one that shares the packet - as long as nobody  *)
(* had left the position elsewhere when they were.                         *)
HashesStand ==
    \A m \in Live :
        LET digest == message[m].digest
        IN digest # NoDigest =>
            /\ Len(digest.bytes) = digest.length
            /\ digest.start >= HeaderSize /\ ~misplaced[message[m].wire] =>
                  digest.bytes = SubSeq(Wire(m).bytes, digest.start + 1, digest.start + digest.length)

(* Of the calls of ccnxContentObject_SetSignature on a message at most one *)
(* is accepted, and what it left stays: bits, key id and locator, also     *)
(* through calls that are refused and algorithms that are set later.  Only *)
(* the suite may become another one.                                       *)
AcceptedSignatureStays ==
    \A m \in Live : message[m].accepted.bits # NoSigner =>
        LET v == message[m].validation
            accepted == message[m].accepted
        IN /\ v.bits = accepted.bits
           /\ accepted.keyId # NoSigner => v.keyId = accepted.keyId
           /\ accepted.locator # NoSigner => v.locator = accepted.locator

(* ccnx_InterestReturn.h:61-63: "it wraps and preserves the state of the   *)
(* provided CCNxInterest and can be used with CCNxInterest functions".     *)
ReturnsAreInterests ==
    \A m \in Live : message[m].type = "InterestReturn" => ServesAsInterest(message[m])
=============================================================================
