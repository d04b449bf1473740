--------------------------- MODULE MCPacketCodec ---------------------------
(***************************************************************************)
(* Messages of each type: the mandatory fields alone, each other field by  *)
(* itself in each form it may have, all of them together, and with each    *)
(* way of being signed.                                                    *)
(***************************************************************************)
EXTENDS PacketCodec

MCSigners == {[algorithm |-> "RSA", hash |-> "SHA256", bits |-> <<9, 9>>],
              [algorithm |-> "NULL", hash |-> "CRC32C", bits |-> <<3>>],
              [algorithm |-> "RSA", hash |-> "SHA512", bits |-> <<9>>]}

Integer(v) == Entry("integer", v)
Buffer(bytes) == Entry("buffer", bytes)
Element(type, value) == [type |-> type, value |-> value]
Filled(n) == [i \in 1..n |-> 7]
Digest(type, n) == Entry("hash", [type |-> type, digest |-> Filled(n)])

(* Two segments, the second without a byte; and the name without a segment *)
ANewName == Entry("name", <<Element(1, <<1>>), Element(16, <<>>)>>)
TheEmptyName == Entry("name", <<>>)

(* Header lengths of 8 + 4 + 243 = 255 and of 256 *)
HeaderFields ==
    {<<"headers", <<Element(9, <<1>>), Element(8, <<>>)>>>>,
     <<"headers", <<Element(9, Filled(243))>>>>,
     <<"headers", <<Element(9, Filled(244))>>>>}
InterestFields ==
    HeaderFields \cup
    {<<"hopLimit", Integer(0)>>, <<"hopLimit", Integer(257)>>,
     <<"intFrag", Buffer(<<5>>)>>,
     <<"lifetime", Integer(256)>>, <<"lifetime", Buffer(<<0, 1>>)>>,
     <<"keyIdRestriction", Digest("SHA256", 32)>>,
     <<"keyIdRestriction", Digest("App", 1)>>,
     <<"objHashRestriction", Digest("SHA512", 64)>>,
     <<"objHashRestriction", Digest("SHA256", 31)>>,
     <<"payload", Buffer(<<>>)>>,
     <<"custom", <<Element(100, <<2>>), Element(101, <<3>>)>>>>}
ContentObjectFields ==
    HeaderFields \cup
    {<<"objFrag", Buffer(<<5>>)>>,
     <<"cacheTime", Integer(0)>>, <<"cacheTime", Buffer(<<1>>)>>,
     <<"name", ANewName>>,
     <<"payloadType", Integer("LINK")>>, <<"payloadType", Integer("DATA")>>,
     <<"payloadType", Integer("MANIFEST")>>, <<"payloadType", Buffer(<<1>>)>>,
     <<"expiryTime", Integer(65536)>>, <<"expiryTime", Buffer(<<4>>)>>,
     <<"endChunk", Integer(255)>>, <<"endChunk", Buffer(<<0>>)>>,
     <<"payload", Buffer(<<1, 2>>)>>,
     <<"custom", <<Element(100, <<2>>), Element(101, <<3>>)>>>>}
KeyFields ==
    {<<"keyId", Buffer(<<1>>)>>, <<"publicKey", Buffer(<<2>>)>>,
     <<"certificate", Buffer(<<3>>)>>, <<"keyNameKeyId", Buffer(<<5>>)>>,
     <<"keyNameHash", Buffer(<<6>>)>>, <<"keyName", ANewName>>,
     <<"sigTime", Integer(7)>>, <<"sigPayload", Buffer(<<8, 8>>)>>,
     <<"sigPayload", Buffer(<<>>)>>}

With(d, fields) == {d @@ (field[1] :> field[2]) : field \in fields}

(* One field of each kind *)
All(d, fields) ==
    LET OneOf(key) == (CHOOSE field \in fields : field[1] = key)[2]
    IN d @@ [key \in {field[1] : field \in fields} |-> OneOf(key)]

AnInterest == [type |-> "Interest", name |-> ANewName]
AContentObject == "type" :> "ContentObject"
AManifest == [type |-> "Manifest", name |-> TheEmptyName]
AControl == "type" :> "Control"

Pointers == <<[type |-> "Manifest", digest |-> <<1>>], [type |-> "Data", digest |-> <<2>>]>>
AGroup == [locator |-> <<>>, dataSize |-> 0, blockSize |-> 0, entrySize |-> 0,
           treeHeight |-> 0, digest |-> <<>>, pointers |-> Pointers]
FullGroup == [locator |-> <<6>>, dataSize |-> 300, blockSize |-> 2, entrySize |-> 3,
              treeHeight |-> 4, digest |-> <<5>>, pointers |-> <<>>]
TallGroup == [AGroup EXCEPT !.treeHeight = 1]

Keyed(d) == {d} \cup With(d, KeyFields)
            \cup {All(d, {f \in KeyFields : f[1] \notin {"keyName", "sigPayload"}}),
                  All(d, {f \in KeyFields : f[1] # "sigTime" /\ f # <<"sigPayload", Buffer(<<>>)>>}),
                  All(d, KeyFields)}

MCInterests ==
    {AnInterest, "type" :> "Interest", All(AnInterest, InterestFields \ HeaderFields)}
    \cup With(AnInterest, InterestFields)
    \cup Keyed(AnInterest @@ ("cryptoSuite" :> Integer("HMAC_SHA256")))
MCContentObjects ==
    {AContentObject, All(AContentObject, ContentObjectFields \ HeaderFields)}
    \cup With(AContentObject, ContentObjectFields)
    \cup Keyed(AContentObject)
    \cup Keyed(AContentObject @@ ("cryptoSuite" :> Integer("RSA_SHA256")))
    \cup {AContentObject @@ ("cryptoSuite" :> Integer("RSA_SHA512"))}
MCManifests ==
    With(AManifest, {<<"hashGroups", <<AGroup>>>>, <<"hashGroups", <<AGroup, FullGroup>>>>,
                     <<"cacheTime", Integer(2)>>})
    \cup {"type" :> "Manifest"}
MCOthers ==
    With(AControl, {<<"payload", Entry("json", <<123, 125>>)>>,
                    <<"payload", Buffer(<<123, 125>>)>>})
    \cup {[type |-> "InterestReturn", name |-> ANewName, returnCode |-> Integer(2)],
          "type" :> "Control", "type" :> "Unknown"}

(* Messages made with the facades: by a Create, and then by setters, also  *)
(* of what is there already. *)
AName == <<Element(1, <<1>>)>>
AKeyId == Filled(32)
CreatedInterests ==
    {CreateInterest(AName, lifetime, keyIds, {}, hop) :
        lifetime \in {DefaultLifetime, 0, 4000}, keyIds \in {{}, {AKeyId}}, hop \in {DefaultHopLimit, 257}}
    \cup {CreateInterest(AName, DefaultLifetime, {}, {digest}, 1) : digest \in {Filled(31), AKeyId}}
MadeInterests ==
    LET d == CreateInterest(AName, 4000, {}, {}, 0)
        carrying == SetPayloadAndId(d, <<1, 2>>)
        own == [type |-> PAYLOADID, value |-> <<0, 4>>]
    IN CreatedInterests
       \cup {carrying, SetPayloadAndId(carrying, <<3>>), SetInterestPayload(carrying, <<3>>),
             SetPayloadWithId(SetInterestPayload(d, <<>>), <<5>>, own),
             SetLifetime(d, DefaultLifetime), SetHopLimit(carrying, DefaultHopLimit),
             SetKeyIdRestriction(d, AKeyId), SetContentObjectHashRestriction(d, AKeyId),
             PutList(PutList(carrying, "headers", 9, <<1>>), "headers", 9, <<2>>)}

MadeContentObjects ==
    LET d == CreateContentObject({AName}, "DATA", {})
        typed == {CreateContentObject({}, type, payloads) :
                    type \in {"KEY", "MANIFEST"}, payloads \in {{}, {<<1>>}}}
    IN typed \cup {SetContentPayload(o, "LINK", <<2>>) : o \in typed \cup {d}}
       \cup {SetExpiryTime(SetFinalChunkNumber(d, 256), 65535),
             SetFinalChunkNumber(SetFinalChunkNumber(d, 1), 0)}

Locked(d) ==
    LET suited == SetCryptoSuite(SetCryptoSuite(d, "HMAC_SHA256"), "RSA_SHA256")
        link == Link(AName, {<<1>>}, {<<2>>})
        unkeyed == Link(<<>>, {}, {<<2>>})
    IN {SetValidationPayload(o, <<9>>) :
          o \in {SetKeyName(suited, link), SetKeyName(SetKeyName(suited, unkeyed), link),
                 SetKeyName(SetKeyLocatorLink(suited, link), link),
                 SetPublicKey(SetKeyLocatorKey(suited, <<3>>), <<4>>),
                 SetSigningTime(SetCertificate(SetKeyId(suited, <<5>>), <<6>>), 8)}}

MadeMessages ==
    MadeInterests \cup MadeContentObjects
    \cup Locked(CreateInterest(AName, 4000, {}, {}, 0)) \cup Locked(CreateContentObject({}, "KEY", {<<1>>}))

MCDictionaries == MCInterests \cup MCContentObjects \cup MCManifests \cup MCOthers
                  \cup MadeMessages

SignedDictionaries == {AContentObject}
NamedKeyDictionaries == {AContentObject @@ ("keyName" :> ANewName)}
TallManifests == {AManifest @@ ("hashGroups" :> <<TallGroup>>)}
=============================================================================
