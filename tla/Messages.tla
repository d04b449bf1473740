------------------------------ MODULE Messages ------------------------------
(***************************************************************************)
(* The messages seen through their facades (internal/ccnx_*FacadeV1.c): an *)
(* Interest, an InterestReturn, a Content Object and a Manifest are all a  *)
(* dictionary, and a setter is a sequence of puts.  What makes them more   *)
(* than that is the objects their entries share: a name grows in place     *)
(* when a payload id is appended to it, and the fixed header of an         *)
(* attached packet is overwritten in place.                                *)
(*                                                                         *)
(* `segments' is the content of each name and `header' the three bytes of  *)
(* each packet that are ever changed.  `returns' are the dictionaries with *)
(* the interface of an InterestReturn.  `identified', `payloadTyped' and   *)
(* `setter' are history: the payload put together with its id, the type    *)
(* given with the payload, the message whose hop limit a packet was given. *)
(***************************************************************************)
EXTENDS TlvDictionary

CONSTANTS
    HopLimit,        \* hop limits clients set
    DefaultHopLimit, \* CCNxInterestDefault_HopLimit: not put into the dictionary
    ReturnCode,
    WireType,        \* packet types of the packets clients attach
    NoObject,        \* a NULL argument
    MaxIds           \* bound on the payload ids in a name

VARIABLES segments, header, returns, identified, payloadTyped, setter

contentVars == <<segments, header>>
historyVars == <<identified, payloadTyped, setter>>
messageVars == <<dictionaryVars, contentVars, returns, historyVars>>

Name == {o \in Object : kindOf[o] = "NAME"}
Packet == {o \in Object : kindOf[o] = "IOVEC"}
Hash == {o \in Object : kindOf[o] = "OBJECT"}
Payload == BufferObject

(* CCNxPayloadType; DATA is the type of a payload that has none. *)
PayloadType == {0, 1}
DATA == 0

(* The keys and types the facades use, and the values they put. *)
ASSUME MessageAssumption ==
    /\ {"Interest", "InterestReturn", "ContentObject", "Manifest"} \subseteq MessageType
    /\ {"NAME", "PAYLOAD", "PAYLOADTYPE", "HOPLIMIT", "KEYID_RESTRICTION",
        "RETURN_CODE", "WIRE"} \subseteq FastKey
    /\ "HASH_GROUPS" \in ListKey
    /\ 0..(MaxList - 1) \subseteq EntryKey
    /\ HopLimit \cup {DefaultHopLimit} \subseteq Nat /\ DefaultHopLimit < 256
    /\ HopLimit \cup {DefaultHopLimit} \cup ReturnCode \cup PayloadType \subseteq Integer
    /\ NoObject \notin Object

(* header->hopLimit is a byte. *)
Byte_Wide(n) == n
Byte(n) == n % 256

(* ccnxInterestPayloadId_CreateAsSHA256Hash: a segment that names the      *)
(* payload's bytes.                                                        *)
PayloadId(payload) == [id |-> contentOf[payload]]

HasEntry(d, key, kind) == dictionary[d].direct[key].kind = kind
IsOfType(d, types) == d \in Live /\ dictionary[d].type \in types

(* Puts that may fail, on a dictionary record. *)
WithValue(dict, key, o) ==
    IF IsUnset(dict, key) THEN WithEntry(dict, key, ValueEntry(o)) ELSE dict
WithOptional(dict, key, o) == IF o = NoObject THEN dict ELSE WithValue(dict, key, o)

(* One reference more to each object of S. *)
Acquiring(S) ==
    references' = [o \in Object |-> references[o] + Cardinality({o} \cap S)]

----------------------------------------------------------------------------
(* Creation.  A new message has no history: its release takes it away. *)

Created(d, dict) ==
    /\ d \notin Live
    /\ dictionary' = [dictionary EXCEPT ![d] = dict]
    /\ UNCHANGED <<held, contentVars, setter>>

(* ccnxInterest_Create: the defaults are not put, and the name is shared   *)
(* with the client, not copied.  The key id, which the facade wraps into a *)
(* hash object of its own, stands for both restrictions.                   *)
CreateInterest(d, name, hop, hash) ==
    /\ hash # NoObject => references[hash] = 0
    /\ LET named == WithEntry(EmptyDictionary("Interest"), "NAME", ValueEntry(name))
           limited == IF hop = DefaultHopLimit THEN named
                      ELSE WithInteger(named, "HOPLIMIT", hop)
       IN Created(d, WithOptional(limited, "KEYID_RESTRICTION", hash))
    /\ Acquiring({name, hash})
    /\ UNCHANGED <<returns, identified, payloadTyped>>

(* ccnxContentObject_CreateWithNameAndPayload, CreateWithPayload *)
CreateContentObject(d, name, type, payload) ==
    /\ LET named == WithOptional(EmptyDictionary("ContentObject"), "NAME", name)
           typed == IF type = DATA THEN named ELSE WithInteger(named, "PAYLOADTYPE", type)
       IN Created(d, WithOptional(typed, "PAYLOAD", payload))
    /\ Acquiring({name, payload})
    /\ payloadTyped' = [payloadTyped EXCEPT ![d] = type]
    /\ UNCHANGED <<returns, identified>>

CreateManifest(d, name) ==
    /\ Created(d, WithOptional(EmptyDictionary("Manifest"), "NAME", name))
    /\ Acquiring({name})
    /\ UNCHANGED <<returns, identified, payloadTyped>>

(* ccnxInterestReturn_Create: a shallow copy with a return code.  Made of  *)
(* an Interest only: what this function made carries another interface.    *)
CreateInterestReturn(d, interest, code) ==
    /\ IsOfType(interest, {"Interest", "InterestReturn"})
    /\ interest \notin returns
    /\ Created(d, WithInteger([Copied(dictionary[interest]) EXCEPT !.type = "InterestReturn"],
                              "RETURN_CODE", code))
    /\ references' = [o \in Object |-> references[o] + Cardinality(Places(dictionary[interest], o))]
    /\ returns' = returns \cup {d}
    /\ identified' = [identified EXCEPT ![d] = identified[interest]]
    /\ UNCHANGED payloadTyped

(* ccnxWireFormatMessage_Create goes by the packet's own type, the         *)
(* functions FromInterestPacketType... take it for what they are told.     *)
(* A packet is of any type and form here; the code has no Content Object   *)
(* over an IoVec.                                                          *)
FromWireFormat(d, packet, type) ==
    /\ type \in {"Interest", "ContentObject", header[packet].packetType}
    /\ Created(d, WithEntry(EmptyDictionary(type), "WIRE", ValueEntry(packet)))
    /\ Acquiring({packet})
    /\ UNCHANGED <<returns, identified, payloadTyped>>

(* The dictionary's count; history forgets what is no longer there. *)
ReleaseMessage(d) ==
    /\ Release(d)
    /\ IF d \in Live'
       THEN UNCHANGED <<returns, historyVars>>
       ELSE /\ returns' = returns \ {d}
            /\ identified' = [identified EXCEPT ![d] = NoObject]
            /\ payloadTyped' = [payloadTyped EXCEPT ![d] = DATA]
            /\ setter' = [p \in Packet |-> IF setter[p] = d THEN NoDictionary ELSE setter[p]]
    /\ UNCHANGED contentVars
----------------------------------------------------------------------------
(* Setters of an Interest. *)

(* A setter that puts one value into one message. *)
Putting(d, key, o) ==
    /\ dictionary' = [dictionary EXCEPT ![d] = WithValue(@, key, o)]
    /\ IF IsUnset(dictionary[d], key) THEN Acquiring({o}) ELSE UNCHANGED references
    /\ UNCHANGED held

(* ccnxInterest_SetPayload, SetPayloadAndId (an id made of the payload) and *)
(* SetPayloadWithId: the id is appended to the Interest's own name object  *)
(* whether or not the payload was put.                                     *)
SetPayloadWithId_CopiedName(d, payload, id) ==
    /\ IsOfType(d, {"Interest", "InterestReturn"})
    /\ HasEntry(d, "NAME", "NAME")
    /\ Putting(d, "PAYLOAD", payload)
    /\ identified' = IF IsUnset(dictionary[d], "PAYLOAD") /\ id = PayloadId(payload)
                     THEN [identified EXCEPT ![d] = payload] ELSE identified
    /\ UNCHANGED <<contentVars, returns, payloadTyped, setter>>
SetPayloadWithId(d, payload, id) ==
    /\ IsOfType(d, {"Interest", "InterestReturn"})
    /\ HasEntry(d, "NAME", "NAME")
    /\ Putting(d, "PAYLOAD", payload)
    /\ LET name == dictionary[d].direct["NAME"].value
       IN /\ Len(segments[name]) < MaxIds
          /\ segments' = [segments EXCEPT ![name] = Append(@, id)]
    /\ identified' = IF IsUnset(dictionary[d], "PAYLOAD") /\ id = PayloadId(payload)
                     THEN [identified EXCEPT ![d] = payload] ELSE identified
    /\ UNCHANGED <<header, returns, payloadTyped, setter>>

SetPayload(d, payload) ==
    /\ IsOfType(d, {"Interest", "InterestReturn"})
    /\ Putting(d, "PAYLOAD", payload)
    /\ UNCHANGED <<contentVars, returns, historyVars>>

(* ccnxInterest_SetKeyIdRestriction: the hash object it creates is dropped *)
(* again when there is one already.                                        *)
SetKeyIdRestriction_NotReleased(d, hash) ==
    /\ IsOfType(d, {"Interest", "InterestReturn"})
    /\ references[hash] = 0
    /\ dictionary' = [dictionary EXCEPT ![d] = WithValue(@, "KEYID_RESTRICTION", hash)]
    /\ Acquiring({hash})
    /\ UNCHANGED <<held, contentVars, returns, historyVars>>
SetKeyIdRestriction(d, hash) ==
    /\ IsOfType(d, {"Interest", "InterestReturn"})
    /\ references[hash] = 0
    /\ Putting(d, "KEYID_RESTRICTION", hash)
    /\ UNCHANGED <<contentVars, returns, historyVars>>

(* ccnxInterest_SetHopLimit: into the dictionary, then into the header of  *)
(* the attached packet.                                                    *)
SetHopLimit_DictionaryOnly(d, hop) ==
    /\ IsOfType(d, {"Interest", "InterestReturn"})
    /\ dictionary' = [dictionary EXCEPT ![d] = WithInteger(@, "HOPLIMIT", hop)]
    /\ setter' = [p \in Packet |->
          IF dictionary[d].direct["WIRE"] = ValueEntry(p) THEN d ELSE setter[p]]
    /\ UNCHANGED <<objectVars, contentVars, returns, identified, payloadTyped>>
SetHopLimit(d, hop) ==
    /\ IsOfType(d, {"Interest", "InterestReturn"})
    /\ dictionary' = [dictionary EXCEPT ![d] = WithInteger(@, "HOPLIMIT", hop)]
    /\ IF HasEntry(d, "WIRE", "IOVEC")
       THEN LET packet == dictionary[d].direct["WIRE"].value
            IN /\ header' = [header EXCEPT ![packet].hopLimit = Byte(hop)]
               /\ setter' = [setter EXCEPT ![packet] = d]
       ELSE UNCHANGED <<header, setter>>
    /\ UNCHANGED <<objectVars, segments, returns, identified, payloadTyped>>

----------------------------------------------------------------------------
(* The packet attached to a message. *)

PutWireFormat(d, packet) ==
    /\ d \in Live
    /\ Putting(d, "WIRE", packet)
    /\ UNCHANGED <<contentVars, returns, historyVars>>

(* ccnxWireFormatMessage_SetHopLimit, ConvertInterestToInterestReturn: the *)
(* bytes change, the dictionary does not.                                  *)
WireSetHopLimit(d, hop) ==
    /\ d \in Live /\ HasEntry(d, "WIRE", "IOVEC")
    /\ LET packet == dictionary[d].direct["WIRE"].value
       IN /\ header' = [header EXCEPT ![packet].hopLimit = Byte(hop)]
          /\ setter' = [setter EXCEPT ![packet] = NoDictionary]
    /\ UNCHANGED <<dictionaryVars, segments, returns, identified, payloadTyped>>

ConvertInterestToInterestReturn(d, code) ==
    /\ d \in Live /\ HasEntry(d, "WIRE", "IOVEC")
    /\ LET packet == dictionary[d].direct["WIRE"].value
       IN header' = [header EXCEPT ![packet].packetType = "InterestReturn",
                                   ![packet].returnCode = code]
    /\ UNCHANGED <<dictionaryVars, segments, returns, historyVars>>

----------------------------------------------------------------------------
(* Setters of a Content Object and a Manifest. *)

GetPayloadType(dict) ==
    IF dict.direct["PAYLOADTYPE"].kind = "INTEGER"
    THEN dict.direct["PAYLOADTYPE"].integer ELSE DATA

(* The type is changed only with the payload. *)
SetContentPayload_TypeFirst(d, type, payload) ==
    /\ IsOfType(d, {"ContentObject"})
    /\ dictionary' = [dictionary EXCEPT ![d] =
          WithValue(WithInteger(@, "PAYLOADTYPE", type), "PAYLOAD", payload)]
    /\ IF IsUnset(dictionary[d], "PAYLOAD")
       THEN Acquiring({payload}) /\ payloadTyped' = [payloadTyped EXCEPT ![d] = type]
       ELSE UNCHANGED <<references, payloadTyped>>
    /\ UNCHANGED <<held, contentVars, returns, identified, setter>>
SetContentPayload(d, type, payload) ==
    /\ IsOfType(d, {"ContentObject"})
    /\ IF IsUnset(dictionary[d], "PAYLOAD")
       THEN /\ dictionary' = [dictionary EXCEPT ![d] =
                  LET put == WithValue(@, "PAYLOAD", payload)
                  IN IF GetPayloadType(put) # type
                     THEN WithInteger(put, "PAYLOADTYPE", type) ELSE put]
            /\ Acquiring({payload})
            /\ payloadTyped' = [payloadTyped EXCEPT ![d] = type]
       ELSE UNCHANGED <<dictionary, references, payloadTyped>>
    /\ UNCHANGED <<held, contentVars, returns, identified, setter>>

(* ccnxManifest_AddHashGroup: a new buffer with the group's JSON, numbered *)
(* by the groups there are.                                                *)
AddHashGroup(d, group) ==
    /\ IsOfType(d, {"Manifest"})
    /\ Len(dictionary[d].lists["HASH_GROUPS"]) < MaxList
    /\ references[group] = 0
    /\ dictionary' = [dictionary EXCEPT ![d] =
          WithListBuffer(@, "HASH_GROUPS", Len(@.lists["HASH_GROUPS"]), group)]
    /\ Acquiring({group})
    /\ UNCHANGED <<held, contentVars, returns, historyVars>>

----------------------------------------------------------------------------
(* The client keeps the names, payloads and packets it uses; the hash      *)
(* objects and the buffers of hash groups are made by the facades.         *)
MadeByFacade == Hash \cup {o \in Payload : contentOf[o] = "hash group"}
Given == Payload \ MadeByFacade

MessageInit ==
    /\ dictionary = [d \in Dictionary |-> NoDictionary]
    /\ held = [o \in Object |-> IF o \in MadeByFacade THEN 0 ELSE 1]
    /\ references = held
    /\ segments = [name \in Name |-> <<>>]
    /\ header \in [Packet -> [packetType : WireType,
                              hopLimit : {DefaultHopLimit}, returnCode : {0}]]
    /\ returns = {}
    /\ identified = [d \in Dictionary |-> NoObject]
    /\ payloadTyped = [d \in Dictionary |-> DATA]
    /\ setter = [packet \in Packet |-> NoDictionary]

Creating(d) ==
    \/ \E name \in Name, hop \in HopLimit \cup {DefaultHopLimit}, hash \in Hash \cup {NoObject} :
          CreateInterest(d, name, hop, hash)
    \/ \E name \in Name \cup {NoObject}, type \in PayloadType, payload \in Given \cup {NoObject} :
          CreateContentObject(d, name, type, payload)
    \/ \E name \in Name \cup {NoObject} : CreateManifest(d, name)
    \/ \E interest \in Dictionary, code \in ReturnCode : CreateInterestReturn(d, interest, code)
    \/ \E packet \in Packet, type \in MessageType : FromWireFormat(d, packet, type)

Setting(d) ==
    \/ \E payload \in Given :
          \/ SetPayload(d, payload)
          \/ \E other \in Given : SetPayloadWithId(d, payload, PayloadId(other))
          \/ \E type \in PayloadType : SetContentPayload(d, type, payload)
    \/ \E hash \in Hash : SetKeyIdRestriction(d, hash)
    \/ \E hop \in HopLimit : SetHopLimit(d, hop) \/ WireSetHopLimit(d, hop)
    \/ \E packet \in Packet : PutWireFormat(d, packet)
    \/ \E code \in ReturnCode : ConvertInterestToInterestReturn(d, code)
    \/ \E group \in Payload \ Given : AddHashGroup(d, group)

MessageNext == \E d \in Dictionary : Creating(d) \/ Setting(d) \/ ReleaseMessage(d)

MessageSpec == MessageInit /\ [][MessageNext]_messageVars

----------------------------------------------------------------------------
(* History speaks of messages that are there, and of objects that can be   *)
(* what it says.                                                           *)
MessageTypeOK ==
    /\ DictionaryTypeOK
    /\ segments \in [Name -> Seq({PayloadId(payload) : payload \in Given})]
    /\ \A packet \in Packet : header[packet].hopLimit \in 0..255
    /\ \A packet \in Packet : setter[packet] \in Live \cup {NoDictionary}
    /\ \A d \in returns : IsOfType(d, {"InterestReturn"})

(* ccnx_Interest.h:698-699: an Interest whose payload was put together     *)
(* with its id, and every InterestReturn made of it, has that payload, and *)
(* a name in which the id of the payload can be found - although the name  *)
(* is shared and other messages append to it.                              *)
IdentifiedByName ==
    \A d \in Live : identified[d] # NoObject =>
        /\ dictionary[d].direct["PAYLOAD"] = ValueEntry(identified[d])
        /\ HasEntry(d, "NAME", "NAME")
        /\ PayloadId(identified[d]) \in ToSet(segments[dictionary[d].direct["NAME"].value])

(* A Content Object's payload is of the type that was given with it, also  *)
(* after attempts to replace either.                                       *)
PayloadTypeBelongs ==
    \A d \in Live :
        IsOfType(d, {"ContentObject"}) /\ ~IsUnset(dictionary[d], "PAYLOAD")
            => GetPayloadType(dictionary[d]) = payloadTyped[d]

(* ccnx_Interest.c:375: after ccnxInterest_SetHopLimit the packet has the  *)
(* low byte of the dictionary's hop limit, until another message that      *)
(* shares the packet, or the wire format interface, sets it.               *)
HopLimitInSync ==
    \A packet \in Packet : setter[packet] # NoDictionary =>
        LET limit == dictionary[setter[packet]].direct["HOPLIMIT"]
        IN limit.kind = "INTEGER" /\ header[packet].hopLimit = Byte(limit.integer)
=============================================================================
