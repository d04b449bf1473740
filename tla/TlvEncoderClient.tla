-------------------------- MODULE TlvEncoderClient --------------------------
(***************************************************************************)
(* Any client of the TLV encoder that closes the containers it opens, in   *)
(* whichever way: every order of the calls the codecs of schema_v1 make.   *)
(* Errors touch none of this and are left to PacketEncoder.                *)
(* The first HeaderSize bytes are the fixed header, as in                  *)
(* ccnxCodecSchemaV1_PacketEncoder.c.                                      *)
(***************************************************************************)
EXTENDS TlvEncoder

CONSTANTS Types,        \* types a client uses
          Octets,       \* bytes a client uses
          MaxValue,     \* bound on the length of a value
          MaxDepth,     \* bound on the containers open at a time
          MaxLimit      \* bound on the length of the packet

ASSUME ClientAssumption ==
    /\ Types \subseteq Nat /\ Octets \subseteq 0..(Base - 1)
    /\ MaxValue \in Nat /\ MaxDepth \in Nat /\ MaxLimit \in Nat

Values == UNION {[1..n -> Octets] : n \in 0..MaxValue}
Headers == [1..HeaderSize -> Octets]

Room(n) == position + n <= MaxLimit

ClientInit == TlvInit

ClientAppend ==
    \E type \in Types, value \in Values :
        /\ Room(TL + Len(value))
        /\ AppendTlv(type, value)

ClientAppendRaw ==
    \E value \in Values : Room(Len(value)) /\ AppendRaw(value)

ClientOpen ==
    \E type \in Types :
        /\ Room(TL) /\ Top <= MaxDepth
        /\ AppendContainer(type)

(* Encode marks the protected region between the sections of the packet. *)
ClientMarkStart == Top = 1 /\ MarkSignatureStart
ClientMarkEnd == Top = 1 /\ MarkSignatureEnd

ClientPatchHeader == \E header \in Headers : PatchHeader(header)

ClientNext ==
    \/ ClientAppend
    \/ ClientAppendRaw
    \/ ClientOpen
    \/ CloseMeasured
    \/ CloseCounted
    \/ CloseRewritten
    \/ CloseErased
    \/ ClientMarkStart
    \/ ClientMarkEnd
    \/ ClientPatchHeader
    \/ Finalize

ClientSpec == ClientInit /\ [][ClientNext]_tlvVars
=============================================================================
