----------------------------- MODULE TlvEncoder -----------------------------
(***************************************************************************)
(* ccnx/common/codec/ccnxCodec_TlvEncoder.c over a network buffer that is  *)
(* seen as what FlatBuffer promises: `content' is everything up to the     *)
(* buffer's limit and `position' its cursor (content[p + 1] is byte p).    *)
(*                                                                         *)
(* The encoder itself does not know about nesting.  Its clients remember,  *)
(* in local variables, where a container began and how many bytes they     *)
(* were told was appended to it; the stack of those variables is `open'    *)
(* (open[1] belongs to PacketEncoder_Encode, which adds up the length of   *)
(* the packet).  They close a container in different ways, each an action  *)
(* below: a length that is measured with Position, or counted from what    *)
(* the calls returned.                                                     *)
(*                                                                         *)
(* signatureStartEndSet is not a variable: a mark that was not set is      *)
(* NotMarked.  Lengths are size_t; a length field keeps the low 16 bits.   *)
(***************************************************************************)
EXTENDS Integers, Sequences, SequencesExt

CONSTANTS Base,         \* number of values of a byte: 256
          HeaderSize    \* bytes of the fixed header: 8

ASSUME EncoderAssumption == Base \in Nat \ {0, 1} /\ HeaderSize \in Nat

VARIABLES content, position, open, signatureStart, signatureEnd, error

tlvVars == <<content, position, open, signatureStart, signatureEnd, error>>

NotMarked == -1
NoError == "none"

(* Type, Length *)
Uint16(v) == <<(v \div Base) % Base, v % Base>>
TL == 4

Overlay(at, bytes) ==
    LET end == at + Len(bytes)
    IN [i \in 1..(IF end > Len(content) THEN end ELSE Len(content)) |->
          IF i \in (at + 1)..end THEN bytes[i - at] ELSE content[i]]

Top == Len(open)
Inner == open[Top].inner
Start == open[Top].start

(* What a call returned is added to the length of the innermost container. *)
Adding(frames, n) == [frames EXCEPT ![Len(frames)].inner = @ + n]

TlvInit ==
    /\ content = <<>>
    /\ position = 0
    /\ open = <<[type |-> 0, start |-> 0, inner |-> 0]>>
    /\ signatureStart = NotMarked
    /\ signatureEnd = NotMarked
    /\ error = NoError

----------------------------------------------------------------------------
(* The operations of the encoder *)

Put(bytes) ==
    /\ content' = Overlay(position, bytes)
    /\ position' = position + Len(bytes)

(* AppendRawArray *)
AppendRaw(bytes) ==
    /\ Put(bytes)
    /\ open' = Adding(open, Len(bytes))
    /\ UNCHANGED <<signatureStart, signatureEnd, error>>

(* AppendBuffer, AppendArray, and the integers with their bytes as value *)
AppendTlv_NoHeader(type, value) ==
    /\ Put(Uint16(type) \o Uint16(Len(value)) \o value)
    /\ open' = Adding(open, Len(value))
    /\ UNCHANGED <<signatureStart, signatureEnd, error>>
AppendTlv(type, value) ==
    /\ Put(Uint16(type) \o Uint16(Len(value)) \o value)
    /\ open' = Adding(open, TL + Len(value))
    /\ UNCHANGED <<signatureStart, signatureEnd, error>>

(* AppendContainer with length 0, by a client that will close it *)
AppendContainer_StartAfter(type) ==
    /\ Put(Uint16(type) \o Uint16(0))
    /\ open' = Append(open, [type |-> type, start |-> position + TL, inner |-> 0])
    /\ UNCHANGED <<signatureStart, signatureEnd, error>>
AppendContainer(type) ==
    /\ Put(Uint16(type) \o Uint16(0))
    /\ open' = Append(open, [type |-> type, start |-> position, inner |-> 0])
    /\ UNCHANGED <<signatureStart, signatureEnd, error>>

(* The n-th byte of v from the right; TLC's integers have four of them. *)
Weights == <<1, Base, Base * Base, Base * Base * Base>>
Digit(v, n) == IF n < Len(Weights) THEN (v \div Weights[n + 1]) % Base ELSE 0
Unsigned(v, width) == [i \in 1..width |-> Digit(v, width - i)]

(* ComputeVarIntLength *)
VarIntLength(v) ==
    CHOOSE n \in 1..8 : /\ \A k \in n..7 : Digit(v, k) = 0
                        /\ n > 1 => Digit(v, n - 1) # 0

(* SetContainerLength moves the cursor, stores two bytes and moves it back *)
LengthAt(at, n) == content' = Overlay(at + 2, Uint16(n))

MarkSignatureStart ==
    /\ signatureStart' = position
    /\ UNCHANGED <<content, position, open, signatureEnd, error>>

MarkSignatureEnd ==
    /\ signatureEnd' = position
    /\ UNCHANGED <<content, position, open, signatureStart, error>>

(* SetError keeps the first error. *)
SetError(e) ==
    /\ error' = IF error = NoError THEN e ELSE error
    /\ UNCHANGED <<content, position, open, signatureStart, signatureEnd>>

(* Finalize: the buffer ends at the cursor. *)
Finalize_KeepsTail == UNCHANGED tlvVars
Finalize ==
    /\ content' = SubSeq(content, 1, position)
    /\ UNCHANGED <<position, open, signatureStart, signatureEnd, error>>

----------------------------------------------------------------------------
(* How the codecs close a container *)

Closed(n) == open' = Adding(Front(open), n)

(* SetContainerLength, then the length is measured: messages, validation   *)
(* sections, links; _appendMetadata writes the type again, as it was.      *)
CloseMeasured_LengthOfContainer ==
    /\ Top > 1
    /\ LengthAt(Start, position - Start)
    /\ Closed(position - Start)
    /\ UNCHANGED <<position, signatureStart, signatureEnd, error>>
CloseMeasured ==
    /\ Top > 1
    /\ LengthAt(Start, Inner)
    /\ Closed(position - Start)
    /\ UNCHANGED <<position, signatureStart, signatureEnd, error>>

(* SetContainerLength, and the client adds the TL itself: names, the KeyId *)
(* and object hash restrictions.                                           *)
CloseCounted ==
    /\ Top > 1
    /\ LengthAt(Start, Inner)
    /\ Closed(Inner + TL)
    /\ UNCHANGED <<position, signatureStart, signatureEnd, error>>

(* The hash group's codec does not remember where the group began: it      *)
(* counts back from the end, and writes type and length there.             *)
CloseRewritten ==
    /\ Top > 1
    /\ content' = Overlay(position - Inner - TL,
                          Uint16(open[Top].type) \o Uint16(Inner))
    /\ Closed(Inner + TL)
    /\ UNCHANGED <<position, signatureStart, signatureEnd, error>>

(* An empty container is taken back: the cursor returns to its start and   *)
(* its four bytes stay in the buffer, behind the cursor.                   *)
CloseErased_KeepsPosition ==
    /\ Top > 1
    /\ Inner = 0
    /\ Closed(0)
    /\ UNCHANGED <<content, position, signatureStart, signatureEnd, error>>
CloseErased ==
    /\ Top > 1
    /\ Inner = 0
    /\ position' = Start
    /\ Closed(0)
    /\ UNCHANGED <<content, signatureStart, signatureEnd, error>>

(* The fixed header is written again at the start of the packet. *)
PatchHeader(bytes) ==
    /\ Top = 1
    /\ Len(bytes) = HeaderSize /\ HeaderSize <= Inner
    /\ content' = Overlay(Start, bytes)
    /\ UNCHANGED <<position, open, signatureStart, signatureEnd, error>>

----------------------------------------------------------------------------
(* Properties *)

BodyOf(k) == open[k].start + (IF k = 1 THEN 0 ELSE TL)
EndOf(k) == IF k = Top THEN position ELSE open[k + 1].start

(* The cursor and the containers lie in the buffer, a container that is    *)
(* open begins behind the one around it, and the marks of the protected    *)
(* region are in front of every open container.                            *)
TlvTypeOK ==
    /\ \A i \in DOMAIN content : content[i] \in 0..(Base - 1)
    /\ position \in 0..Len(content)
    /\ Top > 0
    /\ \A k \in 1..Top : BodyOf(k) \in 0..EndOf(k)
    /\ {signatureStart, signatureEnd} \subseteq {NotMarked} \cup 0..EndOf(1)

(* Whatever the calls of a client returned adds up to the bytes there are  *)
(* in the container, however its parts were closed: so the length counted  *)
(* and the length measured are one, and the check of Encode that the       *)
(* packet length equals the measured length cannot fail.                   *)
InnerLengthExact ==
    \A k \in 1..Top : open[k].inner = EndOf(k) - BodyOf(k)

(* The encoder builds a TLV tree (TlvTree): patching lengths and taking    *)
(* back containers reach exactly the bytes they are meant for.             *)
Tree == INSTANCE TlvTree WITH
    frames <- [k \in 1..Top |->
                 [type |-> open[k].type,
                  value |-> SubSeq(content, BodyOf(k) + 1, EndOf(k))]]
ImplementsTlvTree == Tree!TreeSpec
=============================================================================
