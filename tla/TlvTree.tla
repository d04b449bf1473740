------------------------------ MODULE TlvTree ------------------------------
(***************************************************************************)
(* What ccnxCodec_TlvEncoder.h promises: a client builds a tree of TLVs    *)
(* from the outside in.  `frames' is the path from the packet (frames[1])  *)
(* to the innermost open container; a frame's value holds what was         *)
(* appended to it so far, closed containers included, each with the length *)
(* of its value in its header.  There are no positions and nothing is      *)
(* patched: a length is known when the container is closed.                *)
(***************************************************************************)
EXTENDS Integers, Sequences, SequencesExt

CONSTANTS Base,         \* number of values of a byte
          HeaderSize    \* bytes of the fixed header

VARIABLE frames

Top == Len(frames)

BigEndian(v) == <<(v \div Base) % Base, v % Base>>

Tlv(type, value) == BigEndian(type) \o BigEndian(Len(value)) \o value

TreeInit == frames = <<[type |-> 0, value |-> <<>>]>>

(* Bytes follow what the innermost container holds. *)
Extend ==
    /\ Len(frames') = Top
    /\ Front(frames') = Front(frames)
    /\ frames'[Top].type = frames[Top].type
    /\ IsPrefix(frames[Top].value, frames'[Top].value)

OpenContainer ==
    /\ Len(frames') = Top + 1
    /\ Front(frames') = frames
    /\ frames'[Top + 1].value = <<>>

CloseContainer ==
    /\ Top > 1
    /\ frames' = [Front(frames) EXCEPT ![Top - 1].value =
                    @ \o Tlv(frames[Top].type, frames[Top].value)]

(* An empty container may leave no trace. *)
DropContainer ==
    /\ Top > 1
    /\ frames[Top].value = <<>>
    /\ frames' = Front(frames)

SetHeader ==
    /\ Top = 1
    /\ Len(frames') = 1
    /\ Len(frames'[1].value) = Len(frames[1].value)
    /\ \A i \in (HeaderSize + 1)..Len(frames[1].value) :
          frames'[1].value[i] = frames[1].value[i]

TreeNext ==
    Extend \/ OpenContainer \/ CloseContainer \/ DropContainer \/ SetHeader

TreeSpec == TreeInit /\ [][TreeNext]_frames
=============================================================================
