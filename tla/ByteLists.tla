----------------------------- MODULE ByteLists -----------------------------
(***************************************************************************)
(* What ccnxCodec_EncodingBuffer.h promises of an encoding buffer: it is   *)
(* an ordered list of PARCBuffers that reads as the concatenation of their *)
(* contents.  Here it is that concatenation and nothing else: a sequence   *)
(* of bytes, each named by its buffer and its place in it.  There are no   *)
(* arrays, no counts and no references.                                    *)
(*                                                                         *)
(* A list lasts until nobody needs it; `sent' is what an IOVec gathers.    *)
(***************************************************************************)
EXTENDS Integers, Sequences

CONSTANTS List, Buffer, lengthOf, IOVec, NoList, NoIOVec

VARIABLES content, sent, position

byteVars == <<content, sent, position>>

Exists == {l \in List : content[l] # NoList}

(* What the buffer holds from its position on. *)
BytesOf(b) == [i \in 1..(lengthOf[b] - position[b]) |-> <<b, position[b] + i - 1>>]

Become(l, bytes) == content' = [content EXCEPT ![l] = bytes]

New(l) ==
    /\ l \notin Exists
    /\ Become(l, <<>>)
    /\ UNCHANGED <<sent, position>>

InsertTail(l, b) ==
    /\ l \in Exists
    /\ Become(l, content[l] \o BytesOf(b))
    /\ UNCHANGED <<sent, position>>

InsertHead(l, b) ==
    /\ l \in Exists
    /\ Become(l, BytesOf(b) \o content[l])
    /\ UNCHANGED <<sent, position>>

(* A slice is the bytes of l in an interval that is not empty. *)
Cut(l, slice) ==
    /\ l \in Exists /\ slice \notin Exists
    /\ \E first, last \in DOMAIN content[l] :
          first <= last /\ Become(slice, SubSeq(content[l], first, last))
    /\ UNCHANGED <<sent, position>>

Gather(v, l) ==
    /\ l \in Exists /\ sent[v] = NoIOVec
    /\ sent' = [sent EXCEPT ![v] = content[l]]
    /\ UNCHANGED <<content, position>>

(* IOVecs and lists go when their last user goes. *)
Forget ==
    /\ \A l \in List : content'[l] \in {content[l], NoList}
    /\ \A v \in IOVec : sent'[v] \in {sent[v], NoIOVec}
    /\ DOMAIN content' = List /\ DOMAIN sent' = IOVec
    /\ UNCHANGED position

(* A reader moves the position of a buffer forward. *)
Read(b) ==
    /\ position[b] < lengthOf[b]
    /\ position' = [position EXCEPT ![b] = @ + 1]
    /\ UNCHANGED <<content, sent>>

ByteInit ==
    /\ content = [l \in List |-> NoList]
    /\ sent = [v \in IOVec |-> NoIOVec]
    /\ position = [b \in Buffer |-> 0]

ByteNext ==
    \/ \E l \in List : New(l)
    \/ \E l \in List, b \in Buffer : InsertTail(l, b) \/ InsertHead(l, b)
    \/ \E l, slice \in List : Cut(l, slice)
    \/ \E v \in IOVec, l \in List : Gather(v, l)
    \/ \E b \in Buffer : Read(b)
    \/ Forget

ByteSpec == ByteInit /\ [][ByteNext]_byteVars
=============================================================================
