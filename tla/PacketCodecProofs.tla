------------------------- MODULE PacketCodecProofs -------------------------
(***************************************************************************)
(* Proofs about TlvEncoderClient and about PacketCodec, for every value of *)
(* their constants, in three parts.                                        *)
(*                                                                         *)
(* The TLV encoder: every step changes the position and the open           *)
(* containers in one of four ways: the innermost container grows, a        *)
(* container is opened behind it, the innermost container is closed into   *)
(* the one around it, or neither changes.  One lemma for each of the first *)
(* three.                                                                  *)
(*                                                                         *)
(* The packet decoder: a cursor stays in its packet and a dictionary typed *)
(* (Cursor, IsDictionary), through every decoder; what a loop keeps is     *)
(* Iteration's.                                                            *)
(*                                                                         *)
(* The packet encoder: what Encode is going to call closes what it opens   *)
(* (Runs), and what the calls make is a function of the dictionary and the *)
(* signer (After), but for the time.                                       *)
(***************************************************************************)
EXTENDS PacketCodec, TlvEncoderClient, SequenceTheorems, WellFoundedInduction,
        NaturalsInduction, TLAPS

Byte == 0..(Base - 1)
Frame == [type : Nat, start : Nat, inner : Nat]

(* Containers nest, and the lengths counted are the bytes there are. *)
Nested ==
    /\ position \in Nat
    /\ open \in Seq(Frame)
    /\ Len(open) > 0
    /\ open[1].start = 0
    /\ \A k \in 1..Top : BodyOf(k) \in 0..EndOf(k)
    /\ InnerLengthExact

(* The buffer reaches the cursor, and the marks are in front of everything *)
(* that is open.                                                           *)
Marks == {NotMarked} \cup 0..EndOf(1)
Buffered ==
    /\ content \in Seq(Byte)
    /\ position <= Len(content)
    /\ signatureStart \in Marks
    /\ signatureEnd \in Marks

EncoderInv == Nested /\ Buffered

----------------------------------------------------------------------------
(* The change of position and open in a step *)

Grows(n) == position' = position + n /\ open' = Adding(open, n)

Opens(type) ==
    /\ position' = position + TL
    /\ open' = Append(open, [type |-> type, start |-> position, inner |-> 0])

Closes(n) ==
    /\ Top > 1
    /\ open' = Adding(Front(open), n)
    /\ position' = Start + n

LEMMA AddingShape ==
    ASSUME NEW s \in Seq(Frame), Len(s) > 0, NEW n \in Nat
    PROVE  /\ Adding(s, n) \in Seq(Frame)
           /\ Len(Adding(s, n)) = Len(s)
           /\ \A k \in 1..Len(s) :
                 /\ Adding(s, n)[k].type = s[k].type
                 /\ Adding(s, n)[k].start = s[k].start
                 /\ Adding(s, n)[k].inner =
                      IF k = Len(s) THEN s[k].inner + n ELSE s[k].inner
<1> DEFINE t == Len(s)
           last == [s[t] EXCEPT !.inner = @ + n]
<1>1. t \in Nat /\ t \in 1..t /\ s[t] \in Frame
  OBVIOUS
<1>2. /\ last \in Frame
      /\ last.type = s[t].type
      /\ last.start = s[t].start /\ last.inner = s[t].inner + n
  BY <1>1 DEF Frame
<1>3. Adding(s, n) = [s EXCEPT ![t] = last]
  BY DEF Adding
<1> HIDE DEF last
<1>4. [s EXCEPT ![t] = last] \in Seq(Frame)
  BY <1>1, <1>2
<1>5. /\ Len([s EXCEPT ![t] = last]) = t
      /\ \A k \in 1..t : [s EXCEPT ![t] = last][k] = IF k = t THEN last ELSE s[k]
  BY <1>1
<1> QED
  BY <1>2, <1>3, <1>4, <1>5

LEMMA NestedFacts ==
    ASSUME Nested
    PROVE  /\ Len(open) \in Nat /\ Len(open) \in 1..Len(open)
           /\ position \in Nat
           /\ \A k \in 1..Len(open) :
                 /\ open[k].start \in Nat /\ open[k].inner \in Nat
                 /\ BodyOf(k) \in Nat /\ EndOf(k) \in Nat
                 /\ BodyOf(k) <= EndOf(k)
                 /\ open[k].inner = EndOf(k) - BodyOf(k)
<1>1. /\ open \in Seq(Frame) /\ position \in Nat
      /\ Len(open) \in Nat /\ Len(open) \in 1..Len(open)
  BY DEF Nested
<1>2. \A k \in 1..Len(open) : open[k].start \in Nat /\ open[k].inner \in Nat
  <2>1. \A k \in 1..Len(open) : open[k] \in Frame
    BY <1>1
  <2> QED
    BY <2>1 DEF Frame
<1>3. \A k \in 1..Len(open) : EndOf(k) \in Nat
  <2> TAKE k \in 1..Len(open)
  <2>1. CASE k = Len(open)
    BY <1>1, <2>1 DEF EndOf, Top
  <2>2. CASE k # Len(open)
    <3>1. k + 1 \in 1..Len(open)
      BY <1>1, <2>2
    <3> QED
      BY <1>2, <2>2, <3>1 DEF EndOf, Top
  <2> QED
    BY <2>1, <2>2
<1>4. \A k \in 1..Len(open) : BodyOf(k) \in Nat
  BY <1>2 DEF BodyOf, TL
<1>5. \A k \in 1..Len(open) : /\ BodyOf(k) <= EndOf(k)
                              /\ open[k].inner = EndOf(k) - BodyOf(k)
  BY <1>3 DEF Nested, InnerLengthExact, Top
<1> QED
  BY <1>1, <1>2, <1>3, <1>4, <1>5

LEMMA GrowsKeepsNested ==
    ASSUME Nested, NEW n \in Nat, Grows(n)
    PROVE  Nested' /\ EndOf(1) <= EndOf(1)'
<1> DEFINE t == Len(open)
<1>1. open \in Seq(Frame) /\ t > 0 /\ open[1].start = 0
  BY DEF Nested
<1>2. /\ open' \in Seq(Frame) /\ Len(open') = t
      /\ \A k \in 1..t : /\ open'[k].start = open[k].start
                         /\ open'[k].inner =
                              IF k = t THEN open[k].inner + n ELSE open[k].inner
  BY <1>1, AddingShape DEF Grows
<1>3. position' = position + n
  BY DEF Grows
<1>4. \A k \in 1..t : BodyOf(k)' = BodyOf(k)
  BY <1>2 DEF BodyOf
<1>5. \A k \in 1..t : EndOf(k)' = IF k = t THEN EndOf(k) + n ELSE EndOf(k)
  <2> TAKE k \in 1..t
  <2>1. CASE k = t
    BY <1>2, <1>3, <2>1 DEF EndOf, Top
  <2>2. CASE k # t
    <3>1. k + 1 \in 1..t
      BY <1>1, <2>2
    <3> QED
      BY <1>2, <2>2, <3>1 DEF EndOf, Top
  <2> QED
    BY <2>1, <2>2
<1>6. \A k \in 1..t : /\ BodyOf(k)' \in 0..EndOf(k)'
                     /\ open'[k].inner = EndOf(k)' - BodyOf(k)'
  <2> TAKE k \in 1..t
  <2>1. /\ open[k].inner \in Nat /\ BodyOf(k) \in Nat /\ EndOf(k) \in Nat
        /\ BodyOf(k) <= EndOf(k) /\ open[k].inner = EndOf(k) - BodyOf(k)
    BY NestedFacts
  <2>2. CASE k = t
    BY <1>2, <1>4, <1>5, <2>1, <2>2
  <2>3. CASE k # t
    BY <1>2, <1>4, <1>5, <2>1, <2>3
  <2> QED
    BY <2>2, <2>3
<1>7. position' \in Nat /\ open'[1].start = 0 /\ EndOf(1) <= EndOf(1)'
  <2>1. 1 \in 1..t /\ EndOf(1) \in Nat /\ position \in Nat
    BY NestedFacts
  <2>2. EndOf(1)' = EndOf(1) + n \/ EndOf(1)' = EndOf(1)
    BY <1>5, <2>1
  <2> QED
    BY <1>1, <1>2, <1>3, <2>1, <2>2
<1> QED
  BY <1>1, <1>2, <1>6, <1>7 DEF Nested, InnerLengthExact, Top

LEMMA OpensKeepsNested ==
    ASSUME Nested, NEW type \in Nat, Opens(type)
    PROVE  Nested' /\ EndOf(1) <= EndOf(1)'
<1>t. PICK t \in Nat : t = Len(open)
  BY NestedFacts
<1> DEFINE new == [type |-> type, start |-> position, inner |-> 0]
<1>1. open \in Seq(Frame) /\ t > 0 /\ open[1].start = 0
  BY <1>t DEF Nested
<1>2. new \in Frame
  BY <1>t, NestedFacts DEF Frame
<1>3. open' = Append(open, new) /\ position' = position + TL
  BY DEF Opens
<1>4. new.start = position /\ new.inner = 0
  OBVIOUS
<1> HIDE DEF new
<1>5. /\ open' \in Seq(Frame) /\ Len(open') = t + 1
      /\ \A k \in 1..t : open'[k] = open[k]
      /\ open'[t + 1] = new
  BY <1>1, <1>2, <1>3, <1>t
<1>6. \A k \in 1..t : BodyOf(k)' = BodyOf(k) /\ EndOf(k)' = EndOf(k)
  <2> TAKE k \in 1..t
  <2>1. BodyOf(k)' = BodyOf(k)
    BY <1>5 DEF BodyOf
  <2>2. CASE k = t
    <3>1. Len(open') # k /\ open'[k + 1].start = position
      BY <1>4, <1>5, <2>2
    <3> QED
      BY <1>t, <2>1, <2>2, <3>1 DEF EndOf, Top
  <2>3. CASE k # t
    <3>1. k + 1 \in 1..t /\ k # t + 1
      BY <2>3
    <3>2. Len(open') # k /\ open'[k + 1] = open[k + 1]
      BY <1>5, <3>1
    <3> QED
      BY <1>t, <2>1, <2>3, <3>2 DEF EndOf, Top
  <2> QED
    BY <2>1, <2>2, <2>3
<1>7. BodyOf(t + 1)' = position + TL /\ EndOf(t + 1)' = position + TL
  <2>1. t + 1 # 1 /\ open'[t + 1].start = position
    BY <1>1, <1>4, <1>5
  <2>2. BodyOf(t + 1)' = open'[t + 1].start + TL
    BY <2>1 DEF BodyOf
  <2>3. EndOf(t + 1)' = position'
    BY <1>5 DEF EndOf, Top
  <2> QED
    BY <1>3, <2>1, <2>2, <2>3
<1>8. \A k \in 1..(t + 1) : k \in 1..t \/ k = t + 1
  BY <1>1
<1>9. \A k \in 1..(t + 1) : /\ BodyOf(k)' \in 0..EndOf(k)'
                           /\ open'[k].inner = EndOf(k)' - BodyOf(k)'
  <2>1. \A k \in 1..t : /\ BodyOf(k)' \in 0..EndOf(k)'
                       /\ open'[k].inner = EndOf(k)' - BodyOf(k)'
    BY <1>5, <1>6, <1>t, NestedFacts
  <2>2. /\ BodyOf(t + 1)' \in 0..EndOf(t + 1)'
        /\ open'[t + 1].inner = EndOf(t + 1)' - BodyOf(t + 1)'
    BY <1>4, <1>5, <1>7, <1>t, NestedFacts DEF TL
  <2> QED
    BY <1>8, <2>1, <2>2
<1>10. /\ position' \in Nat /\ Len(open') > 0
       /\ open'[1].start = 0 /\ EndOf(1) <= EndOf(1)'
  BY <1>1, <1>3, <1>5, <1>6, <1>t, NestedFacts DEF TL
<1> QED
  BY <1>5, <1>9, <1>10 DEF Nested, InnerLengthExact, Top

LEMMA ClosesKeepsNested ==
    ASSUME Nested, NEW n \in Nat, Closes(n)
    PROVE  Nested' /\ EndOf(1) <= EndOf(1)'
<1> DEFINE t == Len(open)
           u == t - 1
           front == SubSeq(open, 1, u)
<1>1. /\ t \in Nat /\ t > 1 /\ u \in Nat /\ u > 0 /\ u + 1 = t
      /\ open \in Seq(Frame) /\ open[1].start = 0
      /\ open' = Adding(front, n)
      /\ position' = open[t].start + n
  BY DEF Nested, Closes, Top, Front, Start
<1>2. /\ front \in Seq(Frame) /\ Len(front) = u
      /\ \A k \in 1..u : front[k] = open[k]
  BY <1>1
<1> HIDE DEF front
<1>3. /\ open' \in Seq(Frame) /\ Len(open') = u
      /\ \A k \in 1..u : /\ open'[k].start = open[k].start
                         /\ open'[k].inner =
                              IF k = u THEN open[k].inner + n ELSE open[k].inner
  <2>1. /\ Adding(front, n) \in Seq(Frame)
        /\ Len(Adding(front, n)) = Len(front)
        /\ \A k \in 1..Len(front) :
              /\ Adding(front, n)[k].start = front[k].start
              /\ Adding(front, n)[k].inner =
                   IF k = Len(front) THEN front[k].inner + n ELSE front[k].inner
    BY <1>1, <1>2, AddingShape
  <2> HIDE DEF u
  <2> QED
    BY <1>1, <1>2, <2>1
<1> HIDE DEF u
<1>4. EndOf(u) = open[t].start
  <2>1. u # Len(open)
    BY <1>1
  <2> QED
    BY <1>1, <2>1 DEF EndOf, Top
<1>5. \A k \in 1..u : k \in 1..t
  BY <1>1
<1>6. \A k \in 1..u : BodyOf(k)' = BodyOf(k)
  BY <1>3 DEF BodyOf
<1>7. \A k \in 1..u : EndOf(k)' = IF k = u THEN EndOf(k) + n ELSE EndOf(k)
  <2> TAKE k \in 1..u
  <2>1. CASE k = u
    BY <1>1, <1>3, <1>4, <2>1 DEF EndOf, Top
  <2>2. CASE k # u
    <3>1. k + 1 \in 1..u /\ k # t
      BY <1>1, <2>2
    <3> QED
      BY <1>3, <2>2, <3>1 DEF EndOf, Top
  <2> QED
    BY <2>1, <2>2
<1>8. \A k \in 1..u : /\ BodyOf(k)' \in 0..EndOf(k)'
                     /\ open'[k].inner = EndOf(k)' - BodyOf(k)'
  <2> TAKE k \in 1..u
  <2>1. /\ open[k].inner \in Nat /\ BodyOf(k) \in Nat /\ EndOf(k) \in Nat
        /\ BodyOf(k) <= EndOf(k) /\ open[k].inner = EndOf(k) - BodyOf(k)
    BY <1>5, NestedFacts
  <2>2. CASE k = u
    BY <1>3, <1>6, <1>7, <2>1, <2>2
  <2>3. CASE k # u
    BY <1>3, <1>6, <1>7, <2>1, <2>3
  <2> QED
    BY <2>2, <2>3
<1>9. /\ position' \in Nat /\ open'[1].start = 0
      /\ EndOf(1) <= EndOf(1)'
  <2>1. 1 \in 1..u /\ t \in 1..Len(open) /\ EndOf(1) \in Nat
    BY <1>1, NestedFacts
  <2>2. open[t].start \in Nat
    BY <2>1, NestedFacts
  <2> QED
    BY <1>1, <1>3, <1>7, <2>1, <2>2
<1> QED
  BY <1>1, <1>3, <1>8, <1>9 DEF Nested, InnerLengthExact, Top
----------------------------------------------------------------------------
(* The buffer in a step *)

LEMMA Uint16Bytes ==
    ASSUME NEW v \in Nat
    PROVE  Uint16(v) \in Seq(Byte) /\ Len(Uint16(v)) = 2
<1>1. Base \in Nat /\ Base > 0
  BY EncoderAssumption
<1>2. v \div Base \in Int
  BY <1>1
<1>3. (v \div Base) % Base \in Byte /\ v % Base \in Byte
  BY <1>1, <1>2 DEF Byte
<1> QED
  BY <1>3 DEF Uint16

LEMMA ConcatBytes ==
    ASSUME NEW a \in Seq(Byte), NEW b \in Seq(Byte)
    PROVE  a \o b \in Seq(Byte) /\ Len(a \o b) = Len(a) + Len(b)
  OBVIOUS

LEMMA HeaderBytes ==
    ASSUME NEW type \in Nat, NEW n \in Nat
    PROVE  /\ Uint16(type) \o Uint16(n) \in Seq(Byte)
           /\ Len(Uint16(type) \o Uint16(n)) = TL
<1>1. PICK a \in Seq(Byte) : a = Uint16(type) /\ Len(a) = 2
  BY Uint16Bytes
<1>2. PICK b \in Seq(Byte) : b = Uint16(n) /\ Len(b) = 2
  BY Uint16Bytes
<1>3. a \o b \in Seq(Byte) /\ Len(a \o b) = Len(a) + Len(b)
  OBVIOUS
<1>4. Len(a) + Len(b) = 4
  BY <1>1, <1>2
<1> QED
  BY <1>1, <1>2, <1>3, <1>4 DEF TL

LEMMA OverlayShape ==
    ASSUME content \in Seq(Byte), NEW bytes \in Seq(Byte),
           NEW at \in Nat, at <= Len(content)
    PROVE  /\ Overlay(at, bytes) \in Seq(Byte)
           /\ Len(content) <= Len(Overlay(at, bytes))
           /\ at + Len(bytes) <= Len(Overlay(at, bytes))
<1> DEFINE end == at + Len(bytes)
           size == IF end > Len(content) THEN end ELSE Len(content)
<1>1. size \in Nat /\ end \in Nat
  OBVIOUS
<1>2. \A i \in 1..size :
        (IF i \in (at + 1)..end THEN bytes[i - at] ELSE content[i]) \in Byte
  <2> TAKE i \in 1..size
  <2>1. CASE i \in (at + 1)..end
    <3>1. i - at \in 1..Len(bytes)
      BY <2>1
    <3>2. bytes[i - at] \in Byte
      BY <3>1
    <3> QED
      BY <2>1, <3>2
  <2>2. CASE i \notin (at + 1)..end
    <3>1. i \in 1..Len(content)
      BY <2>2
    <3> QED
      BY <2>2, <3>1
  <2> QED
    BY <2>1, <2>2
<1>3. Overlay(at, bytes) =
        [i \in 1..size |-> IF i \in (at + 1)..end THEN bytes[i - at] ELSE content[i]]
  BY DEF Overlay
<1>4. /\ Overlay(at, bytes) \in Seq(Byte)
      /\ Len(Overlay(at, bytes)) = size
  BY <1>1, <1>2, <1>3
<1> QED
  BY <1>4

LEMMA PutShape ==
    ASSUME EncoderInv, NEW bytes \in Seq(Byte), Put(bytes)
    PROVE  /\ content' \in Seq(Byte)
           /\ position' = position + Len(bytes)
           /\ position' <= Len(content')
  BY OverlayShape DEF EncoderInv, Nested, Buffered, Put

(* Bytes patched in front of the cursor leave the cursor in the buffer. *)
LEMMA PatchShape ==
    ASSUME EncoderInv, NEW bytes \in Seq(Byte), NEW at \in Nat,
           at <= position, content' = Overlay(at, bytes)
    PROVE  content' \in Seq(Byte) /\ position <= Len(content')
<1>1. at <= Len(content) /\ position \in Nat
  BY DEF EncoderInv, Nested, Buffered
<1>2. content' \in Seq(Byte) /\ Len(content) <= Len(content')
  BY <1>1, OverlayShape DEF EncoderInv, Buffered
<1> QED
  BY <1>1, <1>2 DEF EncoderInv, Buffered

LEMMA StepKeepsInv ==
    ASSUME EncoderInv, Nested', EndOf(1) <= EndOf(1)',
           content' \in Seq(Byte), position' <= Len(content'),
           signatureStart' \in Marks, signatureEnd' \in Marks
    PROVE  EncoderInv'
<1>1. EndOf(1) \in Nat
  <2>1. 1 \in 1..Len(open)
    BY NestedFacts DEF EncoderInv
  <2> QED
    BY <2>1, NestedFacts DEF EncoderInv
<1>e. EndOf(1)' \in Int
  <2>1. /\ Len(open') \in Nat /\ Len(open') > 0
        /\ \A k \in 1..Len(open') : open'[k] \in Frame
    BY DEF Nested
  <2>2. CASE Len(open') = 1
    BY <2>2 DEF EndOf, Top, Nested
  <2>3. CASE Len(open') # 1
    <3>n. PICK n \in Nat : n = Len(open')
      BY <2>1
    <3>1. 2 \in 1..Len(open')
      BY <2>1, <2>3, <3>n
    <3>2. EndOf(1)' = open'[2].start
      BY <2>3 DEF EndOf, Top
    <3> QED
      BY <2>1, <3>1, <3>2 DEF Frame
  <2> QED
    BY <2>2, <2>3
<1>2. Marks \subseteq {NotMarked} \cup 0..(EndOf(1)')
  BY <1>1, <1>e DEF Marks
<1> QED
  BY <1>2 DEF EncoderInv, Buffered, Marks

(* The cursor is Inner bytes behind the body of the innermost container. *)
LEMMA InnermostFacts ==
    ASSUME EncoderInv
    PROVE  /\ Start \in Nat /\ Inner \in Nat /\ position \in Nat
           /\ Top \in 1..Top
           /\ Inner = position - BodyOf(Top)
           /\ Top > 1 => Inner = position - Start - TL
           /\ Top = 1 => Start = 0 /\ Inner = position /\ EndOf(1) = position
<1>1. /\ Top \in 1..Top /\ position \in Nat
      /\ open[Top].start \in Nat /\ open[Top].inner \in Nat
      /\ open[Top].inner = EndOf(Top) - BodyOf(Top)
      /\ BodyOf(Top) \in Nat
  BY NestedFacts DEF EncoderInv, Top
<1>2. EndOf(Top) = position
  BY DEF EndOf
<1>3. Top > 1 => BodyOf(Top) = open[Top].start + TL
  BY <1>1 DEF BodyOf
<1>4. Top = 1 => open[1].start = 0 /\ BodyOf(1) = 0
  BY <1>1 DEF BodyOf, EncoderInv, Nested
<1> QED
  BY <1>1, <1>2, <1>3, <1>4 DEF Start, Inner, TL

----------------------------------------------------------------------------
(* The actions *)

LEMMA AppendKeepsInv ==
    ASSUME EncoderInv, NEW type \in Nat, NEW value \in Seq(Byte),
           AppendTlv(type, value)
    PROVE  EncoderInv'
<1> DEFINE bytes == Uint16(type) \o Uint16(Len(value)) \o value
<1>1. bytes \in Seq(Byte) /\ Len(bytes) = TL + Len(value)
  <2>1. PICK header \in Seq(Byte) :
          /\ header = Uint16(type) \o Uint16(Len(value))
          /\ Len(header) = TL
    <3>1. Len(value) \in Nat
      OBVIOUS
    <3>2. /\ Uint16(type) \o Uint16(Len(value)) \in Seq(Byte)
          /\ Len(Uint16(type) \o Uint16(Len(value))) = TL
      BY <3>1, HeaderBytes
    <3> QED
      BY <3>2
  <2>2. /\ header \o value \in Seq(Byte)
        /\ Len(header \o value) = TL + Len(value)
    BY <2>1, ConcatBytes
  <2> QED
    BY <2>1, <2>2
<1>2. Put(bytes)
  BY DEF AppendTlv
<1> HIDE DEF bytes
<1>3. /\ content' \in Seq(Byte) /\ position' = position + Len(bytes)
      /\ position' <= Len(content')
  BY <1>1, <1>2, PutShape
<1>4. TL + Len(value) \in Nat /\ Grows(TL + Len(value))
  BY <1>1, <1>3 DEF AppendTlv, Grows, TL
<1>5. Nested' /\ EndOf(1) <= EndOf(1)'
  BY <1>4, GrowsKeepsNested DEF EncoderInv
<1> QED
  BY <1>3, <1>5, StepKeepsInv DEF AppendTlv, EncoderInv, Buffered

LEMMA AppendRawKeepsInv ==
    ASSUME EncoderInv, NEW value \in Seq(Byte), AppendRaw(value)
    PROVE  EncoderInv'
<1>1. /\ content' \in Seq(Byte) /\ position' = position + Len(value)
      /\ position' <= Len(content')
  BY PutShape DEF AppendRaw
<1>2. Len(value) \in Nat /\ Grows(Len(value))
  BY <1>1 DEF AppendRaw, Grows
<1>3. Nested' /\ EndOf(1) <= EndOf(1)'
  BY <1>2, GrowsKeepsNested DEF EncoderInv
<1> QED
  BY <1>1, <1>3, StepKeepsInv DEF AppendRaw, EncoderInv, Buffered

LEMMA OpenKeepsInv ==
    ASSUME EncoderInv, NEW type \in Nat, AppendContainer(type)
    PROVE  EncoderInv'
<1> DEFINE bytes == Uint16(type) \o Uint16(0)
<1>1. bytes \in Seq(Byte) /\ Len(bytes) = TL
  BY 0 \in Nat, HeaderBytes
<1>2. Put(bytes)
  BY DEF AppendContainer
<1> HIDE DEF bytes
<1>3. /\ content' \in Seq(Byte) /\ position' = position + Len(bytes)
      /\ position' <= Len(content')
  BY <1>1, <1>2, PutShape
<1>4. Opens(type)
  BY <1>1, <1>3 DEF AppendContainer, Opens
<1>5. Nested' /\ EndOf(1) <= EndOf(1)'
  BY <1>4, OpensKeepsNested DEF EncoderInv
<1> QED
  BY <1>3, <1>5, StepKeepsInv DEF AppendContainer, EncoderInv, Buffered

(* Closing with a length field: the field lies in the container's header,  *)
(* in front of the cursor, and the cursor stays.                           *)
LEMMA CloseKeepsInv ==
    ASSUME NEW n \in Int, NEW at \in Int, NEW bytes \in Seq(Byte),
           EncoderInv, Top > 1, n = position - Start, Closed(n),
           at = Start \/ at = Start + 2, content' = Overlay(at, bytes),
           UNCHANGED <<position, signatureStart, signatureEnd>>
    PROVE  EncoderInv'
<1>1. /\ n \in Nat /\ at \in Nat /\ at <= position
      /\ position = Start + n /\ position \in Nat
  BY InnermostFacts DEF TL
<1>2. content' \in Seq(Byte) /\ position <= Len(content')
  BY <1>1, PatchShape
<1>3. Closes(n)
  BY <1>1 DEF Closes, Closed
<1>4. Nested' /\ EndOf(1) <= EndOf(1)'
  BY <1>1, <1>3, ClosesKeepsNested DEF EncoderInv
<1> QED
  BY <1>2, <1>4, StepKeepsInv DEF EncoderInv, Buffered

LEMMA CloseMeasuredKeepsInv ==
    ASSUME EncoderInv, CloseMeasured
    PROVE  EncoderInv'
<1>n. PICK n \in Int : n = position - Start
  BY InnermostFacts
<1>at. PICK at \in Int : at = Start + 2
  BY InnermostFacts
<1>b. PICK bytes \in Seq(Byte) : bytes = Uint16(Inner)
  BY InnermostFacts, Uint16Bytes
<1>1. /\ Top > 1 /\ Closed(n) /\ content' = Overlay(at, bytes)
      /\ UNCHANGED <<position, signatureStart, signatureEnd>>
  BY <1>n, <1>at, <1>b DEF CloseMeasured, LengthAt
<1> QED
  BY <1>n, <1>at, <1>1, CloseKeepsInv

LEMMA CloseCountedKeepsInv ==
    ASSUME EncoderInv, CloseCounted
    PROVE  EncoderInv'
<1>n. PICK n \in Int : n = position - Start /\ n = Inner + TL
  BY InnermostFacts DEF CloseCounted, TL
<1>at. PICK at \in Int : at = Start + 2
  BY InnermostFacts
<1>b. PICK bytes \in Seq(Byte) : bytes = Uint16(Inner)
  BY InnermostFacts, Uint16Bytes
<1>1. /\ Top > 1 /\ Closed(n) /\ content' = Overlay(at, bytes)
      /\ UNCHANGED <<position, signatureStart, signatureEnd>>
  BY <1>n, <1>at, <1>b DEF CloseCounted, LengthAt
<1> QED
  BY <1>n, <1>at, <1>1, CloseKeepsInv

LEMMA CloseRewrittenKeepsInv ==
    ASSUME EncoderInv, CloseRewritten
    PROVE  EncoderInv'
<1>1. open[Top].type \in Nat
  <2>1. open[Top] \in Frame
    BY InnermostFacts DEF EncoderInv, Nested, Top
  <2> QED
    BY <2>1 DEF Frame
<1>2. Uint16(open[Top].type) \o Uint16(Inner) \in Seq(Byte)
  BY <1>1, InnermostFacts, HeaderBytes
<1>n. PICK n \in Int : n = position - Start /\ n = Inner + TL
  BY InnermostFacts DEF CloseRewritten, TL
<1>at. PICK at \in Int : at = Start /\ at = position - Inner - TL
  BY InnermostFacts DEF CloseRewritten, TL
<1>b. PICK bytes \in Seq(Byte) :
        bytes = Uint16(open[Top].type) \o Uint16(Inner)
  BY <1>2
<1>3. /\ Top > 1 /\ Closed(n) /\ content' = Overlay(at, bytes)
      /\ UNCHANGED <<position, signatureStart, signatureEnd>>
  BY <1>n, <1>at, <1>b DEF CloseRewritten
<1> QED
  BY <1>n, <1>at, <1>3, CloseKeepsInv

LEMMA CloseErasedKeepsInv ==
    ASSUME EncoderInv, CloseErased
    PROVE  EncoderInv'
<1>1. position' = Start + 0 /\ Start <= position
  BY InnermostFacts DEF CloseErased, TL
<1>2. Nested' /\ EndOf(1) <= EndOf(1)'
  BY <1>1, ClosesKeepsNested DEF EncoderInv, Closes, Closed, CloseErased
<1>3. content' \in Seq(Byte) /\ position' <= Len(content')
  BY <1>1, InnermostFacts DEF CloseErased, EncoderInv, Buffered
<1> QED
  BY <1>2, <1>3, StepKeepsInv DEF CloseErased, EncoderInv, Buffered

(* Steps that leave the cursor and the containers alone *)
LEMMA SameFramesKeepInv ==
    ASSUME EncoderInv, UNCHANGED <<position, open>>,
           content' \in Seq(Byte), position <= Len(content'),
           signatureStart' \in Marks, signatureEnd' \in Marks
    PROVE  EncoderInv'
<1>1. Nested'
  BY DEF EncoderInv, Nested, InnerLengthExact, BodyOf, EndOf, Top
<1>2. EndOf(1)' = EndOf(1) /\ EndOf(1) \in Nat
  <2>1. EndOf(1)' = EndOf(1)
    BY DEF EndOf, Top
  <2>2. EndOf(1) \in Nat
    BY NestedFacts DEF EncoderInv, Nested
  <2> QED
    BY <2>1, <2>2
<1> QED
  BY <1>1, <1>2, StepKeepsInv

LEMMA MarksKeepInv ==
    ASSUME EncoderInv, ClientMarkStart \/ ClientMarkEnd
    PROVE  EncoderInv'
<1>1. position \in Marks
  BY InnermostFacts DEF Marks, ClientMarkStart, ClientMarkEnd
<1> QED
  BY <1>1, SameFramesKeepInv
  DEF ClientMarkStart, ClientMarkEnd, MarkSignatureStart, MarkSignatureEnd,
      EncoderInv, Buffered

LEMMA PatchHeaderKeepsInv ==
    ASSUME EncoderInv, NEW header \in Seq(Byte), PatchHeader(header)
    PROVE  EncoderInv'
<1>1. Start = 0 /\ Start <= position
  BY InnermostFacts DEF PatchHeader
<1>2. content' \in Seq(Byte) /\ position <= Len(content')
  BY <1>1, PatchShape DEF PatchHeader
<1> QED
  BY <1>2, SameFramesKeepInv DEF PatchHeader, EncoderInv, Buffered

LEMMA FinalizeKeepsInv ==
    ASSUME EncoderInv, Finalize
    PROVE  EncoderInv'
<1>1. position \in 0..Len(content) /\ content \in Seq(Byte)
  BY InnermostFacts DEF EncoderInv, Buffered
<1>2. content' \in Seq(Byte) /\ Len(content') = position
  BY <1>1 DEF Finalize
<1> QED
  BY <1>1, <1>2, SameFramesKeepInv DEF Finalize, EncoderInv, Buffered

----------------------------------------------------------------------------
(* The theorems *)

LEMMA OctetsAreBytes ==
    ASSUME NEW n \in Nat, NEW f \in [1..n -> Octets]
    PROVE  f \in Seq(Byte)
<1>1. \A i \in 1..n : f[i] \in Byte
  BY ClientAssumption DEF Byte
<1>2. f = [i \in 1..n |-> f[i]]
  OBVIOUS
<1>3. [i \in 1..n |-> f[i]] \in Seq(Byte)
  BY <1>1
<1> QED
  BY <1>2, <1>3

THEOREM InitEncoderInv == ClientInit => EncoderInv
<1> SUFFICES ASSUME ClientInit PROVE EncoderInv
  OBVIOUS
<1>1. /\ position = 0 /\ content = <<>> /\ Len(open) = 1
      /\ open[1] = [type |-> 0, start |-> 0, inner |-> 0]
      /\ open = <<[type |-> 0, start |-> 0, inner |-> 0]>>
  BY DEF ClientInit, TlvInit
<1>2. open \in Seq(Frame)
  <2>1. [type |-> 0, start |-> 0, inner |-> 0] \in Frame
    BY DEF Frame
  <2> QED
    BY <1>1, <2>1
<1>3. BodyOf(1) = 0 /\ EndOf(1) = 0 /\ open[1].inner = 0 /\ open[1].start = 0
  BY <1>1 DEF BodyOf, EndOf, Top
<1>4. Nested
  BY <1>1, <1>2, <1>3 DEF Nested, InnerLengthExact, Top
<1>5. Buffered
  BY <1>1 DEF Buffered, Marks, ClientInit, TlvInit
<1> QED
  BY <1>4, <1>5 DEF EncoderInv

THEOREM NextEncoderInv == EncoderInv /\ [ClientNext]_tlvVars => EncoderInv'
<1> SUFFICES ASSUME EncoderInv, [ClientNext]_tlvVars PROVE EncoderInv'
  OBVIOUS
<1> USE ClientAssumption
<1>0. \A value \in Values : value \in Seq(Byte)
  <2>1. \A n \in 0..MaxValue : \A f \in [1..n -> Octets] : f \in Seq(Byte)
    BY OctetsAreBytes
  <2> QED
    BY <2>1 DEF Values
<1>1. CASE ClientAppend
  BY <1>0, <1>1, AppendKeepsInv DEF ClientAppend
<1>2. CASE ClientAppendRaw
  BY <1>0, <1>2, AppendRawKeepsInv DEF ClientAppendRaw
<1>3. CASE ClientOpen
  BY <1>3, OpenKeepsInv DEF ClientOpen
<1>4. CASE CloseMeasured
  BY <1>4, CloseMeasuredKeepsInv
<1>5. CASE CloseCounted
  BY <1>5, CloseCountedKeepsInv
<1>6. CASE CloseRewritten
  BY <1>6, CloseRewrittenKeepsInv
<1>7. CASE CloseErased
  BY <1>7, CloseErasedKeepsInv
<1>8. CASE ClientMarkStart \/ ClientMarkEnd
  BY <1>8, MarksKeepInv
<1>9. CASE ClientPatchHeader
  <2>1. \A header \in Headers : header \in Seq(Byte)
    BY EncoderAssumption, OctetsAreBytes DEF Headers
  <2> QED
    BY <1>9, <2>1, PatchHeaderKeepsInv DEF ClientPatchHeader
<1>10. CASE Finalize
  BY <1>10, FinalizeKeepsInv
<1>11. CASE UNCHANGED tlvVars
  BY <1>11, SameFramesKeepInv DEF tlvVars, EncoderInv, Buffered
<1> QED
  BY <1>1, <1>2, <1>3, <1>4, <1>5, <1>6, <1>7, <1>8, <1>9, <1>10, <1>11
  DEF ClientNext

(* The lengths that the clients of the encoder count are the lengths there *)
(* are, so Encode's check of the packet length cannot fail.                *)
THEOREM LengthsExact == ClientSpec => []InnerLengthExact
<1>1. EncoderInv => InnerLengthExact
  BY DEF EncoderInv, Nested
<1> QED
  BY InitEncoderInv, NextEncoderInv, <1>1, PTL DEF ClientSpec

LEMMA EncoderTyped == EncoderInv => TlvTypeOK
<1> SUFFICES ASSUME EncoderInv PROVE TlvTypeOK
  OBVIOUS
<1>1. content \in Seq(Byte)
  BY DEF EncoderInv, Buffered
<1>2. \A i \in DOMAIN content : content[i] \in 0..(Base - 1)
  <2>1. \A i \in 1..Len(content) : content[i] \in Byte
    BY <1>1
  <2>2. DOMAIN content = 1..Len(content)
    BY <1>1
  <2> QED
    BY <2>1, <2>2 DEF Byte
<1>3. position \in 0..Len(content)
  BY <1>1 DEF EncoderInv, Nested, Buffered
<1> QED
  BY <1>2, <1>3 DEF TlvTypeOK, EncoderInv, Nested, Buffered, Marks, Top

(* The cursor, the containers and the marks lie in the buffer. *)
THEOREM EncoderTypes == ClientSpec => []TlvTypeOK
<1> QED
  BY InitEncoderInv, NextEncoderInv, EncoderTyped, PTL DEF ClientSpec

----------------------------------------------------------------------------
(* The encoder builds a tree.  Path is the state that TlvTree's variable   *)
(* is mapped to.                                                           *)

Value(k) == SubSeq(content, BodyOf(k) + 1, EndOf(k))
Path == [k \in 1..Top |-> [type |-> open[k].type, value |-> Value(k)]]

(* An open container has its type in front of it, which nobody writes      *)
(* again when it is closed with a length only.                             *)
TypesWritten ==
    \A k \in 2..Top : /\ content[open[k].start + 1] = Uint16(open[k].type)[1]
                      /\ content[open[k].start + 2] = Uint16(open[k].type)[2]

TreeInv == EncoderInv /\ TypesWritten

LEMMA Induction ==
    ASSUME NEW S, 0 \in S, \A n \in Nat : n \in S => n + 1 \in S
    PROVE  Nat \subseteq S
<1> DEFINE T == Nat \ S
<1> SUFFICES ASSUME T # {} PROVE FALSE
  OBVIOUS
<1>1. PICK m \in T : \A k \in T : <<k, m>> \notin OpToRel(<, Nat)
  BY WFMin, NatLessThanWellFounded, Zenon
<1>2. \A k \in T : ~(k < m)
  BY <1>1 DEF OpToRel
<1>3. m \in Nat /\ m # 0 /\ m - 1 \in Nat
  OBVIOUS
<1>4. m - 1 \in S
  BY <1>2, <1>3
<1>5. QED BY <1>3, <1>4

(* A container begins where those around it end for now.                   *)
Follow ==
    \A j \in 1..Top : \A k \in 1..Top :
        /\ j <= k => EndOf(j) <= EndOf(k)
        /\ j < k => EndOf(j) <= open[k].start
        /\ EndOf(j) <= position

LEMMA StartsFollow == Nested => Follow
<1> SUFFICES ASSUME Nested, NEW j \in 1..Top, NEW k \in 1..Top
             PROVE  /\ j <= k => EndOf(j) <= EndOf(k)
                    /\ j < k => EndOf(j) <= open[k].start
                    /\ EndOf(j) <= position
  BY DEF Follow
<1>t. PICK t \in Nat : t = Len(open) /\ t \in 1..t
  BY NestedFacts
<1>1. ASSUME NEW i \in 1..t, i + 1 \in 1..t
      PROVE  /\ EndOf(i) = open[i + 1].start
             /\ EndOf(i) <= EndOf(i + 1)
             /\ EndOf(i) \in Nat /\ EndOf(i + 1) \in Nat
  <2>1. EndOf(i) = open[i + 1].start
    BY <1>1, <1>t DEF EndOf, Top
  <2>2. i + 1 # 1 /\ BodyOf(i + 1) <= EndOf(i + 1) /\ EndOf(i) \in Nat
        /\ EndOf(i + 1) \in Nat
    BY <1>1, <1>t, NestedFacts
  <2>3. BodyOf(i + 1) = open[i + 1].start + TL
    BY <2>2 DEF BodyOf
  <2>4. QED BY <2>1, <2>2, <2>3 DEF TL
<1>2. ASSUME NEW i \in 1..t
      PROVE  \A d \in Nat : i + d \in 1..t => EndOf(i) <= EndOf(i + d)
  <2> DEFINE S == {d \in Nat : i + d \in 1..t => EndOf(i) <= EndOf(i + d)}
  <2>1. 0 \in S
    <3>1. EndOf(i) \in Nat /\ i + 0 = i
      BY <1>t, NestedFacts
    <3>2. QED BY <3>1
  <2>2. ASSUME NEW d \in Nat, d \in S PROVE d + 1 \in S
    <3> SUFFICES ASSUME i + (d + 1) \in 1..t PROVE EndOf(i) <= EndOf(i + (d + 1))
      OBVIOUS
    <3>1. i + d \in 1..t /\ i + (d + 1) = (i + d) + 1
      OBVIOUS
    <3>2. EndOf(i) <= EndOf(i + d) /\ EndOf(i) \in Nat
      BY <2>2, <3>1, <1>t, NestedFacts
    <3>3. /\ EndOf(i + d) <= EndOf((i + d) + 1)
          /\ EndOf(i + d) \in Nat /\ EndOf((i + d) + 1) \in Nat
      BY <1>1, <3>1
    <3>4. QED BY <3>1, <3>2, <3>3
  <2>3. QED BY <2>1, <2>2, Induction
<1>3. ASSUME NEW a \in 1..t, NEW b \in 1..t, a <= b PROVE EndOf(a) <= EndOf(b)
  <2>1. b - a \in Nat /\ a + (b - a) = b
    BY <1>3
  <2>2. QED BY <1>2, <2>1
<1>4. j < k => EndOf(j) <= open[k].start
  <2> SUFFICES ASSUME j < k PROVE EndOf(j) <= open[k].start
    OBVIOUS
  <2>1. k - 1 \in 1..t /\ (k - 1) + 1 \in 1..t /\ j <= k - 1 /\ (k - 1) + 1 = k
    BY <1>t DEF Top
  <2>2. EndOf(k - 1) = open[k].start
    BY <1>1, <2>1
  <2>3. QED BY <1>3, <1>t, <2>1, <2>2 DEF Top
<1>5. EndOf(j) <= position
  <2>1. EndOf(t) = position
    BY <1>t DEF EndOf, Top
  <2>2. QED BY <1>3, <1>t, <2>1 DEF Top
<1>6. QED BY <1>3, <1>4, <1>5, <1>t DEF Top

LEMMA CutShape ==
    ASSUME NEW s \in Seq(Byte), NEW a \in Nat, NEW b \in Nat, a <= b, b <= Len(s)
    PROVE  /\ SubSeq(s, a + 1, b) \in Seq(Byte)
           /\ Len(SubSeq(s, a + 1, b)) = b - a
           /\ \A i \in 1..(b - a) : SubSeq(s, a + 1, b)[i] = s[a + i]
<1>1. \A i \in (a + 1)..b : s[i] \in Byte
  OBVIOUS
<1>2. /\ SubSeq(s, a + 1, b) \in Seq(Byte)
      /\ Len(SubSeq(s, a + 1, b)) = IF a + 1 <= b THEN b - (a + 1) + 1 ELSE 0
      /\ \A i \in 1..(b - (a + 1) + 1) : SubSeq(s, a + 1, b)[i] = s[(a + 1) + i - 1]
  <2>1. a + 1 \in Int /\ b \in Int
    OBVIOUS
  <2>2. QED BY ONLY <1>1, <2>1, SubSeqProperties
<1>3. /\ (IF a + 1 <= b THEN b - (a + 1) + 1 ELSE 0) = b - a
      /\ b - (a + 1) + 1 = b - a
      /\ \A i \in 1..(b - a) : (a + 1) + i - 1 = a + i
  OBVIOUS
<1>4. QED BY ONLY <1>2, <1>3

LEMMA CutEqual ==
    ASSUME NEW s \in Seq(Byte), NEW t \in Seq(Byte), NEW a \in Nat, NEW b \in Nat,
           a <= b, b <= Len(s), b <= Len(t), \A i \in (a + 1)..b : t[i] = s[i]
    PROVE  SubSeq(t, a + 1, b) = SubSeq(s, a + 1, b)
<1> DEFINE u == SubSeq(s, a + 1, b)
           v == SubSeq(t, a + 1, b)
<1>1. u \in Seq(Byte) /\ Len(u) = b - a /\ \A i \in 1..(b - a) : u[i] = s[a + i]
  BY CutShape
<1>2. v \in Seq(Byte) /\ Len(v) = b - a /\ \A i \in 1..(b - a) : v[i] = t[a + i]
  BY CutShape
<1>3. \A i \in 1..(b - a) : a + i \in (a + 1)..b
  OBVIOUS
<1> HIDE DEF u, v
<1>4. \A i \in 1..(b - a) : v[i] = u[i]
  BY <1>1, <1>2, <1>3
<1>5. v = u
  BY <1>1, <1>2, <1>4, SeqEqual
<1>6. QED BY <1>5 DEF u, v

(* What lies in an open container, and where.                              *)
LEMMA Contained ==
    ASSUME EncoderInv, NEW k \in 1..Top
    PROVE  /\ BodyOf(k) \in Nat /\ EndOf(k) \in Nat /\ BodyOf(k) <= EndOf(k)
           /\ EndOf(k) <= position /\ position \in Nat
           /\ position <= Len(content) /\ Len(content) \in Nat
           /\ content \in Seq(Byte) /\ open[k].type \in Nat
           /\ open[k].start \in Nat /\ open[k].start <= BodyOf(k)
           /\ k # 1 => BodyOf(k) = open[k].start + TL
           /\ open[k].inner = EndOf(k) - BodyOf(k)
           /\ Path[k] = [type |-> open[k].type, value |-> Value(k)]
           /\ Value(k) \in Seq(Byte) /\ Len(Value(k)) = open[k].inner
           /\ \A i \in 1..Len(Value(k)) : Value(k)[i] = content[BodyOf(k) + i]
<1>1. /\ BodyOf(k) \in Nat /\ EndOf(k) \in Nat /\ BodyOf(k) <= EndOf(k)
      /\ open[k].start \in Nat /\ open[k].inner = EndOf(k) - BodyOf(k)
      /\ position \in Nat
  BY NestedFacts DEF EncoderInv, Top
<1>2. EndOf(k) <= position
  BY StartsFollow DEF EncoderInv, Follow
<1>3. position <= Len(content) /\ content \in Seq(Byte) /\ Len(content) \in Nat
  BY DEF EncoderInv, Buffered
<1>4. open[k].type \in Nat
  <2>1. open[k] \in Frame
    BY DEF EncoderInv, Nested, Top
  <2>2. QED BY <2>1 DEF Frame
<1>5. open[k].start <= BodyOf(k) /\ (k # 1 => BodyOf(k) = open[k].start + TL)
  BY <1>1 DEF BodyOf, TL
<1>6. Path[k] = [type |-> open[k].type, value |-> Value(k)]
  BY DEF Path
<1>7. EndOf(k) <= Len(content)
  BY <1>1, <1>2, <1>3
<1>8. /\ Value(k) \in Seq(Byte) /\ Len(Value(k)) = EndOf(k) - BodyOf(k)
      /\ \A i \in 1..(EndOf(k) - BodyOf(k)) : Value(k)[i] = content[BodyOf(k) + i]
  BY <1>1, <1>3, <1>7, CutShape DEF Value
<1>9. QED BY <1>1, <1>2, <1>3, <1>4, <1>5, <1>6, <1>8

(* A container that keeps its place and its bytes keeps its value.         *)
LEMMA ValueKept ==
    ASSUME EncoderInv, EncoderInv', NEW k \in 1..Top, k \in 1..Top',
           BodyOf(k)' = BodyOf(k), EndOf(k)' = EndOf(k), open'[k].type = open[k].type,
           \A i \in (BodyOf(k) + 1)..EndOf(k) : content'[i] = content[i]
    PROVE  Value(k)' = Value(k) /\ Path'[k] = Path[k]
<1>1. /\ BodyOf(k) \in Nat /\ EndOf(k) \in Nat /\ BodyOf(k) <= EndOf(k)
      /\ EndOf(k) <= Len(content) /\ content \in Seq(Byte)
  <2>1. /\ BodyOf(k) \in Nat /\ EndOf(k) \in Nat /\ BodyOf(k) <= EndOf(k)
        /\ EndOf(k) <= position /\ position \in Nat
        /\ position <= Len(content) /\ Len(content) \in Nat /\ content \in Seq(Byte)
    BY Contained, Zenon
  <2>2. EndOf(k) <= Len(content)
    BY ONLY <2>1
  <2>3. QED BY ONLY <2>1, <2>2
<1>2. EndOf(k)' <= position' /\ position' \in Nat
  <2>1. Nested' /\ Follow'
    BY StartsFollow, PTL DEF EncoderInv
  <2>2. QED BY <2>1 DEF Nested, Follow
<1>3. position' <= Len(content') /\ content' \in Seq(Byte)
  BY DEF EncoderInv, Buffered
<1>4. EndOf(k) <= Len(content') /\ Len(content') \in Nat
  <2>1. EndOf(k) <= position'
    BY <1>2
  <2>2. QED BY ONLY <1>1, <1>2, <1>3, <2>1
<1>5. SubSeq(content', BodyOf(k) + 1, EndOf(k)) = SubSeq(content, BodyOf(k) + 1, EndOf(k))
  BY <1>1, <1>3, <1>4, CutEqual
<1>6. Value(k)' = Value(k)
  BY <1>5 DEF Value
<1>7. QED BY <1>6 DEF Path

(* A path of the tree.                                                     *)
TreeFrame == [type : Nat, value : Seq(Byte)]

LEMMA PathType == EncoderInv => Path \in Seq(TreeFrame) /\ Len(Path) = Top /\ Top \in Nat \ {0}
<1> SUFFICES ASSUME EncoderInv
             PROVE  Path \in Seq(TreeFrame) /\ Len(Path) = Top /\ Top \in Nat \ {0}
  OBVIOUS
<1>1. Top \in Nat \ {0}
  BY NestedFacts DEF EncoderInv, Top
<1>2. \A k \in 1..Top : Path[k] \in TreeFrame
  <2> TAKE k \in 1..Top
  <2>1. Path[k] = [type |-> open[k].type, value |-> Value(k)] /\ open[k].type \in Nat
        /\ Value(k) \in Seq(Byte)
    BY Contained, Zenon
  <2>2. QED BY <2>1 DEF TreeFrame
<1>3. Path = [k \in 1..Top |-> Path[k]]
  BY DEF Path
<1> QED BY <1>1, <1>2, <1>3

LEMMA FrontShape ==
    ASSUME NEW S, NEW s \in Seq(S), Len(s) > 0
    PROVE  /\ Front(s) \in Seq(S) /\ Len(Front(s)) = Len(s) - 1
           /\ \A k \in 1..(Len(s) - 1) : Front(s)[k] = s[k]
<1>1. Len(s) \in Nat /\ \A k \in 1..(Len(s) - 1) : s[k] \in S
  OBVIOUS
<1>2. /\ SubSeq(s, 1, Len(s) - 1) \in Seq(S)
      /\ Len(SubSeq(s, 1, Len(s) - 1)) =
            IF 1 <= Len(s) - 1 THEN (Len(s) - 1) - 1 + 1 ELSE 0
      /\ \A k \in 1..((Len(s) - 1) - 1 + 1) : SubSeq(s, 1, Len(s) - 1)[k] = s[1 + k - 1]
  <2>1. 1 \in Int /\ Len(s) - 1 \in Int
    BY <1>1
  <2>2. QED BY ONLY <1>1, <2>1, SubSeqProperties
<1>3. /\ (IF 1 <= Len(s) - 1 THEN (Len(s) - 1) - 1 + 1 ELSE 0) = Len(s) - 1
      /\ (Len(s) - 1) - 1 + 1 = Len(s) - 1
      /\ \A k \in 1..(Len(s) - 1) : 1 + k - 1 = k
  <2>1. PICK n \in Nat : n = Len(s) /\ n > 0
    BY <1>1
  <2>2. /\ (IF 1 <= n - 1 THEN (n - 1) - 1 + 1 ELSE 0) = n - 1
        /\ (n - 1) - 1 + 1 = n - 1
        /\ \A k \in 1..(n - 1) : 1 + k - 1 = k
    BY ONLY <2>1
  <2>3. QED BY ONLY <2>1, <2>2
<1>4. QED BY ONLY <1>2, <1>3 DEF Front

LEMMA FrontEqual ==
    ASSUME NEW S, NEW s \in Seq(S), NEW r \in Seq(S), Len(s) > 0, Len(r) = Len(s),
           \A k \in 1..(Len(s) - 1) : r[k] = s[k]
    PROVE  Front(r) = Front(s)
<1>1. /\ Front(s) \in Seq(S) /\ Len(Front(s)) = Len(s) - 1
      /\ \A k \in 1..(Len(s) - 1) : Front(s)[k] = s[k]
  BY FrontShape
<1>2. /\ Front(r) \in Seq(S) /\ Len(Front(r)) = Len(r) - 1
      /\ \A k \in 1..(Len(r) - 1) : Front(r)[k] = r[k]
  BY FrontShape
<1>3. \A k \in 1..Len(Front(r)) : Front(r)[k] = Front(s)[k]
  BY <1>1, <1>2
<1>4. Len(Front(r)) = Len(Front(s))
  BY <1>1, <1>2
<1>5. QED BY ONLY <1>1, <1>2, <1>3, <1>4, SeqEqual

(* The actions of the tree, of Path.                                       *)
LEMMA ExtendOfPath ==
    Tree!Extend <=> LET n == Len(Path)
                    IN /\ Len(Path') = n
                       /\ Front(Path') = Front(Path)
                       /\ Path'[n].type = Path[n].type
                       /\ IsPrefix(Path[n].value, Path'[n].value)
BY DEF Tree!Extend, Tree!Top, Tree!Front, Tree!IsPrefix, Front, IsPrefix, Path, Value

LEMMA OpenOfPath ==
    Tree!OpenContainer <=> LET n == Len(Path)
                           IN /\ Len(Path') = n + 1
                              /\ Front(Path') = Path
                              /\ Path'[n + 1].value = <<>>
BY DEF Tree!OpenContainer, Tree!Top, Tree!Front, Front, Path, Value

LEMMA CloseOfPath ==
    Tree!CloseContainer <=>
        LET n == Len(Path)
        IN /\ n > 1
           /\ Path' = [Front(Path) EXCEPT ![n - 1].value =
                         @ \o (Uint16(Path[n].type) \o Uint16(Len(Path[n].value))
                                 \o Path[n].value)]
BY DEF Tree!CloseContainer, Tree!Top, Tree!Tlv, Tree!BigEndian, Tree!Front, Front, Uint16,
       Path, Value

LEMMA DropOfPath ==
    Tree!DropContainer <=> LET n == Len(Path)
                           IN /\ n > 1
                              /\ Path[n].value = <<>>
                              /\ Path' = Front(Path)
BY DEF Tree!DropContainer, Tree!Top, Tree!Front, Front, Path, Value

LEMMA HeaderOfPath ==
    Tree!SetHeader <=> /\ Len(Path) = 1
                       /\ Len(Path') = 1
                       /\ Len(Path'[1].value) = Len(Path[1].value)
                       /\ \A i \in (HeaderSize + 1)..Len(Path[1].value) :
                             Path'[1].value[i] = Path[1].value[i]
BY DEF Tree!SetHeader, Tree!Top, Path, Value

(* Where the containers lie after they grew.                               *)
LEMMA GrownPlaces ==
    ASSUME Nested, NEW n \in Nat, Grows(n)
    PROVE  /\ Len(open') = Len(open)
           /\ \A k \in 1..Top : /\ open'[k].type = open[k].type
                                /\ open'[k].start = open[k].start
                                /\ BodyOf(k)' = BodyOf(k)
                                /\ k # Top => EndOf(k)' = EndOf(k)
           /\ EndOf(Top) = position /\ EndOf(Top)' = position + n
<1>t. PICK t \in Nat : t = Len(open) /\ t \in 1..t
  BY NestedFacts
<1>1. open \in Seq(Frame) /\ t > 0
  BY <1>t DEF Nested
<1>2. /\ Len(open') = t
      /\ \A k \in 1..t : open'[k].type = open[k].type /\ open'[k].start = open[k].start
  BY <1>t, <1>1, AddingShape DEF Grows
<1>3. \A k \in 1..t : BodyOf(k)' = BodyOf(k)
  BY <1>2 DEF BodyOf
<1>4. ASSUME NEW k \in 1..t, k # t PROVE EndOf(k)' = EndOf(k)
  <2>1. k + 1 \in 1..t
    BY <1>4
  <2>2. QED BY <1>t, <1>2, <1>4, <2>1 DEF EndOf, Top
<1>5. EndOf(t) = position /\ EndOf(t)' = position + n
  BY <1>t, <1>2 DEF EndOf, Top, Grows
<1>6. QED BY <1>t, <1>2, <1>3, <1>4, <1>5 DEF Top

(* Bytes put at the cursor follow what the innermost container holds.      *)
LEMMA GrowthExtends ==
    ASSUME EncoderInv, EncoderInv', NEW n \in Nat, Grows(n),
           \A i \in 1..position : content'[i] = content[i]
    PROVE  Tree!Extend
<1>t. PICK t \in Nat : t = Top /\ t \in 1..t
  BY NestedFacts DEF EncoderInv, Top
<1>1. /\ Top' = t
      /\ \A k \in 1..t : /\ open'[k].type = open[k].type
                         /\ BodyOf(k)' = BodyOf(k)
                         /\ k # t => EndOf(k)' = EndOf(k)
      /\ EndOf(t) = position /\ EndOf(t)' = position + n
  <2>1. Nested
    BY DEF EncoderInv
  <2>2. Top' = Len(open') /\ Top = Len(open)
    BY DEF Top
  <2>3. QED BY <1>t, <2>1, <2>2, GrownPlaces
<1>2. ASSUME NEW k \in 1..t
      PROVE  \A i \in (BodyOf(k) + 1)..EndOf(k) : content'[i] = content[i]
  <2>1. BodyOf(k) \in Nat /\ EndOf(k) \in Nat /\ EndOf(k) <= position /\ position \in Nat
    BY <1>t, Contained, Zenon
  <2>2. QED BY <2>1
<1>3. ASSUME NEW k \in 1..t, k # t PROVE Path'[k] = Path[k]
  BY <1>t, <1>1, <1>2, <1>3, ValueKept, Zenon
<1>4. Path'[t].type = Path[t].type
  BY <1>t, <1>1 DEF Path
<1>5. IsPrefix(Path[t].value, Path'[t].value)
  <2> DEFINE b == BodyOf(t)
             old == SubSeq(content, b + 1, position)
             new == SubSeq(content', b + 1, position + n)
  <2>1. Path[t].value = old /\ Path'[t].value = new
    BY <1>t, <1>1 DEF Path, Value
  <2>2. /\ b \in Nat /\ b <= position /\ position \in Nat /\ content \in Seq(Byte)
        /\ position <= Len(content)
    BY <1>t, <1>1, Contained, Zenon
  <2>3. content' \in Seq(Byte) /\ position + n <= Len(content')
    BY DEF EncoderInv, Buffered, Grows
  <2> HIDE DEF b
  <2>4. /\ old \in Seq(Byte) /\ Len(old) = position - b
        /\ \A i \in 1..(position - b) : old[i] = content[b + i]
    BY <2>2, CutShape
  <2>5. position + n \in Nat /\ b <= position + n
    BY <2>2
  <2>6. /\ new \in Seq(Byte) /\ Len(new) = (position + n) - b
        /\ \A i \in 1..((position + n) - b) : new[i] = content'[b + i]
    BY <2>2, <2>3, <2>5, CutShape
  <2> HIDE DEF old, new
  <2>7. \A i \in 1..Len(old) : new[i] = old[i]
    <3> TAKE i \in 1..Len(old)
    <3>1. i \in 1..((position + n) - b) /\ i \in 1..(position - b) /\ b + i \in 1..position
      BY <2>2, <2>4
    <3>2. QED BY <2>4, <2>6, <3>1
  <2>8. Len(old) <= Len(new)
    BY <2>2, <2>4, <2>6
  <2>9. SubSeq(new, 1, Len(old)) = SubSeq(old, 1, Len(old))
    BY <2>4, <2>6, <2>7, <2>8, 0 \in Nat, Len(old) \in Nat, 0 + 1 = 1, CutEqual
  <2>10. QED BY <2>1, <2>8, <2>9 DEF IsPrefix
<1>6. /\ Path \in Seq(TreeFrame) /\ Len(Path) = t
      /\ Path' \in Seq(TreeFrame) /\ Len(Path') = t
  <2>1. Path \in Seq(TreeFrame) /\ Len(Path) = Top
    BY PathType
  <2>2. (Path \in Seq(TreeFrame) /\ Len(Path) = Top)'
    BY PathType, PTL
  <2>3. QED BY <1>t, <1>1, <2>1, <2>2
<1>7. Front(Path') = Front(Path)
  <2>1. \A k \in 1..(Len(Path) - 1) : Path'[k] = Path[k]
    BY <1>3, <1>6
  <2>2. Len(Path) > 0 /\ Len(Path') = Len(Path)
    BY <1>t, <1>6
  <2>3. QED BY ONLY <1>6, <2>1, <2>2, FrontEqual
<1>8. QED BY <1>4, <1>5, <1>6, <1>7, ExtendOfPath

(* Nobody writes over a type in front of m.                                *)
LEMMA TypesKept ==
    ASSUME TreeInv, NEW m \in Nat, Top' \in Nat, Top' <= Top,
           \A k \in 2..Top' : /\ open'[k].start = open[k].start
                              /\ open'[k].type = open[k].type
                              /\ BodyOf(k) <= m,
           \A i \in 1..m : content'[i] = content[i]
    PROVE  TypesWritten'
<1> SUFFICES ASSUME NEW k \in 2..Top'
             PROVE  /\ content'[open'[k].start + 1] = Uint16(open'[k].type)[1]
                    /\ content'[open'[k].start + 2] = Uint16(open'[k].type)[2]
  BY DEF TypesWritten, Uint16
<1>1. Top \in Nat
  BY NestedFacts DEF TreeInv, EncoderInv, Top
<1>2. k \in 2..Top /\ k \in 1..Top /\ k # 1
  BY <1>1
<1>3. open[k].start \in Nat /\ BodyOf(k) = open[k].start + TL
  BY <1>2, Contained, Zenon DEF TreeInv
<1>4. open[k].start + 1 \in 1..m /\ open[k].start + 2 \in 1..m
  BY <1>3 DEF TL
<1>5. /\ content[open[k].start + 1] = Uint16(open[k].type)[1]
      /\ content[open[k].start + 2] = Uint16(open[k].type)[2]
  BY <1>2 DEF TreeInv, TypesWritten
<1>6. open'[k].start = open[k].start /\ open'[k].type = open[k].type
  OBVIOUS
<1>7. QED BY <1>4, <1>5, <1>6

LEMMA OverlayBytes ==
    ASSUME content \in Seq(Byte), NEW bytes \in Seq(Byte),
           NEW at \in Nat, at <= Len(content)
    PROVE  /\ \A i \in 1..Len(content) :
                 i <= at \/ i > at + Len(bytes) => Overlay(at, bytes)[i] = content[i]
           /\ \A j \in 1..Len(bytes) : Overlay(at, bytes)[at + j] = bytes[j]
<1> DEFINE end == at + Len(bytes)
           size == IF end > Len(content) THEN end ELSE Len(content)
<1>1. Len(content) \in Nat /\ Len(bytes) \in Nat /\ end \in Nat
  OBVIOUS
<1>2. Overlay(at, bytes) =
        [i \in 1..size |-> IF i \in (at + 1)..end THEN bytes[i - at] ELSE content[i]]
  BY DEF Overlay
<1>3. ASSUME NEW i \in 1..Len(content), i <= at \/ i > end
      PROVE  Overlay(at, bytes)[i] = content[i]
  <2>1. i \in 1..size /\ i \notin (at + 1)..end
    BY <1>1, <1>3
  <2>2. QED BY <1>2, <2>1
<1>4. ASSUME NEW j \in 1..Len(bytes) PROVE Overlay(at, bytes)[at + j] = bytes[j]
  <2>1. at + j \in 1..size /\ at + j \in (at + 1)..end /\ (at + j) - at = j
    BY <1>1
  <2>2. QED BY <1>2, <2>1
<1>5. QED BY <1>3, <1>4

LEMMA HeaderIs ==
    ASSUME NEW type \in Nat, NEW n \in Nat
    PROVE  LET bytes == Uint16(type) \o Uint16(n)
           IN /\ bytes[1] = Uint16(type)[1] /\ bytes[2] = Uint16(type)[2]
              /\ bytes[3] = Uint16(n)[1] /\ bytes[4] = Uint16(n)[2]
<1>1. PICK a \in Seq(Byte) : a = Uint16(type) /\ Len(a) = 2
  BY Uint16Bytes
<1>2. PICK b \in Seq(Byte) : b = Uint16(n) /\ Len(b) = 2
  BY Uint16Bytes
<1>3. /\ (a \o b)[1] = a[1] /\ (a \o b)[2] = a[2]
      /\ (a \o b)[3] = b[1] /\ (a \o b)[4] = b[2]
  <2>1. Len(a) = 2 /\ Len(b) = 2
    BY <1>1, <1>2
  <2>2. \A i \in 1..(Len(a) + Len(b)) :
           (a \o b)[i] = IF i <= Len(a) THEN a[i] ELSE b[i - Len(a)]
    BY ConcatProperties
  <2>3. \A i \in 1..4 : (a \o b)[i] = IF i <= 2 THEN a[i] ELSE b[i - 2]
    BY ONLY <2>1, <2>2
  <2> DEFINE c == a \o b
  <2>4. \A i \in 1..4 : c[i] = IF i <= 2 THEN a[i] ELSE b[i - 2]
    BY ONLY <2>3
  <2> HIDE DEF c
  <2>5. c[1] = a[1] /\ c[2] = a[2]
    BY ONLY <2>4
  <2>6. c[3] = b[1] /\ c[4] = b[2]
    <3>1. 3 \in 1..4 /\ ~(3 <= 2) /\ 3 - 2 = 1 /\ 4 \in 1..4 /\ ~(4 <= 2) /\ 4 - 2 = 2
      OBVIOUS
    <3>2. QED BY ONLY <2>4, <3>1
  <2>7. QED BY ONLY <2>5, <2>6 DEF c
<1>4. QED BY <1>1, <1>2, <1>3

(* A container opens behind the innermost one, which ends for now where    *)
(* the cursor was.                                                         *)
LEMMA OpenedPlaces ==
    ASSUME Nested, NEW type \in Nat, Opens(type), NEW t \in Nat, t = Len(open)
    PROVE  /\ Len(open') = t + 1
           /\ \A k \in 1..t : /\ open'[k] = open[k]
                              /\ BodyOf(k)' = BodyOf(k) /\ EndOf(k)' = EndOf(k)
           /\ open'[t + 1] = [type |-> type, start |-> position, inner |-> 0]
           /\ BodyOf(t + 1)' = position + TL /\ EndOf(t + 1)' = position + TL
<1> DEFINE new == [type |-> type, start |-> position, inner |-> 0]
<1>t. t = Len(open) /\ t \in 1..t
  BY NestedFacts
<1>1. open \in Seq(Frame) /\ new \in Frame
  BY NestedFacts DEF Nested, Frame
<1>2. new.start = position
  OBVIOUS
<1>3. open' = Append(open, new)
  BY DEF Opens
<1> HIDE DEF new
<1>4. /\ Len(open') = t + 1 /\ open'[t + 1] = new
      /\ \A k \in 1..t : open'[k] = open[k]
  BY <1>t, <1>1, <1>3
<1>5. ASSUME NEW k \in 1..t PROVE BodyOf(k)' = BodyOf(k) /\ EndOf(k)' = EndOf(k)
  <2>1. BodyOf(k)' = BodyOf(k)
    BY <1>4 DEF BodyOf
  <2>2. CASE k = t
    BY <1>t, <1>2, <1>4, <2>1, <2>2 DEF EndOf, Top
  <2>3. CASE k # t
    <3>1. k + 1 \in 1..t /\ k # t + 1
      BY <2>3
    <3>2. QED BY <1>t, <1>4, <2>1, <2>3, <3>1 DEF EndOf, Top
  <2>4. QED BY <2>1, <2>2, <2>3
<1>6. BodyOf(t + 1)' = position + TL /\ EndOf(t + 1)' = position + TL
  <2>1. t + 1 # 1
    BY <1>t
  <2>2. QED BY <1>2, <1>4, <2>1 DEF BodyOf, EndOf, Top, Opens
<1>7. QED BY <1>t, <1>4, <1>5, <1>6 DEF new

LEMMA OpeningOpens ==
    ASSUME TreeInv, EncoderInv', NEW type \in Nat, AppendContainer(type)
    PROVE  Tree!OpenContainer /\ TypesWritten'
<1>t. PICK t \in Nat : t = Top /\ t \in 1..t
  BY NestedFacts DEF TreeInv, EncoderInv, Top
<1> DEFINE bytes == Uint16(type) \o Uint16(0)
<1>1. bytes \in Seq(Byte) /\ Len(bytes) = TL
  BY 0 \in Nat, HeaderBytes
<1>2. bytes[1] = Uint16(type)[1] /\ bytes[2] = Uint16(type)[2]
  BY 0 \in Nat, HeaderIs
<1>3. /\ content' = Overlay(position, bytes) /\ position' = position + Len(bytes)
      /\ open' = Append(open, [type |-> type, start |-> position, inner |-> 0])
  BY DEF AppendContainer, Put
<1> HIDE DEF bytes
<1>4. Nested /\ Opens(type)
  BY <1>1, <1>3 DEF Opens, TreeInv, EncoderInv
<1>5. /\ Top' = t + 1
      /\ \A k \in 1..t : /\ open'[k] = open[k]
                         /\ BodyOf(k)' = BodyOf(k) /\ EndOf(k)' = EndOf(k)
      /\ open'[t + 1] = [type |-> type, start |-> position, inner |-> 0]
      /\ BodyOf(t + 1)' = position + TL /\ EndOf(t + 1)' = position + TL
  BY <1>t, <1>4, OpenedPlaces DEF Top
<1>6. content \in Seq(Byte) /\ position \in Nat /\ position <= Len(content)
  BY DEF TreeInv, EncoderInv, Nested, Buffered
<1>7. /\ \A i \in 1..position : content'[i] = content[i]
      /\ content'[position + 1] = Uint16(type)[1]
      /\ content'[position + 2] = Uint16(type)[2]
  <2>1. \A i \in 1..Len(content) : i <= position => content'[i] = content[i]
    BY <1>1, <1>3, <1>6, OverlayBytes
  <2>2. \A j \in 1..Len(bytes) : content'[position + j] = bytes[j]
    BY <1>1, <1>3, <1>6, OverlayBytes
  <2>3. QED BY <1>1, <1>2, <1>6, <2>1, <2>2 DEF TL
<1>8. ASSUME NEW k \in 1..t PROVE Path'[k] = Path[k]
  <2>1. BodyOf(k) \in Nat /\ EndOf(k) \in Nat /\ EndOf(k) <= position /\ EncoderInv
    BY <1>t, Contained, Zenon DEF TreeInv
  <2>2. \A i \in (BodyOf(k) + 1)..EndOf(k) : content'[i] = content[i]
    BY <1>6, <1>7, <2>1
  <2>3. k \in 1..Top' /\ k \in 1..Top
    BY <1>t, <1>5
  <2>4. /\ BodyOf(k)' = BodyOf(k) /\ EndOf(k)' = EndOf(k) /\ open'[k].type = open[k].type
    BY <1>5
  <2>5. QED BY <2>1, <2>2, <2>3, <2>4, ValueKept
<1>9. Path'[t + 1].value = <<>>
  <2>1. t + 1 \in 1..Top'
    BY <1>5
  <2>2. Path'[t + 1].value = SubSeq(content', (position + TL) + 1, position + TL)
    BY <1>5, <2>1 DEF Path, Value
  <2>3. position + TL \in Int /\ (position + TL) + 1 \in Int /\ position + TL < (position + TL) + 1
    BY <1>6 DEF TL
  <2>4. QED BY <2>2, <2>3, SubSeqEmpty
<1>10. /\ Path \in Seq(TreeFrame) /\ Len(Path) = t
       /\ Path' \in Seq(TreeFrame) /\ Len(Path') = t + 1
  <2>1. Path \in Seq(TreeFrame) /\ Len(Path) = Top
    BY PathType DEF TreeInv
  <2>2. (Path \in Seq(TreeFrame) /\ Len(Path) = Top)'
    BY PathType, PTL
  <2>3. QED BY <1>t, <1>5, <2>1, <2>2
<1>11. Front(Path') = Path
  <2>1. /\ Front(Path') \in Seq(TreeFrame) /\ Len(Front(Path')) = t
        /\ \A k \in 1..t : Front(Path')[k] = Path'[k]
    <3>1. Len(Path') > 0 /\ Len(Path') - 1 = t
      BY <1>10
    <3>2. QED BY <1>10, <3>1, FrontShape
  <2>2. QED BY <1>8, <1>10, <2>1, SeqEqual
<1>12. Tree!OpenContainer
  BY <1>9, <1>10, <1>11, OpenOfPath
<1>13. TypesWritten'
  <2> SUFFICES ASSUME NEW k \in 2..(t + 1)
               PROVE  /\ content'[open'[k].start + 1] = Uint16(open'[k].type)[1]
                      /\ content'[open'[k].start + 2] = Uint16(open'[k].type)[2]
    BY <1>5 DEF TypesWritten, Uint16
  <2>1. CASE k = t + 1
    BY <1>5, <1>7, <2>1
  <2>2. CASE k # t + 1
    <3>1. k \in 2..t /\ k \in 1..t /\ k # 1
      BY <2>2
    <3>2. open[k].start \in Nat /\ BodyOf(k) = open[k].start + TL
          /\ BodyOf(k) <= EndOf(k) /\ EndOf(k) <= position /\ EndOf(k) \in Nat
      BY <1>t, <3>1, Contained, Zenon DEF TreeInv
    <3>3. open[k].start + 1 \in 1..position /\ open[k].start + 2 \in 1..position
      <4>1. PICK at \in Nat : at = open[k].start
        BY <3>2
      <4>2. at + TL <= position
        BY ONLY <1>6, <3>2, <4>1 DEF TL
      <4>3. at + 1 \in 1..position /\ at + 2 \in 1..position
        BY ONLY <1>6, <4>2, at \in Nat DEF TL
      <4>4. QED BY ONLY <4>1, <4>3
    <3>4. /\ content[open[k].start + 1] = Uint16(open[k].type)[1]
          /\ content[open[k].start + 2] = Uint16(open[k].type)[2]
      BY <1>t, <3>1 DEF TreeInv, TypesWritten
    <3>5. QED BY <1>5, <1>7, <3>1, <3>3, <3>4
  <2>3. QED BY <2>1, <2>2
<1>14. QED BY <1>12, <1>13

(* Where the containers lie after the innermost was closed.                *)
LEMMA ClosedPlaces ==
    ASSUME Nested, NEW n \in Nat, Closes(n), NEW u \in Nat, u + 1 = Len(open)
    PROVE  /\ u > 0 /\ Len(open') = u
           /\ \A k \in 1..u : /\ open'[k].type = open[k].type
                              /\ open'[k].start = open[k].start
                              /\ BodyOf(k)' = BodyOf(k)
                              /\ k # u => EndOf(k)' = EndOf(k)
           /\ EndOf(u) = Start /\ EndOf(u)' = Start + n
           /\ EndOf(u + 1) = position /\ position' = Start + n
<1> DEFINE front == SubSeq(open, 1, u)
<1>1. /\ u > 0 /\ open \in Seq(Frame) /\ Start = open[u + 1].start
      /\ open' = Adding(front, n) /\ position' = Start + n
  BY DEF Nested, Closes, Top, Front, Start
<1>2. /\ front \in Seq(Frame) /\ Len(front) = u
      /\ \A k \in 1..u : front[k] = open[k]
  BY <1>1
<1> HIDE DEF front
<1>3. /\ Len(open') = u
      /\ \A k \in 1..u : open'[k].type = open[k].type /\ open'[k].start = open[k].start
  BY <1>1, <1>2, AddingShape
<1>4. \A k \in 1..u : BodyOf(k)' = BodyOf(k)
  BY <1>3 DEF BodyOf
<1>5. ASSUME NEW k \in 1..u, k # u PROVE EndOf(k)' = EndOf(k)
  <2>1. k + 1 \in 1..u /\ k # u + 1
    BY <1>5
  <2>2. QED BY <1>3, <1>5, <2>1 DEF EndOf, Top
<1>6. EndOf(u) = Start /\ EndOf(u + 1) = position
  <2>1. u # u + 1
    OBVIOUS
  <2>2. QED BY <1>1, <2>1 DEF EndOf, Top
<1>7. EndOf(u)' = Start + n
  BY <1>1, <1>3 DEF EndOf, Top
<1>8. QED BY <1>1, <1>3, <1>4, <1>5, <1>6, <1>7

(* The four bytes in front of the innermost container are its type and its *)
(* length, and no others were changed.                                     *)
Header == Uint16(open[Top].type) \o Uint16(Inner)
PatchedAt(s, header, old, new) ==
    /\ \A i \in 1..Len(old) : i <= s \/ i > s + TL => new[i] = old[i]
    /\ \A j \in 1..TL : new[s + j] = header[j]
HeaderPatched == PatchedAt(Start, Header, content, content')

(* So the bytes of the container around it are followed by a TLV.          *)
Joined(b, s, p, header, old, new) ==
    SubSeq(new, b + 1, p) =
       SubSeq(old, b + 1, s) \o (header \o SubSeq(old, (s + TL) + 1, p))
LEMMA ClosedValue ==
    ASSUME NEW old \in Seq(Byte), NEW new \in Seq(Byte), NEW header \in Seq(Byte),
           NEW b \in Nat, NEW s \in Nat, NEW p \in Nat,
           b <= s, s + TL <= p, p <= Len(old), p <= Len(new), Len(header) = TL,
           PatchedAt(s, header, old, new)
    PROVE  Joined(b, s, p, header, old, new)
<1> DEFINE first == SubSeq(old, b + 1, s)
           value == SubSeq(old, (s + TL) + 1, p)
           tlv == header \o value
           whole == SubSeq(new, b + 1, p)
<1>tl. TL = 4
  BY DEF TL
<1>p. /\ \A i \in 1..Len(old) : i <= s \/ i > s + TL => new[i] = old[i]
      /\ \A j \in 1..TL : new[s + j] = header[j]
  BY DEF PatchedAt
<1>1. /\ first \in Seq(Byte) /\ Len(first) = s - b
      /\ \A i \in 1..(s - b) : first[i] = old[b + i]
  <2>1. s <= Len(old)
    BY <1>tl
  <2>2. QED BY <2>1, CutShape
<1>2. /\ value \in Seq(Byte) /\ Len(value) = p - (s + TL)
      /\ \A i \in 1..(p - (s + TL)) : value[i] = old[(s + TL) + i]
  BY <1>tl, s + TL \in Nat, CutShape
<1>3. /\ whole \in Seq(Byte) /\ Len(whole) = p - b
      /\ \A i \in 1..(p - b) : whole[i] = new[b + i]
  <2>1. b <= p
    BY <1>tl
  <2>2. QED BY <2>1, CutShape
<1> HIDE DEF first, value, whole
<1>4. /\ tlv \in Seq(Byte) /\ Len(tlv) = p - s
      /\ \A i \in 1..(p - s) : tlv[i] = IF i <= TL THEN header[i] ELSE value[i - TL]
  <2>1. /\ tlv \in Seq(Byte) /\ Len(tlv) = Len(header) + Len(value)
        /\ \A i \in 1..(Len(header) + Len(value)) :
              tlv[i] = IF i <= Len(header) THEN header[i] ELSE value[i - Len(header)]
    BY ONLY <1>2, header \in Seq(Byte), ConcatProperties
  <2>2. Len(header) + Len(value) = p - s
    BY <1>2, <1>tl
  <2> HIDE DEF tlv
  <2>3. QED BY ONLY <2>1, <2>2, Len(header) = TL
<1> HIDE DEF tlv
<1> DEFINE all == first \o tlv
<1>5. /\ all \in Seq(Byte) /\ Len(all) = p - b
      /\ \A i \in 1..(p - b) : all[i] = IF i <= s - b THEN first[i] ELSE tlv[i - (s - b)]
  <2>1. /\ all \in Seq(Byte) /\ Len(all) = Len(first) + Len(tlv)
        /\ \A i \in 1..(Len(first) + Len(tlv)) :
              all[i] = IF i <= Len(first) THEN first[i] ELSE tlv[i - Len(first)]
    BY ONLY <1>1, <1>4, ConcatProperties
  <2>2. Len(first) + Len(tlv) = p - b
    BY <1>1, <1>4
  <2> HIDE DEF all
  <2>3. QED BY ONLY <1>1, <2>1, <2>2
<1> HIDE DEF all
<1>6. ASSUME NEW i \in 1..(p - b) PROVE whole[i] = all[i]
  <2>1. CASE i <= s - b
    <3>1. i \in 1..(s - b) /\ b + i \in 1..Len(old) /\ b + i <= s
      BY <1>tl, <2>1
    <3>2. QED BY <1>1, <1>3, <1>5, <1>p, <2>1, <3>1
  <2>2. CASE i > s - b /\ i - (s - b) <= TL
    <3>1. /\ i - (s - b) \in 1..TL /\ i - (s - b) \in 1..(p - s) /\ ~(i <= s - b)
          /\ s + (i - (s - b)) = b + i
      BY <1>tl, <2>2
    <3>2. all[i] = tlv[i - (s - b)]
      BY <1>5, <3>1
    <3>3. tlv[i - (s - b)] = header[i - (s - b)]
      BY <1>4, <2>2, <3>1
    <3>4. new[s + (i - (s - b))] = header[i - (s - b)]
      BY <1>p, <3>1
    <3>5. QED BY <1>3, <3>1, <3>2, <3>3, <3>4
  <2>3. CASE i > s - b /\ i - (s - b) > TL
    <3> DEFINE j == (i - (s - b)) - TL
    <3>1. /\ i - (s - b) \in 1..(p - s) /\ ~(i - (s - b) <= TL) /\ ~(i <= s - b)
          /\ j \in 1..(p - (s + TL)) /\ (s + TL) + j = b + i
          /\ b + i \in 1..Len(old) /\ b + i > s + TL
      BY <1>tl, <2>3
    <3>2. all[i] = tlv[i - (s - b)]
      BY <1>5, <3>1
    <3>3. tlv[i - (s - b)] = value[j]
      BY <1>4, <3>1
    <3>4. value[j] = old[b + i]
      BY <1>2, <3>1
    <3>5. new[b + i] = old[b + i]
      BY <1>p, <3>1
    <3>6. QED BY <1>3, <3>2, <3>3, <3>4, <3>5
  <2>4. i \in Int /\ s - b \in Int /\ i - (s - b) \in Int /\ TL \in Int
    BY <1>tl
  <2>5. QED BY <2>1, <2>2, <2>3, <2>4
<1>7. whole = all
  BY <1>3, <1>5, <1>6, SeqEqual
<1>8. QED BY <1>7 DEF Joined, whole, all, first, tlv, value

LEMMA ClosingCloses ==
    ASSUME TreeInv, EncoderInv', NEW n \in Nat, Closes(n), n = position - Start,
           HeaderPatched
    PROVE  Tree!CloseContainer /\ TypesWritten'
<1>0. Nested /\ EncoderInv
  BY DEF TreeInv, EncoderInv
<1>s. PICK s \in Nat, p \in Nat : s = Start /\ p = position
  BY <1>0, InnermostFacts
<1>u. PICK u \in Nat : u + 1 = Len(open) /\ u > 0 /\ Top = u + 1
  <2>1. Len(open) \in Nat /\ Len(open) > 1
    BY <1>0, NestedFacts DEF Closes, Top
  <2>2. (Len(open) - 1) + 1 = Len(open) /\ Len(open) - 1 \in Nat /\ Len(open) - 1 > 0
    BY <2>1
  <2>3. QED BY <2>2 DEF Top
<1>1. /\ Top' = u
      /\ \A k \in 1..u : /\ open'[k].type = open[k].type
                         /\ open'[k].start = open[k].start
                         /\ BodyOf(k)' = BodyOf(k)
                         /\ k # u => EndOf(k)' = EndOf(k)
      /\ EndOf(u) = Start /\ EndOf(u)' = Start + n
      /\ EndOf(u + 1) = position /\ position' = Start + n
  BY <1>0, <1>u, ClosedPlaces DEF Top
<1>2. /\ s \in Nat /\ p \in Nat /\ s + TL <= p /\ Inner = p - (s + TL) /\ Inner \in Nat
      /\ open[u + 1].type \in Nat /\ BodyOf(u + 1) = s + TL
      /\ p <= Len(content) /\ Len(content) \in Nat /\ content \in Seq(Byte)
  <2>1. u + 1 \in 1..Top /\ u + 1 # 1
    BY <1>u
  <2>2. /\ open[u + 1].start \in Nat /\ position \in Nat /\ open[u + 1].type \in Nat
        /\ BodyOf(u + 1) = open[u + 1].start + TL /\ BodyOf(u + 1) <= EndOf(u + 1)
        /\ open[u + 1].inner = EndOf(u + 1) - BodyOf(u + 1)
        /\ position <= Len(content) /\ Len(content) \in Nat /\ content \in Seq(Byte)
    BY <1>0, <2>1, Contained, Zenon
  <2>3. Start = open[u + 1].start /\ Inner = open[u + 1].inner
    BY <1>u DEF Start, Inner
  <2>4. EndOf(u + 1) = p /\ open[u + 1].start = s /\ position = p
    BY <1>s, <1>1, <2>3
  <2>5. BodyOf(u + 1) = s + TL /\ s + TL <= p /\ Inner = p - (s + TL) /\ TL = 4
    BY <2>2, <2>3, <2>4 DEF TL
  <2>6. p - (s + TL) \in Nat
    BY ONLY <2>5, s \in Nat, p \in Nat
  <2>7. QED BY <2>2, <2>4, <2>5, <2>6
<1>3. s + n = p /\ position' = p /\ EndOf(u)' = p
  BY <1>s, <1>1
<1>4. content' \in Seq(Byte) /\ p <= Len(content')
  BY <1>3 DEF EncoderInv, Buffered
<1>5. \A i \in 1..s : content'[i] = content[i]
  BY <1>s, <1>2 DEF HeaderPatched, PatchedAt, TL
<1>6. Header \in Seq(Byte) /\ Len(Header) = TL
  BY <1>u, <1>2, HeaderBytes DEF Header
<1>7. ASSUME NEW k \in 1..u
      PROVE  /\ BodyOf(k) \in Nat /\ EndOf(k) \in Nat /\ BodyOf(k) <= EndOf(k)
             /\ EndOf(k) <= s /\ k \in 1..Top /\ k \in 1..Top'
  <2>1. k \in 1..Top /\ u + 1 \in 1..Top /\ k < u + 1
    BY <1>u
  <2>2. BodyOf(k) \in Nat /\ EndOf(k) \in Nat /\ BodyOf(k) <= EndOf(k)
    BY <1>0, <2>1, Contained, Zenon
  <2>3. EndOf(k) <= open[u + 1].start
    BY <1>0, <2>1, StartsFollow DEF Follow
  <2>4. s = open[u + 1].start
    BY <1>s, <1>u DEF Start
  <2>5. QED BY <1>1, <2>1, <2>2, <2>3, <2>4
<1>8. ASSUME NEW k \in 1..u, k # u PROVE Path'[k] = Path[k]
  <2>1. \A i \in (BodyOf(k) + 1)..EndOf(k) : content'[i] = content[i]
    BY <1>2, <1>5, <1>7
  <2>2. /\ BodyOf(k)' = BodyOf(k) /\ EndOf(k)' = EndOf(k)
        /\ open'[k].type = open[k].type
    BY <1>1, <1>8
  <2>3. QED BY <1>0, <1>7, <2>1, <2>2, ValueKept
<1>9. /\ u \in 1..u /\ u \in 1..Top /\ u + 1 \in 1..Top /\ u \in 1..Top'
  BY <1>1, <1>u
<1>10. /\ Path[u].value = SubSeq(content, BodyOf(u) + 1, s)
       /\ Path[u + 1].value = SubSeq(content, (s + TL) + 1, p)
       /\ Path'[u].value = SubSeq(content', BodyOf(u) + 1, p)
       /\ Path[u].type = open[u].type /\ Path[u + 1].type = open[u + 1].type
       /\ Path'[u].type = open[u].type
  <2>1. BodyOf(u)' = BodyOf(u) /\ open'[u].type = open[u].type
    BY <1>1, <1>9
  <2>2. QED BY <1>s, <1>1, <1>2, <1>3, <1>9, <2>1 DEF Path, Value
<1>11. Path'[u].value = Path[u].value \o (Header \o Path[u + 1].value)
  <2>1. PICK b \in Nat : b = BodyOf(u) /\ b <= s
    BY <1>s, <1>1, <1>7, <1>9
  <2>2. PatchedAt(s, Header, content, content')
    BY <1>s DEF HeaderPatched
  <2>3. PICK header \in Seq(Byte) : header = Header /\ Len(header) = TL
    BY <1>6
  <2>4. PICK old \in Seq(Byte), new \in Seq(Byte) : old = content /\ new = content'
    BY <1>2, <1>4
  <2>5. SubSeq(new, b + 1, p) =
           SubSeq(old, b + 1, s) \o (header \o SubSeq(old, (s + TL) + 1, p))
    <3>1. PatchedAt(s, header, old, new)
      BY ONLY <2>2, <2>3, <2>4
    <3>3. s + TL <= p
      BY ONLY <1>2
    <3>4. p <= Len(old)
      BY ONLY <1>2, <2>4
    <3>5. p <= Len(new)
      BY ONLY <1>4, <2>4
    <3>6. b <= s /\ Len(header) = TL
      BY ONLY <2>1, <2>3
    <3>7. b \in Nat /\ s \in Nat /\ p \in Nat /\ header \in Seq(Byte)
          /\ old \in Seq(Byte) /\ new \in Seq(Byte)
      BY <2>1, <2>3, <2>4
    <3>8. Joined(b, s, p, header, old, new)
      BY <3>1, <3>3, <3>4, <3>5, <3>6, <3>7, ClosedValue
    <3>9. QED BY <3>8 DEF Joined
  <2>6. Path[u].value = SubSeq(old, b + 1, s)
    BY <1>10, <2>1, <2>4
  <2>7. Path[u + 1].value = SubSeq(old, (s + TL) + 1, p)
    BY <1>10, <2>4
  <2>8. Path'[u].value = SubSeq(new, b + 1, p)
    BY <1>10, <2>1, <2>4
  <2>9. QED BY ONLY <2>3, <2>5, <2>6, <2>7, <2>8
<1>12. /\ Path \in Seq(TreeFrame) /\ Len(Path) = u + 1
       /\ Path' \in Seq(TreeFrame) /\ Len(Path') = u
  <2>1. Path \in Seq(TreeFrame) /\ Len(Path) = Top
    BY <1>0, PathType
  <2>2. (Path \in Seq(TreeFrame) /\ Len(Path) = Top)'
    BY PathType, PTL
  <2>3. QED BY <1>u, <1>1, <2>1, <2>2
<1>13. Header = Uint16(Path[u + 1].type) \o Uint16(Len(Path[u + 1].value))
  <2>1. Path[u + 1].type = open[Top].type
    BY <1>u, <1>10
  <2>2. Len(Path[u + 1].value) = Inner
    <3>1. Path[u + 1] = [type |-> open[u + 1].type, value |-> Value(u + 1)]
          /\ Len(Value(u + 1)) = open[u + 1].inner
      BY <1>0, <1>9, Contained, Zenon
    <3>2. QED BY <1>u, <3>1 DEF Inner
  <2>3. QED BY <2>1, <2>2 DEF Header
<1>14. Path' = [Front(Path) EXCEPT ![u].value = @ \o (Header \o Path[u + 1].value)]
  <2> DEFINE F == Front(Path)
             value == F[u].value \o (Header \o Path[u + 1].value)
             last == [F[u] EXCEPT !.value = value]
             E == [F EXCEPT ![u] = last]
  <2>1. /\ F \in Seq(TreeFrame) /\ Len(F) = u
        /\ \A k \in 1..u : F[k] = Path[k]
    <3>1. Len(Path) > 0 /\ Len(Path) - 1 = u
      BY <1>12
    <3>2. QED BY <1>12, <3>1, FrontShape
  <2> HIDE DEF F
  <2>2. F[u] = Path[u] /\ Path[u] \in TreeFrame /\ Path'[u] \in TreeFrame
    BY <1>9, <1>12, <2>1
  <2>3. value = Path'[u].value
    BY <1>11, <2>2
  <2> HIDE DEF value
  <2>4. Path'[u].type = Path[u].type
    BY <1>10
  <2>5. last = Path'[u]
    BY <2>2, <2>3, <2>4 DEF TreeFrame
  <2> HIDE DEF last
  <2>6. /\ E \in Seq(TreeFrame) /\ Len(E) = u
        /\ \A k \in 1..u : E[k] = IF k = u THEN last ELSE F[k]
    BY <1>9, <2>1, <2>2, <2>5, ExceptSeq
  <2>7. \A k \in 1..u : E[k] = Path'[k]
    BY <1>8, <2>1, <2>5, <2>6
  <2> HIDE DEF E
  <2>8. Path' = E
    BY <1>12, <2>6, <2>7, SeqEqual
  <2>9. QED BY <2>8 DEF E, last, value, F
<1>15. Tree!CloseContainer
  <2>1. Len(Path) > 1 /\ Len(Path) - 1 = u
    BY <1>u, <1>12
  <2>2. QED BY <1>12, <1>13, <1>14, <2>1, CloseOfPath
<1>16. TypesWritten'
  <2>1. s \in Nat /\ Top' \in Nat /\ Top' <= Top
    BY <1>u, <1>1, <1>2
  <2>2. \A k \in 2..Top' : /\ open'[k].start = open[k].start
                           /\ open'[k].type = open[k].type
                           /\ BodyOf(k) <= s
    <3> TAKE k \in 2..Top'
    <3>1. k \in 1..u
      BY <1>1
    <3>2. BodyOf(k) <= s
      <4>1. BodyOf(k) \in Nat /\ EndOf(k) \in Nat /\ BodyOf(k) <= EndOf(k) /\ EndOf(k) <= s
        BY <1>7, <3>1
      <4>2. QED BY ONLY <4>1, s \in Nat
    <3>3. QED BY <1>1, <3>1, <3>2
  <2>3. QED BY <1>5, <2>1, <2>2, TypesKept
<1>17. QED BY <1>15, <1>16

(* The first two bytes of the innermost container's header are there since *)
(* it was opened, and its length is behind them.                           *)
LEMMA InnermostHeader ==
    ASSUME TreeInv, Top > 1
    PROVE  /\ Start \in Nat /\ Inner \in Nat /\ open[Top].type \in Nat
           /\ position \in Nat /\ position = Start + TL + Inner
           /\ content \in Seq(Byte) /\ Len(content) \in Nat /\ position <= Len(content)
           /\ Header \in Seq(Byte) /\ Len(Header) = TL
           /\ Header[1] = content[Start + 1] /\ Header[2] = content[Start + 2]
           /\ Header[3] = Uint16(Inner)[1] /\ Header[4] = Uint16(Inner)[2]
<1>0. EncoderInv /\ Nested
  BY DEF TreeInv, EncoderInv
<1>t. PICK t \in Nat : t = Top /\ t \in 2..t /\ t \in 1..t
  BY <1>0, NestedFacts DEF Top
<1>1. /\ Start \in Nat /\ Inner \in Nat /\ position \in Nat
      /\ Inner = position - Start - TL
  BY <1>0, InnermostFacts
<1>2. open[Top].type \in Nat /\ content \in Seq(Byte) /\ Len(content) \in Nat
      /\ position <= Len(content)
  BY <1>0, <1>t, Contained, Zenon
<1>3. position = Start + TL + Inner
  BY ONLY <1>1 DEF TL
<1>4. Header \in Seq(Byte) /\ Len(Header) = TL
  BY <1>1, <1>2, HeaderBytes DEF Header
<1>5. /\ Header[1] = Uint16(open[Top].type)[1] /\ Header[2] = Uint16(open[Top].type)[2]
      /\ Header[3] = Uint16(Inner)[1] /\ Header[4] = Uint16(Inner)[2]
  BY <1>1, <1>2, HeaderIs DEF Header
<1>6. /\ content[Start + 1] = Uint16(open[Top].type)[1]
      /\ content[Start + 2] = Uint16(open[Top].type)[2]
  BY <1>t DEF TreeInv, TypesWritten, Start
<1>7. QED BY ONLY <1>1, <1>2, <1>3, <1>4, <1>5, <1>6

(* SetContainerLength: the type was written when the container opened, and *)
(* nobody has written over it.                                             *)
LEMMA LengthPatched ==
    ASSUME TreeInv, Top > 1, LengthAt(Start, Inner)
    PROVE  HeaderPatched
<1>s. PICK s \in Nat, p \in Nat : s = Start /\ p = Len(content) /\ s + 4 <= p
  BY InnermostHeader DEF TL
<1>b. PICK bytes \in Seq(Byte) : bytes = Uint16(Inner) /\ Len(bytes) = 2
  BY InnermostHeader, Uint16Bytes
<1>h. PICK header \in Seq(Byte) : header = Header
  BY InnermostHeader
<1>1. content' = Overlay(s + 2, bytes)
  BY <1>s, <1>b DEF LengthAt
<1>2. content \in Seq(Byte) /\ s + 2 \in Nat /\ s + 2 <= Len(content)
  BY <1>s, InnermostHeader
<1>3. /\ \A i \in 1..p : i <= s + 2 \/ i > (s + 2) + 2 => content'[i] = content[i]
      /\ \A j \in 1..2 : content'[(s + 2) + j] = bytes[j]
  <2>1. /\ \A i \in 1..Len(content) :
              i <= s + 2 \/ i > (s + 2) + Len(bytes) => Overlay(s + 2, bytes)[i] = content[i]
        /\ \A j \in 1..Len(bytes) : Overlay(s + 2, bytes)[(s + 2) + j] = bytes[j]
    BY <1>2, OverlayBytes
  <2>2. QED BY ONLY <1>s, <1>b, <1>1, <2>1
<1>4. /\ header[1] = content[s + 1] /\ header[2] = content[s + 2]
      /\ header[3] = bytes[1] /\ header[4] = bytes[2]
  BY <1>s, <1>b, <1>h, InnermostHeader
<1>5. /\ content'[s + 1] = header[1] /\ content'[s + 2] = header[2]
  <2>1. /\ s + 1 \in 1..p /\ s + 2 \in 1..p /\ s + 1 <= s + 2 /\ s + 2 <= s + 2
    BY <1>s
  <2>2. QED BY <1>3, <1>4, <2>1
<1>6. /\ content'[s + 3] = header[3] /\ content'[s + 4] = header[4]
  <2>1. (s + 2) + 1 = s + 3 /\ (s + 2) + 2 = s + 4 /\ 1 \in 1..2 /\ 2 \in 1..2
    OBVIOUS
  <2>2. content'[(s + 2) + 1] = bytes[1] /\ content'[(s + 2) + 2] = bytes[2]
    BY <1>3, <2>1
  <2>3. QED BY <1>4, <2>1, <2>2
<1>7. \A j \in 1..TL : content'[s + j] = header[j]
  <2>1. \A j \in 1..TL : j = 1 \/ j = 2 \/ j = 3 \/ j = 4
    BY DEF TL
  <2>2. QED BY <1>5, <1>6, <2>1
<1>8. \A i \in 1..p : i <= s \/ i > s + TL => content'[i] = content[i]
  <2> SUFFICES ASSUME NEW i \in 1..p, i <= s \/ i > s + TL PROVE content'[i] = content[i]
    OBVIOUS
  <2>1. i <= s + 2 \/ i > (s + 2) + 2
    BY <1>s DEF TL
  <2>2. QED BY <1>3, <2>1
<1>9. PatchedAt(s, header, content, content')
  BY <1>s, <1>7, <1>8 DEF PatchedAt
<1>10. QED BY <1>s, <1>h, <1>9 DEF HeaderPatched

(* The hash group's codec writes both.                                     *)
LEMMA HeaderRewritten ==
    ASSUME TreeInv, Top > 1, content' = Overlay(Start, Header)
    PROVE  HeaderPatched
<1>s. PICK s \in Nat : s = Start /\ s <= Len(content)
  BY InnermostHeader DEF TL
<1>h. PICK header \in Seq(Byte) : header = Header /\ Len(header) = TL
  BY InnermostHeader
<1>1. /\ \A i \in 1..Len(content) :
            i <= s \/ i > s + Len(header) => Overlay(s, header)[i] = content[i]
      /\ \A j \in 1..Len(header) : Overlay(s, header)[s + j] = header[j]
  BY <1>s, InnermostHeader, OverlayBytes
<1>2. content' = Overlay(s, header)
  BY <1>s, <1>h
<1>3. PatchedAt(s, header, content, content')
  BY ONLY <1>h, <1>1, <1>2 DEF PatchedAt
<1>4. QED BY <1>s, <1>h, <1>3 DEF HeaderPatched

(* However a container is closed, the tree closes it.                      *)
LEMMA CloseStep ==
    ASSUME TreeInv, EncoderInv', CloseMeasured \/ CloseCounted \/ CloseRewritten
    PROVE  Tree!CloseContainer /\ TypesWritten'
<1>1. Top > 1 /\ position' = position
  BY DEF CloseMeasured, CloseCounted, CloseRewritten
<1>2. PICK n \in Nat : n = position - Start /\ n = Inner + TL /\ position = Start + n
                       /\ position - Inner - TL = Start
  <2>1. PICK s \in Nat, i \in Nat, p \in Nat :
           s = Start /\ i = Inner /\ p = position /\ p = s + TL + i
    BY <1>1, InnermostHeader
  <2>2. /\ i + TL \in Nat /\ i + TL = p - s /\ p = s + (i + TL) /\ p - i - TL = s
    BY ONLY <2>1, s \in Nat, i \in Nat, p \in Nat DEF TL
  <2>3. QED BY ONLY <2>1, <2>2
<1>3. Closed(n)
  BY <1>2 DEF CloseMeasured, CloseCounted, CloseRewritten
<1>4. Closes(n)
  BY <1>1, <1>2, <1>3 DEF Closes, Closed
<1>5. HeaderPatched
  <2>1. CASE CloseMeasured
    BY <1>1, <2>1, LengthPatched DEF CloseMeasured
  <2>2. CASE CloseCounted
    BY <1>1, <2>2, LengthPatched DEF CloseCounted
  <2>3. CASE CloseRewritten
    <3>1. content' = Overlay(Start, Header)
      BY <1>2, <2>3 DEF CloseRewritten, Header
    <3>2. QED BY <1>1, <3>1, HeaderRewritten
  <2>4. QED BY <2>1, <2>2, <2>3
<1>6. QED BY <1>2, <1>4, <1>5, ClosingCloses

(* A container that is taken back leaves the ones around it as they were.  *)
LEMMA EraseStep ==
    ASSUME TreeInv, EncoderInv', CloseErased
    PROVE  Tree!DropContainer /\ TypesWritten'
<1>0. EncoderInv /\ Nested
  BY DEF TreeInv, EncoderInv
<1>u. PICK u \in Nat : u + 1 = Len(open) /\ Top = u + 1
  <2>1. Len(open) \in Nat /\ Len(open) > 1
    BY <1>0, NestedFacts DEF CloseErased, Top
  <2>2. (Len(open) - 1) + 1 = Len(open) /\ Len(open) - 1 \in Nat
    BY <2>1
  <2>3. QED BY <2>2 DEF Top
<1>s. PICK s \in Nat : s = Start /\ Inner = 0 /\ position' = s + 0 /\ content' = content
  BY <1>0, InnermostFacts DEF CloseErased
<1>1. Closes(0)
  BY <1>s DEF Closes, Closed, CloseErased
<1>2. /\ u > 0 /\ Top' = u
      /\ \A k \in 1..u : /\ open'[k].type = open[k].type
                         /\ open'[k].start = open[k].start
                         /\ BodyOf(k)' = BodyOf(k)
                         /\ k # u => EndOf(k)' = EndOf(k)
      /\ EndOf(u) = s /\ EndOf(u)' = s
  <2>1. 0 \in Nat /\ s + 0 = s
    OBVIOUS
  <2>2. QED BY <1>0, <1>u, <1>s, <1>1, <2>1, ClosedPlaces DEF Top
<1>3. ASSUME NEW k \in 1..u
      PROVE  /\ k \in 1..Top /\ k \in 1..Top' /\ EndOf(k)' = EndOf(k)
             /\ BodyOf(k) \in Nat /\ EndOf(k) \in Nat /\ BodyOf(k) <= EndOf(k)
             /\ EndOf(k) <= s
  <2>1. k \in 1..Top /\ k \in 1..Top' /\ u + 1 \in 1..Top /\ k < u + 1
    BY <1>u, <1>2
  <2>2. BodyOf(k) \in Nat /\ EndOf(k) \in Nat /\ BodyOf(k) <= EndOf(k)
    BY <1>0, <2>1, Contained, Zenon
  <2>3. EndOf(k) <= open[u + 1].start /\ s = open[u + 1].start
    BY <1>0, <1>s, <1>u, <2>1, StartsFollow DEF Follow, Start
  <2>4. QED BY <1>2, <2>1, <2>2, <2>3
<1>4. ASSUME NEW k \in 1..u PROVE Path'[k] = Path[k]
  BY <1>0, <1>s, <1>2, <1>3, ValueKept
<1>5. /\ Path \in Seq(TreeFrame) /\ Len(Path) = u + 1
      /\ Path' \in Seq(TreeFrame) /\ Len(Path') = u
  <2>1. Path \in Seq(TreeFrame) /\ Len(Path) = Top
    BY <1>0, PathType
  <2>2. (Path \in Seq(TreeFrame) /\ Len(Path) = Top)'
    BY PathType, PTL
  <2>3. QED BY <1>u, <1>2, <2>1, <2>2
<1>6. Path[u + 1].value = <<>>
  <2>1. u + 1 \in 1..Top
    BY <1>u
  <2>2. /\ Path[u + 1] = [type |-> open[u + 1].type, value |-> Value(u + 1)]
        /\ Value(u + 1) \in Seq(Byte) /\ Len(Value(u + 1)) = open[u + 1].inner
    BY <1>0, <2>1, Contained, Zenon
  <2>3. open[u + 1].inner = 0
    BY <1>s, <1>u DEF Inner
  <2>4. Value(u + 1) = <<>>
    BY <2>2, <2>3, EmptySeq
  <2>5. QED BY <2>2, <2>4
<1>7. Path' = Front(Path)
  <2>1. Len(Path) > 0 /\ Len(Path) - 1 = u
    BY <1>5
  <2>2. /\ Front(Path) \in Seq(TreeFrame) /\ Len(Front(Path)) = u
        /\ \A k \in 1..u : Front(Path)[k] = Path[k]
    BY <1>5, <2>1, FrontShape
  <2>3. QED BY <1>4, <1>5, <2>2, SeqEqual
<1>8. Tree!DropContainer
  BY <1>2, <1>5, <1>6, <1>7, DropOfPath
<1>9. TypesWritten'
  <2>1. Top' \in Nat /\ Top' <= Top
    BY <1>u, <1>2
  <2>2. \A k \in 2..Top' : /\ open'[k].start = open[k].start
                           /\ open'[k].type = open[k].type
                           /\ BodyOf(k) <= s
    <3> TAKE k \in 2..Top'
    <3>1. k \in 1..u
      BY <1>2
    <3>2. BodyOf(k) <= s
      BY <1>3, <3>1
    <3>3. QED BY <1>2, <3>1, <3>2
  <2>3. \A i \in 1..s : content'[i] = content[i]
    BY <1>s
  <2>4. QED BY <2>1, <2>2, <2>3, TypesKept
<1>10. QED BY <1>8, <1>9

(* A value, with or without a header, extends the innermost container.     *)
LEMMA GrowthStep ==
    ASSUME TreeInv, EncoderInv', NEW bytes \in Seq(Byte), Put(bytes),
           open' = Adding(open, Len(bytes))
    PROVE  Tree!Extend /\ TypesWritten'
<1>0. EncoderInv /\ Nested
  BY DEF TreeInv, EncoderInv
<1>p. PICK p \in Nat : p = position /\ p <= Len(content)
  BY <1>0 DEF EncoderInv, Nested, Buffered
<1>n. PICK n \in Nat : n = Len(bytes)
  OBVIOUS
<1>1. Grows(n)
  BY <1>n DEF Grows, Put
<1>2. \A i \in 1..p : content'[i] = content[i]
  <2>1. content \in Seq(Byte) /\ content' = Overlay(p, bytes)
    BY <1>0, <1>p DEF EncoderInv, Buffered, Put
  <2>2. \A i \in 1..Len(content) : i <= p => content'[i] = content[i]
    BY <1>p, <2>1, OverlayBytes
  <2>3. QED BY <1>p, <2>1, <2>2
<1>3. Tree!Extend
  BY <1>0, <1>p, <1>1, <1>2, GrowthExtends
<1>4. Top \in Nat /\ Top' = Top
      /\ \A k \in 1..Top : open'[k].type = open[k].type /\ open'[k].start = open[k].start
  BY <1>0, <1>1, GrownPlaces, NestedFacts DEF Top
<1>5. \A k \in 2..Top' : /\ open'[k].start = open[k].start
                         /\ open'[k].type = open[k].type
                         /\ BodyOf(k) <= p
  <2> TAKE k \in 2..Top'
  <2>1. k \in 1..Top
    BY <1>4
  <2>2. /\ BodyOf(k) \in Nat /\ EndOf(k) \in Nat /\ BodyOf(k) <= EndOf(k)
        /\ EndOf(k) <= position
    BY <1>0, <2>1, Contained, Zenon
  <2>3. BodyOf(k) <= p
    BY ONLY <1>p, <2>2, p \in Nat
  <2>4. QED BY <1>4, <2>1, <2>3
<1>6. Top' \in Nat /\ Top' <= Top
  BY <1>4
<1>7. QED BY <1>2, <1>3, <1>5, <1>6, TypesKept

LEMMA TlvBytes ==
    ASSUME NEW type \in Nat, NEW value \in Seq(Byte)
    PROVE  /\ Uint16(type) \o Uint16(Len(value)) \o value \in Seq(Byte)
           /\ Len(Uint16(type) \o Uint16(Len(value)) \o value) = TL + Len(value)
<1>1. PICK header \in Seq(Byte) : header = Uint16(type) \o Uint16(Len(value))
                                  /\ Len(header) = TL
  BY Len(value) \in Nat, HeaderBytes
<1>2. header \o value \in Seq(Byte) /\ Len(header \o value) = Len(header) + Len(value)
  BY ConcatBytes
<1>3. QED BY <1>1, <1>2

LEMMA AppendStep ==
    ASSUME TreeInv, EncoderInv', NEW type \in Nat, NEW value \in Seq(Byte),
           AppendTlv(type, value)
    PROVE  Tree!Extend /\ TypesWritten'
<1>1. PICK bytes \in Seq(Byte) : bytes = Uint16(type) \o Uint16(Len(value)) \o value
                                 /\ Len(bytes) = TL + Len(value)
  BY TlvBytes
<1>2. Put(bytes) /\ open' = Adding(open, Len(bytes))
  BY <1>1 DEF AppendTlv
<1>3. QED BY <1>2, GrowthStep

(* Steps that leave every container as long as it was                      *)
LEMMA SamePath ==
    ASSUME TreeInv, EncoderInv', UNCHANGED <<position, open>>,
           \A i \in 1..position : content'[i] = content[i]
    PROVE  Path' = Path /\ TypesWritten'
<1>0. EncoderInv /\ Nested
  BY DEF TreeInv, EncoderInv
<1>1. Top \in Nat /\ Top' = Top /\ position \in Nat
  BY <1>0, NestedFacts DEF Top
<1>2. ASSUME NEW k \in 1..Top
      PROVE  /\ BodyOf(k)' = BodyOf(k) /\ EndOf(k)' = EndOf(k)
             /\ BodyOf(k) \in Nat /\ EndOf(k) \in Nat /\ BodyOf(k) <= EndOf(k)
             /\ EndOf(k) <= position
  <2>1. /\ BodyOf(k) \in Nat /\ EndOf(k) \in Nat /\ BodyOf(k) <= EndOf(k)
        /\ EndOf(k) <= position
    BY <1>0, Contained, Zenon
  <2>2. BodyOf(k)' = BodyOf(k) /\ EndOf(k)' = EndOf(k)
    BY DEF BodyOf, EndOf, Top
  <2>3. QED BY <2>1, <2>2
<1>3. ASSUME NEW k \in 1..Top PROVE Path'[k] = Path[k]
  <2>1. \A i \in (BodyOf(k) + 1)..EndOf(k) : content'[i] = content[i]
    BY <1>1, <1>2
  <2>2. k \in 1..Top' /\ open'[k].type = open[k].type
    BY <1>1
  <2>3. QED BY <1>0, <1>2, <2>1, <2>2, ValueKept
<1>4. Path' = Path
  <2>1. Path \in Seq(TreeFrame) /\ Len(Path) = Top
    BY <1>0, PathType
  <2>2. (Path \in Seq(TreeFrame) /\ Len(Path) = Top)'
    BY PathType, PTL
  <2>3. QED BY <1>1, <1>3, <2>1, <2>2, SeqEqual
<1>5. TypesWritten'
  <2>1. \A k \in 2..Top' : /\ open'[k].start = open[k].start
                           /\ open'[k].type = open[k].type
                           /\ BodyOf(k) <= position
    <3> TAKE k \in 2..Top'
    <3>1. k \in 1..Top
      BY <1>1
    <3>2. BodyOf(k) <= position
      BY <1>1, <1>2, <3>1
    <3>3. QED BY <3>2
  <2>2. Top' \in Nat /\ Top' <= Top
    BY <1>1
  <2>3. QED BY <1>1, <2>1, <2>2, TypesKept
<1>6. QED BY <1>4, <1>5

(* The fixed header is written again: the packet keeps its length and      *)
(* everything behind the header.                                           *)
LEMMA HeaderStep ==
    ASSUME TreeInv, EncoderInv', NEW header \in Seq(Byte), PatchHeader(header)
    PROVE  Tree!SetHeader /\ TypesWritten'
<1>0. EncoderInv /\ Nested
  BY DEF TreeInv, EncoderInv
<1>1. /\ Top = 1 /\ Top' = 1 /\ Start = 0 /\ Inner = position /\ EndOf(1) = position
      /\ Len(header) = HeaderSize /\ HeaderSize <= position
      /\ content' = Overlay(0, header) /\ open' = open /\ position' = position
  BY <1>0, InnermostFacts DEF PatchHeader, Top
<1>2. BodyOf(1) = 0 /\ BodyOf(1)' = 0 /\ EndOf(1)' = position
  BY <1>0, <1>1 DEF BodyOf, EndOf, Nested
<1>p. PICK p \in Nat : p = position /\ p <= Len(content) /\ content \in Seq(Byte)
                       /\ HeaderSize \in Nat /\ HeaderSize <= p
  BY <1>0, <1>1, EncoderAssumption DEF EncoderInv, Nested, Buffered
<1>3. content' \in Seq(Byte) /\ p <= Len(content')
  BY <1>1, <1>p DEF EncoderInv, Buffered
<1>4. \A i \in 1..Len(content) : i > HeaderSize => content'[i] = content[i]
  <2>1. \A i \in 1..Len(content) : i > 0 + Len(header) => content'[i] = content[i]
    BY <1>1, <1>p, OverlayBytes, 0 \in Nat, 0 <= Len(content)
  <2>2. 0 + Len(header) = HeaderSize
    BY <1>1, <1>p
  <2>3. QED BY <2>1, <2>2
<1> DEFINE old == SubSeq(content, 0 + 1, p)
           new == SubSeq(content', 0 + 1, p)
<1>5. Len(Path) = 1 /\ Len(Path') = 1
  BY <1>1 DEF Path
<1>6. Path[1].value = old /\ Path'[1].value = new
  <2>1. 1 \in 1..Top /\ 1 \in 1..Top'
    BY <1>1
  <2>2. Path[1].value = SubSeq(content, BodyOf(1) + 1, EndOf(1))
    BY <2>1 DEF Path, Value
  <2>3. Path'[1].value = SubSeq(content', BodyOf(1)' + 1, EndOf(1)')
    BY <2>1 DEF Path, Value
  <2>4. QED BY ONLY <1>1, <1>2, <1>p, <2>2, <2>3
<1>7. Len(old) = p - 0 /\ \A i \in 1..(p - 0) : old[i] = content[0 + i]
  BY <1>p, CutShape
<1>8. Len(new) = p - 0 /\ \A i \in 1..(p - 0) : new[i] = content'[0 + i]
  BY <1>p, <1>3, CutShape
<1> HIDE DEF old, new
<1>9. Len(new) = Len(old) /\ \A i \in (HeaderSize + 1)..Len(old) : new[i] = old[i]
  <2>1. Len(new) = Len(old) /\ Len(old) = p
    BY <1>7, <1>8
  <2>2. ASSUME NEW i \in (HeaderSize + 1)..p PROVE new[i] = old[i]
    <3>1. i \in 1..(p - 0) /\ 0 + i = i /\ i \in 1..Len(content) /\ i > HeaderSize
      BY <1>p
    <3>2. QED BY <1>4, <1>7, <1>8, <3>1
  <2>3. QED BY <2>1, <2>2
<1>10. Tree!SetHeader
  BY <1>5, <1>6, <1>9, HeaderOfPath
<1>11. TypesWritten'
  BY <1>1 DEF TypesWritten
<1>12. QED BY <1>10, <1>11

(* What Finalize cuts off lies behind the cursor, in no container.         *)
LEMMA FinalizeStep ==
    ASSUME TreeInv, EncoderInv', Finalize
    PROVE  Path' = Path /\ TypesWritten'
<1>1. content \in Seq(Byte) /\ position \in Nat /\ position <= Len(content)
  BY DEF TreeInv, EncoderInv, Nested, Buffered
<1>2. \A i \in 1..position : content'[i] = content[i]
  BY <1>1 DEF Finalize
<1>3. QED BY <1>2, SamePath DEF Finalize

----------------------------------------------------------------------------
(* The refinement *)

LEMMA TreeInitial == ClientInit => Tree!TreeInit /\ TypesWritten
<1> SUFFICES ASSUME ClientInit PROVE Tree!TreeInit /\ TypesWritten
  OBVIOUS
<1>1. /\ position = 0 /\ content = <<>> /\ Len(open) = 1
      /\ open[1] = [type |-> 0, start |-> 0, inner |-> 0]
  BY DEF ClientInit, TlvInit
<1>2. EncoderInv
  BY InitEncoderInv
<1>3. Path \in Seq(TreeFrame) /\ Len(Path) = 1
  BY <1>1, <1>2, PathType DEF Top
<1>4. Path[1] = [type |-> 0, value |-> <<>>]
  <2>1. 1 \in 1..Top
    BY <1>1 DEF Top
  <2>2. /\ Path[1] = [type |-> open[1].type, value |-> Value(1)]
        /\ Value(1) \in Seq(Byte) /\ Len(Value(1)) = open[1].inner
    BY <1>2, <2>1, Contained, Zenon
  <2>3. open[1].type = 0 /\ open[1].inner = 0
    BY <1>1
  <2>4. Value(1) = <<>>
    BY <2>2, <2>3, EmptySeq
  <2>5. QED BY <2>2, <2>3, <2>4
<1>5. Path = <<[type |-> 0, value |-> <<>>]>>
  <2> DEFINE first == [type |-> 0, value |-> <<>>]
  <2>1. Path = <<Path[1]>>
    BY <1>3
  <2>2. QED BY <1>4, <2>1
<1>6. Tree!TreeInit
  BY <1>5 DEF Tree!TreeInit, Path, Value
<1>7. TypesWritten
  BY <1>1 DEF TypesWritten, Top
<1>8. QED BY <1>6, <1>7

LEMMA TreeStep ==
    TreeInv /\ EncoderInv' /\ [ClientNext]_tlvVars
        => (Tree!TreeNext \/ Path' = Path) /\ TypesWritten'
<1> SUFFICES ASSUME TreeInv, EncoderInv', [ClientNext]_tlvVars
             PROVE  (Tree!TreeNext \/ Path' = Path) /\ TypesWritten'
  OBVIOUS
<1>0. \A value \in Values : value \in Seq(Byte)
  BY OctetsAreBytes, ClientAssumption DEF Values
<1>1. CASE ClientAppend
  <2>1. PICK type \in Types, value \in Values : AppendTlv(type, value)
    BY <1>1 DEF ClientAppend
  <2>2. type \in Nat /\ value \in Seq(Byte)
    BY <1>0, ClientAssumption
  <2>3. QED BY <2>1, <2>2, AppendStep DEF Tree!TreeNext
<1>2. CASE ClientAppendRaw
  <2>1. PICK value \in Values : AppendRaw(value)
    BY <1>2 DEF ClientAppendRaw
  <2>2. value \in Seq(Byte) /\ Put(value) /\ open' = Adding(open, Len(value))
    BY <1>0, <2>1 DEF AppendRaw
  <2>3. QED BY <2>2, GrowthStep DEF Tree!TreeNext
<1>3. CASE ClientOpen
  <2>1. PICK type \in Types : AppendContainer(type)
    BY <1>3 DEF ClientOpen
  <2>2. type \in Nat
    BY ClientAssumption
  <2>3. QED BY <2>1, <2>2, OpeningOpens DEF Tree!TreeNext
<1>4. CASE CloseMeasured \/ CloseCounted \/ CloseRewritten
  BY <1>4, CloseStep DEF Tree!TreeNext
<1>5. CASE CloseErased
  BY <1>5, EraseStep DEF Tree!TreeNext
<1>6. CASE ClientMarkStart \/ ClientMarkEnd
  <2>1. UNCHANGED <<position, open>> /\ content' = content
    BY <1>6 DEF ClientMarkStart, ClientMarkEnd, MarkSignatureStart, MarkSignatureEnd
  <2>2. QED BY <2>1, SamePath
<1>7. CASE ClientPatchHeader
  <2>1. PICK header \in Headers : PatchHeader(header)
    BY <1>7 DEF ClientPatchHeader
  <2>2. header \in Seq(Byte)
    BY EncoderAssumption, OctetsAreBytes DEF Headers
  <2>3. QED BY <2>1, <2>2, HeaderStep DEF Tree!TreeNext
<1>8. CASE Finalize
  BY <1>8, FinalizeStep
<1>9. CASE UNCHANGED tlvVars
  <2>1. UNCHANGED <<position, open>> /\ content' = content
    BY <1>9 DEF tlvVars
  <2>2. QED BY <2>1, SamePath
<1>10. QED BY <1>1, <1>2, <1>3, <1>4, <1>5, <1>6, <1>7, <1>8, <1>9 DEF ClientNext

(* Whatever the order of the calls, and however the containers are closed, *)
(* the encoder builds the tree TlvTree describes: no patched length, type  *)
(* or header, and no container taken back, changes a byte of another.      *)
THEOREM BuildsTree == ClientSpec => ImplementsTlvTree
<1>1. ClientInit => Tree!TreeInit /\ TypesWritten
  BY TreeInitial
<1>2. EncoderInv /\ TypesWritten /\ EncoderInv' /\ [ClientNext]_tlvVars
        => (Tree!TreeNext \/ Path' = Path) /\ TypesWritten'
  BY TreeStep DEF TreeInv
<1>3. Path' = Path <=> UNCHANGED [k \in 1..Top |->
                          [type |-> open[k].type,
                           value |-> SubSeq(content, BodyOf(k) + 1, EndOf(k))]]
  BY DEF Path, Value
<1>4. QED BY <1>1, <1>2, <1>3, InitEncoderInv, NextEncoderInv, PTL
          DEF ClientSpec, ImplementsTlvTree, Tree!TreeSpec

----------------------------------------------------------------------------
(* Dictionaries: what each put keeps of IsDictionary *)

Fields(d) == DOMAIN d \ (CustomLists \cup {"type", "hashGroups"})

LEMMA EntryShape ==
    ASSUME NEW kind, NEW value
    PROVE  DOMAIN Entry(kind, value) = {kind} /\ Entry(kind, value)[kind] = value
BY DEF Entry

IsUpdate(e, d, key, value) ==
    /\ DOMAIN e = DOMAIN d \cup {key}
    /\ e[key] = value
    /\ \A k \in DOMAIN d : k # key => e[k] = d[k]

LEMMA UpdatedShape ==
    ASSUME NEW d, NEW key, NEW value
    PROVE  IsUpdate(Updated(d, key, value), d, key, value)
BY DEF Updated, IsUpdate

LEMMA FieldPut ==
    ASSUME NEW d, IsDictionary(d), NEW key, NEW kind, NEW value,
           key \notin CustomLists \cup {"type", "hashGroups"},
           value \in ValuesOf(key, kind)
    PROVE  IsDictionary(Updated(d, key, Entry(kind, value)))
<1> DEFINE entry == Entry(kind, value)
           e == Updated(d, key, entry)
<1>1. DOMAIN entry = {kind} /\ entry[kind] = value
  BY EntryShape
<1> HIDE DEF entry
<1>2. IsUpdate(e, d, key, entry)
  BY UpdatedShape
<1> HIDE DEF e
<1>3. "type" \in DOMAIN e
  BY <1>2 DEF IsDictionary, IsUpdate
<1>4. \A list \in CustomLists \cap DOMAIN e : e[list] \in Seq(ListEntry)
  BY <1>2 DEF IsDictionary, IsUpdate
<1>5. "hashGroups" \in DOMAIN e => e.hashGroups \in Seq(HashGroupValue)
  BY <1>2 DEF IsDictionary, IsUpdate
<1>6. ASSUME NEW k \in DOMAIN e \ (CustomLists \cup {"type", "hashGroups"}),
             NEW i \in DOMAIN e[k]
      PROVE  e[k][i] \in ValuesOf(k, i)
  <2>1. CASE k = key
    BY <1>1, <1>2, <2>1 DEF IsUpdate
  <2>2. CASE k # key
    BY <1>2, <2>2 DEF IsDictionary, IsUpdate
  <2> QED
    BY <2>1, <2>2
<1>7. IsDictionary(e)
  BY <1>3, <1>4, <1>5, <1>6 DEF IsDictionary
<1> QED
  BY <1>7 DEF e, entry

LEMMA NewPut ==
    ASSUME NEW d, IsDictionary(d), NEW key, NEW kind, NEW value,
           key \notin CustomLists \cup {"type", "hashGroups"},
           value \in ValuesOf(key, kind)
    PROVE  IsDictionary(PutNew(d, key, Entry(kind, value)))
BY FieldPut DEF PutNew

LEMMA IntegerPut ==
    ASSUME NEW d, IsDictionary(d), NEW key, NEW v,
           key \notin CustomLists \cup {"type", "hashGroups"},
           v \in ValuesOf(key, "integer")
    PROVE  IsDictionary(PutInteger(d, key, v))
BY FieldPut DEF PutInteger

LEMMA TypePut ==
    ASSUME NEW d, IsDictionary(d), NEW t
    PROVE  IsDictionary(Updated(d, "type", t))
<1> DEFINE e == Updated(d, "type", t)
<1>1. IsUpdate(e, d, "type", t)
  BY UpdatedShape
<1> HIDE DEF e
<1>2. IsDictionary(e)
  BY <1>1 DEF IsDictionary, CustomLists, IsUpdate
<1> QED
  BY <1>2 DEF e

LEMMA GroupsPut ==
    ASSUME NEW d, IsDictionary(d), NEW groups \in Seq(HashGroupValue)
    PROVE  IsDictionary(Updated(d, "hashGroups", groups))
<1> DEFINE e == Updated(d, "hashGroups", groups)
<1>1. IsUpdate(e, d, "hashGroups", groups)
  BY UpdatedShape
<1> HIDE DEF e
<1>2. IsDictionary(e)
  BY <1>1 DEF IsDictionary, CustomLists, IsUpdate
<1> QED
  BY <1>2 DEF e

LEMMA ListPut ==
    ASSUME NEW d, IsDictionary(d), NEW list \in CustomLists,
           NEW type \in Nat, NEW value \in Bytes
    PROVE  IsDictionary(PutList(d, list, type, value))
<1>0. PICK first \in ListEntry : first = [type |-> type, value |-> value]
  BY DEF ListEntry
<1>a. <<first>> \in Seq(ListEntry)
  OBVIOUS
<1>1. PICK new \in Seq(ListEntry) : new = <<first>>
  BY ONLY <1>a
<1>2. PICK whole \in Seq(ListEntry) :
        whole = IF list \in DOMAIN d THEN new \o d[list] ELSE new
  <2>1. CASE list \in DOMAIN d
    <3>1. PICK old \in Seq(ListEntry) : old = d[list]
      BY <2>1 DEF IsDictionary
    <3>2. new \o old \in Seq(ListEntry)
      BY ConcatProperties
    <3> QED
      BY <2>1, <3>1, <3>2
  <2>2. CASE list \notin DOMAIN d
    BY <2>2
  <2> QED
    BY <2>1, <2>2
<1> DEFINE e == Updated(d, list, whole)
<1>3. IsUpdate(e, d, list, whole)
  BY UpdatedShape
<1>4. PutList(d, list, type, value) = e
  BY <1>0, <1>1, <1>2 DEF PutList
<1> HIDE DEF e
<1>5. list # "type" /\ list # "hashGroups"
  BY DEF CustomLists
<1>6. IsDictionary(e)
  <2>1. "type" \in DOMAIN e
    BY <1>3 DEF IsDictionary, IsUpdate
  <2>2. \A l \in CustomLists \cap DOMAIN e : e[l] \in Seq(ListEntry)
    BY <1>3 DEF IsDictionary, IsUpdate
  <2>3. "hashGroups" \in DOMAIN e => e.hashGroups \in Seq(HashGroupValue)
    BY <1>3, <1>5 DEF IsDictionary, IsUpdate
  <2>4. ASSUME NEW k \in DOMAIN e \ (CustomLists \cup {"type", "hashGroups"})
        PROVE  \A i \in DOMAIN e[k] : e[k][i] \in ValuesOf(k, i)
    BY <1>3 DEF IsDictionary, IsUpdate
  <2> QED
    BY <2>1, <2>2, <2>3, <2>4 DEF IsDictionary
<1> QED
  BY <1>4, <1>6

----------------------------------------------------------------------------
(* Cursors: what the decoder reads with stays in the packet and in the     *)
(* container it was given.                                                 *)

Whole(c) ==
    c = [b |-> c.b, at |-> c.at, limit |-> c.limit, d |-> c.d, ok |-> c.ok,
         start |-> c.start, stop |-> c.stop]

Cursor(b, c) ==
    /\ c.at \in Nat /\ c.limit \in Nat /\ c.at <= c.limit /\ c.limit <= Len(b)
    /\ c.start \in 0..c.at /\ c.stop \in 0..c.at
    /\ c.b = b /\ c.ok \in BOOLEAN /\ IsDictionary(c.d)
    /\ Whole(c)

(* r is such a cursor in the same container as c. *)
In(b, c, r) == Cursor(b, r) /\ r.limit = c.limit

LEMMA JudgedCursor ==
    ASSUME NEW b, NEW c, Cursor(b, c), NEW o \in BOOLEAN
    PROVE  In(b, c, [c EXCEPT !.ok = o])
BY DEF In, Cursor, Whole

LEMMA BadCursor ==
    ASSUME NEW b, NEW c, Cursor(b, c)
    PROVE  In(b, c, Decoder!Bad(c))
<1>1. PICK o \in BOOLEAN : o = FALSE
  OBVIOUS
<1>2. Decoder!Bad(c) = [c EXCEPT !.ok = o]
  BY <1>1 DEF Decoder!Bad
<1> QED
  BY <1>2, JudgedCursor

LEMMA FilledCursor ==
    ASSUME NEW b, NEW c, Cursor(b, c), NEW d, IsDictionary(d)
    PROVE  In(b, c, Decoder!Filled(c, d)) /\ Decoder!Filled(c, d).at = c.at
BY DEF In, Cursor, Whole, Decoder!Filled

LEMMA AdvancedCursor ==
    ASSUME NEW b, NEW c, Cursor(b, c), NEW n \in Nat, c.at + n <= c.limit
    PROVE  /\ In(b, c, Decoder!Advance(c, n))
           /\ Decoder!Advance(c, n).at = c.at + n
           /\ Decoder!Advance(c, n).d = c.d
           /\ Decoder!Advance(c, n).ok = c.ok
BY DEF In, Cursor, Whole, Decoder!Advance

LEMMA InsideCursor ==
    ASSUME NEW b, NEW c, Cursor(b, c), NEW n \in Nat, c.at + n <= c.limit
    PROVE  /\ Cursor(b, Decoder!Inside(c, n))
           /\ Decoder!Inside(c, n).limit = c.at + n
           /\ Decoder!Inside(c, n).at = c.at
BY DEF Cursor, Whole, Decoder!Inside

LEMMA LeftCursor ==
    ASSUME NEW b, NEW c, Cursor(b, c), NEW inner, Cursor(b, inner),
           inner.limit <= c.limit
    PROVE  In(b, c, Decoder!Leave(inner, c))
BY DEF In, Cursor, Whole, Decoder!Leave

LEMMA ByteAt ==
    ASSUME NEW b \in Bytes, NEW i \in 1..Len(b)
    PROVE  b[i] \in 0..255
<1>1. b \in Seq(0..255)
  BY DEF Bytes
<1> QED
  BY ONLY <1>1, ElementOfSeq

LEMMA U16Type ==
    ASSUME NEW b \in Bytes, NEW at \in Nat, at + 2 <= Len(b)
    PROVE  Decoder!U16(b, at) \in Nat
<1>1. Len(b) \in Nat
  BY DEF Bytes
<1>2. PICK i \in 1..Len(b) : i = at + 1
  BY <1>1
<1>3. PICK j \in 1..Len(b) : j = at + 2
  BY <1>1
<1>4. PICK x \in 0..255 : x = b[i]
  BY ByteAt
<1>5. PICK y \in 0..255 : y = b[j]
  BY ByteAt
<1>6. x * 256 + y \in Nat
  BY ONLY TRUE
<1> QED
  BY <1>2, <1>3, <1>4, <1>5, <1>6 DEF Decoder!U16

(* What EnsureRemaining has made sure of *)
LEMMA TlvFits ==
    ASSUME NEW b \in Bytes, NEW c, Cursor(b, c), Decoder!HasTlv(c)
    PROVE  /\ Decoder!TypeAt(c) \in Nat /\ Decoder!LengthAt(c) \in Nat
           /\ c.at + (4 + Decoder!LengthAt(c)) <= c.limit
           /\ (c.at + 4) + Decoder!LengthAt(c) <= c.limit
           /\ c.at + 4 <= c.limit
<1>1. /\ c.at \in Nat /\ c.limit \in Nat /\ c.limit <= Len(b) /\ c.b = b
      /\ c.limit - c.at >= 4 /\ Len(b) \in Nat
  BY DEF Cursor, Decoder!HasTlv, Decoder!Remaining, Bytes
<1>2. /\ c.at + 2 <= Len(b) /\ (c.at + 2) + 2 <= Len(b) /\ c.at + 2 \in Nat
  BY <1>1
<1>3. Decoder!TypeAt(c) \in Nat /\ Decoder!LengthAt(c) \in Nat
  BY <1>1, <1>2, U16Type DEF Decoder!TypeAt, Decoder!LengthAt
<1>4. (c.limit - c.at) - 4 >= Decoder!LengthAt(c)
  BY DEF Decoder!HasTlv, Decoder!Remaining, Decoder!LengthAt
<1> QED
  BY <1>1, <1>3, <1>4

LEMMA SliceType ==
    ASSUME NEW b \in Bytes, NEW c, Cursor(b, c), NEW n \in Nat,
           c.at + n <= c.limit
    PROVE  Decoder!Slice(c, n) \in Bytes /\ Len(Decoder!Slice(c, n)) = n
<1>1. PICK first \in Int : first = c.at + 1
  BY DEF Cursor
<1>2. PICK last \in Int : last = c.at + n
  BY DEF Cursor
<1>0. PICK at \in Nat : at = c.at /\ at + n <= Len(b) /\ Len(b) \in Nat
  <2>1. Len(b) \in Nat
    BY DEF Bytes
  <2> QED
    BY <2>1 DEF Cursor
<1>3. /\ first >= 1 /\ last <= Len(b) /\ Len(b) \in Nat
      /\ (IF first <= last THEN last - first + 1 ELSE 0) = n
  <2>1. first = at + 1 /\ last = at + n /\ at + n <= Len(b) /\ Len(b) \in Nat
    BY <1>0, <1>1, <1>2
  <2> QED
    BY ONLY <2>1, at \in Nat, n \in Nat
<1>4. \A i \in first..last : b[i] \in 0..255
  <2> TAKE i \in first..last
  <2>1. i \in 1..Len(b)
    BY <1>3
  <2> QED
    BY <2>1, ByteAt
<1>5. /\ SubSeq(b, first, last) \in Seq(0..255)
      /\ Len(SubSeq(b, first, last)) = IF first <= last THEN last - first + 1 ELSE 0
  BY ONLY <1>4, SubSeqProperties
<1>6. Decoder!Slice(c, n) = SubSeq(b, first, last)
  BY <1>1, <1>2 DEF Decoder!Slice, Cursor
<1> QED
  BY <1>3, <1>5, <1>6 DEF Bytes

----------------------------------------------------------------------------
(* The decoder's operators on dictionaries are those of the encoder.       *)

LEMMA SameUpdated ==
    ASSUME NEW d, NEW key, NEW value
    PROVE  Decoder!Updated(d, key, value) = Updated(d, key, value)
BY DEF Decoder!Updated, Updated

LEMMA SameEntry ==
    ASSUME NEW kind, NEW value
    PROVE  Decoder!Entry(kind, value) = Entry(kind, value)
BY DEF Decoder!Entry, Entry

LEMMA SamePutNew ==
    ASSUME NEW d, NEW key, NEW entry
    PROVE  Decoder!PutNew(d, key, entry) = PutNew(d, key, entry)
BY SameUpdated DEF Decoder!PutNew, PutNew, Decoder!CanPut, CanPut

LEMMA SamePutInteger ==
    ASSUME NEW d, NEW key, NEW v
    PROVE  Decoder!PutInteger(d, key, v) = PutInteger(d, key, v)
BY SameUpdated, SameEntry DEF Decoder!PutInteger, PutInteger

LEMMA SamePutList ==
    ASSUME NEW d, NEW list, NEW type, NEW value
    PROVE  Decoder!PutList(d, list, type, value) = PutList(d, list, type, value)
BY SameUpdated DEF Decoder!PutList, PutList

----------------------------------------------------------------------------
(* Integers of any number of bytes *)

IntegerRound(p, i, x) == x * 256 + p[i]
IntegerGood(p, x) == x \in Nat
Integers == INSTANCE Iteration WITH Round <- IntegerRound, Good <- IntegerGood

LEMMA IntegerType ==
    ASSUME NEW bytes \in Bytes
    PROVE  Decoder!BytesToInt(bytes) \in Nat
<1>1. Len(bytes) \in Nat
  BY DEF Bytes
<1>2. Decoder!BytesToInt(bytes) = Integers!Iterated(bytes, 0, Len(bytes))
  BY DEF Decoder!BytesToInt, Integers!Iterated, IntegerRound
<1>3. ASSUME NEW i \in 1..Len(bytes), NEW x, IntegerGood(bytes, x)
      PROVE  IntegerGood(bytes, IntegerRound(bytes, i, x))
  <2>1. PICK y \in 0..255 : y = bytes[i]
    BY ByteAt
  <2>2. PICK v \in Nat : v = x
    BY <1>3 DEF IntegerGood
  <2>3. v * 256 + y \in Nat
    BY ONLY TRUE
  <2> QED
    BY <2>1, <2>2, <2>3 DEF IntegerGood, IntegerRound
<1>4. IntegerGood(bytes, 0)
  BY DEF IntegerGood
<1>5. IntegerGood(bytes, Integers!Iterated(bytes, 0, Len(bytes)))
  BY <1>1, <1>3, <1>4, Integers!LoopKeeps
<1> QED
  BY <1>2, <1>5 DEF IntegerGood

----------------------------------------------------------------------------
(* The puts: c has n bytes left in its container. *)

PlainKey(key) == key \notin CustomLists \cup {"type", "hashGroups"}

LEMMA PutAsIn ==
    ASSUME NEW b, NEW c, Cursor(b, c), NEW n \in Nat, c.at + n <= c.limit,
           NEW key, PlainKey(key), NEW kind, NEW value, value \in ValuesOf(key, kind)
    PROVE  In(b, c, Decoder!PutAs(c, n, key, Decoder!Entry(kind, value)))
<1> DEFINE further == Decoder!Advance(c, n)
           d == PutNew(c.d, key, Entry(kind, value))
<1>1. In(b, c, further)
  BY AdvancedCursor
<1>2. IsDictionary(d)
  BY NewPut DEF Cursor, PlainKey
<1>3. d = Decoder!PutNew(c.d, key, Decoder!Entry(kind, value))
  BY SamePutNew, SameEntry
<1> HIDE DEF further, d
<1>4. In(b, c, Decoder!Filled(further, d))
  BY <1>1, <1>2, FilledCursor DEF In
<1>5. In(b, c, Decoder!Bad(c))
  BY BadCursor
<1> QED
  BY <1>3, <1>4, <1>5 DEF Decoder!PutAs, further

LEMMA PutAsBufferIn ==
    ASSUME NEW b \in Bytes, NEW c, Cursor(b, c), NEW n \in Nat, c.at + n <= c.limit,
           NEW key, PlainKey(key)
    PROVE  In(b, c, Decoder!PutAsBuffer(c, n, key))
<1>1. Decoder!Slice(c, n) \in ValuesOf(key, "buffer")
  BY SliceType DEF ValuesOf
<1> QED
  BY <1>1, PutAsIn DEF Decoder!PutAsBuffer

LEMMA PutIntegerIn ==
    ASSUME NEW b, NEW c, Cursor(b, c), NEW n \in Nat, c.at + n <= c.limit,
           NEW key, PlainKey(key), NEW v, v \in ValuesOf(key, "integer")
    PROVE  In(b, c, Decoder!Filled(Decoder!Advance(c, n), Decoder!PutInteger(c.d, key, v)))
<1> DEFINE further == Decoder!Advance(c, n)
           d == PutInteger(c.d, key, v)
<1>1. In(b, c, further)
  BY AdvancedCursor
<1>2. IsDictionary(d)
  BY IntegerPut DEF Cursor, PlainKey
<1>3. d = Decoder!PutInteger(c.d, key, v)
  BY SamePutInteger
<1> HIDE DEF further, d
<1>4. In(b, c, Decoder!Filled(further, d))
  BY <1>1, <1>2, FilledCursor DEF In
<1> QED
  BY <1>3, <1>4 DEF further

LEMMA PutAsIntegerIn ==
    ASSUME NEW b \in Bytes, NEW c, Cursor(b, c), NEW n \in Nat, c.at + n <= c.limit,
           NEW key, PlainKey(key), key \notin DOMAIN Enumerated
    PROVE  In(b, c, Decoder!PutAsInteger(c, n, key))
<1> DEFINE v == Decoder!BytesToInt(Decoder!Slice(c, n))
<1>1. v \in ValuesOf(key, "integer")
  BY SliceType, IntegerType DEF ValuesOf
<1> HIDE DEF v
<1>2. In(b, c, Decoder!Filled(Decoder!Advance(c, n), Decoder!PutInteger(c.d, key, v)))
  BY <1>1, PutIntegerIn
<1>3. In(b, c, Decoder!Bad(c))
  BY BadCursor
<1> QED
  BY <1>2, <1>3 DEF Decoder!PutAsInteger, v

LEMMA PutAsListBufferIn ==
    ASSUME NEW b \in Bytes, NEW c, Cursor(b, c), NEW n \in Nat, c.at + n <= c.limit,
           NEW list \in CustomLists, NEW type \in Nat
    PROVE  In(b, c, Decoder!PutAsListBuffer(c, n, list, type))
<1> DEFINE further == Decoder!Advance(c, n)
           d == PutList(c.d, list, type, Decoder!Slice(c, n))
<1>1. In(b, c, further)
  BY AdvancedCursor
<1>2. IsDictionary(d)
  BY SliceType, ListPut DEF Cursor
<1>3. d = Decoder!PutList(c.d, list, type, Decoder!Slice(c, n))
  BY SamePutList
<1> HIDE DEF further, d
<1>4. In(b, c, Decoder!Filled(further, d))
  BY <1>1, <1>2, FilledCursor DEF In
<1> QED
  BY <1>3, <1>4 DEF Decoder!PutAsListBuffer, further

LEMMA PutPayloadTypeIn ==
    ASSUME NEW b \in Bytes, NEW c, Cursor(b, c), NEW n \in Nat, c.at + n <= c.limit
    PROVE  In(b, c, Decoder!PutPayloadType(c, n))
<1> DEFINE known == {t \in DOMAIN Decoder!PayloadType :
                        Decoder!PayloadType[t] = Decoder!BytesToInt(Decoder!Slice(c, n))}
           v == CHOOSE t \in known : TRUE
<1>1. CASE known # {}
  <2>1. v \in known
    BY <1>1
  <2> HIDE DEF v
  <2>2. v \in {"DATA", "KEY", "LINK"}
    BY <2>1 DEF Decoder!PayloadType
  <2>3. v \in ValuesOf("payloadType", "integer") /\ PlainKey("payloadType")
    <3>1. v \in DOMAIN PayloadType
      BY <2>2 DEF PayloadType
    <3>2. DOMAIN PayloadType \subseteq ValuesOf("payloadType", "integer")
      BY DEF ValuesOf, Enumerated
    <3>3. PlainKey("payloadType")
      BY DEF PlainKey, CustomLists
    <3> QED
      BY <3>1, <3>2, <3>3
  <2>4. In(b, c, Decoder!Filled(Decoder!Advance(c, n),
                                Decoder!PutInteger(c.d, "payloadType", v)))
    BY <2>3, PutIntegerIn
  <2>5. In(b, c, Decoder!Bad(c))
    BY BadCursor
  <2> QED
    BY <1>1, <2>4, <2>5 DEF Decoder!PutPayloadType, v
<1>2. CASE known = {}
  <2>1. In(b, c, Decoder!Bad(c))
    BY BadCursor
  <2> QED
    BY <1>2, <2>1 DEF Decoder!PutPayloadType
<1> QED
  BY <1>1, <1>2

LEMMA PutAsHashIn ==
    ASSUME NEW b \in Bytes, NEW c, Cursor(b, c), NEW limit, NEW key, PlainKey(key)
    PROVE  In(b, c, Decoder!PutAsHash(c, limit, key))
<1> DEFINE n == Decoder!LengthAt(c)
           digest == Decoder!Slice(Decoder!Advance(c, 4), n)
           fitting == {t \in DOMAIN Decoder!HashType :
                          Decoder!HashType[t] = Decoder!TypeAt(c) /\ Decoder!ValidHash(t, digest)}
           t0 == CHOOSE t \in fitting : TRUE
           hash == [type |-> t0, digest |-> digest]
<1>0. In(b, c, Decoder!Bad(c))
  BY BadCursor
<1>1. CASE Decoder!HasTlv(c) /\ fitting # {}
  <2>1. n \in Nat /\ c.at + (4 + n) <= c.limit /\ (c.at + 4) + n <= c.limit /\ c.at + 4 <= c.limit
    BY <1>1, TlvFits
  <2>2. digest \in Bytes
    <3>1. In(b, c, Decoder!Advance(c, 4)) /\ Decoder!Advance(c, 4).at = c.at + 4
      BY <2>1, AdvancedCursor
    <3> QED
      BY <2>1, <3>1, SliceType DEF In
  <2>3. t0 \in DOMAIN HashType
    BY <1>1 DEF Decoder!HashType, HashType
  <2> HIDE DEF n, digest, t0, fitting
  <2>4. hash \in ValuesOf(key, "hash")
    BY <2>2, <2>3 DEF ValuesOf, HashValue
  <2> HIDE DEF hash
  <2>5. In(b, c, Decoder!PutAs(c, 4 + n, key, Decoder!Entry("hash", hash)))
    BY <2>1, <2>4, PutAsIn
  <2> QED
    BY <1>0, <2>5 DEF Decoder!PutAsHash, n, digest, t0, fitting, hash
<1>2. CASE ~(Decoder!HasTlv(c) /\ fitting # {})
  BY <1>0, <1>2 DEF Decoder!PutAsHash
<1> QED
  BY <1>1, <1>2

----------------------------------------------------------------------------
(* Names: a loop over their segments *)

SegmentRound(p, i, x) == Decoder!Segment(x, p.end)
SegmentGood(p, x) ==
    /\ p.b \in Bytes
    /\ Cursor(p.b, x.c) /\ x.c.limit = p.limit
    /\ x.name \in Seq(ListEntry)
SegmentLoop == INSTANCE Iteration WITH Round <- SegmentRound, Good <- SegmentGood

(* The TLV that is next is taken whole. *)
LEMMA TlvTaken ==
    ASSUME NEW b \in Bytes, NEW c, Cursor(b, c), Decoder!HasTlv(c)
    PROVE  /\ In(b, c, Decoder!Advance(c, 4 + Decoder!LengthAt(c)))
           /\ In(b, c, Decoder!Advance(c, 4))
           /\ Decoder!Advance(c, 4).at + Decoder!LengthAt(c) <= c.limit
           /\ Decoder!Slice(Decoder!Advance(c, 4), Decoder!LengthAt(c)) \in Bytes
           /\ Len(Decoder!Slice(Decoder!Advance(c, 4), Decoder!LengthAt(c))) = Decoder!LengthAt(c)
<1> DEFINE n == Decoder!LengthAt(c)
           value == Decoder!Advance(c, 4)
<1>1. n \in Nat /\ c.at + (4 + n) <= c.limit /\ (c.at + 4) + n <= c.limit /\ c.at + 4 <= c.limit
  BY TlvFits
<1>2. In(b, c, value) /\ value.at = c.at + 4
  BY <1>1, AdvancedCursor
<1>3. 4 + n \in Nat
  BY <1>1
<1> HIDE DEF n
<1>4. In(b, c, Decoder!Advance(c, 4 + n))
  BY <1>1, <1>3, AdvancedCursor
<1> HIDE DEF value
<1>5. Decoder!Slice(value, n) \in Bytes /\ Len(Decoder!Slice(value, n)) = n
  BY <1>1, <1>2, SliceType DEF In
<1> QED
  BY <1>1, <1>2, <1>4, <1>5 DEF n, value

LEMMA SegmentKeeps ==
    ASSUME NEW p, NEW i, NEW x, SegmentGood(p, x)
    PROVE  SegmentGood(p, SegmentRound(p, i, x))
<1> DEFINE c == x.c
           n == Decoder!LengthAt(c)
           entry == [type |-> Decoder!TypeAt(c), value |-> Decoder!Slice(Decoder!Advance(c, 4), n)]
           bad == [c |-> Decoder!Bad(c), name |-> x.name]
           further == [c |-> Decoder!Advance(c, 4 + n), name |-> Append(x.name, entry)]
<1>0. p.b \in Bytes /\ Cursor(p.b, c) /\ c.limit = p.limit /\ x.name \in Seq(ListEntry)
  BY DEF SegmentGood
<1>1. SegmentGood(p, bad)
  BY <1>0, BadCursor DEF SegmentGood, In
<1>2. CASE Decoder!HasTlv(c)
  <2>1. /\ In(p.b, c, Decoder!Advance(c, 4 + n))
        /\ Decoder!Slice(Decoder!Advance(c, 4), n) \in Bytes
        /\ Decoder!TypeAt(c) \in Nat
    BY <1>0, <1>2, TlvTaken, TlvFits
  <2>2. entry \in ListEntry
    BY <2>1 DEF ListEntry
  <2> HIDE DEF entry
  <2>3. Append(x.name, entry) \in Seq(ListEntry)
    BY <1>0, <2>2, AppendProperties
  <2> HIDE DEF n
  <2>4. SegmentGood(p, further)
    BY <1>0, <2>1, <2>3 DEF SegmentGood, In
  <2> HIDE DEF further
  <2>5. SegmentRound(p, i, x) \in {x, bad, further}
    BY DEF SegmentRound, Decoder!Segment, further, n, entry
  <2> QED
    BY <1>1, <2>4, <2>5
<1>3. CASE ~Decoder!HasTlv(c)
  <2>1. SegmentRound(p, i, x) \in {x, bad}
    BY <1>3 DEF SegmentRound, Decoder!Segment
  <2> QED
    BY <1>1, <2>1
<1> QED
  BY <1>2, <1>3

LEMMA SegmentsIn ==
    ASSUME NEW b \in Bytes, NEW c, Cursor(b, c), NEW n \in Nat
    PROVE  /\ In(b, c, Decoder!Segments(c, n).c)
           /\ Decoder!Segments(c, n).name \in Seq(ListEntry)
<1> DEFINE p == [b |-> b, limit |-> c.limit, end |-> c.at + n]
           first == [c |-> c, name |-> <<>>]
           rounds == n \div 4 + 1
<1>1. Decoder!Segments(c, n) = SegmentLoop!Iterated(p, first, rounds)
  BY DEF Decoder!Segments, Decoder!Loop, SegmentLoop!Iterated, SegmentRound
<1>2. SegmentGood(p, first)
  BY DEF SegmentGood
<1>3. rounds \in Nat
  OBVIOUS
<1> HIDE DEF p, first, rounds
<1>4. SegmentGood(p, SegmentLoop!Iterated(p, first, rounds))
  BY <1>2, <1>3, SegmentKeeps, SegmentLoop!LoopKeeps
<1>5. p.b = b /\ p.limit = c.limit
  BY DEF p
<1> QED
  BY <1>1, <1>4, <1>5 DEF SegmentGood, In

LEMMA PutAsNameIn ==
    ASSUME NEW b \in Bytes, NEW c, Cursor(b, c), NEW n \in Nat, NEW key, PlainKey(key)
    PROVE  In(b, c, Decoder!PutAsName(c, n, key))
<1> DEFINE read == Decoder!Segments(c, n)
<1>1. In(b, c, read.c) /\ read.name \in Seq(ListEntry)
  BY SegmentsIn
<1> HIDE DEF read
<1>2. read.name \in ValuesOf(key, "name")
  BY <1>1 DEF ValuesOf
<1>3. read.c.at + 0 <= read.c.limit /\ Cursor(b, read.c)
  BY <1>1 DEF In, Cursor
<1>4. In(b, read.c, Decoder!PutAs(read.c, 0, key, Decoder!Entry("name", read.name)))
  BY <1>2, <1>3, PutAsIn
<1> QED
  BY <1>1, <1>4 DEF Decoder!PutAsName, Decoder!PutDecodedName, read, In

----------------------------------------------------------------------------
(* Hash groups and their metadata *)

LEMMA FieldOfGroup ==
    ASSUME NEW group \in HashGroupValue, NEW type, NEW value \in Bytes,
           type \in Decoder!Sizes => Len(value) >= 8
    PROVE  Decoder!WithField(group, type, value) \in HashGroupValue
<1>1. type \in Decoder!Sizes => Decoder!SizeOf(value) \in Nat
  <2> SUFFICES ASSUME Len(value) >= 8 PROVE Decoder!SizeOf(value) \in Nat
    OBVIOUS
  <2>1. \A i \in 1..8 : value[i] \in 0..255
    <3> TAKE i \in 1..8
    <3>1. i \in 1..Len(value)
      BY DEF Bytes
    <3> QED
      BY <3>1, ByteAt
  <2>2. SubSeq(value, 1, 8) \in Seq(0..255)
    BY <2>1, SubSeqProperties
  <2> QED
    BY <2>2, IntegerType DEF Decoder!SizeOf, Bytes
<1> DEFINE size == Decoder!SizeOf(value)
<1> HIDE DEF size
<1>2. type \in {1, 2, 3, 4} => size \in Nat
  BY <1>1 DEF size, Decoder!Sizes, Decoder!Metadata
<1>3. /\ [group EXCEPT !.locator = value] \in HashGroupValue
      /\ [group EXCEPT !.digest = value] \in HashGroupValue
  BY DEF HashGroupValue
<1>4. ASSUME size \in Nat
      PROVE  /\ [group EXCEPT !.dataSize = size] \in HashGroupValue
             /\ [group EXCEPT !.blockSize = size] \in HashGroupValue
             /\ [group EXCEPT !.entrySize = size] \in HashGroupValue
             /\ [group EXCEPT !.treeHeight = size] \in HashGroupValue
  BY <1>4 DEF HashGroupValue
<1> QED
  BY <1>2, <1>3, <1>4 DEF Decoder!WithField, Decoder!Metadata, size

MetadataRound(p, i, x) == Decoder!MetadataField(x, p.end)
GroupGood(p, x) ==
    /\ p.b \in Bytes
    /\ Cursor(p.b, x.c) /\ x.c.limit = p.limit
    /\ x.group \in HashGroupValue
MetadataLoop == INSTANCE Iteration WITH Round <- MetadataRound, Good <- GroupGood

LEMMA MetadataKeeps ==
    ASSUME NEW p, NEW i, NEW x, GroupGood(p, x)
    PROVE  GroupGood(p, MetadataRound(p, i, x))
<1> DEFINE c == x.c
           n == Decoder!LengthAt(c)
           value == Decoder!Slice(Decoder!Advance(c, 4), n)
           group == Decoder!WithField(x.group, Decoder!TypeAt(c), value)
           bad == [c |-> Decoder!Bad(c), group |-> x.group]
           further == [c |-> Decoder!Advance(c, 4 + n), group |-> group]
<1>0. p.b \in Bytes /\ Cursor(p.b, c) /\ c.limit = p.limit /\ x.group \in HashGroupValue
  BY DEF GroupGood
<1>1. GroupGood(p, bad)
  BY <1>0, BadCursor DEF GroupGood, In
<1>2. CASE Decoder!HasTlv(c) /\ Decoder!SizeIsWhole(c)
  <2>1. /\ In(p.b, c, Decoder!Advance(c, 4 + n))
        /\ value \in Bytes /\ Len(value) = n
    BY <1>0, <1>2, TlvTaken
  <2>2. group \in HashGroupValue
    <3>1. Decoder!TypeAt(c) \in Decoder!Sizes => Len(value) >= 8
      BY <1>2, <2>1 DEF Decoder!SizeIsWhole
    <3> HIDE DEF value
    <3> QED
      BY <1>0, <2>1, <3>1, FieldOfGroup
  <2> HIDE DEF group, n
  <2>4. GroupGood(p, further)
    BY <1>0, <2>1, <2>2 DEF GroupGood, In
  <2> HIDE DEF further
  <2>5. MetadataRound(p, i, x) \in {x, bad, further}
    BY DEF MetadataRound, Decoder!MetadataField, further, n, group
  <2> QED
    BY <1>1, <2>4, <2>5
<1>3. CASE ~(Decoder!HasTlv(c) /\ Decoder!SizeIsWhole(c))
  <2>1. MetadataRound(p, i, x) \in {x, bad}
    BY <1>3 DEF MetadataRound, Decoder!MetadataField
  <2> QED
    BY <1>1, <2>1
<1> QED
  BY <1>2, <1>3

(* What the readers of a hash group return *)
GroupIn(b, c, r) == In(b, c, r.c) /\ r.group \in HashGroupValue

LEMMA MetadataIn ==
    ASSUME NEW b \in Bytes, NEW c, Cursor(b, c), NEW n \in Nat,
           NEW group \in HashGroupValue
    PROVE  GroupIn(b, c, Decoder!DecodeMetadata(c, n, group))
<1> DEFINE p == [b |-> b, limit |-> c.limit, end |-> c.at + n]
           first == [c |-> c, group |-> group]
           rounds == n \div 4 + 1
<1>1. Decoder!DecodeMetadata(c, n, group) = MetadataLoop!Iterated(p, first, rounds)
  BY DEF Decoder!DecodeMetadata, Decoder!Loop, MetadataLoop!Iterated, MetadataRound
<1>2. GroupGood(p, first)
  BY DEF GroupGood
<1>3. rounds \in Nat
  OBVIOUS
<1> HIDE DEF p, first, rounds
<1>4. GroupGood(p, MetadataLoop!Iterated(p, first, rounds))
  BY <1>2, <1>3, MetadataKeeps, MetadataLoop!LoopKeeps
<1>5. p.b = b /\ p.limit = c.limit
  BY DEF p
<1> QED
  BY <1>1, <1>4, <1>5 DEF GroupGood, GroupIn, In

LEMMA PointingType ==
    ASSUME NEW group \in HashGroupValue, NEW type \in {"Data", "Manifest"}, NEW digest \in Bytes
    PROVE  Decoder!Pointing(group, type, digest) \in HashGroupValue
<1>1. PICK pointer \in Pointer : pointer = [type |-> type, digest |-> digest]
  BY DEF Pointer
<1>2. Append(group.pointers, pointer) \in Seq(Pointer)
  BY AppendProperties DEF HashGroupValue
<1>3. PICK pointers \in Seq(Pointer) : pointers = Append(group.pointers, pointer)
  BY <1>2
<1>4. [group EXCEPT !.pointers = pointers] \in HashGroupValue
  BY DEF HashGroupValue
<1> QED
  BY <1>1, <1>3, <1>4 DEF Decoder!Pointing

LEMMA GroupFieldIn ==
    ASSUME NEW b \in Bytes, NEW c, Cursor(b, c), NEW type \in Nat, NEW n \in Nat,
           c.at + n <= c.limit, NEW group \in HashGroupValue
    PROVE  GroupIn(b, c, Decoder!GroupField(c, type, n, group))
<1>1. GroupIn(b, c, Decoder!DecodeMetadata(c, n, group))
  BY MetadataIn
<1>2. Decoder!Slice(c, n) \in Bytes /\ In(b, c, Decoder!Advance(c, n))
  BY SliceType, AdvancedCursor
<1>3. /\ Decoder!Pointing(group, "Data", Decoder!Slice(c, n)) \in HashGroupValue
      /\ Decoder!Pointing(group, "Manifest", Decoder!Slice(c, n)) \in HashGroupValue
  BY <1>2, PointingType
<1>4. In(b, c, Decoder!PutAsListBuffer(c, n, "custom", type))
  BY PutAsListBufferIn DEF CustomLists
<1> QED
  BY <1>1, <1>2, <1>3, <1>4 DEF Decoder!GroupField, GroupIn

GroupStep(p, i, x) == Decoder!GroupRound(x, p.end)
GroupLoop == INSTANCE Iteration WITH Round <- GroupStep, Good <- GroupGood

LEMMA GroupKeeps ==
    ASSUME NEW p, NEW i, NEW x, GroupGood(p, x)
    PROVE  GroupGood(p, GroupStep(p, i, x))
<1> DEFINE c == x.c
           value == Decoder!Advance(c, 4)
           bad == [c |-> Decoder!Bad(c), group |-> x.group]
           further == Decoder!GroupField(value, Decoder!TypeAt(c), Decoder!LengthAt(c), x.group)
<1>0. p.b \in Bytes /\ Cursor(p.b, c) /\ c.limit = p.limit /\ x.group \in HashGroupValue
  BY DEF GroupGood
<1>1. GroupGood(p, bad)
  BY <1>0, BadCursor DEF GroupGood, In
<1>2. CASE Decoder!HasTlv(c)
  <2>1. /\ In(p.b, c, value) /\ value.at + Decoder!LengthAt(c) <= c.limit
        /\ Decoder!TypeAt(c) \in Nat /\ Decoder!LengthAt(c) \in Nat
    BY <1>0, <1>2, TlvTaken, TlvFits
  <2> HIDE DEF value
  <2>2. GroupIn(p.b, value, further)
    BY <1>0, <2>1, GroupFieldIn DEF In
  <2>4. GroupGood(p, further)
    BY <1>0, <2>1, <2>2 DEF GroupGood, GroupIn, In
  <2> HIDE DEF further
  <2>5. GroupStep(p, i, x) \in {x, bad, further}
    BY DEF GroupStep, Decoder!GroupRound, further, value
  <2> QED
    BY <1>1, <2>4, <2>5
<1>3. CASE ~Decoder!HasTlv(c)
  <2>1. GroupStep(p, i, x) \in {x, bad}
    BY <1>3 DEF GroupStep, Decoder!GroupRound
  <2> QED
    BY <1>1, <2>1
<1> QED
  BY <1>2, <1>3

LEMMA EmptyGroupType == Decoder!EmptyGroup \in HashGroupValue
BY DEF Decoder!EmptyGroup, HashGroupValue, Bytes

LEMMA PutGroupIn ==
    ASSUME NEW b, NEW c, Cursor(b, c), NEW group \in HashGroupValue
    PROVE  In(b, c, Decoder!PutGroup(c, group))
<1> DEFINE before == IF "hashGroups" \in DOMAIN c.d THEN c.d.hashGroups ELSE <<>>
           after == <<group>> \o before
<1>1. before \in Seq(HashGroupValue)
  BY DEF Cursor, IsDictionary
<1> HIDE DEF before
<1>2. <<group>> \in Seq(HashGroupValue)
  OBVIOUS
<1>3. after \in Seq(HashGroupValue)
  BY <1>1, <1>2, ConcatProperties
<1> HIDE DEF after
<1>4. IsDictionary(Updated(c.d, "hashGroups", after))
  BY <1>3, GroupsPut DEF Cursor
<1>5. In(b, c, Decoder!Filled(c, Updated(c.d, "hashGroups", after)))
  BY <1>4, FilledCursor
<1> QED
  BY <1>5, SameUpdated DEF Decoder!PutGroup, after, before

LEMMA HashGroupIn ==
    ASSUME NEW b \in Bytes, NEW c, Cursor(b, c), NEW n \in Nat
    PROVE  In(b, c, Decoder!DecodeHashGroup(c, n))
<1> DEFINE p == [b |-> b, limit |-> c.limit, end |-> c.at + n]
           first == [c |-> c, group |-> Decoder!EmptyGroup]
           rounds == n \div 4 + 1
           read == GroupLoop!Iterated(p, first, rounds)
<1>1. Decoder!DecodeHashGroup(c, n) = Decoder!PutDecodedGroup(read)
  BY DEF Decoder!DecodeHashGroup, Decoder!Loop, GroupLoop!Iterated, GroupStep
<1>2. GroupGood(p, first)
  BY EmptyGroupType DEF GroupGood
<1>3. rounds \in Nat
  OBVIOUS
<1> HIDE DEF p, first, rounds
<1>4. GroupGood(p, read)
  BY <1>2, <1>3, GroupKeeps, GroupLoop!LoopKeeps
<1>5. p.b = b /\ p.limit = c.limit
  BY DEF p
<1> HIDE DEF read
<1>6. Cursor(b, read.c) /\ read.c.limit = c.limit /\ read.group \in HashGroupValue
  BY <1>4, <1>5 DEF GroupGood
<1>7. In(b, read.c, Decoder!PutGroup(read.c, read.group))
  BY <1>6, PutGroupIn
<1> QED
  BY <1>1, <1>6, <1>7 DEF Decoder!PutDecodedGroup, In

----------------------------------------------------------------------------
(* Links *)

LinkValue == [Name : Seq(Seq(ListEntry)), KeyId : Seq(Bytes), Hash : Seq(Bytes)]

LinkStep(p, i, x) == Decoder!LinkRound(x)
LinkGood(p, x) ==
    /\ p.b \in Bytes
    /\ Cursor(p.b, x.c) /\ x.c.limit = p.limit
    /\ x.link \in LinkValue
LinkLoop == INSTANCE Iteration WITH Round <- LinkStep, Good <- LinkGood

(* What the readers of a link return *)
LinkIn(b, c, r) == In(b, c, r.c) /\ r.link \in LinkValue

LEMMA PutLinkFieldIn ==
    ASSUME NEW b \in Bytes, NEW c, Cursor(b, c), NEW type \in Nat, NEW n \in Nat,
           c.at + n <= c.limit, NEW link \in LinkValue
    PROVE  LinkIn(b, c, Decoder!PutLinkField(c, type, n, link))
<1>1. In(b, c, Decoder!Bad(c))
  BY BadCursor
<1>2. Decoder!Slice(c, n) \in Bytes /\ In(b, c, Decoder!Advance(c, n))
  BY SliceType, AdvancedCursor
<1>3. PICK value \in Bytes : value = Decoder!Slice(c, n)
  BY <1>2
<1>4. <<value>> \in Seq(Bytes)
  OBVIOUS
<1>5. PICK field \in Seq(Bytes) : field = <<value>>
  BY ONLY <1>4
<1>6. [link EXCEPT !.KeyId = field] \in LinkValue /\ [link EXCEPT !.Hash = field] \in LinkValue
  BY DEF LinkValue
<1>7. LinkIn(b, c, Decoder!NamedLink(Decoder!Segments(c, n), link))
  <2>1. In(b, c, Decoder!Segments(c, n).c) /\ Decoder!Segments(c, n).name \in Seq(ListEntry)
    BY SegmentsIn
  <2>2. PICK name \in Seq(ListEntry) : name = Decoder!Segments(c, n).name
    BY <2>1
  <2>3. <<name>> \in Seq(Seq(ListEntry))
    OBVIOUS
  <2>4. PICK names \in Seq(Seq(ListEntry)) : names = <<name>>
    BY ONLY <2>3
  <2>5. [link EXCEPT !.Name = names] \in LinkValue
    BY DEF LinkValue
  <2> QED
    BY <2>1, <2>2, <2>4, <2>5 DEF Decoder!NamedLink, LinkIn
<1> QED
  BY <1>1, <1>2, <1>3, <1>5, <1>6, <1>7 DEF Decoder!PutLinkField, LinkIn

LEMMA LinkKeeps ==
    ASSUME NEW p, NEW i, NEW x, LinkGood(p, x)
    PROVE  LinkGood(p, LinkStep(p, i, x))
<1> DEFINE c == x.c
           value == Decoder!Advance(c, 4)
           bad == [c |-> Decoder!Bad(c), link |-> x.link]
           further == Decoder!PutLinkField(value, Decoder!TypeAt(c), Decoder!LengthAt(c), x.link)
<1>0. p.b \in Bytes /\ Cursor(p.b, c) /\ c.limit = p.limit /\ x.link \in LinkValue
  BY DEF LinkGood
<1>1. LinkGood(p, bad)
  BY <1>0, BadCursor DEF LinkGood, In
<1>2. CASE Decoder!HasTlv(c)
  <2>1. /\ In(p.b, c, value) /\ value.at + Decoder!LengthAt(c) <= c.limit
        /\ Decoder!TypeAt(c) \in Nat /\ Decoder!LengthAt(c) \in Nat
    BY <1>0, <1>2, TlvTaken, TlvFits
  <2> HIDE DEF value
  <2>2. LinkIn(p.b, value, further)
    BY <1>0, <2>1, PutLinkFieldIn DEF In
  <2>4. LinkGood(p, further)
    BY <1>0, <2>1, <2>2 DEF LinkGood, LinkIn, In
  <2> HIDE DEF further
  <2>5. LinkStep(p, i, x) \in {x, bad, further}
    BY DEF LinkStep, Decoder!LinkRound, further, value
  <2> QED
    BY <1>1, <2>4, <2>5
<1>3. CASE ~Decoder!HasTlv(c)
  <2>1. LinkStep(p, i, x) \in {x, bad}
    BY <1>3 DEF LinkStep, Decoder!LinkRound
  <2> QED
    BY <1>1, <2>1
<1> QED
  BY <1>2, <1>3

LEMMA DecodeLinkIn ==
    ASSUME NEW b \in Bytes, NEW c, Cursor(b, c)
    PROVE  LinkIn(b, c, Decoder!DecodeLink(c))
<1> DEFINE p == [b |-> b, limit |-> c.limit]
           first == [c |-> c, link |-> Decoder!NoLink]
           rounds == Decoder!Remaining(c) \div 4 + 1
<1>1. Decoder!DecodeLink(c) = LinkLoop!Iterated(p, first, rounds)
  BY DEF Decoder!DecodeLink, Decoder!Loop, LinkLoop!Iterated, LinkStep
<1>2. LinkGood(p, first)
  <2>1. Decoder!NoLink \in LinkValue
    BY DEF Decoder!NoLink, LinkValue
  <2> QED
    BY <2>1 DEF LinkGood
<1>3. rounds \in Nat
  <2>1. Decoder!Remaining(c) \in Nat
    BY DEF Decoder!Remaining, Cursor
  <2> QED
    BY <2>1
<1> HIDE DEF p, first, rounds
<1>4. LinkGood(p, LinkLoop!Iterated(p, first, rounds))
  BY <1>2, <1>3, LinkKeeps, LinkLoop!LoopKeeps
<1>5. p.b = b /\ p.limit = c.limit
  BY DEF p
<1> QED
  BY <1>1, <1>4, <1>5 DEF LinkGood, LinkIn, In

LEMMA FirstOf ==
    ASSUME NEW S, NEW s \in Seq(S), s # <<>>
    PROVE  s[1] \in S
<1>1. 1 \in 1..Len(s)
  BY EmptySeq
<1> QED
  BY ONLY <1>1, ElementOfSeq

LEMMA AlsoType ==
    ASSUME NEW d, IsDictionary(d), NEW key, PlainKey(key), NEW field \in Seq(Bytes)
    PROVE  IsDictionary(Decoder!Also(d, key, field))
<1>1. CASE field = <<>>
  BY <1>1 DEF Decoder!Also
<1>2. CASE field # <<>>
  <2>1. PICK value \in Bytes : value = field[1]
    BY <1>2, FirstOf
  <2>2. value \in ValuesOf(key, "buffer")
    BY DEF ValuesOf
  <2>3. IsDictionary(PutNew(d, key, Entry("buffer", value)))
    BY <2>2, NewPut DEF PlainKey
  <2> QED
    BY <1>2, <2>1, <2>3, SamePutNew, SameEntry DEF Decoder!Also
<1> QED
  BY <1>1, <1>2

LEMMA PutLinkIn ==
    ASSUME NEW b \in Bytes, NEW c, Cursor(b, c), NEW link \in LinkValue
    PROVE  In(b, c, Decoder!PutLink(c, link))
<1>1. In(b, c, Decoder!Bad(c))
  BY BadCursor
<1>2. CASE link.Name # <<>>
  <2> DEFINE named == Decoder!PutAs(c, 0, "keyName", Decoder!Entry("name", link.Name[1]))
             d == Decoder!Also(Decoder!Also(named.d, "keyNameKeyId", link.KeyId),
                               "keyNameHash", link.Hash)
  <2>1. PICK name \in Seq(ListEntry) : name = link.Name[1]
    <3>1. PICK names \in Seq(Seq(ListEntry)) : names = link.Name
      BY DEF LinkValue
    <3>2. names[1] \in Seq(ListEntry)
      BY <1>2, <3>1, FirstOf
    <3> QED
      BY <3>1, <3>2
  <2>2. name \in ValuesOf("keyName", "name")
    BY DEF ValuesOf
  <2>3. PlainKey("keyName") /\ PlainKey("keyNameKeyId") /\ PlainKey("keyNameHash")
    BY DEF PlainKey, CustomLists
  <2>4. c.at + 0 <= c.limit
    BY DEF Cursor
  <2>5. In(b, c, named)
    BY <2>1, <2>2, <2>3, <2>4, PutAsIn
  <2> HIDE DEF named
  <2>6. link.KeyId \in Seq(Bytes) /\ link.Hash \in Seq(Bytes)
    BY DEF LinkValue
  <2>7. IsDictionary(d)
    BY <2>3, <2>5, <2>6, AlsoType DEF In, Cursor
  <2> HIDE DEF d
  <2>8. In(b, named, Decoder!Filled(named, d))
    BY <2>5, <2>7, FilledCursor DEF In
  <2>9. Decoder!PutLink(c, link) \in {Decoder!Bad(c), Decoder!Filled(named, d)}
    BY DEF Decoder!PutLink, named, d
  <2> QED
    BY <1>1, <2>5, <2>8, <2>9 DEF In
<1>3. CASE link.Name = <<>>
  BY <1>1, <1>3 DEF Decoder!PutLink
<1> QED
  BY <1>2, <1>3

LEMMA PutKeyNameIn ==
    ASSUME NEW b \in Bytes, NEW c, Cursor(b, c), NEW n
    PROVE  In(b, c, Decoder!PutKeyName(c, n))
<1> DEFINE read == Decoder!DecodeLink(c)
<1>1. In(b, c, read.c) /\ read.link \in LinkValue
  BY DecodeLinkIn DEF LinkIn
<1> HIDE DEF read
<1>2. In(b, read.c, Decoder!PutLink(read.c, read.link))
  BY <1>1, PutLinkIn DEF In
<1> QED
  BY <1>1, <1>2 DEF Decoder!PutKeyName, Decoder!PutDecodedLink, read, In

----------------------------------------------------------------------------
(* Containers: a loop over their TLVs *)

CursorGood(p, x) == p.b \in Bytes /\ Cursor(p.b, x) /\ x.limit = p.limit

(* The decoder of a field is given its value, and returns next. *)
LEMMA FieldIn ==
    ASSUME NEW p, NEW x, CursorGood(p, x), NEW next,
           ASSUME NEW c, Cursor(p.b, c), NEW type \in Nat, NEW n \in Nat, c.at + n <= c.limit,
                  c = Decoder!Advance(x, 4), type = Decoder!TypeAt(x), n = Decoder!LengthAt(x)
           PROVE  In(p.b, c, next),
           NEW y, \/ y \in {x, Decoder!Bad(x)}
                  \/ Decoder!HasTlv(x) /\ y = next
    PROVE  CursorGood(p, y)
<1>0. p.b \in Bytes /\ Cursor(p.b, x) /\ x.limit = p.limit
  BY DEF CursorGood
<1>1. CursorGood(p, Decoder!Bad(x))
  BY <1>0, BadCursor DEF CursorGood, In
<1>2. CASE Decoder!HasTlv(x) /\ y = next
  <2> DEFINE c == Decoder!Advance(x, 4)
             type == Decoder!TypeAt(x)
             n == Decoder!LengthAt(x)
  <2>1. In(p.b, x, c) /\ c.at + n <= x.limit /\ type \in Nat /\ n \in Nat
    BY <1>0, <1>2, TlvTaken, TlvFits
  <2>2. Cursor(p.b, c) /\ c.limit = x.limit /\ c.at + n <= c.limit
    BY <2>1 DEF In
  <2>3. In(p.b, c, next)
    BY <2>1, <2>2
  <2> HIDE DEF c, n, type
  <2> QED
    BY <1>0, <1>2, <2>2, <2>3 DEF CursorGood, In
<1> QED
  BY <1>1, <1>2

LEMMA HeadersFieldIn ==
    ASSUME NEW b \in Bytes, NEW c, Cursor(b, c), NEW type \in Nat, NEW n \in Nat,
           c.at + n <= c.limit
    PROVE  In(b, c, Decoder!HeadersField(c, type, n))
<1>1. /\ PlainKey("intFrag") /\ PlainKey("objFrag") /\ PlainKey("lifetime") /\ PlainKey("cacheTime")
      /\ "lifetime" \notin DOMAIN Enumerated /\ "cacheTime" \notin DOMAIN Enumerated
  BY DEF PlainKey, CustomLists, Enumerated
<1>2. In(b, c, Decoder!PutAsBuffer(c, n, "intFrag")) /\ In(b, c, Decoder!PutAsBuffer(c, n, "objFrag"))
  BY <1>1, PutAsBufferIn
<1>3. In(b, c, Decoder!PutAsInteger(c, n, "lifetime")) /\ In(b, c, Decoder!PutAsInteger(c, n, "cacheTime"))
  BY <1>1, PutAsIntegerIn
<1>4. In(b, c, Decoder!PutAsListBuffer(c, n, "headers", type))
  BY PutAsListBufferIn DEF CustomLists
<1> QED
  BY <1>2, <1>3, <1>4 DEF Decoder!HeadersField

LEMMA MessageFieldIn ==
    ASSUME NEW b \in Bytes, NEW c, Cursor(b, c), NEW type \in Nat, NEW n \in Nat,
           c.at + n <= c.limit
    PROVE  In(b, c, Decoder!MessageField(c, type, n))
<1>1. /\ PlainKey("name") /\ PlainKey("payload") /\ PlainKey("keyIdRestriction")
      /\ PlainKey("objHashRestriction") /\ PlainKey("expiryTime") /\ PlainKey("endChunk")
      /\ "expiryTime" \notin DOMAIN Enumerated /\ "endChunk" \notin DOMAIN Enumerated
  BY DEF PlainKey, CustomLists, Enumerated
<1>2. In(b, c, Decoder!PutAsName(c, n, "name")) /\ In(b, c, Decoder!PutAsBuffer(c, n, "payload"))
  BY <1>1, PutAsBufferIn, PutAsNameIn
<1>3. In(b, c, Decoder!PutAsInteger(c, n, "expiryTime")) /\ In(b, c, Decoder!PutAsInteger(c, n, "endChunk"))
  BY <1>1, PutAsIntegerIn
<1>4. In(b, c, Decoder!PutAsListBuffer(c, n, "custom", type))
  BY PutAsListBufferIn DEF CustomLists
<1>5. In(b, c, Decoder!PutAsHash(c, n, "keyIdRestriction")) /\ In(b, c, Decoder!PutAsHash(c, n, "objHashRestriction"))
  BY <1>1, PutAsHashIn
<1>6. In(b, c, Decoder!PutPayloadType(c, n))
  BY PutPayloadTypeIn
<1> QED
  BY <1>2, <1>3, <1>4, <1>5, <1>6 DEF Decoder!MessageField

LEMMA ManifestFieldIn ==
    ASSUME NEW b \in Bytes, NEW c, Cursor(b, c), NEW type \in Nat, NEW n \in Nat,
           c.at + n <= c.limit
    PROVE  In(b, c, Decoder!ManifestField(c, type, n))
<1>1. PlainKey("name")
  BY DEF PlainKey, CustomLists
<1>2. In(b, c, Decoder!PutAsName(c, n, "name")) /\ In(b, c, Decoder!DecodeHashGroup(c, n))
  BY <1>1, HashGroupIn, PutAsNameIn
<1>4. In(b, c, Decoder!PutAsListBuffer(c, n, "custom", type))
  BY PutAsListBufferIn DEF CustomLists
<1> QED
  BY <1>2, <1>4 DEF Decoder!ManifestField

LEMMA AlgParametersFieldIn ==
    ASSUME NEW b \in Bytes, NEW c, Cursor(b, c), NEW type \in Nat, NEW n \in Nat,
           c.at + n <= c.limit
    PROVE  In(b, c, Decoder!AlgParametersField(c, type, n))
<1>1. /\ PlainKey("certificate") /\ PlainKey("keyId") /\ PlainKey("publicKey") /\ PlainKey("sigTime")
      /\ "sigTime" \notin DOMAIN Enumerated
  BY DEF PlainKey, CustomLists, Enumerated
<1>2. /\ In(b, c, Decoder!PutAsBuffer(c, n, "certificate"))
      /\ In(b, c, Decoder!PutAsBuffer(c, n, "keyId"))
      /\ In(b, c, Decoder!PutAsBuffer(c, n, "publicKey"))
  BY <1>1, PutAsBufferIn
<1>3. In(b, c, Decoder!PutAsInteger(c, n, "sigTime"))
  BY <1>1, PutAsIntegerIn
<1>4. In(b, c, Decoder!PutAsListBuffer(c, n, "validation", type))
  BY PutAsListBufferIn DEF CustomLists
<1>5. In(b, c, Decoder!PutKeyName(c, n))
  BY PutKeyNameIn
<1> QED
  BY <1>2, <1>3, <1>4, <1>5 DEF Decoder!AlgParametersField

HeadersStep(p, i, x) == Decoder!Field(Decoder!HeadersField, x)
HeadersLoop == INSTANCE Iteration WITH Round <- HeadersStep, Good <- CursorGood

LEMMA HeadersIn ==
    ASSUME NEW b \in Bytes, NEW c, Cursor(b, c)
    PROVE  In(b, c, Decoder!DecodeContainer(Decoder!HeadersField, c))
<1> DEFINE p == [b |-> b, limit |-> c.limit]
           rounds == Decoder!Remaining(c) \div 4 + 1
<1>1. Decoder!DecodeContainer(Decoder!HeadersField, c) = HeadersLoop!Iterated(p, c, rounds)
  BY DEF Decoder!DecodeContainer, Decoder!Loop, HeadersLoop!Iterated, HeadersStep
<1>2. CursorGood(p, c)
  BY DEF CursorGood
<1>3. rounds \in Nat
  <2>1. Decoder!Remaining(c) \in Nat
    BY DEF Decoder!Remaining, Cursor
  <2> QED
    BY <2>1
<1>4. p.b = b /\ p.limit = c.limit
  OBVIOUS
<1> HIDE DEF p, rounds
<1>5. ASSUME NEW i, NEW x, CursorGood(p, x)
      PROVE  CursorGood(p, HeadersStep(p, i, x))
  <2> DEFINE next == Decoder!HeadersField(Decoder!Advance(x, 4), Decoder!TypeAt(x), Decoder!LengthAt(x))
             y == HeadersStep(p, i, x)
  <2>1. ASSUME NEW v, Cursor(p.b, v), NEW type \in Nat, NEW n \in Nat, v.at + n <= v.limit,
               v = Decoder!Advance(x, 4), type = Decoder!TypeAt(x), n = Decoder!LengthAt(x)
        PROVE  In(p.b, v, next)
    BY <1>4, <2>1, HeadersFieldIn
  <2>2. \/ y \in {x, Decoder!Bad(x)}
        \/ Decoder!HasTlv(x) /\ y = next
    BY DEF HeadersStep, Decoder!Field
  <2> HIDE DEF next, y
  <2>3. CursorGood(p, y)
    BY <1>5, <2>1, <2>2, FieldIn
  <2> QED
    BY <2>3 DEF y
<1>6. CursorGood(p, HeadersLoop!Iterated(p, c, rounds))
  BY <1>2, <1>3, <1>5, HeadersLoop!LoopKeeps
<1> QED
  BY <1>1, <1>4, <1>6 DEF CursorGood, In

MessageStep(p, i, x) == Decoder!Field(Decoder!MessageField, x)
MessageLoop == INSTANCE Iteration WITH Round <- MessageStep, Good <- CursorGood

LEMMA MessageIn ==
    ASSUME NEW b \in Bytes, NEW c, Cursor(b, c)
    PROVE  In(b, c, Decoder!DecodeContainer(Decoder!MessageField, c))
<1> DEFINE p == [b |-> b, limit |-> c.limit]
           rounds == Decoder!Remaining(c) \div 4 + 1
<1>1. Decoder!DecodeContainer(Decoder!MessageField, c) = MessageLoop!Iterated(p, c, rounds)
  BY DEF Decoder!DecodeContainer, Decoder!Loop, MessageLoop!Iterated, MessageStep
<1>2. CursorGood(p, c)
  BY DEF CursorGood
<1>3. rounds \in Nat
  <2>1. Decoder!Remaining(c) \in Nat
    BY DEF Decoder!Remaining, Cursor
  <2> QED
    BY <2>1
<1>4. p.b = b /\ p.limit = c.limit
  OBVIOUS
<1> HIDE DEF p, rounds
<1>5. ASSUME NEW i, NEW x, CursorGood(p, x)
      PROVE  CursorGood(p, MessageStep(p, i, x))
  <2> DEFINE next == Decoder!MessageField(Decoder!Advance(x, 4), Decoder!TypeAt(x), Decoder!LengthAt(x))
             y == MessageStep(p, i, x)
  <2>1. ASSUME NEW v, Cursor(p.b, v), NEW type \in Nat, NEW n \in Nat, v.at + n <= v.limit,
               v = Decoder!Advance(x, 4), type = Decoder!TypeAt(x), n = Decoder!LengthAt(x)
        PROVE  In(p.b, v, next)
    BY <1>4, <2>1, MessageFieldIn
  <2>2. \/ y \in {x, Decoder!Bad(x)}
        \/ Decoder!HasTlv(x) /\ y = next
    BY DEF MessageStep, Decoder!Field
  <2> HIDE DEF next, y
  <2>3. CursorGood(p, y)
    BY <1>5, <2>1, <2>2, FieldIn
  <2> QED
    BY <2>3 DEF y
<1>6. CursorGood(p, MessageLoop!Iterated(p, c, rounds))
  BY <1>2, <1>3, <1>5, MessageLoop!LoopKeeps
<1> QED
  BY <1>1, <1>4, <1>6 DEF CursorGood, In

ManifestStep(p, i, x) == Decoder!Field(Decoder!ManifestField, x)
ManifestLoop == INSTANCE Iteration WITH Round <- ManifestStep, Good <- CursorGood

LEMMA ManifestIn ==
    ASSUME NEW b \in Bytes, NEW c, Cursor(b, c)
    PROVE  In(b, c, Decoder!DecodeContainer(Decoder!ManifestField, c))
<1> DEFINE p == [b |-> b, limit |-> c.limit]
           rounds == Decoder!Remaining(c) \div 4 + 1
<1>1. Decoder!DecodeContainer(Decoder!ManifestField, c) = ManifestLoop!Iterated(p, c, rounds)
  BY DEF Decoder!DecodeContainer, Decoder!Loop, ManifestLoop!Iterated, ManifestStep
<1>2. CursorGood(p, c)
  BY DEF CursorGood
<1>3. rounds \in Nat
  <2>1. Decoder!Remaining(c) \in Nat
    BY DEF Decoder!Remaining, Cursor
  <2> QED
    BY <2>1
<1>4. p.b = b /\ p.limit = c.limit
  OBVIOUS
<1> HIDE DEF p, rounds
<1>5. ASSUME NEW i, NEW x, CursorGood(p, x)
      PROVE  CursorGood(p, ManifestStep(p, i, x))
  <2> DEFINE next == Decoder!ManifestField(Decoder!Advance(x, 4), Decoder!TypeAt(x), Decoder!LengthAt(x))
             y == ManifestStep(p, i, x)
  <2>1. ASSUME NEW v, Cursor(p.b, v), NEW type \in Nat, NEW n \in Nat, v.at + n <= v.limit,
               v = Decoder!Advance(x, 4), type = Decoder!TypeAt(x), n = Decoder!LengthAt(x)
        PROVE  In(p.b, v, next)
    BY <1>4, <2>1, ManifestFieldIn
  <2>2. \/ y \in {x, Decoder!Bad(x)}
        \/ Decoder!HasTlv(x) /\ y = next
    BY DEF ManifestStep, Decoder!Field
  <2> HIDE DEF next, y
  <2>3. CursorGood(p, y)
    BY <1>5, <2>1, <2>2, FieldIn
  <2> QED
    BY <2>3 DEF y
<1>6. CursorGood(p, ManifestLoop!Iterated(p, c, rounds))
  BY <1>2, <1>3, <1>5, ManifestLoop!LoopKeeps
<1> QED
  BY <1>1, <1>4, <1>6 DEF CursorGood, In

AlgParametersStep(p, i, x) == Decoder!Field(Decoder!AlgParametersField, x)
AlgParametersLoop == INSTANCE Iteration WITH Round <- AlgParametersStep, Good <- CursorGood

LEMMA AlgParametersIn ==
    ASSUME NEW b \in Bytes, NEW c, Cursor(b, c)
    PROVE  In(b, c, Decoder!DecodeContainer(Decoder!AlgParametersField, c))
<1> DEFINE p == [b |-> b, limit |-> c.limit]
           rounds == Decoder!Remaining(c) \div 4 + 1
<1>1. Decoder!DecodeContainer(Decoder!AlgParametersField, c) = AlgParametersLoop!Iterated(p, c, rounds)
  BY DEF Decoder!DecodeContainer, Decoder!Loop, AlgParametersLoop!Iterated, AlgParametersStep
<1>2. CursorGood(p, c)
  BY DEF CursorGood
<1>3. rounds \in Nat
  <2>1. Decoder!Remaining(c) \in Nat
    BY DEF Decoder!Remaining, Cursor
  <2> QED
    BY <2>1
<1>4. p.b = b /\ p.limit = c.limit
  OBVIOUS
<1> HIDE DEF p, rounds
<1>5. ASSUME NEW i, NEW x, CursorGood(p, x)
      PROVE  CursorGood(p, AlgParametersStep(p, i, x))
  <2> DEFINE next == Decoder!AlgParametersField(Decoder!Advance(x, 4), Decoder!TypeAt(x), Decoder!LengthAt(x))
             y == AlgParametersStep(p, i, x)
  <2>1. ASSUME NEW v, Cursor(p.b, v), NEW type \in Nat, NEW n \in Nat, v.at + n <= v.limit,
               v = Decoder!Advance(x, 4), type = Decoder!TypeAt(x), n = Decoder!LengthAt(x)
        PROVE  In(p.b, v, next)
    BY <1>4, <2>1, AlgParametersFieldIn
  <2>2. \/ y \in {x, Decoder!Bad(x)}
        \/ Decoder!HasTlv(x) /\ y = next
    BY DEF AlgParametersStep, Decoder!Field
  <2> HIDE DEF next, y
  <2>3. CursorGood(p, y)
    BY <1>5, <2>1, <2>2, FieldIn
  <2> QED
    BY <2>3 DEF y
<1>6. CursorGood(p, AlgParametersLoop!Iterated(p, c, rounds))
  BY <1>2, <1>3, <1>5, AlgParametersLoop!LoopKeeps
<1> QED
  BY <1>1, <1>4, <1>6 DEF CursorGood, In

LEMMA AlgFieldIn ==
    ASSUME NEW b \in Bytes, NEW c, Cursor(b, c), NEW type \in Nat, NEW n \in Nat,
           c.at + n <= c.limit
    PROVE  In(b, c, Decoder!AlgField(c, type, n))
<1>1. In(b, c, Decoder!Bad(c))
  BY BadCursor
<1>2. In(b, c, Decoder!PutAsListBuffer(c, n, "validation", type))
  BY PutAsListBufferIn DEF CustomLists
<1>3. CASE Decoder!SuitesOf(type) # {}
  <2> DEFINE suite == CHOOSE s \in Decoder!SuitesOf(type) : TRUE
             inner == Decoder!Inside(c, n)
             suited == Decoder!PutSuite(inner, suite)
             read == Decoder!DecodeContainer(Decoder!AlgParametersField, suited)
  <2>1. suite \in Decoder!SuitesOf(type)
    BY <1>3
  <2> HIDE DEF suite
  <2>2. suite \in DOMAIN SuiteCode
    BY <2>1 DEF Decoder!SuitesOf, Decoder!SuiteCode, SuiteCode
  <2>3. suite \in ValuesOf("cryptoSuite", "integer") /\ PlainKey("cryptoSuite")
    <3>1. DOMAIN SuiteCode \subseteq ValuesOf("cryptoSuite", "integer")
      BY DEF ValuesOf, Enumerated
    <3> QED
      BY <2>2, <3>1 DEF PlainKey, CustomLists
  <2>4. Cursor(b, inner) /\ inner.limit <= c.limit
    BY InsideCursor
  <2> HIDE DEF inner
  <2>5. IsDictionary(PutInteger(inner.d, "cryptoSuite", suite))
    BY <2>3, <2>4, IntegerPut DEF Cursor, PlainKey
  <2>6. suited = Decoder!Filled(inner, PutInteger(inner.d, "cryptoSuite", suite))
    BY SamePutInteger DEF Decoder!PutSuite
  <2> HIDE DEF suited
  <2>7. In(b, inner, suited)
    BY <2>4, <2>5, <2>6, FilledCursor
  <2>8. In(b, suited, read)
    BY <2>7, AlgParametersIn DEF In
  <2> HIDE DEF read
  <2>9. In(b, c, Decoder!Leave(read, c))
    BY <2>4, <2>7, <2>8, LeftCursor DEF In
  <2>10. Decoder!AlgField(c, type, n) \in {Decoder!Bad(c), Decoder!Leave(read, c)}
    BY <1>3 DEF Decoder!AlgField, read, suited, inner, suite
  <2> QED
    BY <1>1, <2>9, <2>10
<1> QED
  BY <1>2, <1>3 DEF Decoder!AlgField

AlgStep(p, i, x) == Decoder!Field(Decoder!AlgField, x)
AlgLoop == INSTANCE Iteration WITH Round <- AlgStep, Good <- CursorGood

LEMMA AlgIn ==
    ASSUME NEW b \in Bytes, NEW c, Cursor(b, c)
    PROVE  In(b, c, Decoder!DecodeContainer(Decoder!AlgField, c))
<1> DEFINE p == [b |-> b, limit |-> c.limit]
           rounds == Decoder!Remaining(c) \div 4 + 1
<1>1. Decoder!DecodeContainer(Decoder!AlgField, c) = AlgLoop!Iterated(p, c, rounds)
  BY DEF Decoder!DecodeContainer, Decoder!Loop, AlgLoop!Iterated, AlgStep
<1>2. CursorGood(p, c)
  BY DEF CursorGood
<1>3. rounds \in Nat
  <2>1. Decoder!Remaining(c) \in Nat
    BY DEF Decoder!Remaining, Cursor
  <2> QED
    BY <2>1
<1>4. p.b = b /\ p.limit = c.limit
  OBVIOUS
<1> HIDE DEF p, rounds
<1>5. ASSUME NEW i, NEW x, CursorGood(p, x)
      PROVE  CursorGood(p, AlgStep(p, i, x))
  <2> DEFINE next == Decoder!AlgField(Decoder!Advance(x, 4), Decoder!TypeAt(x), Decoder!LengthAt(x))
             y == AlgStep(p, i, x)
  <2>1. ASSUME NEW v, Cursor(p.b, v), NEW type \in Nat, NEW n \in Nat, v.at + n <= v.limit,
               v = Decoder!Advance(x, 4), type = Decoder!TypeAt(x), n = Decoder!LengthAt(x)
        PROVE  In(p.b, v, next)
    BY <1>4, <2>1, AlgFieldIn
  <2>2. \/ y \in {x, Decoder!Bad(x)}
        \/ Decoder!HasTlv(x) /\ y = next
    BY DEF AlgStep, Decoder!Field
  <2> HIDE DEF next, y
  <2>3. CursorGood(p, y)
    BY <1>5, <2>1, <2>2, FieldIn
  <2> QED
    BY <2>3 DEF y
<1>6. CursorGood(p, AlgLoop!Iterated(p, c, rounds))
  BY <1>2, <1>3, <1>5, AlgLoop!LoopKeeps
<1> QED
  BY <1>1, <1>4, <1>6 DEF CursorGood, In

----------------------------------------------------------------------------
(* The packet *)

LEMMA DecodeOptionalHeadersIn ==
    ASSUME NEW b \in Bytes, NEW c, Cursor(b, c), Decoder!HeaderLength(b) \in Nat,
           c.ok => /\ Decoder!HeaderLength(b) >= 8
                   /\ c.at + (Decoder!HeaderLength(b) - 8) <= c.limit
    PROVE  In(b, c, Decoder!DecodeOptionalHeaders(c))
<1>1. CASE c.ok
  <2> DEFINE n == Decoder!HeaderLength(b) - 8
             inner == Decoder!Inside(c, n)
             read == Decoder!DecodeContainer(Decoder!HeadersField, inner)
  <2>1. n \in Nat /\ c.at + n <= c.limit /\ c.b = b
    BY <1>1 DEF Cursor
  <2> HIDE DEF n
  <2>2. Cursor(b, inner) /\ inner.limit <= c.limit
    BY <2>1, InsideCursor
  <2> HIDE DEF inner
  <2>3. In(b, inner, read)
    BY <2>2, HeadersIn
  <2> HIDE DEF read
  <2>4. In(b, c, Decoder!Leave(read, c))
    BY <2>2, <2>3, LeftCursor DEF In
  <2> QED
    BY <1>1, <2>1, <2>4 DEF Decoder!DecodeOptionalHeaders, read, inner, n
<1>2. CASE ~c.ok
  BY <1>2 DEF Decoder!DecodeOptionalHeaders, In
<1> QED
  BY <1>1, <1>2

LEMMA MarkedCursor ==
    ASSUME NEW b, NEW c, Cursor(b, c)
    PROVE  In(b, c, Decoder!MarkStart(c)) /\ In(b, c, Decoder!MarkStop(c))
BY DEF In, Cursor, Whole, Decoder!MarkStart, Decoder!MarkStop

LEMMA MessageValueIn ==
    ASSUME NEW b \in Bytes, NEW c, Cursor(b, c), NEW type
    PROVE  In(b, c, Decoder!MessageValue(c, type))
<1>1. In(b, c, Decoder!Bad(c))
  BY BadCursor
<1>2. In(b, c, Decoder!DecodeContainer(Decoder!MessageField, c))
  BY MessageIn
<1>3. In(b, c, Decoder!DecodeCPI(c))
  <2> DEFINE n == Decoder!Remaining(c)
  <2>1. n \in Nat /\ c.at + n <= c.limit
    BY DEF Cursor, Decoder!Remaining
  <2> HIDE DEF n
  <2>2. Decoder!Slice(c, n) \in ValuesOf("payload", "json") /\ PlainKey("payload")
    BY <2>1, SliceType DEF ValuesOf, PlainKey, CustomLists
  <2>3. In(b, c, Decoder!PutAs(c, n, "payload", Decoder!Entry("json", Decoder!Slice(c, n))))
    BY <2>1, <2>2, PutAsIn
  <2> QED
    BY <2>3 DEF Decoder!DecodeCPI, n
<1>4. In(b, c, Decoder!DecodeContainer(Decoder!ManifestField, Decoder!SetManifest(c)))
  <2>1. In(b, c, Decoder!SetManifest(c))
    <3>1. IsDictionary(Updated(c.d, "type", "Manifest"))
      BY TypePut DEF Cursor
    <3> QED
      BY <3>1, SameUpdated, FilledCursor DEF Decoder!SetManifest
  <2>2. In(b, Decoder!SetManifest(c), Decoder!DecodeContainer(Decoder!ManifestField, Decoder!SetManifest(c)))
    BY <2>1, ManifestIn DEF In
  <2> QED
    BY <2>1, <2>2 DEF In
<1> QED
  BY <1>1, <1>2, <1>3, <1>4 DEF Decoder!MessageValue

(* What is decoded inside of the TLV that is next *)
LEMMA InsideTlv ==
    ASSUME NEW b \in Bytes, NEW c, Cursor(b, c), Decoder!HasTlv(c)
    PROVE  /\ Cursor(b, Decoder!Inside(Decoder!Advance(c, 4), Decoder!LengthAt(c)))
           /\ Decoder!Inside(Decoder!Advance(c, 4), Decoder!LengthAt(c)).limit <= c.limit
<1> DEFINE n == Decoder!LengthAt(c)
           value == Decoder!Advance(c, 4)
<1>1. In(b, c, value) /\ value.at + n <= c.limit /\ n \in Nat
  BY TlvTaken, TlvFits
<1> HIDE DEF n, value
<1>2. Cursor(b, Decoder!Inside(value, n)) /\ Decoder!Inside(value, n).limit = value.at + n
  BY <1>1, InsideCursor DEF In
<1> QED
  BY <1>1, <1>2 DEF n, value

LEMMA DecodeMessageIn ==
    ASSUME NEW b \in Bytes, NEW c, Cursor(b, c)
    PROVE  In(b, c, Decoder!DecodeMessage(c))
<1>1. In(b, c, Decoder!Bad(c))
  BY BadCursor
<1>2. CASE Decoder!HasTlv(c)
  <2> DEFINE inner == Decoder!Inside(Decoder!Advance(c, 4), Decoder!LengthAt(c))
             read == Decoder!MessageValue(inner, Decoder!TypeAt(c))
  <2>1. Cursor(b, inner) /\ inner.limit <= c.limit
    BY <1>2, InsideTlv
  <2> HIDE DEF inner
  <2>2. In(b, inner, read)
    BY <2>1, MessageValueIn
  <2> HIDE DEF read
  <2>3. In(b, c, Decoder!Leave(read, c))
    BY <2>1, <2>2, LeftCursor DEF In
  <2>4. Decoder!DecodeMessage(c) \in {Decoder!Bad(c), Decoder!Leave(read, c)}
    BY DEF Decoder!DecodeMessage, read, inner
  <2> QED
    BY <1>1, <2>3, <2>4
<1>3. CASE ~Decoder!HasTlv(c)
  BY <1>1, <1>3 DEF Decoder!DecodeMessage
<1> QED
  BY <1>2, <1>3

LEMMA DecodeValidationAlgIn ==
    ASSUME NEW b \in Bytes, NEW c, Cursor(b, c)
    PROVE  In(b, c, Decoder!DecodeValidationAlg(c))
<1>1. In(b, c, Decoder!Bad(c))
  BY BadCursor
<1>2. CASE Decoder!HasTlv(c)
  <2> DEFINE inner == Decoder!Inside(Decoder!Advance(c, 4), Decoder!LengthAt(c))
             read == Decoder!DecodeContainer(Decoder!AlgField, inner)
  <2>1. Cursor(b, inner) /\ inner.limit <= c.limit
    BY <1>2, InsideTlv
  <2> HIDE DEF inner
  <2>2. In(b, inner, read)
    BY <2>1, AlgIn
  <2> HIDE DEF read
  <2>3. In(b, c, Decoder!Leave(read, c))
    BY <2>1, <2>2, LeftCursor DEF In
  <2>4. Decoder!DecodeValidationAlg(c) \in {Decoder!Bad(c), Decoder!Leave(read, c)}
    BY DEF Decoder!DecodeValidationAlg, read, inner
  <2> QED
    BY <1>1, <2>3, <2>4
<1>3. CASE ~Decoder!HasTlv(c)
  BY <1>1, <1>3 DEF Decoder!DecodeValidationAlg
<1> QED
  BY <1>2, <1>3

LEMMA DecodeValidationPayloadIn ==
    ASSUME NEW b \in Bytes, NEW c, Cursor(b, c)
    PROVE  In(b, c, Decoder!DecodeValidationPayload(c))
<1>1. In(b, c, Decoder!Bad(c))
  BY BadCursor
<1>2. CASE Decoder!HasTlv(c)
  <2> DEFINE value == Decoder!Advance(c, 4)
             n == Decoder!LengthAt(c)
  <2>1. In(b, c, value) /\ value.at + n <= c.limit /\ n \in Nat
    BY <1>2, TlvTaken, TlvFits
  <2>2. PlainKey("sigPayload")
    BY DEF PlainKey, CustomLists
  <2> HIDE DEF value, n
  <2>3. In(b, value, Decoder!PutAsBuffer(value, n, "sigPayload"))
    BY <2>1, <2>2, PutAsBufferIn DEF In
  <2>4. Decoder!DecodeValidationPayload(c)
          \in {Decoder!Bad(c), Decoder!PutAsBuffer(value, n, "sigPayload")}
    BY DEF Decoder!DecodeValidationPayload, value, n
  <2> QED
    BY <1>1, <2>1, <2>3, <2>4 DEF In
<1>3. CASE ~Decoder!HasTlv(c)
  BY <1>1, <1>3 DEF Decoder!DecodeValidationPayload
<1> QED
  BY <1>2, <1>3

LEMMA DecodeValidationIn ==
    ASSUME NEW b \in Bytes, NEW c, Cursor(b, c)
    PROVE  In(b, c, Decoder!DecodeValidation(c))
<1> DEFINE alg == Decoder!DecodeValidationAlg(c)
           marked == Decoder!MarkStop(alg)
<1>1. In(b, c, alg)
  BY DecodeValidationAlgIn
<1> HIDE DEF alg
<1>2. In(b, alg, marked)
  BY <1>1, MarkedCursor DEF In
<1> HIDE DEF marked
<1>3. In(b, marked, Decoder!DecodeValidationPayload(marked))
  BY <1>2, DecodeValidationPayloadIn DEF In
<1>4. Decoder!DecodeValidation(c) \in {c, alg, Decoder!DecodeValidationPayload(marked)}
  BY DEF Decoder!DecodeValidation, Decoder!DecodeAfterAlg, alg, marked
<1> QED
  BY <1>1, <1>2, <1>3, <1>4 DEF In

(* The fixed header: it is in order, or nothing else is read. *)
HeaderOK(b) ==
    /\ b[1] = 1
    /\ Decoder!PacketLength(b) >= 8 /\ Decoder!HeaderLength(b) >= 8
    /\ Decoder!PacketLength(b) >= Decoder!HeaderLength(b)

LEMMA WithHeaderType ==
    ASSUME NEW b \in Bytes, Len(b) >= 8, NEW d, IsDictionary(d)
    PROVE  IsDictionary(Decoder!WithHeader(d, b))
<1>1. /\ PlainKey("fixedHeader") /\ PlainKey("hopLimit") /\ PlainKey("returnCode")
      /\ "hopLimit" \notin DOMAIN Enumerated /\ "returnCode" \notin DOMAIN Enumerated
  BY DEF PlainKey, CustomLists, Enumerated
<1>2. 5 \in 1..Len(b) /\ 6 \in 1..Len(b)
  BY DEF Bytes
<1>3. PICK hop \in 0..255, code \in 0..255 : hop = b[5] /\ code = b[6]
  BY <1>2, ByteAt
<1>4. hop \in ValuesOf("hopLimit", "integer") /\ code \in ValuesOf("returnCode", "integer")
  BY ONLY <1>1, hop \in 0..255, code \in 0..255 DEF ValuesOf
<1>5. SubSeq(b, 1, 8) \in ValuesOf("fixedHeader", "buffer")
  <2>1. \A i \in 1..8 : b[i] \in 0..255
    <3> TAKE i \in 1..8
    <3>1. i \in 1..Len(b)
      BY DEF Bytes
    <3> QED
      BY <3>1, ByteAt
  <2>2. SubSeq(b, 1, 8) \in Seq(0..255)
    BY <2>1, SubSeqProperties
  <2> QED
    BY <2>2 DEF ValuesOf, Bytes
<1> DEFINE kept == PutNew(d, "fixedHeader", Entry("buffer", SubSeq(b, 1, 8)))
           hops == PutInteger(kept, "hopLimit", hop)
           whole == PutInteger(hops, "returnCode", code)
<1>6. IsDictionary(kept)
  BY <1>1, <1>5, NewPut DEF PlainKey
<1> HIDE DEF kept
<1>7. IsDictionary(hops)
  BY <1>1, <1>4, <1>6, IntegerPut DEF PlainKey
<1> HIDE DEF hops
<1>8. IsDictionary(whole)
  BY <1>1, <1>4, <1>7, IntegerPut DEF PlainKey
<1> HIDE DEF whole
<1>9. kept = Decoder!PutNew(d, "fixedHeader", Decoder!Entry("buffer", SubSeq(b, 1, 8)))
  BY SamePutNew, SameEntry DEF kept
<1>10. hops = Decoder!PutInteger(kept, "hopLimit", hop)
  BY SamePutInteger DEF hops
<1>11. whole = Decoder!PutInteger(hops, "returnCode", code)
  BY SamePutInteger DEF whole
<1> QED
  BY <1>3, <1>8, <1>9, <1>10, <1>11 DEF Decoder!WithHeader

LEMMA HeaderCursor ==
    ASSUME NEW b \in Bytes, Len(b) >= 8, Decoder!PacketLength(b) <= Len(b),
           NEW d, IsDictionary(d), HeaderOK(b)
    PROVE  /\ Cursor(b, Decoder!DecodeFixedHeader(b, d))
           /\ Decoder!HeaderLength(b) \in Nat
           /\ Decoder!HeaderLength(b) >= 8
           /\ Decoder!DecodeFixedHeader(b, d).at + (Decoder!HeaderLength(b) - 8)
                <= Decoder!DecodeFixedHeader(b, d).limit
<1>1. PICK limit \in Nat : limit = Decoder!PacketLength(b)
  BY U16Type DEF Decoder!PacketLength
<1>2. PICK length \in Nat : length = Decoder!HeaderLength(b)
  <2>1. 8 \in 1..Len(b)
    BY DEF Bytes
  <2>2. PICK x \in 0..255 : x = b[8]
    BY <2>1, ByteAt
  <2>3. PICK v \in Nat : v = x
    OBVIOUS
  <2> QED
    BY ONLY <2>2, <2>3 DEF Decoder!HeaderLength
<1>3. limit >= 8 /\ length >= 8 /\ limit >= length
  BY <1>1, <1>2 DEF HeaderOK
<1>4. PICK o \in BOOLEAN : o = HeaderOK(b)
  BY DEF HeaderOK
<1>5. PICK e : e = Decoder!WithHeader(d, b) /\ IsDictionary(e)
  BY WithHeaderType
<1>6. Decoder!DecodeFixedHeader(b, d) =
        [b |-> b, at |-> 8, limit |-> limit, d |-> e, ok |-> o, start |-> 0, stop |-> 0]
  BY <1>1, <1>4, <1>5 DEF Decoder!DecodeFixedHeader, HeaderOK
<1> DEFINE c == [b |-> b, at |-> 8, limit |-> limit, d |-> e, ok |-> o, start |-> 0, stop |-> 0]
<1>7. Cursor(b, c) /\ c.at = 8 /\ c.limit = limit
  <2>1. Whole(c)
    BY DEF Whole
  <2>2. limit <= Len(b)
    BY <1>1
  <2> QED
    BY <1>3, <1>5, <2>1, <2>2 DEF Cursor
<1> HIDE DEF c
<1> QED
  BY <1>2, <1>3, <1>6, <1>7 DEF c

LEMMA NotDecodedFails == ~Decoder!NotDecoded.ok
BY Zenon DEF Decoder!NotDecoded

LEMMA BadStaysBad ==
    ASSUME NEW c, ~c.ok
    PROVE  Decoder!Result(Decoder!DecodeValidation(c)) = Decoder!NotDecoded
BY DEF Decoder!DecodeValidation, Decoder!Result

(* What the decoder returns for the packet b is a dictionary as the        *)
(* encoder expects it, and its two regions are of b.                       *)
IsDecoded(b, result) ==
    /\ IsDictionary(result.dictionary)
    /\ \E start, stop, end \in 0..Len(b) :
          /\ start <= end /\ stop <= end
          /\ result.protected = SubSeq(b, start + 1, stop)
          /\ result.hashed = SubSeq(b, start + 1, end)

LEMMA ResultType ==
    ASSUME NEW b \in Bytes, NEW c, Cursor(b, c), Decoder!Result(c).ok
    PROVE  IsDecoded(b, Decoder!Result(c))
<1>1. c.ok
  BY NotDecodedFails DEF Decoder!Result
<1>2. /\ Decoder!Result(c).dictionary = c.d
      /\ Decoder!Result(c).protected = SubSeq(b, c.start + 1, c.stop)
      /\ Decoder!Result(c).hashed = SubSeq(b, c.start + 1, c.at)
  BY <1>1 DEF Decoder!Result, Cursor
<1>3. /\ c.start \in 0..Len(b) /\ c.stop \in 0..Len(b) /\ c.at \in 0..Len(b)
      /\ c.start <= c.at /\ c.stop <= c.at
  <2>1. Len(b) \in Nat
    BY DEF Bytes
  <2> QED
    BY <2>1 DEF Cursor
<1> QED
  BY <1>2, <1>3 DEF IsDecoded, Cursor

(* A packet the decoder accepts, whatever its bytes, is a dictionary whose *)
(* every entry has the type of its key, so that no value was taken from    *)
(* behind the packet's end, with regions that lie in the packet, the       *)
(* protected one beginning with that of the hash and ending in it.         *)
THEOREM DecodedType ==
    ASSUME NEW b \in Bytes, Len(b) >= 8, Decoder!Decode(b).ok
    PROVE  IsDecoded(b, Decoder!Decode(b))
<1> DEFINE types == {t \in DOMAIN Decoder!DecodedTypes : Decoder!DecodedTypes[t] = b[2]}
           d == [type |-> CHOOSE t \in types : TRUE]
           first == Decoder!DecodeFixedHeader(b, d)
           headers == Decoder!DecodeOptionalHeaders(first)
           marked == Decoder!MarkStart(headers)
           message == Decoder!DecodeMessage(marked)
           last == Decoder!DecodeValidation(message)
<1>1. Decoder!PacketLength(b) <= Len(b) /\ Decoder!Decode(b) = Decoder!Result(last)
  <2>1. ~(types = {} \/ Decoder!PacketLength(b) > Len(b))
    <3>1. CASE types = {} \/ Decoder!PacketLength(b) > Len(b)
      <4>1. Decoder!Decode(b) = Decoder!NotDecoded
        BY <3>1 DEF Decoder!Decode
      <4> QED
        BY <4>1, NotDecodedFails
    <3> QED
      BY <3>1
  <2>2. Decoder!PacketLength(b) \in Nat /\ Len(b) \in Nat
    BY U16Type DEF Decoder!PacketLength, Bytes
  <2>3. Decoder!Decode(b) = Decoder!Result(last)
    BY <2>1 DEF Decoder!Decode
  <2> HIDE DEF types, last
  <2> QED
    BY <2>1, <2>2, <2>3
<1>2. IsDictionary(d)
  BY DEF IsDictionary, CustomLists
<1> HIDE DEF d
<1>3. CASE HeaderOK(b)
  <2>1. /\ Cursor(b, first)
        /\ Decoder!HeaderLength(b) \in Nat /\ Decoder!HeaderLength(b) >= 8
        /\ first.at + (Decoder!HeaderLength(b) - 8) <= first.limit
    BY <1>1, <1>2, <1>3, HeaderCursor
  <2> HIDE DEF first
  <2>2. In(b, first, headers)
    BY <2>1, DecodeOptionalHeadersIn
  <2> HIDE DEF headers
  <2>3. In(b, headers, marked)
    BY <2>2, MarkedCursor DEF In
  <2> HIDE DEF marked
  <2>4. In(b, marked, message)
    BY <2>3, DecodeMessageIn DEF In
  <2> HIDE DEF message
  <2>5. In(b, message, last)
    BY <2>4, DecodeValidationIn DEF In
  <2> HIDE DEF last
  <2> QED
    BY <1>1, <2>5, ResultType DEF In
<1>4. CASE ~HeaderOK(b)
  <2>1. ~first.ok
    <3>1. PICK o \in BOOLEAN : o = HeaderOK(b)
      BY DEF HeaderOK
    <3>2. first = [b |-> b, at |-> 8, limit |-> Decoder!PacketLength(b),
                   d |-> Decoder!WithHeader(d, b), ok |-> o, start |-> 0, stop |-> 0]
      BY <3>1 DEF Decoder!DecodeFixedHeader, HeaderOK
    <3>3. first.ok = o
      BY <3>2
    <3> QED
      BY <1>4, <3>1, <3>3
  <2>2. headers = first
    BY <2>1 DEF Decoder!DecodeOptionalHeaders
  <2>3. ~marked.ok /\ "ok" \in DOMAIN marked
    BY <2>1, <2>2 DEF Decoder!MarkStart, Decoder!DecodeFixedHeader
  <2> HIDE DEF marked
  <2>4. ~message.ok
    <3>1. PICK o \in BOOLEAN : o = FALSE
      OBVIOUS
    <3>2. message = [marked EXCEPT !.ok = o]
      BY <2>3, <3>1 DEF Decoder!DecodeMessage, Decoder!Bad
    <3>3. message.ok = o
      BY <2>3, <3>2
    <3> QED
      BY <3>1, <3>3
  <2>5. Decoder!Decode(b) = Decoder!NotDecoded
    BY <1>1, <2>4, BadStaysBad
  <2> QED
    BY <2>5, NotDecodedFails
<1> QED
  BY <1>3, <1>4

----------------------------------------------------------------------------
(* The calls of an encoding: which containers are open when each is made.  *)

Closers == {"measured", "counted", "rewritten", "optional"}
Ops == Closers \cup {"append", "raw", "open", "sign", "fail", "crash",
                     "start", "end", "header", "finalize"}
CallSet == [op : Ops, type : Nat, value : Bytes]

(* The containers that are open, or what is behind the last of them *)
Headed == -1
Finished == -2

Moves(op, a, b) ==
    \/ op \in {"append", "raw", "sign", "fail", "crash"} /\ a \in Nat /\ b = a
    \/ op = "open" /\ a \in Nat /\ b = a + 1
    \/ op \in Closers /\ a \in Nat \ {0} /\ b = a - 1
    \/ op \in {"start", "end"} /\ a = 0 /\ b = 0
    \/ op = "header" /\ a = 0 /\ b = Headed
    \/ op = "finalize" /\ a = Headed /\ b = Finished

IsPath(h, calls, a, b) ==
    /\ h \in [0..Len(calls) -> Int]
    /\ h[0] = a /\ h[Len(calls)] = b
    /\ \A i \in 1..Len(calls) : Moves(calls[i].op, h[i - 1], h[i])

Runs(calls, a, b) == calls \in Seq(CallSet) /\ \E h : IsPath(h, calls, a, b)

LEMMA RunsEmpty ==
    ASSUME NEW a \in Int
    PROVE  Runs(<<>>, a, a)
<1> DEFINE h == [i \in 0..0 |-> a]
<1>1. IsPath(h, <<>>, a, a)
  BY DEF IsPath
<1> QED
  BY <1>1 DEF Runs

LEMMA RunsOne ==
    ASSUME NEW c \in CallSet, NEW a \in Int, NEW b \in Int, Moves(c.op, a, b)
    PROVE  Runs(<<c>>, a, b)
<1> DEFINE h == [i \in 0..1 |-> IF i = 0 THEN a ELSE b]
<1>1. <<c>> \in Seq(CallSet) /\ Len(<<c>>) = 1 /\ <<c>>[1] = c
  OBVIOUS
<1>2. h \in [0..1 -> Int] /\ h[0] = a /\ h[1] = b
  OBVIOUS
<1> HIDE DEF h
<1>3. \A i \in 1..1 : Moves(<<c>>[i].op, h[i - 1], h[i])
  <2> TAKE i \in 1..1
  <2>1. i = 1 /\ i - 1 = 0
    OBVIOUS
  <2> QED
    BY <1>1, <1>2, <2>1
<1>4. IsPath(h, <<c>>, a, b)
  BY <1>1, <1>2, <1>3 DEF IsPath
<1> QED
  BY <1>1, <1>4 DEF Runs

LEMMA RunsConcat ==
    ASSUME NEW s, NEW t, NEW a, NEW b, NEW c, Runs(s, a, b), Runs(t, b, c)
    PROVE  Runs(s \o t, a, c)
<1>1. PICK f : IsPath(f, s, a, b)
  BY DEF Runs
<1>2. PICK g : IsPath(g, t, b, c)
  BY DEF Runs
<1>3. s \in Seq(CallSet) /\ t \in Seq(CallSet)
  BY DEF Runs
<1>4. PICK m \in Nat : m = Len(s)
  BY <1>3
<1>5. PICK n \in Nat : n = Len(t)
  BY <1>3
<1> DEFINE u == s \o t
<1>6. /\ u \in Seq(CallSet) /\ Len(u) = m + n
      /\ \A i \in 1..(m + n) : u[i] = IF i <= m THEN s[i] ELSE t[i - m]
  BY <1>3, <1>4, <1>5, ConcatProperties
<1> HIDE DEF u
<1> DEFINE h == [i \in 0..(m + n) |-> IF i <= m THEN f[i] ELSE g[i - m]]
<1>f. /\ f \in [0..m -> Int] /\ f[0] = a /\ f[m] = b
      /\ \A i \in 1..m : Moves(s[i].op, f[i - 1], f[i])
  BY <1>1, <1>4 DEF IsPath
<1>g. /\ g \in [0..n -> Int] /\ g[0] = b /\ g[n] = c
      /\ \A i \in 1..n : Moves(t[i].op, g[i - 1], g[i])
  BY <1>2, <1>5 DEF IsPath
<1>7. h \in [0..(m + n) -> Int]
  <2>1. ASSUME NEW i \in 0..(m + n) PROVE (IF i <= m THEN f[i] ELSE g[i - m]) \in Int
    <3>1. CASE i <= m
      BY <1>f, <3>1
    <3>2. CASE ~(i <= m)
      <4>1. i - m \in 0..n
        BY <3>2
      <4> QED
        BY <1>g, <3>2, <4>1
    <3> QED
      BY <3>1, <3>2
  <2> QED
    BY <2>1
<1>8. h[0] = a
  <2>1. 0 \in 0..(m + n) /\ 0 <= m
    OBVIOUS
  <2> QED
    BY <1>f, <2>1
<1>9. h[m + n] = c
  <2>1. m + n \in 0..(m + n) /\ (m + n) - m = n
    OBVIOUS
  <2>2. CASE n = 0
    <3>1. m + n <= m /\ m + n = m
      BY <2>2
    <3> QED
      BY <1>f, <1>g, <2>1, <2>2, <3>1
  <2>3. CASE n # 0
    <3>1. ~(m + n <= m)
      BY <2>3
    <3> QED
      BY <1>g, <2>1, <3>1
  <2> QED
    BY <2>2, <2>3
<1>10. \A i \in 1..(m + n) : Moves(u[i].op, h[i - 1], h[i])
  <2> TAKE i \in 1..(m + n)
  <2>1. CASE i <= m
    <3>1. i \in 1..m /\ i \in 0..(m + n) /\ i - 1 \in 0..(m + n) /\ i - 1 <= m
      BY <2>1
    <3>2. h[i] = f[i] /\ h[i - 1] = f[i - 1] /\ u[i] = s[i]
      BY <1>6, <2>1, <3>1
    <3> HIDE DEF h
    <3> QED
      BY <1>f, <3>1, <3>2
  <2>2. CASE ~(i <= m)
    <3>1. PICK j \in 1..n : j = i - m
      BY <2>2
    <3>2. i \in 0..(m + n) /\ i - 1 \in 0..(m + n)
      OBVIOUS
    <3>3. h[i] = g[j] /\ u[i] = t[j]
      BY <1>6, <2>2, <3>1, <3>2
    <3>4. h[i - 1] = g[j - 1]
      <4>1. CASE i - 1 <= m
        <5>1. i - 1 = m /\ j - 1 = 0
          BY <2>2, <3>1, <4>1
        <5> QED
          BY <1>f, <1>g, <3>2, <4>1, <5>1
      <4>2. CASE ~(i - 1 <= m)
        <5>1. (i - 1) - m = j - 1
          BY <3>1
        <5> QED
          BY <3>2, <4>2, <5>1
      <4> QED
        BY <4>1, <4>2
    <3> HIDE DEF h
    <3> QED
      BY <1>g, <3>1, <3>3, <3>4
  <2> QED
    BY <2>1, <2>2
<1> HIDE DEF h
<1>11. IsPath(h, u, a, c)
  BY <1>6, <1>7, <1>8, <1>9, <1>10 DEF IsPath
<1>12. Runs(u, a, c)
  BY <1>6, <1>11 DEF Runs
<1> QED
  BY <1>12 DEF u

(* The first call, and what is left behind it *)
LEMMA RunsOn ==
    ASSUME NEW s, NEW a, NEW b, Runs(s, a, b), s # <<>>
    PROVE  /\ Head(s) \in CallSet
           /\ \E next \in Int : Moves(Head(s).op, a, next) /\ Runs(Tail(s), next, b)
<1>1. PICK f : IsPath(f, s, a, b)
  BY DEF Runs
<1>2. s \in Seq(CallSet)
  BY DEF Runs
<1>3. PICK n \in Nat : n = Len(s) /\ n > 0
  BY <1>2, EmptySeq
<1>4. /\ f \in [0..n -> Int] /\ f[0] = a /\ f[n] = b
      /\ \A i \in 1..n : Moves(s[i].op, f[i - 1], f[i])
  BY <1>1, <1>3 DEF IsPath
<1>5. /\ Head(s) \in CallSet /\ Head(s) = s[1]
      /\ Tail(s) \in Seq(CallSet) /\ Len(Tail(s)) = n - 1
      /\ \A i \in 1..(n - 1) : Tail(s)[i] = s[i + 1]
  BY <1>2, <1>3, HeadTailProperties
<1> DEFINE t == Tail(s)
           g == [i \in 0..(n - 1) |-> f[i + 1]]
<1> HIDE DEF t
<1>6. f[1] \in Int /\ Moves(Head(s).op, a, f[1])
  <2>1. 1 \in 1..n /\ 1 \in 0..n /\ 1 - 1 = 0
    BY <1>3
  <2> QED
    BY <1>4, <1>5, <2>1
<1>7. g \in [0..(n - 1) -> Int]
  <2>1. \A i \in 0..(n - 1) : i + 1 \in 0..n
    BY <1>3
  <2> QED
    BY <1>4, <2>1
<1>8. g[0] = f[1] /\ g[n - 1] = b
  <2>1. 0 \in 0..(n - 1) /\ n - 1 \in 0..(n - 1) /\ 0 + 1 = 1 /\ (n - 1) + 1 = n
    BY <1>3
  <2> QED
    BY <1>4, <2>1
<1>9. \A i \in 1..(n - 1) : Moves(t[i].op, g[i - 1], g[i])
  <2> TAKE i \in 1..(n - 1)
  <2>1. i + 1 \in 1..n /\ i \in 0..(n - 1) /\ i - 1 \in 0..(n - 1) /\ (i - 1) + 1 = i /\ (i + 1) - 1 = i
    BY <1>3
  <2>2. g[i] = f[i + 1] /\ g[i - 1] = f[i] /\ t[i] = s[i + 1]
    BY <1>5, <2>1 DEF t
  <2> HIDE DEF g
  <2> QED
    BY <1>4, <2>1, <2>2
<1> HIDE DEF g
<1>10. IsPath(g, t, f[1], b)
  BY <1>5, <1>7, <1>8, <1>9 DEF IsPath, t
<1>11. Runs(t, f[1], b)
  BY <1>5, <1>10 DEF Runs, t
<1> QED
  BY <1>5, <1>6, <1>11 DEF t

(* Nothing is left when the packet is finished. *)
LEMMA RunsOut ==
    ASSUME NEW s, Runs(s, Finished, Finished)
    PROVE  s = <<>>
<1> SUFFICES ASSUME s # <<>> PROVE FALSE
  OBVIOUS
<1>1. PICK next \in Int : Moves(Head(s).op, Finished, next)
  BY RunsOn
<1> QED
  BY <1>1 DEF Moves, Finished, Headed

----------------------------------------------------------------------------
(* Calls that close what they open *)

Flat(calls) == \A a \in Nat : Runs(calls, a, a)

LEMMA FlatEmpty == Flat(<<>>)
BY RunsEmpty DEF Flat

LEMMA FlatConcat ==
    ASSUME NEW s, NEW t, Flat(s), Flat(t)
    PROVE  Flat(s \o t)
BY RunsConcat DEF Flat

LEMMA CallType ==
    ASSUME NEW op \in Ops, NEW type \in Nat, NEW value \in Bytes
    PROVE  Call(op, type, value) \in CallSet /\ Call(op, type, value).op = op
BY DEF Call, CallSet

LEMMA NoBytes == <<>> \in Bytes
BY DEF Bytes

Steady == {"append", "raw", "sign", "fail", "crash"}

LEMMA FlatCall ==
    ASSUME NEW op \in Steady, NEW type \in Nat, NEW value \in Bytes
    PROVE  Flat(<<Call(op, type, value)>>)
<1>1. PICK c \in CallSet : c = Call(op, type, value) /\ c.op = op
  BY CallType DEF Steady, Ops
<1>2. \A a \in Nat : Moves(c.op, a, a)
  BY <1>1 DEF Steady, Moves
<1>3. \A a \in Nat : Runs(<<c>>, a, a)
  BY <1>2, RunsOne
<1> QED
  BY <1>1, <1>3 DEF Flat

LEMMA FlatDo ==
    ASSUME NEW op \in Steady
    PROVE  Flat(Do(op))
<1>1. 0 \in Nat
  OBVIOUS
<1> QED
  BY <1>1, FlatCall, NoBytes DEF Do

LEMMA FlatTlv ==
    ASSUME NEW type \in Nat, NEW value \in Bytes
    PROVE  Flat(Tlv(type, value))
BY FlatCall DEF Tlv, Steady

LEMMA FlatRaw ==
    ASSUME NEW value \in Bytes
    PROVE  Flat(Raw(value))
<1>1. 0 \in Nat /\ "raw" \in Steady
  BY DEF Steady
<1> QED
  BY <1>1, FlatCall DEF Raw

LEMMA FlatFail == Flat(Fail) /\ Flat(Do("sign")) /\ Flat(Do("crash"))
BY FlatDo DEF Fail, Steady

LEMMA FlatContainer ==
    ASSUME NEW type \in Nat, NEW calls, Flat(calls), NEW close \in Closers
    PROVE  Flat(Container(type, calls, close))
<1>0. "open" \in Ops /\ close \in Ops /\ 0 \in Nat
  BY DEF Ops
<1>1. PICK first \in CallSet : first = Call("open", type, <<>>) /\ first.op = "open"
  BY <1>0, CallType, NoBytes
<1>2. PICK last \in CallSet : last = Call(close, 0, <<>>) /\ last.op = close
  BY <1>0, CallType, NoBytes
<1>3. ASSUME NEW a \in Nat PROVE Runs((<<first>> \o calls) \o <<last>>, a, a)
  <2>0. a + 1 \in Nat /\ a + 1 \in Int /\ a \in Int
    OBVIOUS
  <2>1. Moves(first.op, a, a + 1)
    BY <1>1 DEF Moves
  <2>2. Runs(<<first>>, a, a + 1)
    BY <2>0, <2>1, RunsOne
  <2>3. Runs(calls, a + 1, a + 1)
    BY <2>0 DEF Flat
  <2>4. Moves(last.op, a + 1, a)
    BY <1>2 DEF Moves
  <2>5. Runs(<<last>>, a + 1, a)
    BY <2>0, <2>4, RunsOne
  <2>6. Runs(<<first>> \o calls, a, a + 1)
    BY <2>2, <2>3, RunsConcat
  <2> QED
    BY <2>5, <2>6, RunsConcat
<1> QED
  BY <1>1, <1>2, <1>3 DEF Flat, Container, Do

(* A sequence of calls that only append *)
LEMMA FlatAll ==
    ASSUME NEW calls \in Seq(CallSet), \A i \in 1..Len(calls) : calls[i].op \in Steady
    PROVE  Flat(calls)
<1> SUFFICES ASSUME NEW a \in Nat PROVE Runs(calls, a, a)
  BY DEF Flat
<1> DEFINE h == [i \in 0..Len(calls) |-> a]
<1>1. Len(calls) \in Nat
  OBVIOUS
<1>2. /\ h \in [0..Len(calls) -> Int] /\ h[0] = a /\ h[Len(calls)] = a
      /\ \A i \in 1..Len(calls) : h[i] = a /\ h[i - 1] = a
  <2>1. \A i \in 1..Len(calls) : i \in 0..Len(calls) /\ i - 1 \in 0..Len(calls)
    BY <1>1
  <2>2. 0 \in 0..Len(calls) /\ Len(calls) \in 0..Len(calls)
    BY <1>1
  <2> QED
    BY <2>1, <2>2
<1> HIDE DEF h
<1>3. \A i \in 1..Len(calls) : Moves(calls[i].op, a, a)
  BY DEF Steady, Moves
<1>4. IsPath(h, calls, a, a)
  BY <1>2, <1>3 DEF IsPath
<1> QED
  BY <1>4 DEF Runs

LEMMA FlatAppends ==
    ASSUME NEW n \in Nat, NEW f, f \in [1..n -> CallSet], \A i \in 1..n : f[i].op = "append"
    PROVE  Flat(f)
<1>1. f \in Seq(CallSet) /\ Len(f) = n
  BY IsASeq
<1> QED
  BY <1>1, FlatAll DEF Steady

LEMMA FlatElements ==
    ASSUME NEW list \in Seq(ListEntry)
    PROVE  Flat(Elements(list))
<1>1. PICK n \in Nat : n = Len(list) /\ DOMAIN list = 1..n
  BY LenProperties
<1> DEFINE f == [i \in 1..n |-> Call("append", list[i].type, list[i].value)]
<1>2. ASSUME NEW i \in 1..n
      PROVE  /\ Call("append", list[i].type, list[i].value) \in CallSet
             /\ Call("append", list[i].type, list[i].value).op = "append"
  <2>1. PICK entry \in ListEntry : entry = list[i]
    BY <1>1, ElementOfSeq
  <2>2. entry.type \in Nat /\ entry.value \in Bytes /\ "append" \in Ops
    BY DEF ListEntry, Ops
  <2> QED
    BY <2>1, <2>2, CallType
<1>3. f \in [1..n -> CallSet] /\ \A i \in 1..n : f[i].op = "append"
  BY <1>2
<1>4. Elements(list) = f
  BY <1>1 DEF Elements
<1> HIDE DEF f
<1> QED
  BY <1>3, <1>4, FlatAppends

LEMMA FlatPointers ==
    ASSUME NEW pointers \in Seq(Pointer)
    PROVE  Flat([i \in DOMAIN pointers |->
                   Call("append", HashGroup[pointers[i].type], pointers[i].digest)])
<1>1. PICK n \in Nat : n = Len(pointers) /\ DOMAIN pointers = 1..n
  BY LenProperties
<1> DEFINE f == [i \in 1..n |-> Call("append", HashGroup[pointers[i].type], pointers[i].digest)]
<1>2. ASSUME NEW i \in 1..n
      PROVE  /\ Call("append", HashGroup[pointers[i].type], pointers[i].digest) \in CallSet
             /\ Call("append", HashGroup[pointers[i].type], pointers[i].digest).op = "append"
  <2>1. PICK pointer \in Pointer : pointer = pointers[i]
    BY <1>1, ElementOfSeq
  <2>2. HashGroup[pointer.type] \in Nat /\ pointer.digest \in Bytes /\ "append" \in Ops
    BY DEF Pointer, HashGroup, Ops
  <2> QED
    BY <2>1, <2>2, CallType
<1>3. f \in [1..n -> CallSet] /\ \A i \in 1..n : f[i].op = "append"
  BY <1>2
<1>4. [i \in DOMAIN pointers |->
         Call("append", HashGroup[pointers[i].type], pointers[i].digest)] = f
  BY <1>1
<1> HIDE DEF f
<1> QED
  BY <1>3, <1>4, FlatAppends

(* A sequence of such calls, one behind the other *)
JoinRound(p, i, x) == IF i = 1 THEN p[i] ELSE x \o p[i]
JoinGood(p, x) == TRUE
Joining == INSTANCE Iteration WITH Round <- JoinRound, Good <- JoinGood

LEMMA FlatFlatten ==
    ASSUME NEW n \in Nat, NEW s, s = [i \in 1..n |-> s[i]], Len(s) = n,
           \A i \in 1..n : Flat(s[i])
    PROVE  Flat(FlattenSeq(s))
<1>1. CASE n = 0
  <2>1. s = <<>>
    BY <1>1
  <2>2. FlattenSeq(s) = s
    BY <1>1 DEF FlattenSeq
  <2> QED
    BY <2>1, <2>2, FlatEmpty
<1>2. CASE n # 0
  <2> DEFINE f == CHOOSE g : g = [i \in 1..n |-> IF i = 1 THEN s[i] ELSE g[i - 1] \o s[i]]
  <2>1. FlattenSeq(s) = f[n]
    BY <1>2 DEF FlattenSeq
  <2>2. \E g : g = [i \in 1..n |-> IF i = 1 THEN s[i] ELSE g[i - 1] \o s[i]]
    <3>1. PICK after : Joining!Follows(after, s, <<>>, n)
      BY Joining!Defined
    <3>2. \A i \in 0..n : after[i] = IF i = 0 THEN <<>> ELSE JoinRound(s, i, after[i - 1])
      BY <3>1 DEF Joining!Follows
    <3> DEFINE g == [i \in 1..n |-> after[i]]
    <3>3. \A i \in 1..n : g[i] = IF i = 1 THEN s[i] ELSE g[i - 1] \o s[i]
      <4> TAKE i \in 1..n
      <4>1. i \in 0..n /\ i # 0
        OBVIOUS
      <4>2. g[i] = JoinRound(s, i, after[i - 1])
        BY <3>2, <4>1
      <4>3. CASE i = 1
        BY <4>2, <4>3 DEF JoinRound
      <4>4. CASE i # 1
        <5>1. i - 1 \in 1..n
          BY <4>4
        <5>2. g[i - 1] = after[i - 1]
          BY <5>1
        <5> QED
          BY <4>2, <4>4, <5>2 DEF JoinRound
      <4> QED
        BY <4>3, <4>4
    <3>4. g = [i \in 1..n |-> IF i = 1 THEN s[i] ELSE g[i - 1] \o s[i]]
      BY <3>3
    <3> QED
      BY <3>4
  <2>3. f = [i \in 1..n |-> IF i = 1 THEN s[i] ELSE f[i - 1] \o s[i]]
    BY <2>2
  <2> HIDE DEF f
  <2> DEFINE T == {k \in Nat : k + 1 <= n => Flat(f[k + 1])}
  <2>4. 0 \in T
    <3>1. 1 \in 1..n
      BY <1>2
    <3>2. f[1] = s[1]
      BY <2>3, <3>1
    <3> QED
      BY <3>1, <3>2
  <2>5. ASSUME NEW k \in Nat, k \in T PROVE k + 1 \in T
    <3> SUFFICES ASSUME (k + 1) + 1 <= n PROVE Flat(f[(k + 1) + 1])
      OBVIOUS
    <3>1. PICK j \in 1..n : j = (k + 1) + 1
      OBVIOUS
    <3>2. j # 1 /\ j - 1 = k + 1 /\ k + 1 <= n
      BY <3>1
    <3>3. f[j] = f[j - 1] \o s[j]
      BY <2>3, <3>2
    <3>4. Flat(f[k + 1]) /\ Flat(s[j])
      BY <2>5, <3>2
    <3>5. Flat(f[k + 1] \o s[j])
      BY <3>4, FlatConcat
    <3> QED
      BY <3>1, <3>2, <3>3, <3>5
  <2>6. PICK k \in Nat : k = n - 1
    BY <1>2
  <2>7. k \in T
    <3> HIDE DEF T
    <3> QED
      BY <2>4, <2>5, Induction
  <2> QED
    BY <2>1, <2>6, <2>7
<1> QED
  BY <1>1, <1>2

----------------------------------------------------------------------------
(* The bytes of integers *)

LEMMA ByteIsOctet == Byte = 0..255 /\ Base = 256 /\ HeaderSize = 8
BY PacketAssumption DEF Byte

LEMMA DigitType ==
    ASSUME NEW v \in Nat, NEW n \in Nat
    PROVE  Digit(v, n) \in 0..255
<1>1. Base = 256
  BY PacketAssumption
<1>2. CASE n \in 0..3
  <2>1. PICK w \in Nat : w = Weights[n + 1] /\ w > 0
    <3>1. Weights = <<1, 256, 256 * 256, 256 * 256 * 256>>
      BY <1>1 DEF Weights
    <3>2. n = 0 \/ n = 1 \/ n = 2 \/ n = 3
      BY <1>2
    <3> QED
      BY <3>1, <3>2
  <2>2. v \div w \in Nat
    BY <2>1
  <2>3. PICK q \in Nat : q = v \div w
    BY <2>2
  <2>4. q % 256 \in 0..255
    OBVIOUS
  <2>5. Len(Weights) = 4
    BY DEF Weights
  <2>6. n < 4
    BY <1>2
  <2> QED
    BY <1>1, <2>1, <2>3, <2>4, <2>5, <2>6 DEF Digit
<1>3. CASE n \notin 0..3
  <2>1. Len(Weights) = 4
    BY DEF Weights
  <2>2. ~(n < 4)
    BY <1>3
  <2> QED
    BY <2>1, <2>2 DEF Digit
<1> QED
  BY <1>2, <1>3

LEMMA UnsignedType ==
    ASSUME NEW v \in Nat, NEW width \in Nat
    PROVE  Unsigned(v, width) \in Bytes /\ Len(Unsigned(v, width)) = width
<1>1. ASSUME NEW i \in 1..width PROVE Digit(v, width - i) \in 0..255
  <2>1. PICK n \in Nat : n = width - i
    OBVIOUS
  <2> QED
    BY <2>1, DigitType
<1> DEFINE f == [i \in 1..width |-> Digit(v, width - i)]
<1>2. f \in [1..width -> 0..255]
  BY <1>1
<1>3. Unsigned(v, width) = f
  BY DEF Unsigned
<1> HIDE DEF f
<1>4. f \in Seq(0..255) /\ Len(f) = width
  BY <1>2, IsASeq
<1> QED
  BY <1>3, <1>4 DEF Bytes

LEMMA Uint64Type ==
    ASSUME NEW v \in Nat
    PROVE  Uint64(v) \in Bytes
<1>1. 8 \in Nat
  OBVIOUS
<1> QED
  BY <1>1, UnsignedType DEF Uint64

(* The highest byte that is not 0 is one of four. *)
LEMMA VarIntType ==
    ASSUME NEW v \in Nat
    PROVE  VarInt(v) \in Bytes
<1> DEFINE P(n) == /\ \A k \in n..7 : Digit(v, k) = 0
                   /\ n > 1 => Digit(v, n - 1) # 0
<1>1. \A k \in 4..7 : Digit(v, k) = 0
  <2>1. Len(Weights) = 4
    BY DEF Weights
  <2> QED
    BY <2>1 DEF Digit
<1>2. \E n \in 1..8 : P(n)
  <2>1. CASE Digit(v, 3) # 0
    <3>1. P(4)
      BY <1>1, <2>1
    <3> QED
      BY <3>1
  <2>2. CASE Digit(v, 3) = 0 /\ Digit(v, 2) # 0
    <3>1. \A k \in 3..7 : k = 3 \/ k \in 4..7
      OBVIOUS
    <3>2. P(3)
      BY <1>1, <2>2, <3>1
    <3> QED
      BY <3>2
  <2>3. CASE Digit(v, 3) = 0 /\ Digit(v, 2) = 0 /\ Digit(v, 1) # 0
    <3>1. \A k \in 2..7 : k = 2 \/ k = 3 \/ k \in 4..7
      OBVIOUS
    <3>2. P(2)
      BY <1>1, <2>3, <3>1
    <3> QED
      BY <3>2
  <2>4. CASE Digit(v, 3) = 0 /\ Digit(v, 2) = 0 /\ Digit(v, 1) = 0
    <3>1. \A k \in 1..7 : k = 1 \/ k = 2 \/ k = 3 \/ k \in 4..7
      OBVIOUS
    <3>2. P(1)
      BY <1>1, <2>4, <3>1
    <3> QED
      BY <3>2
  <2> QED
    BY <2>1, <2>2, <2>3, <2>4
<1>3. VarIntLength(v) \in 1..8
  <2> DEFINE m == CHOOSE n \in 1..8 : P(n)
  <2>1. m \in 1..8
    BY <1>2
  <2>2. VarIntLength(v) = m
    BY DEF VarIntLength
  <2> QED
    BY <2>1, <2>2
<1>4. PICK n \in Nat : n = VarIntLength(v)
  BY <1>3
<1> QED
  BY <1>4, UnsignedType DEF VarInt

----------------------------------------------------------------------------
(* The fields *)

(* What an entry of a dictionary holds *)
LEMMA FieldType ==
    ASSUME NEW d, IsDictionary(d), NEW key, PlainKey(key), NEW kind, Is(d, key, kind)
    PROVE  d[key][kind] \in ValuesOf(key, kind)
BY DEF IsDictionary, PlainKey, Is

LEMMA BufferType ==
    ASSUME NEW d, IsDictionary(d), NEW key, PlainKey(key), Is(d, key, "buffer")
    PROVE  d[key].buffer \in Bytes
<1>1. d[key]["buffer"] \in ValuesOf(key, "buffer")
  BY FieldType
<1> QED
  BY <1>1 DEF ValuesOf

LEMMA NameType ==
    ASSUME NEW d, IsDictionary(d), NEW key, PlainKey(key), Is(d, key, "name")
    PROVE  d[key].name \in Seq(ListEntry)
<1>1. d[key]["name"] \in ValuesOf(key, "name")
  BY FieldType
<1> QED
  BY <1>1 DEF ValuesOf

LEMMA HashEntryType ==
    ASSUME NEW d, IsDictionary(d), NEW key, PlainKey(key), Is(d, key, "hash")
    PROVE  d[key].hash \in HashValue
<1>1. d[key]["hash"] \in ValuesOf(key, "hash")
  BY FieldType
<1> QED
  BY <1>1 DEF ValuesOf

LEMMA JsonType ==
    ASSUME NEW d, IsDictionary(d), NEW key, PlainKey(key), Is(d, key, "json")
    PROVE  d[key].json \in Bytes
<1>1. d[key]["json"] \in ValuesOf(key, "json")
  BY FieldType
<1> QED
  BY <1>1 DEF ValuesOf

LEMMA NumberType ==
    ASSUME NEW d, IsDictionary(d), NEW key, PlainKey(key), key \notin DOMAIN Enumerated,
           Is(d, key, "integer")
    PROVE  d[key].integer \in Nat
<1>1. d[key]["integer"] \in ValuesOf(key, "integer")
  BY FieldType
<1> QED
  BY <1>1 DEF ValuesOf

Flags == {"payloadType", "cryptoSuite"}

LEMMA Keys ==
    /\ \A key \in {"intFrag", "objFrag", "lifetime", "cacheTime", "name", "payload",
                   "keyIdRestriction", "objHashRestriction", "payloadType", "expiryTime",
                   "endChunk", "cryptoSuite", "keyId", "publicKey", "certificate", "keyName",
                   "keyNameKeyId", "keyNameHash", "sigTime", "sigPayload", "hopLimit",
                   "returnCode", "fixedHeader"} : PlainKey(key)
    /\ DOMAIN Enumerated = Flags
    /\ \A key \in {"lifetime", "cacheTime", "expiryTime", "endChunk", "sigTime", "hopLimit",
                   "returnCode"} : key \notin Flags
BY DEF PlainKey, CustomLists, Enumerated, Flags

LEMMA FlatField ==
    ASSUME NEW d, IsDictionary(d), NEW key, PlainKey(key), NEW type \in Nat
    PROVE  Flat(BufferField(d, key, type))
<1>1. CASE Is(d, key, "buffer")
  <2>1. PICK value \in Bytes : value = d[key].buffer
    BY <1>1, BufferType
  <2> QED
    BY <1>1, <2>1, FlatTlv DEF BufferField
<1>2. CASE ~Is(d, key, "buffer")
  BY <1>2, FlatEmpty DEF BufferField
<1> QED
  BY <1>1, <1>2

LEMMA FlatInteger ==
    ASSUME NEW d, IsDictionary(d), NEW key, PlainKey(key), NEW type \in Nat, NEW bytes,
           Is(d, key, "integer") => bytes \in Bytes
    PROVE  Flat(IntegerField(d, key, type, bytes))
BY FlatTlv, FlatField DEF IntegerField

LEMMA FlatList ==
    ASSUME NEW d, IsDictionary(d), NEW list \in CustomLists
    PROVE  Flat(CustomList(d, list))
<1>1. CASE list \in DOMAIN d
  <2>1. PICK entries \in Seq(ListEntry) : entries = d[list]
    BY <1>1 DEF IsDictionary
  <2> QED
    BY <1>1, <2>1, FlatElements DEF CustomList
<1>2. CASE list \notin DOMAIN d
  BY <1>2, FlatEmpty DEF CustomList
<1> QED
  BY <1>1, <1>2

LEMMA FlatName ==
    ASSUME NEW type \in Nat, NEW name \in Seq(ListEntry)
    PROVE  Flat(NameTlv(type, name))
<1>1. Flat(Elements(name)) /\ "counted" \in Closers
  BY FlatElements DEF Closers
<1> QED
  BY <1>1, FlatContainer DEF NameTlv

LEMMA FlatVarInt ==
    ASSUME NEW d, IsDictionary(d), NEW key, PlainKey(key), key \notin DOMAIN Enumerated,
           NEW type \in Nat
    PROVE  Flat(IntegerField(d, key, type, VarInt(d[key].integer)))
<1>1. Is(d, key, "integer") => VarInt(d[key].integer) \in Bytes
  BY NumberType, VarIntType
<1> QED
  BY <1>1, FlatInteger

LEMMA FlatOptionalHeaders ==
    ASSUME NEW d, IsDictionary(d)
    PROVE  Flat(EncodeOptionalHeaders(d))
<1>1. Flat(CustomList(d, "headers"))
  BY FlatList DEF CustomLists
<1>2. /\ Flat(BufferField(d, "intFrag", OptionalHeaders.InterestFragment))
      /\ Flat(BufferField(d, "objFrag", OptionalHeaders.ContentObjectFragment))
  BY Keys, FlatField DEF OptionalHeaders
<1>3. Flat(IntegerField(d, "lifetime", OptionalHeaders.InterestLifetime, VarInt(d.lifetime.integer)))
  BY Keys, FlatVarInt DEF OptionalHeaders
<1>4. Flat(IntegerField(d, "cacheTime", OptionalHeaders.RecommendedCacheTime, VarInt(d.cacheTime.integer)))
  BY Keys, FlatVarInt DEF OptionalHeaders
<1> DEFINE list == CustomList(d, "headers")
           intFrag == BufferField(d, "intFrag", OptionalHeaders.InterestFragment)
           objFrag == BufferField(d, "objFrag", OptionalHeaders.ContentObjectFragment)
           lifetime == IntegerField(d, "lifetime", OptionalHeaders.InterestLifetime, VarInt(d.lifetime.integer))
           cacheTime == IntegerField(d, "cacheTime", OptionalHeaders.RecommendedCacheTime, VarInt(d.cacheTime.integer))
           interest == intFrag \o lifetime \o list
           content_ == objFrag \o cacheTime \o list
<1>5. EncodeOptionalHeaders(d) \in {interest, content_, list, Fail}
  BY DEF EncodeOptionalHeaders
<1> HIDE DEF list, intFrag, objFrag, lifetime, cacheTime
<1>6. Flat(interest)
  <2>1. Flat(intFrag \o lifetime)
    BY <1>2, <1>3, FlatConcat DEF intFrag, lifetime
  <2> QED
    BY <1>1, <2>1, FlatConcat DEF list
<1>7. Flat(content_)
  <2>1. Flat(objFrag \o cacheTime)
    BY <1>2, <1>4, FlatConcat DEF objFrag, cacheTime
  <2> QED
    BY <1>1, <2>1, FlatConcat DEF list
<1> HIDE DEF interest, content_
<1> QED
  BY <1>1, <1>5, <1>6, <1>7, FlatFail DEF list

----------------------------------------------------------------------------
(* The messages *)

LEMMA FlatEncodeName ==
    ASSUME NEW d, IsDictionary(d)
    PROVE  Flat(EncodeName(d))
<1>1. CASE Is(d, "name", "name")
  <2>1. PICK name \in Seq(ListEntry) : name = d.name.name
    BY <1>1, Keys, NameType
  <2>2. Flat(NameTlv(CCNxMessage.Name, name))
    BY FlatName DEF CCNxMessage
  <2> QED
    BY <1>1, <2>1, <2>2 DEF EncodeName
<1>2. CASE ~Is(d, "name", "name")
  BY <1>2, FlatEmpty, FlatFail DEF EncodeName
<1> QED
  BY <1>1, <1>2

LEMMA FlatRestriction ==
    ASSUME NEW d, IsDictionary(d), NEW key, PlainKey(key), NEW type \in Nat
    PROVE  Flat(HashRestriction(d, key, type))
<1>1. CASE Is(d, key, "hash")
  <2>1. PICK hash \in HashValue : hash = d[key].hash
    BY <1>1, HashEntryType
  <2>2. HashType[hash.type] \in Nat /\ hash.digest \in Bytes
    BY DEF HashValue, HashType
  <2> DEFINE calls == IF ValidHash(hash.type, hash.digest)
                      THEN Tlv(HashType[hash.type], hash.digest) ELSE Fail
  <2>3. Flat(calls)
    BY <2>2, FlatTlv, FlatFail
  <2> HIDE DEF calls
  <2>4. Flat(Container(type, calls, "counted"))
    BY <2>3, FlatContainer DEF Closers
  <2> QED
    BY <1>1, <2>1, <2>4 DEF HashRestriction, calls
<1>2. CASE ~Is(d, key, "hash")
  BY <1>2, FlatEmpty DEF HashRestriction
<1> QED
  BY <1>1, <1>2

LEMMA FlatInterest ==
    ASSUME NEW d, IsDictionary(d)
    PROVE  Flat(EncodeInterest(d))
<1> DEFINE name == EncodeName(d)
           keyId == HashRestriction(d, "keyIdRestriction", CCNxMessage.KeyIdRestriction)
           hash == HashRestriction(d, "objHashRestriction", CCNxMessage.ObjectHashRestriction)
           payload == BufferField(d, "payload", CCNxMessage.Payload)
<1>1. Flat(name)
  BY FlatEncodeName
<1>2. Flat(keyId) /\ Flat(hash)
  BY Keys, FlatRestriction DEF CCNxMessage
<1>3. Flat(payload)
  BY Keys, FlatField DEF CCNxMessage
<1>4. EncodeInterest(d) = name \o keyId \o hash \o payload
  BY DEF EncodeInterest
<1> HIDE DEF name, keyId, hash, payload
<1>5. Flat(name \o keyId)
  BY <1>1, <1>2, FlatConcat
<1>6. Flat((name \o keyId) \o hash)
  BY <1>2, <1>5, FlatConcat
<1>7. Flat(((name \o keyId) \o hash) \o payload)
  BY <1>3, <1>6, FlatConcat
<1> QED
  BY <1>4, <1>7

LEMMA WirePayloadTypeType ==
    ASSUME NEW v
    PROVE  WirePayloadType(v) \in Bytes
<1>1. PICK n \in 0..255 :
        n = IF v \in {"KEY", "LINK"} THEN PayloadType[v] ELSE PayloadType.DATA
  BY DEF PayloadType
<1>2. <<n>> \in Seq(0..255)
  OBVIOUS
<1> QED
  BY <1>1, <1>2 DEF WirePayloadType, Bytes

LEMMA FlatContentObject ==
    ASSUME NEW d, IsDictionary(d)
    PROVE  Flat(EncodeContentObject(d))
<1> DEFINE name == EncodeName(d)
           type == IntegerField(d, "payloadType", CCNxMessage.PayloadType, WirePayloadType(d.payloadType.integer))
           expiry == IntegerField(d, "expiryTime", CCNxMessage.ExpiryTime, Uint64(d.expiryTime.integer))
           chunk == IntegerField(d, "endChunk", CCNxMessage.EndChunkNumber, VarInt(d.endChunk.integer))
           payload == BufferField(d, "payload", CCNxMessage.Payload)
<1>1. Flat(name)
  BY FlatEncodeName
<1>2. Flat(type)
  BY Keys, FlatInteger, WirePayloadTypeType DEF CCNxMessage
<1>3. Flat(expiry)
  <2>1. Is(d, "expiryTime", "integer") => Uint64(d.expiryTime.integer) \in Bytes
    BY Keys, NumberType, Uint64Type
  <2> QED
    BY <2>1, Keys, FlatInteger DEF CCNxMessage
<1>4. Flat(chunk)
  BY Keys, FlatVarInt DEF CCNxMessage
<1>5. Flat(payload)
  BY Keys, FlatField DEF CCNxMessage
<1>6. EncodeContentObject(d) = name \o type \o expiry \o chunk \o payload
  BY DEF EncodeContentObject
<1> HIDE DEF name, type, expiry, chunk, payload
<1>7. Flat(name \o type)
  BY <1>1, <1>2, FlatConcat
<1>8. Flat((name \o type) \o expiry)
  BY <1>3, <1>7, FlatConcat
<1>9. Flat(((name \o type) \o expiry) \o chunk)
  BY <1>4, <1>8, FlatConcat
<1>10. Flat((((name \o type) \o expiry) \o chunk) \o payload)
  BY <1>5, <1>9, FlatConcat
<1> QED
  BY <1>6, <1>10

LEMMA FlatMetadata ==
    ASSUME NEW group \in HashGroupValue
    PROVE  Flat(AppendMetadata(group))
<1> DEFINE Name(key) == IF group[key] # <<>> THEN Tlv(Metadata[key], group[key]) ELSE <<>>
           Size(key) == IF group[key] > 0 THEN Tlv(Metadata[key], Uint64(group[key])) ELSE <<>>
           whole == Name("locator") \o Size("dataSize") \o Size("blockSize")
                    \o Size("entrySize") \o Size("treeHeight") \o Name("digest")
<1>1. ASSUME NEW key \in {"locator", "digest"} PROVE Flat(Name(key))
  <2>1. group[key] \in Bytes /\ Metadata[key] \in Nat
    BY DEF HashGroupValue, Metadata
  <2> QED
    BY <2>1, FlatTlv, FlatEmpty
<1>2. ASSUME NEW key \in {"dataSize", "blockSize", "entrySize", "treeHeight"} PROVE Flat(Size(key))
  <2>1. group[key] \in Nat /\ Metadata[key] \in Nat
    BY DEF HashGroupValue, Metadata
  <2>2. Uint64(group[key]) \in Bytes
    BY <2>1, Uint64Type
  <2> QED
    BY <2>1, <2>2, FlatTlv, FlatEmpty
<1>a. PICK locator : locator = Name("locator") /\ Flat(locator)
  BY <1>1
<1>b. PICK dataSize : dataSize = Size("dataSize") /\ Flat(dataSize)
  BY <1>2
<1>c. PICK blockSize : blockSize = Size("blockSize") /\ Flat(blockSize)
  BY <1>2
<1>d. PICK entrySize : entrySize = Size("entrySize") /\ Flat(entrySize)
  BY <1>2
<1>e. PICK treeHeight : treeHeight = Size("treeHeight") /\ Flat(treeHeight)
  BY <1>2
<1>f. PICK digest : digest = Name("digest") /\ Flat(digest)
  BY <1>1
<1>3. AppendMetadata(group) = Container(HashGroup.Metadata, whole, "measured")
  BY DEF AppendMetadata
<1>4. whole = locator \o dataSize \o blockSize \o entrySize \o treeHeight \o digest
  BY <1>a, <1>b, <1>c, <1>d, <1>e, <1>f
<1> HIDE DEF whole, Name, Size
<1>5. Flat(locator \o dataSize)
  BY <1>a, <1>b, FlatConcat
<1>6. Flat((locator \o dataSize) \o blockSize)
  BY <1>c, <1>5, FlatConcat
<1>7. Flat(((locator \o dataSize) \o blockSize) \o entrySize)
  BY <1>d, <1>6, FlatConcat
<1>8. Flat((((locator \o dataSize) \o blockSize) \o entrySize) \o treeHeight)
  BY <1>e, <1>7, FlatConcat
<1>9. Flat(whole)
  BY <1>f, <1>8, <1>4, FlatConcat
<1> QED
  BY <1>3, <1>9, FlatContainer DEF Closers, HashGroup

LEMMA FlatHashGroup ==
    ASSUME NEW group \in HashGroupValue
    PROVE  Flat(EncodeHashGroup(group))
<1> DEFINE metadata == IF HasMetadata(group) THEN AppendMetadata(group) ELSE <<>>
           pointers == [i \in DOMAIN group.pointers |->
                    Call("append", HashGroup[group.pointers[i].type], group.pointers[i].digest)]
<1>1. Flat(metadata)
  BY FlatMetadata, FlatEmpty
<1>2. Flat(pointers)
  <2>1. PICK all \in Seq(Pointer) : all = group.pointers
    BY DEF HashGroupValue
  <2> QED
    BY <2>1, FlatPointers
<1>3. EncodeHashGroup(group) = Container(CCNxMessage.HashGroup, metadata \o pointers, "rewritten")
  BY DEF EncodeHashGroup
<1> HIDE DEF metadata, pointers
<1>4. Flat(metadata \o pointers)
  BY <1>1, <1>2, FlatConcat
<1> QED
  BY <1>3, <1>4, FlatContainer DEF Closers, CCNxMessage

LEMMA FlatManifest ==
    ASSUME NEW d, IsDictionary(d)
    PROVE  Flat(EncodeManifest(d))
<1> DEFINE calls == IF "hashGroups" \in DOMAIN d
                    THEN FlattenSeq([i \in DOMAIN d.hashGroups |-> EncodeHashGroup(d.hashGroups[i])])
                    ELSE <<>>
<1>1. Flat(calls)
  <2>1. CASE "hashGroups" \in DOMAIN d
    <3>1. PICK groups \in Seq(HashGroupValue) : groups = d.hashGroups
      BY <2>1 DEF IsDictionary
    <3>2. PICK n \in Nat : n = Len(groups) /\ DOMAIN groups = 1..n
      BY LenProperties
    <3> DEFINE s == [i \in 1..n |-> EncodeHashGroup(groups[i])]
    <3>3. s = [i \in 1..n |-> s[i]] /\ Len(s) = n
      OBVIOUS
    <3>4. \A i \in 1..n : Flat(s[i])
      <4> TAKE i \in 1..n
      <4>1. PICK group \in HashGroupValue : group = groups[i]
        BY <3>2, ElementOfSeq
      <4> QED
        BY <4>1, FlatHashGroup
    <3>5. calls = FlattenSeq(s)
      BY <2>1, <3>1, <3>2
    <3> HIDE DEF s, calls
    <3> QED
      BY <3>3, <3>4, <3>5, FlatFlatten
  <2>2. CASE "hashGroups" \notin DOMAIN d
    BY <2>2, FlatEmpty
  <2> QED
    BY <2>1, <2>2
<1>2. EncodeManifest(d) = EncodeName(d) \o calls
  BY DEF EncodeManifest
<1> HIDE DEF calls
<1> QED
  BY <1>1, <1>2, FlatEncodeName, FlatConcat

LEMMA FlatCPI ==
    ASSUME NEW d, IsDictionary(d)
    PROVE  Flat(EncodeCPI(d))
<1>1. Is(d, "payload", "json") => d.payload.json \in Bytes
  BY Keys, JsonType
<1>2. Is(d, "payload", "buffer") => d.payload.buffer \in Bytes
  BY Keys, BufferType
<1> QED
  BY <1>1, <1>2, FlatRaw, FlatFail DEF EncodeCPI

LEMMA FlatMessage ==
    ASSUME NEW d, IsDictionary(d)
    PROVE  Flat(EncodeMessage(d))
<1>1. CASE d.type \in DOMAIN PacketType
  <2> DEFINE message == CASE d.type \in {"Interest", "InterestReturn"} -> EncodeInterest(d)
                      [] d.type = "ContentObject" -> EncodeContentObject(d)
                      [] d.type = "Manifest" -> EncodeManifest(d)
             calls == IF d.type = "Control" THEN EncodeCPI(d)
                      ELSE message \o CustomList(d, "custom")
  <2>1. d.type \in {"Interest", "InterestReturn", "ContentObject", "Manifest", "Control"}
    BY <1>1 DEF PacketType
  <2>2. d.type # "Control" => Flat(message)
    BY <2>1, FlatInterest, FlatContentObject, FlatManifest
  <2>3. EncodeMessage(d) = Container(MessageType[d.type], calls, "measured")
    BY <1>1 DEF EncodeMessage
  <2> HIDE DEF message
  <2>4. Flat(CustomList(d, "custom"))
    BY FlatList DEF CustomLists
  <2>5. d.type # "Control" => Flat(message \o CustomList(d, "custom"))
    BY <2>2, <2>4, FlatConcat
  <2>6. Flat(calls)
    BY <2>5, FlatCPI
  <2> HIDE DEF calls
  <2>7. MessageType[d.type] \in Nat
    BY <2>1 DEF MessageType
  <2> QED
    BY <2>3, <2>6, <2>7, FlatContainer DEF Closers
<1>2. CASE d.type \notin DOMAIN PacketType
  BY <1>2, FlatFail DEF EncodeMessage
<1> QED
  BY <1>1, <1>2

----------------------------------------------------------------------------
(* Validation, and the packet *)

LEMMA SuiteType ==
    ASSUME NEW d, NEW s
    PROVE  Suite(d, s) \in Nat
<1>1. \A t \in DOMAIN SuiteCode : SuiteCode[t] \in Nat
  BY DEF SuiteCode
<1>2. SuiteOfSigner(s) \in Nat /\ NoSuite \in Nat
  BY DEF SuiteOfSigner, SuiteCode, NoSuite
<1> QED
  BY <1>1, <1>2 DEF Suite

LEMMA FlatKeyName ==
    ASSUME NEW d, IsDictionary(d)
    PROVE  Flat(EncodeKeyName(d))
<1>1. CASE Is(d, "keyName", "name")
  <2>1. PICK name \in Seq(ListEntry) : name = d.keyName.name
    BY <1>1, Keys, NameType
  <2> DEFINE link == NameTlv(LinkField.Name, d.keyName.name)
             keyId == BufferField(d, "keyNameKeyId", LinkField.KeyId)
             hash == BufferField(d, "keyNameHash", LinkField.Hash)
  <2>2. Flat(link)
    BY <2>1, FlatName DEF LinkField
  <2>3. Flat(keyId) /\ Flat(hash)
    BY Keys, FlatField DEF LinkField
  <2>4. EncodeKeyName(d) = Container(ValidationAlg.KeyName, link \o keyId \o hash, "measured")
    BY <1>1 DEF EncodeKeyName
  <2> HIDE DEF link, keyId, hash
  <2>5. Flat(link \o keyId)
    BY <2>2, <2>3, FlatConcat
  <2>6. Flat((link \o keyId) \o hash)
    BY <2>3, <2>5, FlatConcat
  <2> QED
    BY <2>4, <2>6, FlatContainer DEF Closers, ValidationAlg
<1>2. CASE ~Is(d, "keyName", "name")
  BY <1>2, FlatEmpty DEF EncodeKeyName
<1> QED
  BY <1>1, <1>2

LEMMA FlatSignatureTime ==
    ASSUME NEW d, IsDictionary(d), NEW s, NEW time \in Nat
    PROVE  Flat(EncodeSignatureTime(d, s, time))
<1>1. Uint64(time) \in Bytes
  BY Uint64Type
<1>2. Is(d, "sigTime", "integer") => Uint64(d.sigTime.integer) \in Bytes
  BY Keys, NumberType, Uint64Type
<1>3. ValidationAlg.SigTime \in Nat
  BY DEF ValidationAlg
<1> QED
  BY <1>1, <1>2, <1>3, FlatTlv, FlatEmpty DEF EncodeSignatureTime

LEMMA FlatAlg ==
    ASSUME NEW d, IsDictionary(d), NEW s, NEW time \in Nat
    PROVE  Flat(EncodeAlg(d, s, time))
<1> DEFINE keyId == BufferField(d, "keyId", ValidationAlg.KeyId)
           publicKey == BufferField(d, "publicKey", ValidationAlg.PublicKey)
           certificate == BufferField(d, "certificate", ValidationAlg.Cert)
           keyName == EncodeKeyName(d)
           sigTime == EncodeSignatureTime(d, s, time)
           whole == keyId \o publicKey \o certificate \o keyName \o sigTime
<1>1. Flat(keyId) /\ Flat(publicKey) /\ Flat(certificate)
  BY Keys, FlatField DEF ValidationAlg
<1>2. Flat(keyName) /\ Flat(sigTime)
  BY FlatKeyName, FlatSignatureTime
<1>3. EncodeAlg(d, s, time) \in {<<>>, Container(Suite(d, s), whole, "measured")}
  BY DEF EncodeAlg
<1> HIDE DEF keyId, publicKey, certificate, keyName, sigTime
<1>4. Flat(keyId \o publicKey)
  BY <1>1, FlatConcat
<1>5. Flat((keyId \o publicKey) \o certificate)
  BY <1>1, <1>4, FlatConcat
<1>6. Flat(((keyId \o publicKey) \o certificate) \o keyName)
  BY <1>2, <1>5, FlatConcat
<1>7. Flat(whole)
  BY <1>2, <1>6, FlatConcat
<1> HIDE DEF whole
<1>8. Flat(Container(Suite(d, s), whole, "measured"))
  BY <1>7, SuiteType, FlatContainer DEF Closers
<1> QED
  BY <1>3, <1>8, FlatEmpty

LEMMA FlatValidationAlg ==
    ASSUME NEW d, IsDictionary(d), NEW s, NEW time \in Nat
    PROVE  Flat(EncodeValidationAlg(d, s, time))
<1>1. Flat(Container(MessageType.ValidationAlg, EncodeAlg(d, s, time), "optional"))
  BY FlatAlg, FlatContainer DEF Closers, MessageType
<1> QED
  BY <1>1, FlatEmpty DEF EncodeValidationAlg

LEMMA RunsDo ==
    ASSUME NEW op \in Ops, NEW a \in Int, NEW b \in Int, Moves(op, a, b)
    PROVE  Runs(Do(op), a, b)
<1>0. 0 \in Nat
  OBVIOUS
<1>1. PICK c \in CallSet : c = Call(op, 0, <<>>) /\ c.op = op
  BY <1>0, CallType, NoBytes
<1> QED
  BY <1>1, RunsOne DEF Do

LEMMA RunsValidationPayload ==
    ASSUME NEW d, NEW s
    PROVE  Runs(EncodeValidationPayload(d, s), 0, 0)
<1>0. 0 \in Nat /\ 0 \in Int
  OBVIOUS
<1>1. Runs(Do("end"), 0, 0)
  BY <1>0, RunsDo DEF Ops, Moves
<1>2. Flat(Container(MessageType.ValidationPayload, Do("sign"), "optional"))
  BY FlatFail, FlatContainer DEF Closers, MessageType
<1>3. Runs(Container(MessageType.ValidationPayload, Do("sign"), "optional"), 0, 0)
  BY <1>0, <1>2 DEF Flat
<1>4. Runs(Do("end") \o Container(MessageType.ValidationPayload, Do("sign"), "optional"), 0, 0)
  BY <1>1, <1>3, RunsConcat
<1> QED
  BY <1>0, <1>4, RunsEmpty DEF EncodeValidationPayload

LEMMA Uint16Type ==
    ASSUME NEW v \in Nat
    PROVE  Uint16(v) \in Bytes /\ Len(Uint16(v)) = 2
BY Uint16Bytes, ByteIsOctet DEF Bytes

LEMMA OctetsConcat ==
    ASSUME NEW a \in Seq(0..255), NEW b \in Seq(0..255)
    PROVE  a \o b \in Seq(0..255) /\ Len(a \o b) = Len(a) + Len(b)
  OBVIOUS

LEMMA FixedHeaderType ==
    ASSUME NEW d, IsDictionary(d), NEW packetType \in Int, NEW headerBytes \in Nat,
           NEW packetBytes \in Nat
    PROVE  /\ FixedHeader(d, packetType, headerBytes, packetBytes) \in Bytes
           /\ Len(FixedHeader(d, packetType, headerBytes, packetBytes)) = 8
<1>0. Base = 256
  BY ByteIsOctet
<1>1. PICK hops \in 0..255 :
        hops = IF packetType \in {PacketType.Interest, PacketType.InterestReturn}
               THEN HopLimit(d) ELSE 0
  <2>1. Is(d, "hopLimit", "integer") => d.hopLimit.integer \in Nat
    BY Keys, NumberType
  <2>2. HopLimit(d) \in 0..255
    BY <1>0, <2>1 DEF HopLimit
  <2> QED
    BY <2>2
<1>2. PICK code \in 0..255 :
        code = IF packetType = PacketType.InterestReturn THEN ReturnCode(d) ELSE 0
  <2>1. Is(d, "returnCode", "integer") => d.returnCode.integer \in Nat
    BY Keys, NumberType
  <2>2. ReturnCode(d) \in 0..255
    BY <1>0, <2>1 DEF ReturnCode
  <2> QED
    BY <2>2
<1>3. PICK type \in 0..255 : type = packetType % Base
  BY <1>0
<1>4. PICK length \in 0..255 : length = headerBytes % Base
  BY <1>0
<1>5. PICK size \in Seq(0..255) : size = Uint16(packetBytes) /\ Len(size) = 2
  BY Uint16Type DEF Bytes
<1>a. <<1, type>> \in Seq(0..255) /\ Len(<<1, type>>) = 2
  OBVIOUS
<1>b. <<hops, code, 0, length>> \in Seq(0..255) /\ Len(<<hops, code, 0, length>>) = 4
  OBVIOUS
<1>c. PICK front \in Seq(0..255) : front = <<1, type>> /\ Len(front) = 2
  BY ONLY <1>a
<1>d. PICK back \in Seq(0..255) : back = <<hops, code, 0, length>> /\ Len(back) = 4
  BY ONLY <1>b
<1>7. front \o size \in Seq(0..255) /\ Len(front \o size) = Len(front) + Len(size)
  BY ONLY OctetsConcat, size \in Seq(0..255), front \in Seq(0..255)
<1>8. (front \o size) \o back \in Seq(0..255) /\ Len((front \o size) \o back) = (2 + 2) + 4
  <2>1. PICK both \in Seq(0..255) : both = front \o size /\ Len(both) = 2 + 2
    BY <1>5, <1>7, <1>c
  <2> QED
    BY ONLY <1>d, <2>1, OctetsConcat, both \in Seq(0..255), back \in Seq(0..255)
<1> QED
  BY <1>1, <1>2, <1>3, <1>4, <1>5, <1>8, <1>c, <1>d DEF FixedHeader, Bytes

LEMMA EncodeRuns ==
    ASSUME NEW d, IsDictionary(d), NEW s, NEW time \in Nat
    PROVE  Runs(Encode(d, s, time), 0, Finished)
<1> DEFINE first == Raw(ProvisionalHeader(d))
           headers == EncodeOptionalHeaders(d)
           message == EncodeMessage(d)
           alg == EncodeValidationAlg(d, s, time)
           payload == EncodeValidationPayload(d, s)
<1>0. 0 \in Nat /\ 0 \in Int /\ Headed \in Int /\ Finished \in Int /\ -1 \in Int
  BY DEF Headed, Finished
<1>1. Runs(first, 0, 0)
  <2>1. ProvisionalHeader(d) \in Bytes
    BY <1>0, FixedHeaderType DEF ProvisionalHeader
  <2> QED
    BY <1>0, <2>1, FlatRaw DEF Flat
<1>2. Runs(headers, 0, 0) /\ Runs(message, 0, 0) /\ Runs(alg, 0, 0)
  BY <1>0, FlatOptionalHeaders, FlatMessage, FlatValidationAlg DEF Flat
<1>3. Runs(payload, 0, 0)
  BY RunsValidationPayload
<1>4. Runs(Do("start"), 0, 0)
  BY <1>0, RunsDo DEF Ops, Moves
<1>5. Runs(Do("header"), 0, Headed) /\ Runs(Do("finalize"), Headed, Finished)
  BY <1>0, RunsDo DEF Ops, Moves
<1>6. Encode(d, s, time) = first \o headers \o Do("start") \o message \o alg \o payload
                           \o Do("header") \o Do("finalize")
  BY DEF Encode
<1> HIDE DEF first, headers, message, alg, payload
<1>7. Runs(first \o headers, 0, 0)
  BY <1>1, <1>2, RunsConcat
<1>8. Runs((first \o headers) \o Do("start"), 0, 0)
  BY <1>4, <1>7, RunsConcat
<1>9. Runs(((first \o headers) \o Do("start")) \o message, 0, 0)
  BY <1>2, <1>8, RunsConcat
<1>10. Runs((((first \o headers) \o Do("start")) \o message) \o alg, 0, 0)
  BY <1>2, <1>9, RunsConcat
<1>11. Runs(((((first \o headers) \o Do("start")) \o message) \o alg) \o payload, 0, 0)
  BY <1>3, <1>10, RunsConcat
<1>12. Runs((((((first \o headers) \o Do("start")) \o message) \o alg) \o payload) \o Do("header"), 0, Headed)
  BY <1>5, <1>11, RunsConcat
<1>13. Runs(((((((first \o headers) \o Do("start")) \o message) \o alg) \o payload) \o Do("header")) \o Do("finalize"), 0, Finished)
  BY <1>5, <1>12, RunsConcat
<1> QED
  BY <1>6, <1>13

----------------------------------------------------------------------------
(* A message whose type is not known fails after its first bytes. *)

Doomed(calls) ==
    /\ calls # <<>>
    /\ \/ Head(calls).op = "fail"
       \/ /\ Head(calls).op = "raw"
          /\ Tail(calls) # <<>> /\ Head(Tail(calls)).op = "fail"

Fails(calls) ==
    /\ calls \in Seq(CallSet) /\ Len(calls) >= 2
    /\ calls[1].op = "raw" /\ calls[2].op = "fail"

LEMMA FailsOn ==
    ASSUME NEW s, NEW t, Fails(s), t \in Seq(CallSet)
    PROVE  Fails(s \o t)
<1>1. s \in Seq(CallSet) /\ Len(s) \in Nat /\ Len(s) >= 2 /\ Len(t) \in Nat
  BY DEF Fails
<1>2. 1 \in 1..(Len(s) + Len(t)) /\ 2 \in 1..(Len(s) + Len(t)) /\ 1 <= Len(s) /\ 2 <= Len(s)
  BY <1>1
<1>3. /\ s \o t \in Seq(CallSet) /\ Len(s \o t) = Len(s) + Len(t)
      /\ \A i \in 1..(Len(s) + Len(t)) : (s \o t)[i] = IF i <= Len(s) THEN s[i] ELSE t[i - Len(s)]
  BY <1>1, ConcatProperties
<1>4. (s \o t)[1] = s[1] /\ (s \o t)[2] = s[2]
  BY <1>2, <1>3
<1>5. Len(s) + Len(t) >= 2
  BY <1>1
<1> QED
  BY <1>3, <1>4, <1>5 DEF Fails

LEMMA FailsDoomed ==
    ASSUME NEW calls, Fails(calls)
    PROVE  Doomed(calls)
<1>1. calls \in Seq(CallSet) /\ Len(calls) \in Nat /\ Len(calls) >= 2 /\ calls # <<>>
  BY EmptySeq DEF Fails
<1>2. /\ Head(calls) = calls[1] /\ Tail(calls) \in Seq(CallSet)
      /\ Len(Tail(calls)) = Len(calls) - 1
      /\ \A i \in 1..(Len(calls) - 1) : Tail(calls)[i] = calls[i + 1]
  BY <1>1, HeadTailProperties
<1>3. 1 \in 1..(Len(calls) - 1) /\ 1 + 1 = 2 /\ Len(calls) - 1 # 0
  <2>1. PICK n \in Nat : n = Len(calls) /\ n >= 2
    BY <1>1
  <2>2. 1 \in 1..(n - 1) /\ 1 + 1 = 2 /\ n - 1 # 0
    BY ONLY n \in Nat, <2>1
  <2> QED
    BY <2>1, <2>2
<1>4. Tail(calls)[1] = calls[2] /\ Tail(calls) # <<>>
  BY <1>2, <1>3, EmptySeq
<1>5. Head(Tail(calls)) = Tail(calls)[1]
  BY <1>2, <1>4, HeadTailProperties
<1> QED
  BY <1>1, <1>2, <1>4, <1>5 DEF Doomed, Fails

LEMMA EncodeDoomed ==
    ASSUME NEW d, IsDictionary(d), d.type \notin DOMAIN PacketType, NEW s, NEW time \in Nat
    PROVE  Doomed(Encode(d, s, time))
<1> DEFINE first == Raw(ProvisionalHeader(d))
           message == EncodeMessage(d)
           alg == EncodeValidationAlg(d, s, time)
           payload == EncodeValidationPayload(d, s)
<1>0. 0 \in Nat /\ 0 \in Int /\ Headed \in Int /\ Finished \in Int /\ -1 \in Int
  BY DEF Headed, Finished
<1>1. EncodeOptionalHeaders(d) = Fail
  BY DEF EncodeOptionalHeaders, PacketType
<1>2. PICK raw \in CallSet : first = <<raw>> /\ raw.op = "raw"
  <2>1. ProvisionalHeader(d) \in Bytes
    BY <1>0, FixedHeaderType DEF ProvisionalHeader
  <2> QED
    BY <1>0, <2>1, CallType DEF Raw, Ops
<1>3. PICK fail \in CallSet : Fail = <<fail>> /\ fail.op = "fail"
  BY <1>0, CallType, NoBytes DEF Fail, Do, Ops
<1>4. Fails(<<raw>> \o <<fail>>)
  BY <1>2, <1>3 DEF Fails
<1>5. message \in Seq(CallSet) /\ alg \in Seq(CallSet)
  BY <1>0, FlatMessage, FlatValidationAlg DEF Flat, Runs
<1>6. payload \in Seq(CallSet)
  BY RunsValidationPayload DEF Runs
<1>7. Do("start") \in Seq(CallSet)
  BY <1>0, RunsDo DEF Ops, Moves, Runs
<1>8. Do("header") \in Seq(CallSet) /\ Do("finalize") \in Seq(CallSet)
  BY <1>0, RunsDo DEF Ops, Moves, Runs
<1>9. Encode(d, s, time) = <<raw>> \o <<fail>> \o Do("start") \o message \o alg \o payload
                           \o Do("header") \o Do("finalize")
  BY <1>1, <1>2, <1>3 DEF Encode
<1> HIDE DEF first, message, alg, payload
<1>10. Fails((<<raw>> \o <<fail>>) \o Do("start"))
  BY <1>4, <1>7, FailsOn
<1>11. Fails(((<<raw>> \o <<fail>>) \o Do("start")) \o message)
  BY <1>5, <1>10, FailsOn
<1>12. Fails((((<<raw>> \o <<fail>>) \o Do("start")) \o message) \o alg)
  BY <1>5, <1>11, FailsOn
<1>13. Fails(((((<<raw>> \o <<fail>>) \o Do("start")) \o message) \o alg) \o payload)
  BY <1>6, <1>12, FailsOn
<1>14. Fails((((((<<raw>> \o <<fail>>) \o Do("start")) \o message) \o alg) \o payload) \o Do("header"))
  BY <1>8, <1>13, FailsOn
<1>15. Fails(((((((<<raw>> \o <<fail>>) \o Do("start")) \o message) \o alg) \o payload) \o Do("header")) \o Do("finalize"))
  BY <1>8, <1>14, FailsOn
<1> QED
  BY <1>9, <1>15, FailsDoomed

----------------------------------------------------------------------------
(* The invariant *)

Outcomes == {"running", "done", "failed", "trapped", "crashed"}

(* As many containers are open as the calls that are left will close, and  *)
(* the header is written again when there is one.                          *)
At(a) ==
    /\ a \in Nat => Top = a + 1
    /\ a = Headed => Top = 1 /\ position >= HeaderSize

Client ==
    /\ IsDictionary(dictionary)
    /\ api \in {"Encode", "DictionaryEncode"} /\ asked \in Signers \cup {NoSigner}
    /\ now \in 1..MaxNow /\ encodes \in 1..MaxEncodes

Running ==
    /\ error = NoError
    /\ \E a \in Int : At(a) /\ Runs(todo, a, Finished)
    /\ dictionary.type \notin DOMAIN PacketType => Doomed(todo)

Ended ==
    /\ todo = <<>>
    /\ outcome = "done" => position = Len(content) /\ Top = 1 /\ position >= HeaderSize
    /\ outcome \in {"failed", "trapped"} <=> error # NoError
    /\ outcome = "trapped" => api = "DictionaryEncode"

PacketInv ==
    /\ EncoderInv /\ Client
    /\ headerLength \in Nat
    /\ outcome \in Outcomes
    /\ IF outcome = "running" THEN Running ELSE Ended

LEMMA CallMade ==
    ASSUME PacketInv, todo # <<>>
    PROVE  /\ outcome = "running" /\ error = NoError
           /\ Head(todo) \in CallSet
           /\ \E a, b \in Int : At(a) /\ Moves(Head(todo).op, a, b) /\ Runs(Tail(todo), b, Finished)
<1>1. outcome = "running"
  BY DEF PacketInv, Ended
<1>2. PICK a \in Int : At(a) /\ Runs(todo, a, Finished)
  BY <1>1 DEF PacketInv, Running
<1>3. /\ Head(todo) \in CallSet
      /\ \E b \in Int : Moves(Head(todo).op, a, b) /\ Runs(Tail(todo), b, Finished)
  BY <1>2, RunsOn
<1> QED
  BY <1>1, <1>2, <1>3 DEF PacketInv, Running

(* A call but the first leaves a message whose type is known. *)
LEMMA TypeKnown ==
    ASSUME PacketInv, todo # <<>>, Head(todo).op \notin {"raw", "fail"}
    PROVE  dictionary.type \in DOMAIN PacketType
BY CallMade DEF PacketInv, Running, Doomed

LEMMA DoomedOn ==
    ASSUME NEW calls, Doomed(calls), Head(calls).op # "fail"
    PROVE  Doomed(Tail(calls))
BY DEF Doomed

(* The containers that are open after a call *)
LEMMA TopGrown ==
    ASSUME EncoderInv, NEW n \in Nat, open' = Adding(open, n)
    PROVE  Top' = Top
<1>1. open \in Seq(Frame) /\ Len(open) > 0
  BY DEF EncoderInv, Nested
<1> QED
  BY <1>1, AddingShape DEF Top

LEMMA TopOpened ==
    ASSUME EncoderInv, NEW frame, open' = Append(open, frame)
    PROVE  Top' = Top + 1
<1>1. open \in Seq(Frame)
  BY DEF EncoderInv, Nested
<1>2. Len(Append(open, frame)) = Len(open) + 1
  BY <1>1
<1> QED
  BY <1>2 DEF Top

LEMMA TopClosed ==
    ASSUME EncoderInv, Top > 1, NEW n \in Nat, Closed(n)
    PROVE  Top' = Top - 1
<1>1. PICK m \in Nat : m = Len(open) /\ m > 1
  BY DEF EncoderInv, Nested, Top
<1>2. open \in Seq(Frame)
  BY DEF EncoderInv, Nested
<1>3. Front(open) \in Seq(Frame) /\ Len(Front(open)) = m - 1
  BY <1>1, <1>2, FrontShape
<1>4. Len(Adding(Front(open), n)) = m - 1
  BY <1>1, <1>3, AddingShape
<1> QED
  BY <1>1, <1>4 DEF Top, Closed

----------------------------------------------------------------------------
(* The steps: a call, the next one, and what is open behind it             *)

Kept ==
    /\ IsDictionary(dictionary') /\ dictionary'.type = dictionary.type
    /\ UNCHANGED <<api, asked, now, encodes, outcome, error>>
    /\ headerLength' \in Nat

LEMMA Continues ==
    ASSUME PacketInv, EncoderInv', todo # <<>>, Head(todo).op # "fail",
           CallDone, Kept,
           \A a, b \in Int : At(a) /\ Moves(Head(todo).op, a, b) => At(b)'
    PROVE  PacketInv'
<1>1. PICK a \in Int, b \in Int :
        At(a) /\ Moves(Head(todo).op, a, b) /\ Runs(Tail(todo), b, Finished)
  BY CallMade
<1>2. At(b)' /\ Runs(todo', b, Finished)
  BY <1>1 DEF CallDone
<1>3. outcome = "running" /\ error = NoError
  BY CallMade
<1>4. dictionary'.type \notin DOMAIN PacketType => Doomed(todo')
  BY <1>3, DoomedOn DEF PacketInv, Running, Kept, CallDone
<1>5. Running'
  BY <1>2, <1>3, <1>4 DEF Running, Kept, NoError
<1>6. Client'
  BY DEF PacketInv, Client, Kept
<1> QED
  BY <1>3, <1>5, <1>6 DEF PacketInv, Kept, Outcomes

LEMMA SameKept == ASSUME PacketInv, Same, UNCHANGED error PROVE Kept
BY DEF PacketInv, Client, Kept, Same, client, history

LEMMA LevelKept ==
    ASSUME Head(todo).op \in Steady, Top' = Top
    PROVE  \A a, b \in Int : At(a) /\ Moves(Head(todo).op, a, b) => At(b)'
<1> SUFFICES ASSUME NEW a \in Int, NEW b \in Int, At(a), Moves(Head(todo).op, a, b)
             PROVE  At(b)'
  OBVIOUS
<1>1. a \in Nat /\ b = a
  BY DEF Moves, Closers, Steady
<1>2. b # Headed
  BY <1>1 DEF Headed
<1>3. Top' = b + 1
  BY <1>1 DEF At
<1> QED
  BY <1>2, <1>3 DEF At

(* A call that appends *)
LEMMA GrowingOn ==
    ASSUME PacketInv, EncoderInv', todo # <<>>, Head(todo).op \in {"append", "raw", "sign"},
           CallDone, Kept, NEW n \in Nat, open' = Adding(open, n)
    PROVE  PacketInv'
<1>1. Top' = Top /\ Head(todo).op \in Steady
  BY TopGrown DEF PacketInv, Steady
<1>2. \A a, b \in Int : At(a) /\ Moves(Head(todo).op, a, b) => At(b)'
  BY <1>1, LevelKept
<1> QED
  BY <1>2, Continues

LEMMA BytesAreOctets == Bytes = Seq(Byte)
BY ByteIsOctet DEF Bytes

LEMMA AppendPacket == ASSUME PacketInv, DoAppend PROVE PacketInv'
<1>1. todo # <<>> /\ Head(todo).op = "append" /\ Head(todo) \in CallSet
  BY CallMade DEF DoAppend, Now
<1>2. PICK type \in Nat, value \in Bytes : type = Head(todo).type /\ value = Head(todo).value
  BY <1>1 DEF CallSet
<1>3. AppendTlv(type, value)
  BY <1>2 DEF DoAppend
<1>4. EncoderInv'
  BY <1>3, AppendKeepsInv, BytesAreOctets DEF PacketInv
<1>5. PICK n \in Nat : n = TL + Len(value)
  BY DEF TL, Bytes
<1>6. open' = Adding(open, n) /\ UNCHANGED error
  BY <1>3, <1>5 DEF AppendTlv
<1> QED
  BY <1>1, <1>4, <1>6, SameKept, GrowingOn DEF DoAppend

LEMMA RawGrows ==
    ASSUME PacketInv, NEW value \in Bytes, AppendRaw(value)
    PROVE  EncoderInv' /\ UNCHANGED error /\ \E n \in Nat : open' = Adding(open, n)
<1>1. EncoderInv'
  BY AppendRawKeepsInv, BytesAreOctets DEF PacketInv
<1>2. PICK n \in Nat : n = Len(value)
  BY DEF Bytes
<1> QED
  BY <1>1, <1>2 DEF AppendRaw

LEMMA RawPacket == ASSUME PacketInv, DoRaw PROVE PacketInv'
<1>1. todo # <<>> /\ Head(todo).op = "raw" /\ Head(todo) \in CallSet
  BY CallMade DEF DoRaw, Now
<1>2. PICK value \in Bytes : value = Head(todo).value
  BY <1>1 DEF CallSet
<1>3. EncoderInv' /\ UNCHANGED error /\ \E n \in Nat : open' = Adding(open, n)
  BY <1>2, RawGrows DEF DoRaw
<1> QED
  BY <1>1, <1>3, SameKept, GrowingOn DEF DoRaw

LEMMA StoredPacket == ASSUME PacketInv, UseStored PROVE PacketInv'
<1>1. todo # <<>> /\ Head(todo).op = "sign"
  BY DEF UseStored, Now
<1>2. PICK value \in Bytes : value = dictionary.sigPayload.buffer
  BY Keys, BufferType DEF PacketInv, Client, UseStored
<1>3. EncoderInv' /\ UNCHANGED error /\ \E n \in Nat : open' = Adding(open, n)
  BY <1>2, RawGrows DEF UseStored
<1> QED
  BY <1>1, <1>3, SameKept, GrowingOn DEF UseStored

(* The signature becomes part of the dictionary, and nothing else of it    *)
(* changes.                                                                *)
LEMMA SignPacket == ASSUME PacketInv, DoSign PROVE PacketInv'
<1>1. todo # <<>> /\ Head(todo).op = "sign"
  BY DEF DoSign, Now
<1>2. Signer \in Signers
  BY DEF DoSign, Signer, PacketInv, Client
<1>3. PICK bits \in Bytes : bits = Signer.bits
  BY <1>2, PacketAssumption
<1>4. EncoderInv' /\ UNCHANGED error /\ \E n \in Nat : open' = Adding(open, n)
  BY <1>3, RawGrows DEF DoSign
<1>5. dictionary' = PutNew(dictionary, "sigPayload", Entry("buffer", bits))
  BY <1>3 DEF DoSign
<1>6. IsDictionary(dictionary) /\ bits \in ValuesOf("sigPayload", "buffer")
      /\ "sigPayload" \notin CustomLists \cup {"type", "hashGroups"}
  BY DEF PacketInv, Client, ValuesOf, CustomLists
<1>7. IsDictionary(dictionary')
  BY <1>5, <1>6, NewPut
<1>8. dictionary'.type = dictionary.type
  <2>1. IsUpdate(Updated(dictionary, "sigPayload", Entry("buffer", bits)), dictionary,
                 "sigPayload", Entry("buffer", bits))
    BY UpdatedShape
  <2>2. "type" \in DOMAIN dictionary /\ "type" # "sigPayload"
    BY <1>6 DEF IsDictionary
  <2> QED
    BY <1>5, <2>1, <2>2 DEF IsUpdate, PutNew
<1>9. Kept
  BY <1>4, <1>7, <1>8 DEF Kept, DoSign, PacketInv
<1> QED
  BY <1>1, <1>4, <1>9, GrowingOn DEF DoSign

LEMMA UnsignedPacket == ASSUME PacketInv, NoSignature PROVE PacketInv'
<1>1. todo # <<>> /\ Head(todo).op = "sign"
  BY DEF NoSignature, Now
<1>2. EncoderInv'
  BY DEF NoSignature, tlvVars, PacketInv, EncoderInv, Nested, Buffered, Marks, InnerLengthExact,
         BodyOf, EndOf, Top
<1>3. Top' = Top /\ UNCHANGED error /\ Head(todo).op \in Steady
  BY <1>1 DEF NoSignature, tlvVars, Top, Steady
<1>4. \A a, b \in Int : At(a) /\ Moves(Head(todo).op, a, b) => At(b)'
  BY <1>1, <1>3, LevelKept
<1> QED
  BY <1>1, <1>2, <1>3, <1>4, Continues, SameKept DEF NoSignature

LEMMA OpenPacket == ASSUME PacketInv, DoOpen PROVE PacketInv'
<1>1. todo # <<>> /\ Head(todo).op = "open" /\ Head(todo) \in CallSet
  BY CallMade DEF DoOpen, Now
<1>2. PICK type \in Nat : type = Head(todo).type
  BY <1>1 DEF CallSet
<1>3. EncoderInv' /\ UNCHANGED error
  BY <1>2, OpenKeepsInv DEF DoOpen, AppendContainer, PacketInv
<1>4. Top' = Top + 1
  BY TopOpened DEF DoOpen, AppendContainer, PacketInv
<1>5. Top \in Nat
  BY InnermostFacts DEF PacketInv
<1>6. \A a, b \in Int : At(a) /\ Moves(Head(todo).op, a, b) => At(b)'
  <2> SUFFICES ASSUME NEW a \in Int, NEW b \in Int, At(a), Moves(Head(todo).op, a, b)
               PROVE  At(b)'
    OBVIOUS
  <2>1. a \in Nat /\ b = a + 1
    BY <1>1 DEF Moves, Closers
  <2>2. b \in Nat /\ b # Headed
    BY <2>1 DEF Headed
  <2>3. Top = a + 1
    BY <2>1 DEF At
  <2>4. Top' = b + 1
    BY <1>4, <2>1, <2>3
  <2> QED
    BY <2>2, <2>4 DEF At
<1> QED
  BY <1>1, <1>3, <1>6, Continues, SameKept DEF DoOpen

LEMMA ClosingOn ==
    ASSUME PacketInv, EncoderInv', todo # <<>>, Head(todo).op \in Closers,
           CallDone, Kept, Top > 1, NEW n \in Nat, Closed(n)
    PROVE  PacketInv'
<1>1. Top' = Top - 1
  BY TopClosed DEF PacketInv
<1>2. Top \in Nat
  BY InnermostFacts DEF PacketInv
<1>3. \A a, b \in Int : At(a) /\ Moves(Head(todo).op, a, b) => At(b)'
  BY <1>1, <1>2 DEF Moves, At, Headed, Closers
<1>4. Head(todo).op # "fail"
  BY DEF Closers
<1> QED
  BY <1>3, <1>4, Continues

LEMMA ClosePacket ==
    ASSUME PacketInv, DoMeasured \/ DoCounted \/ DoRewritten \/ DoErase \/ DoKeep
    PROVE  PacketInv'
<1>0. EncoderInv
  BY DEF PacketInv
<1>1. todo # <<>> /\ Head(todo).op \in Closers
  BY DEF DoMeasured, DoCounted, DoRewritten, DoErase, DoKeep, Now, Closers
<1>2. CallDone /\ Kept
  BY SameKept DEF DoMeasured, DoCounted, DoRewritten, DoErase, DoKeep,
                  CloseMeasured, CloseCounted, CloseRewritten, CloseErased
<1>3. Top > 1 /\ Start \in Nat /\ Inner \in Nat /\ position \in Nat
      /\ Inner = position - Start - TL
  BY <1>0, InnermostFacts DEF DoMeasured, DoCounted, DoRewritten, DoErase, DoKeep,
                  CloseMeasured, CloseCounted, CloseRewritten, CloseErased
<1>4. position - Start \in Nat /\ Inner + TL \in Nat
  BY <1>3 DEF TL
<1>5. CASE DoMeasured \/ DoKeep
  <2>1. EncoderInv' /\ Closed(position - Start)
    BY <1>0, <1>5, CloseMeasuredKeepsInv DEF DoMeasured, DoKeep, CloseMeasured
  <2> QED
    BY <1>1, <1>2, <1>3, <1>4, <2>1, ClosingOn
<1>6. CASE DoCounted
  <2>1. EncoderInv' /\ Closed(Inner + TL)
    BY <1>0, <1>6, CloseCountedKeepsInv DEF DoCounted, CloseCounted
  <2> QED
    BY <1>1, <1>2, <1>3, <1>4, <2>1, ClosingOn
<1>7. CASE DoRewritten
  <2>1. EncoderInv' /\ Closed(Inner + TL)
    BY <1>0, <1>7, CloseRewrittenKeepsInv DEF DoRewritten, CloseRewritten
  <2> QED
    BY <1>1, <1>2, <1>3, <1>4, <2>1, ClosingOn
<1>8. CASE DoErase
  <2>1. EncoderInv' /\ Closed(0) /\ 0 \in Nat
    BY <1>0, <1>8, CloseErasedKeepsInv DEF DoErase, CloseErased
  <2> QED
    BY <1>1, <1>2, <1>3, <2>1, ClosingOn
<1> QED
  BY <1>5, <1>6, <1>7, <1>8

LEMMA MarkPacket ==
    ASSUME PacketInv, DoStart \/ DoEnd
    PROVE  PacketInv'
<1>1. todo # <<>> /\ Head(todo).op \in {"start", "end"}
  BY DEF DoStart, DoEnd, Now
<1>2. \A a, b \in Int : Moves(Head(todo).op, a, b) => a = 0 /\ b = 0
  BY <1>1 DEF Moves, Closers
<1>3. Top = 1
  <2>1. PICK a \in Int, b \in Int : At(a) /\ Moves(Head(todo).op, a, b)
    BY <1>1, CallMade
  <2>2. a = 0 /\ a \in Nat
    BY <1>2, <2>1
  <2> QED
    BY <2>1, <2>2 DEF At
<1>4. EncoderInv /\ EncoderInv'
  BY <1>3, MarksKeepInv DEF PacketInv, DoStart, DoEnd, ClientMarkStart, ClientMarkEnd
<1>5. Top' = Top /\ UNCHANGED error
  BY DEF DoStart, DoEnd, MarkSignatureStart, MarkSignatureEnd, Top
<1>6. \A a, b \in Int : At(a) /\ Moves(Head(todo).op, a, b) => At(b)'
  <2> SUFFICES ASSUME NEW a \in Int, NEW b \in Int, Moves(Head(todo).op, a, b)
               PROVE  At(b)'
    OBVIOUS
  <2>1. b = 0 /\ b # Headed
    BY <1>2 DEF Headed
  <2> QED
    BY <1>3, <1>5, <2>1 DEF At
<1>7. Kept
  <2>1. CASE DoStart
    BY <1>4, <1>5, <2>1, InnermostFacts DEF DoStart, Kept, PacketInv, Client, client, history
  <2>2. CASE DoEnd
    BY <1>5, <2>2, SameKept DEF DoEnd
  <2> QED
    BY <2>1, <2>2
<1> QED
  BY <1>1, <1>4, <1>6, <1>7, Continues DEF DoStart, DoEnd

(* The header of a packet whose type is known *)
LEMMA HeaderPacket == ASSUME PacketInv, DoHeader PROVE PacketInv'
<1>1. todo # <<>> /\ Head(todo).op = "header"
  BY DEF DoHeader, Now
<1>2. PICK packetType \in Int : packetType = PacketType[dictionary.type]
  BY <1>1, TypeKnown DEF PacketType
<1>3. EncoderInv /\ IsDictionary(dictionary) /\ headerLength \in Nat
  BY DEF PacketInv, Client
<1>4. PICK inner \in Nat : inner = Inner
  BY <1>3, InnermostFacts
<1>5. PICK header \in Bytes : header = FixedHeader(dictionary, packetType, headerLength, inner)
  BY <1>3, FixedHeaderType
<1>6. PatchHeader(header)
  BY <1>2, <1>4, <1>5 DEF DoHeader
<1>7. EncoderInv'
  BY <1>3, <1>6, PatchHeaderKeepsInv, BytesAreOctets
<1>8. Top = 1 /\ position' >= HeaderSize /\ Top' = Top /\ UNCHANGED error
  BY <1>3, <1>6, InnermostFacts, ByteIsOctet DEF PatchHeader, Top
<1>9. \A a, b \in Int : At(a) /\ Moves(Head(todo).op, a, b) => At(b)'
  <2> SUFFICES ASSUME NEW a \in Int, NEW b \in Int, Moves(Head(todo).op, a, b)
               PROVE  At(b)'
    OBVIOUS
  <2>1. b = Headed
    BY <1>1 DEF Moves, Closers
  <2>2. b \notin Nat
    BY <2>1 DEF Headed
  <2> QED
    BY <1>8, <2>2 DEF At
<1> QED
  BY <1>1, <1>7, <1>8, <1>9, Continues, SameKept DEF DoHeader

(* The packet is done: the buffer ends at its end.                         *)
LEMMA FinalizePacket == ASSUME PacketInv, DoFinalize PROVE PacketInv'
<1>1. todo # <<>> /\ Head(todo).op = "finalize"
  BY DEF DoFinalize, Now
<1>2. PICK a \in Int, b \in Int :
        At(a) /\ Moves(Head(todo).op, a, b) /\ Runs(Tail(todo), b, Finished)
  BY <1>1, CallMade
<1>3. a = Headed /\ b = Finished
  BY <1>1, <1>2 DEF Moves, Closers
<1>4. todo' = <<>>
  BY <1>2, <1>3, RunsOut DEF DoFinalize, CallDone
<1>5. EncoderInv /\ EncoderInv'
  BY FinalizeKeepsInv DEF PacketInv, DoFinalize
<1>6. Top' = 1 /\ position' >= HeaderSize /\ position' = position
  BY <1>2, <1>3 DEF At, DoFinalize, Finalize, Top
<1>7. position' = Len(content')
  <2>1. content \in Seq(Byte) /\ position \in Nat /\ position <= Len(content)
    BY <1>5 DEF EncoderInv, Nested, Buffered
  <2>2. Len(SubSeq(content, 1, position)) = position
    BY <2>1
  <2> QED
    BY <1>6, <2>2 DEF DoFinalize, Finalize
<1>8. error' = NoError /\ outcome' = "done"
  BY <1>1, CallMade DEF DoFinalize, Finalize, NoError
<1>9. Ended'
  BY <1>4, <1>6, <1>7, <1>8 DEF Ended, NoError
<1>10. Client' /\ headerLength' \in Nat
  BY DEF DoFinalize, PacketInv, Client, client, history
<1> QED
  BY <1>5, <1>8, <1>9, <1>10 DEF PacketInv, Outcomes

LEMMA SameEncoder ==
    ASSUME EncoderInv, UNCHANGED <<content, position, open, signatureStart, signatureEnd>>
    PROVE  EncoderInv'
BY DEF EncoderInv, Nested, Buffered, Marks, InnerLengthExact, BodyOf, EndOf, Top

LEMMA FailPacket == ASSUME PacketInv, Failing \/ Crashing PROVE PacketInv'
<1>1. todo # <<>>
  BY DEF Failing, Crashing, Now
<1>2. outcome = "running" /\ error = NoError
  BY <1>1, CallMade
<1>3. EncoderInv'
  BY SameEncoder DEF Failing, Crashing, SetError, tlvVars, PacketInv
<1>4. Client' /\ headerLength' \in Nat /\ todo' = <<>>
  BY DEF Failing, Crashing, PacketInv, Client, client, history
<1>5. CASE Failing
  <2>1. error' # NoError
    BY <1>2, <1>5 DEF Failing, SetError, NoError
  <2>2. outcome' \in {"failed", "trapped"} /\ (outcome' = "trapped" => api = "DictionaryEncode")
    BY <1>4, <1>5 DEF Failing, PacketInv, Client
  <2>3. api' = api
    BY <1>5 DEF Failing, client
  <2> QED
    BY <1>3, <1>4, <2>1, <2>2, <2>3 DEF PacketInv, Ended, Outcomes
<1>6. CASE Crashing
  <2>1. outcome' = "crashed" /\ error' = NoError
    BY <1>2, <1>6 DEF Crashing, tlvVars, NoError
  <2> QED
    BY <1>3, <1>4, <2>1 DEF PacketInv, Ended, Outcomes, NoError
<1> QED
  BY <1>5, <1>6

----------------------------------------------------------------------------
(* An encoding begins: the first, another one, and that of a relay         *)

LEMMA Begins ==
    ASSUME TlvInit, Client, NEW s, todo = Encode(dictionary, s, now),
           outcome = "running", headerLength = 0
    PROVE  PacketInv
<1>1. EncoderInv
  BY InitEncoderInv DEF ClientInit
<1>2. Top = 1 /\ error = NoError
  BY DEF TlvInit, Top
<1>3. IsDictionary(dictionary) /\ now \in Nat
  BY PacketAssumption DEF Client
<1>4. Runs(todo, 0, Finished)
  BY <1>3, EncodeRuns
<1>5. At(0)
  BY <1>2 DEF At, Headed
<1>6. dictionary.type \notin DOMAIN PacketType => Doomed(todo)
  BY <1>3, EncodeDoomed
<1>7. Running
  BY <1>2, <1>4, <1>5, <1>6 DEF Running
<1> QED
  BY <1>1, <1>7 DEF PacketInv, Outcomes

LEMMA InitPacket == InitCodec => PacketInv
<1> SUFFICES ASSUME InitCodec PROVE PacketInv
  OBVIOUS
<1>1. TlvInit /\ todo = Encode(dictionary, Signer, now) /\ outcome = "running" /\ headerLength = 0
  BY DEF InitCodec, Init
<1>2. Client
  BY PacketAssumption DEF InitCodec, Init, Client
<1> QED
  BY <1>1, <1>2, Begins

LEMMA NewPacket ==
    ASSUME PacketInv, NEW s, NewEncoder(s), IsDictionary(dictionary'), api' = api,
           asked' \in Signers \cup {NoSigner}
    PROVE  PacketInv'
<1>1. TlvInit'
  BY DEF TlvInit, NewEncoder
<1>2. now' \in 1..MaxNow /\ encodes' \in 1..MaxEncodes
  BY PacketAssumption DEF NewEncoder, PacketInv, Client
<1>3. Client'
  BY <1>2 DEF Client, PacketInv
<1>4. todo' = Encode(dictionary', s, now') /\ outcome' = "running" /\ headerLength' = 0
  BY DEF NewEncoder
<1>5. EncoderInv'
  <2>1. (ClientInit => EncoderInv)'
    BY InitEncoderInv, PTL
  <2> QED
    BY <1>1, <2>1 DEF ClientInit
<1>6. Top' = 1 /\ error' = NoError
  BY <1>1 DEF TlvInit, Top, NoError
<1>7. now' \in Nat
  BY <1>2
<1>8. Runs(todo', 0, Finished)
  BY <1>4, <1>7, EncodeRuns
<1>9. At(0)'
  BY <1>6 DEF At, Headed
<1>10. dictionary'.type \notin DOMAIN PacketType => Doomed(todo')
  BY <1>4, <1>7, EncodeDoomed
<1>11. Running'
  BY <1>6, <1>8, <1>9, <1>10 DEF Running, NoError
<1> QED
  BY <1>3, <1>4, <1>5, <1>11 DEF PacketInv, Outcomes

LEMMA AgainPacket == ASSUME PacketInv, EncodeAgain PROVE PacketInv'
<1>1. /\ NewEncoder(Signer) /\ IsDictionary(dictionary') /\ api' = api
      /\ asked' \in Signers \cup {NoSigner}
  BY DEF EncodeAgain, PacketInv, Client
<1> QED
  BY <1>1, NewPacket

(* A relay sends what the decoder returned, which is a dictionary whatever *)
(* the bytes were.                                                         *)
LEMMA RelayPacket == ASSUME PacketInv, Relay PROVE PacketInv'
<1>1. outcome = "done" /\ EncoderInv
  BY DEF Relay, PacketInv
<1>2. position = Len(content) /\ position >= HeaderSize
  BY <1>1 DEF PacketInv, Ended
<1>3. PICK b \in Bytes : b = content
  BY <1>1, BytesAreOctets DEF EncoderInv, Buffered
<1>4. Len(b) >= 8
  BY <1>2, <1>3, ByteIsOctet
<1>5. Decoder!Decode(b).ok
  BY <1>3 DEF Relay
<1>6. PICK d : d = Decoder!Decode(b).dictionary /\ IsDictionary(d)
  BY <1>4, <1>5, DecodedType DEF IsDecoded
<1>7. dictionary' \in HopByHop(d)
  BY <1>3, <1>6 DEF Relay
<1>8. \A hop \in RelayedHops : IsDictionary(SetHopLimit(d, hop))
  <2> TAKE hop \in RelayedHops
  <2>1. hop \in ValuesOf("hopLimit", "integer")
    BY CodecAssumption DEF ValuesOf, Enumerated
  <2>2. "hopLimit" \notin CustomLists \cup {"type", "hashGroups"}
    BY DEF CustomLists
  <2> QED
    BY <1>6, <2>1, <2>2, IntegerPut DEF SetHopLimit
<1>9. \A lifetime \in RelayedLifetimes : IsDictionary(SetLifetime(d, lifetime))
  <2> TAKE lifetime \in RelayedLifetimes
  <2>1. lifetime \in ValuesOf("lifetime", "integer")
    BY CodecAssumption DEF ValuesOf, Enumerated
  <2>2. "lifetime" \notin CustomLists \cup {"type", "hashGroups"}
    BY DEF CustomLists
  <2> QED
    BY <1>6, <2>1, <2>2, IntegerPut DEF SetLifetime
<1>10. IsDictionary(dictionary')
  BY <1>6, <1>7, <1>8, <1>9 DEF HopByHop
<1>11. NewEncoder(NoSigner) /\ api' = api /\ asked' \in Signers \cup {NoSigner}
  BY DEF Relay
<1> QED
  BY <1>10, <1>11, NewPacket

LEMMA StutterPacket == ASSUME PacketInv, UNCHANGED vars PROVE PacketInv'
<1>1. EncoderInv'
  BY SameEncoder DEF vars, tlvVars, PacketInv
<1>2. Client' /\ headerLength' = headerLength /\ outcome' = outcome /\ todo' = todo /\ error' = error
  BY DEF vars, tlvVars, client, history, PacketInv, Client
<1>3. Running => Running'
  BY DEF Running, At, Top, vars, tlvVars, client
<1>4. Ended => Ended'
  BY DEF Ended, Top, vars, tlvVars, client
<1> QED
  BY <1>1, <1>2, <1>3, <1>4 DEF PacketInv

LEMMA StepPacket == PacketInv /\ [NextCodec]_<<vars, relayed>> => PacketInv'
<1> SUFFICES ASSUME PacketInv, [NextCodec]_<<vars, relayed>> PROVE PacketInv'
  OBVIOUS
<1>1. CASE Next
  <2>1. CASE DoAppend
    BY <2>1, AppendPacket
  <2>2. CASE DoRaw
    BY <2>2, RawPacket
  <2>3. CASE DoOpen
    BY <2>3, OpenPacket
  <2>4. CASE DoMeasured \/ DoCounted \/ DoRewritten \/ DoErase \/ DoKeep
    BY <2>4, ClosePacket
  <2>5. CASE DoStart \/ DoEnd
    BY <2>5, MarkPacket
  <2>6. CASE UseStored
    BY <2>6, StoredPacket
  <2>7. CASE DoSign
    BY <2>7, SignPacket
  <2>8. CASE NoSignature
    BY <2>8, UnsignedPacket
  <2>9. CASE DoHeader
    BY <2>9, HeaderPacket
  <2>10. CASE DoFinalize
    BY <2>10, FinalizePacket
  <2>11. CASE Failing \/ Crashing
    BY <2>11, FailPacket
  <2>12. CASE EncodeAgain
    BY <2>12, AgainPacket
  <2> QED
    BY <1>1, <2>1, <2>2, <2>3, <2>4, <2>5, <2>6, <2>7, <2>8, <2>9, <2>10, <2>11, <2>12 DEF Next
<1>2. CASE Relay
  BY <1>2, RelayPacket
<1>3. CASE UNCHANGED vars
  BY <1>3, StutterPacket
<1> QED
  BY <1>1, <1>2, <1>3 DEF NextCodec

LEMMA PacketTyped == PacketInv => PacketTypeOK
<1> SUFFICES ASSUME PacketInv PROVE PacketTypeOK
  OBVIOUS
<1>1. TlvTypeOK
  BY EncoderTyped DEF PacketInv
<1>2. Now("header") => Top = 1 /\ Inner = position
  <2> SUFFICES ASSUME Now("header") PROVE Top = 1 /\ Inner = position
    OBVIOUS
  <2>1. PICK a \in Int, b \in Int : At(a) /\ Moves("header", a, b)
    BY CallMade DEF Now
  <2>2. a = 0 /\ a \in Nat
    BY <2>1 DEF Moves, Closers
  <2>3. Top = 1
    BY <2>1, <2>2 DEF At
  <2> QED
    BY <2>3, InnermostFacts DEF PacketInv
<1>3. outcome = "done" => todo = <<>> /\ position = Len(content) /\ Top = 1
  BY DEF PacketInv, Ended
<1>4. outcome \in {"failed", "trapped"} <=> error # NoError
  BY DEF PacketInv, Running, Ended
<1>5. outcome = "trapped" => api = "DictionaryEncode"
  BY DEF PacketInv, Ended
<1> QED
  BY <1>1, <1>2, <1>3, <1>4, <1>5 DEF PacketTypeOK, PacketInv, Client

(* For every dictionary, signer, clock and relay: the packet length that   *)
(* _encodeMessage and its parts add up is the one that is measured, so     *)
(* that Encode's trap never goes off; every container that an _encode      *)
(* function opens is closed when the header is patched, the marks of the   *)
(* protected region and the cursor lie in the packet, the buffer ends at   *)
(* the cursor, and an encoding fails exactly when it leaves an error.      *)
THEOREM PacketTypes == SpecCodec => []PacketTypeOK
<1> QED
  BY InitPacket, StepPacket, PacketTyped, PTL DEF SpecCodec

----------------------------------------------------------------------------
(* Encoded again, a dictionary is the same packet.  What a call makes of   *)
(* the packet depends on what is there, and on the dictionary and the      *)
(* signer only where After says; so an encoding can be replayed.           *)

State(c, p, frames, length) ==
    [content |-> c, position |-> p, open |-> frames, headerLength |-> length]

Machine == State(content, position, open, headerLength)
Blank == State(<<>>, 0, <<[type |-> 0, start |-> 0, inner |-> 0]>>, 0)

Overlaid(c, at, bytes) ==
    LET end == at + Len(bytes)
    IN [i \in 1..(IF end > Len(c) THEN end ELSE Len(c)) |->
          IF i \in (at + 1)..end THEN bytes[i - at] ELSE c[i]]

Grown(m, bytes, n) ==
    State(Overlaid(m.content, m.position, bytes), m.position + Len(bytes),
          Adding(m.open, n), m.headerLength)
Opened(m, type) ==
    State(Overlaid(m.content, m.position, Uint16(type) \o Uint16(0)),
          m.position + Len(Uint16(type) \o Uint16(0)),
          Append(m.open, [type |-> type, start |-> m.position, inner |-> 0]),
          m.headerLength)
Patched(m, at, bytes, n) ==
    State(Overlaid(m.content, at, bytes), m.position, Adding(Front(m.open), n), m.headerLength)

(* The payload that EncodePayload finds, or has made *)
Signature(d, s) ==
    IF Is(d, "sigPayload", "buffer") THEN <<d.sigPayload.buffer>>
    ELSE IF s # NoSigner THEN <<s.bits>> ELSE <<>>

After(d, s, call, m) ==
    LET last == m.open[Len(m.open)]
    IN CASE call.op = "append" ->
              Grown(m, Uint16(call.type) \o Uint16(Len(call.value)) \o call.value,
                    TL + Len(call.value))
         [] call.op = "raw" -> Grown(m, call.value, Len(call.value))
         [] call.op = "open" -> Opened(m, call.type)
         [] call.op = "measured" \/ (call.op = "optional" /\ last.inner > 0) ->
              Patched(m, last.start + 2, Uint16(last.inner), m.position - last.start)
         [] call.op = "counted" ->
              Patched(m, last.start + 2, Uint16(last.inner), last.inner + TL)
         [] call.op = "rewritten" ->
              Patched(m, m.position - last.inner - TL,
                      Uint16(last.type) \o Uint16(last.inner), last.inner + TL)
         [] call.op = "optional" /\ last.inner = 0 ->
              State(m.content, last.start, Adding(Front(m.open), 0), m.headerLength)
         [] call.op = "start" -> State(m.content, m.position, m.open, last.inner)
         [] call.op = "sign" ->
              (IF Signature(d, s) = <<>> THEN m
               ELSE Grown(m, Signature(d, s)[1], Len(Signature(d, s)[1])))
         [] call.op = "header" ->
              State(Overlaid(m.content, last.start,
                             FixedHeader(d, PacketType[d.type], m.headerLength, last.inner)),
                    m.position, m.open, m.headerLength)
         [] call.op = "finalize" ->
              State(SubSeq(m.content, 1, m.position), m.position, m.open, m.headerLength)
         [] OTHER -> m

LEMMA MachineParts ==
    /\ Machine.content = content /\ Machine.position = position
    /\ Machine.open = open /\ Machine.headerLength = headerLength
BY DEF Machine, State

LEMMA OverlayOverlaid ==
    ASSUME NEW at, NEW bytes
    PROVE  Overlay(at, bytes) = Overlaid(content, at, bytes)
BY DEF Overlay, Overlaid

IsStep == Machine' = After(dictionary, Signer, Head(todo), Machine)

LEMMA MachineNext ==
    ASSUME NEW c, NEW p, NEW frames, NEW length,
           content' = c, position' = p, open' = frames, headerLength' = length
    PROVE  Machine' = State(c, p, frames, length)
BY DEF Machine

LEMMA GrownNext ==
    ASSUME NEW bytes, Put(bytes), NEW n, open' = Adding(open, n), headerLength' = headerLength
    PROVE  Machine' = Grown(Machine, bytes, n)
BY MachineParts, OverlayOverlaid, MachineNext, Zenon DEF Grown, Put

LEMMA PatchedNext ==
    ASSUME NEW at, NEW bytes, content' = Overlay(at, bytes), NEW n, Closed(n),
           UNCHANGED <<position, headerLength>>
    PROVE  Machine' = Patched(Machine, at, bytes, n)
BY MachineParts, OverlayOverlaid, MachineNext, Zenon DEF Patched, Closed

LEMMA LastFrame == Machine.open[Len(Machine.open)] = open[Top]
BY MachineParts DEF Top

LEMMA AppendIsStep == ASSUME DoAppend PROVE IsStep
<1> DEFINE call == Head(todo)
           bytes == Uint16(call.type) \o Uint16(Len(call.value)) \o call.value
<1>1. /\ Put(bytes) /\ open' = Adding(open, TL + Len(call.value))
      /\ headerLength' = headerLength /\ call.op = "append"
  BY DEF DoAppend, AppendTlv, Same, Now
<1>2. Machine' = Grown(Machine, bytes, TL + Len(call.value))
  BY <1>1, GrownNext
<1> QED
  BY <1>1, <1>2 DEF IsStep, After

LEMMA RawIsStep == ASSUME DoRaw PROVE IsStep
<1>1. /\ Put(Head(todo).value) /\ open' = Adding(open, Len(Head(todo).value))
      /\ headerLength' = headerLength /\ Head(todo).op = "raw"
  BY DEF DoRaw, AppendRaw, Same, Now
<1>2. Machine' = Grown(Machine, Head(todo).value, Len(Head(todo).value))
  BY <1>1, GrownNext
<1> QED
  BY <1>1, <1>2 DEF IsStep, After

LEMMA OpenIsStep == ASSUME DoOpen PROVE IsStep
<1> DEFINE type == Head(todo).type
<1>1. /\ content' = Overlay(position, Uint16(type) \o Uint16(0))
      /\ position' = position + Len(Uint16(type) \o Uint16(0))
      /\ open' = Append(open, [type |-> type, start |-> position, inner |-> 0])
      /\ headerLength' = headerLength /\ Head(todo).op = "open"
  BY DEF DoOpen, AppendContainer, Same, Now, Put
<1>2. Machine' = Opened(Machine, type)
  BY <1>1, MachineParts, OverlayOverlaid, MachineNext, Zenon DEF Opened
<1> QED
  BY <1>1, <1>2 DEF IsStep, After

LEMMA CloseIsStep ==
    ASSUME PacketInv, DoMeasured \/ DoKeep \/ DoCounted \/ DoRewritten \/ DoErase
    PROVE  IsStep
<1>0. Inner \in Nat
  BY InnermostFacts DEF PacketInv
<1>1. CASE DoMeasured \/ DoKeep
  <2>1. Machine' = Patched(Machine, Start + 2, Uint16(Inner), position - Start)
    BY <1>1, PatchedNext DEF DoMeasured, DoKeep, CloseMeasured, LengthAt, Same
  <2>2. Head(todo).op = "measured" \/ (Head(todo).op = "optional" /\ Inner > 0)
    BY <1>1 DEF DoMeasured, DoKeep, Now
  <2> QED
    BY <2>1, <2>2, LastFrame, MachineParts DEF IsStep, After, Inner, Start
<1>2. CASE DoCounted
  <2>1. Machine' = Patched(Machine, Start + 2, Uint16(Inner), Inner + TL)
    BY <1>2, PatchedNext DEF DoCounted, CloseCounted, LengthAt, Same
  <2>2. Head(todo).op = "counted"
    BY <1>2 DEF DoCounted, Now
  <2> QED
    BY <2>1, <2>2, LastFrame, MachineParts DEF IsStep, After, Inner, Start
<1>3. CASE DoRewritten
  <2>1. Machine' = Patched(Machine, position - Inner - TL,
                           Uint16(open[Top].type) \o Uint16(Inner), Inner + TL)
    BY <1>3, PatchedNext DEF DoRewritten, CloseRewritten, Same
  <2>2. Head(todo).op = "rewritten"
    BY <1>3 DEF DoRewritten, Now
  <2> QED
    BY <2>1, <2>2, LastFrame, MachineParts DEF IsStep, After, Inner, Start
<1>4. CASE DoErase
  <2>1. Machine' = State(content, Start, Adding(Front(open), 0), headerLength)
    BY <1>4, MachineNext DEF DoErase, CloseErased, Closed, Same
  <2>2. Head(todo).op = "optional" /\ Inner = 0 /\ ~(Inner > 0)
    BY <1>4 DEF DoErase, CloseErased, Now
  <2> QED
    BY <2>1, <2>2, LastFrame, MachineParts DEF IsStep, After, Inner, Start
<1> QED
  BY <1>1, <1>2, <1>3, <1>4

LEMMA MachineSame ==
    ASSUME UNCHANGED <<content, position, open, headerLength>>
    PROVE  Machine' = Machine
BY DEF Machine

LEMMA MarkIsStep == ASSUME DoStart \/ DoEnd PROVE IsStep
<1>1. CASE DoStart
  <2>1. Machine' = State(content, position, open, Inner) /\ Head(todo).op = "start"
    BY <1>1, MachineNext DEF DoStart, MarkSignatureStart, Now
  <2> QED
    BY <2>1, LastFrame, MachineParts DEF IsStep, After, Inner
<1>2. CASE DoEnd
  <2>1. Machine' = Machine /\ Head(todo).op = "end"
    BY <1>2, MachineSame DEF DoEnd, MarkSignatureEnd, Now, Same
  <2> QED
    BY <2>1 DEF IsStep, After
<1> QED
  BY <1>1, <1>2

LEMMA SignIsStep ==
    ASSUME UseStored \/ DoSign \/ NoSignature
    PROVE  IsStep
<1>1. CASE UseStored
  <2> DEFINE bits == dictionary.sigPayload.buffer
  <2>1. Machine' = Grown(Machine, bits, Len(bits)) /\ Head(todo).op = "sign"
    BY <1>1, GrownNext DEF UseStored, AppendRaw, Same, Now
  <2>2. Signature(dictionary, Signer) = <<bits>>
    BY <1>1 DEF UseStored, Signature
  <2>3. Signature(dictionary, Signer) # <<>> /\ Signature(dictionary, Signer)[1] = bits
    BY <2>2
  <2> QED
    BY <2>1, <2>3 DEF IsStep, After
<1>2. CASE DoSign
  <2> DEFINE bits == Signer.bits
  <2>1. Machine' = Grown(Machine, bits, Len(bits)) /\ Head(todo).op = "sign"
    BY <1>2, GrownNext DEF DoSign, AppendRaw, Now
  <2>2. Signature(dictionary, Signer) = <<bits>>
    BY <1>2 DEF DoSign, Signature
  <2>3. Signature(dictionary, Signer) # <<>> /\ Signature(dictionary, Signer)[1] = bits
    BY <2>2
  <2> QED
    BY <2>1, <2>3 DEF IsStep, After
<1>3. CASE NoSignature
  <2>1. Machine' = Machine /\ Head(todo).op = "sign"
    BY <1>3, MachineSame DEF NoSignature, tlvVars, Same, Now
  <2>2. Signature(dictionary, Signer) = <<>>
    BY <1>3 DEF NoSignature, Signature
  <2> QED
    BY <2>1, <2>2 DEF IsStep, After
<1> QED
  BY <1>1, <1>2, <1>3

LEMMA HeaderIsStep == ASSUME DoHeader PROVE IsStep
<1> DEFINE header == FixedHeader(dictionary, PacketType[dictionary.type], headerLength, Inner)
<1>1. /\ content' = Overlay(Start, header) /\ Head(todo).op = "header"
      /\ UNCHANGED <<position, open, headerLength>>
  BY DEF DoHeader, PatchHeader, Same, Now
<1>2. Machine' = State(Overlaid(content, Start, header), position, open, headerLength)
  BY <1>1, OverlayOverlaid, MachineNext, Zenon
<1> QED
  BY <1>1, <1>2, LastFrame, MachineParts DEF IsStep, After, Inner, Start

LEMMA FinalizeIsStep == ASSUME DoFinalize PROVE IsStep
<1>1. /\ content' = SubSeq(content, 1, position) /\ Head(todo).op = "finalize"
      /\ UNCHANGED <<position, open, headerLength>>
  BY DEF DoFinalize, Finalize, Now
<1>2. Machine' = State(SubSeq(content, 1, position), position, open, headerLength)
  BY <1>1, MachineNext
<1> QED
  BY <1>1, <1>2, MachineParts DEF IsStep, After

----------------------------------------------------------------------------
(* The calls of an encoding do not depend on the stored signature.         *)

Alike(d, e) ==
    /\ e.type = d.type
    /\ \A key : key # "sigPayload" =>
          /\ key \in DOMAIN e <=> key \in DOMAIN d
          /\ key \in DOMAIN d => e[key] = d[key]

LEMMA AlikeField ==
    ASSUME NEW d, NEW e, Alike(d, e), NEW key, key # "sigPayload", NEW kind
    PROVE  /\ Is(e, key, kind) <=> Is(d, key, kind)
           /\ Is(d, key, kind) => e[key] = d[key]
BY DEF Alike, Is

LEMMA AlikeBuffer ==
    ASSUME NEW d, NEW e, Alike(d, e), NEW key, key # "sigPayload", NEW type
    PROVE  BufferField(e, key, type) = BufferField(d, key, type)
BY AlikeField DEF BufferField

LEMMA AlikeList ==
    ASSUME NEW d, NEW e, Alike(d, e), NEW list, list # "sigPayload"
    PROVE  CustomList(e, list) = CustomList(d, list)
BY DEF CustomList, Alike

LEMMA AlikeName ==
    ASSUME NEW d, NEW e, Alike(d, e)
    PROVE  EncodeName(e) = EncodeName(d)
<1>1. /\ Is(e, "name", "name") <=> Is(d, "name", "name")
      /\ Is(d, "name", "name") => e.name = d.name
  BY AlikeField
<1> QED
  BY <1>1 DEF EncodeName, Alike

LEMMA AlikeVarInt ==
    ASSUME NEW d, NEW e, Alike(d, e), NEW key, key # "sigPayload", NEW type
    PROVE  IntegerField(e, key, type, VarInt(e[key].integer))
             = IntegerField(d, key, type, VarInt(d[key].integer))
BY AlikeField, AlikeBuffer DEF IntegerField

LEMMA AlikeUint64 ==
    ASSUME NEW d, NEW e, Alike(d, e), NEW key, key # "sigPayload", NEW type
    PROVE  IntegerField(e, key, type, Uint64(e[key].integer))
             = IntegerField(d, key, type, Uint64(d[key].integer))
BY AlikeField, AlikeBuffer DEF IntegerField

LEMMA AlikePayloadType ==
    ASSUME NEW d, NEW e, Alike(d, e), NEW key, key # "sigPayload", NEW type
    PROVE  IntegerField(e, key, type, WirePayloadType(e[key].integer))
             = IntegerField(d, key, type, WirePayloadType(d[key].integer))
BY AlikeField, AlikeBuffer DEF IntegerField

LEMMA AlikeHeader ==
    ASSUME NEW d, NEW e, Alike(d, e), NEW packetType, NEW headerBytes, NEW packetBytes
    PROVE  FixedHeader(e, packetType, headerBytes, packetBytes)
             = FixedHeader(d, packetType, headerBytes, packetBytes)
<1>1. HopLimit(e) = HopLimit(d)
  <2>1. /\ Is(e, "hopLimit", "integer") <=> Is(d, "hopLimit", "integer")
        /\ Is(d, "hopLimit", "integer") => e.hopLimit = d.hopLimit
    BY AlikeField
  <2> QED
    BY <2>1 DEF HopLimit
<1>2. ReturnCode(e) = ReturnCode(d)
  <2>1. /\ Is(e, "returnCode", "integer") <=> Is(d, "returnCode", "integer")
        /\ Is(d, "returnCode", "integer") => e.returnCode = d.returnCode
    BY AlikeField
  <2> QED
    BY <2>1 DEF ReturnCode
<1> QED
  BY <1>1, <1>2 DEF FixedHeader

LEMMA AlikeOptionalHeaders ==
    ASSUME NEW d, NEW e, Alike(d, e)
    PROVE  EncodeOptionalHeaders(e) = EncodeOptionalHeaders(d)
<1>1. CustomList(e, "headers") = CustomList(d, "headers")
  BY AlikeList
<1>2. \A type : /\ BufferField(e, "intFrag", type) = BufferField(d, "intFrag", type)
                /\ BufferField(e, "objFrag", type) = BufferField(d, "objFrag", type)
  BY AlikeBuffer
<1>3. \A type : /\ IntegerField(e, "lifetime", type, VarInt(e.lifetime.integer))
                     = IntegerField(d, "lifetime", type, VarInt(d.lifetime.integer))
                /\ IntegerField(e, "cacheTime", type, VarInt(e.cacheTime.integer))
                     = IntegerField(d, "cacheTime", type, VarInt(d.cacheTime.integer))
  BY AlikeVarInt
<1>4. e.type = d.type
  BY DEF Alike
<1> QED
  BY <1>1, <1>2, <1>3, <1>4, Zenon DEF EncodeOptionalHeaders

LEMMA AlikeRestriction ==
    ASSUME NEW d, NEW e, Alike(d, e), NEW key, key # "sigPayload", NEW type
    PROVE  HashRestriction(e, key, type) = HashRestriction(d, key, type)
BY AlikeField DEF HashRestriction

LEMMA AlikeMessage ==
    ASSUME NEW d, NEW e, Alike(d, e)
    PROVE  EncodeMessage(e) = EncodeMessage(d)
<1>1. e.type = d.type /\ EncodeName(e) = EncodeName(d)
      /\ CustomList(e, "custom") = CustomList(d, "custom")
  BY AlikeName, AlikeList DEF Alike
<1>2. \A type : BufferField(e, "payload", type) = BufferField(d, "payload", type)
  BY AlikeBuffer
<1>3. EncodeInterest(e) = EncodeInterest(d)
  <2>1. \A type :
          /\ HashRestriction(e, "keyIdRestriction", type) = HashRestriction(d, "keyIdRestriction", type)
          /\ HashRestriction(e, "objHashRestriction", type) = HashRestriction(d, "objHashRestriction", type)
    BY AlikeRestriction
  <2> QED
    BY <1>1, <1>2, <2>1, Zenon DEF EncodeInterest
<1>4. EncodeContentObject(e) = EncodeContentObject(d)
  <2>1. \A type : /\ IntegerField(e, "payloadType", type, WirePayloadType(e.payloadType.integer))
                       = IntegerField(d, "payloadType", type, WirePayloadType(d.payloadType.integer))
                  /\ IntegerField(e, "expiryTime", type, Uint64(e.expiryTime.integer))
                       = IntegerField(d, "expiryTime", type, Uint64(d.expiryTime.integer))
                  /\ IntegerField(e, "endChunk", type, VarInt(e.endChunk.integer))
                       = IntegerField(d, "endChunk", type, VarInt(d.endChunk.integer))
    BY AlikePayloadType, AlikeUint64, AlikeVarInt
  <2> QED
    BY <1>1, <1>2, <2>1, Zenon DEF EncodeContentObject
<1>5. EncodeManifest(e) = EncodeManifest(d)
  <2>1. /\ "hashGroups" \in DOMAIN e <=> "hashGroups" \in DOMAIN d
        /\ "hashGroups" \in DOMAIN d => e.hashGroups = d.hashGroups
    BY DEF Alike
  <2>2. CASE "hashGroups" \in DOMAIN d
    BY <1>1, <2>1, <2>2, Zenon DEF EncodeManifest
  <2>3. CASE "hashGroups" \notin DOMAIN d
    BY <1>1, <2>1, <2>3, Zenon DEF EncodeManifest
  <2> QED
    BY <2>2, <2>3
<1>6. EncodeCPI(e) = EncodeCPI(d)
  <2>1. /\ Is(e, "payload", "json") <=> Is(d, "payload", "json")
        /\ Is(e, "payload", "buffer") <=> Is(d, "payload", "buffer")
        /\ Is(d, "payload", "json") \/ Is(d, "payload", "buffer") => e.payload = d.payload
    BY AlikeField
  <2> QED
    BY <2>1 DEF EncodeCPI
<1>7. CASE d.type \notin DOMAIN PacketType
  BY <1>1, <1>7, Zenon DEF EncodeMessage
<1>8. CASE d.type \in DOMAIN PacketType /\ d.type = "Control"
  BY <1>1, <1>6, <1>8, Zenon DEF EncodeMessage
<1>9. CASE d.type \in DOMAIN PacketType /\ d.type # "Control"
  <2>1. CASE d.type \in {"Interest", "InterestReturn"}
    BY <1>1, <1>3, <1>9, <2>1, Zenon DEF EncodeMessage
  <2>2. CASE d.type \notin {"Interest", "InterestReturn"} /\ d.type = "ContentObject"
    BY <1>1, <1>4, <1>9, <2>2, Zenon DEF EncodeMessage
  <2>3. CASE d.type \notin {"Interest", "InterestReturn", "ContentObject"} /\ d.type = "Manifest"
    BY <1>1, <1>5, <1>9, <2>3, Zenon DEF EncodeMessage
  <2> QED
    BY <1>9, <2>1, <2>2, <2>3 DEF PacketType
<1> QED
  BY <1>7, <1>8, <1>9

LEMMA AlikeSuite ==
    ASSUME NEW d, NEW e, Alike(d, e), NEW s
    PROVE  Suite(e, s) = Suite(d, s)
<1>1. /\ Is(e, "cryptoSuite", "integer") <=> Is(d, "cryptoSuite", "integer")
      /\ Is(d, "cryptoSuite", "integer") => e.cryptoSuite = d.cryptoSuite
  BY AlikeField
<1> QED
  BY <1>1 DEF Suite, Alike

LEMMA AlikeValidationAlg ==
    ASSUME NEW d, NEW e, Alike(d, e), NEW s, NEW time
    PROVE  EncodeValidationAlg(e, s, time) = EncodeValidationAlg(d, s, time)
<1>1. e.type = d.type /\ Suite(e, s) = Suite(d, s)
  BY AlikeSuite DEF Alike
<1>2. \A key, type : key # "sigPayload" => BufferField(e, key, type) = BufferField(d, key, type)
  BY AlikeBuffer
<1>3. EncodeKeyName(e) = EncodeKeyName(d)
  <2>1. /\ Is(e, "keyName", "name") <=> Is(d, "keyName", "name")
        /\ Is(d, "keyName", "name") => e.keyName = d.keyName
    BY AlikeField
  <2>2. \A type : /\ BufferField(e, "keyNameKeyId", type) = BufferField(d, "keyNameKeyId", type)
                  /\ BufferField(e, "keyNameHash", type) = BufferField(d, "keyNameHash", type)
    BY <1>2
  <2>3. CASE Is(d, "keyName", "name")
    BY <2>1, <2>2, <2>3, Zenon DEF EncodeKeyName
  <2>4. CASE ~Is(d, "keyName", "name")
    BY <2>1, <2>4, Zenon DEF EncodeKeyName
  <2> QED
    BY <2>3, <2>4
<1>4. EncodeSignatureTime(e, s, time) = EncodeSignatureTime(d, s, time)
  <2>1. /\ Is(e, "sigTime", "integer") <=> Is(d, "sigTime", "integer")
        /\ Is(d, "sigTime", "integer") => e.sigTime = d.sigTime
    BY AlikeField
  <2> QED
    BY <2>1 DEF EncodeSignatureTime
<1>5. EncodeAlg(e, s, time) = EncodeAlg(d, s, time)
  <2>1. \A type : /\ BufferField(e, "keyId", type) = BufferField(d, "keyId", type)
                  /\ BufferField(e, "publicKey", type) = BufferField(d, "publicKey", type)
                  /\ BufferField(e, "certificate", type) = BufferField(d, "certificate", type)
    BY <1>2
  <2> QED
    BY <1>1, <1>3, <1>4, <2>1, Zenon DEF EncodeAlg
<1>6. Is(e, "cryptoSuite", "integer") <=> Is(d, "cryptoSuite", "integer")
  BY AlikeField
<1>7. CASE Is(d, "cryptoSuite", "integer") \/ d.type = "ContentObject"
  BY <1>1, <1>5, <1>6, <1>7, Zenon DEF EncodeValidationAlg
<1>8. CASE ~(Is(d, "cryptoSuite", "integer") \/ d.type = "ContentObject")
  BY <1>1, <1>6, <1>8, Zenon DEF EncodeValidationAlg
<1> QED
  BY <1>7, <1>8

LEMMA AlikeEncode ==
    ASSUME NEW d, NEW e, Alike(d, e), NEW s, NEW time
    PROVE  Encode(e, s, time) = Encode(d, s, time)
<1>1. ProvisionalHeader(e) = ProvisionalHeader(d)
  BY AlikeHeader DEF ProvisionalHeader
<1>2. EncodeValidationPayload(e, s) = EncodeValidationPayload(d, s)
  BY AlikeSuite DEF EncodeValidationPayload
<1>3. EncodeOptionalHeaders(e) = EncodeOptionalHeaders(d) /\ EncodeMessage(e) = EncodeMessage(d)
  BY AlikeOptionalHeaders, AlikeMessage
<1>4. EncodeValidationAlg(e, s, time) = EncodeValidationAlg(d, s, time)
  BY AlikeValidationAlg
<1> QED
  BY <1>1, <1>2, <1>3, <1>4, Zenon DEF Encode

LEMMA AlikeAfter ==
    ASSUME NEW d, NEW e, Alike(d, e), NEW s, Signature(e, s) = Signature(d, s), NEW call, NEW m
    PROVE  After(e, s, call, m) = After(d, s, call, m)
<1>1. \A packetType, headerBytes, packetBytes :
        FixedHeader(e, packetType, headerBytes, packetBytes)
          = FixedHeader(d, packetType, headerBytes, packetBytes)
  BY AlikeHeader
<1>2. e.type = d.type
  BY DEF Alike
<1> QED
  BY <1>1, <1>2, Zenon DEF After

(* The time of a signature is part of the packet only when the dictionary  *)
(* has none.                                                               *)
LEMMA TimeKeptEncode ==
    ASSUME NEW d, NEW s, NEW t, NEW u,
           Is(d, "sigTime", "integer")
             \/ ~(s # NoSigner /\ s.algorithm \notin {"NULL", "UNKNOWN"})
    PROVE  Encode(d, s, t) = Encode(d, s, u)
<1>1. EncodeSignatureTime(d, s, t) = EncodeSignatureTime(d, s, u)
  BY DEF EncodeSignatureTime
<1>2. EncodeAlg(d, s, t) = EncodeAlg(d, s, u)
  BY <1>1, Zenon DEF EncodeAlg
<1>3. EncodeValidationAlg(d, s, t) = EncodeValidationAlg(d, s, u)
  BY <1>2, Zenon DEF EncodeValidationAlg
<1> QED
  BY <1>3, Zenon DEF Encode

----------------------------------------------------------------------------
(* Replays: what there is after the first k calls of an encoding *)

IsReplay(f, d, s, calls, k) ==
    f[0] = Blank /\ \A i \in 1..k : f[i] = After(d, s, calls[i], f[i - 1])

Behind(d, s, time, k, m) == \E f : IsReplay(f, d, s, Encode(d, s, time), k) /\ f[k] = m

LEMMA BehindFirst ==
    ASSUME NEW d, NEW s, NEW time
    PROVE  Behind(d, s, time, 0, Blank)
<1> DEFINE f == [i \in {0} |-> Blank]
<1>1. f[0] = Blank /\ IsReplay(f, d, s, Encode(d, s, time), 0)
  BY DEF IsReplay
<1> QED
  BY <1>1 DEF Behind

LEMMA BehindNext ==
    ASSUME NEW d, NEW s, NEW time, NEW k \in Nat, NEW m, Behind(d, s, time, k, m)
    PROVE  Behind(d, s, time, k + 1, After(d, s, Encode(d, s, time)[k + 1], m))
<1> DEFINE calls == Encode(d, s, time)
           n == After(d, s, calls[k + 1], m)
<1>1. PICK f : IsReplay(f, d, s, calls, k) /\ f[k] = m
  BY DEF Behind
<1> DEFINE g == [i \in 0..(k + 1) |-> IF i = k + 1 THEN n ELSE f[i]]
<1> HIDE DEF calls, n
<1>2. g[0] = Blank /\ g[k + 1] = n
  <2>1. 0 \in 0..(k + 1) /\ k + 1 \in 0..(k + 1) /\ 0 # k + 1
    OBVIOUS
  <2> QED
    BY <1>1, <2>1 DEF IsReplay
<1>3. ASSUME NEW i \in 1..(k + 1) PROVE g[i] = After(d, s, calls[i], g[i - 1])
  <2>1. i \in 0..(k + 1) /\ i - 1 \in 0..(k + 1) /\ i - 1 # k + 1
    OBVIOUS
  <2>2. g[i - 1] = f[i - 1]
    BY <2>1
  <2>3. CASE i = k + 1
    <3>1. i - 1 = k /\ g[i] = n
      BY <2>1, <2>3
    <3> QED
      BY <1>1, <2>2, <2>3, <3>1 DEF n
  <2>4. CASE i # k + 1
    <3>1. i \in 1..k /\ g[i] = f[i]
      BY <2>1, <2>4
    <3> QED
      BY <1>1, <2>2, <3>1 DEF IsReplay
  <2> QED
    BY <2>3, <2>4
<1> HIDE DEF g
<1>4. IsReplay(g, d, s, calls, k + 1) /\ g[k + 1] = n
  BY <1>2, <1>3 DEF IsReplay
<1> QED
  BY <1>4 DEF Behind, calls, n

LEMMA BehindUnique ==
    ASSUME NEW d, NEW s, NEW time, NEW k \in Nat, NEW m, NEW n,
           Behind(d, s, time, k, m), Behind(d, s, time, k, n)
    PROVE  m = n
<1> DEFINE calls == Encode(d, s, time)
<1>1. PICK f : IsReplay(f, d, s, calls, k) /\ f[k] = m
  BY DEF Behind
<1>2. PICK g : IsReplay(g, d, s, calls, k) /\ g[k] = n
  BY DEF Behind
<1> HIDE DEF calls
<1> DEFINE S == {i \in Nat : i <= k => f[i] = g[i]}
<1>3. 0 \in S
  BY <1>1, <1>2 DEF IsReplay
<1>4. ASSUME NEW i \in Nat, i \in S PROVE i + 1 \in S
  <2> SUFFICES ASSUME i + 1 <= k PROVE f[i + 1] = g[i + 1]
    OBVIOUS
  <2>1. i + 1 \in 1..k /\ (i + 1) - 1 = i /\ i <= k
    OBVIOUS
  <2>2. f[i] = g[i]
    BY <1>4, <2>1
  <2>3. f[i + 1] = After(d, s, calls[i + 1], f[i])
    BY <1>1, <2>1 DEF IsReplay
  <2>4. g[i + 1] = After(d, s, calls[i + 1], g[i])
    BY <1>2, <2>1 DEF IsReplay
  <2> QED
    BY <2>2, <2>3, <2>4
<1> HIDE DEF S
<1>5. Nat \subseteq S
  BY <1>3, <1>4, Induction
<1>6. k \in S /\ k <= k
  BY <1>5
<1> QED
  BY <1>1, <1>2, <1>6 DEF S

LEMMA BehindAlike ==
    ASSUME NEW d, NEW e, Alike(d, e), NEW s, Signature(e, s) = Signature(d, s),
           NEW time, NEW k, NEW m, Behind(d, s, time, k, m)
    PROVE  Behind(e, s, time, k, m)
<1>1. Encode(e, s, time) = Encode(d, s, time)
  BY AlikeEncode
<1>2. PICK f : IsReplay(f, d, s, Encode(d, s, time), k) /\ f[k] = m
  BY DEF Behind
<1>3. \A call, n : After(e, s, call, n) = After(d, s, call, n)
  BY AlikeAfter
<1>4. IsReplay(f, e, s, Encode(e, s, time), k)
  BY <1>1, <1>2, <1>3 DEF IsReplay
<1> QED
  BY <1>2, <1>4 DEF Behind

----------------------------------------------------------------------------
(* The encoding that runs, and the one before it, are replays. *)

Calls == Encode(dictionary, Signer, now)

Left(k) ==
    /\ k <= Len(Calls) /\ Len(todo) = Len(Calls) - k
    /\ \A i \in 1..Len(todo) : todo[i] = Calls[k + i]

Replayed ==
    outcome \in {"running", "done"} =>
        \E k \in Nat : Left(k) /\ Behind(dictionary, Signer, now, k, Machine)

Repeated ==
    encodes > 1 /\ relayed = {} =>
        \E time : \E m : /\ Behind(dictionary, Signer, time,
                                   Len(Encode(dictionary, Signer, time)), m)
                         /\ m.content = previous

ReplayInv == PacketInv /\ Replayed /\ Repeated

LEMMA CallsType ==
    ASSUME PacketInv
    PROVE  Calls \in Seq(CallSet) /\ Len(Calls) \in Nat
<1>1. IsDictionary(dictionary) /\ now \in Nat
  BY PacketAssumption DEF PacketInv, Client
<1>2. Runs(Calls, 0, Finished)
  BY <1>1, EncodeRuns DEF Calls
<1> QED
  BY <1>2 DEF Runs

LEMMA TodoType ==
    ASSUME PacketInv
    PROVE  todo \in Seq(CallSet)
<1>1. CASE outcome = "running"
  BY <1>1 DEF PacketInv, Running, Runs
<1>2. CASE outcome # "running"
  BY <1>2 DEF PacketInv, Ended
<1> QED
  BY <1>1, <1>2

(* When nothing is left, it is all there. *)
LEMMA WholeReplay ==
    ASSUME ReplayInv, outcome = "done"
    PROVE  Behind(dictionary, Signer, now, Len(Calls), Machine)
<1>1. PICK k \in Nat : Left(k) /\ Behind(dictionary, Signer, now, k, Machine)
  BY DEF ReplayInv, Replayed
<1>2. Len(todo) = 0
  BY DEF ReplayInv, PacketInv, Ended
<1>3. k = Len(Calls)
  BY <1>1, <1>2, CallsType DEF Left, ReplayInv
<1> QED
  BY <1>1, <1>3

LEMMA Progress ==
    ASSUME ReplayInv, todo # <<>>, CallDone, IsStep,
           Alike(dictionary, dictionary'),
           Signature(dictionary', Signer) = Signature(dictionary, Signer),
           UNCHANGED <<Signer, now>>
    PROVE  \E k \in Nat : (Left(k) /\ Behind(dictionary, Signer, now, k, Machine))'
<1>0. PacketInv /\ outcome = "running"
  BY CallMade DEF ReplayInv
<1>1. PICK k \in Nat : Left(k) /\ Behind(dictionary, Signer, now, k, Machine)
  BY <1>0 DEF ReplayInv, Replayed
<1>2. PICK n \in Nat : n = Len(todo) /\ n > 0
  BY <1>0, TodoType, EmptySeq
<1>3. /\ Head(todo) = todo[1] /\ Len(Tail(todo)) = n - 1
      /\ \A i \in 1..(n - 1) : Tail(todo)[i] = todo[i + 1]
  BY <1>0, <1>2, TodoType, HeadTailProperties
<1>4. PICK m \in Nat : m = Len(Calls) /\ k + n = m
  BY <1>0, <1>1, <1>2, CallsType DEF Left
<1>5. \A i \in 1..n : todo[i] = Calls[k + i]
  BY <1>1, <1>2 DEF Left
<1>6. Head(todo) = Calls[k + 1]
  <2>1. 1 \in 1..n
    BY <1>2
  <2> QED
    BY <1>3, <1>5, <2>1
<1>7. Behind(dictionary, Signer, now, k + 1, Machine')
  BY <1>1, <1>6, BehindNext DEF IsStep, Calls
<1>8. Behind(dictionary', Signer, now, k + 1, Machine')
  BY <1>7, BehindAlike
<1>9. Calls' = Calls
  BY AlikeEncode DEF Calls
<1>10. Left(k + 1)'
  <2>1. todo' = Tail(todo) /\ Len(todo') = n - 1 /\ k + 1 <= m /\ n - 1 = m - (k + 1)
    BY <1>2, <1>3, <1>4 DEF CallDone
  <2>2. ASSUME NEW i \in 1..(n - 1) PROVE todo'[i] = Calls[(k + 1) + i]
    <3>1. i + 1 \in 1..n /\ k + (i + 1) = (k + 1) + i
      OBVIOUS
    <3> QED
      BY <1>3, <1>5, <2>1, <3>1
  <2> QED
    BY <1>4, <1>9, <2>1, <2>2 DEF Left
<1> QED
  BY <1>8, <1>10, k + 1 \in Nat

LEMMA RepeatedKept ==
    ASSUME ReplayInv, Alike(dictionary, dictionary'),
           Signature(dictionary', Signer) = Signature(dictionary, Signer),
           UNCHANGED <<Signer, encodes, relayed, previous>>
    PROVE  Repeated'
<1> SUFFICES ASSUME encodes > 1, relayed = {}
             PROVE  \E time : \E m :
                       /\ Behind(dictionary', Signer, time,
                                 Len(Encode(dictionary', Signer, time)), m)
                       /\ m.content = previous
  BY DEF Repeated
<1>1. PICK time, m : /\ Behind(dictionary, Signer, time,
                               Len(Encode(dictionary, Signer, time)), m)
                     /\ m.content = previous
  BY DEF ReplayInv, Repeated
<1>2. Encode(dictionary', Signer, time) = Encode(dictionary, Signer, time)
  BY AlikeEncode
<1>3. Behind(dictionary', Signer, time, Len(Encode(dictionary', Signer, time)), m)
  BY <1>1, <1>2, BehindAlike
<1> QED
  BY <1>1, <1>3

LEMMA AlikeSame == \A d : Alike(d, d)
BY DEF Alike

(* Every call of an encoding *)
MakesCall ==
    DoAppend \/ DoRaw \/ DoOpen \/ DoMeasured \/ DoCounted \/ DoRewritten \/ DoErase \/ DoKeep
    \/ DoStart \/ DoEnd \/ UseStored \/ NoSignature \/ DoHeader \/ DoFinalize

LEMMA CallReplayed ==
    ASSUME ReplayInv, PacketInv', UNCHANGED relayed, MakesCall
    PROVE  ReplayInv'
<1>1. IsStep
  BY AppendIsStep, RawIsStep, OpenIsStep, CloseIsStep, MarkIsStep, SignIsStep, HeaderIsStep,
     FinalizeIsStep DEF MakesCall, ReplayInv
<1>2. todo # <<>> /\ CallDone /\ UNCHANGED <<client, history>>
  BY DEF MakesCall, Now, Same, DoAppend, DoRaw, DoOpen, DoMeasured, DoCounted, DoRewritten, DoErase,
         DoKeep, DoStart, DoEnd, UseStored, NoSignature, DoHeader, DoFinalize
<1>3. dictionary' = dictionary /\ UNCHANGED <<Signer, now, encodes, previous>>
  BY <1>2 DEF client, history, Signer
<1>4. Alike(dictionary, dictionary') /\ Signature(dictionary', Signer) = Signature(dictionary, Signer)
  BY <1>3, AlikeSame
<1>5. Replayed'
  BY <1>1, <1>2, <1>3, <1>4, Progress DEF Replayed
<1>6. Repeated'
  BY <1>3, <1>4, RepeatedKept
<1> QED
  BY <1>5, <1>6 DEF ReplayInv

(* The signature that was made is the one that is stored. *)
LEMMA SignReplayed ==
    ASSUME ReplayInv, PacketInv', UNCHANGED relayed, DoSign
    PROVE  ReplayInv'
<1>1. IsStep
  BY SignIsStep
<1>2. todo # <<>> /\ CallDone /\ UNCHANGED <<Signer, now, encodes, previous>>
  BY DEF DoSign, Now, Signer
<1> DEFINE entry == Entry("buffer", Signer.bits)
           e == Updated(dictionary, "sigPayload", entry)
<1>3. dictionary' = IF "sigPayload" \in DOMAIN dictionary THEN dictionary ELSE e
  BY DEF DoSign, PutNew, CanPut
<1>4. IsUpdate(e, dictionary, "sigPayload", entry)
  BY UpdatedShape
<1>5. DOMAIN entry = {"buffer"} /\ entry["buffer"] = Signer.bits
  BY EntryShape
<1> HIDE DEF e, entry
<1>6. "type" \in DOMAIN dictionary
  BY DEF ReplayInv, PacketInv, Client, IsDictionary
<1>7. Alike(dictionary, dictionary') /\ Signature(dictionary', Signer) = Signature(dictionary, Signer)
  <2>1. CASE "sigPayload" \in DOMAIN dictionary
    BY <1>3, <2>1, AlikeSame
  <2>2. CASE "sigPayload" \notin DOMAIN dictionary
    <3>1. dictionary' = e
      BY <1>3, <2>2
    <3>2. Alike(dictionary, e)
      BY <1>4, <1>6 DEF Alike, IsUpdate
    <3>3. Signature(dictionary, Signer) = <<Signer.bits>>
      BY DEF DoSign, Signature
    <3>4. Is(e, "sigPayload", "buffer") /\ e.sigPayload.buffer = Signer.bits
      BY <1>4, <1>5 DEF Is, IsUpdate
    <3>5. Signature(e, Signer) = <<Signer.bits>>
      BY <3>4 DEF Signature
    <3> QED
      BY <3>1, <3>2, <3>3, <3>5
  <2> QED
    BY <2>1, <2>2
<1>8. Replayed'
  BY <1>1, <1>2, <1>7, Progress DEF Replayed
<1>9. Repeated'
  BY <1>2, <1>7, RepeatedKept
<1> QED
  BY <1>8, <1>9 DEF ReplayInv

LEMMA FailReplayed ==
    ASSUME ReplayInv, PacketInv', UNCHANGED relayed, Failing \/ Crashing
    PROVE  ReplayInv'
<1>1. outcome' \notin {"running", "done"}
  BY DEF Failing, Crashing
<1>2. dictionary' = dictionary /\ UNCHANGED <<Signer, encodes, previous>>
  BY DEF Failing, Crashing, client, history, Signer
<1>3. Repeated'
  BY <1>2, AlikeSame, RepeatedKept
<1> QED
  BY <1>1, <1>3 DEF ReplayInv, Replayed

LEMMA BeginsReplay == PacketInv /\ TlvInit /\ headerLength = 0 /\ todo = Calls => Replayed
<1> SUFFICES ASSUME PacketInv, TlvInit, headerLength = 0, todo = Calls
             PROVE  Replayed
  OBVIOUS
<1>1. Machine = Blank
  BY DEF Machine, Blank, TlvInit
<1>2. Behind(dictionary, Signer, now, 0, Machine)
  BY <1>1, BehindFirst
<1>3. Left(0)
  <2>1. PICK n \in Nat : n = Len(Calls) /\ Len(todo) = n /\ 0 <= n /\ n = n - 0
    BY CallsType
  <2>2. \A i \in 1..n : 0 + i = i
    OBVIOUS
  <2> QED
    BY <2>1, <2>2 DEF Left
<1> QED
  BY <1>2, <1>3 DEF Replayed

LEMMA InitReplayed == InitCodec => ReplayInv
<1> SUFFICES ASSUME InitCodec PROVE ReplayInv
  OBVIOUS
<1>1. PacketInv
  BY InitPacket
<1>2. TlvInit /\ headerLength = 0 /\ todo = Calls /\ encodes = 1
  BY DEF InitCodec, Init, Calls
<1>3. Replayed
  BY <1>1, <1>2, BeginsReplay
<1>4. Repeated
  BY <1>2 DEF Repeated
<1> QED
  BY <1>1, <1>3, <1>4 DEF ReplayInv

LEMMA NewReplay ==
    ASSUME PacketInv', NEW s, NewEncoder(s), Signer' = s
    PROVE  Replayed'
<1>1. TlvInit' /\ headerLength' = 0 /\ todo' = Calls'
  BY DEF NewEncoder, TlvInit, Calls
<1>2. (PacketInv /\ TlvInit /\ headerLength = 0 /\ todo = Calls => Replayed)'
  BY BeginsReplay, PTL
<1> QED
  BY <1>1, <1>2

(* The packet before the one that begins is the one that was done. *)
LEMMA AgainReplayed ==
    ASSUME ReplayInv, PacketInv', UNCHANGED relayed, EncodeAgain
    PROVE  ReplayInv'
<1>1. dictionary' = dictionary /\ UNCHANGED Signer
  BY DEF EncodeAgain, Signer
<1>2. Replayed'
  BY <1>1, NewReplay DEF EncodeAgain
<1>3. Behind(dictionary, Signer, now, Len(Calls), Machine)
  BY WholeReplay DEF EncodeAgain, NewEncoder
<1>4. Machine.content = previous'
  BY MachineParts DEF EncodeAgain, NewEncoder
<1>5. Repeated'
  BY <1>1, <1>3, <1>4 DEF Repeated, Calls
<1> QED
  BY <1>2, <1>5 DEF ReplayInv

LEMMA RelayReplayed ==
    ASSUME ReplayInv, PacketInv', Relay
    PROVE  ReplayInv'
<1>1. Signer' = NoSigner /\ relayed' # {}
  BY DEF Relay, Signer
<1>2. Replayed'
  BY <1>1, NewReplay DEF Relay
<1>3. Repeated'
  BY <1>1 DEF Repeated
<1> QED
  BY <1>2, <1>3 DEF ReplayInv

LEMMA StutterReplayed ==
    ASSUME ReplayInv, PacketInv', UNCHANGED <<vars, relayed>>
    PROVE  ReplayInv'
<1>1. /\ dictionary' = dictionary
      /\ UNCHANGED <<Signer, now, todo, outcome, encodes, relayed, previous>>
  BY DEF vars, client, history, Signer
<1>2. Machine' = Machine
  BY MachineSame DEF vars, tlvVars
<1>3. Replayed'
  BY <1>1, <1>2 DEF Replayed, ReplayInv, Left, Calls
<1>4. Repeated'
  BY <1>1, AlikeSame, RepeatedKept
<1> QED
  BY <1>3, <1>4 DEF ReplayInv

LEMMA StepReplayed == ReplayInv /\ [NextCodec]_<<vars, relayed>> => ReplayInv'
<1> SUFFICES ASSUME ReplayInv, [NextCodec]_<<vars, relayed>> PROVE ReplayInv'
  OBVIOUS
<1>0. PacketInv'
  BY StepPacket DEF ReplayInv
<1>1. CASE Next /\ UNCHANGED relayed
  BY <1>0, <1>1, CallReplayed, SignReplayed, FailReplayed, AgainReplayed, Zenon
  DEF Next, MakesCall
<1>2. CASE Relay
  BY <1>0, <1>2, RelayReplayed
<1>3. CASE UNCHANGED <<vars, relayed>>
  BY <1>0, <1>3, StutterReplayed
<1> QED
  BY <1>1, <1>2, <1>3 DEF NextCodec

LEMMA ReplayStable == ReplayInv => ReencodeStable
<1> SUFFICES ASSUME ReplayInv, outcome = "done", encodes > 1, relayed = {}, TimeIsKept
             PROVE  content = previous
  BY DEF ReencodeStable
<1>1. PICK time, m : /\ Behind(dictionary, Signer, time,
                               Len(Encode(dictionary, Signer, time)), m)
                     /\ m.content = previous
  BY DEF ReplayInv, Repeated
<1>2. Is(dictionary, "sigTime", "integer")
        \/ ~(Signer # NoSigner /\ Signer.algorithm \notin {"NULL", "UNKNOWN"})
  BY DEF TimeIsKept, SignerSigns
<1>3. Encode(dictionary, Signer, time) = Calls
  BY <1>2, TimeKeptEncode DEF Calls
<1>4. Behind(dictionary, Signer, now, Len(Calls), m)
  BY <1>1, <1>3 DEF Behind, Calls
<1>5. Behind(dictionary, Signer, now, Len(Calls), Machine)
  BY WholeReplay
<1>6. m = Machine
  BY <1>4, <1>5, BehindUnique, CallsType DEF ReplayInv
<1> QED
  BY <1>1, <1>6, MachineParts

(* A dictionary that was encoded, signed and encoded again by another      *)
(* encoder is the same packet, whatever it holds and however often: the    *)
(* signature that is stored is that of EncodePayload, no other field of    *)
(* the dictionary changed, and but for the time of signing, no call of     *)
(* Encode depends on when it is made.                                      *)
THEOREM Reencodes == SpecCodec => []ReencodeStable
<1> QED
  BY InitReplayed, StepReplayed, ReplayStable, PTL DEF SpecCodec
=============================================================================
