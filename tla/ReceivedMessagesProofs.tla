----------------------- MODULE ReceivedMessagesProofs -----------------------
(***************************************************************************)
(* Theorems about messages made of packets.  A message is looked at alone: *)
(* IInv says of each what its table, its signature and its digest may be,  *)
(* beside the packets and the state of the process.                        *)
(***************************************************************************)
EXTENDS ReceivedMessages, SequenceTheorems, WellFoundedInduction,
        NaturalsInduction, TLAPS

(* Induction over the natural numbers, for a set instead of a predicate.   *)
LEMMA Induction ==
    ASSUME NEW S, 0 \in S, \A n \in Nat : n \in S => n + 1 \in S
    PROVE  Nat \subseteq S
<1> DEFINE T == Nat \ S
<1> SUFFICES ASSUME T # {} PROVE FALSE
  OBVIOUS
<1>1. PICK m \in T : \A k \in T : <<k, m>> \notin OpToRel(<, Nat)
  BY WFMin, NatLessThanWellFounded, Zenon
<1>2. \A k \in T : ~(k < m)
  BY <1>1 DEF OpToRel
<1>3. m \in Nat /\ m # 0 /\ m - 1 \in Nat
  OBVIOUS
<1>4. m - 1 \in S
  BY <1>2, <1>3
<1>5. QED BY <1>3, <1>4

----------------------------------------------------------------------------
(* The hash of a region of a vector.                                       *)

Covers(offset, pieces, bytes) ==
    /\ offset \in [0..Len(pieces) -> 0..Len(bytes)]
    /\ offset[0] = 0 /\ offset[Len(pieces)] = Len(bytes)
    /\ \A i \in 1..Len(pieces) : offset[i] = offset[i - 1] + pieces[i]

LEMMA SubSeqJoin ==
    ASSUME NEW bytes \in Seq(Byte), NEW a \in Nat, NEW b \in Nat, NEW c \in Nat,
           a <= b, b <= c, c <= Len(bytes)
    PROVE  SubSeq(bytes, a + 1, b) \o SubSeq(bytes, b + 1, c) = SubSeq(bytes, a + 1, c)
<1> DEFINE left == SubSeq(bytes, a + 1, b)
           right == SubSeq(bytes, b + 1, c)
           whole == SubSeq(bytes, a + 1, c)
           joined == left \o right
<1>1. /\ left \in Seq(Byte) /\ Len(left) = b - a
      /\ \A i \in 1..(b - a) : left[i] = bytes[a + i]
  OBVIOUS
<1>2. /\ right \in Seq(Byte) /\ Len(right) = c - b
      /\ \A i \in 1..(c - b) : right[i] = bytes[b + i]
  OBVIOUS
<1>3. /\ whole \in Seq(Byte) /\ Len(whole) = c - a
      /\ \A i \in 1..(c - a) : whole[i] = bytes[a + i]
  OBVIOUS
<1> HIDE DEF left, right, whole
<1>4. /\ joined \in Seq(Byte) /\ Len(joined) = c - a
      /\ \A i \in 1..(c - a) : joined[i] = IF i <= b - a THEN left[i] ELSE right[i - (b - a)]
  <2>1. /\ joined \in Seq(Byte) /\ Len(joined) = (b - a) + (c - b)
        /\ \A i \in 1..((b - a) + (c - b)) :
             joined[i] = IF i <= b - a THEN left[i] ELSE right[i - (b - a)]
    <3> DEFINE p == b - a
               q == c - b
    <3>1. Len(left) = p /\ Len(right) = q
      BY <1>1, <1>2
    <3> HIDE DEF p, q
    <3>2. /\ joined \in Seq(Byte) /\ Len(joined) = p + q
          /\ \A i \in 1..(p + q) : joined[i] = IF i <= p THEN left[i] ELSE right[i - p]
      BY ONLY SMTT(30), <1>1, <1>2, <3>1, ConcatProperties
    <3>3. QED BY <3>2 DEF p, q
  <2>2. (b - a) + (c - b) = c - a
    OBVIOUS
  <2>3. QED BY ONLY <2>1, <2>2
<1> HIDE DEF joined
<1>5. ASSUME NEW i \in 1..(c - a) PROVE joined[i] = whole[i]
  <2>1. CASE i <= b - a
    <3>1. i \in 1..(b - a)
      BY <2>1
    <3>2. QED BY <1>1, <1>3, <1>4, <2>1, <3>1
  <2>2. CASE ~(i <= b - a)
    <3>1. i - (b - a) \in 1..(c - b) /\ b + (i - (b - a)) = a + i
      BY <2>2
    <3>2. right[i - (b - a)] = bytes[a + i]
      BY <1>2, <3>1
    <3>3. QED BY <1>3, <1>4, <2>2, <3>2
  <2>3. QED BY <2>1, <2>2
<1>6. joined = whole
  BY <1>3, <1>4, <1>5, SeqEqual
<1>7. QED BY <1>6 DEF joined, left, right, whole

LEMMA SubSeqEqual ==
    ASSUME NEW s \in Seq(Byte), NEW t \in Seq(Byte), NEW a \in Nat, NEW b \in Nat,
           a > 0, b <= Len(s), Len(t) = Len(s), \A i \in a..b : t[i] = s[i]
    PROVE  SubSeq(s, a, b) = SubSeq(t, a, b)
<1> DEFINE u == SubSeq(s, a, b)
           v == SubSeq(t, a, b)
           n == IF a <= b THEN b - a + 1 ELSE 0
<1>1. /\ u \in Seq(Byte) /\ Len(u) = n
      /\ \A i \in 1..n : u[i] = s[a + i - 1]
  BY SubSeqProperties
<1>2. /\ v \in Seq(Byte) /\ Len(v) = n
      /\ \A i \in 1..n : v[i] = t[a + i - 1]
  BY SubSeqProperties
<1>3. \A i \in 1..n : a + i - 1 \in a..b
  OBVIOUS
<1>4. \A i \in 1..n : u[i] = v[i]
  BY <1>1, <1>2, <1>3
<1> HIDE DEF u, v
<1>5. u = v
  BY <1>1, <1>2, <1>4, SeqEqual
<1>6. QED BY <1>5 DEF u, v

(* However the packet is cut, the loop over the pieces hashes the region   *)
(* once, whole and nothing else.                                           *)
THEOREM HashedOfPiecesIsRegion ==
    ASSUME NEW bytes \in Seq(Byte), NEW pieces \in Seq(Nat),
           NEW offset, Covers(offset, pieces, bytes),
           NEW start \in Nat, NEW length \in Nat, start + length <= Len(bytes)
    PROVE  HashedOfPieces(bytes, pieces, start, length)
             = SubSeq(bytes, start + 1, start + length)
<1> DEFINE n == Len(pieces)
           end == start + length
           base == [iovStart |-> 0, start |-> start, hashed |-> <<>>]
           Step(f) == f = [i \in 0..n |->
                             IF i = 0 THEN base
                             ELSE HashedPiece(f[i - 1], bytes, pieces[i], end)]
           loop == CHOOSE f : Step(f)
           Reach(i) == IF offset[i] <= start THEN start
                       ELSE IF offset[i] > end THEN end ELSE offset[i]
           At(i) == [iovStart |-> offset[i], start |-> Reach(i),
                     hashed |-> SubSeq(bytes, start + 1, Reach(i))]
           closed == [i \in 0..n |-> At(i)]
<1>1. /\ n \in Nat /\ end \in Nat /\ start <= end /\ end <= Len(bytes) /\ Len(bytes) \in Nat
      /\ offset[0] = 0 /\ offset[n] = Len(bytes)
      /\ \A i \in 0..n : offset[i] \in Nat
      /\ \A i \in 1..n : offset[i] = offset[i - 1] + pieces[i] /\ pieces[i] \in Nat
  <2>1. n \in Nat /\ Len(bytes) \in Nat /\ \A i \in 1..n : pieces[i] \in Nat
    BY ElementOfSeq, LenProperties
  <2>2. \A i \in 0..n : offset[i] \in 0..Len(bytes)
    BY DEF Covers
  <2>3. /\ offset[0] = 0 /\ offset[n] = Len(bytes)
        /\ \A i \in 1..n : offset[i] = offset[i - 1] + pieces[i]
    BY DEF Covers
  <2> HIDE DEF n
  <2>4. QED BY <2>1, <2>2, <2>3
<1>2. HashedOfPieces(bytes, pieces, start, length) = loop[n].hashed
  BY DEF HashedOfPieces
<1> HIDE DEF n, end
<1>3. At(0) = base
  <2>1. Reach(0) = start
    BY <1>1
  <2>2. SubSeq(bytes, start + 1, start) = <<>>
    BY SubSeqEmpty
  <2>3. QED BY <1>1, <2>1, <2>2
<1>4. \A i \in 0..n : Reach(i) \in Nat /\ start <= Reach(i) /\ Reach(i) <= end
  BY <1>1
<1>5. ASSUME NEW i \in 1..n
      PROVE  At(i) = HashedPiece(At(i - 1), bytes, pieces[i], end)
  <2> DEFINE before == offset[i - 1]
             after == offset[i]
             len == pieces[i]
             iovEnd == IF before + len > end THEN end ELSE before + len
             r == Reach(i - 1)
  <2>1. /\ before \in Nat /\ after \in Nat /\ len \in Nat /\ after = before + len
        /\ i - 1 \in 0..n /\ i \in 0..n
    BY <1>1
  <2>2. HashedPiece(At(i - 1), bytes, len, end) =
          IF before <= r /\ r < iovEnd
          THEN [iovStart |-> before + len, start |-> iovEnd,
                hashed |-> SubSeq(bytes, start + 1, r) \o SubSeq(bytes, r + 1, iovEnd)]
          ELSE [iovStart |-> before + len, start |-> r, hashed |-> SubSeq(bytes, start + 1, r)]
    <3> DEFINE acc == At(i - 1)
               hashed == SubSeq(bytes, start + 1, r)
    <3>1. iovEnd = IF before + len > end THEN end ELSE before + len
      OBVIOUS
    <3>2. /\ acc = [iovStart |-> before, start |-> r, hashed |-> hashed]
          /\ acc.iovStart = before /\ acc.start = r /\ acc.hashed = hashed
      OBVIOUS
    <3>3. [acc EXCEPT !.iovStart = acc.iovStart + len]
            = [iovStart |-> before + len, start |-> r, hashed |-> hashed]
      <4> HIDE DEF before, len, r, acc, hashed
      <4>1. QED BY ONLY <3>2
    <3> HIDE DEF before, len, iovEnd, r, acc, hashed
    <3>4. HashedPiece(acc, bytes, len, end) =
            IF before <= r /\ r < iovEnd
            THEN [iovStart |-> before + len, start |-> iovEnd,
                  hashed |-> hashed \o SubSeq(bytes, r + 1, iovEnd)]
            ELSE [iovStart |-> before + len, start |-> r, hashed |-> hashed]
      BY <3>1, <3>2, <3>3 DEF HashedPiece
    <3>5. QED BY <3>4 DEF acc, hashed
  <2>3. /\ r = IF before <= start THEN start ELSE IF before > end THEN end ELSE before
        /\ Reach(i) = IF after <= start THEN start ELSE IF after > end THEN end ELSE after
        /\ iovEnd = IF after > end THEN end ELSE after
    BY <2>1
  <2>4. r \in Nat /\ start <= r /\ iovEnd \in Nat /\ iovEnd <= Len(bytes)
    BY SMTT(30), <1>1, <1>4, <2>1
  <2> HIDE DEF before, after, len, iovEnd, r, Reach
  <2>5. CASE before <= r /\ r < iovEnd
    <3>1. Reach(i) = iovEnd
      BY ONLY <2>1, <2>3, <2>5, <1>1, start \in Nat
    <3>2. SubSeq(bytes, start + 1, r) \o SubSeq(bytes, r + 1, iovEnd)
            = SubSeq(bytes, start + 1, iovEnd)
      BY <2>4, <2>5, SubSeqJoin
    <3>3. HashedPiece(At(i - 1), bytes, len, end) =
            [iovStart |-> after, start |-> iovEnd, hashed |-> SubSeq(bytes, start + 1, iovEnd)]
      BY <2>1, <2>2, <2>5, <3>2
    <3>4. QED BY <3>1, <3>3 DEF len, after
  <2>6. CASE ~(before <= r /\ r < iovEnd)
    <3>1. Reach(i) = r
      BY ONLY <2>1, <2>3, <2>6, <1>1, start \in Nat
    <3>2. QED BY <2>1, <2>2, <2>6, <3>1 DEF len, after
  <2>7. QED BY <2>5, <2>6
<1> HIDE DEF At, base
<1>6. Step(closed)
  <2>1. \A i \in 0..n : closed[i] = IF i = 0 THEN base
                                    ELSE HashedPiece(closed[i - 1], bytes, pieces[i], end)
    <3> SUFFICES ASSUME NEW i \in 0..n
                 PROVE  closed[i] = IF i = 0 THEN base
                                    ELSE HashedPiece(closed[i - 1], bytes, pieces[i], end)
      OBVIOUS
    <3>1. CASE i = 0
      BY <1>3, <3>1
    <3>2. CASE i # 0
      <4>1. i \in 1..n /\ i - 1 \in 0..n
        BY <1>1, <3>2
      <4>2. QED BY <1>5, <3>2, <4>1
    <3>3. QED BY <3>1, <3>2
  <2>2. QED BY <2>1
<1>7. Step(loop)
  BY <1>6
<1> HIDE DEF loop
<1>8. \A i \in Nat : i <= n => loop[i] = At(i)
  <2> DEFINE S == {i \in Nat : i <= n => loop[i] = At(i)}
  <2>1. 0 \in S
    BY <1>1, <1>3, <1>7
  <2>2. ASSUME NEW i \in Nat, i \in S PROVE i + 1 \in S
    <3> SUFFICES ASSUME i + 1 <= n PROVE loop[i + 1] = At(i + 1)
      OBVIOUS
    <3>1. i + 1 \in 1..n /\ i + 1 \in 0..n /\ (i + 1) - 1 = i /\ i <= n /\ i + 1 # 0
      BY <1>1
    <3>2. loop[i + 1] = HashedPiece(loop[i], bytes, pieces[i + 1], end)
      BY <1>7, <3>1
    <3>3. At(i + 1) = HashedPiece(At(i), bytes, pieces[i + 1], end)
      BY <1>5, <3>1
    <3>4. QED BY <2>2, <3>1, <3>2, <3>3
  <2>3. QED BY <2>1, <2>2, Induction
<1>9. Reach(n) = end
  BY <1>1
<1>10. loop[n].hashed = SubSeq(bytes, start + 1, end)
  <2>1. loop[n] = At(n)
    BY <1>1, <1>8
  <2>2. At(n).hashed = SubSeq(bytes, start + 1, Reach(n))
    BY DEF At
  <2>3. QED BY <1>9, <2>1, <2>2
<1>11. QED BY <1>2, <1>10 DEF end
----------------------------------------------------------------------------
(* The inductive invariant. *)

ValidationRecord ==
    [suite : Suite \cup {"NONE", "RSA_SHA256", "HMAC_SHA256"},
     keyId : Signer \cup {NoSigner}, locator : Signer \cup {NoSigner},
     bits : Signer \cup {NoSigner}]
RegionRecord == [start : Nat \cup {Unset}, length : Nat \cup {Unset}]
DigestRecord == [start : Nat, length : Nat, bytes : Seq(Byte)]
Interface == {"Interest", "ContentObject", "InterestReturn"}
MessageRecord ==
    [type : Interface, interface : Interface \cup {"NONE"}, wire : Packet \cup {NoPacket},
     named : BOOLEAN, code : Byte, region : [Region -> RegionRecord],
     validation : ValidationRecord, created : BOOLEAN,
     digest : DigestRecord \cup {NoDigest}, accepted : ValidationRecord]
PacketRecord ==
    [bytes : Seq(Byte), pieces : Seq(Nat), signer : Signer \cup {NoSigner}, position : Nat]

ReceivedTypeOK ==
    /\ message \in [Message -> MessageRecord \cup {NoMessage}]
    /\ packet \in [Packet -> PacketRecord]
    /\ interestImpl \in BOOLEAN
    /\ misplaced \in [Packet -> BOOLEAN]

(* A packet keeps its length, and its pieces cover it. *)
Intact(p) ==
    /\ Len(p.bytes) >= HeaderSize
    /\ p.pieces # <<>> => \E offset : Covers(offset, p.pieces, p.bytes)

(* A message keeps no table but the one of its type, and a client cannot   *)
(* make an InterestReturn without filling in the table.                    *)
Served(msg, impl) ==
    /\ msg.interface \in {"NONE", msg.type}
    /\ msg.created /\ msg.type = "InterestReturn" => msg.interface = "InterestReturn" /\ impl

Signed(msg) ==
    msg.accepted.bits # NoSigner =>
        /\ msg.validation.bits = msg.accepted.bits
        /\ msg.accepted.keyId # NoSigner => msg.validation.keyId = msg.accepted.keyId
        /\ msg.accepted.locator # NoSigner => msg.validation.locator = msg.accepted.locator

(* What was hashed lay in the packet, which the message still has.         *)
Hashed(msg, packets, moved) ==
    msg.digest # NoDigest =>
        /\ msg.wire \in Packet
        /\ msg.digest.start + msg.digest.length <= Len(packets[msg.wire].bytes)
        /\ Len(msg.digest.bytes) = msg.digest.length
        /\ msg.digest.start >= HeaderSize /\ ~moved[msg.wire] =>
              msg.digest.bytes = SubSeq(packets[msg.wire].bytes, msg.digest.start + 1,
                                        msg.digest.start + msg.digest.length)

IInv ==
    /\ ReceivedTypeOK
    /\ \A p \in Packet : Intact(packet[p])
    /\ \A m \in Live : /\ Served(message[m], interestImpl)
                       /\ Signed(message[m])
                       /\ Hashed(message[m], packet, misplaced)

LEMMA ReceivedInitial == ReceivedInit => IInv
<1> SUFFICES ASSUME ReceivedInit PROVE IInv
  OBVIOUS
<1>1. \A p \in Packet : packet[p] \in PacketRecord /\ Intact(packet[p])
  <2> SUFFICES ASSUME NEW p \in Packet
               PROVE  packet[p] \in PacketRecord /\ Intact(packet[p])
    OBVIOUS
  <2>1. PICK c \in PacketContent :
          packet[p] = [bytes |-> c.bytes, pieces |-> c.pieces, signer |-> c.signer, position |-> 0]
    BY DEF ReceivedInit
  <2>2. /\ c.bytes \in Seq(Byte) /\ c.pieces \in Seq(Nat) /\ c.signer \in Signer \cup {NoSigner}
        /\ Len(c.bytes) >= HeaderSize
        /\ c.pieces # <<>> => \E offset : Covers(offset, c.pieces, c.bytes)
    BY PacketAssumption DEF Covers
  <2>3. QED BY <2>1, <2>2 DEF PacketRecord, Intact
<1>2. packet \in [Packet -> PacketRecord]
  BY <1>1 DEF ReceivedInit
<1>3. Live = {}
  BY DEF ReceivedInit, Live
<1>4. QED BY <1>1, <1>2, <1>3 DEF ReceivedInit, IInv, ReceivedTypeOK

(* Reading moves positions. *)
SamePackets ==
    /\ packet' \in [Packet -> PacketRecord]
    /\ \A p \in Packet : packet'[p].bytes = packet[p].bytes /\ packet'[p].pieces = packet[p].pieces

LEMMA PositionMoved ==
    ASSUME IInv, NEW p \in Packet, NEW n \in Nat, packet' = [packet EXCEPT ![p].position = n]
    PROVE  SamePackets
<1>1. packet \in [Packet -> PacketRecord]
  BY DEF IInv, ReceivedTypeOK
<1>2. \A q \in Packet : q # p => packet'[q] = packet[q]
  BY <1>1
<1>3. packet'[p] = [packet[p] EXCEPT !.position = n] /\ packet[p] \in PacketRecord
  BY <1>1
<1>4. /\ packet'[p] \in PacketRecord
      /\ packet'[p].bytes = packet[p].bytes /\ packet'[p].pieces = packet[p].pieces
  BY SMTT(30), <1>3 DEF PacketRecord
<1>5. packet' \in [Packet -> PacketRecord]
  BY <1>1, <1>4
<1>6. QED BY <1>2, <1>4, <1>5 DEF SamePackets

LEMMA PacketsStay ==
    ASSUME IInv, packet' = packet
    PROVE  SamePackets
BY DEF IInv, ReceivedTypeOK, SamePackets

LEMMA PacketsKept ==
    ASSUME IInv, SamePackets, misplaced' = misplaced
    PROVE  /\ \A p \in Packet : Intact(packet'[p])
           /\ \A msg \in MessageRecord :
                 Hashed(msg, packet, misplaced) => Hashed(msg, packet', misplaced')
           /\ packet' \in [Packet -> PacketRecord] /\ misplaced' \in [Packet -> BOOLEAN]
<1>1. ASSUME NEW p \in Packet PROVE Intact(packet'[p])
  BY DEF IInv, SamePackets, Intact
<1>2. ASSUME NEW msg \in MessageRecord, Hashed(msg, packet, misplaced)
      PROVE  Hashed(msg, packet', misplaced')
  <2> SUFFICES ASSUME msg.digest # NoDigest PROVE Hashed(msg, packet', misplaced')
    BY DEF Hashed
  <2>1. msg.wire \in Packet
    BY <1>2 DEF Hashed
  <2>2. packet'[msg.wire].bytes = packet[msg.wire].bytes
    BY <2>1 DEF SamePackets
  <2>3. QED BY <1>2, <2>1, <2>2 DEF Hashed
<1>3. QED BY <1>1, <1>2 DEF SamePackets, IInv, ReceivedTypeOK

LEMMA Reading ==
    ASSUME IInv, SamePackets, UNCHANGED <<message, interestImpl, misplaced>>
    PROVE  IInv'
<1>1. ReceivedTypeOK'
  BY PacketsKept DEF IInv, ReceivedTypeOK
<1>2. ASSUME NEW k \in Live'
      PROVE  /\ Served(message'[k], interestImpl')
             /\ Signed(message'[k])
             /\ Hashed(message'[k], packet', misplaced')
  <2>1. k \in Live /\ message[k] \in MessageRecord /\ message'[k] = message[k]
    BY DEF Live, IInv, ReceivedTypeOK
  <2>2. /\ Served(message[k], interestImpl) /\ Signed(message[k])
        /\ Hashed(message[k], packet, misplaced)
    BY <2>1 DEF IInv
  <2>3. QED BY <2>1, <2>2, PacketsKept
<1>3. QED BY <1>1, <1>2, PacketsKept DEF IInv

(* A call that puts one message, and at most fills in the table and moves  *)
(* a position.                                                             *)
LEMMA PutMessage ==
    ASSUME IInv, NEW m \in Message, NEW msg \in MessageRecord,
           message' = [message EXCEPT ![m] = msg],
           SamePackets, misplaced' = misplaced,
           interestImpl' \in {interestImpl, TRUE},
           Served(msg, interestImpl'), Signed(msg), Hashed(msg, packet, misplaced)
    PROVE  IInv'
<1>1. message \in [Message -> MessageRecord \cup {NoMessage}]
  BY DEF IInv, ReceivedTypeOK
<1>2. message' \in [Message -> MessageRecord \cup {NoMessage}]
  BY <1>1
<1>3. ReceivedTypeOK'
  BY <1>2, PacketsKept DEF IInv, ReceivedTypeOK
<1>4. ASSUME NEW k \in Live'
      PROVE  /\ Served(message'[k], interestImpl')
             /\ Signed(message'[k])
             /\ Hashed(message'[k], packet', misplaced')
  <2>1. k \in Message /\ message'[k] # NoMessage
    BY <1>4 DEF Live
  <2>2. CASE k = m
    <3>1. message'[k] = msg
      BY <1>1, <2>2
    <3>2. QED BY <3>1, PacketsKept
  <2>3. CASE k # m
    <3>1. message'[k] = message[k] /\ k \in Live /\ message[k] \in MessageRecord
      BY <1>1, <2>1, <2>3 DEF Live
    <3>2. Served(message[k], interestImpl) /\ Signed(message[k])
          /\ Hashed(message[k], packet, misplaced)
      BY <3>1 DEF IInv
    <3>3. Served(message[k], interestImpl')
      BY <3>2 DEF Served
    <3>4. QED BY <3>1, <3>2, <3>3, PacketsKept
  <2>4. QED BY <2>2, <2>3
<1>5. QED BY <1>3, <1>4, PacketsKept DEF IInv

LEMMA ByteReplaced ==
    ASSUME NEW s \in Seq(Byte), NEW i, NEW b \in Byte
    PROVE  [s EXCEPT ![i] = b] \in Seq(Byte) /\ Len([s EXCEPT ![i] = b]) = Len(s)
<1> DEFINE t == [s EXCEPT ![i] = b]
<1>1. Len(s) \in Nat /\ s \in [1..Len(s) -> Byte]
  BY LenProperties
<1>2. t \in [1..Len(s) -> Byte]
  BY <1>1
<1> HIDE DEF t
<1>3. t \in Seq(Byte) /\ DOMAIN t = 1..Len(s)
  BY <1>1, <1>2
<1>4. Len(t) = Len(s)
  BY <1>1, <1>3, LenProperties
<1>5. QED BY <1>3, <1>4 DEF t

(* A header written at the start of a packet leaves what follows it, one   *)
(* written elsewhere is noted.                                             *)
LEMMA HeaderWritten ==
    ASSUME IInv, NEW p \in Packet, NEW bytes \in Seq(Byte),
           Len(bytes) = Len(packet[p].bytes),
           FixedHeader(p) = 0 =>
              \A i \in (HeaderSize + 1)..Len(bytes) : bytes[i] = packet[p].bytes[i],
           WritingHeader(p, bytes)
    PROVE  IInv'
<1>1. /\ packet \in [Packet -> PacketRecord] /\ misplaced \in [Packet -> BOOLEAN]
      /\ message \in [Message -> MessageRecord \cup {NoMessage}]
  BY DEF IInv, ReceivedTypeOK
<1>2. /\ packet' = [packet EXCEPT ![p].bytes = bytes]
      /\ misplaced' = [misplaced EXCEPT ![p] = misplaced[p] \/ FixedHeader(p) # 0]
      /\ message' = message /\ interestImpl' = interestImpl
  BY DEF WritingHeader
<1>3. /\ packet'[p] = [packet[p] EXCEPT !.bytes = bytes]
      /\ \A q \in Packet : q # p => packet'[q] = packet[q] /\ misplaced'[q] = misplaced[q]
      /\ misplaced'[p] = (misplaced[p] \/ FixedHeader(p) # 0)
  BY <1>1, <1>2
<1>4. packet[p] \in PacketRecord
  BY <1>1
<1>5. /\ packet'[p] \in PacketRecord
      /\ packet'[p].bytes = bytes /\ packet'[p].pieces = packet[p].pieces
  BY <1>3, <1>4 DEF PacketRecord
<1>6. packet' \in [Packet -> PacketRecord] /\ misplaced' \in [Packet -> BOOLEAN]
  BY <1>1, <1>2, <1>5
<1>7. ReceivedTypeOK'
  BY <1>2, <1>6 DEF IInv, ReceivedTypeOK
<1>8. ASSUME NEW q \in Packet PROVE Intact(packet'[q])
  <2>1. Intact(packet[q])
    BY DEF IInv
  <2>2. CASE q # p
    BY <1>3, <2>1, <2>2
  <2>3. CASE q = p
    <3>1. ASSUME NEW offset, Covers(offset, packet[p].pieces, packet[p].bytes)
          PROVE  Covers(offset, packet[p].pieces, bytes)
      BY <3>1 DEF Covers
    <3>2. QED BY <1>5, <2>1, <2>3, <3>1 DEF Intact
  <2>4. QED BY <2>2, <2>3
<1>9. ASSUME NEW k \in Live'
      PROVE  /\ Served(message'[k], interestImpl')
             /\ Signed(message'[k])
             /\ Hashed(message'[k], packet', misplaced')
  <2>1. k \in Live /\ k \in Message
    BY <1>2 DEF Live
  <2> DEFINE msg == message[k]
             digest == msg.digest
  <2>2. msg \in MessageRecord /\ message'[k] = msg
    BY <1>1, <1>2, <2>1 DEF Live
  <2>3. Served(msg, interestImpl) /\ Signed(msg) /\ Hashed(msg, packet, misplaced)
    BY <2>1 DEF IInv
  <2>4. Hashed(msg, packet', misplaced')
    <3> SUFFICES ASSUME digest # NoDigest, msg.wire = p
                 PROVE  Hashed(msg, packet', misplaced')
      BY <1>3, <2>3 DEF Hashed
    <3>1. digest \in DigestRecord
      BY <2>2 DEF MessageRecord
    <3>2. digest.start \in Nat /\ digest.length \in Nat /\ digest.bytes \in Seq(Byte)
      BY <3>1 DEF DigestRecord
    <3>3. /\ digest.start + digest.length <= Len(packet[p].bytes)
          /\ Len(digest.bytes) = digest.length
          /\ digest.start >= HeaderSize /\ ~misplaced[p] =>
                digest.bytes = SubSeq(packet[p].bytes, digest.start + 1,
                                      digest.start + digest.length)
      BY <2>3 DEF Hashed
    <3> HIDE DEF digest
    <3>4. ASSUME digest.start >= HeaderSize, ~misplaced'[p]
          PROVE  digest.bytes = SubSeq(bytes, digest.start + 1, digest.start + digest.length)
      <4>1. ~misplaced[p] /\ FixedHeader(p) = 0
        BY <1>1, <1>3, <3>4
      <4>2. digest.bytes = SubSeq(packet[p].bytes, digest.start + 1, digest.start + digest.length)
        BY <3>3, <3>4, <4>1
      <4> DEFINE a == digest.start + 1
                 b == digest.start + digest.length
      <4>3. /\ packet[p].bytes \in Seq(Byte) /\ Len(packet[p].bytes) \in Nat
            /\ a \in Nat /\ b \in Nat /\ a > HeaderSize /\ b <= Len(packet[p].bytes)
        <5>1. packet[p].bytes \in Seq(Byte) /\ Len(packet[p].bytes) \in Nat
          BY <1>4 DEF PacketRecord
        <5>2. QED BY ONLY <3>2, <3>3, <3>4, <5>1 DEF HeaderSize
      <4> HIDE DEF a, b
      <4>4. \A i \in a..b : bytes[i] = packet[p].bytes[i]
        <5>1. \A i \in a..b : i \in (HeaderSize + 1)..Len(packet[p].bytes)
          BY ONLY <4>3 DEF HeaderSize
        <5>2. QED BY <4>1, <5>1
      <4>5. SubSeq(packet[p].bytes, a, b) = SubSeq(bytes, a, b)
        BY <4>3, <4>4, SubSeqEqual
      <4>6. QED BY <4>2, <4>5 DEF a, b
    <3>5. QED BY <1>5, <3>3, <3>4 DEF Hashed, digest
  <2>5. QED BY <1>2, <2>2, <2>3, <2>4
<1>10. QED BY <1>7, <1>8, <1>9 DEF IInv

LEMMA MakingKeepsIInv ==
    ASSUME IInv, NEW m \in Message, Making(m)
    PROVE  IInv'
<1>1. NoPacket \notin Packet /\ NoSigner \notin Signer
  BY InputAssumption
<1>2. /\ message \in [Message -> MessageRecord \cup {NoMessage}]
      /\ interestImpl \in BOOLEAN
  BY DEF IInv, ReceivedTypeOK
<1>3. ASSUME NEW type \in Interface, NEW interface \in Interface \cup {"NONE"}
      PROVE  New(type, interface) \in MessageRecord
  BY DEF New, MessageRecord, ValidationRecord, NoValidation, NoCode, NoRegion, Unset,
         RegionRecord, Byte
<1>4. ASSUME NEW type \in {"Interest", "ContentObject"},
             message' = [message EXCEPT ![m] =
                [New(type, type) EXCEPT !.named = TRUE, !.created = TRUE]],
             UNCHANGED <<packet, interestImpl, misplaced>>
      PROVE  IInv'
  <2> DEFINE new == New(type, type)
             msg == [new EXCEPT !.named = TRUE, !.created = TRUE]
  <2>1. /\ new \in MessageRecord
        /\ new.type = type /\ new.interface = type
        /\ new.accepted.bits = NoSigner /\ new.digest = NoDigest
    BY <1>3 DEF New, Interface, NoValidation
  <2>2. message' = [message EXCEPT ![m] = msg]
    BY <1>4
  <2> HIDE DEF new
  <2>3. /\ msg \in MessageRecord
        /\ msg.type = type /\ msg.interface = type
        /\ msg.accepted.bits = NoSigner /\ msg.digest = NoDigest
    BY <2>1 DEF MessageRecord
  <2> HIDE DEF msg
  <2>4. Served(msg, interestImpl') /\ Signed(msg) /\ Hashed(msg, packet, misplaced)
    BY <2>3 DEF Served, Signed, Hashed
  <2>5. QED BY <1>4, <2>2, <2>3, <2>4, PutMessage, PacketsStay
<1>5. CASE CreateInterest(m)
  BY <1>4, <1>5 DEF CreateInterest
<1>6. CASE CreateContentObject(m)
  BY <1>4, <1>6 DEF CreateContentObject
<1>7. ASSUME NEW interest \in Message, NEW code \in ReturnCode,
             CreateInterestReturn(m, interest, code)
      PROVE  IInv'
  <2> DEFINE old == message[interest]
             msg == [old EXCEPT !.type = "InterestReturn", !.interface = "InterestReturn",
                                !.code = code, !.created = TRUE, !.digest = NoDigest]
  <2>1. /\ interest \in Live /\ interestImpl' = TRUE
        /\ message' = [message EXCEPT ![m] = msg]
        /\ UNCHANGED <<packet, misplaced>>
    BY <1>7 DEF CreateInterestReturn
  <2>2. old \in MessageRecord /\ Signed(old) /\ code \in Byte
    BY <1>2, <2>1, InputAssumption DEF Live, IInv
  <2> HIDE DEF old
  <2>3. /\ msg \in MessageRecord
        /\ msg.type = "InterestReturn" /\ msg.interface = "InterestReturn"
        /\ msg.validation = old.validation /\ msg.accepted = old.accepted
        /\ msg.digest = NoDigest
    BY <2>2 DEF MessageRecord, Interface
  <2> HIDE DEF msg
  <2>4. Served(msg, interestImpl') /\ Signed(msg) /\ Hashed(msg, packet, misplaced)
    BY <2>1, <2>2, <2>3 DEF Served, Signed, Hashed
  <2>5. QED BY <2>1, <2>3, <2>4, PutMessage, PacketsStay
<1>8. ASSUME NEW p \in Packet, NEW type \in DOMAIN TypeByte, FromWireFormat(m, p, type)
      PROVE  IInv'
  <2> DEFINE new == New(type, "NONE")
             msg == [new EXCEPT !.wire = p]
  <2>1. /\ new \in MessageRecord
        /\ new.type = type /\ new.interface = "NONE" /\ new.created = FALSE
        /\ new.accepted.bits = NoSigner /\ new.digest = NoDigest
    BY <1>3 DEF New, Interface, NoValidation, TypeByte
  <2>2. message' = [message EXCEPT ![m] = msg] /\ UNCHANGED <<packet, interestImpl, misplaced>>
    BY <1>8 DEF FromWireFormat
  <2> HIDE DEF new
  <2>3. /\ msg \in MessageRecord
        /\ msg.interface = "NONE" /\ msg.created = FALSE
        /\ msg.accepted.bits = NoSigner /\ msg.digest = NoDigest
    BY <2>1 DEF MessageRecord
  <2> HIDE DEF msg
  <2>4. Served(msg, interestImpl') /\ Signed(msg) /\ Hashed(msg, packet, misplaced)
    BY <2>3 DEF Served, Signed, Hashed
  <2>5. QED BY <2>2, <2>3, <2>4, PutMessage, PacketsStay
<1>9. QED BY <1>5, <1>6, <1>7, <1>8 DEF Making

LEMMA DecodeKeepsIInv ==
    ASSUME IInv, NEW m \in Message, Decode(m)
    PROVE  IInv'
<1> DEFINE old == message[m]
           p == old.wire
           signer == packet[p].signer
           length == Len(packet[p].bytes) - HeaderSize
           code == packet[p].bytes[RETURNCODE + 1]
           parsed == [old EXCEPT !.named = TRUE, !.code = code,
                        !.region["ContentObjectHash"] = [start |-> HeaderSize, length |-> length]]
           signed == [parsed EXCEPT
                        !.region["Protected"] = [start |-> HeaderSize,
                                                 length |-> MessageLength + AlgorithmLength],
                        !.validation = [suite |-> "RSA_SHA256", keyId |-> signer,
                                        locator |-> signer, bits |-> signer]]
           msg == IF signer = NoSigner THEN parsed ELSE signed
<1>1. /\ old \in MessageRecord /\ p \in Packet /\ m \in Live
      /\ old.validation = NoValidation
      /\ Served(old, interestImpl) /\ Signed(old) /\ Hashed(old, packet, misplaced)
  <2>1. m \in Live /\ p # NoPacket /\ old.validation = NoValidation
    BY DEF Decode, HasWire
  <2>2. old \in MessageRecord
    BY <2>1 DEF IInv, ReceivedTypeOK, Live
  <2>3. p \in Packet
    BY <2>1, <2>2 DEF MessageRecord
  <2>4. QED BY <2>1, <2>2, <2>3 DEF IInv
<1>2. message' = [message EXCEPT ![m] = msg] /\ UNCHANGED <<packet, interestImpl, misplaced>>
  BY DEF Decode, Decoded
<1>3. packet[p] \in PacketRecord /\ Len(packet[p].bytes) >= HeaderSize
  BY <1>1 DEF IInv, ReceivedTypeOK, Intact
<1>4. signer \in Signer \cup {NoSigner} /\ length \in Nat /\ code \in Byte
  <2>1. packet[p].bytes \in Seq(Byte) /\ signer \in Signer \cup {NoSigner}
    BY <1>3 DEF PacketRecord
  <2> DEFINE bytes == packet[p].bytes
  <2>2. Len(bytes) \in Nat /\ Len(bytes) >= 8
    BY <1>3, <2>1 DEF HeaderSize
  <2> HIDE DEF bytes
  <2>3. bytes \in Seq(Byte)
    BY <2>1 DEF bytes
  <2>4. bytes[6] \in Byte /\ Len(bytes) - 8 \in Nat
    BY <2>2, <2>3
  <2>5. QED BY <2>1, <2>4 DEF bytes, HeaderSize, RETURNCODE
<1> HIDE DEF old, p, signer, length, code
<1>5. /\ parsed \in MessageRecord
      /\ parsed.type = old.type /\ parsed.interface = old.interface
      /\ parsed.created = old.created /\ parsed.wire = old.wire
      /\ parsed.digest = old.digest /\ parsed.accepted = old.accepted
      /\ parsed.validation = old.validation
  <2>1. [start |-> HeaderSize, length |-> length] \in RegionRecord
    BY <1>4 DEF RegionRecord, HeaderSize
  <2> DEFINE region == [old.region EXCEPT !["ContentObjectHash"] =
                          [start |-> HeaderSize, length |-> length]]
  <2>2. region \in [Region -> RegionRecord]
    BY <1>1, <2>1 DEF MessageRecord
  <2>3. parsed = [old EXCEPT !.named = TRUE, !.code = code, !.region = region]
    OBVIOUS
  <2> HIDE DEF parsed, region
  <2>4. QED BY <1>1, <1>4, <2>2, <2>3 DEF MessageRecord
<1> HIDE DEF parsed
<1>6. /\ signed \in MessageRecord
      /\ signed.type = old.type /\ signed.interface = old.interface
      /\ signed.created = old.created /\ signed.wire = old.wire
      /\ signed.digest = old.digest /\ signed.accepted = old.accepted
  <2> DEFINE extent == [start |-> HeaderSize, length |-> MessageLength + AlgorithmLength]
             validation == [suite |-> "RSA_SHA256", keyId |-> signer,
                            locator |-> signer, bits |-> signer]
             region == [parsed.region EXCEPT !["Protected"] = extent]
  <2>1. extent \in RegionRecord /\ validation \in ValidationRecord
    BY <1>4, InputAssumption DEF RegionRecord, ValidationRecord, HeaderSize
  <2> HIDE DEF extent, validation
  <2>2. region \in [Region -> RegionRecord]
    BY <1>5, <2>1 DEF MessageRecord
  <2>3. signed = [parsed EXCEPT !.region = region, !.validation = validation]
    BY DEF extent, validation
  <2> HIDE DEF signed, region
  <2>4. QED BY <1>5, <2>1, <2>2, <2>3 DEF MessageRecord
<1> HIDE DEF signed
<1>7. old.accepted.bits = NoSigner
  BY <1>1 DEF Signed, NoValidation
<1>8. /\ msg \in MessageRecord
      /\ msg.type = old.type /\ msg.interface = old.interface
      /\ msg.created = old.created /\ msg.wire = old.wire
      /\ msg.digest = old.digest /\ msg.accepted = old.accepted
  BY <1>5, <1>6
<1> HIDE DEF msg
<1>9. Served(msg, interestImpl') /\ Signed(msg) /\ Hashed(msg, packet, misplaced)
  BY <1>1, <1>2, <1>7, <1>8 DEF Served, Signed, Hashed
<1>10. QED BY <1>2, <1>8, <1>9, PutMessage, PacketsStay

LEMMA LiveMessage ==
    ASSUME IInv, NEW m \in Live
    PROVE  /\ m \in Message /\ message[m] \in MessageRecord
           /\ Served(message[m], interestImpl) /\ Signed(message[m])
           /\ Hashed(message[m], packet, misplaced)
BY DEF IInv, ReceivedTypeOK, Live

LEMMA HashKeepsIInv ==
    ASSUME IInv, NEW m \in Message, NEW region \in Region, HashRegion(m, region)
    PROVE  IInv'
<1> DEFINE old == message[m]
           p == old.wire
           start == old.region[region].start
           length == old.region[region].length
           hashed == IF IsBuffer(p) THEN SubSeq(packet[p].bytes, start + 1, start + length)
                     ELSE HashedOfPieces(packet[p].bytes, packet[p].pieces, start, length)
           digest == IF Unset \in {start, length} THEN NoDigest
                     ELSE IF start + length > Len(packet[p].bytes) - packet[p].position THEN NoDigest
                     ELSE [start |-> start, length |-> length, bytes |-> hashed]
           msg == [old EXCEPT !.digest = digest]
<1>1. /\ m \in Live /\ p # NoPacket
      /\ message' = [message EXCEPT ![m] = msg]
      /\ packet' = IF digest # NoDigest THEN [packet EXCEPT ![p].position = 0] ELSE packet
      /\ UNCHANGED <<interestImpl, misplaced>>
  BY DEF HashRegion, HasWire
<1>2. /\ old \in MessageRecord /\ Served(old, interestImpl) /\ Signed(old)
  BY <1>1, LiveMessage
<1>3. p \in Packet
  BY <1>1, <1>2 DEF MessageRecord
<1>4. packet[p] \in PacketRecord /\ Intact(packet[p])
  BY <1>3 DEF IInv, ReceivedTypeOK
<1>5. SamePackets
  BY <1>1, <1>3, PositionMoved, PacketsStay
<1>6. start \in Nat \cup {Unset} /\ length \in Nat \cup {Unset}
  <2>1. old.region[region] \in RegionRecord
    BY <1>2 DEF MessageRecord
  <2>2. QED BY <2>1 DEF RegionRecord
<1>7. /\ packet[p].bytes \in Seq(Byte) /\ packet[p].pieces \in Seq(Nat)
      /\ packet[p].position \in Nat /\ Len(packet[p].bytes) \in Nat
  BY <1>4 DEF PacketRecord
<1>8. ASSUME digest # NoDigest
      PROVE  /\ digest \in DigestRecord
             /\ digest.start + digest.length <= Len(packet[p].bytes)
             /\ Len(digest.bytes) = digest.length
             /\ digest.bytes = SubSeq(packet[p].bytes, digest.start + 1,
                                      digest.start + digest.length)
  <2>1. /\ Unset \notin {start, length}
        /\ ~(start + length > Len(packet[p].bytes) - packet[p].position)
        /\ digest = [start |-> start, length |-> length, bytes |-> hashed]
    BY <1>8
  <2> HIDE DEF digest, hashed, start, length
  <2>2. start \in Nat /\ length \in Nat
    BY <1>6, <2>1
  <2>3. start + length <= Len(packet[p].bytes)
    BY ONLY <1>7, <2>1, <2>2
  <2> DEFINE region_ == SubSeq(packet[p].bytes, start + 1, start + length)
  <2>4. hashed = region_
    <3>1. CASE IsBuffer(p)
      BY <3>1 DEF hashed
    <3>2. CASE ~IsBuffer(p)
      <4>1. PICK offset : Covers(offset, packet[p].pieces, packet[p].bytes)
        BY <1>4, <3>2 DEF Intact, IsBuffer
      <4>2. HashedOfPieces(packet[p].bytes, packet[p].pieces, start, length) = region_
        BY <1>7, <2>2, <2>3, <4>1, HashedOfPiecesIsRegion
      <4>3. QED BY <3>2, <4>2 DEF hashed
    <3>3. QED BY <3>1, <3>2
  <2>5. region_ \in Seq(Byte) /\ Len(region_) = length
    <3> DEFINE bytes == packet[p].bytes
    <3>1. bytes \in Seq(Byte) /\ Len(bytes) \in Nat /\ start + length <= Len(bytes)
      BY <1>7, <2>3
    <3> HIDE DEF bytes
    <3>2. SubSeq(bytes, start + 1, start + length) \in Seq(Byte)
          /\ Len(SubSeq(bytes, start + 1, start + length)) = length
      BY ONLY <2>2, <3>1
    <3>3. QED BY <3>2 DEF bytes
  <2> HIDE DEF region_
  <2>6. digest = [start |-> start, length |-> length, bytes |-> region_]
    BY <2>1, <2>4
  <2>7. /\ digest.start = start /\ digest.length = length /\ digest.bytes = region_
        /\ digest \in DigestRecord
    BY <2>2, <2>5, <2>6 DEF DigestRecord
  <2>8. QED BY <2>3, <2>5, <2>7 DEF region_
<1> HIDE DEF digest, old
<1>9. /\ msg \in MessageRecord
      /\ msg.type = old.type /\ msg.interface = old.interface
      /\ msg.created = old.created /\ msg.wire = old.wire
      /\ msg.digest = digest /\ msg.accepted = old.accepted
      /\ msg.validation = old.validation
  BY <1>2, <1>8 DEF MessageRecord
<1> HIDE DEF msg
<1>10. Served(msg, interestImpl') /\ Signed(msg)
  BY <1>1, <1>2, <1>9 DEF Served, Signed
<1>11. Hashed(msg, packet, misplaced)
  BY <1>3, <1>8, <1>9 DEF Hashed
<1>12. QED BY <1>1, <1>5, <1>9, <1>10, <1>11, PutMessage

LEMMA UsingKeepsIInv ==
    ASSUME IInv, NEW m \in Message, Using(m)
    PROVE  IInv'
<1> DEFINE old == message[m]
<1>1. NoPacket \notin Packet /\ message \in [Message -> MessageRecord \cup {NoMessage}]
  BY InputAssumption DEF IInv, ReceivedTypeOK
<1>2. ASSUME m \in Live
      PROVE  /\ old \in MessageRecord
             /\ Served(old, interestImpl) /\ Signed(old) /\ Hashed(old, packet, misplaced)
  BY <1>2, LiveMessage
<1>3. ASSUME HasWire(m)
      PROVE  /\ m \in Live /\ message[m].wire \in Packet
             /\ packet[message[m].wire] \in PacketRecord
             /\ packet[message[m].wire].bytes \in Seq(Byte)
  <2>1. m \in Live /\ message[m].wire # NoPacket
    BY <1>3 DEF HasWire
  <2>2. message[m].wire \in Packet
    BY <1>2, <2>1 DEF MessageRecord
  <2>3. packet[message[m].wire] \in PacketRecord
    BY <2>2 DEF IInv, ReceivedTypeOK
  <2>4. QED BY <2>1, <2>2, <2>3 DEF PacketRecord
<1>4. ASSUME m \in Live, message' = [message EXCEPT ![m] = Cached(old)],
             UNCHANGED <<packet, interestImpl, misplaced>>
      PROVE  IInv'
  <2> DEFINE msg == Cached(old)
             interface == IF old.interface = "NONE" THEN old.type ELSE old.interface
  <2>1. msg = [old EXCEPT !.interface = interface]
    BY DEF Cached
  <2>2. interface \in Interface /\ interface = old.type
    BY <1>2, <1>4 DEF MessageRecord, Served
  <2> HIDE DEF msg, interface, old
  <2>3. /\ msg \in MessageRecord
        /\ msg.type = old.type /\ msg.interface = old.type
        /\ msg.created = old.created /\ msg.wire = old.wire
        /\ msg.digest = old.digest /\ msg.accepted = old.accepted
        /\ msg.validation = old.validation
    BY <1>2, <1>4, <2>1, <2>2 DEF MessageRecord
  <2>4. Served(msg, interestImpl') /\ Signed(msg) /\ Hashed(msg, packet, misplaced)
    BY <1>2, <1>4, <2>3 DEF Served, Signed, Hashed
  <2>5. QED BY <1>4, <2>3, <2>4, PutMessage, PacketsStay DEF msg
<1>5. CASE UseAsReturn(m)
  BY <1>4, <1>5 DEF UseAsReturn
<1>6. CASE UseAsContentObject(m)
  BY <1>4, <1>6 DEF UseAsContentObject
<1>7. CASE Release(m)
  <2>1. /\ message' = [message EXCEPT ![m] = NoMessage]
        /\ UNCHANGED <<packet, interestImpl, misplaced>>
    BY <1>7 DEF Release
  <2>2. message' \in [Message -> MessageRecord \cup {NoMessage}]
    BY <1>1, <2>1
  <2>3. \A k \in Live' : k \in Live /\ message'[k] = message[k]
    BY <1>1, <2>1 DEF Live
  <2>4. QED BY <2>1, <2>2, <2>3 DEF IInv, ReceivedTypeOK
<1>8. CASE WriteToFile(m)
  <2>1. /\ HasWire(m) /\ packet' = [packet EXCEPT ![message[m].wire].position = 0]
        /\ UNCHANGED <<message, interestImpl, misplaced>>
    BY <1>8 DEF WriteToFile
  <2>2. QED BY <1>3, <2>1, PositionMoved, Reading
<1>9. ASSUME NEW p \in Packet, PutWireFormat(m, p) PROVE IInv'
  <2> DEFINE msg == [old EXCEPT !.wire = p]
  <2>1. /\ m \in Live /\ old.wire = NoPacket
        /\ message' = [message EXCEPT ![m] = msg]
        /\ UNCHANGED <<packet, interestImpl, misplaced>>
    BY <1>9 DEF PutWireFormat
  <2> HIDE DEF old
  <2>2. /\ msg \in MessageRecord
        /\ msg.type = old.type /\ msg.interface = old.interface
        /\ msg.created = old.created
        /\ msg.digest = old.digest /\ msg.accepted = old.accepted
        /\ msg.validation = old.validation
    BY <1>2, <2>1 DEF MessageRecord
  <2> HIDE DEF msg
  <2>3. msg.digest = NoDigest
    BY <1>1, <1>2, <2>1, <2>2 DEF Hashed
  <2>4. Served(msg, interestImpl') /\ Signed(msg) /\ Hashed(msg, packet, misplaced)
    BY <1>2, <2>1, <2>2, <2>3 DEF Served, Signed, Hashed
  <2>5. QED BY <2>1, <2>2, <2>4, PutMessage, PacketsStay
<1>10. ASSUME NEW hop \in HopLimit, SetHopLimit(m, hop) PROVE IInv'
  <2> DEFINE p == message[m].wire
             bytes == [packet[p].bytes EXCEPT ![FixedHeader(p) + HOPLIMIT + 1] = hop]
  <2>1. HasWire(m) /\ WritingHeader(p, bytes)
    BY <1>10 DEF SetHopLimit
  <2>2. hop \in Byte /\ p \in Packet /\ packet[p].bytes \in Seq(Byte)
    BY <1>3, <2>1, InputAssumption
  <2>3. bytes \in Seq(Byte) /\ Len(bytes) = Len(packet[p].bytes)
    BY <2>2, ByteReplaced
  <2>4. ASSUME FixedHeader(p) = 0
        PROVE  \A i \in (HeaderSize + 1)..Len(bytes) : bytes[i] = packet[p].bytes[i]
    BY <2>2, <2>3, <2>4 DEF HeaderSize, HOPLIMIT
  <2>5. QED BY <2>1, <2>2, <2>3, <2>4, HeaderWritten
<1>11. ASSUME NEW code \in ReturnCode, ConvertInterestToInterestReturn(m, code) PROVE IInv'
  <2> DEFINE p == message[m].wire
             coded == [packet[p].bytes EXCEPT ![FixedHeader(p) + RETURNCODE + 1] = code]
             bytes == [coded EXCEPT ![FixedHeader(p) + PACKETTYPE + 1] = TypeByte["InterestReturn"]]
  <2>1. HasWire(m) /\ WritingHeader(p, bytes)
    BY <1>11 DEF ConvertInterestToInterestReturn
  <2>2. /\ code \in Byte /\ p \in Packet /\ packet[p].bytes \in Seq(Byte)
        /\ TypeByte["InterestReturn"] \in Byte
    BY <1>3, <2>1, InputAssumption DEF TypeByte, Byte
  <2>3. coded \in Seq(Byte) /\ Len(coded) = Len(packet[p].bytes)
    BY <2>2, ByteReplaced
  <2>4. bytes \in Seq(Byte) /\ Len(bytes) = Len(coded)
    BY <2>2, <2>3, ByteReplaced
  <2>5. ASSUME FixedHeader(p) = 0, NEW i \in (HeaderSize + 1)..Len(bytes)
        PROVE  bytes[i] = packet[p].bytes[i]
    <3>1. coded[i] = packet[p].bytes[i]
      BY <2>2, <2>3, <2>4, <2>5 DEF HeaderSize, RETURNCODE
    <3> HIDE DEF coded
    <3>2. bytes[i] = coded[i]
      BY <2>3, <2>4, <2>5 DEF HeaderSize, PACKETTYPE
    <3>3. QED BY <3>1, <3>2
  <2> HIDE DEF bytes
  <2>6. QED BY <2>1, <2>2, <2>3, <2>4, <2>5, HeaderWritten
<1>12. ASSUME NEW region \in Region, NEW extent \in RegionRecord, m \in Live,
              message' = [message EXCEPT ![m].region[region] = extent],
              UNCHANGED <<packet, interestImpl, misplaced>>
       PROVE  IInv'
  <2> DEFINE regions == [old.region EXCEPT ![region] = extent]
             msg == [old EXCEPT !.region = regions]
  <2>1. message' = [message EXCEPT ![m] = msg]
    BY <1>12
  <2>2. regions \in [Region -> RegionRecord]
    BY <1>2, <1>12 DEF MessageRecord
  <2> HIDE DEF old, regions
  <2>3. /\ msg \in MessageRecord
        /\ msg.type = old.type /\ msg.interface = old.interface
        /\ msg.created = old.created /\ msg.wire = old.wire
        /\ msg.digest = old.digest /\ msg.accepted = old.accepted
        /\ msg.validation = old.validation
    BY <1>2, <1>12, <2>2 DEF MessageRecord
  <2> HIDE DEF msg
  <2>4. Served(msg, interestImpl') /\ Signed(msg) /\ Hashed(msg, packet, misplaced)
    BY <1>2, <1>12, <2>3 DEF Served, Signed, Hashed
  <2>5. QED BY <1>12, <2>1, <2>3, <2>4, PutMessage, PacketsStay
<1>13. ASSUME NEW region \in Region, NEW n \in Nat, m \in Live
       PROVE  /\ [old.region[region] EXCEPT !.start = n] \in RegionRecord
              /\ [old.region[region] EXCEPT !.length = n] \in RegionRecord
  <2>1. old.region[region] \in RegionRecord
    BY <1>2, <1>13 DEF MessageRecord
  <2>2. QED BY <2>1 DEF RegionRecord
<1>14. ASSUME NEW region \in Region, NEW n \in RegionStart, SetRegionStart(m, region, n)
       PROVE  IInv'
  <2>1. n \in Nat
    BY InputAssumption
  <2>2. /\ m \in Live /\ UNCHANGED <<packet, interestImpl, misplaced>>
        /\ message' = [message EXCEPT ![m].region[region] =
                          [old.region[region] EXCEPT !.start = n]]
    BY <1>14 DEF SetRegionStart
  <2>3. QED BY <1>12, <1>13, <2>1, <2>2
<1>15. ASSUME NEW region \in Region, NEW n \in RegionLength, SetRegionLength(m, region, n)
       PROVE  IInv'
  <2>1. n \in Nat
    BY InputAssumption
  <2>2. /\ m \in Live /\ UNCHANGED <<packet, interestImpl, misplaced>>
        /\ message' = [message EXCEPT ![m].region[region] =
                          [old.region[region] EXCEPT !.length = n]]
    BY <1>15 DEF SetRegionLength
  <2>3. QED BY <1>12, <1>13, <2>1, <2>2
<1>16. QED BY <1>5, <1>6, <1>7, <1>8, <1>9, <1>10, <1>11, <1>14, <1>15,
              DecodeKeepsIInv, HashKeepsIInv DEF Using

(* The algorithms and SetSignature fill in what is not there.              *)
LEMMA AlgorithmKeeps ==
    ASSUME NEW v \in ValidationRecord, NEW suite \in Suite \cup {"RSA_SHA256", "HMAC_SHA256"},
           NEW keyId \in Signer \cup {NoSigner}, NEW locator \in Signer \cup {NoSigner}
    PROVE  /\ WithAlgorithm(v, suite, keyId, locator) \in ValidationRecord
           /\ WithAlgorithm(v, suite, keyId, locator).bits = v.bits
           /\ v.keyId # NoSigner => WithAlgorithm(v, suite, keyId, locator).keyId = v.keyId
           /\ v.locator # NoSigner => WithAlgorithm(v, suite, keyId, locator).locator = v.locator
<1> DEFINE key == IF suite = "CRC32C" THEN v.keyId ELSE FirstOf(v.keyId, keyId)
           link == IF suite \in {"RSA_SHA256", "EC_SECP_256K1"} THEN FirstOf(v.locator, locator)
                   ELSE v.locator
<1>1. WithAlgorithm(v, suite, keyId, locator)
        = [v EXCEPT !.suite = suite, !.keyId = key, !.locator = link]
  BY DEF WithAlgorithm
<1>2. /\ key \in Signer \cup {NoSigner} /\ link \in Signer \cup {NoSigner}
      /\ v.keyId # NoSigner => key = v.keyId
      /\ v.locator # NoSigner => link = v.locator
  BY DEF ValidationRecord, FirstOf
<1> HIDE DEF key, link
<1>3. QED BY <1>1, <1>2 DEF ValidationRecord

LEMMA SigningKeepsIInv ==
    ASSUME IInv, NEW m \in Message, Signing(m)
    PROVE  IInv'
<1> DEFINE old == message[m]
<1>1. PICK suite \in Suite, signer \in Signer : \E given \in {signer, NoSigner} :
         \/ SetAlgorithm(m, suite, given, given)
         \/ SetSignature(m, suite, given, given, signer)
  BY DEF Signing
<1>2. PICK given \in {signer, NoSigner} :
         \/ SetAlgorithm(m, suite, given, given)
         \/ SetSignature(m, suite, given, given, signer)
  BY <1>1
<1>3. m \in Live
  BY <1>2 DEF SetAlgorithm, SetSignature
<1>4. /\ old \in MessageRecord /\ old.validation \in ValidationRecord
      /\ Served(old, interestImpl) /\ Signed(old) /\ Hashed(old, packet, misplaced)
  BY <1>3, LiveMessage DEF MessageRecord
<1>5. signer # NoSigner /\ given \in Signer \cup {NoSigner}
  BY InputAssumption
<1>6. CASE SetAlgorithm(m, suite, given, given)
  <2> DEFINE v == WithAlgorithm(old.validation, suite, given, given)
             msg == [old EXCEPT !.validation = v]
  <2>1. message' = [message EXCEPT ![m] = msg] /\ UNCHANGED <<packet, interestImpl, misplaced>>
    BY <1>6 DEF SetAlgorithm
  <2>2. /\ v \in ValidationRecord /\ v.bits = old.validation.bits
        /\ old.validation.keyId # NoSigner => v.keyId = old.validation.keyId
        /\ old.validation.locator # NoSigner => v.locator = old.validation.locator
    BY <1>4, <1>5, AlgorithmKeeps
  <2> HIDE DEF v, old
  <2>3. /\ msg \in MessageRecord
        /\ msg.type = old.type /\ msg.interface = old.interface
        /\ msg.created = old.created /\ msg.wire = old.wire
        /\ msg.digest = old.digest /\ msg.accepted = old.accepted
        /\ msg.validation = v
    BY <1>4, <2>2 DEF MessageRecord
  <2> HIDE DEF msg
  <2>4. Served(msg, interestImpl') /\ Hashed(msg, packet, misplaced)
    BY <1>4, <2>1, <2>3 DEF Served, Hashed
  <2>5. Signed(msg)
    BY <1>4, <2>2, <2>3 DEF Signed
  <2>6. QED BY <2>1, <2>3, <2>4, <2>5, PutMessage, PacketsStay
<1>7. CASE SetSignature(m, suite, given, given, signer)
  <2> DEFINE cached == Cached(old)
             v == WithAlgorithm(cached.validation, suite, given, given)
             put == [v EXCEPT !.bits = FirstOf(v.bits, signer)]
             accepted == IF v.bits = NoSigner THEN [v EXCEPT !.bits = signer] ELSE cached.accepted
             msg == [cached EXCEPT !.validation = put, !.accepted = accepted]
  <2>1. /\ message' = [message EXCEPT ![m] = msg] /\ UNCHANGED <<packet, interestImpl, misplaced>>
        /\ old.type = "ContentObject"
    BY <1>7 DEF SetSignature
  <2>2. /\ cached \in MessageRecord /\ cached.validation = old.validation
        /\ cached.accepted = old.accepted /\ cached.type = old.type
        /\ cached.digest = old.digest /\ cached.wire = old.wire
        /\ cached.interface \in {"NONE", old.type}
    <3> DEFINE interface == IF old.interface = "NONE" THEN old.type ELSE old.interface
    <3>1. cached = [old EXCEPT !.interface = interface]
      BY DEF Cached
    <3>2. interface \in Interface /\ interface = old.type
      BY <1>4 DEF MessageRecord, Served
    <3> HIDE DEF cached, interface, old
    <3>3. QED BY <1>4, <3>1, <3>2 DEF MessageRecord
  <2> HIDE DEF cached, old
  <2>3. /\ v \in ValidationRecord /\ v.bits = old.validation.bits
        /\ old.validation.keyId # NoSigner => v.keyId = old.validation.keyId
        /\ old.validation.locator # NoSigner => v.locator = old.validation.locator
    <3>1. v = WithAlgorithm(old.validation, suite, given, given)
      BY <2>2
    <3> HIDE DEF v
    <3>2. QED BY <1>4, <1>5, <3>1, AlgorithmKeeps
  <2> HIDE DEF v
  <2>4. /\ put \in ValidationRecord
        /\ put.keyId = v.keyId /\ put.locator = v.locator
        /\ put.bits = IF v.bits = NoSigner THEN signer ELSE v.bits
    BY <2>3 DEF ValidationRecord, FirstOf
  <2>5. accepted = IF v.bits = NoSigner THEN put ELSE old.accepted
    BY <2>2 DEF FirstOf
  <2>6. accepted \in ValidationRecord
    BY <1>4, <2>4, <2>5 DEF MessageRecord
  <2> HIDE DEF put, accepted
  <2>7. /\ msg \in MessageRecord
        /\ msg.type = old.type /\ msg.interface = cached.interface
        /\ msg.wire = old.wire /\ msg.digest = old.digest
        /\ msg.accepted = accepted /\ msg.validation = put
    BY <2>2, <2>4, <2>6 DEF MessageRecord
  <2> HIDE DEF msg
  <2>8. Served(msg, interestImpl') /\ Hashed(msg, packet, misplaced)
    BY <1>4, <2>1, <2>2, <2>7 DEF Served, Hashed
  <2>9. Signed(msg)
    <3>1. CASE v.bits = NoSigner
      BY <2>5, <2>7, <3>1 DEF Signed
    <3>2. CASE v.bits # NoSigner
      BY <1>4, <2>3, <2>4, <2>5, <2>7, <3>2 DEF Signed
    <3>3. QED BY <3>1, <3>2
  <2>10. QED BY <2>1, <2>7, <2>8, <2>9, PutMessage, PacketsStay
<1>8. QED BY <1>2, <1>6, <1>7

----------------------------------------------------------------------------
(* IInv holds of every behaviour, for any messages, packets and calls.     *)
THEOREM ReceivedInvariance == ReceivedSpec => []IInv
<1>1. IInv /\ [ReceivedNext]_receivedVars => IInv'
  <2> SUFFICES ASSUME IInv, [ReceivedNext]_receivedVars PROVE IInv'
    OBVIOUS
  <2>1. CASE ReceivedNext
    <3>1. ASSUME NEW p \in Packet, NEW position \in Position, Read(p, position)
          PROVE  IInv'
      <4>1. position \in Nat
        BY InputAssumption
      <4>2. QED BY <3>1, <4>1, PositionMoved, Reading DEF Read
    <3>2. QED BY <2>1, <3>1, MakingKeepsIInv, UsingKeepsIInv, SigningKeepsIInv
              DEF ReceivedNext
  <2>2. CASE UNCHANGED receivedVars
    BY <2>2, PacketsStay, Reading DEF receivedVars
  <2>3. QED BY <2>1, <2>2
<1>2. QED BY <1>1, ReceivedInitial, PTL DEF ReceivedSpec

(* Only an InterestReturn that arrived in a packet, had its return code    *)
(* read, and met none made in the process can be lost to the functions of  *)
(* ccnx_Interest.                                                          *)
THEOREM InterestsServed == ReceivedSpec => []ServedUnlessReceived
<1>1. IInv => ServedUnlessReceived
  <2> SUFFICES ASSUME IInv, NEW m \in Live, message[m].type # "ContentObject"
               PROVE  \/ ServesAsInterest(message[m])
                      \/ /\ ~message[m].created /\ message[m].type = "InterestReturn"
                         /\ message[m].interface # "NONE" /\ ~interestImpl
    BY DEF ServedUnlessReceived
  <2>1. message[m].type \in Interface /\ message[m].created \in BOOLEAN
    BY LiveMessage DEF MessageRecord
  <2>2. QED BY <2>1, LiveMessage DEF Served, ServesAsInterest, InterestTable, Interface
<1>2. QED BY <1>1, ReceivedInvariance, PTL

(* A hash is of the region whole, however the packet is cut, and stays     *)
(* true of it under every header written at the packet's start.            *)
THEOREM HashesAreOfRegions == ReceivedSpec => []HashesStand
<1>1. IInv => HashesStand
  BY LiveMessage DEF HashesStand, Hashed, Wire
<1>2. QED BY <1>1, ReceivedInvariance, PTL

(* No later call replaces a signature that was accepted.                   *)
THEOREM SignaturesStay == ReceivedSpec => []AcceptedSignatureStays
<1>1. IInv => AcceptedSignatureStays
  BY LiveMessage DEF AcceptedSignatureStays, Signed
<1>2. QED BY <1>1, ReceivedInvariance, PTL
=============================================================================
