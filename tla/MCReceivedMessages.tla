------------------------- MODULE MCReceivedMessages -------------------------
(* Two messages and a packet of a header and four bytes: in one piece, in  *)
(* pieces that cut the regions, or with the header in two pieces.          *)
EXTENDS ReceivedMessages, TLC
CONSTANTS m1, m2, w1, s1, s2
MCContent(type, code, pieces, signer) ==
    [bytes  |-> <<1, TypeByte[type], 0, 12, 9, code, 0, 8, 21, 22, 23, 24>>,
     pieces |-> pieces, signer |-> signer]
MCPacketContent ==
    {MCContent("InterestReturn", 1, <<>>, NoSigner),
     MCContent("Interest", 0, <<>>, NoSigner),
     MCContent("Interest", 0, <<9, 0, 2, 1>>, NoSigner),
     MCContent("Interest", 0, <<4, 8>>, NoSigner),
     MCContent("ContentObject", 0, <<>>, NoSigner),
     MCContent("ContentObject", 0, <<>>, s1),
     MCContent("ContentObject", 0, <<8, 2, 2>>, s1)}
MCSymmetry == Permutations({m1, m2})
=============================================================================
