----------------------------- MODULE MCMessages -----------------------------
(* Two messages that share a name, two payloads and a packet.              *)
EXTENDS Messages
CONSTANTS d1, d2, n1, p1, p2, w1, h1, h2, g1
MCObject == {n1, p1, p2, w1, h1, h2, g1}
MCKindOf ==
    [o \in MCObject |-> CASE o = n1 -> "NAME" [] o = w1 -> "IOVEC"
                          [] o \in {h1, h2} -> "OBJECT" [] OTHER -> "BUFFER"]
MCContentOf == [o \in MCObject |-> IF o = g1 THEN "hash group" ELSE o]
MCSymmetry == Permutations({d1, d2}) \cup Permutations({p1, p2}) \cup Permutations({h1, h2})
=============================================================================
