-------------------------- MODULE MCTlvDictionary --------------------------
(* Two dictionaries that share two buffers and a crypto hash, with two     *)
(* keys and a list.                                                        *)
EXTENDS TlvDictionary
CONSTANTS d1, d2, b1, b2, hash
MCKindOf == [o \in {b1, b2, hash} |-> IF o = hash THEN "OBJECT" ELSE "BUFFER"]
MCContentOf == [o \in {b1, b2, hash} |-> o]
MCSymmetry == Permutations({d1, d2}) \cup Permutations({b1, b2})
=============================================================================
