-------------------------- MODULE MCEncodingBuffer --------------------------
(* Two encoding buffers, one of which is often a slice of the other, over  *)
(* a buffer of two bytes that is read while it is inserted: its entries    *)
(* have two bytes, one or none.                                            *)
EXTENDS EncodingBuffer
CONSTANTS w2, l1, l2
MCLengthOf == [b \in {w2} |-> 2]
ListSymmetry == Permutations({l1, l2})
=============================================================================
