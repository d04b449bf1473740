----------------------------- MODULE FlatBuffer -----------------------------
(***************************************************************************)
(* What ccnxCodec_NetworkBuffer.h promises of a network buffer: although   *)
(* the memory is a scatter/gather list of blocks, the user sees one        *)
(* linear array of bytes with a cursor.  A put stores its bytes at the     *)
(* cursor, in order, and touches no other byte; setting the position moves *)
(* the cursor within the written bytes; finalizing throws away everything  *)
(* after the cursor.                                                       *)
(*                                                                         *)
(* A put may store its bytes in several pieces (the blocks of the detailed *)
(* specification): `pending' holds the bytes that a put in progress has    *)
(* still to store.                                                         *)
(***************************************************************************)
EXTENDS Integers, Sequences

CONSTANTS Byte, MaxLimit

VARIABLES content, extent, cursor, pending, finalized

flatVars == <<content, extent, cursor, pending, finalized>>

FlatInit ==
    /\ extent \in 0..MaxLimit
    /\ content \in [0..(extent - 1) -> Byte]
    /\ cursor = 0
    /\ pending = <<>>
    /\ finalized = FALSE

(* A put is called: its bytes are the next ones to store. *)
Request ==
    /\ pending = <<>>
    /\ pending' \in Seq(Byte)
    /\ cursor + Len(pending') <= MaxLimit
    /\ UNCHANGED <<content, extent, cursor, finalized>>

(* The first n pending bytes are stored at the cursor. *)
Store(n) ==
    /\ pending' = SubSeq(pending, n + 1, Len(pending))
    /\ cursor' = cursor + n
    /\ extent' = IF cursor + n > extent THEN cursor + n ELSE extent
    /\ content' = [p \in 0..(extent' - 1) |->
                     IF p \in cursor..(cursor + n - 1)
                     THEN pending[p - cursor + 1] ELSE content[p]]
    /\ UNCHANGED finalized

SetCursor ==
    /\ pending = <<>>
    /\ cursor' \in 0..extent
    /\ UNCHANGED <<content, extent, pending, finalized>>

Truncate ==
    /\ pending = <<>>
    /\ extent' = cursor
    /\ content' = [p \in 0..(cursor - 1) |-> content[p]]
    /\ finalized' = TRUE
    /\ UNCHANGED <<cursor, pending>>

FlatNext ==
    \/ Request
    \/ \E n \in 1..Len(pending) : Store(n)
    \/ SetCursor
    \/ Truncate

FlatSpec == FlatInit /\ [][FlatNext]_flatVars
=============================================================================
