-------------------------- MODULE MCNetworkBuffer --------------------------
(* A head of two bytes and further blocks of two: an array of three bytes  *)
(* spans two or three blocks, an integer of two fits a block, straddles    *)
(* two of them or freezes a tail that is one byte short.                   *)
EXTENDS NetworkBufferIoVec
CONSTANTS b1, b2
MCByte == {b1, b2}
MCBlockCapacity == {2}
MCIntSizes == {2}
=============================================================================
