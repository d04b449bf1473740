----------------------- MODULE MCNetworkBufferClient -----------------------
(* The buffer alone, without reference counts and IoVecs: any client, or   *)
(* the codec, against what the header says a client may do.                *)
EXTENDS NetworkBuffer
CONSTANTS b1, b2
MCByte == {b1, b2}
MCBlockCapacity == {2}
MCIntSizes == {2}
=============================================================================
