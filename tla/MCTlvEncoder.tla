---------------------------- MODULE MCTlvEncoder ----------------------------
(* A client of the TLV encoder with one type, whose two bytes differ, and  *)
(* values of at most a byte; a byte has four values.                       *)
EXTENDS TlvEncoderClient

MCTypes == {6}
MCOctets == {0, 3}
=============================================================================
