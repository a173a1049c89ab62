----------------------------- MODULE MCSerialRx -----------------------------
(* SerialRx on a buffer of a few slots, small enough to wrap several times. *)
EXTENDS SerialRx
=============================================================================
