---------------------------- MODULE MCModemLines ----------------------------
(* Lines shorter than, equal to and longer than a buffer of a few bytes,   *)
(* and enough of them to overrun a ring of two nodes.                      *)
EXTENDS ModemLines

MCLine == UNION {[1 .. n -> Byte \ {NUL}] : n \in 0 .. AT_CMD_MAX_LEN}
=============================================================================
