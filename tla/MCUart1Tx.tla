------------------------------ MODULE MCUart1Tx ------------------------------
(* UART1 with a small pool of nodes, used by two threads that take turns   *)
(* or by one that never pauses.                                            *)
EXTENDS Uart1Tx

CONSTANTS w1, w2

MCAlone == {[callers |-> {w1}, window |-> MaxWrites]}
MCUses  == MCAlone \cup {[callers |-> {w1, w2}, window |-> 1]}
=============================================================================
