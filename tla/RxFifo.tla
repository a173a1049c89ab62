------------------------------- MODULE RxFifo -------------------------------
(***************************************************************************)
(* What an interrupt-driven receive buffer promises its reader: a bounded  *)
(* first-in first-out queue that, when it is full, gives up its OLDEST     *)
(* element to make room for the newest.  A character is identified by its  *)
(* arrival number, so order, loss and duplication are all visible in the   *)
(* contents of the queue.                                                  *)
(***************************************************************************)
EXTENDS Naturals, Sequences

CONSTANT Capacity      \* the most characters the queue can hold

VARIABLES q,           \* characters received and neither read nor given up
          last,        \* number of the last character that arrived
          out          \* what the current (or last) read call has copied out

vars == <<q, last, out>>

Init == q = <<>> /\ last = 0 /\ out = <<>>

Put ==
  /\ last' = last + 1
  /\ q' = Append(IF Len(q) = Capacity THEN Tail(q) ELSE q, last')
  /\ UNCHANGED out

StartRead == out' = <<>> /\ UNCHANGED <<q, last>>

Get ==
  /\ q # <<>>
  /\ out' = Append(out, Head(q))
  /\ q' = Tail(q)
  /\ UNCHANGED last

Next == Put \/ StartRead \/ Get

Spec == Init /\ [][Next]_vars
=============================================================================
