----------------------------- MODULE ModemLines -----------------------------
(***************************************************************************)
(* MC323A_RX from end to end: AtRx cuts the modem's bytes into lines in    *)
(* the interrupt, AtRing hands each line to AT_thread_entry.  The byte     *)
(* that ends a line and the hand-over of the line are one step, as they    *)
(* are one call of MC323A_RX.                                              *)
(***************************************************************************)
EXTENDS AtRing, AtRx, FiniteSets

\* A line is a sequence of characters as long as the buffer or shorter; a '\0' at
\* its beginning makes it empty.
ASSUME LineAssumption == \A n \in 0 .. AT_CMD_MAX_LEN : [1 .. n -> Byte \ {NUL}] \subseteq Line

VARIABLE decoded   \* history: what DecodeCommand was shown, until an overrun

mlVars == <<vars, ringVars, decoded>>

MLInit == Init /\ RingInit /\ decoded = <<>>

\* The characters of a node up to its terminator (or its end).
TextOf(n) ==
  LET ends == {i \in 0 .. AT_CMD_MAX_LEN : i = AT_CMD_MAX_LEN \/ n[i] = NUL}
      len  == CHOOSE i \in ends : \A j \in ends : i <= j
  IN  [i \in 1 .. len |-> n[i - 1]]

Interrupt(b) ==
  /\ MC323A_RX(b)
  /\ IF finished' THEN PutLine(TextOf(node')) ELSE UNCHANGED ringVars
  /\ UNCHANGED decoded

Thread ==
  /\ TakeLine \/ Dispatch
  /\ decoded' = IF pc = "clear" /\ ~overrun THEN Append(decoded, Value) ELSE decoded
  /\ UNCHANGED vars

MLNext == Thread \/ \E b \in Byte : Interrupt(b)

\* The thread runs again and again: nothing above it waits in a loop.
MLSpec == MLInit /\ [][MLNext]_mlVars /\ WF_mlVars(Thread)
-----------------------------------------------------------------------------
(* Properties                                                              *)

\* Where the lines of the stream end, and line number k.
LineEnds == {k \in 1 .. Len(stream) : EndsLine(k)}
LineNo(k) == CHOOSE e \in LineEnds : Cardinality({f \in LineEnds : f <= e}) = k

\* No line began with a bare '\n' (there the code looks at Buf[-1]), none was
\* longer than the buffer, and none had a '\0' in it: StrCompare stops there, so
\* that a line that begins with one matches "OK\r", the first of the table.
CleanStream ==
  /\ \A k \in 1 .. Len(stream) : stream[k] # NUL
  /\ \A k \in 1 .. Len(stream) : k - LineStart(k) <= AT_CMD_MAX_LEN
  /\ \A k \in 1 .. Len(stream) : stream[k] = "LF" => EndsLine(k) \/ k - LineStart(k) > 1

\* From the wire to the command table: as long as the ring has not overrun, what
\* AT_thread_entry decodes is the lines the modem sent, each whole, once, in the
\* order of the bytes, whatever the interrupt does between two steps of the
\* thread.
DecodesTheStream ==
  ~overrun /\ CleanStream =>
    /\ Len(decoded) + Len(unread) = Cardinality(LineEnds)
    /\ \A k \in 1 .. Len(decoded) :
         decoded[k] = SubSeq(stream, LineStart(LineNo(k)) + 1, LineNo(k))

\* Liveness: a backlog is worked off, or the ring overruns; a line never waits
\* in a Ready node for a semaphore nobody will release.
EachLineTaken == []<>(unread = <<>> \/ overrun \/ pc = "dispatch")
=============================================================================
