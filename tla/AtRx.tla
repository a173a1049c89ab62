-------------------------------- MODULE AtRx --------------------------------
(***************************************************************************)
(* How MC323A_RX of src/MySouce/ATcmd/AT_APP.c cuts the byte stream of the *)
(* modem into lines, byte by byte, in the USART1 interrupt.  AtRing models *)
(* what becomes of a finished line; here only the node that receives it is *)
(* kept, byte for byte: Str[AT_CMD_MAX_LEN] is the address of Ready, and   *)
(* the terminator of a line of AT_CMD_MAX_LEN bytes is written there.      *)
(***************************************************************************)
EXTENDS Naturals, Sequences

CONSTANTS AT_CMD_MAX_LEN,    \* 100 in AT_APP.c
          MaxStream          \* bound: bytes received

ASSUME MaxLenAssumption == AT_CMD_MAX_LEN \in Nat \ {0}
ASSUME MaxStreamAssumption == MaxStream \in Nat

\* The frame mark 0x7E of the GNSS protocol, '\r', '\n', '\0', any other byte.
NUL  == "NUL"
Byte == {"7E", "CR", "LF", NUL, "x"}

VARIABLES
  Buf, index,      \* the statics of MC323A_RX
  node,            \* pWrite: Str[0..AT_CMD_MAX_LEN-1], then Ready
  finished,        \* the last byte finished a line (ATsem was released)
  stream           \* history: every byte received

vars == <<Buf, index, node, finished, stream>>

Init ==
  /\ Buf = [i \in 0 .. AT_CMD_MAX_LEN - 1 |-> NUL] /\ index = 0
  /\ node = [i \in 0 .. AT_CMD_MAX_LEN |-> NUL]
  /\ finished = FALSE /\ stream = <<>>

\* size==0x7E: forget the line
FrameMark ==
  /\ index' = 0 /\ finished' = FALSE
  /\ UNCHANGED <<Buf, node>>

CopyLineReadyFirst(buf) ==
  LET readied == [node EXCEPT ![AT_CMD_MAX_LEN] = "READY"]
  IN  node' = [i \in 0 .. AT_CMD_MAX_LEN |->
                 IF i <= index THEN buf[i] ELSE IF i = index + 1 THEN NUL ELSE readied[i]]

\* Lines 134-136: copy Buf[0..index], terminate it, then set Ready.
CopyLine(buf) ==
  LET copied == [i \in 0 .. AT_CMD_MAX_LEN |->
                   IF i <= index THEN buf[i] ELSE IF i = index + 1 THEN NUL ELSE node[i]]
  IN  node' = [copied EXCEPT ![AT_CMD_MAX_LEN] = "READY"]

FinishLine(buf) ==
  /\ CopyLine(buf)
  /\ finished' = TRUE
  /\ index' = 0

BeforeIgnored == {"CR"}
\* Buf[index-1] for a '\n' at index 0 lies before the array: any byte.
Before == IF index = 0 THEN {"CR", "x"} ELSE {Buf[index - 1]}

NextIndex == IF index + 1 >= AT_CMD_MAX_LEN THEN 0 ELSE index + 1

StoreByte(b) ==
  LET buf == [Buf EXCEPT ![index] = b]
  IN  /\ Buf' = buf
      /\ \E before \in Before :
           IF b = "LF" /\ before = "CR"
           THEN FinishLine(buf)
           ELSE index' = NextIndex /\ finished' = FALSE /\ UNCHANGED node

MC323A_RX(b) ==
  /\ Len(stream) < MaxStream
  /\ stream' = Append(stream, b)
  /\ IF b = "7E" THEN FrameMark ELSE StoreByte(b)

Next == \E b \in Byte : MC323A_RX(b)

Spec == Init /\ [][Next]_vars
-----------------------------------------------------------------------------
(* Properties                                                              *)

\* Reference definition of a line, on the whole stream.
EndsLine(k) == k >= 2 /\ stream[k] = "LF" /\ stream[k - 1] = "CR"
Boundary(k) == k = 0 \/ stream[k] = "7E" \/ EndsLine(k)

\* The last boundary before position k.
LineStart(k) == CHOOSE b \in 0 .. k - 1 :
                  Boundary(b) /\ \A c \in b + 1 .. k - 1 : ~Boundary(c)

\* Since the last frame mark no line has been longer than the buffer.
LastMark == CHOOSE m \in 0 .. Len(stream) :
              /\ m = 0 \/ stream[m] = "7E"
              /\ \A c \in m + 1 .. Len(stream) : stream[c] # "7E"
NoLongLine == \A k \in LastMark + 1 .. Len(stream) : k - LineStart(k) <= AT_CMD_MAX_LEN

\* No byte sequence of up to AT_CMD_MAX_LEN bytes ending in "\r\n" is missed or
\* cut: it is in the node, whole, and the node is Ready, the line of exactly
\* AT_CMD_MAX_LEN bytes included, whose terminator lands on Ready.  (A line that
\* starts with a bare '\n' is left out: there the code reads Buf[-1].)
WholeLines ==
  LET n     == Len(stream)
      start == LineStart(n)
  IN  n > 0 /\ EndsLine(n) /\ NoLongLine /\ stream[start + 1] # "LF" =>
        /\ finished
        /\ \A i \in 1 .. n - start : node[i - 1] = stream[start + i]
        /\ node[AT_CMD_MAX_LEN] = "READY"
        /\ n - start < AT_CMD_MAX_LEN => node[n - start] = NUL
=============================================================================
