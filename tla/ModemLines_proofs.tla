-------------------------- MODULE ModemLines_proofs --------------------------
(***************************************************************************)
(* Proofs about MC323A_RX from the bytes to the command table, for every   *)
(* buffer length, every number of nodes and every stream of bytes: lines   *)
(* come out whole, and what AT_thread_entry decodes is the lines of the    *)
(* stream in their order.                                                  *)
(***************************************************************************)
EXTENDS ModemLines, AtRing_proofs, FiniteSetTheorems, WellFoundedInduction
-----------------------------------------------------------------------------
(* Lines of a stream                                                       *)

\* The reference definitions of AtRx, of any sequence s of bytes.
EndsIn(s, k) == k >= 2 /\ s[k] = "LF" /\ s[k - 1] = "CR"
BoundaryIn(s, k) == k = 0 \/ s[k] = "7E" \/ EndsIn(s, k)
StartIn(s, k) == CHOOSE b \in 0 .. k - 1 :
                   BoundaryIn(s, b) /\ \A c \in b + 1 .. k - 1 : ~BoundaryIn(s, c)
MarkIn(s) == CHOOSE m \in 0 .. Len(s) :
               /\ m = 0 \/ s[m] = "7E"
               /\ \A c \in m + 1 .. Len(s) : s[c] # "7E"
NoLongIn(s) == \A k \in MarkIn(s) + 1 .. Len(s) : k - StartIn(s, k) <= AT_CMD_MAX_LEN

LEMMA OfTheStream ==
  /\ \A k : /\ EndsLine(k) <=> EndsIn(stream, k)
            /\ Boundary(k) <=> BoundaryIn(stream, k)
            /\ LineStart(k) = StartIn(stream, k)
            /\ EndsLine(k)' <=> EndsIn(stream', k)
            /\ Boundary(k)' <=> BoundaryIn(stream', k)
            /\ LineStart(k)' = StartIn(stream', k)
  /\ LastMark = MarkIn(stream) /\ LastMark' = MarkIn(stream')
  /\ NoLongLine <=> NoLongIn(stream)
  /\ NoLongLine' <=> NoLongIn(stream')
<1>1. \A k : /\ EndsLine(k) <=> EndsIn(stream, k)
             /\ Boundary(k) <=> BoundaryIn(stream, k)
             /\ EndsLine(k)' <=> EndsIn(stream', k)
             /\ Boundary(k)' <=> BoundaryIn(stream', k)
  BY DEF EndsLine, EndsIn, Boundary, BoundaryIn
<1>2. \A k : LineStart(k) = StartIn(stream, k) /\ LineStart(k)' = StartIn(stream', k)
  BY DEF LineStart, StartIn, Boundary, BoundaryIn, EndsLine, EndsIn
<1>3. LastMark = MarkIn(stream) /\ LastMark' = MarkIn(stream')
  BY DEF LastMark, MarkIn
<1>4. (NoLongLine <=> NoLongIn(stream)) /\ (NoLongLine' <=> NoLongIn(stream'))
  BY <1>2, <1>3 DEF NoLongLine, NoLongIn
<1> QED
  BY <1>1, <1>2, <1>3, <1>4

LEMMA LeastOf ==
  ASSUME NEW D \in SUBSET Nat, D # {}
  PROVE  \E x \in D : \A y \in D : x <= y
<1>1. PICK d \in D : \A y \in D : ~(<<y, d>> \in OpToRel(<, Nat))
  BY WFMin, NatLessThanWellFounded
<1>2. \A y \in D : ~(y < d)
  BY <1>1 DEF OpToRel
<1> QED
  BY <1>2

LEMMA GreatestBelow ==
  ASSUME NEW k \in Nat, NEW T \in SUBSET (0 .. k), T # {}
  PROVE  \E x \in T : \A y \in T : y <= x
<1> DEFINE D == {k - y : y \in T}
<1>1. D \in SUBSET Nat /\ D # {}
  <2>1. \A y \in T : k - y \in Nat
    OBVIOUS
  <2>2. PICK y \in T : k - y \in D
    OBVIOUS
  <2> QED
    BY <2>1, <2>2
<1>2. PICK d \in D : \A y \in D : d <= y
  <2> HIDE DEF D
  <2> QED
    BY <1>1, LeastOf
<1>3. PICK x \in T : d = k - x
  OBVIOUS
<1>4. \A y \in T : ~(k - y < k - x)
  BY <1>2, <1>3
<1> QED
  BY <1>4

\* There is a last boundary before every place, and only one.
LEMMA StartFacts ==
  ASSUME NEW s, NEW k \in Nat \ {0}
  PROVE  /\ StartIn(s, k) \in 0 .. k - 1 /\ BoundaryIn(s, StartIn(s, k))
         /\ \A c \in StartIn(s, k) + 1 .. k - 1 : ~BoundaryIn(s, c)
         /\ \A b \in 0 .. k - 1 :
              BoundaryIn(s, b) /\ (\A c \in b + 1 .. k - 1 : ~BoundaryIn(s, c)) => StartIn(s, k) = b
<1> DEFINE T == {c \in 0 .. k - 1 : BoundaryIn(s, c)}
           Is(b) == BoundaryIn(s, b) /\ \A c \in b + 1 .. k - 1 : ~BoundaryIn(s, c)
<1>1. k - 1 \in Nat /\ T \in SUBSET (0 .. k - 1) /\ 0 \in T
  BY DEF BoundaryIn
<1>2. PICK x \in T : \A y \in T : y <= x
  <2> HIDE DEF T
  <2> QED
    BY <1>1, GreatestBelow
<1>3. x \in 0 .. k - 1 /\ Is(x)
  <2>1. ASSUME NEW c \in x + 1 .. k - 1 PROVE c \notin T
    BY <1>2, <2>1
  <2> QED
    BY <1>2, <2>1
<1>4. \A a, b \in 0 .. k - 1 : Is(a) /\ Is(b) => a = b
  <2> SUFFICES ASSUME NEW a \in 0 .. k - 1, NEW b \in 0 .. k - 1, Is(a), Is(b), a < b PROVE FALSE
    OBVIOUS
  <2>1. b \in a + 1 .. k - 1
    OBVIOUS
  <2> QED
    BY <2>1
<1>5. StartIn(s, k) = CHOOSE b \in 0 .. k - 1 : Is(b)
  BY DEF StartIn
<1> HIDE DEF Is
<1>6. StartIn(s, k) \in 0 .. k - 1 /\ Is(StartIn(s, k))
  BY <1>3, <1>5
<1>7. \A b \in 0 .. k - 1 : Is(b) => StartIn(s, k) = b
  BY <1>4, <1>6
<1> QED
  BY <1>6, <1>7 DEF Is

LEMMA MarkFacts ==
  ASSUME NEW s \in Seq(Byte)
  PROVE  /\ MarkIn(s) \in 0 .. Len(s)
         /\ MarkIn(s) = 0 \/ s[MarkIn(s)] = "7E"
         /\ \A c \in MarkIn(s) + 1 .. Len(s) : s[c] # "7E"
         /\ \A m \in 0 .. Len(s) :
              (m = 0 \/ s[m] = "7E") /\ (\A c \in m + 1 .. Len(s) : s[c] # "7E") => MarkIn(s) = m
<1> DEFINE T == {c \in 0 .. Len(s) : c = 0 \/ s[c] = "7E"}
           Is(m) == (m = 0 \/ s[m] = "7E") /\ \A c \in m + 1 .. Len(s) : s[c] # "7E"
<1>1. Len(s) \in Nat /\ T \in SUBSET (0 .. Len(s)) /\ 0 \in T
  OBVIOUS
<1>2. PICK x \in T : \A y \in T : y <= x
  <2> HIDE DEF T
  <2> QED
    BY <1>1, GreatestBelow
<1>3. x \in 0 .. Len(s) /\ Is(x)
  <2>1. ASSUME NEW c \in x + 1 .. Len(s) PROVE c \notin T
    BY <1>2, <2>1
  <2> QED
    BY <1>2, <2>1
<1>4. \A a, b \in 0 .. Len(s) : Is(a) /\ Is(b) => a = b
  <2> SUFFICES ASSUME NEW a \in 0 .. Len(s), NEW b \in 0 .. Len(s), Is(a), Is(b), a < b PROVE FALSE
    OBVIOUS
  <2>1. b \in a + 1 .. Len(s) /\ b # 0
    OBVIOUS
  <2> QED
    BY <2>1
<1>5. MarkIn(s) = CHOOSE m \in 0 .. Len(s) : Is(m)
  BY DEF MarkIn
<1> HIDE DEF Is
<1>6. MarkIn(s) \in 0 .. Len(s) /\ Is(MarkIn(s))
  BY <1>3, <1>5
<1>7. \A m \in 0 .. Len(s) : Is(m) => MarkIn(s) = m
  BY <1>4, <1>6
<1> QED
  BY <1>6, <1>7 DEF Is

\* t is s with the byte b at the end.
Adds(s, b, t) ==
  /\ s \in Seq(Byte) /\ t \in Seq(Byte) /\ b \in Byte
  /\ Len(t) = Len(s) + 1 /\ t[Len(t)] = b
  /\ \A c \in 1 .. Len(s) : t[c] = s[c]

\* One more byte moves no line that began before it.
LEMMA OneMoreByte ==
  ASSUME NEW s, NEW b, NEW t, Adds(s, b, t)
  PROVE  /\ \A c \in 0 .. Len(s) : /\ EndsIn(t, c) <=> EndsIn(s, c)
                                   /\ BoundaryIn(t, c) <=> BoundaryIn(s, c)
         /\ \A k \in 1 .. Len(s) + 1 : StartIn(t, k) = StartIn(s, k)
         /\ EndsIn(t, Len(t)) <=> Len(s) > 0 /\ b = "LF" /\ s[Len(s)] = "CR"
         /\ StartIn(t, Len(t) + 1) = IF b = "7E" \/ EndsIn(t, Len(t)) THEN Len(t)
                                     ELSE StartIn(s, Len(s) + 1)
<1>1. /\ t \in Seq(Byte) /\ Len(t) = Len(s) + 1 /\ t[Len(s) + 1] = b /\ Len(s) \in Nat
      /\ \A c \in 1 .. Len(s) : t[c] = s[c]
  BY DEF Adds
<1>2. \A c \in 0 .. Len(s) : (EndsIn(t, c) <=> EndsIn(s, c)) /\ (BoundaryIn(t, c) <=> BoundaryIn(s, c))
  <2> TAKE c \in 0 .. Len(s)
  <2>1. c > 0 => t[c] = s[c]
    BY <1>1
  <2>2. c >= 2 => t[c] = s[c] /\ t[c - 1] = s[c - 1]
    BY <1>1
  <2>3. EndsIn(t, c) <=> EndsIn(s, c)
    BY <2>2 DEF EndsIn
  <2> QED
    BY <2>1, <2>3 DEF BoundaryIn
<1>3. ASSUME NEW k \in 1 .. Len(s) + 1 PROVE StartIn(t, k) = StartIn(s, k)
  <2>1. k \in Nat \ {0}
    BY <1>1
  <2>2. /\ StartIn(s, k) \in 0 .. k - 1 /\ BoundaryIn(s, StartIn(s, k))
        /\ \A c \in StartIn(s, k) + 1 .. k - 1 : ~BoundaryIn(s, c)
    BY <2>1, StartFacts
  <2>3. StartIn(s, k) \in 0 .. Len(s) /\ \A c \in StartIn(s, k) + 1 .. k - 1 : c \in 0 .. Len(s)
    BY <1>1, <2>2
  <2>4. /\ BoundaryIn(t, StartIn(s, k))
        /\ \A c \in StartIn(s, k) + 1 .. k - 1 : ~BoundaryIn(t, c)
    BY <1>2, <2>2, <2>3
  <2> QED
    BY <2>1, <2>2, <2>4, StartFacts
<1>4. EndsIn(t, Len(t)) <=> Len(s) > 0 /\ b = "LF" /\ s[Len(s)] = "CR"
  <2>1. Len(s) > 0 => t[Len(t) - 1] = s[Len(s)]
    BY <1>1
  <2>2. t[Len(t)] = b /\ (Len(t) >= 2 <=> Len(s) > 0)
    BY <1>1
  <2> QED
    BY <2>1, <2>2 DEF EndsIn
<1>5. StartIn(t, Len(t) + 1) = IF b = "7E" \/ EndsIn(t, Len(t)) THEN Len(t)
                               ELSE StartIn(s, Len(s) + 1)
  <2>1. Len(t) + 1 \in Nat \ {0} /\ Len(t) \in Nat \ {0} /\ t[Len(t)] = b
    BY <1>1
  <2>2. CASE b = "7E" \/ EndsIn(t, Len(t))
    <3>1. BoundaryIn(t, Len(t))
      BY <2>1, <2>2 DEF BoundaryIn
    <3>2. Len(t) \in 0 .. (Len(t) + 1) - 1 /\ \A c \in Len(t) + 1 .. (Len(t) + 1) - 1 : FALSE
      BY <2>1
    <3> QED
      BY <2>1, <2>2, <3>1, <3>2, StartFacts
  <2>3. CASE ~(b = "7E" \/ EndsIn(t, Len(t)))
    <3>1. ~BoundaryIn(t, Len(t))
      BY <2>1, <2>3 DEF BoundaryIn
    <3> DEFINE x == StartIn(t, Len(t))
    <3>2. x \in 0 .. Len(t) - 1 /\ BoundaryIn(t, x) /\ \A c \in x + 1 .. Len(t) - 1 : ~BoundaryIn(t, c)
      BY <2>1, StartFacts
    <3> HIDE DEF x
    <3>3. x \in 0 .. (Len(t) + 1) - 1 /\ \A c \in x + 1 .. (Len(t) + 1) - 1 : ~BoundaryIn(t, c)
      <4>1. \A c \in x + 1 .. (Len(t) + 1) - 1 : c \in x + 1 .. Len(t) - 1 \/ c = Len(t)
        BY <2>1, <3>2
      <4> QED
        BY <2>1, <3>1, <3>2, <4>1
    <3>4. StartIn(t, Len(t) + 1) = x
      BY <2>1, <3>2, <3>3, StartFacts
    <3>5. x = StartIn(s, Len(s) + 1)
      BY <1>1, <1>3 DEF x
    <3> QED
      BY <2>3, <3>4, <3>5
  <2> QED
    BY <2>2, <2>3
<1> QED
  BY <1>1, <1>2, <1>3, <1>4, <1>5

\* A line that is not too long was not too long before its last byte.
LEMMA NotLongBefore ==
  ASSUME NEW s, NEW b, NEW t, Adds(s, b, t), b # "7E", NoLongIn(t)
  PROVE  NoLongIn(s) /\ (Len(s) + 1) - StartIn(s, Len(s) + 1) <= AT_CMD_MAX_LEN
<1>1. /\ s \in Seq(Byte) /\ t \in Seq(Byte) /\ Len(t) = Len(s) + 1 /\ t[Len(s) + 1] = b
      /\ Len(s) \in Nat /\ \A c \in 1 .. Len(s) : t[c] = s[c]
      /\ \A k \in 1 .. Len(s) + 1 : StartIn(t, k) = StartIn(s, k)
  BY OneMoreByte DEF Adds
<1> DEFINE m == MarkIn(s)
<1>2. m \in 0 .. Len(s) /\ (m = 0 \/ s[m] = "7E") /\ \A c \in m + 1 .. Len(s) : s[c] # "7E"
  BY <1>1, MarkFacts
<1> HIDE DEF m
<1>3. /\ m \in 0 .. Len(t) /\ (m = 0 \/ t[m] = "7E")
      /\ \A c \in m + 1 .. Len(t) : c \in m + 1 .. Len(s) \/ c = Len(s) + 1
      /\ \A c \in m + 1 .. Len(s) : t[c] = s[c]
  BY <1>1, <1>2
<1>4. \A c \in m + 1 .. Len(t) : t[c] # "7E"
  BY <1>1, <1>2, <1>3
<1>5. MarkIn(t) = m
  BY <1>1, <1>3, <1>4, MarkFacts
<1>6. \A k \in m + 1 .. Len(s) + 1 : k - StartIn(s, k) <= AT_CMD_MAX_LEN
  <2> TAKE k \in m + 1 .. Len(s) + 1
  <2>1. k \in m + 1 .. Len(t) /\ k \in 1 .. Len(s) + 1
    BY <1>1, <1>2
  <2> QED
    BY <1>1, <1>5, <2>1 DEF NoLongIn
<1>7. Len(s) + 1 \in m + 1 .. Len(s) + 1 /\ \A k \in m + 1 .. Len(s) : k \in m + 1 .. Len(s) + 1
  BY <1>1, <1>2
<1>8. \A k \in m + 1 .. Len(s) : k - StartIn(s, k) <= AT_CMD_MAX_LEN
  BY <1>6, <1>7
<1>9. NoLongIn(s)
  BY <1>8 DEF NoLongIn, m
<1> QED
  BY <1>6, <1>7, <1>9
-----------------------------------------------------------------------------
(* Whole lines                                                             *)

\* Bytes since the last boundary.
Since == Len(stream) - StartIn(stream, Len(stream) + 1)

RxTypes ==
  /\ index \in 0 .. AT_CMD_MAX_LEN - 1
  /\ Buf \in [0 .. AT_CMD_MAX_LEN - 1 -> Byte \cup {NUL}]
  /\ node \in [0 .. AT_CMD_MAX_LEN -> Byte \cup {NUL, "READY"}]
  /\ stream \in Seq(Byte)

\* What is in Buf is the end of the stream, and index counts the bytes since the
\* last boundary, unless the line is too long or began with a bare '\n'.
Buffered ==
  /\ index <= Len(stream)
  /\ \A i \in 0 .. index - 1 : Buf[i] = stream[(Len(stream) - index) + i + 1]
Aligned ==
  NoLongIn(stream) =>
    /\ index <= Since
    /\ index = 0 /\ Since > 0 => Since >= AT_CMD_MAX_LEN \/ stream[Len(stream)] = "LF"
    /\ \/ index = Since \/ Since >= AT_CMD_MAX_LEN
       \/ stream[StartIn(stream, Len(stream) + 1) + 1] = "LF"
RxInv == RxTypes /\ Buffered /\ Aligned

LEMMA RxInit == Init => RxInv /\ WholeLines
<1> SUFFICES ASSUME Init PROVE RxInv /\ WholeLines
  OBVIOUS
<1>1. stream = <<>> /\ index = 0 /\ Len(stream) = 0 /\ stream \in Seq(Byte)
  BY DEF Init
<1>2. StartIn(stream, 1) = 0
  <2>1. StartIn(stream, 1) \in 0 .. 1 - 1
    BY StartFacts
  <2> QED
    BY <2>1
<1>3. Since = 0
  BY <1>1, <1>2 DEF Since
<1>4. RxTypes /\ Buffered
  BY <1>1, MaxLenAssumption DEF Init, RxTypes, Buffered
<1>5. Aligned
  BY <1>1, <1>3 DEF Aligned
<1>6. WholeLines
  BY <1>1 DEF WholeLines
<1> QED
  BY <1>4, <1>5, <1>6 DEF RxInv

LEMMA RxIdle ==
  ASSUME RxInv, WholeLines, UNCHANGED vars
  PROVE  RxInv' /\ WholeLines'
<1>1. UNCHANGED <<Buf, index, node, finished, stream>>
  BY DEF vars
<1>2. RxTypes' /\ Buffered' /\ Aligned'
  BY <1>1 DEF RxInv, RxTypes, Buffered, Aligned, Since
<1>3. WholeLines'
  <2>1. \A k : /\ LineStart(k)' = LineStart(k)
               /\ EndsLine(k)' <=> EndsLine(k)
    BY <1>1, OfTheStream
  <2>2. NoLongLine' <=> NoLongLine
    BY <1>1, OfTheStream
  <2> QED
    BY <1>1, <2>1, <2>2 DEF WholeLines
<1> QED
  BY <1>2, <1>3 DEF RxInv

\* The byte is on the stream; the byte before it is the last one in Buf.
LEMMA RxByte ==
  ASSUME RxInv, NEW b \in Byte, MC323A_RX(b)
  PROVE  /\ Adds(stream, b, stream')
         /\ Len(stream) \in Nat /\ Since \in Nat
         /\ StartIn(stream, Len(stream) + 1) = Len(stream) - Since
         /\ index > 0 => Len(stream) > 0 /\ Buf[index - 1] = stream[Len(stream)]
<1>1. stream \in Seq(Byte) /\ index \in 0 .. AT_CMD_MAX_LEN - 1 /\ Buffered /\ stream' = Append(stream, b)
  BY DEF RxInv, RxTypes, MC323A_RX
<1>2. Adds(stream, b, stream') /\ Len(stream) \in Nat
  BY <1>1 DEF Adds
<1>3. StartIn(stream, Len(stream) + 1) \in 0 .. (Len(stream) + 1) - 1
  BY <1>2, StartFacts
<1>4. Since \in Nat /\ StartIn(stream, Len(stream) + 1) = Len(stream) - Since
  BY <1>2, <1>3 DEF Since
<1>5. ASSUME index > 0 PROVE Len(stream) > 0 /\ Buf[index - 1] = stream[Len(stream)]
  <2>1. index - 1 \in 0 .. index - 1 /\ (Len(stream) - index) + (index - 1) + 1 = Len(stream)
    BY <1>1, <1>2, <1>5, MaxLenAssumption
  <2>2. Buf[index - 1] = stream[(Len(stream) - index) + (index - 1) + 1] /\ index <= Len(stream)
    BY <1>1, <2>1 DEF Buffered
  <2> QED
    BY <1>1, <1>2, <1>5, <2>1, <2>2
<1> QED
  BY <1>2, <1>4, <1>5

\* What is known of a byte that does not make its line too long.
LEMMA RxShort ==
  ASSUME RxInv, NEW b \in Byte, MC323A_RX(b), b # "7E", NoLongIn(stream')
  PROVE  /\ Since < AT_CMD_MAX_LEN /\ index <= Since
         /\ index = 0 /\ Since > 0 => stream[Len(stream)] = "LF"
         /\ index = Since \/ stream[(Len(stream) - Since) + 1] = "LF"
         /\ EndsIn(stream', Len(stream')) => index > 0 /\ Buf[index - 1] = "CR"
<1>1. /\ Adds(stream, b, stream') /\ Len(stream) \in Nat /\ Since \in Nat
      /\ StartIn(stream, Len(stream) + 1) = Len(stream) - Since
      /\ index > 0 => Len(stream) > 0 /\ Buf[index - 1] = stream[Len(stream)]
      /\ index \in Nat
  BY RxByte, MaxLenAssumption DEF RxInv, RxTypes
<1>2. NoLongIn(stream) /\ (Len(stream) + 1) - StartIn(stream, Len(stream) + 1) <= AT_CMD_MAX_LEN
  BY <1>1, NotLongBefore
<1>3. Since < AT_CMD_MAX_LEN
  BY <1>1, <1>2, MaxLenAssumption
<1>4. /\ index <= Since
      /\ index = 0 /\ Since > 0 => stream[Len(stream)] = "LF"
      /\ index = Since \/ stream[(Len(stream) - Since) + 1] = "LF"
  BY <1>1, <1>2, <1>3, MaxLenAssumption DEF RxInv, Aligned
<1>5. ASSUME EndsIn(stream', Len(stream')) PROVE index > 0 /\ Buf[index - 1] = "CR"
  <2>1. Len(stream) > 0 /\ stream[Len(stream)] = "CR"
    BY <1>1, <1>5, OneMoreByte
  <2>2. ~BoundaryIn(stream, Len(stream))
    BY <1>1, <2>1 DEF BoundaryIn, EndsIn
  <2>3. BoundaryIn(stream, StartIn(stream, Len(stream) + 1))
    BY <1>1, StartFacts
  <2>4. Since # 0
    BY <1>1, <2>2, <2>3
  <2> QED
    BY <1>1, <1>4, <2>1, <2>4
<1> QED
  BY <1>3, <1>4, <1>5

\* The three things a byte can do.
LEMMA RxCases ==
  ASSUME RxInv, NEW b \in Byte, MC323A_RX(b)
  PROVE  \/ b = "7E" /\ index' = 0 /\ finished' = FALSE /\ UNCHANGED <<Buf, node>>
         \/ /\ b = "LF" /\ index' = 0 /\ finished' = TRUE /\ Buf' = [Buf EXCEPT ![index] = b]
            /\ index > 0 => Buf[index - 1] = "CR"
            /\ node' \in [0 .. AT_CMD_MAX_LEN -> Byte \cup {NUL, "READY"}]
            /\ \A i \in 0 .. index : node'[i] = Buf'[i]
            /\ index + 1 < AT_CMD_MAX_LEN => node'[index + 1] = NUL
            /\ node'[AT_CMD_MAX_LEN] = "READY"
         \/ /\ b # "7E" /\ index' = NextIndex /\ finished' = FALSE /\ Buf' = [Buf EXCEPT ![index] = b]
            /\ index > 0 => ~(b = "LF" /\ Buf[index - 1] = "CR")
            /\ UNCHANGED node
<1> USE DEF RxInv, RxTypes
<1>1. CASE b = "7E"
  BY <1>1 DEF MC323A_RX, FrameMark
<1>2. CASE b # "7E"
  <2>1. /\ Buf' = [Buf EXCEPT ![index] = b]
        /\ \E before \in Before :
             IF b = "LF" /\ before = "CR"
             THEN FinishLine(Buf')
             ELSE index' = NextIndex /\ finished' = FALSE /\ UNCHANGED node
    BY <1>2 DEF MC323A_RX, StoreByte
  <2>2. PICK before \in Before :
             IF b = "LF" /\ before = "CR"
             THEN FinishLine(Buf')
             ELSE index' = NextIndex /\ finished' = FALSE /\ UNCHANGED node
    BY <2>1
  <2>3. index > 0 => before = Buf[index - 1]
    BY <2>2 DEF Before
  <2>4. CASE b = "LF" /\ before = "CR"
    <3>1. index' = 0 /\ finished' = TRUE /\ CopyLine(Buf')
      BY <2>2, <2>4 DEF FinishLine
    <3>2. Buf' \in [0 .. AT_CMD_MAX_LEN - 1 -> Byte \cup {NUL}]
      BY <2>1
    <3> DEFINE copied == [i \in 0 .. AT_CMD_MAX_LEN |->
                   IF i <= index THEN Buf'[i] ELSE IF i = index + 1 THEN NUL ELSE node[i]]
    <3>3. node' = [copied EXCEPT ![AT_CMD_MAX_LEN] = "READY"]
      BY <3>1 DEF CopyLine
    <3>4. copied \in [0 .. AT_CMD_MAX_LEN -> Byte \cup {NUL, "READY"}]
      <4>1. ASSUME NEW i \in 0 .. AT_CMD_MAX_LEN, i <= index PROVE Buf'[i] \in Byte \cup {NUL}
        BY <3>2, <4>1, MaxLenAssumption
      <4> QED
        BY <4>1
    <3>5. node' \in [0 .. AT_CMD_MAX_LEN -> Byte \cup {NUL, "READY"}] /\ node'[AT_CMD_MAX_LEN] = "READY"
          /\ \A i \in 0 .. AT_CMD_MAX_LEN - 1 : node'[i] = copied[i]
      <4> HIDE DEF copied
      <4> QED
        BY <3>3, <3>4, MaxLenAssumption
    <3>6. \A i \in 0 .. index : node'[i] = Buf'[i]
      <4> TAKE i \in 0 .. index
      <4>1. i \in 0 .. AT_CMD_MAX_LEN - 1 /\ i \in 0 .. AT_CMD_MAX_LEN /\ i <= index
        BY MaxLenAssumption
      <4>2. copied[i] = Buf'[i]
        BY <4>1
      <4> HIDE DEF copied
      <4> QED
        BY <3>5, <4>1, <4>2
    <3>7. ASSUME index + 1 < AT_CMD_MAX_LEN PROVE node'[index + 1] = NUL
      <4>1. /\ index + 1 \in 0 .. AT_CMD_MAX_LEN - 1 /\ index + 1 \in 0 .. AT_CMD_MAX_LEN
            /\ ~(index + 1 <= index)
        BY <3>7, MaxLenAssumption
      <4>2. copied[index + 1] = NUL
        BY <4>1
      <4> HIDE DEF copied
      <4> QED
        BY <3>5, <4>1, <4>2
    <3> QED
      BY <2>1, <2>3, <2>4, <3>1, <3>5, <3>6, <3>7
  <2>5. CASE ~(b = "LF" /\ before = "CR")
    BY <1>2, <2>1, <2>2, <2>3, <2>5
  <2> QED
    BY <2>4, <2>5
<1> QED
  BY <1>1, <1>2

LEMMA RxTypesStep ==
  ASSUME RxInv, NEW b \in Byte, MC323A_RX(b)
  PROVE  RxTypes' /\ Buffered'
<1>1. RxTypes /\ Buffered
  BY DEF RxInv
<1>2. /\ Adds(stream, b, stream') /\ Len(stream) \in Nat
  BY RxByte
<1>3. /\ stream' \in Seq(Byte) /\ Len(stream') = Len(stream) + 1 /\ stream'[Len(stream) + 1] = b
      /\ \A c \in 1 .. Len(stream) : stream'[c] = stream[c]
  BY <1>2 DEF Adds
<1>4. CASE b = "7E" /\ index' = 0 /\ finished' = FALSE /\ UNCHANGED <<Buf, node>>
  BY <1>1, <1>2, <1>3, <1>4, MaxLenAssumption DEF RxTypes, Buffered
<1>5. CASE /\ b = "LF" /\ index' = 0 /\ Buf' = [Buf EXCEPT ![index] = b]
           /\ node' \in [0 .. AT_CMD_MAX_LEN -> Byte \cup {NUL, "READY"}]
  BY <1>1, <1>2, <1>3, <1>5, MaxLenAssumption DEF RxTypes, Buffered
<1>6. CASE index' = NextIndex /\ Buf' = [Buf EXCEPT ![index] = b] /\ UNCHANGED node
  <2>1. RxTypes'
    BY <1>1, <1>3, <1>6, MaxLenAssumption DEF RxTypes, NextIndex
  <2>2. CASE index' = 0
    BY <1>2, <1>3, <2>1, <2>2 DEF Buffered
  <2>3. CASE index' = index + 1
    <3>1. index' <= Len(stream')
      BY <1>1, <1>2, <1>3, <2>3, MaxLenAssumption DEF RxTypes, Buffered
    <3>2. ASSUME NEW i \in 0 .. index' - 1
          PROVE  Buf'[i] = stream'[(Len(stream') - index') + i + 1]
      <4>1. /\ i \in 0 .. index /\ index \in 0 .. AT_CMD_MAX_LEN - 1 /\ index <= Len(stream)
            /\ (Len(stream') - index') + i + 1 = (Len(stream) - index) + i + 1
        BY <1>1, <1>2, <1>3, <2>3, MaxLenAssumption DEF RxTypes, Buffered
      <4>2. CASE i = index
        <5>1. Buf'[i] = b /\ (Len(stream) - index) + i + 1 = Len(stream) + 1
          BY <1>1, <1>2, <1>6, <4>1, <4>2, MaxLenAssumption DEF RxTypes
        <5> QED
          BY <1>3, <4>1, <5>1
      <4>3. CASE i # index
        <5>1. /\ i \in 0 .. index - 1 /\ (Len(stream) - index) + i + 1 \in 1 .. Len(stream)
              /\ i \in 0 .. AT_CMD_MAX_LEN - 1
          BY <1>2, <4>1, <4>3, MaxLenAssumption
        <5>2. Buf'[i] = Buf[i]
          BY <1>1, <1>6, <4>3, <5>1 DEF RxTypes
        <5>3. Buf[i] = stream[(Len(stream) - index) + i + 1]
          BY <1>1, <5>1 DEF Buffered
        <5> QED
          BY <1>3, <4>1, <5>1, <5>2, <5>3
      <4> QED
        BY <4>2, <4>3
    <3> QED
      BY <2>1, <3>1, <3>2 DEF Buffered
  <2> QED
    BY <1>6, <2>1, <2>2, <2>3 DEF NextIndex
<1> QED
  BY <1>4, <1>5, <1>6, RxCases

LEMMA AlignedStep ==
  ASSUME RxInv, NEW b \in Byte, MC323A_RX(b)
  PROVE  Aligned'
<1> SUFFICES ASSUME NoLongIn(stream')
             PROVE  /\ index' <= Since'
                    /\ index' = 0 /\ Since' > 0 => Since' >= AT_CMD_MAX_LEN \/ stream'[Len(stream')] = "LF"
                    /\ \/ index' = Since' \/ Since' >= AT_CMD_MAX_LEN
                       \/ stream'[StartIn(stream', Len(stream') + 1) + 1] = "LF"
  BY DEF Aligned
<1>1. /\ Adds(stream, b, stream') /\ Len(stream) \in Nat /\ Since \in Nat
      /\ StartIn(stream, Len(stream) + 1) = Len(stream) - Since
      /\ index > 0 => Len(stream) > 0 /\ Buf[index - 1] = stream[Len(stream)]
      /\ index \in Nat
  BY RxByte, MaxLenAssumption DEF RxInv, RxTypes
<1>2. /\ Len(stream') = Len(stream) + 1 /\ stream'[Len(stream')] = b
      /\ \A c \in 1 .. Len(stream) : stream'[c] = stream[c]
  BY <1>1 DEF Adds
<1>3. StartIn(stream', Len(stream') + 1) = IF b = "7E" \/ EndsIn(stream', Len(stream')) THEN Len(stream')
                                           ELSE Len(stream) - Since
  BY <1>1, OneMoreByte
<1>4. EndsIn(stream', Len(stream')) <=> Len(stream) > 0 /\ b = "LF" /\ stream[Len(stream)] = "CR"
  BY <1>1, OneMoreByte
<1>5. Since' = IF b = "7E" \/ EndsIn(stream', Len(stream')) THEN 0 ELSE Since + 1
  BY <1>1, <1>2, <1>3 DEF Since
<1>6. CASE b = "7E" \/ EndsIn(stream', Len(stream'))
  <2>1. index' = 0
    <3>1. CASE b = "7E"
      BY <3>1, RxCases
    <3>2. CASE b # "7E"
      BY <1>4, <1>6, <3>2, RxCases, RxShort
    <3> QED
      BY <3>1, <3>2
  <2> QED
    BY <1>5, <1>6, <2>1
<1>7. CASE b # "7E" /\ ~EndsIn(stream', Len(stream'))
  <2>1. /\ Since < AT_CMD_MAX_LEN /\ index <= Since
        /\ index = 0 /\ Since > 0 => stream[Len(stream)] = "LF"
        /\ index = Since \/ stream[(Len(stream) - Since) + 1] = "LF"
    BY <1>7, RxShort
  <2>2. /\ Since' = Since + 1
        /\ StartIn(stream', Len(stream') + 1) = Len(stream) - Since
    BY <1>3, <1>5, <1>7
  <2>3. Since <= Len(stream)
    <3>1. StartIn(stream, Len(stream) + 1) \in 0 .. (Len(stream) + 1) - 1
      BY <1>1, StartFacts
    <3> QED
      BY <1>1, <3>1
  <2>4. Since > 0 => stream'[(Len(stream) - Since) + 1] = stream[(Len(stream) - Since) + 1]
    BY <1>1, <1>2, <2>3
  <2>5. CASE b = "LF" /\ index' = 0 /\ (index > 0 => Buf[index - 1] = "CR")
    <3>1. index = 0
      BY <1>1, <1>4, <1>7, <2>5
    <3>2. stream'[(Len(stream) - Since) + 1] = "LF"
      <4>1. CASE Since = 0
        BY <1>1, <1>2, <2>5, <4>1
      <4>2. CASE Since # 0
        BY <1>1, <2>1, <2>4, <3>1, <4>2
      <4> QED
        BY <4>1, <4>2
    <3> QED
      BY <1>1, <1>2, <2>2, <2>5, <3>2
  <2>6. CASE index' = NextIndex
    <3>1. CASE index + 1 >= AT_CMD_MAX_LEN
      BY <1>1, <2>1, <2>2, <2>6, <3>1, MaxLenAssumption DEF NextIndex
    <3>2. CASE ~(index + 1 >= AT_CMD_MAX_LEN)
      <4>1. index' = index + 1 /\ index' # 0 /\ index' <= Since'
        BY <1>1, <2>1, <2>2, <2>6, <3>2, MaxLenAssumption DEF NextIndex
      <4>2. CASE index = Since
        BY <2>2, <4>1, <4>2
      <4>3. CASE index # Since
        <5>1. Since > 0 /\ stream[(Len(stream) - Since) + 1] = "LF"
          BY <1>1, <2>1, <4>3
        <5> QED
          BY <2>2, <2>4, <4>1, <5>1
      <4> QED
        BY <4>2, <4>3
    <3> QED
      BY <3>1, <3>2
  <2> QED
    BY <1>7, <2>5, <2>6, RxCases
<1> QED
  BY <1>6, <1>7

\* A line that ends is copied whole.
LEMMA WholeLinesStep ==
  ASSUME RxInv, NEW b \in Byte, MC323A_RX(b)
  PROVE  WholeLines'
<1> DEFINE n == Len(stream')
           start == StartIn(stream', n)
<1> SUFFICES ASSUME EndsIn(stream', n), NoLongIn(stream'), stream'[start + 1] # "LF"
             PROVE  /\ finished'
                    /\ \A i \in 1 .. n - start : node'[i - 1] = stream'[start + i]
                    /\ node'[AT_CMD_MAX_LEN] = "READY"
                    /\ n - start < AT_CMD_MAX_LEN => node'[n - start] = NUL
  BY OfTheStream DEF WholeLines
<1>1. /\ Adds(stream, b, stream') /\ Len(stream) \in Nat /\ Since \in Nat
      /\ StartIn(stream, Len(stream) + 1) = Len(stream) - Since
      /\ index \in 0 .. AT_CMD_MAX_LEN - 1 /\ Buf \in [0 .. AT_CMD_MAX_LEN - 1 -> Byte \cup {NUL}]
      /\ Buffered
  BY RxByte DEF RxInv, RxTypes
<1>2. /\ n = Len(stream) + 1 /\ stream'[n] = b
      /\ \A c \in 1 .. Len(stream) : stream'[c] = stream[c]
  BY <1>1 DEF Adds
<1>3. b = "LF" /\ start = Len(stream) - Since
  <2>1. Len(stream) + 1 \in 1 .. Len(stream) + 1
    BY <1>1
  <2> QED
    BY <1>1, <1>2, <2>1, OneMoreByte
<1>4. /\ Since < AT_CMD_MAX_LEN /\ index <= Since
      /\ index = Since \/ stream[(Len(stream) - Since) + 1] = "LF"
      /\ index > 0 /\ Buf[index - 1] = "CR"
  BY <1>3, RxShort
<1>5. Since <= Len(stream)
  <2>1. StartIn(stream, Len(stream) + 1) \in 0 .. (Len(stream) + 1) - 1
    BY <1>1, StartFacts
  <2> QED
    BY <1>1, <2>1
<1> HIDE DEF n, start
<1>6. index = Since
  <2>1. stream'[start + 1] = stream[(Len(stream) - Since) + 1]
    BY <1>1, <1>2, <1>3, <1>4, <1>5, MaxLenAssumption
  <2> QED
    BY <1>4, <2>1
<1>7. n - start = index + 1 /\ start = Len(stream) - index
  BY <1>1, <1>2, <1>3, <1>6
<1>8. /\ finished' = TRUE /\ Buf' = [Buf EXCEPT ![index] = b]
      /\ \A i \in 0 .. index : node'[i] = Buf'[i]
      /\ index + 1 < AT_CMD_MAX_LEN => node'[index + 1] = NUL
      /\ node'[AT_CMD_MAX_LEN] = "READY"
  BY <1>3, <1>4, RxCases
<1>9. ASSUME NEW i \in 1 .. index + 1 PROVE node'[i - 1] = stream'[start + i]
  <2>1. i - 1 \in 0 .. index /\ i - 1 \in 0 .. AT_CMD_MAX_LEN - 1
    BY <1>1, MaxLenAssumption
  <2>2. node'[i - 1] = Buf'[i - 1]
    BY <1>8, <2>1
  <2>3. CASE i = index + 1
    <3>1. i - 1 = index /\ start + i = n
      BY <1>1, <1>2, <1>7, <2>3, MaxLenAssumption
    <3>2. Buf'[index] = b
      BY <1>1, <1>8
    <3> QED
      BY <1>2, <2>2, <3>1, <3>2
  <2>4. CASE i # index + 1
    <3>1. /\ i - 1 \in 0 .. index - 1 /\ i - 1 # index
          /\ (Len(stream) - index) + (i - 1) + 1 = start + i /\ start + i \in 1 .. Len(stream)
      BY <1>1, <1>4, <1>5, <1>6, <1>7, <2>4, MaxLenAssumption
    <3>2. Buf'[i - 1] = Buf[i - 1]
      BY <1>1, <1>8, <2>1, <3>1
    <3>3. Buf[i - 1] = stream[(Len(stream) - index) + (i - 1) + 1]
      BY <1>1, <3>1 DEF Buffered
    <3> QED
      BY <1>2, <2>2, <3>1, <3>2, <3>3
  <2> QED
    BY <2>3, <2>4
<1> QED
  BY <1>7, <1>8, <1>9

LEMMA RxInvHolds == MLSpec => [](RxInv /\ WholeLines)
<1>1. MLInit => RxInv /\ WholeLines
  BY RxInit DEF MLInit
<1>2. RxInv /\ WholeLines /\ [MLNext]_mlVars => (RxInv /\ WholeLines)'
  <2> SUFFICES ASSUME RxInv, WholeLines, [MLNext]_mlVars PROVE RxInv' /\ WholeLines'
    OBVIOUS
  <2>1. CASE Thread \/ UNCHANGED mlVars
    <3>1. UNCHANGED vars
      BY <2>1 DEF Thread, mlVars
    <3> QED
      BY <3>1, RxIdle
  <2>2. ASSUME NEW b \in Byte, Interrupt(b) PROVE RxInv' /\ WholeLines'
    BY <2>2, RxTypesStep, AlignedStep, WholeLinesStep DEF Interrupt, RxInv
  <2> QED
    BY <2>1, <2>2 DEF MLNext
<1> QED
  BY <1>1, <1>2, PTL DEF MLSpec

\* Whatever the modem sends, MC323A_RX cuts no line of up to AT_CMD_MAX_LEN bytes,
\* however long AT_CMD_MAX_LEN is.
THEOREM WholeLinesHolds == MLSpec => []WholeLines
BY RxInvHolds, PTL
-----------------------------------------------------------------------------
(* Clean streams                                                           *)

CleanIn(s) ==
  /\ \A k \in 1 .. Len(s) : s[k] # NUL
  /\ \A k \in 1 .. Len(s) : k - StartIn(s, k) <= AT_CMD_MAX_LEN
  /\ \A k \in 1 .. Len(s) : s[k] = "LF" => EndsIn(s, k) \/ k - StartIn(s, k) > 1
EndsOf(s) == {k \in 1 .. Len(s) : EndsIn(s, k)}

LEMMA CleanOfTheStream ==
  /\ CleanStream <=> CleanIn(stream)
  /\ LineEnds = EndsOf(stream)
BY OfTheStream DEF CleanStream, CleanIn, LineEnds, EndsOf

LEMMA CleanBefore ==
  ASSUME NEW s, NEW b, NEW t, Adds(s, b, t), CleanIn(t)
  PROVE  CleanIn(s) /\ NoLongIn(t)
<1>1. /\ s \in Seq(Byte) /\ t \in Seq(Byte) /\ Len(t) = Len(s) + 1 /\ Len(s) \in Nat
      /\ \A c \in 1 .. Len(s) : t[c] = s[c]
      /\ \A c \in 0 .. Len(s) : EndsIn(t, c) <=> EndsIn(s, c)
      /\ \A k \in 1 .. Len(s) + 1 : StartIn(t, k) = StartIn(s, k)
  BY OneMoreByte DEF Adds
<1>2. CleanIn(s)
  <2>1. \A k \in 1 .. Len(s) : k \in 1 .. Len(t) /\ k \in 0 .. Len(s) /\ k \in 1 .. Len(s) + 1
    BY <1>1
  <2> QED
    BY <1>1, <2>1 DEF CleanIn
<1>3. NoLongIn(t)
  <2>1. MarkIn(t) \in 0 .. Len(t)
    BY <1>1, MarkFacts
  <2>2. \A k \in MarkIn(t) + 1 .. Len(t) : k \in 1 .. Len(t)
    BY <1>1, <2>1
  <2> QED
    BY <2>2 DEF CleanIn, NoLongIn
<1> QED
  BY <1>2, <1>3

\* No line of a clean stream begins with '\n'.
LEMMA CleanFirst ==
  ASSUME NEW s \in Seq(Byte), CleanIn(s), NEW k \in 1 .. Len(s) + 1,
         StartIn(s, k) + 1 < k \/ (k <= Len(s) /\ EndsIn(s, k))
  PROVE  s[StartIn(s, k) + 1] # "LF"
<1> DEFINE x == StartIn(s, k)
<1>1. Len(s) \in Nat /\ k \in Nat \ {0}
  OBVIOUS
<1>2. x \in 0 .. k - 1 /\ BoundaryIn(s, x) /\ \A c \in x + 1 .. k - 1 : ~BoundaryIn(s, c)
  BY <1>1, StartFacts
<1> HIDE DEF x
<1>3. x + 1 \in Nat \ {0} /\ x \in 0 .. (x + 1) - 1 /\ \A c \in x + 1 .. (x + 1) - 1 : FALSE
  BY <1>1, <1>2
<1>4. StartIn(s, x + 1) = x
  BY <1>2, <1>3, StartFacts
<1>5. x + 1 \in 1 .. Len(s)
  BY <1>1, <1>2 DEF x
<1> SUFFICES ASSUME s[x + 1] = "LF" PROVE FALSE
  BY DEF x
<1>6. EndsIn(s, x + 1)
  <2>1. ~((x + 1) - StartIn(s, x + 1) > 1)
    BY <1>2, <1>4
  <2> QED
    BY <1>5, <2>1 DEF CleanIn
<1>7. CASE x + 1 < k
  BY <1>1, <1>2, <1>6, <1>7 DEF BoundaryIn
<1>8. CASE x + 1 = k
  <2>1. x >= 1 /\ s[x] = "CR"
    BY <1>2, <1>6 DEF EndsIn
  <2> QED
    BY <1>2, <2>1 DEF BoundaryIn, EndsIn
<1> QED
  BY <1>1, <1>2, <1>7, <1>8

\* On a clean stream MC323A_RX finishes a line exactly at "\r\n".
LEMMA FinishedExactly ==
  ASSUME RxInv, NEW b \in Byte, MC323A_RX(b), CleanIn(stream')
  PROVE  finished' <=> EndsIn(stream', Len(stream'))
<1>1. /\ Adds(stream, b, stream') /\ Len(stream) \in Nat /\ Since \in Nat
      /\ StartIn(stream, Len(stream) + 1) = Len(stream) - Since
      /\ index > 0 => Len(stream) > 0 /\ Buf[index - 1] = stream[Len(stream)]
      /\ index \in Nat
  BY RxByte, MaxLenAssumption DEF RxInv, RxTypes
<1>2. /\ CleanIn(stream) /\ NoLongIn(stream')
      /\ stream \in Seq(Byte) /\ stream' \in Seq(Byte) /\ Len(stream') = Len(stream) + 1
      /\ stream'[Len(stream')] = b
  BY <1>1, CleanBefore DEF Adds
<1>3. ASSUME EndsIn(stream', Len(stream')) PROVE finished'
  <2>1. Len(stream') \in 1 .. Len(stream') + 1 /\ Len(stream') <= Len(stream') /\ Len(stream') > 0
    BY <1>1, <1>2
  <2>2. stream'[StartIn(stream', Len(stream')) + 1] # "LF"
    BY <1>2, <1>3, <2>1, CleanFirst
  <2>3. WholeLines'
    BY WholeLinesStep
  <2> QED
    BY <1>2, <1>3, <2>1, <2>2, <2>3, OfTheStream DEF WholeLines
<1>4. ASSUME finished' PROVE EndsIn(stream', Len(stream'))
  <2>1. b = "LF" /\ (index > 0 => Buf[index - 1] = "CR")
    BY <1>4, RxCases
  <2>2. CASE index > 0
    BY <1>1, <2>1, <2>2, OneMoreByte
  <2>3. CASE index = 0
    <3>1. Since = 0 \/ stream[(Len(stream) - Since) + 1] = "LF"
      BY <1>2, <2>1, <2>3, RxShort
    <3>2. CASE Since = 0
      <4>1. Len(stream') \in 1 .. Len(stream') /\ Len(stream) + 1 \in 1 .. Len(stream) + 1
        BY <1>1, <1>2
      <4>2. StartIn(stream', Len(stream')) = Len(stream)
        BY <1>1, <1>2, <3>2, <4>1, OneMoreByte
      <4>3. ~(Len(stream') - StartIn(stream', Len(stream')) > 1)
        BY <1>1, <1>2, <4>2
      <4> QED
        BY <1>2, <2>1, <4>1, <4>3 DEF CleanIn
    <3>3. CASE Since > 0
      <4>1. Len(stream) + 1 \in 1 .. Len(stream) + 1 /\ StartIn(stream, Len(stream) + 1) + 1 < Len(stream) + 1
        BY <1>1, <3>3
      <4>2. stream[StartIn(stream, Len(stream) + 1) + 1] # "LF"
        BY <1>2, <4>1, CleanFirst
      <4> QED
        BY <1>1, <3>1, <3>3, <4>2
    <3> QED
      BY <1>1, <3>2, <3>3
  <2> QED
    BY <1>1, <2>2, <2>3
<1>5. finished' \in BOOLEAN
  BY RxCases
<1> QED
  BY <1>3, <1>4, <1>5

-----------------------------------------------------------------------------
(* The text handed over                                                    *)

LEMMA TextIs ==
  ASSUME NEW n, NEW len \in 0 .. AT_CMD_MAX_LEN, \A i \in 0 .. len - 1 : n[i] # NUL,
         len = AT_CMD_MAX_LEN \/ n[len] = NUL
  PROVE  TextOf(n) = [i \in 1 .. len |-> n[i - 1]]
<1> DEFINE ends == {i \in 0 .. AT_CMD_MAX_LEN : i = AT_CMD_MAX_LEN \/ n[i] = NUL}
           l == CHOOSE i \in ends : \A j \in ends : i <= j
<1>1. len \in ends
  BY MaxLenAssumption
<1>2. \A j \in ends : len <= j
  <2> TAKE j \in ends
  <2>1. j \in 0 .. len - 1 => j # AT_CMD_MAX_LEN /\ n[j] # NUL
    BY MaxLenAssumption
  <2>2. j \notin 0 .. len - 1 /\ j \in 0 .. AT_CMD_MAX_LEN
    BY <2>1
  <2> QED
    BY <2>2, MaxLenAssumption
<1>3. \A i \in ends : i \in Nat
  BY MaxLenAssumption
<1>4. TextOf(n) = [i \in 1 .. l |-> n[i - 1]]
  BY DEF TextOf
<1>5. l = len
  <2> HIDE DEF ends
  <2>1. l \in ends /\ \A j \in ends : l <= j
    BY <1>1, <1>2
  <2>2. l <= len /\ len <= l /\ l \in Nat /\ len \in Nat
    BY <1>1, <1>2, <1>3, <2>1
  <2> HIDE DEF l
  <2> QED
    BY <2>2
<1> HIDE DEF l
<1> QED
  BY <1>4, <1>5

\* A finished line is a line, clean stream or not.
LEMMA FinishedText ==
  ASSUME RxInv, NEW b \in Byte, MC323A_RX(b), finished'
  PROVE  TextOf(node') \in Line
<1>1. /\ index \in 0 .. AT_CMD_MAX_LEN - 1 /\ Buf \in [0 .. AT_CMD_MAX_LEN - 1 -> Byte \cup {NUL}]
      /\ stream \in Seq(Byte) /\ Len(stream) \in Nat
      /\ index <= Len(stream)
      /\ \A i \in 0 .. index - 1 : Buf[i] = stream[(Len(stream) - index) + i + 1]
  BY DEF RxInv, RxTypes, Buffered
<1>2. /\ Buf' = [Buf EXCEPT ![index] = b]
      /\ \A i \in 0 .. index : node'[i] = Buf'[i]
      /\ index + 1 < AT_CMD_MAX_LEN => node'[index + 1] = NUL
  BY RxCases
<1>3. ASSUME NEW i \in 0 .. index PROVE node'[i] \in Byte
  <2>1. CASE i = index
    BY <1>1, <1>2, <2>1
  <2>2. CASE i # index
    <3>1. /\ i \in 0 .. index - 1 /\ i \in 0 .. AT_CMD_MAX_LEN - 1
          /\ (Len(stream) - index) + i + 1 \in 1 .. Len(stream)
      BY <1>1, <2>2, MaxLenAssumption
    <3>2. Buf'[i] = stream[(Len(stream) - index) + i + 1]
      BY <1>1, <1>2, <2>2, <3>1
    <3>3. stream[(Len(stream) - index) + i + 1] \in Byte
      BY <1>1, <3>1
    <3> QED
      BY <1>2, <3>2, <3>3
  <2> QED
    BY <2>1, <2>2
<1>4. /\ index + 1 \in 1 .. AT_CMD_MAX_LEN
      /\ \A i \in 0 .. (index + 1) - 1 : i \in 0 .. index
      /\ index + 1 = AT_CMD_MAX_LEN \/ node'[index + 1] = NUL
  BY <1>1, <1>2, MaxLenAssumption
<1> DEFINE Ends(n) == {i \in 0 .. index + 1 : i = AT_CMD_MAX_LEN \/ n[i] = NUL}
<1>5. PICK len \in Ends(node') : \A i \in Ends(node') : len <= i
  <2>1. index + 1 \in Ends(node') /\ Ends(node') \in SUBSET Nat
    BY <1>1, <1>4
  <2> QED
    BY <2>1, LeastOf
<1>6. /\ len \in 0 .. AT_CMD_MAX_LEN /\ len \in 0 .. index + 1
      /\ \A i \in 0 .. len - 1 : node'[i] # NUL /\ i \in 0 .. index
      /\ len = AT_CMD_MAX_LEN \/ node'[len] = NUL
  <2>1. len \in 0 .. index + 1 /\ len \in 0 .. AT_CMD_MAX_LEN
    <3>1. len \in 0 .. index + 1
      OBVIOUS
    <3> QED
      BY <1>1, <3>1, MaxLenAssumption
  <2>2. ASSUME NEW i \in 0 .. len - 1 PROVE node'[i] # NUL /\ i \in 0 .. index
    <3>1. i \in 0 .. index /\ i \in 0 .. index + 1 /\ ~(len <= i)
      BY <1>1, <2>1
    <3>2. i \notin Ends(node')
      BY <1>5, <3>1
    <3> QED
      BY <3>1, <3>2
  <2> QED
    BY <2>1, <2>2
<1>7. TextOf(node') = [i \in 1 .. len |-> node'[i - 1]]
  <2>1. \A n : /\ \A i \in 0 .. len - 1 : n[i] # NUL
               /\ len = AT_CMD_MAX_LEN \/ n[len] = NUL
               => TextOf(n) = [i \in 1 .. len |-> n[i - 1]]
    BY <1>6, TextIs
  <2> QED
    BY <1>6, <2>1
<1>8. \A i \in 1 .. len : i - 1 \in 0 .. len - 1
  BY <1>6
<1>9. TextOf(node') \in [1 .. len -> Byte \ {NUL}]
  BY <1>3, <1>6, <1>7, <1>8
<1> QED
  BY <1>6, <1>9, LineAssumption

LineIn(s, e) == SubSeq(s, StartIn(s, e) + 1, e)

LEMMA LineIs ==
  ASSUME NEW s \in Seq(Byte), NEW e \in 1 .. Len(s)
  PROVE  LineIn(s, e) = [i \in 1 .. e - StartIn(s, e) |-> s[StartIn(s, e) + i]]
<1>1. StartIn(s, e) \in 0 .. e - 1
  BY StartFacts
<1>2. PICK x \in 0 .. e - 1 : x = StartIn(s, e)
  BY <1>1
<1>3. SubSeq(s, x + 1, e) = [i \in 1 .. e - x |-> s[x + i]]
  <2> DEFINE l == SubSeq(s, x + 1, e)
  <2>1. l \in Seq(Byte) /\ Len(l) = e - x /\ DOMAIN l = 1 .. Len(l)
    OBVIOUS
  <2>2. \A i \in 1 .. e - x : l[i] = s[x + i]
    OBVIOUS
  <2>3. l = [i \in DOMAIN l |-> l[i]]
    <3> HIDE DEF l
    <3> QED
      BY <2>1
  <2> HIDE DEF l
  <2>4. l = [i \in 1 .. e - x |-> s[x + i]]
    BY <2>1, <2>2, <2>3
  <2> QED
    BY <2>4 DEF l
<1> QED
  BY <1>2, <1>3 DEF LineIn

\* On a clean stream it is the bytes since the last boundary.
LEMMA CleanText ==
  ASSUME RxInv, NEW b \in Byte, MC323A_RX(b), CleanIn(stream'), EndsIn(stream', Len(stream'))
  PROVE  TextOf(node') = LineIn(stream', Len(stream'))
<1>1. Adds(stream, b, stream') /\ Len(stream) \in Nat
  BY RxByte
<1>2. /\ stream' \in Seq(Byte) /\ NoLongIn(stream') /\ Len(stream') \in Nat /\ Len(stream') > 0
  BY <1>1, CleanBefore DEF Adds
<1> DEFINE n == Len(stream')
           start == StartIn(stream', Len(stream'))
<1>3. n \in 1 .. n + 1 /\ n \in 1 .. n
  BY <1>2
<1>4. stream'[start + 1] # "LF" /\ n - start <= AT_CMD_MAX_LEN
  BY <1>2, <1>3, CleanFirst DEF CleanIn
<1>5. start \in 0 .. n - 1
  BY <1>2, StartFacts
<1>6. WholeLines'
  BY WholeLinesStep
<1>7. /\ \A i \in 1 .. n - start : node'[i - 1] = stream'[start + i]
      /\ n - start < AT_CMD_MAX_LEN => node'[n - start] = NUL
  BY <1>2, <1>4, <1>6, OfTheStream DEF WholeLines
<1>8. LineIn(stream', n) = [i \in 1 .. n - start |-> stream'[start + i]]
  BY <1>2, <1>3, LineIs
<1> HIDE DEF n, start
<1>9. n - start \in 1 .. AT_CMD_MAX_LEN /\ (n - start = AT_CMD_MAX_LEN \/ node'[n - start] = NUL)
  BY <1>3, <1>4, <1>5, <1>7, MaxLenAssumption
<1>10. \A i \in 0 .. (n - start) - 1 : node'[i] # NUL
  <2> TAKE i \in 0 .. (n - start) - 1
  <2>1. /\ i + 1 \in 1 .. n - start /\ (i + 1) - 1 = i /\ start + (i + 1) \in 1 .. n
    BY <1>3, <1>5, <1>9, MaxLenAssumption
  <2>2. node'[i] = stream'[start + (i + 1)]
    BY <1>7, <2>1
  <2>3. stream'[start + (i + 1)] # NUL
    BY <2>1 DEF n, CleanIn
  <2> QED
    BY <2>2, <2>3
<1>11. TextOf(node') = [i \in 1 .. n - start |-> node'[i - 1]]
  <2>1. \A m : /\ \A i \in 0 .. (n - start) - 1 : m[i] # NUL
               /\ n - start = AT_CMD_MAX_LEN \/ m[n - start] = NUL
               => TextOf(m) = [i \in 1 .. n - start |-> m[i - 1]]
    BY <1>9, TextIs
  <2> QED
    BY <1>9, <1>10, <2>1
<1>12. TextOf(node') = [i \in 1 .. n - start |-> stream'[start + i]]
  BY <1>7, <1>11
<1> QED
  BY <1>8, <1>12 DEF n
-----------------------------------------------------------------------------
(* From the wire to the command table                                      *)

\* e is where line number k of s ends.
Nth(s, e, k) == e \in EndsOf(s) /\ Cardinality({f \in EndsOf(s) : f <= e}) = k

LEMMA EndsFinite ==
  ASSUME NEW s \in Seq(Byte)
  PROVE  /\ EndsOf(s) \subseteq 1 .. Len(s) /\ IsFiniteSet(EndsOf(s)) /\ Cardinality(EndsOf(s)) \in Nat
         /\ \A e : IsFiniteSet({f \in EndsOf(s) : f <= e})
<1>1. IsFiniteSet(1 .. Len(s))
  BY FS_Interval
<1>2. EndsOf(s) \subseteq 1 .. Len(s)
  BY DEF EndsOf
<1> QED
  BY <1>1, <1>2, FS_Subset, FS_CardinalityType

\* No two lines have the same number.
LEMMA NthUnique ==
  ASSUME NEW s \in Seq(Byte), NEW k, NEW d, NEW e, Nth(s, d, k), Nth(s, e, k)
  PROVE  d = e
<1>1. ASSUME NEW x \in EndsOf(s), NEW y \in EndsOf(s), x < y
      PROVE  Cardinality({f \in EndsOf(s) : f <= x}) # Cardinality({f \in EndsOf(s) : f <= y})
  <2> DEFINE X == {f \in EndsOf(s) : f <= x}
             Y == {f \in EndsOf(s) : f <= y}
  <2>1. \A f \in EndsOf(s) : f \in Nat
    BY EndsFinite
  <2>2. X \subseteq Y /\ y \in Y /\ y \notin X
    BY <1>1, <2>1
  <2>3. IsFiniteSet(Y)
    BY EndsFinite
  <2> HIDE DEF X, Y
  <2>4. Cardinality(X) # Cardinality(Y)
    BY <2>2, <2>3, FS_Subset
  <2> QED
    BY <2>4 DEF X, Y
<1>2. d \in Nat /\ e \in Nat /\ d \in EndsOf(s) /\ e \in EndsOf(s)
  BY EndsFinite DEF Nth
<1> QED
  BY <1>1, <1>2 DEF Nth

\* One more byte leaves the earlier lines and their numbers alone, and at "\r\n"
\* adds a line.
LEMMA EndsGrow ==
  ASSUME NEW s, NEW b, NEW t, Adds(s, b, t)
  PROVE  /\ \A e, k : Nth(s, e, k) => Nth(t, e, k) /\ LineIn(t, e) = LineIn(s, e)
         /\ ~EndsIn(t, Len(t)) => EndsOf(t) = EndsOf(s)
         /\ EndsIn(t, Len(t)) => /\ Cardinality(EndsOf(t)) = Cardinality(EndsOf(s)) + 1
                                 /\ Nth(t, Len(t), Cardinality(EndsOf(t)))
<1>1. /\ s \in Seq(Byte) /\ t \in Seq(Byte) /\ Len(t) = Len(s) + 1 /\ Len(s) \in Nat
      /\ \A c \in 1 .. Len(s) : t[c] = s[c]
      /\ \A c \in 0 .. Len(s) : EndsIn(t, c) <=> EndsIn(s, c)
      /\ \A k \in 1 .. Len(s) + 1 : StartIn(t, k) = StartIn(s, k)
  BY OneMoreByte DEF Adds
<1>2. EndsOf(t) = EndsOf(s) \cup IF EndsIn(t, Len(t)) THEN {Len(t)} ELSE {}
  <2>1. /\ \A k \in 1 .. Len(t) : k \in 1 .. Len(s) \/ k = Len(t)
        /\ \A k \in 1 .. Len(s) : k \in 0 .. Len(s) /\ k \in 1 .. Len(t) /\ k # Len(t)
        /\ Len(t) \in 1 .. Len(t)
    BY <1>1
  <2> QED
    BY <1>1, <2>1 DEF EndsOf
<1>3. /\ EndsOf(s) \subseteq 1 .. Len(s) /\ IsFiniteSet(EndsOf(s)) /\ Cardinality(EndsOf(s)) \in Nat
  BY <1>1, EndsFinite
<1>4. \A e \in EndsOf(s) : {f \in EndsOf(t) : f <= e} = {f \in EndsOf(s) : f <= e}
  <2> TAKE e \in EndsOf(s)
  <2>1. ~(Len(t) <= e)
    BY <1>1, <1>3
  <2> QED
    BY <1>2, <2>1
<1>5. ASSUME NEW e, NEW k, Nth(s, e, k) PROVE Nth(t, e, k) /\ LineIn(t, e) = LineIn(s, e)
  <2>1. e \in EndsOf(s) /\ e \in 1 .. Len(s) /\ e \in 1 .. Len(t) /\ e \in 1 .. Len(s) + 1
    BY <1>1, <1>3, <1>5 DEF Nth
  <2>2. Nth(t, e, k)
    BY <1>2, <1>4, <1>5, <2>1 DEF Nth
  <2>3. PICK x \in 0 .. e - 1 : x = StartIn(s, e) /\ x = StartIn(t, e)
    BY <1>1, <2>1, StartFacts
  <2>4. /\ LineIn(s, e) = [i \in 1 .. e - x |-> s[x + i]]
        /\ LineIn(t, e) = [i \in 1 .. e - x |-> t[x + i]]
    BY <1>1, <2>1, <2>3, LineIs
  <2>5. \A i \in 1 .. e - x : x + i \in 1 .. Len(s)
    BY <1>1, <2>1
  <2>6. \A i \in 1 .. e - x : t[x + i] = s[x + i]
    BY <1>1, <2>5
  <2> QED
    BY <2>2, <2>4, <2>6
<1>6. ASSUME EndsIn(t, Len(t))
      PROVE  /\ Cardinality(EndsOf(t)) = Cardinality(EndsOf(s)) + 1
             /\ Nth(t, Len(t), Cardinality(EndsOf(t)))
  <2>1. EndsOf(t) = EndsOf(s) \cup {Len(t)} /\ Len(t) \notin EndsOf(s)
    BY <1>1, <1>2, <1>3, <1>6
  <2>2. Cardinality(EndsOf(t)) = Cardinality(EndsOf(s)) + 1
    BY <1>3, <2>1, FS_AddElement
  <2>3. {f \in EndsOf(t) : f <= Len(t)} = EndsOf(t)
    <3>1. EndsOf(t) \subseteq 1 .. Len(t)
      BY <1>1, EndsFinite
    <3> QED
      BY <1>1, <3>1
  <2> QED
    BY <2>1, <2>2, <2>3 DEF Nth
<1> QED
  BY <1>2, <1>5, <1>6

\* The ring sees steps of its own: MC323A_RX hands it nothing but lines.
LEMMA RingSteps ==
  ASSUME RxInv, [MLNext]_mlVars
  PROVE  [RingNext]_ringVars
<1>1. CASE Thread
  BY <1>1 DEF Thread, TakeLine, RingNext
<1>2. ASSUME NEW b \in Byte, Interrupt(b) PROVE [RingNext]_ringVars
  <2>1. CASE finished'
    <3>1. MC323A_RX(b) /\ PutLine(TextOf(node'))
      BY <1>2, <2>1 DEF Interrupt
    <3>2. TextOf(node') \in Line
      BY <2>1, <3>1, FinishedText
    <3>3. \A l : l \in Line /\ PutLine(l) => RingNext
      BY DEF RingNext
    <3> QED
      BY <3>1, <3>2, <3>3
  <2>2. CASE ~finished'
    BY <1>2, <2>2 DEF Interrupt
  <2> QED
    BY <2>1, <2>2
<1>3. CASE UNCHANGED mlVars
  BY <1>3 DEF mlVars
<1> QED
  BY <1>1, <1>2, <1>3 DEF MLNext

\* The receiver byte by byte drives the ring as AtRing says: every call of MC323A_RX
\* puts in one of the lines, or leaves the ring alone, so what is proved of AtRing
\* holds of the whole path.
THEOREM ModemLinesImplementRing == MLSpec => RingSpec
<1>1. MLInit => RingInit
  BY DEF MLInit
<1>2. RxInv /\ WholeLines /\ [MLNext]_mlVars => [RingNext]_ringVars
  BY RingSteps
<1> QED
  BY <1>1, <1>2, RxInvHolds, PTL DEF MLSpec, RingSpec

LEMMA RingInvHolds == MLSpec => []IndInv
BY ModemLinesImplementRing, IndInvHolds, PTL

\* The k-th line handed over, read or not.
Handed(k) == IF k <= Len(decoded) THEN decoded[k] ELSE unread[k - Len(decoded)]

\* DecodesTheStream with the lines still in the ring.
DecodeInv ==
  /\ decoded \in Seq(Line \cup {NoCommand})
  /\ ~overrun /\ CleanIn(stream) =>
       /\ Len(decoded) + Len(unread) = Cardinality(EndsOf(stream))
       /\ \A k \in 1 .. Len(decoded) + Len(unread) :
            \E e : Nth(stream, e, k) /\ Handed(k) = LineIn(stream, e)

LEMMA DecodeInit == MLInit => DecodeInv
<1> SUFFICES ASSUME MLInit PROVE DecodeInv
  OBVIOUS
<1>1. decoded = <<>> /\ unread = <<>> /\ stream = <<>>
  BY DEF MLInit, Init, RingInit
<1>2. EndsOf(stream) = {}
  BY <1>1 DEF EndsOf
<1>3. Cardinality(EndsOf(stream)) = 0
  BY <1>2, FS_EmptySet
<1> QED
  BY <1>1, <1>3 DEF DecodeInv

\* A line moves from the ring to DecodeCommand.
LEMMA DecodeThread ==
  ASSUME IndInv, DecodeInv, Thread
  PROVE  DecodeInv'
<1>1. UNCHANGED stream /\ unread \in Seq(Line) /\ decoded \in Seq(Line \cup {NoCommand})
  BY DEF Thread, vars, IndInv, RingTypeOK, DecodeInv
<1>2. CASE pc = "clear" /\ ~overrun
  <2>1. Clear
    BY <1>2 DEF Thread, TakeLine, SemTake, NotReady, BeginDecode, EndDecode, Dispatch
  <2>2. /\ unread' = Tail(unread) /\ decoded' = Append(decoded, Value) /\ overrun' = overrun
    BY <1>2, <2>1 DEF Clear, Thread
  <2>3. Len(unread) > 0 /\ Value = unread[1] /\ Value \in Line \cup {NoCommand}
    BY <1>2 DEF IndInv, RingTypeOK
  <2>4. /\ Len(unread) \in Nat /\ Len(decoded) \in Nat
        /\ Len(unread') = Len(unread) - 1 /\ Len(decoded') = Len(decoded) + 1
        /\ decoded' \in Seq(Line \cup {NoCommand})
        /\ \A i \in 1 .. Len(unread) - 1 : unread'[i] = unread[i + 1]
        /\ \A i \in 1 .. Len(decoded) : decoded'[i] = decoded[i]
        /\ decoded'[Len(decoded) + 1] = unread[1]
    BY <1>1, <2>2, <2>3
  <2>5. Len(decoded') + Len(unread') = Len(decoded) + Len(unread)
    BY <2>4
  <2>6. \A k \in 1 .. Len(decoded) + Len(unread) : Handed(k)' = Handed(k)
    <3> TAKE k \in 1 .. Len(decoded) + Len(unread)
    <3>1. CASE k <= Len(decoded)
      <4>1. k <= Len(decoded') /\ decoded'[k] = decoded[k]
        BY <2>4, <3>1
      <4> QED
        BY <3>1, <4>1 DEF Handed
    <3>2. CASE k = Len(decoded) + 1
      <4>1. k <= Len(decoded') /\ ~(k <= Len(decoded)) /\ k - Len(decoded) = 1
        BY <2>4, <3>2
      <4> QED
        BY <2>4, <3>2, <4>1 DEF Handed
    <3>3. CASE k > Len(decoded) + 1
      <4>1. /\ ~(k <= Len(decoded')) /\ ~(k <= Len(decoded))
            /\ k - Len(decoded') \in 1 .. Len(unread) - 1
            /\ (k - Len(decoded')) + 1 = k - Len(decoded)
        BY <2>4, <3>3
      <4>2. unread'[k - Len(decoded')] = unread[k - Len(decoded)]
        BY <2>4, <4>1
      <4> QED
        BY <4>1, <4>2 DEF Handed
    <3> QED
      BY <2>4, <3>1, <3>2, <3>3
  <2>7. DecodeInv
    OBVIOUS
  <2> QED
    BY <1>1, <1>2, <2>2, <2>4, <2>5, <2>6, <2>7 DEF DecodeInv
<1>3. CASE ~(pc = "clear" /\ ~overrun)
  <2>1. decoded' = decoded
    BY <1>3 DEF Thread
  <2>2. overrun' = overrun /\ (overrun \/ unread' = unread)
    BY <1>3 DEF Thread, TakeLine, SemTake, NotReady, BeginDecode, EndDecode, Dispatch, Clear
  <2> QED
    BY <1>1, <2>1, <2>2 DEF DecodeInv, Handed
<1> QED
  BY <1>2, <1>3

\* A byte arrives, and at "\r\n" a line is handed over.
LEMMA DecodeInterrupt ==
  ASSUME RxInv, IndInv, DecodeInv, NEW b \in Byte, Interrupt(b)
  PROVE  DecodeInv'
<1>1. MC323A_RX(b) /\ decoded' = decoded /\ decoded \in Seq(Line \cup {NoCommand})
  BY DEF Interrupt, DecodeInv
<1>2. unread \in Seq(Line) /\ Len(unread) \in Nat /\ Len(decoded) \in Nat
  BY <1>1 DEF IndInv, RingTypeOK
<1> SUFFICES ASSUME ~overrun', CleanIn(stream')
             PROVE  /\ Len(decoded') + Len(unread') = Cardinality(EndsOf(stream'))
                    /\ \A k \in 1 .. Len(decoded') + Len(unread') :
                         \E e : Nth(stream', e, k) /\ Handed(k)' = LineIn(stream', e)
  BY <1>1 DEF DecodeInv
<1>3. Adds(stream, b, stream')
  BY <1>1, RxByte
<1>4. CleanIn(stream) /\ stream \in Seq(Byte) /\ stream' \in Seq(Byte)
  BY <1>3, CleanBefore DEF Adds
<1>5. finished' <=> EndsIn(stream', Len(stream'))
  BY <1>1, FinishedExactly
<1>6. \A e, k : Nth(stream, e, k) => Nth(stream', e, k) /\ LineIn(stream', e) = LineIn(stream, e)
  BY <1>3, EndsGrow
<1>7. CASE ~finished'
  <2>1. UNCHANGED <<unread, overrun>>
    BY <1>7 DEF Interrupt, ringVars
  <2>2. EndsOf(stream') = EndsOf(stream)
    BY <1>3, <1>5, <1>7, EndsGrow
  <2>3. \A k : Handed(k)' = Handed(k)
    BY <1>1, <2>1 DEF Handed
  <2> QED
    BY <1>1, <1>4, <1>6, <2>1, <2>2, <2>3 DEF DecodeInv
<1>8. CASE finished'
  <2>1. PutLine(TextOf(node'))
    BY <1>8 DEF Interrupt
  <2>2. ~overrun /\ unread' = Append(unread, TextOf(node'))
    BY <2>1 DEF PutLine
  <2>3. TextOf(node') = LineIn(stream', Len(stream')) /\ TextOf(node') \in Line
    BY <1>1, <1>5, <1>8, CleanText, FinishedText
  <2>4. /\ Len(unread') = Len(unread) + 1 /\ unread'[Len(unread) + 1] = TextOf(node')
        /\ \A i \in 1 .. Len(unread) : unread'[i] = unread[i]
    BY <1>2, <2>2, <2>3
  <2>5. /\ Cardinality(EndsOf(stream')) = Cardinality(EndsOf(stream)) + 1
        /\ Nth(stream', Len(stream'), Cardinality(EndsOf(stream')))
    BY <1>3, <1>5, <1>8, EndsGrow
  <2>6. /\ Len(decoded) + Len(unread) = Cardinality(EndsOf(stream))
        /\ \A k \in 1 .. Len(decoded) + Len(unread) :
             \E e : Nth(stream, e, k) /\ Handed(k) = LineIn(stream, e)
    BY <1>4, <2>2 DEF DecodeInv
  <2>7. Len(decoded') + Len(unread') = Cardinality(EndsOf(stream'))
    BY <1>1, <1>2, <2>4, <2>5, <2>6
  <2>8. ASSUME NEW k \in 1 .. Len(decoded') + Len(unread')
        PROVE  \E e : Nth(stream', e, k) /\ Handed(k)' = LineIn(stream', e)
    <3>1. CASE k \in 1 .. Len(decoded) + Len(unread)
      <4>1. Handed(k)' = Handed(k)
        <5>1. ~(k <= Len(decoded)) => k - Len(decoded) \in 1 .. Len(unread)
          BY <1>2, <3>1
        <5>2. ~(k <= Len(decoded)) => unread'[k - Len(decoded)] = unread[k - Len(decoded)]
          BY <2>4, <5>1
        <5> QED
          BY <1>1, <5>2 DEF Handed
      <4>2. PICK e : Nth(stream, e, k) /\ Handed(k) = LineIn(stream, e)
        BY <2>6, <3>1
      <4>3. Nth(stream', e, k) /\ Handed(k)' = LineIn(stream', e)
        BY <1>6, <4>1, <4>2
      <4> QED
        BY <4>3
    <3>2. CASE k = Len(decoded) + Len(unread) + 1
      <4>1. ~(k <= Len(decoded)) /\ k - Len(decoded) = Len(unread) + 1
        BY <1>2, <3>2
      <4>2. Handed(k)' = TextOf(node')
        BY <1>1, <2>4, <4>1 DEF Handed
      <4>3. k = Cardinality(EndsOf(stream'))
        BY <2>5, <2>6, <3>2
      <4> QED
        BY <2>3, <2>5, <4>2, <4>3
    <3> QED
      BY <1>1, <1>2, <2>4, <3>1, <3>2
  <2> QED
    BY <2>7, <2>8
<1> QED
  BY <1>7, <1>8

LEMMA DecodeInvHolds == MLSpec => []DecodeInv
<1>1. MLInit => DecodeInv
  BY DecodeInit
<1>2. RxInv /\ WholeLines /\ IndInv /\ DecodeInv /\ [MLNext]_mlVars => DecodeInv'
  <2> SUFFICES ASSUME RxInv, IndInv, DecodeInv, [MLNext]_mlVars PROVE DecodeInv'
    OBVIOUS
  <2>1. CASE UNCHANGED mlVars
    <3>1. UNCHANGED <<decoded, unread, overrun, stream>>
      BY <2>1 DEF mlVars, vars, ringVars
    <3> QED
      BY <3>1 DEF DecodeInv, Handed
  <2> QED
    BY <2>1, DecodeThread, DecodeInterrupt DEF MLNext
<1> QED
  BY <1>1, <1>2, RxInvHolds, RingInvHolds, PTL DEF MLSpec

\* Until the ring overruns, what AT_thread_entry decodes of a clean stream is its
\* lines, each whole, once and in their order, for every buffer length and every
\* number of nodes.
THEOREM DecodesTheStreamHolds == MLSpec => []DecodesTheStream
<1>1. RxInv /\ WholeLines /\ IndInv /\ DecodeInv => DecodesTheStream
  <2> SUFFICES ASSUME RxInv, IndInv, DecodeInv, ~overrun, CleanStream
               PROVE  /\ Len(decoded) + Len(unread) = Cardinality(LineEnds)
                      /\ \A k \in 1 .. Len(decoded) :
                           decoded[k] = SubSeq(stream, LineStart(LineNo(k)) + 1, LineNo(k))
    BY DEF DecodesTheStream
  <2>1. /\ stream \in Seq(Byte) /\ Len(decoded) \in Nat /\ Len(unread) \in Nat
    BY DEF RxInv, RxTypes, DecodeInv, IndInv, RingTypeOK
  <2>2. CleanIn(stream) /\ LineEnds = EndsOf(stream)
    BY CleanOfTheStream
  <2>3. ASSUME NEW k \in 1 .. Len(decoded)
        PROVE  decoded[k] = SubSeq(stream, LineStart(LineNo(k)) + 1, LineNo(k))
    <3>1. k \in 1 .. Len(decoded) + Len(unread) /\ k <= Len(decoded)
      BY <2>1
    <3>2. PICK e : Nth(stream, e, k) /\ Handed(k) = LineIn(stream, e)
      BY <2>2, <3>1 DEF DecodeInv
    <3>3. \E d \in LineEnds : Cardinality({f \in LineEnds : f <= d}) = k
      BY <2>2, <3>2 DEF Nth
    <3>4. LineNo(k) \in LineEnds /\ Cardinality({f \in LineEnds : f <= LineNo(k)}) = k
      BY <3>3 DEF LineNo
    <3>5. Nth(stream, LineNo(k), k)
      BY <2>2, <3>4 DEF Nth
    <3>6. LineNo(k) = e
      BY <2>1, <3>2, <3>5, NthUnique
    <3>7. LineStart(e) = StartIn(stream, e)
      BY OfTheStream
    <3> QED
      BY <3>1, <3>2, <3>6, <3>7 DEF Handed, LineIn
  <2> QED
    BY <2>2, <2>3 DEF DecodeInv
<1> QED
  BY <1>1, RxInvHolds, RingInvHolds, DecodeInvHolds, PTL
=============================================================================
