---------------------------- MODULE AtRing_proofs ----------------------------
(***************************************************************************)
(* Proofs about the line ring for every number of nodes and every set of   *)
(* lines.                                                                  *)
(***************************************************************************)
EXTENDS AtRing, Integers, TLAPS

\* RingHoldsUnread is inductive once it also knows what the thread holds in
\* its hands: a node it looks at is the oldest unhandled line, and what it saw
\* there is that line.
IndInv ==
  /\ RingTypeOK
  /\ RingHoldsUnread
  /\ ~overrun /\ pc \in {"check", "decode", "clear"} => Len(unread) > 0
  /\ ~overrun /\ pc \in {"decode", "clear"} => seen = unread[1]
  /\ ~overrun /\ pc = "clear" => Value = unread[1]

\* The ring has no way out of its nodes.
LEMMA NextType == \A i \in Nodes : next(i) \in Nodes
  BY NodeNumAssumption DEF next, Nodes

\* The empty ring satisfies the inductive invariant.
LEMMA InitIndInv == RingInit => IndInv
<1> SUFFICES ASSUME RingInit PROVE IndInv
  OBVIOUS
<1> USE NodeNumAssumption DEF RingInit, ATcmdBuf_init
<1>1. RingTypeOK
  <2>1. Ready \in [Nodes -> BOOLEAN] /\ overrun \in BOOLEAN
    OBVIOUS
  <2> QED
    BY <2>1 DEF RingTypeOK, Nodes
<1>2. Len(unread) = 0 /\ Taken = 0
  BY DEF Taken
<1>3. \A k \in 0 .. NodeNum - 1 : NodeAt(k) \in Nodes
  BY DEF NodeAt, Nodes
<1>4. RingHoldsUnread
  BY <1>2, <1>3 DEF RingHoldsUnread, NodeAt, Nodes
<1> QED
  BY <1>1, <1>4 DEF IndInv

\* Types are kept by every step.
LEMMA TypeInv == RingTypeOK /\ [RingNext]_ringVars /\ (pc = "clear" /\ ~overrun => Len(unread) > 0)
                   => RingTypeOK'
<1> SUFFICES ASSUME RingTypeOK, [RingNext]_ringVars, pc = "clear" /\ ~overrun => Len(unread) > 0
             PROVE  RingTypeOK'
  OBVIOUS
<1> USE NodeNumAssumption
<1>1. ASSUME NEW l \in Line, PutLine(l) PROVE RingTypeOK'
  <2>1. Str' \in [Nodes -> Line \cup {NoCommand}]
    BY <1>1 DEF PutLine, RingTypeOK
  <2>2. Ready' \in [Nodes -> BOOLEAN] /\ overrun' \in BOOLEAN
    BY <1>1 DEF PutLine, RingTypeOK
  <2>3. pWrite' \in Nodes
    BY <1>1, NextType DEF PutLine, RingTypeOK
  <2>4. unread' \in Seq(Line)
    <3>1. Append(unread, l) \in Seq(Line) /\ <<>> \in Seq(Line)
      BY DEF RingTypeOK
    <3> QED
      BY <1>1, <3>1, Zenon DEF PutLine
  <2> QED
    BY <1>1, <2>1, <2>2, <2>3, <2>4 DEF PutLine, RingTypeOK
<1>2. CASE SemTake
  BY <1>2 DEF SemTake, RingTypeOK
<1>3. CASE NotReady
  BY <1>3 DEF NotReady, RingTypeOK, nodes
<1>4. CASE BeginDecode
  BY <1>4 DEF BeginDecode, RingTypeOK, nodes
<1>5. CASE EndDecode
  <2>1. Value' \in Line \cup {NoCommand}
    BY <1>5 DEF EndDecode, RingTypeOK
  <2> QED
    BY <1>5, <2>1 DEF EndDecode, RingTypeOK, nodes
<1>6. CASE Clear
  <2>1. Ready' \in [Nodes -> BOOLEAN]
    BY <1>6 DEF Clear, RingTypeOK
  <2>2. pRead' \in Nodes
    BY <1>6, NextType DEF Clear, RingTypeOK
  <2>3. unread' \in Seq(Line)
    <3>1. ~overrun => Tail(unread) \in Seq(Line)
      BY <1>6 DEF Clear, RingTypeOK
    <3>2. <<>> \in Seq(Line)
      OBVIOUS
    <3> QED
      BY <1>6, <3>1, <3>2, Zenon DEF Clear
  <2> QED
    BY <1>6, <2>1, <2>2, <2>3 DEF Clear, RingTypeOK
<1>7. CASE Dispatch
  BY <1>7 DEF Dispatch, RingTypeOK, nodes
<1>8. CASE UNCHANGED ringVars
  BY <1>8 DEF ringVars, RingTypeOK
<1> QED
  BY <1>1, <1>2, <1>3, <1>4, <1>5, <1>6, <1>7, <1>8 DEF RingNext

\* NodeAt counts the nodes off from pRead, each once.
LEMMA NodeAtFacts ==
  ASSUME pRead \in Nodes
  PROVE  /\ NodeAt(0) = pRead
         /\ \A k \in 0 .. NodeNum - 1 : NodeAt(k) \in Nodes
         /\ \A j, k \in 0 .. NodeNum - 1 : j # k => NodeAt(j) # NodeAt(k)
         /\ \A k \in 0 .. NodeNum - 1 :
              next(NodeAt(k)) = IF k + 1 = NodeNum THEN pRead ELSE NodeAt(k + 1)
  BY NodeNumAssumption DEF NodeAt, Nodes, next

\* MC323A_RX adding a line keeps the correspondence, or flags the overrun.
LEMMA PutLineInv ==
  ASSUME IndInv, RingTypeOK', NEW l \in Line, PutLine(l)
  PROVE  IndInv'
<1> USE NodeNumAssumption
<1>1. CASE overrun'
  BY <1>1 DEF IndInv, RingHoldsUnread
<1>2. CASE ~overrun'
  <2> DEFINE n == Len(unread)
  <2>1. ~overrun /\ ~Ready[pWrite] /\ unread' = Append(unread, l)
    BY <1>2 DEF PutLine, IndInv, RingTypeOK
  <2>2. pRead \in Nodes /\ n \in Nat /\ pRead' = pRead /\ unread \in Seq(Line)
    BY DEF IndInv, RingTypeOK, PutLine
  <2>3. n < NodeNum /\ pWrite = NodeAt(n)
    BY <2>1, <2>2, NodeAtFacts DEF IndInv, RingHoldsUnread
  <2>4. /\ Len(unread') = n + 1 /\ unread'[n + 1] = l
        /\ \A i \in 1 .. n : unread'[i] = unread[i]
    BY <2>1, <2>2
  <2>5. \A k : NodeAt(k)' = NodeAt(k)
    BY <2>2 DEF NodeAt
  <2>6. ASSUME NEW k \in 0 .. NodeNum - 1
        PROVE  /\ Ready'[NodeAt(k)'] <=> k < Len(unread')
               /\ k < Len(unread') => Str'[NodeAt(k)'] = unread'[k + 1]
    <3>1. CASE k = n
      <4>1. Ready'[pWrite] = TRUE /\ Str'[pWrite] = l
        BY DEF PutLine, IndInv, RingTypeOK
      <4> QED
        BY <2>2, <2>3, <2>4, <2>5, <3>1, <4>1
    <3>2. CASE k # n
      <4>1. NodeAt(k) # pWrite /\ NodeAt(k) \in Nodes
        BY <2>2, <2>3, <3>2, NodeAtFacts
      <4>2. Ready'[NodeAt(k)] = Ready[NodeAt(k)] /\ Str'[NodeAt(k)] = Str[NodeAt(k)]
        BY <4>1 DEF PutLine, IndInv, RingTypeOK
      <4>3. /\ Ready[NodeAt(k)] <=> k < n
            /\ k < n => Str[NodeAt(k)] = unread[k + 1]
        BY <2>1 DEF IndInv, RingHoldsUnread
      <4> QED
        BY <2>2, <2>4, <2>5, <3>2, <4>2, <4>3
    <3> QED
      BY <3>1, <3>2
  <2>7. pWrite' = IF Len(unread') = NodeNum THEN pRead' ELSE NodeAt(Len(unread))'
    BY <2>2, <2>3, <2>4, <2>5, NodeAtFacts DEF PutLine
  <2>8. ATsem' + Taken' = Len(unread')
    BY <2>1, <2>2, <2>4 DEF PutLine, IndInv, RingHoldsUnread, RingTypeOK, Taken
  <2>9. RingHoldsUnread'
    BY <2>2, <2>3, <2>4, <2>6, <2>7, <2>8 DEF RingHoldsUnread
  <2> QED
    BY <2>1, <2>2, <2>4, <2>9 DEF IndInv, PutLine
<1> QED
  BY <1>1, <1>2

\* The thread letting go of a node keeps the correspondence.
LEMMA ClearInv ==
  ASSUME IndInv, RingTypeOK', Clear
  PROVE  IndInv'
<1> USE NodeNumAssumption
<1>1. CASE overrun
  BY <1>1 DEF IndInv, RingHoldsUnread, Clear
<1>2. CASE ~overrun
  <2> DEFINE n == Len(unread)
  <2>1. /\ pRead \in Nodes /\ n \in Nat /\ n > 0 /\ n <= NodeNum /\ unread \in Seq(Line)
        /\ pRead' = next(pRead) /\ unread' = Tail(unread) /\ pWrite' = pWrite
    BY <1>2 DEF IndInv, RingTypeOK, RingHoldsUnread, Clear
  <2>2. Len(unread') = n - 1 /\ \A i \in 1 .. n - 1 : unread'[i] = unread[i + 1]
    BY <2>1
  <2>3. /\ \A k \in 0 .. NodeNum - 2 : NodeAt(k)' = NodeAt(k + 1)
        /\ NodeAt(NodeNum - 1)' = pRead
    BY <2>1 DEF NodeAt, next, Nodes
  <2>4. ASSUME NEW k \in 0 .. NodeNum - 1
        PROVE  /\ Ready'[NodeAt(k)'] <=> k < Len(unread')
               /\ k < Len(unread') => Str'[NodeAt(k)'] = unread'[k + 1]
    <3>1. CASE k = NodeNum - 1
      <4>1. Ready'[pRead] = FALSE
        BY DEF Clear, IndInv, RingTypeOK
      <4> QED
        BY <2>1, <2>2, <2>3, <3>1, <4>1
    <3>2. CASE k < NodeNum - 1
      <4>1. NodeAt(k)' = NodeAt(k + 1) /\ NodeAt(k + 1) # pRead /\ NodeAt(k + 1) \in Nodes
        BY <2>1, <2>3, <3>2, NodeAtFacts
      <4>2. Ready'[NodeAt(k + 1)] = Ready[NodeAt(k + 1)] /\ Str' = Str
        BY <4>1 DEF Clear, IndInv, RingTypeOK
      <4>3. /\ Ready[NodeAt(k + 1)] <=> k + 1 < n
            /\ k + 1 < n => Str[NodeAt(k + 1)] = unread[(k + 1) + 1]
        BY <1>2, <3>2 DEF IndInv, RingHoldsUnread
      <4> QED
        BY <2>1, <2>2, <4>1, <4>2, <4>3
    <3> QED
      BY <3>1, <3>2
  <2>5. pWrite' = IF Len(unread') = NodeNum THEN pRead' ELSE NodeAt(Len(unread))'
    <3>1. pWrite = IF n = NodeNum THEN pRead ELSE NodeAt(n)
      BY <1>2 DEF IndInv, RingHoldsUnread
    <3> QED
      BY <2>1, <2>2, <2>3, <3>1
  <2>6. ATsem' + Taken' = Len(unread')
    BY <1>2, <2>1, <2>2 DEF Clear, IndInv, RingHoldsUnread, RingTypeOK, Taken
  <2>7. RingHoldsUnread'
    BY <2>1, <2>2, <2>4, <2>5, <2>6 DEF RingHoldsUnread
  <2> QED
    BY <2>7 DEF IndInv, Clear
<1> QED
  BY <1>1, <1>2 DEF IndInv, RingTypeOK

\* The other steps leave nodes and history alone and only move the thread.
LEMMA ThreadInv ==
  ASSUME IndInv, RingTypeOK',
         SemTake \/ NotReady \/ BeginDecode \/ EndDecode \/ Dispatch \/ UNCHANGED ringVars
  PROVE  IndInv'
<1> USE NodeNumAssumption
<1>1. /\ Str' = Str /\ Ready' = Ready /\ pWrite' = pWrite /\ pRead' = pRead
      /\ unread' = unread /\ overrun' = overrun
  BY DEF SemTake, NotReady, BeginDecode, EndDecode, Dispatch, ringVars, nodes
<1>2. CASE overrun
  BY <1>1, <1>2 DEF IndInv, RingHoldsUnread
<1>3. CASE ~overrun
  <2>1. \A k : NodeAt(k)' = NodeAt(k)
    BY <1>1 DEF NodeAt
  <2>2. pRead \in Nodes /\ NodeAt(0) = pRead /\ Len(unread) \in Nat /\ ATsem \in Nat
    BY NodeAtFacts DEF IndInv, RingTypeOK
  <2>3. /\ Ready[pRead] <=> 0 < Len(unread)
        /\ 0 < Len(unread) => Str[pRead] = unread[1]
        /\ ATsem + Taken = Len(unread)
    BY <1>3, <2>2 DEF IndInv, RingHoldsUnread
  <2>4. CASE NotReady
    BY <1>3, <2>2, <2>3, <2>4 DEF NotReady, IndInv
  <2>5. CASE SemTake \/ BeginDecode \/ EndDecode \/ Dispatch \/ UNCHANGED ringVars
    <3>1. ATsem' + Taken' = Len(unread')
      BY <1>1, <2>2, <2>3, <2>5 DEF SemTake, BeginDecode, EndDecode, Dispatch, ringVars, nodes, Taken
    <3>2. RingHoldsUnread'
      BY <1>1, <1>3, <2>1, <3>1 DEF IndInv, RingHoldsUnread
    <3>3. /\ pc' \in {"check", "decode", "clear"} => Len(unread') > 0
          /\ pc' \in {"decode", "clear"} => seen' = unread'[1]
      BY <1>1, <1>3, <2>2, <2>3, <2>5
      DEF SemTake, BeginDecode, EndDecode, Dispatch, ringVars, IndInv, Taken
    <3>4. pc' = "clear" => Value' = unread'[1]
      BY <1>1, <1>3, <2>3, <2>5
      DEF SemTake, BeginDecode, EndDecode, Dispatch, ringVars, IndInv, Taken
    <3> QED
      BY <3>2, <3>3, <3>4 DEF IndInv
  <2> QED
    BY <2>4, <2>5
<1> QED
  BY <1>2, <1>3 DEF IndInv, RingTypeOK

\* The inductive invariant holds throughout.
THEOREM IndInvHolds == RingSpec => []IndInv
<1>1. RingInit => IndInv
  BY InitIndInv
<1>2. IndInv /\ [RingNext]_ringVars => IndInv'
  <2> SUFFICES ASSUME IndInv, [RingNext]_ringVars PROVE IndInv'
    OBVIOUS
  <2>1. RingTypeOK'
    BY TypeInv DEF IndInv
  <2> QED
    BY <2>1, PutLineInv, ClearInv, ThreadInv DEF RingNext
<1> QED
  BY <1>1, <1>2, PTL DEF RingSpec

\* Until MC323A_RX overruns the ring, Ready nodes, unhandled lines and semaphore
\* tokens correspond one to one, in order, for every number of nodes.
THEOREM RingHoldsUnreadHolds == RingSpec => []RingHoldsUnread
<1>1. IndInv => RingHoldsUnread
  BY DEF IndInv
<1> QED
  BY <1>1, IndInvHolds, PTL

\* Until then AT_thread_entry acts on the lines in the order of arrival, and
\* never on a mixture of two.
THEOREM HandlesOldestLineHolds == RingSpec => HandlesOldestLine
<1>1. IndInv /\ [RingNext]_ringVars
        => [pc = "clear" /\ pc' = "dispatch" /\ ~overrun
              => unread # <<>> /\ Value = Head(unread)]_ringVars
  <2> SUFFICES ASSUME IndInv, pc = "clear", ~overrun
               PROVE  unread # <<>> /\ Value = Head(unread)
    OBVIOUS
  <2>1. unread \in Seq(Line) /\ Len(unread) > 0 /\ Value = unread[1]
    BY DEF IndInv, RingTypeOK
  <2> QED
    BY <2>1
<1> QED
  BY <1>1, IndInvHolds, PTL DEF RingSpec, HandlesOldestLine
=============================================================================
