-------------------------- MODULE DecoderRing_proofs --------------------------
(***************************************************************************)
(* Proofs about the voice ring for every number of nodes, every sound      *)
(* buffer and any number of frames.                                        *)
(***************************************************************************)
EXTENDS DecoderRing, Integers, TLAPS

\* RingHoldsFrames is inductive as it stands: a token the decoder has taken
\* stands for a frame that is in the ring.
IndInv == TypeOK /\ RingHoldsFrames

\* The ring has no way out of its nodes.
LEMMA NextType == \A i \in Nodes : next(i) \in Nodes
  BY NumAssumption DEF next, Nodes

\* NodeAt counts the nodes off from pReadEncodeData, each once.
LEMMA NodeAtFacts ==
  ASSUME pReadEncodeData \in Nodes
  PROVE  /\ NodeAt(0) = pReadEncodeData
         /\ \A k \in 0 .. NUM - 1 : NodeAt(k) \in Nodes
         /\ \A j, k \in 0 .. NUM - 1 : j # k => NodeAt(j) # NodeAt(k)
         /\ \A k \in 0 .. NUM - 1 :
              next(NodeAt(k)) = IF k + 1 = NUM THEN pReadEncodeData ELSE NodeAt(k + 1)
  BY NumAssumption DEF NodeAt, Nodes, next

\* The empty ring satisfies the inductive invariant.
LEMMA InitIndInv == Init => IndInv
<1> SUFFICES ASSUME Init PROVE IndInv
  OBVIOUS
<1> USE NumAssumption, DevSizeAssumption DEF Init, ReceiveBufInit
<1>1. Ready \in [Nodes -> BOOLEAN] /\ HalfLeftEvent \in BOOLEAN /\ open \in BOOLEAN
  OBVIOUS
<1>2. TypeOK
  BY <1>1 DEF TypeOK, Nodes
<1>3. Len(queue) = 0 /\ Coming = 0 /\ Taken = 0
  BY DEF Coming, Taken
<1>4. \A k \in 0 .. NUM - 1 : NodeAt(k) \in Nodes
  BY DEF NodeAt, Nodes
<1>5. RingHoldsFrames
  BY <1>3, <1>4 DEF RingHoldsFrames, NodeAt, Nodes
<1> QED
  BY <1>2, <1>5 DEF IndInv

\* The splitter putting a frame into the ring.
LEMMA CopyInv ==
  ASSUME IndInv, Copy
  PROVE  IndInv'
<1> USE NumAssumption
<1> DEFINE n == Len(queue)
<1>1. /\ pReadEncodeData \in Nodes /\ n \in Nat /\ queue \in Seq(Nat) /\ received \in Nat
      /\ pReadEncodeData' = pReadEncodeData /\ queue' = Append(queue, received)
  BY DEF IndInv, TypeOK, Copy
<1>2. TypeOK'
  <2>1. Ready' \in [Nodes -> BOOLEAN] /\ HalfLeftEvent' \in BOOLEAN /\ open' \in BOOLEAN
    BY DEF Copy, IndInv, TypeOK, device
  <2>2. Data' \in [Nodes -> Nat] /\ pWriteEncodeData' \in Nodes
    BY NextType DEF Copy, IndInv, TypeOK
  <2>3. queue' \in Seq(Nat)
    BY <1>1
  <2> QED
    BY <2>1, <2>2, <2>3 DEF Copy, IndInv, TypeOK, device
<1>3. n < NUM /\ pWriteEncodeData = NodeAt(n)
  <2>1. ~Ready[pWriteEncodeData]
    BY DEF Copy
  <2> QED
    BY <1>1, <2>1, NodeAtFacts DEF IndInv, RingHoldsFrames
<1>4. /\ Len(queue') = n + 1 /\ queue'[n + 1] = received
      /\ \A i \in 1 .. n : queue'[i] = queue[i]
  BY <1>1
<1>5. \A k : NodeAt(k)' = NodeAt(k)
  BY <1>1 DEF NodeAt
<1>6. ASSUME NEW k \in 0 .. NUM - 1
      PROVE  /\ Ready'[NodeAt(k)'] <=> k < Len(queue')
             /\ k < Len(queue') => Data'[NodeAt(k)'] = queue'[k + 1]
  <2>1. CASE k = n
    <3>1. Ready'[pWriteEncodeData] = TRUE /\ Data'[pWriteEncodeData] = received
      BY DEF Copy, IndInv, TypeOK
    <3> QED
      BY <1>1, <1>3, <1>4, <1>5, <2>1, <3>1
  <2>2. CASE k # n
    <3>1. NodeAt(k) # pWriteEncodeData /\ NodeAt(k) \in Nodes
      BY <1>1, <1>3, <2>2, NodeAtFacts
    <3>2. Ready'[NodeAt(k)] = Ready[NodeAt(k)] /\ Data'[NodeAt(k)] = Data[NodeAt(k)]
      BY <3>1 DEF Copy, IndInv, TypeOK
    <3>3. /\ Ready[NodeAt(k)] <=> k < n
          /\ k < n => Data[NodeAt(k)] = queue[k + 1]
      BY DEF IndInv, RingHoldsFrames
    <3> QED
      BY <1>1, <1>4, <1>5, <2>2, <3>2, <3>3
  <2> QED
    BY <2>1, <2>2
<1>7. pWriteEncodeData' = IF Len(queue') = NUM THEN pReadEncodeData' ELSE NodeAt(Len(queue))'
  BY <1>1, <1>3, <1>4, <1>5, NodeAtFacts DEF Copy
<1>8. DecoderSem' + Coming' + Taken' = Len(queue')
  BY <1>1, <1>4 DEF Copy, IndInv, RingHoldsFrames, TypeOK, Coming, Taken
<1>9. RingHoldsFrames'
  BY <1>1, <1>3, <1>4, <1>6, <1>7, <1>8 DEF RingHoldsFrames
<1> QED
  BY <1>2, <1>9 DEF IndInv

\* The decoder letting go of a frame.
LEMMA AdvanceInv ==
  ASSUME IndInv, Advance
  PROVE  IndInv'
<1> USE NumAssumption
<1> DEFINE n == Len(queue)
<1>1. /\ pReadEncodeData \in Nodes /\ n \in Nat /\ n <= NUM /\ queue \in Seq(Nat)
      /\ pReadEncodeData' = next(pReadEncodeData) /\ queue' = Tail(queue)
      /\ pWriteEncodeData' = pWriteEncodeData
  BY DEF IndInv, TypeOK, RingHoldsFrames, Advance
<1>2. n > 0
  BY <1>1 DEF IndInv, TypeOK, RingHoldsFrames, Advance, Coming, Taken
<1>3. Len(queue') = n - 1 /\ \A i \in 1 .. n - 1 : queue'[i] = queue[i + 1]
  BY <1>1, <1>2
<1>4. TypeOK'
  <2>1. Ready' \in [Nodes -> BOOLEAN] /\ HalfLeftEvent' \in BOOLEAN /\ open' \in BOOLEAN
    BY DEF Advance, IndInv, TypeOK, device
  <2>2. pReadEncodeData' \in Nodes
    BY <1>1, NextType
  <2>3. queue' \in Seq(Nat)
    BY <1>1, <1>2
  <2> QED
    BY <2>1, <2>2, <2>3 DEF Advance, IndInv, TypeOK, device
<1>5. /\ \A k \in 0 .. NUM - 2 : NodeAt(k)' = NodeAt(k + 1)
      /\ NodeAt(NUM - 1)' = pReadEncodeData
  BY <1>1 DEF NodeAt, next, Nodes
<1>6. ASSUME NEW k \in 0 .. NUM - 1
      PROVE  /\ Ready'[NodeAt(k)'] <=> k < Len(queue')
             /\ k < Len(queue') => Data'[NodeAt(k)'] = queue'[k + 1]
  <2>1. CASE k = NUM - 1
    <3>1. Ready'[pReadEncodeData] = FALSE
      BY DEF Advance, IndInv, TypeOK
    <3> QED
      BY <1>1, <1>2, <1>3, <1>5, <2>1, <3>1
  <2>2. CASE k < NUM - 1
    <3>1. NodeAt(k)' = NodeAt(k + 1) /\ NodeAt(k + 1) # pReadEncodeData /\ NodeAt(k + 1) \in Nodes
      BY <1>1, <1>5, <2>2, NodeAtFacts
    <3>2. Ready'[NodeAt(k + 1)] = Ready[NodeAt(k + 1)] /\ Data' = Data
      BY <3>1 DEF Advance, IndInv, TypeOK
    <3>3. /\ Ready[NodeAt(k + 1)] <=> k + 1 < n
          /\ k + 1 < n => Data[NodeAt(k + 1)] = queue[(k + 1) + 1]
      BY <2>2 DEF IndInv, RingHoldsFrames
    <3> QED
      BY <1>1, <1>3, <3>1, <3>2, <3>3
  <2> QED
    BY <2>1, <2>2
<1>7. pWriteEncodeData' = IF Len(queue') = NUM THEN pReadEncodeData' ELSE NodeAt(Len(queue))'
  <2>1. pWriteEncodeData = IF n = NUM THEN pReadEncodeData ELSE NodeAt(n)
    BY DEF IndInv, RingHoldsFrames
  <2> QED
    BY <1>1, <1>2, <1>3, <1>5, <2>1
<1>8. DecoderSem' + Coming' + Taken' = Len(queue')
  BY <1>1, <1>2, <1>3 DEF Advance, IndInv, RingHoldsFrames, TypeOK, Coming, Taken
<1>9. RingHoldsFrames'
  BY <1>1, <1>2, <1>3, <1>6, <1>7, <1>8 DEF RingHoldsFrames
<1> QED
  BY <1>4, <1>9 DEF IndInv

\* Steps that leave the ring and the history alone and move no token out of
\* the account.
LEMMA RingUntouched ==
  ASSUME IndInv, TypeOK', UNCHANGED ring, queue' = queue,
         DecoderSem' + Coming' + Taken' = DecoderSem + Coming + Taken
  PROVE  IndInv'
<1>1. \A k : NodeAt(k)' = NodeAt(k)
  BY DEF NodeAt, ring
<1> QED
  BY <1>1 DEF IndInv, RingHoldsFrames, ring

\* Decode never finds the node not Ready.
LEMMA DecodeFindsFrame == IndInv /\ decoder = "check" => Ready[pReadEncodeData]
<1> SUFFICES ASSUME IndInv, decoder = "check" PROVE Ready[pReadEncodeData]
  OBVIOUS
<1>1. pReadEncodeData \in Nodes /\ Len(queue) \in Nat /\ DecoderSem \in Nat
  BY DEF IndInv, TypeOK
<1>2. 0 < Len(queue)
  BY <1>1 DEF IndInv, RingHoldsFrames, Coming, Taken
<1>3. NodeAt(0) = pReadEncodeData /\ 0 \in 0 .. NUM - 1
  BY <1>1, NodeAtFacts, NumAssumption
<1> QED
  BY <1>2, <1>3 DEF IndInv, RingHoldsFrames

\* Locking, signalling, waiting and playing.
LEMMA OtherInv ==
  ASSUME IndInv,
         \/ Receive \/ LockToCopy \/ Refuse \/ Signal \/ SemTake \/ LockToDecode \/ Decode
         \/ Overflow \/ HalfLeft \/ Play \/ complete \/ UNCHANGED vars
  PROVE  IndInv'
<1> USE DevSizeAssumption
<1>1. CASE Receive \/ LockToCopy \/ Refuse \/ Signal \/ SemTake \/ LockToDecode
  <2>1. UNCHANGED <<ring, queue, HalfLeftEvent, open, buffered>>
    BY <1>1 DEF Receive, LockToCopy, Refuse, Signal, SemTake, LockToDecode, device
  <2>2. TypeOK'
    BY <1>1, <2>1 DEF Receive, LockToCopy, Refuse, Signal, SemTake, LockToDecode, IndInv, TypeOK, ring
  <2>3. DecoderSem' + Coming' + Taken' = DecoderSem + Coming + Taken
    BY <1>1 DEF Receive, LockToCopy, Refuse, Signal, SemTake, LockToDecode, IndInv, TypeOK, Coming, Taken
  <2> QED
    BY <2>1, <2>2, <2>3, RingUntouched
<1>2. CASE Decode
  <2>1. UNCHANGED <<ring, queue, HalfLeftEvent, DecoderSem, splitter, received>> /\ Ready[pReadEncodeData]
    BY <1>2, DecodeFindsFrame DEF Decode
  <2>2. TypeOK'
    <3>1. open' \in BOOLEAN
      BY <1>2, <2>1 DEF Decode, IndInv, TypeOK, device
    <3> QED
      BY <1>2, <2>1, <3>1 DEF Decode, IndInv, TypeOK, ring, device
  <2>3. DecoderSem' + Coming' + Taken' = DecoderSem + Coming + Taken
    BY <1>2, <2>1 DEF Decode, Coming, Taken
  <2> QED
    BY <2>1, <2>2, <2>3, RingUntouched
<1>3. CASE Overflow \/ HalfLeft \/ Play \/ complete \/ UNCHANGED vars
  <2>1. UNCHANGED <<ring, queue, DecoderSem, splitter, received, mutex>>
    BY <1>3 DEF Overflow, HalfLeft, Play, complete, vars, ring
  <2>2. HalfLeftEvent' \in BOOLEAN /\ open' \in BOOLEAN
    BY <1>3 DEF Overflow, HalfLeft, Play, complete, vars, device, IndInv, TypeOK
  <2>3. TypeOK'
    BY <1>3, <2>1, <2>2 DEF Overflow, HalfLeft, Play, complete, vars, device, ring, IndInv, TypeOK
  <2>4. Coming' = Coming /\ Taken' = Taken
    BY <1>3 DEF Overflow, HalfLeft, Play, complete, vars, Coming, Taken
  <2> QED
    BY <2>1, <2>3, <2>4, RingUntouched
<1> QED
  BY <1>1, <1>2, <1>3

\* The inductive invariant holds throughout.
THEOREM IndInvHolds == Spec => []IndInv
<1>1. IndInv /\ [Next]_vars => IndInv'
  BY CopyInv, AdvanceInv, OtherInv DEF Next
<1> QED
  BY <1>1, InitIndInv, PTL DEF Spec

\* No accepted frame is overwritten, skipped, decoded twice or left without a
\* token, for every size of ring and sound buffer.
THEOREM RingHoldsFramesHolds == Spec => []RingHoldsFrames
<1>1. IndInv => RingHoldsFrames
  BY DEF IndInv
<1> QED
  BY <1>1, IndInvHolds, PTL

\* CopyToDecoderBuf returns RT_ERROR only when every node holds a frame.
THEOREM RefusesOnlyWhenFullHolds == Spec => RefusesOnlyWhenFull
<1>1. IndInv /\ [Next]_vars
        => [splitter = "check" /\ splitter' = "idle" => Len(queue) = NUM]_vars
  <2> SUFFICES ASSUME IndInv, Next, splitter = "check", splitter' = "idle"
               PROVE  Len(queue) = NUM
    OBVIOUS
  <2>1. Ready[pWriteEncodeData]
    BY DEF Next, Receive, LockToCopy, Refuse, Copy, Signal, SemTake, LockToDecode, Decode,
           Overflow, HalfLeft, Advance, Play, complete
  <2>2. /\ pReadEncodeData \in Nodes /\ Len(queue) \in Nat /\ Len(queue) <= NUM
        /\ pWriteEncodeData = IF Len(queue) = NUM THEN pReadEncodeData ELSE NodeAt(Len(queue))
        /\ \A k \in 0 .. NUM - 1 : Ready[NodeAt(k)] <=> k < Len(queue)
    BY DEF IndInv, TypeOK, RingHoldsFrames
  <2> QED
    BY <2>1, <2>2, NumAssumption
<1> QED
  BY <1>1, IndInvHolds, PTL DEF Spec, RefusesOnlyWhenFull
=============================================================================
