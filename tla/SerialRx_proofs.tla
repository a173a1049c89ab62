--------------------------- MODULE SerialRx_proofs ---------------------------
(***************************************************************************)
(* Proofs about SerialRx for every buffer size of at least two slots,      *)
(* every request size and every number of arrivals.                        *)
(***************************************************************************)
EXTENDS SerialRx, Integers, TLAPS

\* Nothing has happened to a device that is not initialised yet.
Untouched ==
  "ACTIVATED" \notin flag =>
    arrived = 0 /\ enabled = FALSE /\ buffer = <<>> /\ isr = "idle" /\ read_index = save_index

\* The inductive invariant: FreshestBytes needs to know that rt_serial_init can
\* only erase an empty buffer, that not more is unread than has arrived, and
\* that inside the RXNE loop something is unread.
IndInv ==
  /\ TypeOK
  /\ FreshestBytes
  /\ ReadInOrder
  /\ Untouched
  /\ Unread <= arrived
  /\ isr = "receiving" => read_index # save_index

\* Moving an index keeps it inside the buffer.
LEMMA AdvanceType == \A i \in Slots : Advance(i) \in Slots
  BY SizeAssumption DEF Advance, Slots

\* The initial state satisfies the inductive invariant.
LEMMA InitIndInv == Init => IndInv
<1> SUFFICES ASSUME Init PROVE IndInv
  OBVIOUS
<1> USE SizeAssumption, RequestAssumption
<1>1. TypeOK
  <2>1. enabled \in BOOLEAN
    BY DEF Init
  <2> QED
    BY <2>1 DEF Init, TypeOK, Slots
<1>2. Unread = 0 /\ Len(buffer) = 0
  BY DEF Init, Unread
<1>3. FreshestBytes
  BY <1>2 DEF FreshestBytes
<1>4. ReadInOrder
  BY <1>2 DEF ReadInOrder
<1> QED
  BY <1>1, <1>2, <1>3, <1>4 DEF Init, IndInv, Untouched

\* rt_hw_serial_isr saving one character keeps the invariant: the heart of the
\* argument, in two cases, with and without a discard.
LEMMA IsrSaveIndInv == IndInv /\ IsrSave => IndInv'
<1> SUFFICES ASSUME IndInv, IsrSave PROVE IndInv'
  OBVIOUS
<1> USE SizeAssumption, RequestAssumption
<1>1. TypeOK'
  <2>1. /\ flag' \in SUBSET {"ACTIVATED", "SUSPENDED"} /\ enabled' \in BOOLEAN
        /\ buffer' \in Seq(Nat)
    BY DEF IndInv, TypeOK, IsrSave, usart, call
  <2>2. read_index' \in Slots /\ save_index' \in Slots
    BY AdvanceType DEF IndInv, TypeOK, IsrSave
  <2>3. rx_buffer' \in [Slots -> Nat] /\ arrived' \in Nat
    BY DEF IndInv, TypeOK, IsrSave
  <2> QED
    BY <2>1, <2>2, <2>3 DEF IndInv, TypeOK, IsrSave, call
<1>2. /\ Unread \in 0 .. UART_RX_BUFFER_SIZE - 1
      /\ Unread' = IF Unread = UART_RX_BUFFER_SIZE - 1 THEN Unread ELSE Unread + 1
      /\ read_index' = IF Unread = UART_RX_BUFFER_SIZE - 1 THEN Advance(read_index) ELSE read_index
      /\ Slot(Unread) = save_index
  BY DEF IndInv, TypeOK, IsrSave, Unread, Advance, Slots, Slot
<1>3. FreshestBytes'
  <2> SUFFICES ASSUME NEW k \in 0 .. UART_RX_BUFFER_SIZE - 1, k < Unread'
               PROVE  rx_buffer'[Slot(k)'] = arrived' - Unread' + 1 + k
    BY DEF FreshestBytes
  <2>1. CASE Unread = UART_RX_BUFFER_SIZE - 1
    <3>1. Slot(k)' = Slot(k + 1)
      BY <1>2, <2>1 DEF IndInv, TypeOK, Slot, Advance, Slots
    <3>2. CASE k + 1 = Unread
      <4>1. Slot(k)' = save_index
        BY <1>2, <3>1, <3>2
      <4>2. rx_buffer'[save_index] = arrived + 1
        BY DEF IndInv, TypeOK, IsrSave
      <4> QED
        BY <1>2, <2>1, <3>2, <4>1, <4>2 DEF IndInv, TypeOK, IsrSave
    <3>3. CASE k + 1 < Unread
      <4>1. Slot(k + 1) # save_index /\ Slot(k + 1) \in Slots
        BY <3>3, <1>2 DEF IndInv, TypeOK, Slot, Slots, Unread
      <4>2. rx_buffer[Slot(k + 1)] = arrived - Unread + 1 + (k + 1)
        BY <3>3, <1>2 DEF IndInv, FreshestBytes
      <4> QED
        BY <1>2, <2>1, <3>1, <4>1, <4>2 DEF IndInv, TypeOK, IsrSave, Slots
    <3> QED
      BY <1>2, <2>1, <3>2, <3>3
  <2>2. CASE Unread < UART_RX_BUFFER_SIZE - 1
    <3>1. Slot(k)' = Slot(k)
      BY <1>2, <2>2 DEF Slot
    <3>2. CASE k = Unread
      BY <1>2, <2>2, <3>1, <3>2 DEF IndInv, TypeOK, IsrSave, Slots
    <3>3. CASE k < Unread
      <4>1. Slot(k) # save_index /\ Slot(k) \in Slots
        BY <3>3, <1>2 DEF IndInv, TypeOK, Slot, Slots, Unread
      <4>2. rx_buffer[Slot(k)] = arrived - Unread + 1 + k
        BY <3>3, <1>2 DEF IndInv, FreshestBytes
      <4> QED
        BY <1>2, <2>2, <3>1, <4>1, <4>2 DEF IndInv, TypeOK, IsrSave, Slots
    <3> QED
      BY <1>2, <2>2, <3>2, <3>3
  <2> QED
    BY <1>2, <2>1, <2>2
<1>4. ReadInOrder'
  <2>1. buffer' = buffer /\ arrived' - Unread' >= arrived - Unread
    BY <1>2 DEF IndInv, TypeOK, IsrSave, call
  <2>2. /\ \A i, j \in 1 .. Len(buffer) : i < j => buffer[i] < buffer[j]
        /\ \A i \in 1 .. Len(buffer) : buffer[i] <= arrived - Unread /\ buffer[i] \in Nat
    BY DEF IndInv, ReadInOrder, TypeOK
  <2>3. arrived - Unread \in Int /\ arrived' - Unread' \in Int
    BY <1>1, <1>2 DEF TypeOK, IndInv
  <2> QED
    BY <2>1, <2>2, <2>3 DEF ReadInOrder
<1>5. Untouched'
  BY DEF IndInv, Untouched, IsrSave, usart
<1>6. Unread' <= arrived'
  BY <1>2 DEF IndInv, TypeOK, IsrSave
<1>7. isr' = "receiving" => read_index' # save_index'
  BY DEF IsrSave, IndInv, TypeOK, Advance, Slots
<1> QED
  BY <1>1, <1>3, <1>4, <1>5, <1>6, <1>7 DEF IndInv

\* rt_serial_read taking one character keeps the invariant.
LEMMA ReadByteIndInv == IndInv /\ ReadByte => IndInv'
<1> SUFFICES ASSUME IndInv, ReadByte PROVE IndInv'
  OBVIOUS
<1> USE SizeAssumption, RequestAssumption
<1>1. /\ Unread \in 1 .. UART_RX_BUFFER_SIZE - 1
      /\ Unread' = Unread - 1
      /\ arrived' = arrived /\ rx_buffer' = rx_buffer /\ arrived \in Nat
  BY DEF IndInv, TypeOK, ReadByte, Unread, Advance, Slots
<1>2. \A k \in 0 .. UART_RX_BUFFER_SIZE - 1 : k < Unread' => Slot(k)' = Slot(k + 1)
  BY <1>1 DEF IndInv, TypeOK, ReadByte, Slot, Advance, Slots
<1>3. rx_buffer[read_index] = arrived - Unread + 1 /\ rx_buffer[read_index] \in Nat
  <2>1. Slot(0) = read_index
    BY DEF IndInv, TypeOK, Slot, Slots
  <2> QED
    BY <1>1, <2>1 DEF IndInv, TypeOK, FreshestBytes
<1>4. TypeOK'
  <2>1. /\ flag' \in SUBSET {"ACTIVATED", "SUSPENDED"} /\ enabled' \in BOOLEAN
        /\ buffer' \in Seq(Nat)
    BY <1>3 DEF IndInv, TypeOK, ReadByte, usart
  <2>2. read_index' \in Slots
    BY AdvanceType DEF IndInv, TypeOK, ReadByte
  <2> QED
    BY <2>1, <2>2 DEF IndInv, TypeOK, ReadByte
<1>5. FreshestBytes'
  <2> SUFFICES ASSUME NEW k \in 0 .. UART_RX_BUFFER_SIZE - 1, k < Unread'
               PROVE  rx_buffer'[Slot(k)'] = arrived' - Unread' + 1 + k
    BY DEF FreshestBytes
  <2>1. rx_buffer[Slot(k + 1)] = arrived - Unread + 1 + (k + 1)
    BY <1>1 DEF IndInv, FreshestBytes
  <2> QED
    BY <1>1, <1>2, <2>1
<1>6. ReadInOrder'
  <2>1. /\ Len(buffer') = Len(buffer) + 1 /\ Len(buffer) \in Nat
        /\ buffer'[Len(buffer) + 1] = arrived - Unread + 1
        /\ \A i \in 1 .. Len(buffer) : buffer'[i] = buffer[i] /\ buffer[i] \in Nat
    BY <1>3 DEF IndInv, TypeOK, ReadByte
  <2>2. /\ \A i, j \in 1 .. Len(buffer) : i < j => buffer[i] < buffer[j]
        /\ \A i \in 1 .. Len(buffer) : buffer[i] <= arrived - Unread
    BY DEF IndInv, ReadInOrder
  <2>3. \A i \in 1 .. Len(buffer') : buffer'[i] <= arrived' - Unread'
    BY <1>1, <2>1, <2>2
  <2>4. ASSUME NEW i \in 1 .. Len(buffer'), NEW j \in 1 .. Len(buffer'), i < j
        PROVE  buffer'[i] < buffer'[j]
    <3>1. i \in 1 .. Len(buffer)
      BY <2>1, <2>4
    <3>2. CASE j = Len(buffer) + 1
      BY <1>1, <2>1, <2>2, <3>1, <3>2
    <3>3. CASE j \in 1 .. Len(buffer)
      BY <2>1, <2>2, <2>4, <3>1, <3>3
    <3> QED
      BY <2>1, <3>2, <3>3
  <2> QED
    BY <2>3, <2>4 DEF ReadInOrder
<1>7. Untouched'
  BY DEF IndInv, Untouched, ReadByte, usart, TypeOK
<1>8. Unread' <= arrived'
  BY <1>1 DEF IndInv
<1> QED
  BY <1>4, <1>5, <1>6, <1>7, <1>8 DEF IndInv, ReadByte

\* Every other step leaves the buffer and the indices as they are, or resets
\* them while nothing has arrived.
LEMMA OtherIndInv ==
  ASSUME IndInv,
         \/ rt_serial_init \/ Suspend \/ Resume
         \/ \E n \in 0 .. MaxRequest : ReadCall(n)
         \/ ReadEmpty \/ ReadReturn \/ IsrIndicate \/ UNCHANGED vars
  PROVE  IndInv'
<1> USE SizeAssumption, RequestAssumption
<1>1. CASE rt_serial_init
  <2>1. Unread' = 0 /\ arrived' = 0 /\ buffer' = <<>>
    BY <1>1 DEF IndInv, Untouched, rt_serial_init, call, Unread
  <2>2. TypeOK'
    <3>1. /\ flag' \in SUBSET {"ACTIVATED", "SUSPENDED"} /\ enabled' \in BOOLEAN
          /\ rx_buffer' \in [Slots -> Nat] /\ read_index' \in Slots /\ save_index' \in Slots
      BY <1>1 DEF IndInv, TypeOK, rt_serial_init, Slots
    <3>2. buffer' \in Seq(Nat)
      BY <2>1
    <3> QED
      BY <1>1, <2>1, <3>1, <3>2 DEF IndInv, TypeOK, rt_serial_init, call
  <2>3. FreshestBytes'
    BY <2>1 DEF FreshestBytes
  <2>4. ReadInOrder'
    BY <2>1 DEF ReadInOrder
  <2>5. Untouched' /\ (isr' = "receiving" => read_index' # save_index')
    BY <1>1 DEF Untouched, rt_serial_init
  <2> QED
    BY <2>1, <2>2, <2>3, <2>4, <2>5 DEF IndInv
<1>2. CASE \/ Suspend \/ Resume \/ ReadEmpty \/ ReadReturn \/ IsrIndicate \/ UNCHANGED vars
           \/ \E n \in 0 .. MaxRequest : ReadCall(n)
  <2>1. /\ rx_buffer' = rx_buffer /\ read_index' = read_index /\ save_index' = save_index
        /\ arrived' = arrived /\ (buffer' = buffer \/ buffer' = <<>>)
    BY <1>2 DEF Suspend, Resume, ReadCall, ReadEmpty, ReadReturn, IsrIndicate, int_rx, call, vars
  <2>2. TypeOK'
    <3>1. flag' \in SUBSET {"ACTIVATED", "SUSPENDED"} /\ enabled' \in BOOLEAN
      BY <1>2 DEF IndInv, TypeOK, Suspend, Resume, ReadCall, ReadEmpty, ReadReturn, IsrIndicate,
                  usart, vars
    <3>2. reader' \in {"idle", "reading"} /\ size' \in 0 .. MaxRequest
      BY <1>2 DEF IndInv, TypeOK, Suspend, Resume, ReadCall, ReadEmpty, ReadReturn, IsrIndicate,
                  call, vars
    <3>3. isr' \in {"idle", "receiving"} /\ rx_length' \in Nat
      BY <1>2 DEF IndInv, TypeOK, Suspend, Resume, ReadCall, ReadEmpty, ReadReturn, IsrIndicate,
                  RxLength, Slots, vars
    <3>4. buffer' \in Seq(Nat)
      <4>1. buffer \in Seq(Nat) /\ <<>> \in Seq(Nat)
        BY DEF IndInv, TypeOK
      <4> QED
        BY <2>1, <4>1, Zenon
    <3> QED
      BY <2>1, <3>1, <3>2, <3>3, <3>4 DEF IndInv, TypeOK
  <2>3. Unread' = Unread /\ \A k : Slot(k)' = Slot(k)
    BY <2>1 DEF Unread, Slot
  <2>4. FreshestBytes'
    BY <2>1, <2>3 DEF IndInv, FreshestBytes
  <2>5. ReadInOrder'
    <3>1. CASE buffer' = buffer
      BY <2>1, <2>3, <3>1 DEF IndInv, ReadInOrder
    <3>2. CASE buffer' = <<>>
      BY <3>2 DEF ReadInOrder
    <3> QED
      BY <2>1, <3>1, <3>2
  <2>6. Untouched' /\ (isr' = "receiving" => read_index' # save_index')
    BY <1>2, <2>1 DEF IndInv, Untouched, Suspend, Resume, ReadCall, ReadEmpty, ReadReturn,
                      IsrIndicate, usart, vars
  <2> QED
    BY <2>1, <2>2, <2>3, <2>4, <2>5, <2>6 DEF IndInv
<1> QED
  BY <1>1, <1>2

\* Every step keeps the inductive invariant.
LEMMA NextIndInv == IndInv /\ [Next]_vars => IndInv'
<1> SUFFICES ASSUME IndInv, [Next]_vars PROVE IndInv'
  OBVIOUS
<1>1. CASE IsrSave
  BY <1>1, IsrSaveIndInv
<1>2. CASE ReadByte
  BY <1>2, ReadByteIndInv
<1>3. CASE \/ rt_serial_init \/ Suspend \/ Resume
           \/ \E n \in 0 .. MaxRequest : ReadCall(n)
           \/ ReadEmpty \/ ReadReturn \/ IsrIndicate \/ UNCHANGED vars
  BY <1>3, OtherIndInv
<1> QED
  BY <1>1, <1>2, <1>3 DEF Next

\* The inductive invariant holds throughout.
THEOREM IndInvHolds == Spec => []IndInv
<1>1. Init => IndInv
  BY InitIndInv
<1>2. IndInv /\ [Next]_vars => IndInv'
  BY NextIndInv
<1> QED
  BY <1>1, <1>2, PTL DEF Spec

\* The indices of the receive buffer of serial.c never leave it.
THEOREM TypeCorrect == Spec => []TypeOK
<1>1. IndInv => TypeOK
  BY DEF IndInv
<1> QED
  BY <1>1, IndInvHolds, PTL

\* rx_buffer always holds exactly the most recent arrivals, in order, whatever
\* the interleaving of rt_hw_serial_isr and rt_serial_read.
THEOREM FreshestBytesHolds == Spec => []FreshestBytes
<1>1. IndInv => FreshestBytes
  BY DEF IndInv
<1> QED
  BY <1>1, IndInvHolds, PTL

\* A call of rt_serial_read copies characters in arrival order.
THEOREM ReadInOrderHolds == Spec => []ReadInOrder
<1>1. IndInv => ReadInOrder
  BY DEF IndInv
<1> QED
  BY <1>1, IndInvHolds, PTL

\* The ISR gives up a character only when the buffer is at its capacity.
THEOREM LossOnlyAtCapacityHolds == Spec => LossOnlyAtCapacity
<1>1. IndInv /\ [Next]_vars
        => [arrived' # arrived /\ arrived' - Unread' # arrived - Unread
             => Unread = UART_RX_BUFFER_SIZE - 1 /\ Unread' = Unread]_vars
  <2> SUFFICES ASSUME IndInv, Next, arrived' # arrived
               PROVE  \/ arrived' - Unread' = arrived - Unread
                      \/ Unread = UART_RX_BUFFER_SIZE - 1 /\ Unread' = Unread
    BY DEF vars
  <2>1. IsrSave
    BY DEF Next, rt_serial_init, Suspend, Resume, ReadCall, ReadByte, ReadEmpty, ReadReturn,
           IsrIndicate
  <2> QED
    BY <2>1, SizeAssumption DEF IndInv, TypeOK, IsrSave, Unread, Advance, Slots
<1> QED
  BY <1>1, IndInvHolds, PTL DEF Spec, LossOnlyAtCapacity

\* rx_indicate is given the exact number of waiting characters.
THEOREM IndicatedLengthHolds == Spec => IndicatedLength
<1>1. IndInv /\ [Next]_vars
        => [isr = "receiving" /\ isr' = "idle"
             => /\ rx_length' \in 1 .. UART_RX_BUFFER_SIZE - 1
                /\ rx_length' = arrived + 1 - rx_buffer[read_index]]_vars
  <2> SUFFICES ASSUME IndInv, Next, isr = "receiving", isr' = "idle"
               PROVE  /\ rx_length' \in 1 .. UART_RX_BUFFER_SIZE - 1
                      /\ rx_length' = arrived + 1 - rx_buffer[read_index]
    BY DEF vars
  <2>1. IsrIndicate
    BY DEF Next, rt_serial_init, Suspend, Resume, ReadCall, ReadByte, ReadEmpty, ReadReturn,
           IsrSave
  <2>2. rx_length' = Unread /\ Unread \in 1 .. UART_RX_BUFFER_SIZE - 1 /\ Slot(0) = read_index
    BY <2>1, SizeAssumption DEF IsrIndicate, RxLength, Unread, IndInv, TypeOK, Slots, Slot
  <2>3. rx_buffer[read_index] = arrived - Unread + 1
    BY <2>2, SizeAssumption DEF IndInv, FreshestBytes, TypeOK
  <2> QED
    BY <2>2, <2>3 DEF IndInv, TypeOK
<1> QED
  BY <1>1, IndInvHolds, PTL DEF Spec, IndicatedLength
-----------------------------------------------------------------------------
(* Refinement of RxFifo                                                    *)

\* The n most recent of a arrivals, oldest first.
Recent(a, n) == [k \in 1 .. n |-> a - n + k]

\* What the queue operations do to a run of consecutive numbers.
LEMMA RecentFacts ==
  ASSUME NEW a \in Nat, NEW n \in Nat, n <= a
  PROVE  /\ Recent(a, n) \in Seq(Int) /\ Len(Recent(a, n)) = n
         /\ Append(Recent(a, n), a + 1) = Recent(a + 1, n + 1)
         /\ n > 0 => /\ Recent(a, n) # <<>>
                     /\ Head(Recent(a, n)) = a - n + 1
                     /\ Tail(Recent(a, n)) = Recent(a, n - 1)
<1>1. Recent(a, n) \in Seq(Int) /\ Len(Recent(a, n)) = n
  BY DEF Recent
<1>2. Append(Recent(a, n), a + 1) = Recent(a + 1, n + 1)
  <2> DEFINE s == Append(Recent(a, n), a + 1)
  <2>1. s \in Seq(Int) /\ Len(s) = n + 1
    BY <1>1
  <2>2. \A k \in 1 .. n + 1 : s[k] = a - n + k
    BY <1>1 DEF Recent
  <2>3. s = [k \in 1 .. n + 1 |-> s[k]]
    BY <2>1
  <2> QED
    BY <2>2, <2>3 DEF Recent
<1>3. ASSUME n > 0
      PROVE  /\ Recent(a, n) # <<>>
             /\ Head(Recent(a, n)) = a - n + 1
             /\ Tail(Recent(a, n)) = Recent(a, n - 1)
  <2> DEFINE s == Tail(Recent(a, n))
  <2>1. Recent(a, n) # <<>> /\ Head(Recent(a, n)) = a - n + 1
    BY <1>1, <1>3 DEF Recent
  <2>2. s \in Seq(Int) /\ Len(s) = n - 1
    BY <1>1, <1>3, <2>1
  <2>3. \A k \in 1 .. n - 1 : s[k] = a - (n - 1) + k
    BY <1>1, <1>3, <2>1 DEF Recent
  <2>4. s = [k \in 1 .. Len(s) |-> s[k]]
    <3> HIDE DEF s
    <3> QED
      BY <2>2
  <2> QED
    BY <2>1, <2>2, <2>3, <2>4 DEF Recent
<1> QED
  BY <1>1, <1>2, <1>3

\* The unread part of rx_buffer, as ImplementsFifo maps it.
Queue == [k \in 1 .. Unread |-> rx_buffer[Slot(k - 1)]]

\* It is the most recent arrivals.
QueueRecent ==
  /\ Queue = Recent(arrived, Unread)
  /\ Unread \in 0 .. UART_RX_BUFFER_SIZE - 1 /\ arrived \in Nat /\ Unread <= arrived

\* That is what FreshestBytes says.
LEMMA QueueIsRecent == IndInv => QueueRecent
<1> SUFFICES ASSUME IndInv PROVE QueueRecent
  OBVIOUS
<1>1. Unread \in 0 .. UART_RX_BUFFER_SIZE - 1 /\ arrived \in Nat /\ Unread <= arrived
  BY SizeAssumption DEF IndInv, TypeOK, Unread, Slots
<1>2. \A k \in 1 .. Unread : rx_buffer[Slot(k - 1)] = arrived - Unread + k
  <2> SUFFICES ASSUME NEW k \in 1 .. Unread
               PROVE  rx_buffer[Slot(k - 1)] = arrived - Unread + k
    OBVIOUS
  <2>1. k - 1 \in 0 .. UART_RX_BUFFER_SIZE - 1 /\ k - 1 < Unread
    BY <1>1, SizeAssumption
  <2>2. rx_buffer[Slot(k - 1)] = arrived - Unread + 1 + (k - 1)
    BY <2>1 DEF IndInv, FreshestBytes
  <2> QED
    BY <1>1, <2>2
<1> QED
  BY <1>1, <1>2 DEF QueueRecent, Queue, Recent

\* The same after a step.
LEMMA QueueIsRecentAfter == IndInv' => QueueRecent'
BY QueueIsRecent, PTL

\* rt_hw_serial_isr saving a character is a Put.
LEMMA IsrSaveIsPut == IndInv /\ IsrSave => Fifo!Put
<1> SUFFICES ASSUME IndInv, IsrSave PROVE Fifo!Put
  OBVIOUS
<1> DEFINE a == arrived
           n == Unread
<1>1. IndInv'
  BY IsrSaveIndInv
<1>2. Queue = Recent(a, n) /\ n \in Nat /\ a \in Nat /\ n <= a
  BY QueueIsRecent, SizeAssumption DEF QueueRecent
<1>3. Queue' = Recent(arrived', Unread')
  BY <1>1, QueueIsRecentAfter DEF QueueRecent
<1>4. arrived' = a + 1 /\ Unread' = (IF n = UART_RX_BUFFER_SIZE - 1 THEN n ELSE n + 1)
  BY SizeAssumption DEF IndInv, TypeOK, IsrSave, Unread, Advance, Slots
<1>5. Len(Queue) = n
  BY <1>2, RecentFacts
<1>6. Queue' = Append(IF Len(Queue) = UART_RX_BUFFER_SIZE - 1 THEN Tail(Queue) ELSE Queue, arrived')
  <2>1. CASE n = UART_RX_BUFFER_SIZE - 1
    <3>1. n > 0 /\ n - 1 \in Nat /\ n - 1 <= a
      BY <1>2, <2>1, SizeAssumption
    <3>2. Tail(Queue) = Recent(a, n - 1)
      BY <1>2, <3>1, RecentFacts
    <3>3. Append(Recent(a, n - 1), a + 1) = Recent(a + 1, (n - 1) + 1)
      BY <1>2, <3>1, RecentFacts
    <3>4. (n - 1) + 1 = n
      BY <1>2
    <3> QED
      BY <1>3, <1>4, <1>5, <2>1, <3>2, <3>3, <3>4
  <2>2. CASE n # UART_RX_BUFFER_SIZE - 1
    BY <1>2, <1>3, <1>4, <1>5, <2>2, RecentFacts
  <2> QED
    BY <2>1, <2>2
<1>7. buffer' = buffer
  BY DEF IsrSave, call
<1> QED
  BY <1>4, <1>6, <1>7 DEF Fifo!Put, Queue

\* rt_serial_read copying a character is a Get.
LEMMA ReadByteIsGet == IndInv /\ ReadByte => Fifo!Get
<1> SUFFICES ASSUME IndInv, ReadByte PROVE Fifo!Get
  OBVIOUS
<1>1. IndInv'
  BY ReadByteIndInv
<1>2. Queue = Recent(arrived, Unread) /\ arrived \in Nat /\ Unread <= arrived
  BY QueueIsRecent DEF QueueRecent
<1>3. Queue' = Recent(arrived', Unread')
  BY <1>1, QueueIsRecentAfter DEF QueueRecent
<1>4. arrived' = arrived /\ Unread \in Nat /\ Unread > 0 /\ Unread' = Unread - 1 /\ Slot(0) = read_index
  BY SizeAssumption DEF IndInv, TypeOK, ReadByte, Unread, Advance, Slots, Slot
<1>5. Queue # <<>> /\ Tail(Queue) = Queue' /\ Head(Queue) = arrived - Unread + 1
  BY <1>2, <1>3, <1>4, RecentFacts
<1>6. rx_buffer[read_index] = arrived - Unread + 1
  BY <1>2, <1>4, SizeAssumption DEF IndInv, FreshestBytes
<1>7. buffer' = Append(buffer, Head(Queue))
  BY <1>5, <1>6 DEF ReadByte
<1> QED
  BY <1>4, <1>5, <1>7 DEF Fifo!Get, Queue

\* Every other step starts a read or is invisible: rt_serial_init, too, erases
\* only an empty buffer.
LEMMA OtherIsFifoStep ==
  ASSUME IndInv, IndInv',
         \/ rt_serial_init \/ Suspend \/ Resume
         \/ \E n \in 0 .. MaxRequest : ReadCall(n)
         \/ ReadEmpty \/ ReadReturn \/ IsrIndicate \/ UNCHANGED vars
  PROVE  Fifo!StartRead \/ UNCHANGED Fifo!vars
<1>1. arrived' = arrived /\ Unread' = Unread
  <2>1. CASE rt_serial_init
    BY <2>1 DEF rt_serial_init, IndInv, Untouched, Unread, TypeOK, Slots
  <2>2. CASE ~rt_serial_init
    BY <2>2 DEF Suspend, Resume, ReadCall, ReadEmpty, ReadReturn, IsrIndicate, int_rx, vars, Unread
  <2> QED
    BY <2>1, <2>2
<1>2. Queue' = Queue
  BY <1>1, QueueIsRecent, QueueIsRecentAfter DEF QueueRecent
<1>3. buffer' = buffer \/ buffer' = <<>>
  BY DEF rt_serial_init, Suspend, Resume, ReadCall, ReadEmpty, ReadReturn, IsrIndicate, call, vars
<1> QED
  BY <1>1, <1>2, <1>3 DEF Fifo!StartRead, Fifo!vars, Queue

\* The receive path of serial.c implements the drop-oldest queue, for every size
\* of the buffer and however rt_hw_serial_isr interrupts rt_serial_read.
THEOREM ImplementsFifoHolds == Spec => ImplementsFifo
<1>1. Init => Fifo!Init
  <2> SUFFICES ASSUME Init PROVE Fifo!Init
    OBVIOUS
  <2>1. Unread = 0
    BY DEF Init, Unread
  <2>2. Queue = <<>>
    BY <2>1 DEF Queue
  <2> QED
    BY <2>2 DEF Init, Fifo!Init, Queue
<1>2. IndInv /\ [Next]_vars => [Fifo!Next]_(Fifo!vars)
  <2> SUFFICES ASSUME IndInv, [Next]_vars PROVE Fifo!Next \/ UNCHANGED Fifo!vars
    OBVIOUS
  <2>1. CASE IsrSave
    BY <2>1, IsrSaveIsPut DEF Fifo!Next
  <2>2. CASE ReadByte
    BY <2>2, ReadByteIsGet DEF Fifo!Next
  <2>3. CASE \/ rt_serial_init \/ Suspend \/ Resume
             \/ \E n \in 0 .. MaxRequest : ReadCall(n)
             \/ ReadEmpty \/ ReadReturn \/ IsrIndicate \/ UNCHANGED vars
    BY <2>3, OtherIsFifoStep, NextIndInv DEF Fifo!Next
  <2> QED
    BY <2>1, <2>2, <2>3 DEF Next
<1> QED
  BY <1>1, <1>2, IndInvHolds, PTL DEF Spec, ImplementsFifo, Fifo!Spec
=============================================================================
