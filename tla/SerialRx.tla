------------------------------ MODULE SerialRx ------------------------------
(***************************************************************************)
(* The interrupt receive path of src/MySouce/serial.c, the device driver   *)
(* of uart3 (the console): rt_serial_init, rt_serial_read,                 *)
(* rt_serial_control and the receive half of rt_hw_serial_isr.             *)
(*                                                                         *)
(* A thread inside rt_serial_read takes one character per critical         *)
(* section (interrupts are enabled between two characters), so the ISR may *)
(* run between any two iterations of its loop; the thread never runs while *)
(* the ISR does.  The character that arrives k-th is the number k.         *)
(***************************************************************************)
EXTENDS Naturals, Sequences

CONSTANTS UART_RX_BUFFER_SIZE,   \* 64 in serial.h
          MaxRequest,            \* largest size a caller asks for
          MaxArrivals            \* bound: characters that arrive

ASSUME SizeAssumption == UART_RX_BUFFER_SIZE \in Nat /\ UART_RX_BUFFER_SIZE >= 2
ASSUME RequestAssumption == MaxRequest \in Nat
ASSUME ArrivalsAssumption == MaxArrivals \in Nat

VARIABLES
  flag,          \* dev->flag, the bits ACTIVATED and SUSPENDED
  enabled,       \* USART_Cmd(uart_device, ENABLE)
  rx_buffer, read_index, save_index,     \* struct stm32_serial_int_rx
  reader,        \* where the thread in rt_serial_read is
  size,          \* characters the call still wants
  buffer,        \* characters the call has copied out, in order
  isr,           \* "idle", or "receiving" inside the RXNE loop
  rx_length,     \* the last length handed to rx_indicate
  arrived        \* characters the USART has received so far

usart  == <<flag, enabled>>
int_rx == <<rx_buffer, read_index, save_index>>
call   == <<reader, size, buffer>>
vars   == <<flag, enabled, rx_buffer, read_index, save_index,
            reader, size, buffer, isr, rx_length, arrived>>

Slots == 0 .. UART_RX_BUFFER_SIZE - 1

Init ==
  /\ flag = {} /\ enabled = FALSE
  /\ rx_buffer = [i \in Slots |-> 0] /\ read_index = 0 /\ save_index = 0
  /\ reader = "idle" /\ size = 0 /\ buffer = <<>>
  /\ isr = "idle" /\ rx_length = 0 /\ arrived = 0

\* An index moved to the next position, wrapping at the end of the buffer.
Advance(i) == IF i + 1 >= UART_RX_BUFFER_SIZE THEN 0 ELSE i + 1

-----------------------------------------------------------------------------
(* Device interface, called by threads.  The device framework initialises  *)
(* a device on its first open, before any other call reaches the driver.   *)

rt_serial_init ==
  /\ isr = "idle" /\ "ACTIVATED" \notin flag
  /\ rx_buffer' = [i \in Slots |-> 0] /\ read_index' = 0 /\ save_index' = 0
  /\ enabled' = TRUE /\ flag' = flag \cup {"ACTIVATED"}
  /\ UNCHANGED <<call, isr, rx_length, arrived>>

Suspend ==
  /\ isr = "idle" /\ "ACTIVATED" \in flag
  /\ flag' = flag \cup {"SUSPENDED"} /\ enabled' = FALSE
  /\ UNCHANGED <<int_rx, call, isr, rx_length, arrived>>

Resume ==
  /\ isr = "idle" /\ "ACTIVATED" \in flag
  /\ flag' = flag \ {"SUSPENDED"} /\ enabled' = TRUE
  /\ UNCHANGED <<int_rx, call, isr, rx_length, arrived>>

ReadCall(n) ==
  /\ isr = "idle" /\ "ACTIVATED" \in flag /\ reader = "idle"
  /\ reader' = "reading" /\ size' = n /\ buffer' = <<>>
  /\ UNCHANGED <<usart, int_rx, isr, rx_length, arrived>>

ReadByteForgetsToMove ==
  /\ isr = "idle" /\ reader = "reading" /\ size > 0
  /\ read_index # save_index
  /\ buffer' = Append(buffer, rx_buffer[read_index])
  /\ size' = size - 1
  /\ UNCHANGED <<usart, int_rx, reader, isr, rx_length, arrived>>

ReadByteMovesFirst ==
  /\ isr = "idle" /\ reader = "reading" /\ size > 0
  /\ read_index # save_index
  /\ buffer' = Append(buffer, rx_buffer[Advance(read_index)])
  /\ size' = size - 1
  /\ read_index' = Advance(read_index)
  /\ UNCHANGED <<usart, rx_buffer, save_index, reader, isr, rx_length, arrived>>

\* One iteration of the loop that finds a character.
ReadByte ==
  /\ isr = "idle" /\ reader = "reading" /\ size > 0
  /\ read_index # save_index
  /\ buffer' = Append(buffer, rx_buffer[read_index])
  /\ size' = size - 1
  /\ read_index' = Advance(read_index)
  /\ UNCHANGED <<usart, rx_buffer, save_index, reader, isr, rx_length, arrived>>

\* The iteration that finds none leaves the loop: the call returns -RT_EEMPTY.
ReadEmpty ==
  /\ isr = "idle" /\ reader = "reading" /\ size > 0
  /\ read_index = save_index
  /\ reader' = "idle"
  /\ UNCHANGED <<usart, int_rx, size, buffer, isr, rx_length, arrived>>

\* All characters asked for were copied.
ReadReturn ==
  /\ isr = "idle" /\ reader = "reading" /\ size = 0
  /\ reader' = "idle"
  /\ UNCHANGED <<usart, int_rx, size, buffer, isr, rx_length, arrived>>
-----------------------------------------------------------------------------
(* rt_hw_serial_isr                                                        *)

IsrSaveIntoNextSlot ==
  /\ enabled /\ arrived < MaxArrivals
  /\ arrived' = arrived + 1
  /\ save_index' = Advance(save_index)
  /\ rx_buffer' = [rx_buffer EXCEPT ![Advance(save_index)] = arrived + 1]
  /\ read_index' = IF Advance(save_index) = read_index THEN Advance(read_index) ELSE read_index
  /\ isr' = "receiving"
  /\ UNCHANGED <<usart, call, rx_length>>

IsrSaveWithoutDiscard ==
  /\ enabled /\ arrived < MaxArrivals
  /\ arrived' = arrived + 1
  /\ rx_buffer' = [rx_buffer EXCEPT ![save_index] = arrived + 1]
  /\ save_index' = Advance(save_index)
  /\ isr' = "receiving"
  /\ UNCHANGED <<usart, read_index, call, rx_length>>

\* One pass of the RXNE loop: save the character; when save_index runs into
\* read_index, discard the oldest character.
IsrSave ==
  /\ enabled /\ arrived < MaxArrivals
  /\ arrived' = arrived + 1
  /\ rx_buffer' = [rx_buffer EXCEPT ![save_index] = arrived + 1]
  /\ save_index' = Advance(save_index)
  /\ read_index' = IF Advance(save_index) = read_index THEN Advance(read_index) ELSE read_index
  /\ isr' = "receiving"
  /\ UNCHANGED <<usart, call, rx_length>>

\* The length handed to the callback.
RxLength ==
  IF read_index > save_index
  THEN UART_RX_BUFFER_SIZE - read_index + save_index
  ELSE save_index - read_index

\* RXNE is clear: call rx_indicate and leave.
IsrIndicate ==
  /\ isr = "receiving"
  /\ rx_length' = RxLength
  /\ isr' = "idle"
  /\ UNCHANGED <<usart, int_rx, call, arrived>>

Next ==
  \/ rt_serial_init \/ Suspend \/ Resume
  \/ \E n \in 0 .. MaxRequest : ReadCall(n)
  \/ ReadByte \/ ReadEmpty \/ ReadReturn
  \/ IsrSave \/ IsrIndicate

Spec == Init /\ [][Next]_vars
-----------------------------------------------------------------------------
(* Properties                                                              *)

\* Type correctness: the indices stay inside rx_buffer whatever wraps around.
TypeOK ==
  /\ flag \in SUBSET {"ACTIVATED", "SUSPENDED"} /\ enabled \in BOOLEAN
  /\ rx_buffer \in [Slots -> Nat] /\ read_index \in Slots /\ save_index \in Slots
  /\ reader \in {"idle", "reading"} /\ size \in 0 .. MaxRequest /\ buffer \in Seq(Nat)
  /\ isr \in {"idle", "receiving"} /\ rx_length \in Nat /\ arrived \in Nat

\* Number of characters between the two indices.
Unread ==
  IF save_index >= read_index THEN save_index - read_index
  ELSE save_index + UART_RX_BUFFER_SIZE - read_index

Slot(k) == IF read_index + k >= UART_RX_BUFFER_SIZE THEN read_index + k - UART_RX_BUFFER_SIZE
           ELSE read_index + k

\* The unread part of rx_buffer is exactly the Unread most recent arrivals, in
\* order, however the ISR and rt_serial_read interleave and however often the
\* ISR had to discard: no gap, no repeat, no stale slot.
FreshestBytes ==
  \A k \in 0 .. UART_RX_BUFFER_SIZE - 1 :
    k < Unread => rx_buffer[Slot(k)] = arrived - Unread + 1 + k

\* What a call of rt_serial_read has copied is in arrival order, without
\* repeats, and older than everything still unread, although the ISR may
\* discard characters between two iterations of the call.
ReadInOrder ==
  /\ \A i, j \in 1 .. Len(buffer) : i < j => buffer[i] < buffer[j]
  /\ \A i \in 1 .. Len(buffer) : buffer[i] <= arrived - Unread

\* The ISR loses a character only when UART_RX_BUFFER_SIZE - 1 are waiting, and
\* then only one: the buffer is as full afterwards as before.
LossOnlyAtCapacity ==
  [][arrived' # arrived /\ arrived' - Unread' # arrived - Unread
       => Unread = UART_RX_BUFFER_SIZE - 1 /\ Unread' = Unread]_vars

\* rx_indicate is told exactly how many characters wait from the oldest unread
\* one to the newest: never 0 and never the full size of the buffer.
IndicatedLength ==
  [][isr = "receiving" /\ isr' = "idle"
       => /\ rx_length' \in 1 .. UART_RX_BUFFER_SIZE - 1
          /\ rx_length' = arrived + 1 - rx_buffer[read_index]]_vars

\* The driver implements a drop-oldest queue of UART_RX_BUFFER_SIZE - 1 places.
Fifo == INSTANCE RxFifo WITH
          Capacity <- UART_RX_BUFFER_SIZE - 1,
          q        <- [k \in 1 .. Unread |-> rx_buffer[Slot(k - 1)]],
          last     <- arrived,
          out      <- buffer
ImplementsFifo == Fifo!Spec
=============================================================================
