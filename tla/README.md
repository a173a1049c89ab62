# SmartTerminal: TLA+ models, model checking and proofs

The repository is the firmware of a vehicle terminal (STM32F103, RT-Thread). It
dials up a server through a CDMA modem and exchanges position, voice, pictures
and texts with it. Its own code is `src/MySouce/`; `src/RTT/`,
`src/STM32Libraries/` and the Speex headers are third-party, and the GNSS
protocol stack, the peripheral protocol and most device drivers come in the
binary `System.lib` that `src/README.md` mentions. What is in `System.lib` is
modelled, where it is needed, from how `src/MySouce/` uses it, and marked
external.

The comments in the sources are in Chinese (GB18030). Where this project quotes
one, a translation follows.

## 1. Inventory

Threads (`MyApplication.c` 67-126, RT-Thread: a smaller number is more urgent):
Splitter 10, Decoder 22, Record 23, AT 26, Keyboard 27; led, beep, rfid and
Register 28; GPS, Camera, LCD and ADS 29; one `mediaUpload` thread of priority
28 for each upload command. Interrupts preempt all of them.

| Component | State | Operations | Interacts with | What is hard | What makes it right |
|---|---|---|---|---|---|
| UART1 driver, transmit (`UART1_new .c`) | two doubly linked lists of five nodes, `pCurrentMDASendNode` | `write`, `DMA1_Channel4_IRQHandler` | every thread that sends; the DMA | no masking, no lock: the interrupt strikes between any two statements | one owner per buffer, order, no node lost, everything accepted is sent |
| UART1 driver, life cycle | `openCnt`, `open_flag` | `init`, `open`, `close`, `free_node` | modem driver, finsh tests | `close` while a transfer runs | the device closes with its last client only |
| UART1 receive interrupt | none | `USART1_IRQHandler` | AT parser, GNSS frame parser | one byte stream, two parsers | each parser sees every byte meant for it |
| Line assembly (`AT_APP.c` `MC323A_RX`) | `Buf`, `index` | one byte | line ring | `Buf[-1]`, a line that fills the buffer | lines are what the stream says |
| Line ring (`AT_APP.c`) | nodes with `Ready`, `pWrite`, `pRead`, `ATsem` | put (interrupt), take (thread) | AT thread | interrupt against thread, overrun | lines handled once, in order, none forgotten |
| AT thread (`AT_APP.c`) | `state`, `IpSel` | one branch per modem line | modem, `GlobalEvent`, `MC323A_state` | unsolicited reports, late answers, waits without time-out | ends connected; announces the network only when there is one |
| Global events (`Global.h`), registration (`GNSS_APP.c`) | `NET_CONNET`, `AUTHENTCATED` | send, receive, clear | AT, Register, GPS, Record, upload | events missed or stale | no waiter is forgotten |
| Serial driver (`serial.c`, uart3) | ring of 64 characters, two indices | `read`, ISR, `control` | console | ISR between two characters of one call, wrap-around, full against empty | drop-oldest queue |
| Splitter (`GNSS_Splitter.c`) | none | dispatch by message number | all consumers | blocks when a consumer blocks | never blocked for good |
| Upload (`GNSS_APP.c`) | one thread and one descriptor per command | read file, send packets | file system (4 descriptors, shared with the camera and the AT thread) | descriptors never closed, a failed read taken for a packet | whole file, announced number of packets; nobody else loses a descriptor |
| Voice decoder (`SoundAPP.c`) | ring of 1000 frames, mutex, semaphore, event | `CopyToDecoderBuf`, decoder loop, `complete` | Splitter, sound device | waits for the device with the mutex held | no frame lost or repeated, nobody blocked for good |
| Recorder, PTT key (`RecordAPP.c`, `Keyboard.c`) | double buffer, mailbox of 5 | ADC interrupt, encode loop, key edge | Keyboard opens/closes the device | buffer refilled while encoded | frames whole and in order |
| GPS (`GPSAPP.c`) | sentence buffer, mailbox of 1 | one character, loop | `GlobalEvent` | buffer reused while parsed, uninitialised `Value` | positions sent are whole sentences |
| Camera (`CameraAPP.c`) | packet buffer and size | one byte, loop | file system | no checksum, end marks in the data, failed writes and renames, a file left over | the file is the packets in order; a failure spoils one file only |
| LCD, advertising screen (`LCDAPP.c`, `AdscreenAPP.c`) | text pointer and length, event / mailbox | text hand-over, loop | Splitter | pointer freed and not cleared, events lost | each text shown once, no use after free |
| RFID (`RFID_APP.c`) | block buffer, serial number | card dialogue | LCD | card removed in between, a verifying read that fails after the write | one greeting per visit, after the block has been counted up |
| LED, beeper, alarm (`LED/`) | `BeepSem`, `ManualAlarmStatus` | loops, alarm interrupt | Keyboard | semaphore used before it exists, flag reset after a test | an alarm is heard |
| CPU usage, watchdog, boot | counters | | | overflow | |

## 2. Modules

| Module | Models | EXTENDS / INSTANCE |
|---|---|---|
| `RxFifo` | abstract: a bounded queue that gives up its oldest element | |
| `SerialRx` | interrupt receive path of `serial.c` | instantiates `RxFifo` |
| `AtRx` | byte-wise line assembly of `MC323A_RX` | |
| `AtRing` | the ring of modem lines | |
| `ModemLines` | composition: bytes of the modem to lines decoded by the thread | extends `AtRx`, `AtRing` |
| `AtDial` | the dial dialogue, the network state, registration, the modem | extends and instantiates `AtRing` |
| `DecoderRing` | the voice ring, the decoder thread, the sound device | |
| `Uart1Tx` | UART1 `init`, `open`, `write`, `close` against the DMA interrupt | |
| `LcdApp` | passenger display: event, text hand-over, heap blocks | |
| `RfidApp` | card reader, which rings the display's event | extends `LcdApp` |
| `AdScreen` | advertising screen: handshake, mailbox, texts | extends `LcdApp` (frame counter, copy) |
| `Screens` | composition of the three | extends `RfidApp`, `AdScreen` |
| `AuthEvent` | `AUTHENTCATED_EVENT` as the uplink threads see it | |
| `FdTable` | descriptor table of the file system (`dfs.c`, `dfs_posix.c`) | |
| `Pictures` | camera thread, upload threads, the AT thread's address file | extends `FdTable`, `AuthEvent` |
| `GpsApp` | position thread and its receive interrupt | extends `AuthEvent` |
| `Alerts` | alarm button, LED thread, beeper | extends `AuthEvent` |
| `Recorder` | talk key, sampling interrupt, record thread | extends `Alerts` (`BeepSem`) |
| `Uplink` | composition of the senders | extends `Pictures`, `GpsApp`, `Recorder` |
| `MC*` | instances for TLC | extend the above |
| `*_proofs` | theorems | extend the above |

How state and actions correspond to the code (line by line in `PROJECT.json`,
"map"):

* **SerialRx.** `read_index`, `save_index`, `rx_buffer` are the fields of
  `stm32_serial_int_rx`. `rt_serial_read` masks interrupts for one character at
  a time, so `ReadByte`, `ReadEmpty` and `ReadReturn` are one loop iteration
  each and the ISR may come in between; `IsrSave` is one pass of the RXNE loop
  with its discard, `IsrIndicate` the computation of the length and the
  callback. A character is its arrival number, so loss, repetition and order can
  be seen in the buffer. `Suspend` and `Resume` are `rt_serial_control`.
* **AtRx.** One action, `MC323A_RX(b)`, per byte; bytes are abstracted to the
  five kinds the code tells apart. The node keeps its layout: `Str[100]` is the
  address of `Ready`, which the terminator of a line of exactly 100 bytes hits
  before `Ready` is set. `Buf[index-1]` with `index` 0 reads outside the array:
  either outcome.
* **AtRing.** `PutLine` is lines 134-140, one step because it runs in the
  interrupt. The thread's steps are the semaphore, the `Ready` test, the
  decoding (during which an overrun may change the node: then the old line, the
  new one or no match), and the release of the node. `unread` and `overrun` are
  history variables.
* **ModemLines.** The byte that ends a line and `PutLine` are one step, as they
  are one call of `MC323A_RX`. `decoded` records what `DecodeCommand` was shown.
* **AtDial.** One action per branch of the `switch` of `AT_thread_entry`; the
  branches that delay, wait, or change shared state twice are split there
  (`smsDelay`, `dialDelay`, `announce`, `waitNet`, `netDown`). `state==5;` at
  line 283 assigns nothing and is modelled as that. `Send` is a call of `write`
  whose result nobody looks at: it may drop the command. `reg` is
  `Register_thread_entry`, which returns at line 61. The modem answers commands
  in order, boots, reports, refuses: external.
* **DecoderRing.** `CopyToDecoderBuf` and the decoder's loop are split at every
  blocking call; what runs between taking and releasing the mutex without
  blocking is one step. The decoder holds the mutex in `check`, `overflow`,
  `wait` and `advance`. The sound device is external.
* **Uart1Tx.** One step of a thread is one C statement on shared data (write:
  lines 268 to 272, 432, 435, 437, 438, 167 to 170; `open` and `close`: flags,
  count, lists and the freeing of each node), because nothing is masked; the DMA
  interrupt is one step. Of the registers, `usart` keeps whether UART and DMA
  requests are enabled: `close` disables them and `init` enables them only on
  its first call. `close` sets `openCnt` to 0 before it finds a transfer under
  way and returns `RT_EBUSY`, and its client tries once more, as `uart1_test`
  does. `fault` says that a NULL pointer was followed or a buffer freed twice.
  `use` is how the callers behave: which threads call, and how many writes they
  leave unsent; `orderly` records that no open or close overlapped another, and
  `ranDry` that the handler ran while `write` was linking a node into a full list
  with nothing else on it (`RunsDry`).
* **LcdApp.** `LCD_Event` is the set of its bits. The thread's accesses to `pText`,
  `TextLen` and the heap (lines 143 to 151) are one action each, because the
  splitter, which is more urgent, may call `LCD_Get_text` between any two. A text
  is its number, which is also its heap block and its length, so a mixture of
  two texts, a freed block or a repeated text can be seen in what is shown.
  `rt_event_recv` clears every bit and the else-if chain handles one.
* **RfidApp.** One action per stretch of the loop between two points where the
  card may have left; each call of the driver fails when the card is gone and may
  fail otherwise. The card's serial number selects the event bit.
* **AdScreen.** As `LcdApp`, with `ADS_MB` (one place, content never read), the
  four states of the `switch`, the five-second time-out, and a screen that
  answers every frame it got, in order and as late as it likes. A stray byte, or a
  second 7E, overwrites what `ADS_input` has in its buffer.
* **FdTable, Pictures.** `open` takes the first entry with reference count 0,
  `close` gives it back; a refusal for another reason leaves the table alone. The
  camera answers a command with one packet, which `CameraData` assembles in the
  interrupt and tells by its length and its end mark: it may arrive whole
  (`Camera_input`), with a byte changed (`CameraCorrupted`, the checksum is compared
  with nothing), with an end mark in its data (`CameraFalseEnd`, the rest follows in
  `CameraRest`), or without its end (`CameraLost`, more bytes are waited for). The
  camera's loop is split at its calls of the file system and of the camera. `open`,
  `write` and `rename` may fail: the loop ends at the first and goes on after the
  others. A part of a picture is its number, `file` the number of parts in
  Camera1.jpg or `Garbage`, and a file left by a power cut may be there at the start.
  An upload thread opens, reads a chunk or fails to (-1, counted and sent like a
  packet), waits for authentication, sends; it never closes, as the code does not.
  `DialOpen` and `DialClose` are `readIPAddrFromfile`, whose failed open stops the AT
  thread in an assertion.
* **GpsApp.** A character of the next sentence makes the buffer `partial`; a
  sentence that is parsed while that happens may come out as anything. The return
  at line 52 keeps `tempBuf` allocated. `Value` is uninitialised: either bit.
* **Alerts, Recorder.** `BeepSem` is NULL until the beeper thread has run; a
  release before that stops the caller in the kernel's assertion. The test and the
  reset of `ManualAlarmStatus` are two steps. Reading a half of the double buffer
  while encoding begins in one step and ends in another.

`Screens` and `Uplink` compose parts that share the splitter's or the
registration thread's event and little else. `Uplink` interleaves all of them, and
the proofs are about that; for TLC, `MCUplink` exercises one group of parts in a
behaviour (`exercised`) and leaves the others in their initial state. A step of a
part changes nothing of a part in another group, so interleaving them would only
multiply the states. Parts that do share state are in one group: the display with
the card reader, the camera with the uploads and the AT thread (for the
descriptors), the talk key with the beeper. The camera's own faults are exercised in
a group of their own, since they are faults of its line and of one file. In
`Screens` the division into the display with the card reader and the advertising
screen is part of the specification.

Definitions whose name describes a slip (`AdvanceStaysOnNode`,
`InsertFullTailFirst`, ...) are not part of any specification: each stands before
the definition it is a variant of, and documents which mistake in the code which
property notices.

## 3. Runs

| Run | Instance | Shows |
|---|---|---|
| `serial_rx` | 4 slots, requests up to 3, 9 arrivals | order, freshness, loss only at capacity, refinement of `RxFifo` |
| `modem_lines` | buffer of 4, all streams of 7 bytes of 5 kinds, 2 nodes | from the wire to the command table: lines are the ones a definition on the whole stream finds, decoded once, whole, in order until the ring overruns; no line waits without a wake-up |
| `dial_safety` | 5 nodes; 1 error on any command, 1 close, 1 unsolicited `^MODE:2`, 1 dropped command | no false announcement, no answer mistaken, use of the ring |
| `dial_live` | 2 errors on IPINIT/IPOPEN, 2 closes, 1 other report | ends connected, closes restart dialling, nobody misses the announcement |
| `dial_close` (violation) | the server may close at any time | finding 1 |
| `dial_link` (violation) | 1 unsolicited `^MODE:2`, 1 error | finding 2 |
| `decoder_ring` | 3 nodes, device of 2, 8 frames | frames and tokens in step, refusal only when full, no blocking for good |
| `uart1` | 3 nodes, 3 opens, 2 closes, 5 writes, 6 transfers; two callers that take turns, or one that never pauses | one owner per buffer and order in both cases, wherever the interrupt strikes in `write` until the full list runs dry under it; no NULL is followed even then; with turns also: no node lost, everything accepted is sent, nobody's close takes the device from another |
| `uart1_strand` (violation) | 1 caller without pause, 2 writes | finding 3 |
| `texts` | 2 texts for each screen, 2 cards, up to 2 frames unanswered | texts whole, once, freed once while they do not crowd; handshake not mistaken and not stuck; one greeting per visit; texts reach the screens |
| `texts_check` (violation) | 2 texts for the display | finding 4 |
| `uplink` | 2 descriptors, 2 uploads, files of 0, 3 and 4 units in packets of 2, 1 counted read failure each, pictures of up to 2 parts, 2 misread packets; every 2nd sentence, 2 heap blocks; frames of 2 samples, mailbox of 2, 3 frames | a failure spoils one picture only, camera and AT thread and descriptors, packets announced and sent, reports, voice frames; and, each by a property of its own, that uploads end, pictures and positions go on and alarms are heard until a resource the code loses is used up |

**Properties with a condition.** Several properties hold "as long as" something:
texts do not crowd, callers take turns or the full list does not run dry, no
sample lands in a half still to be encoded, no packet of the camera is misread.
The condition is a history variable that the same run also drives to the other
side, and what happens there is not a property but a hazard of the code (next
section; the hazards of `PROJECT.json` say in a note which case a property leaves
out).

**Bounds.** Buffers of two to five places wrap several times within the bounds on
arrivals, frames and bytes, become full, overflow and empty again; the behaviour
depends on positions only modulo the size. In `modem_lines` a stream of 7 holds a
line of the buffer's length and one more, or three lines for two nodes, which
overruns the ring. The dial bounds allow each kind of trouble once (twice in
`dial_live`), in every order and at every step. In `uart1` three opens and two
closes let a client reopen a device that was closed, and open one whose close is
waiting to be repeated; `MaxSent` only matters once the lists are damaged and the
DMA runs in circles. Two texts are one that may be overtaken and one that
overtakes. Two descriptors are enough for the uploads to take all of them or to
leave the camera one; the file sizes are zero, a multiple of the packet and
neither. Two misread packets are one that leaves bytes behind and one read with
those before it; failed reads beyond `MaxFailed` are taken but not counted, so a
file that fails for ever is among the behaviours. A single caller of `uart1` that
does not wait has all three nodes in use, one being sent and two on the full list.
Most instances set `CHECK_DEADLOCK FALSE`: a terminal that is connected, a thread
that has returned, or a bounded environment that has nothing more to say, really
rests; liveness properties say where it must not.

**Fairness.** Weak fairness of a thread says that a ready thread gets the
processor: the busy threads of higher priority in this program all block. Weak
fairness of the modem's answers, reports of sent messages and start-up says that
it does what it was told; no unsolicited report is ever assumed. `DecoderRing`
uses strong fairness for the two users of the mutex, which is queued
(`RT_IPC_FLAG_FIFO`), and weak fairness for an open device that plays. In
`Uart1Tx`, a call goes on and a transfer ends. In `Screens`, the advertising
screen finishes the answers it owes, at any time; the display's answers, texts and
cards are never assumed. In `Uplink`, the registration thread publishes (shown by
`dial_live` under its own assumptions) and the camera answers a command, well or
badly; sentences, samples, keys and the alarm button are never assumed, and the
properties that need them say so. `LedSleeps` waits for the beeper to be silent:
the LED thread sleeps two seconds, in which ten beeps sound and at most eight can
be due.

## 4. Findings

1. `dial_close`: on "remote close" the AT thread first *receives* `NET_CONNET`
   without time-out (`AT_APP.c` 352). If the server closes before state 8 has
   announced the network, only this thread could send the event, and it waits
   for ever instead of resetting the modem as the comment at 356 says.
   `dial_live` shows that this is the only obstacle: when closes come after the
   announcement, dialling always restarts.
2. `dial_link`: answers are attributed to commands by counting `OK`s. An
   unsolicited `^MODE:2` between the SMS and its report shifts the count, the
   `ERROR` of `IPOPEN` is ignored in a later state, and the network is announced
   as ready (324) without a connection. Without unsolicited `^MODE:2` this
   cannot happen (`dial_safety`, `OrderlyNetReadyMeansLinked`).
3. `uart1_strand`: `write` tests `pCurrentMDASendNode` (435) and queues (442)
   with interrupts enabled; data queued after the last transfer has ended stays
   there until another write starts the DMA. With one write under way at a time this
   does not happen (`TurnsAreSent`). The AT thread sends its commands so, each after
   the answer to the one before, but not the text of a message and its end mark,
   which it writes back to back (`AT_APP.c` 274, 275).
4. `texts_check`: `LCDAPP.c` 143 checks `pText`, but line 150 frees the block and
   leaves the pointer. After two texts in quick succession the second event finds
   a pointer that is freed and not null, copies from the block and frees it again.

Where a condition of a property is not met, the models also show, without calling it
a finding because no comment or test says otherwise: a writer without pause can lose
a node of the empty list (271, 272) and make `close` free a buffer twice, and when
the full list runs dry while it is linking a node (165 to 171) the node is left out
or overtaken by the next; a client that reopens UART1 after its last close writes
into a disabled UART (310); a client that opens while another's `close` waits to be
repeated after `RT_EBUSY` (387) loses the device, because the repeated close takes
the count for its own; of two bits of `LCD_Event` that arrive together one is lost;
texts that meet a late answer of the advertising screen are lost, or a freed one is
sent again; voice recorded before authentication overwrites itself; four uploads end
the camera thread, and the AT thread at its next dialling; a picture that cannot be
renamed has the next one appended to it; a byte lost from the camera ends the
pictures, since nobody asks again; an upload whose file fails sends packets of
length -1 for ever; a line of the modem that begins with a `\0` is taken for `OK`;
sentences without a fix use up the heap; a position report can leave before
authentication because of the uninitialised `Value`; an LED thread that rings before
the beeper thread has started stops.

## 5. Proofs

All theorems hold for every value of the constants, under the named assumptions of
the modules (sizes are positive, a buffer has at least two slots, `NoCommand` is no
line, every sequence of 0 to `AT_CMD_MAX_LEN` bytes other than `\0` is one, the
threads that use a driver are finitely many). Every safety property of the passing
runs, state invariant or action property, is stated by a theorem.

* `SerialRx_proofs`: `TypeCorrect`, `FreshestBytesHolds`, `ReadInOrderHolds`,
  `LossOnlyAtCapacityHolds`, `IndicatedLengthHolds`. The inductive invariant
  adds to the three invariants that a character is waiting while the ISR is in
  its loop, that the counts fit and that a device not yet initialised has
  received nothing; the case analysis is on whether an index wraps and whether
  the buffer is full. `ImplementsFifoHolds` is the refinement `Spec => ImplementsFifo`:
  under the same invariant the mapped queue is the last `Unread` arrivals
  (`QueueIsRecent`), so saving a character is `Put` at whatever point of a read
  call the ISR strikes, and taking one is `Get`.
* `AtRing_proofs`: `RingHoldsUnreadHolds`, `HandlesOldestLineHolds`. The
  correspondence of nodes, history and semaphore needs to know what the thread
  holds in its hands (`seen`, `Value`) to be inductive. `NodeAtFacts` (counting
  nodes off from `pRead` meets each once) carries the argument.
* `ModemLines_proofs`: `WholeLinesHolds`, `DecodesTheStreamHolds` and the
  refinement `ModemLinesImplementRing` (`MLSpec => RingSpec`). The reference
  definitions (`LineStart`, `LastMark`) are `CHOOSE`s; `StartFacts` and `MarkFacts`
  show that there is exactly one such place, `OneMoreByte` what a byte changes of
  it. `RxInv` says that `Buf[0..index-1]` is always the end of the stream, and that,
  as long as no line since the last frame mark was too long, `index` counts the
  bytes since the last boundary unless the line began with a bare `\n`: exactly what
  the read of `Buf[-1]` can spoil. `DecodeInv` is `DecodesTheStream` with the lines
  still in the ring; it rests on `AtRing`'s invariant, which the refinement carries
  over, on `FinishedExactly` (on a clean stream a line is finished at `\r\n` and
  nowhere else) and on `CleanText` (what is handed over is the bytes since the last
  boundary, the line of exactly `AT_CMD_MAX_LEN` bytes included).
* `Uart1Tx_proofs`: `OpenWhileHeldHolds`, `NoFaultHolds`, `BufferOwnershipHolds`,
  `SentInOrderHolds`, `NoNodeLostHolds`. `OpenInv` adds to `OpenWhileHeld` what is
  known while one client is inside open or close. `Alone` is the invariant of a
  single caller of any speed: from every node and head `Next` leads to a node or a
  tail, whatever the order of the nodes, so no NULL is followed wherever the
  interrupt strikes. `Calm` is what a single caller adds to it as long as the full
  list has not run dry: there are an order `f` of the full list and an order `e` of
  the empty one (`Ordered`), the write accepted `n`-th sits in `f[n]`, the lists share no
  node with each other or with the caller's hands, and each of the statements 167 to
  170 is a known stage between two such orders. `Pre` is trusted only where the code
  reads it. `OrderedInterrupt` shows that the handler preserves this at every statement
  of `write`; `SentInOrder` and `BufferOwnership` follow, the latter with `Allocated` (from
  `Data_Node_list_init` to `free_node` every node has its buffer) and `WalkOrdered`.
  `Turns` is the invariant of callers that take turns. At most
  one node is off the lists at a time and it comes back at the end, so the empty
  list is always a rotation of `1..NODE_NUM` (`Chain(r, m)`: `m` nodes from `r` on and
  round), the full list is empty, the node that is out is the one before `r`, and the
  last accepted write is in its buffer. `WalkChain` shows that following `Next`
  visits exactly the nodes of the chain; `Walk` is a recursive function, and two
  solutions of its equation are shown equal by looking at the first place where
  they differ (`FollowUnique`, from the library's minimality theorem for
  well-founded relations, which takes no operator parameter).
* `DecoderRing_proofs`: `RingHoldsFramesHolds`, `RefusesOnlyWhenFullHolds`. The
  property is inductive with the types; `DecodeFindsFrame` shows that the
  "not ready" branch of the decoder (157-163) is never taken.
* `AtDial_proofs`: `NetCopiesAgreeHolds`. `NetInv` adds what is known inside the
  two windows between the two assignments. `UsesRingHolds` is the refinement of
  `AtRing` by the dialogue: a step-by-step simulation that needs no invariant, in
  which the delays and waits of the switch are stuttering steps of the ring.
  `OneAnswerAwaitedHolds` and `OrderlyNetReadyMeansLinkedHolds` share `DialInv`: as
  long as no `^MODE:2` came unasked and the ring has not overrun, the commands, answers
  and reports under way are those of the state the thread is in (`Phase`), a report of
  another state is not among them (`NoStrays`), and connection, pending close and
  event fit together (`Connection`). What the ring holds comes from `AtRing_proofs`,
  instantiated with the dialogue's `pc` and justified by `UsesRing`.
* `Screens_proofs`: `PoweredBeforeTextsHolds`. `HandshakeInv` adds that an answer
  to PowerOn in the receive buffer came from a screen that is on, and that the
  text part of the loop is reached in state 4 only. Late answers and texts are
  all there; the proof shows that it is the test of the command in state 2
  (and nothing about timing) that keeps them from being taken for the
  confirmation.
  `OneGreetingPerVisitHolds`: `GreetingInv` adds that a card which has been greeted
  finds the thread waiting for it to leave, and that the thread verifies only what
  it has written. `LcdTextsWholeHolds`: `LcdInv` says that from the event to
  `rt_free` the pointer, the length and the thread's copies belong to the last
  text, whose block is the only one allocated unless a text's bit was cleared
  unseen. `AdTextsWholeHolds`: `AdTextInv` says the same of the advertising screen,
  where one mailbox announces texts and answers alike: while every mail comes when
  it is waited for, a mail found at the top of the loop is a text's. All three
  quantify over any number of cards and texts.
* `Uplink_proofs`: `CameraEndsOnlyWhenFullHolds`, `GpsReportsSoundHolds`,
  `PhotoStoredHolds`, `VoiceFramesWholeHolds`, `UploadWholeHolds`. `FdOwned`
  says that every entry in use belongs to the camera or the AT thread, between open
  and close, or to an upload; `GpsInv`
  relates `Value`, the event and the sentence the thread is parsing; `PhotoInv`
  says whose turn it is while no packet has been misread, camera's or thread's
  (`TakingTurns`), and how much of the picture the file, unless it is spoilt, and the
  packet buffer hold at each point; `HalvesInOrder` says that the
  mails name the halves last filled, oldest first, and that a half being encoded
  is not the one being filled unless an overrun has been recorded. It needs a
  mailbox of at least two places (the code's has five). `UploadInv` says that the
  packets counted are those the bytes read so far need and the failed reads, and that
  only the last may be short: the number announced before the loop is the number the
  loop reaches, for every file size.

Only model-checked: the liveness properties (`EachLineTaken`,
`EventuallyConnected`, `CloseRestartsDialling`, `EventuallyAuthenticated`,
`SplitterReturns`, `FramesDecoded`, `TurnsAreSent`, `TextsReachScreens`,
`HandshakeEnds`, `UploadsEnd`, `PhotosGoOn`, `GpsReportsGoOn`,
`AlarmIsHeard`): the prover has no rules for fairness. The properties of the runs
that expect a violation are false, and their counterexamples are TLC's.
Only proved: `IndicatedLength` (the length reported to the reader) and `NetCopiesAgree`
(the two copies of the network state outside the steps that switch them).

## 6. Not modelled, and the plan

`System.lib` (GNSS frames, peripheral protocol, modem and peripheral drivers) is
shipped as a binary; the kernel, the file system behind the descriptor table, the
vendor library, the GUI, the network stacks and Speex are third-party, and most of
them are not part of the build. They are nearly all of the repository's lines.
Of the program's own code:

* the transmit half of `serial.c` is a busy-waiting loop in this build; its DMA
  half is compiled and never reached;
* UART set-up, watchdog, boot and the finsh test functions are straight-line
  register or start-up code without protocol state;
* the CPU usage meter computes a number that is only printed;
* which address `readIPAddrFromfile` finds and the arithmetic of `Unpack_GPRMC` are
  abstracted to their results; the other assertions of `readIPAddrFromfile` (the file
  exists, has a colon, is short enough) are about the configuration and assumed;
* failure of `rt_malloc` while UART1 opens is left out: it happens at start-up, or
  the terminal does not start.

Left to do: what a caller of UART1 that does not wait can count on once the full list
has run dry under it. `NoFault` holds, order and delivery do not (finding 3); how many
nodes can be lost of the empty list is neither checked nor proved.
