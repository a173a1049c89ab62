----------------------------- MODULE DecoderRing -----------------------------
(***************************************************************************)
(* The voice path of src/MySouce/Vocoder/SoundAPP.c: the splitter thread   *)
(* puts encoded frames into a ring with CopyToDecoderBuf, the decoder      *)
(* thread takes them out, decodes them and writes them to the sound        *)
(* device.  The ring is protected by EncodeDataBuffermutex, which the      *)
(* decoder keeps while it waits for the device to play half its buffer.    *)
(*                                                                         *)
(* The sound device (Sound_drive, in System.lib) is external: it buffers   *)
(* DevSize frames, plays while it is open, raises HalfLeftEvent when half  *)
(* is left, and calls complete when nothing is.                            *)
(***************************************************************************)
EXTENDS Naturals, Sequences

CONSTANTS NUM,         \* ReceiveBufInit(1000)
          DevSize,     \* frames the sound device buffers
          MaxFrames    \* bound: frames received

ASSUME NumAssumption == NUM \in Nat \ {0}
ASSUME DevSizeAssumption == DevSize \in Nat \ {0}
ASSUME MaxFramesAssumption == MaxFrames \in Nat

VARIABLES
  Ready, Data, pReadEncodeData, pWriteEncodeData,
  mutex,              \* holder of EncodeDataBuffermutex, or "none"
  DecoderSem, HalfLeftEvent,
  splitter,           \* where the splitter is in CopyToDecoderBuf
  decoder,            \* where Decoder_thread_entery is
  open, buffered,     \* the sound device: playing, frames it holds
  received,           \* frames the splitter has been given
  queue               \* history: frames accepted and not yet finished with

ring   == <<Ready, Data, pReadEncodeData, pWriteEncodeData>>
device == <<open, buffered>>
vars   == <<Ready, Data, pReadEncodeData, pWriteEncodeData, mutex, DecoderSem, HalfLeftEvent,
            splitter, decoder, open, buffered, received, queue>>

Nodes == 0 .. NUM - 1
\* pReadEncodeData->next, pWriteEncodeData->next
next(i) == IF i + 1 = NUM THEN 0 ELSE i + 1

\* ReceiveBufInit, then the decoder opens the device; frames come later.
ReceiveBufInit ==
  /\ Ready = [i \in Nodes |-> FALSE] /\ Data = [i \in Nodes |-> 0]
  /\ pReadEncodeData = 0 /\ pWriteEncodeData = 0

Init ==
  /\ ReceiveBufInit
  /\ mutex = "none" /\ DecoderSem = 0 /\ HalfLeftEvent = FALSE
  /\ splitter = "idle" /\ decoder = "take"
  /\ open = TRUE /\ buffered = 0 /\ received = 0 /\ queue = <<>>
-----------------------------------------------------------------------------
(* CopyToDecoderBuf                                                        *)

Receive ==
  /\ splitter = "idle" /\ received < MaxFrames
  /\ received' = received + 1 /\ splitter' = "lock"
  /\ UNCHANGED <<ring, mutex, DecoderSem, HalfLeftEvent, decoder, device, queue>>

LockToCopy ==
  /\ splitter = "lock" /\ mutex = "none"
  /\ mutex' = "splitter" /\ splitter' = "check"
  /\ UNCHANGED <<ring, DecoderSem, HalfLeftEvent, decoder, device, received, queue>>

\* The node is still Ready: release the mutex, return RT_ERROR; the caller
\* ignores it and the frame is gone.
Refuse ==
  /\ splitter = "check" /\ Ready[pWriteEncodeData]
  /\ mutex' = "none" /\ splitter' = "idle"
  /\ UNCHANGED <<ring, DecoderSem, HalfLeftEvent, decoder, device, received, queue>>

Copy ==
  /\ splitter = "check" /\ ~Ready[pWriteEncodeData]
  /\ Data' = [Data EXCEPT ![pWriteEncodeData] = received]
  /\ Ready' = [Ready EXCEPT ![pWriteEncodeData] = TRUE]
  /\ pWriteEncodeData' = next(pWriteEncodeData)
  /\ mutex' = "none" /\ splitter' = "signal"
  /\ queue' = Append(queue, received)
  /\ UNCHANGED <<pReadEncodeData, DecoderSem, HalfLeftEvent, decoder, device, received>>

SignalOnlyWhenZero ==
  /\ splitter = "signal"
  /\ DecoderSem' = IF DecoderSem = 0 THEN 1 ELSE DecoderSem
  /\ splitter' = "idle"
  /\ UNCHANGED <<ring, mutex, HalfLeftEvent, decoder, device, received, queue>>

\* rt_sem_release(&DecoderSem)
Signal ==
  /\ splitter = "signal"
  /\ DecoderSem' = DecoderSem + 1 /\ splitter' = "idle"
  /\ UNCHANGED <<ring, mutex, HalfLeftEvent, decoder, device, received, queue>>
-----------------------------------------------------------------------------
(* Decoder_thread_entery                                                   *)

SemTake ==
  /\ decoder = "take" /\ DecoderSem > 0
  /\ DecoderSem' = DecoderSem - 1 /\ decoder' = "lock"
  /\ UNCHANGED <<ring, mutex, HalfLeftEvent, splitter, device, received, queue>>

LockToDecode ==
  /\ decoder = "lock" /\ mutex = "none"
  /\ mutex' = "decoder" /\ decoder' = "check"
  /\ UNCHANGED <<ring, DecoderSem, HalfLeftEvent, splitter, device, received, queue>>

\* A node that is not Ready is skipped; otherwise decode it and write it to the
\* device, which takes the frame whole or reports less than its size.
Decode ==
  /\ decoder = "check"
  /\ IF ~Ready[pReadEncodeData]
     THEN decoder' = "take" /\ mutex' = "none" /\ UNCHANGED device
     ELSE IF buffered < DevSize
     THEN decoder' = "advance" /\ buffered' = buffered + 1 /\ UNCHANGED <<mutex, open>>
     ELSE decoder' = "overflow" /\ UNCHANGED <<mutex, device>>
  /\ UNCHANGED <<ring, DecoderSem, HalfLeftEvent, splitter, received, queue>>

OverflowWithoutOpen ==
  /\ decoder = "overflow"
  /\ decoder' = "wait"
  /\ UNCHANGED <<ring, mutex, DecoderSem, HalfLeftEvent, splitter, device, received, queue>>

\* len<(FRAME_SIZE*2): device->open, control, then wait with the mutex held.
Overflow ==
  /\ decoder = "overflow"
  /\ open' = TRUE /\ decoder' = "wait"
  /\ UNCHANGED <<ring, mutex, DecoderSem, HalfLeftEvent, splitter, buffered, received, queue>>

\* rt_event_recv(HalfLeftEvent, OR|CLEAR, RT_WAITING_FOREVER)
HalfLeft ==
  /\ decoder = "wait" /\ HalfLeftEvent
  /\ HalfLeftEvent' = FALSE /\ decoder' = "advance"
  /\ UNCHANGED <<ring, mutex, DecoderSem, splitter, device, received, queue>>

AdvanceKeepsReady ==
  /\ decoder = "advance"
  /\ pReadEncodeData' = next(pReadEncodeData)
  /\ mutex' = "none" /\ decoder' = "take" /\ queue' = Tail(queue)
  /\ UNCHANGED <<Ready, Data, pWriteEncodeData, DecoderSem, HalfLeftEvent, splitter, device, received>>

AdvanceStaysOnNode ==
  /\ decoder = "advance"
  /\ Ready' = [Ready EXCEPT ![pReadEncodeData] = FALSE]
  /\ mutex' = "none" /\ decoder' = "take" /\ queue' = Tail(queue)
  /\ UNCHANGED <<Data, pReadEncodeData, pWriteEncodeData, DecoderSem, HalfLeftEvent, splitter,
                 device, received>>

\* pReadEncodeData->Ready=0, next node, release the mutex.
Advance ==
  /\ decoder = "advance"
  /\ Ready' = [Ready EXCEPT ![pReadEncodeData] = FALSE]
  /\ pReadEncodeData' = next(pReadEncodeData)
  /\ mutex' = "none" /\ decoder' = "take" /\ queue' = Tail(queue)
  /\ UNCHANGED <<Data, pWriteEncodeData, DecoderSem, HalfLeftEvent, splitter, device, received>>
-----------------------------------------------------------------------------
(* The sound device (external) and its callback complete.                  *)

Play ==
  /\ open /\ buffered > 0
  /\ buffered' = buffered - 1
  /\ HalfLeftEvent' = (HalfLeftEvent \/ buffered' = DevSize \div 2)
  /\ UNCHANGED <<ring, mutex, DecoderSem, splitter, decoder, open, received, queue>>

\* Nothing is left: tx_complete closes the device.
complete ==
  /\ open /\ buffered = 0
  /\ open' = FALSE
  /\ UNCHANGED <<ring, mutex, DecoderSem, HalfLeftEvent, splitter, decoder, buffered, received, queue>>

CopyToDecoderBuf == LockToCopy \/ Refuse \/ Copy \/ Signal
Decoder == SemTake \/ LockToDecode \/ Decode \/ Overflow \/ HalfLeft \/ Advance

Next ==
  \/ Receive \/ LockToCopy \/ Refuse \/ Copy \/ Signal
  \/ SemTake \/ LockToDecode \/ Decode \/ Overflow \/ HalfLeft \/ Advance
  \/ Play \/ complete

Spec == Init /\ [][Next]_vars

\* Ready threads run, the mutex is handed to the thread that has waited for it
\* (RT_IPC_FLAG_FIFO), and an open device plays.
FairSpec ==
  /\ Spec
  /\ SF_vars(CopyToDecoderBuf) /\ SF_vars(Decoder) /\ WF_vars(Play)
-----------------------------------------------------------------------------
(* Properties                                                              *)

\* Type correctness: both pointers stay on nodes of the ring, and the device is
\* never given more frames than it holds.
TypeOK ==
  /\ Ready \in [Nodes -> BOOLEAN] /\ Data \in [Nodes -> Nat]
  /\ pReadEncodeData \in Nodes /\ pWriteEncodeData \in Nodes
  /\ mutex \in {"none", "splitter", "decoder"} /\ DecoderSem \in Nat /\ HalfLeftEvent \in BOOLEAN
  /\ splitter \in {"idle", "lock", "check", "signal"}
  /\ decoder \in {"take", "lock", "check", "overflow", "wait", "advance"}
  /\ open \in BOOLEAN /\ buffered \in 0 .. DevSize /\ received \in Nat /\ queue \in Seq(Nat)

\* The node k places after pReadEncodeData.
NodeAt(k) == IF pReadEncodeData + k >= NUM THEN pReadEncodeData + k - NUM ELSE pReadEncodeData + k

\* Tokens of DecoderSem about to be released and already taken.
Coming == IF splitter = "signal" THEN 1 ELSE 0
Taken  == IF decoder = "take" THEN 0 ELSE 1

\* The Ready nodes from pReadEncodeData on hold exactly the frames accepted and
\* not finished with, in order, and DecoderSem has one token for each: no frame
\* is overwritten, skipped or decoded twice, and none waits without a token.
RingHoldsFrames ==
  /\ Len(queue) <= NUM
  /\ \A k \in 0 .. NUM - 1 :
       /\ Ready[NodeAt(k)] <=> k < Len(queue)
       /\ k < Len(queue) => Data[NodeAt(k)] = queue[k + 1]
  /\ pWriteEncodeData = IF Len(queue) = NUM THEN pReadEncodeData ELSE NodeAt(Len(queue))
  /\ DecoderSem + Coming + Taken = Len(queue)

\* CopyToDecoderBuf turns a frame away only when all NUM nodes hold frames that
\* are still to be decoded.
RefusesOnlyWhenFull ==
  [][splitter = "check" /\ splitter' = "idle" => Len(queue) = NUM]_vars

\* The splitter, which serves every message of the server, never stays blocked
\* in CopyToDecoderBuf, although the decoder waits for the device with the
\* mutex held: before it waits it has opened the device complete may have closed.
SplitterReturns == splitter = "lock" ~> splitter = "idle"

\* A frame in the ring is decoded sooner or later: the decoder never sleeps on
\* DecoderSem while there is work, whoever signals when.
FramesDecoded == queue # <<>> ~> decoder = "advance"
=============================================================================
