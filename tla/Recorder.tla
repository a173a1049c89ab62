------------------------------ MODULE Recorder ------------------------------
(***************************************************************************)
(* Push to talk: the key thread (src/MySouce/Keyboard/Keyboard.c) opens    *)
(* and closes the recorder, whose interrupt (record_input2 of              *)
(* src/MySouce/Vocoder/RecordAPP.c) fills one half of a double buffer and  *)
(* mails the half it has filled; the record thread encodes that half and   *)
(* sends it once the terminal is authenticated.                            *)
(***************************************************************************)
EXTENDS Alerts, Sequences

CONSTANTS FRAME_SIZE,   \* 160 samples
          MailSize,     \* rt_mb_create("recMB",5,..)
          MaxFrames     \* bound: frames recorded

ASSUME RecorderAssumption ==
  FRAME_SIZE \in Nat \ {0} /\ MailSize \in Nat \ {0, 1} /\ MaxFrames \in Nat

VARIABLES
  pressed, LastPPTstate, keyHung,
  recOpen,             \* the recorder is open: samples come in
  i, currentIndex,     \* of record_input2
  Buffer,              \* the frame in each half, with a flag while it is overwritten
  recMB,               \* halves mailed
  recPc, Result,
  out_bytes,           \* the frame encoded last, 0 if it was a mixture
  frames,              \* history: frames completed
  sentFrames,          \* history: frames sent
  overrun              \* history: a sample went into a half not yet encoded

keyVars == <<pressed, LastPPTstate, keyHung>>
isrVars == <<i, currentIndex, Buffer, frames, overrun>>
recVars == <<keyVars, recOpen, isrVars, recMB, recPc, Result, out_bytes, sentFrames>>

RecInit ==
  /\ pressed \in BOOLEAN /\ LastPPTstate = 0 /\ keyHung = FALSE /\ recOpen = FALSE
  /\ i = 0 /\ currentIndex = 0 /\ Buffer = [h \in {0, 1} |-> [frame |-> 0, dirty |-> FALSE]]
  /\ recMB = <<>> /\ recPc = "recv" /\ Result = 0 /\ out_bytes = 0
  /\ frames = 0 /\ sentFrames = <<>> /\ overrun = FALSE

Key ==
  /\ pressed' = ~pressed
  /\ UNCHANGED <<LastPPTstate, keyHung, recOpen, isrVars, recMB, recPc, Result, out_bytes, sentFrames, alertVars>>

\* Every half second the key is read; only a change does something.  The key
\* thread counts as pressed before it starts.
KeyReleased ==
  /\ ~pressed /\ LastPPTstate = 0
  /\ LastPPTstate' = 1 /\ recOpen' = FALSE
  /\ UNCHANGED <<pressed, keyHung, isrVars, recMB, recPc, Result, out_bytes, sentFrames, alertVars>>

\* rt_sem_release(BeepSem) first: a NULL semaphore stops the thread.
KeyPressed ==
  /\ pressed /\ LastPPTstate # 0 /\ ~keyHung
  /\ IF BeepSem = NoSem
     THEN keyHung' = TRUE /\ UNCHANGED <<BeepSem, presses, LastPPTstate, recOpen>>
     ELSE /\ presses < 2 /\ presses' = presses + 1
          /\ BeepSem' = BeepSem + 1 /\ LastPPTstate' = 0 /\ recOpen' = TRUE
          /\ UNCHANGED keyHung
  /\ UNCHANGED <<pressed, isrVars, recMB, recPc, Result, out_bytes, sentFrames,
                 ManualAlarmStatus, ledPc, beepPc, rung>>

KeyThread == KeyReleased \/ KeyPressed

\* Half h has been mailed, or taken from the mailbox, and not been encoded.
Waiting(h) == (\E k \in 1 .. Len(recMB) : recMB[k] = h) \/ (recPc \in {"start", "end"} /\ Result = h)

MailOfSwapped(h) == 1 - h
\* 1<<1 stands for half 0, 1<<2 for half 1.
MailOf(h) == h

\* One sample of the ADC; rt_mb_send into a full mailbox fails unnoticed.
record_input2 ==
  /\ recOpen /\ frames < MaxFrames
  /\ overrun' = (overrun \/ Waiting(currentIndex))
  /\ IF i + 1 = FRAME_SIZE
     THEN /\ i' = 0 /\ currentIndex' = 1 - currentIndex
          /\ frames' = frames + 1
          /\ Buffer' = [Buffer EXCEPT ![currentIndex] = [frame |-> frames + 1, dirty |-> FALSE]]
          /\ recMB' = IF Len(recMB) < MailSize THEN Append(recMB, MailOf(currentIndex)) ELSE recMB
     ELSE /\ i' = i + 1
          /\ Buffer' = [Buffer EXCEPT ![currentIndex].dirty = TRUE]
          /\ UNCHANGED <<currentIndex, frames, recMB>>
  /\ UNCHANGED <<keyVars, recOpen, recPc, Result, out_bytes, sentFrames, alertVars>>

RecRecv ==
  /\ recPc = "recv" /\ recMB # <<>>
  /\ Result' = Head(recMB) /\ recMB' = Tail(recMB)
  /\ recPc' = "start"
  /\ UNCHANGED <<keyVars, recOpen, isrVars, out_bytes, sentFrames, alertVars>>

\* speex_encode_int reads the half from here ...
EncodeStart ==
  /\ recPc = "start"
  /\ out_bytes' = IF Buffer[Result].dirty THEN 0 ELSE Buffer[Result].frame
  /\ recPc' = "end"
  /\ UNCHANGED <<keyVars, recOpen, isrVars, recMB, Result, sentFrames, alertVars>>

\* ... to here: what was written meanwhile is mixed in.
EncodeEnd ==
  /\ recPc = "end"
  /\ out_bytes' = IF Buffer[Result] = [frame |-> out_bytes, dirty |-> FALSE] THEN out_bytes ELSE 0
  /\ recPc' = "send"
  /\ UNCHANGED <<keyVars, recOpen, isrVars, recMB, Result, sentFrames, alertVars>>

\* Waits for AUTHENTCATED_EVENT for ever, then GNSS_T_Voice.
RecSend ==
  /\ recPc = "send" /\ authenticated
  /\ sentFrames' = Append(sentFrames, out_bytes)
  /\ recPc' = "recv"
  /\ UNCHANGED <<keyVars, recOpen, isrVars, recMB, Result, out_bytes, alertVars>>

RecThread == RecRecv \/ EncodeStart \/ EncodeEnd \/ RecSend
-----------------------------------------------------------------------------
(* Properties                                                              *)

\* As long as no sample lands in a half that is still to be encoded, the frames
\* sent are the frames recorded: whole, in order, none left out or sent twice,
\* and the mailbox loses none.
VoiceFramesWhole ==
  ~overrun =>
    /\ sentFrames = [k \in 1 .. Len(sentFrames) |-> k]
    /\ frames = Len(sentFrames) + Len(recMB) + (IF recPc = "recv" THEN 0 ELSE 1)
=============================================================================
