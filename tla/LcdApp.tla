------------------------------- MODULE LcdApp -------------------------------
(***************************************************************************)
(* The passenger display thread of src/MySouce/PCP/LCDAPP.c.  It sleeps on *)
(* LCD_Event and handles one of the bits it was woken for; a text comes    *)
(* from the splitter (priority 10), which calls LCD_Get_text and may do so *)
(* between any two accesses of the display thread (priority 29) to pText   *)
(* and TextLen.  Text t occupies heap block t and has length t: texts have *)
(* pairwise different lengths, and 0 is the NULL pointer and the length 0. *)
(***************************************************************************)
EXTENDS Naturals

CONSTANT LcdTexts   \* bound: texts the server sends to the display

ASSUME LcdTextsAssumption == LcdTexts \in Nat

\* Bits of LCD_Event: a frame from the display, a text, the cards of two drivers.
Ack     == 0
Text    == 1
Drivers == {2, 3}

VARIABLES
  lcdCouter,            \* couter of LCD_input, told apart up to 2
  LCD_Event,            \* the set of bits that are up
  lcdPc,
  pText, TextLen,
  lcdSrc,               \* pText as CheckText loaded it
  lcdData, lcdSize,     \* userData and size of pPCPsrtuct
  lcdHeap,              \* texts whose block is allocated
  lcdSent, lcdShown,    \* history: texts handed over, texts shown whole and once
  lcdSpoilt,            \* history: the display was sent something else
  lcdWildFree,          \* history: rt_free of a block that is not allocated
  lcdCrowded,           \* history: a text came before the last one was done with
  lcdMasked             \* history: a text's bit was cleared and not handled

lcdText == <<pText, TextLen, lcdHeap, lcdSent, lcdCrowded>>
lcdFrame == <<lcdSrc, lcdData, lcdSize>>
lcdSeen == <<lcdShown, lcdSpoilt, lcdWildFree>>
lcdVars == <<lcdCouter, LCD_Event, lcdPc, lcdText, lcdFrame, lcdSeen, lcdMasked>>

LcdInit ==
  /\ lcdCouter = 0 /\ LCD_Event = {} /\ lcdPc = "start"
  /\ pText = 0 /\ TextLen = 0 /\ lcdHeap = {} /\ lcdSent = 0 /\ lcdCrowded = FALSE
  /\ lcdSrc = 0 /\ lcdData = 0 /\ lcdSize = 0
  /\ lcdShown = {} /\ lcdSpoilt = FALSE /\ lcdWildFree = FALSE
  /\ lcdMasked = FALSE

\* LCD_Event is created, the device opened and the first frame sent.
LcdStart ==
  /\ lcdPc = "start"
  /\ lcdPc' = "recv"
  /\ UNCHANGED <<lcdCouter, LCD_Event, lcdText, lcdFrame, lcdSeen, lcdMasked>>

\* What the byte b makes of the counter of LCD_input and ADS_input, and whether
\* it ends a frame: 0x7E opens one, a second 0x7E right after it does not end it.
NextCouter(couter, b) ==
  CASE couter = 0 -> IF b = "7E" THEN 1 ELSE 0
    [] couter = 1 -> IF b = "7E" THEN 1 ELSE 2
    [] OTHER      -> IF b = "7E" THEN 0 ELSE 2
EndsFrame(couter, b) == couter = 2 /\ b = "7E"

\* The display sends a byte.
LCD_input(b) ==
  /\ lcdPc # "start"
  /\ lcdCouter' = NextCouter(lcdCouter, b)
  /\ LCD_Event' = IF EndsFrame(lcdCouter, b) THEN LCD_Event \cup {Ack} ELSE LCD_Event
  /\ UNCHANGED <<lcdPc, lcdText, lcdFrame, lcdSeen, lcdMasked>>

\* The last text has been taken out of its block and the block freed.
LcdDone == lcdPc = "recv" /\ Text \notin LCD_Event

LCD_Get_textSendsAck(t) ==
  /\ pText' = t /\ TextLen' = t
  /\ lcdHeap' = lcdHeap \cup {t}
  /\ LCD_Event' = LCD_Event \cup {Ack}
  /\ lcdSent' = t
  /\ lcdCrowded' = (lcdCrowded \/ ~LcdDone)
  /\ UNCHANGED <<lcdCouter, lcdPc, lcdFrame, lcdSeen, lcdMasked>>

\* The splitter hands over text t; it has priority over the display thread, so
\* the whole function is one step.
LCD_Get_text(t) ==
  /\ pText' = t /\ TextLen' = t
  /\ lcdHeap' = lcdHeap \cup {t}
  /\ LCD_Event' = LCD_Event \cup {Text}
  /\ lcdSent' = t
  /\ lcdCrowded' = (lcdCrowded \/ ~LcdDone)
  /\ UNCHANGED <<lcdCouter, lcdPc, lcdFrame, lcdSeen, lcdMasked>>

\* The server is reached long after the thread has created LCD_Event.
NewLcdText == lcdPc # "start" /\ lcdSent < LcdTexts /\ LCD_Get_text(lcdSent + 1)

RecvWithoutClear(bit) ==
  /\ lcdPc = "recv" /\ bit \in LCD_Event
  /\ UNCHANGED LCD_Event
  /\ lcdMasked' = (lcdMasked \/ (Text \in LCD_Event /\ bit # Text))
  /\ UNCHANGED <<lcdCouter, lcdText, lcdFrame, lcdSeen>>

\* rt_event_recv with OR and CLEAR takes every bit; the else-if chain handles
\* one, and the others are gone.
Recv(bit) ==
  /\ lcdPc = "recv" /\ bit \in LCD_Event
  /\ LCD_Event' = {}
  /\ lcdMasked' = (lcdMasked \/ (Text \in LCD_Event /\ bit # Text))
  /\ UNCHANGED <<lcdCouter, lcdText, lcdFrame, lcdSeen>>

RecvAck == Recv(Ack) /\ UNCHANGED lcdPc
RecvText ==
  /\ Ack \notin LCD_Event
  /\ Recv(Text)
  /\ lcdPc' = "check"
\* The greeting goes to the display from a constant.
RecvDriver(d) ==
  /\ \A e \in LCD_Event : e >= d
  /\ Recv(d)
  /\ UNCHANGED lcdPc

\* if(!pText) continue; nothing stands between this load and the one for memcpy.
CheckText ==
  /\ lcdPc = "check"
  /\ IF pText = 0 THEN lcdPc' = "recv" ELSE lcdPc' = "copy"
  /\ lcdSrc' = pText
  /\ UNCHANGED <<lcdCouter, LCD_Event, lcdText, lcdData, lcdSize, lcdSeen, lcdMasked>>

\* What memcpy of len bytes from block src makes: text src, or (0) a piece of
\* it, nothing, or the contents of a freed block.
Copied(src, len, heap) == IF src \in heap /\ len = src THEN src ELSE 0

CopyText ==
  /\ lcdPc = "copy"
  /\ lcdData' = Copied(lcdSrc, TextLen, lcdHeap)
  /\ lcdPc' = "size"
  /\ UNCHANGED <<lcdCouter, LCD_Event, lcdText, lcdSrc, lcdSize, lcdSeen, lcdMasked>>

SetSize ==
  /\ lcdPc = "size"
  /\ lcdSize' = TextLen
  /\ lcdPc' = "send"
  /\ UNCHANGED <<lcdCouter, LCD_Event, lcdText, lcdSrc, lcdData, lcdSeen, lcdMasked>>

\* A text is shown as it should be: whole, with its length, and for the first time.
Good(data, size, shown) == data # 0 /\ data = size /\ data \notin shown

SendText ==
  /\ lcdPc = "send"
  /\ IF Good(lcdData, lcdSize, lcdShown)
     THEN lcdShown' = lcdShown \cup {lcdData} /\ UNCHANGED lcdSpoilt
     ELSE lcdSpoilt' = TRUE /\ UNCHANGED lcdShown
  /\ lcdPc' = "free"
  /\ lcdSrc' = 0 /\ lcdData' = 0 /\ lcdSize' = 0   \* not used any more
  /\ UNCHANGED <<lcdCouter, LCD_Event, lcdText, lcdWildFree, lcdMasked>>

\* rt_free(pText), with pText read again.  The kernel stops in an assertion on a
\* block that is not allocated; if the block has been given to someone else in
\* the meantime it frees that one and goes on.
FreeText ==
  /\ lcdPc = "free"
  /\ lcdHeap' = lcdHeap \ {pText}
  /\ lcdWildFree' = (lcdWildFree \/ pText \notin lcdHeap)
  /\ lcdPc' \in IF pText \in lcdHeap THEN {"clear"} ELSE {"clear", "hung"}
  /\ UNCHANGED <<lcdCouter, LCD_Event, pText, TextLen, lcdSent, lcdCrowded, lcdFrame,
                 lcdShown, lcdSpoilt, lcdMasked>>

ClearLen ==
  /\ lcdPc = "clear"
  /\ TextLen' = 0
  /\ lcdPc' = "recv"
  /\ UNCHANGED <<lcdCouter, LCD_Event, pText, lcdHeap, lcdSent, lcdCrowded, lcdFrame,
                 lcdSeen, lcdMasked>>

LcdThread ==
  \/ LcdStart \/ RecvAck \/ RecvText
  \/ \E d \in Drivers : RecvDriver(d)
  \/ CheckText \/ CopyText \/ SetSize \/ SendText \/ FreeText \/ ClearLen

LcdEnv ==
  \/ \E b \in {"7E", "x"} : LCD_input(b)
  \/ NewLcdText
-----------------------------------------------------------------------------
(* Properties                                                              *)

\* As long as each text comes after the last one is done with, the display shows
\* nothing but whole texts, each once, rt_free gets an allocated block, and no
\* block is left behind unless the text's bit was cleared together with another.
LcdTextsWhole ==
  ~lcdCrowded =>
    /\ ~lcdSpoilt /\ ~lcdWildFree
    /\ LcdDone /\ ~lcdMasked => lcdHeap = {} /\ lcdShown = 1 .. lcdSent

\* Liveness: a text is shown, unless texts crowd or another bit hides its own.
LcdTextShown ==
  \A t \in 1 .. LcdTexts :
    (lcdSent = t) ~> (t \in lcdShown \/ lcdCrowded \/ lcdMasked)

\* The comment at line 142, "check that the pointer is right": the block that
\* passes the check, and is copied from next, is allocated.
CheckedPointerLive == lcdPc = "copy" => lcdSrc \in lcdHeap
=============================================================================
