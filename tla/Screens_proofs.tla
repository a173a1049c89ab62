--------------------------- MODULE Screens_proofs ----------------------------
(***************************************************************************)
(* The power-on handshake and the texts of the advertising screen, the     *)
(* greetings of the card reader and the texts of the passenger display,    *)
(* for every number of texts, cards and frames a screen may be behind with. *)
(***************************************************************************)
EXTENDS Screens, TLAPS

\* What makes PoweredBeforeTexts inductive: an answer to PowerOn in the buffer was
\* sent by a screen that is on, and the thread is in the part of its loop that
\* handles texts only in state 4.
HandshakeInv ==
  /\ state \in 1 .. 4
  /\ adBuf = "PowerOn" => poweredOn
  /\ state >= 3 => poweredOn
  /\ adPc \in {"wait", "check", "copy", "size", "free", "clear", "show"} => state = 4
  /\ adShown # {} => poweredOn

\* The variables HandshakeInv is about.
handshake == <<state, adBuf, poweredOn, adPc, adShown>>

\* A step that leaves those alone preserves it.
LEMMA HandshakeUntouched ==
  HandshakeInv /\ UNCHANGED handshake => HandshakeInv'
BY DEF HandshakeInv, handshake

\* The interrupt: an answer to PowerOn can only come from a screen that is on.
LEMMA InputKeepsHandshake ==
  ASSUME HandshakeInv, NEW b \in {"7E", "x"}, ADS_input(b)
  PROVE  HandshakeInv'
<1>1. state' = state /\ adPc' = adPc /\ adShown' = adShown
  BY DEF ADS_input, adSeen
<1>2. CASE EndsFrame(adCouter, b)
  <2>1. adBuf' = Head(asked) /\ poweredOn' = (poweredOn \/ Head(asked) = "PowerOn")
    BY <1>2 DEF ADS_input
  <2> QED
    BY <1>1, <2>1 DEF HandshakeInv
<1>3. CASE ~EndsFrame(adCouter, b)
  <2>1. poweredOn' = poweredOn /\ (adBuf' = "mixed" \/ adBuf' = adBuf)
    BY <1>3 DEF ADS_input
  <2> QED
    BY <1>1, <2>1 DEF HandshakeInv
<1> QED
  BY <1>2, <1>3

\* The thread: state 3 is entered only on an answer to PowerOn.
LEMMA ThreadKeepsHandshake ==
  ASSUME HandshakeInv, AdThread
  PROVE  HandshakeInv'
<1>1. CASE SendRequest
  BY <1>1 DEF SendRequest, HandshakeInv, adSeen
<1>2. CASE State3
  BY <1>2 DEF State3, HandshakeInv, adLink, adSeen
<1>3. CASE RecvMail
  BY <1>3 DEF RecvMail, HandshakeInv, adLink, adSeen
<1>4. CASE TimeOut
  BY <1>4 DEF TimeOut, Top, HandshakeInv, adLink, adSeen
<1>5. CASE Unpack
  <2>1. AfterUnpack \in 1 .. 4 /\ (AfterUnpack >= 3 => poweredOn)
    BY DEF HandshakeInv, AfterUnpack
  <2>2. state' \in 1 .. 4 /\ (state' >= 3 => poweredOn)
    BY <1>5, <2>1 DEF Unpack, HandshakeInv
  <2>3. adPc' = IF state' = 4 THEN "wait" ELSE "send"
    BY <1>5 DEF Unpack, Top
  <2> QED
    BY <1>5, <2>2, <2>3 DEF Unpack, HandshakeInv, adLink, adSeen
<1>6. CASE WaitText \/ CheckADText \/ CopyADText \/ SetADSize
  BY <1>6 DEF WaitText, CheckADText, CopyADText, SetADSize, HandshakeInv, adLink, adSeen
<1>7. CASE FreeADText
  BY <1>7 DEF FreeADText, HandshakeInv, adLink
<1>8. CASE ClearADLen
  BY <1>8 DEF ClearADLen, HandshakeInv, adLink, adSeen
<1>9. CASE ShowADText
  BY <1>9 DEF ShowADText, HandshakeInv
<1> QED
  BY <1>1, <1>2, <1>3, <1>4, <1>5, <1>6, <1>7, <1>8, <1>9 DEF AdThread

\* No text goes to a screen that has not confirmed PowerOn (AdscreenAPP.c 104-128),
\* however late its answers and however many texts arrive in between.
THEOREM PoweredBeforeTextsHolds == Spec => []PoweredBeforeTexts
<1>1. Init => HandshakeInv
  BY DEF Init, AdInit, HandshakeInv
<1>2. HandshakeInv /\ [Next]_vars => HandshakeInv'
  <2> SUFFICES ASSUME HandshakeInv, [Next]_vars PROVE HandshakeInv'
    OBVIOUS
  <2>1. CASE Display(LcdThread) \/ Display(LcdEnv) \/ Reader(RfidThread) \/ Reader(RfidEnv)
    BY <2>1, HandshakeUntouched DEF Display, Reader, adVars, adLink, adSeen, handshake
  <2>2. CASE Screen(AdThread)
    BY <2>2, ThreadKeepsHandshake DEF Screen
  <2>3. CASE Screen(AdEnv)
    <3>1. CASE NewAdText
      BY <3>1, HandshakeUntouched DEF NewAdText, AD_Get_text, adLink, adSeen, handshake
    <3>2. CASE \E b \in {"7E", "x"} : ADS_input(b)
      BY <3>2, InputKeepsHandshake
    <3> QED
      BY <2>3, <3>1, <3>2 DEF Screen, AdEnv
  <2>4. CASE UNCHANGED vars
    BY <2>4, HandshakeUntouched DEF vars, adVars, adLink, adSeen, handshake
  <2> QED
    BY <2>1, <2>2, <2>3, <2>4 DEF Next
<1>3. HandshakeInv => PoweredBeforeTexts
  BY DEF HandshakeInv, PoweredBeforeTexts
<1> QED
  BY <1>1, <1>2, <1>3, PTL DEF Spec
-----------------------------------------------------------------------------
(* Greetings                                                               *)

\* What makes OneGreetingPerVisit inductive: after the greeting the thread waits
\* for the card to leave, and it verifies and greets only what it has written.
GreetingInv ==
  /\ rfidPc \in {"find", "dialogue", "write", "verify", "notify", "leave"}
  /\ greetings \in 0 .. 2 /\ flaky \in BOOLEAN /\ same \in BOOLEAN /\ written \in BOOLEAN
  /\ field # NoCard /\ greetings > 0 /\ ~flaky =>
       greetings = 1 /\ rfidPc = "leave" /\ (same => written)
  /\ rfidPc \in {"verify", "notify"} /\ same => written

\* The reader thread.
LEMMA ReaderKeepsGreeting ==
  ASSUME GreetingInv, RfidThread
  PROVE  GreetingInv'
<1>1. CASE FindCard
  BY <1>1 DEF FindCard, GreetingInv
<1>2. CASE Dialogue
  BY <1>2 DEF Dialogue, GreetingInv
<1>3. CASE Write
  BY <1>3 DEF Write, GreetingInv
<1>4. CASE Verify
  BY <1>4 DEF Verify, GreetingInv
<1>5. CASE Notify
  <2>1. /\ rfidPc = "notify" /\ rfidPc' = "leave"
        /\ greetings' = (IF greetings = 2 THEN 2 ELSE greetings + 1)
        /\ UNCHANGED <<field, same, written, flaky>>
    BY <1>5 DEF Notify, Tell
  <2>2. field # NoCard /\ ~flaky => greetings = 0 /\ (same => written)
    BY <2>1 DEF GreetingInv
  <2> QED
    BY <2>1, <2>2 DEF GreetingInv
<1>6. CASE WaitLeave
  <2>1. /\ rfidPc' = "find" /\ UNCHANGED <<field, same, written, greetings>>
        /\ field # NoCard => flaky'
    BY <1>6 DEF WaitLeave
  <2>2. flaky' \in BOOLEAN
    BY <1>6 DEF WaitLeave
  <2> QED
    BY <2>1, <2>2 DEF GreetingInv
<1> QED
  BY <1>1, <1>2, <1>3, <1>4, <1>5, <1>6 DEF RfidThread

\* A card is greeted at most once per visit and only after it has been counted up
\* (RFID_APP.c 107-150), wherever a card leaves or another comes.
THEOREM OneGreetingPerVisitHolds == Spec => []OneGreetingPerVisit
<1>1. Init => GreetingInv
  <2> SUFFICES ASSUME Init PROVE GreetingInv
    OBVIOUS
  <2>1. rfidPc = "find" /\ field = NoCard /\ greetings = 0
    BY DEF Init, RfidInit
  <2>2. same \in BOOLEAN /\ written \in BOOLEAN /\ flaky \in BOOLEAN
    BY DEF Init, RfidInit
  <2> QED
    BY <2>1, <2>2 DEF GreetingInv
<1>2. GreetingInv /\ [Next]_vars => GreetingInv'
  <2> SUFFICES ASSUME GreetingInv, [Next]_vars PROVE GreetingInv'
    OBVIOUS
  <2>1. CASE Reader(RfidThread)
    BY <2>1, ReaderKeepsGreeting DEF Reader
  <2>2. CASE Reader(RfidEnv)
    <3>1. CASE CardLeaves
      <4>1. UNCHANGED rfidPc /\ field' = NoCard /\ greetings' = 0 /\ ~same'
        BY <3>1 DEF CardLeaves
      <4>2. same' \in BOOLEAN /\ written' \in BOOLEAN /\ flaky' \in BOOLEAN
        BY <3>1 DEF CardLeaves
      <4> QED
        BY <4>1, <4>2 DEF GreetingInv
    <3>2. CASE \E c \in Cards : CardComes(c)
      BY <3>2 DEF CardComes, GreetingInv
    <3> QED
      BY <2>2, <3>1, <3>2 DEF Reader, RfidEnv
  <2>3. CASE UNCHANGED rfidVars
    BY <2>3 DEF rfidVars, GreetingInv
  <2>4. Reader(RfidThread) \/ Reader(RfidEnv) \/ UNCHANGED rfidVars
    BY DEF Next, Display, Screen, vars
  <2> QED
    BY <2>1, <2>2, <2>3, <2>4
<1>3. GreetingInv => OneGreetingPerVisit
  BY DEF GreetingInv, OneGreetingPerVisit
<1> QED
  BY <1>1, <1>2, <1>3, PTL DEF Spec
-----------------------------------------------------------------------------
(* Texts on the display                                                    *)

\* Where the thread is between a text's event and the end of its handling.
Holding == {"check", "copy", "size", "send"}

\* The last text has arrived and has not been shown yet.
LcdPending == Text \in LCD_Event \/ lcdPc \in Holding

LcdTypeOK ==
  /\ lcdPc \in {"start", "recv", "check", "copy", "size", "send", "free", "clear"}
  /\ lcdSent \in Nat /\ lcdMasked \in BOOLEAN
  /\ lcdPc \in Holding \cup {"start", "free", "clear"} => Text \notin LCD_Event

\* What makes LcdTextsWhole inductive while texts do not crowd: pText, TextLen and
\* the thread's copies all belong to the last text, whose block is allocated
\* until FreeText; without masked events it is the only block.
LcdInv ==
  ~lcdCrowded =>
    /\ LcdTypeOK
    /\ ~lcdSpoilt /\ ~lcdWildFree
    /\ pText = lcdSent /\ lcdShown \subseteq 1 .. lcdSent
    /\ LcdPending => TextLen = lcdSent /\ lcdSent \notin lcdShown
    /\ LcdPending \/ lcdPc = "free" => lcdSent > 0 /\ lcdSent \in lcdHeap
    /\ lcdPc = "copy" => lcdSrc = lcdSent
    /\ lcdPc \in {"size", "send"} => lcdData = lcdSent
    /\ lcdPc = "send" => lcdSize = lcdSent
    /\ ~lcdMasked =>
         /\ lcdHeap = IF LcdPending \/ lcdPc = "free" THEN {lcdSent} ELSE {}
         /\ lcdShown = IF LcdPending THEN 1 .. lcdSent - 1 ELSE 1 .. lcdSent

\* A step that changes nothing of this.
lcdState == <<lcdPc, LCD_Event, lcdText, lcdFrame, lcdSeen, lcdMasked>>
LEMMA LcdUntouched == LcdInv /\ UNCHANGED lcdState => LcdInv'
BY DEF LcdInv, LcdTypeOK, LcdPending, Holding, lcdState, lcdText, lcdFrame, lcdSeen

\* Another bit of LCD_Event: a frame from the display or a greeting.
LEMMA OtherBitKeepsLcd ==
  ASSUME LcdInv, NEW bit, bit # Text, LCD_Event' \in {LCD_Event, LCD_Event \cup {bit}},
         UNCHANGED <<lcdPc, lcdText, lcdFrame, lcdSeen, lcdMasked>>
  PROVE  LcdInv'
<1>1. Text \in LCD_Event' <=> Text \in LCD_Event
  OBVIOUS
<1> QED
  BY <1>1 DEF LcdInv, LcdTypeOK, LcdPending, Holding, lcdText, lcdFrame, lcdSeen

\* The splitter hands over the next text.
LEMMA NewTextKeepsLcd ==
  ASSUME LcdInv, NewLcdText
  PROVE  LcdInv'
<1> SUFFICES ASSUME ~lcdCrowded' PROVE LcdInv'
  BY DEF LcdInv
<1>1. /\ lcdPc = "recv" /\ Text \notin LCD_Event /\ ~lcdCrowded
      /\ pText' = lcdSent + 1 /\ TextLen' = lcdSent + 1 /\ lcdSent' = lcdSent + 1
      /\ lcdHeap' = lcdHeap \cup {lcdSent + 1} /\ LCD_Event' = LCD_Event \cup {Text}
      /\ UNCHANGED <<lcdPc, lcdShown, lcdSpoilt, lcdWildFree, lcdMasked>>
  BY DEF NewLcdText, LCD_Get_text, LcdDone, lcdSeen
<1>2. ~LcdPending /\ LcdPending' /\ lcdSent \in Nat /\ lcdSent + 1 - 1 = lcdSent
  BY <1>1 DEF LcdPending, Holding, LcdInv, LcdTypeOK
<1>3. lcdShown \subseteq 1 .. lcdSent + 1 /\ lcdSent + 1 \notin lcdShown
  BY <1>1, <1>2 DEF LcdInv
<1> QED
  BY <1>1, <1>2, <1>3 DEF LcdInv, LcdTypeOK, Holding

\* The thread takes all the bits and handles one.
LEMMA RecvKeepsLcd ==
  ASSUME LcdInv, RecvAck \/ RecvText \/ \E d \in Drivers : RecvDriver(d)
  PROVE  LcdInv'
<1> SUFFICES ASSUME ~lcdCrowded PROVE LcdInv'
  BY DEF LcdInv, RecvAck, RecvText, RecvDriver, Recv, lcdText
<1>1. LcdInv /\ ~lcdCrowded /\ lcdMasked \in BOOLEAN
  BY DEF LcdInv, LcdTypeOK
<1>2. CASE RecvText
  <2>1. /\ lcdPc = "recv" /\ lcdPc' = "check" /\ Text \in LCD_Event /\ LCD_Event' = {}
        /\ UNCHANGED <<lcdText, lcdFrame, lcdSeen>>
    BY <1>2 DEF RecvText, Recv
  <2>2. lcdMasked' = lcdMasked
    BY <1>1, <1>2 DEF RecvText, Recv
  <2>3. LcdPending /\ LcdPending'
    BY <2>1 DEF LcdPending, Holding
  <2> QED
    BY <1>1, <2>1, <2>2, <2>3 DEF LcdInv, LcdTypeOK, Holding, lcdText, lcdFrame, lcdSeen
<1>3. CASE RecvAck \/ \E d \in Drivers : RecvDriver(d)
  <2>1. PICK bit : bit # Text /\ Recv(bit) /\ UNCHANGED lcdPc
    BY <1>3 DEF RecvAck, RecvDriver, Drivers, Ack, Text
  <2>2. /\ lcdPc = "recv" /\ LCD_Event' = {} /\ UNCHANGED <<lcdPc, lcdText, lcdFrame, lcdSeen>>
        /\ lcdMasked' = (lcdMasked \/ Text \in LCD_Event)
    BY <2>1 DEF Recv
  <2>3. lcdMasked' \in BOOLEAN
    BY <2>2
  <2>4. (LcdPending <=> Text \in LCD_Event) /\ ~LcdPending'
    BY <2>2 DEF LcdPending, Holding
  <2>5. ~lcdMasked' => ~lcdMasked /\ ~LcdPending
    BY <2>2, <2>4
  <2> QED
    BY <1>1, <2>2, <2>3, <2>4, <2>5 DEF LcdInv, LcdTypeOK, Holding, lcdText, lcdFrame, lcdSeen
<1> QED
  BY <1>2, <1>3

\* The text is checked, copied and its size set.
LEMMA CopyKeepsLcd ==
  ASSUME LcdInv, CheckText \/ CopyText \/ SetSize
  PROVE  LcdInv'
<1> SUFFICES ASSUME ~lcdCrowded PROVE LcdInv'
  BY DEF LcdInv, CheckText, CopyText, SetSize, lcdText
<1>1. LcdPending /\ LcdPending' /\ UNCHANGED <<LCD_Event, lcdText, lcdSeen, lcdMasked>>
  BY DEF LcdPending, Holding, CheckText, CopyText, SetSize, LcdInv
<1>2. TextLen = lcdSent /\ lcdSent \in lcdHeap /\ lcdSent > 0 /\ pText = lcdSent /\ lcdSent \in Nat
  BY <1>1 DEF LcdInv, LcdTypeOK
<1>3. CASE CheckText
  <2>1. lcdPc = "check" /\ lcdPc' = "copy" /\ lcdSrc' = lcdSent
    BY <1>2, <1>3 DEF CheckText
  <2> QED
    BY <1>1, <1>2, <2>1 DEF LcdInv, LcdTypeOK, Holding, lcdText, lcdSeen
<1>4. CASE CopyText
  <2>1. lcdPc = "copy" /\ lcdPc' = "size" /\ lcdData' = lcdSent
    BY <1>2, <1>4 DEF CopyText, Copied, LcdInv
  <2> QED
    BY <1>1, <1>2, <2>1 DEF LcdInv, LcdTypeOK, Holding, lcdText, lcdSeen
<1>5. CASE SetSize
  <2>1. lcdPc = "size" /\ lcdPc' = "send" /\ lcdSize' = lcdSent /\ lcdData' = lcdSent
    BY <1>2, <1>5 DEF SetSize, LcdInv
  <2> QED
    BY <1>1, <1>2, <2>1 DEF LcdInv, LcdTypeOK, Holding, lcdText, lcdSeen
<1> QED
  BY <1>3, <1>4, <1>5

\* The text goes to the display.
LEMMA SendKeepsLcd ==
  ASSUME LcdInv, SendText
  PROVE  LcdInv'
<1> SUFFICES ASSUME ~lcdCrowded PROVE LcdInv'
  BY DEF LcdInv, SendText, lcdText
<1>1. LcdPending /\ ~LcdPending' /\ lcdPc = "send" /\ lcdPc' = "free" /\ Text \notin LCD_Event
  BY DEF LcdPending, Holding, SendText, LcdInv, LcdTypeOK
<1>2. lcdSent \in Nat /\ lcdSent > 0 /\ lcdSent \in lcdHeap /\ lcdSent \notin lcdShown
  BY <1>1 DEF LcdInv, LcdTypeOK
<1>3. lcdData = lcdSent /\ lcdSize = lcdSent
  BY <1>1 DEF LcdInv
<1>4. lcdShown' = lcdShown \cup {lcdSent} /\ UNCHANGED lcdSpoilt
  BY <1>2, <1>3 DEF SendText, Good
<1>5. UNCHANGED <<LCD_Event, lcdText, lcdWildFree, lcdMasked>>
  BY DEF SendText
<1>6. lcdShown' \subseteq 1 .. lcdSent
  BY <1>2, <1>4 DEF LcdInv
<1>7. lcdShown = 1 .. lcdSent - 1 => lcdShown' = 1 .. lcdSent
  BY <1>2, <1>4
<1> QED
  BY <1>1, <1>2, <1>4, <1>5, <1>6, <1>7 DEF LcdInv, LcdTypeOK, Holding, lcdText

\* The block is freed and the length cleared; the thread starts.
LEMMA RestKeepsLcd ==
  ASSUME LcdInv, LcdStart \/ FreeText \/ ClearLen
  PROVE  LcdInv'
<1> SUFFICES ASSUME ~lcdCrowded PROVE LcdInv'
  BY DEF LcdInv, LcdStart, FreeText, ClearLen, lcdText
<1>1. ~LcdPending /\ ~LcdPending' /\ UNCHANGED LCD_Event
  BY DEF LcdPending, Holding, LcdStart, FreeText, ClearLen, LcdInv, LcdTypeOK
<1>2. CASE LcdStart
  BY <1>1, <1>2 DEF LcdStart, LcdInv, LcdTypeOK, Holding, lcdText, lcdSeen
<1>3. CASE FreeText
  <2>1. lcdPc = "free" /\ pText = lcdSent /\ pText \in lcdHeap
    BY <1>3 DEF FreeText, LcdInv
  <2>2. /\ lcdPc' = "clear" /\ lcdHeap' = lcdHeap \ {lcdSent} /\ ~lcdWildFree'
        /\ UNCHANGED <<pText, lcdSent, lcdCrowded, lcdShown, lcdSpoilt, lcdMasked>>
    BY <1>3, <2>1 DEF FreeText, LcdInv
  <2> QED
    BY <1>1, <2>1, <2>2 DEF LcdInv, LcdTypeOK, Holding
<1>4. CASE ClearLen
  BY <1>1, <1>4 DEF ClearLen, LcdInv, LcdTypeOK, Holding, lcdSeen
<1> QED
  BY <1>2, <1>3, <1>4

\* The invariant as the runs check it follows.
LEMMA LcdInvSuffices == LcdInv => LcdTextsWhole
BY DEF LcdInv, LcdTextsWhole, LcdDone, LcdPending, Holding

\* While texts do not crowd, the display shows whole texts only, each once, and
\* every block is freed once (LCDAPP.c 136-176), for any number of texts and with
\* greetings and frames of the display at any moment.
THEOREM LcdTextsWholeHolds == Spec => []LcdTextsWhole
<1>1. Init => LcdInv
  <2> SUFFICES ASSUME Init PROVE LcdInv
    OBVIOUS
  <2>1. /\ LCD_Event = {} /\ lcdPc = "start" /\ pText = 0 /\ lcdHeap = {} /\ lcdSent = 0
        /\ lcdShown = {}
    BY DEF Init, LcdInit
  <2>2. ~lcdSpoilt /\ ~lcdWildFree /\ lcdMasked \in BOOLEAN
    BY DEF Init, LcdInit
  <2>3. ~LcdPending
    BY <2>1 DEF LcdPending, Holding
  <2> QED
    BY <2>1, <2>2, <2>3 DEF LcdInv, LcdTypeOK
<1>2. LcdInv /\ [Next]_vars => LcdInv'
  <2> SUFFICES ASSUME LcdInv, [Next]_vars PROVE LcdInv'
    OBVIOUS
  <2>1. CASE Display(LcdThread)
    BY <2>1, RecvKeepsLcd, CopyKeepsLcd, SendKeepsLcd, RestKeepsLcd DEF Display, LcdThread
  <2>2. CASE Display(LcdEnv)
    <3>1. CASE NewLcdText
      BY <3>1, NewTextKeepsLcd
    <3>2. CASE \E b \in {"7E", "x"} : LCD_input(b)
      <4>1. /\ LCD_Event' \in {LCD_Event, LCD_Event \cup {Ack}} /\ Ack # Text
            /\ UNCHANGED <<lcdPc, lcdText, lcdFrame, lcdSeen, lcdMasked>>
        BY <3>2 DEF LCD_input, Ack, Text
      <4> QED
        BY <4>1, OtherBitKeepsLcd
    <3> QED
      BY <2>2, <3>1, <3>2 DEF Display, LcdEnv
  <2>3. CASE Notify
    <3>1. \/ LCD_Event' = LCD_Event
          \/ SnrBuf # Text /\ LCD_Event' = LCD_Event \cup {SnrBuf}
      BY <2>3 DEF Notify, Tell, Drivers, Text
    <3>2. UNCHANGED <<lcdPc, lcdText, lcdFrame, lcdSeen, lcdMasked>>
      BY <2>3 DEF Notify, Tell
    <3>3. Ack # Text
      BY DEF Ack, Text
    <3> QED
      BY <3>1, <3>2, <3>3, OtherBitKeepsLcd
  <2>4. CASE UNCHANGED lcdVars
    BY <2>4, LcdUntouched DEF lcdVars, lcdState
  <2>5. Display(LcdThread) \/ Display(LcdEnv) \/ Notify \/ UNCHANGED lcdVars
    <3>1. Reader(RfidThread) => Notify \/ UNCHANGED lcdVars
      BY DEF Reader, RfidThread, FindCard, Dialogue, Write, Verify, WaitLeave
    <3>2. Reader(RfidEnv) => UNCHANGED lcdVars
      BY DEF Reader, RfidEnv, CardLeaves, CardComes
    <3> QED
      BY <3>1, <3>2 DEF Next, Screen, vars
  <2> QED
    BY <2>1, <2>2, <2>3, <2>4, <2>5
<1> QED
  BY <1>1, <1>2, LcdInvSuffices, PTL DEF Spec
-----------------------------------------------------------------------------
(* Texts on the advertising screen                                         *)

\* The last text has come and its block is not freed yet: its mail waits, or the
\* thread has taken the mail.
AdHeld == (ADS_MB /\ adPc = "wait") \/ adPc \in {"check", "copy", "size", "free"}

\* The last text has come and has not gone to the screen yet.
AdPending == AdHeld \/ adPc \in {"clear", "show"}

\* What makes AdTextsWhole inductive while mails come when they are waited for: a
\* mail found at the top of the loop is a text's, pADText and ADTextLen and the
\* thread's copies are that text's, and its block is the only one.
AdTextInv ==
  ~adUnruly =>
    /\ adPc \in {"send", "recv", "unpack", "wait", "check", "copy", "size", "free", "clear", "show"}
    /\ ADS_MB \in BOOLEAN /\ (ADS_MB => adPc \in {"recv", "wait"})
    /\ ~adSpoilt /\ ~adWildFree
    /\ adSent \in Nat /\ pADText = adSent
    /\ adHeap = IF AdHeld THEN {adSent} ELSE {}
    /\ adShown = IF AdPending THEN 1 .. adSent - 1 ELSE 1 .. adSent
    /\ AdPending => adSent > 0
    /\ AdHeld => ADTextLen = adSent
    /\ adPc = "copy" => adSrc = adSent
    /\ adPc \in {"size", "free", "clear", "show"} => adData = adSent
    /\ adPc \in {"free", "clear", "show"} => adSize = adSent

adTexts == <<ADS_MB, adPc, adText, adFrame, adSeen, adUnruly>>
LEMMA AdTextUntouched == AdTextInv /\ UNCHANGED adTexts => AdTextInv'
BY DEF AdTextInv, AdHeld, AdPending, adTexts, adText, adFrame, adSeen

\* ADS_input: an answer counts when the thread waits for it.
LEMMA AnswerKeepsAdTexts ==
  ASSUME AdTextInv, NEW b \in {"7E", "x"}, ADS_input(b)
  PROVE  AdTextInv'
<1>1. CASE EndsFrame(adCouter, b)
  <2> SUFFICES ASSUME ~adUnruly' PROVE AdTextInv'
    BY DEF AdTextInv
  <2>1. adPc = "recv" /\ ~ADS_MB /\ ~adUnruly
    BY <1>1 DEF ADS_input
  <2>2. ADS_MB' = TRUE /\ UNCHANGED <<adPc, adText, adFrame, adSeen>>
    BY <1>1 DEF ADS_input
  <2>3. ~AdHeld /\ ~AdHeld' /\ ~AdPending /\ ~AdPending'
    BY <2>1, <2>2 DEF AdHeld, AdPending
  <2> QED
    BY <2>1, <2>2, <2>3 DEF AdTextInv, adText, adFrame, adSeen
<1>2. CASE ~EndsFrame(adCouter, b)
  BY <1>2, AdTextUntouched DEF ADS_input, adTexts
<1> QED
  BY <1>1, <1>2

\* AD_Get_text: a text counts when it comes to the idle thread.
LEMMA NewTextKeepsAdTexts ==
  ASSUME AdTextInv, NewAdText
  PROVE  AdTextInv'
<1> SUFFICES ASSUME ~adUnruly' PROVE AdTextInv'
  BY DEF AdTextInv
<1>1. adPc = "wait" /\ ~ADS_MB /\ ~adUnruly
  BY DEF NewAdText, AD_Get_text, AdIdle
<1>2. /\ pADText' = adSent + 1 /\ ADTextLen' = adSent + 1 /\ adSent' = adSent + 1
      /\ adHeap' = adHeap \cup {adSent + 1} /\ UNCHANGED <<adPc, adFrame, adSeen>>
  BY DEF NewAdText, AD_Get_text
<1>3. ADS_MB' = TRUE
  BY DEF NewAdText, AD_Get_text
<1>4. ~AdHeld /\ ~AdPending /\ AdHeld' /\ AdPending'
  BY <1>1, <1>2, <1>3 DEF AdHeld, AdPending
<1>5. adSent \in Nat /\ adHeap = {} /\ adShown = 1 .. adSent /\ adSent + 1 - 1 = adSent
  BY <1>1, <1>4 DEF AdTextInv
<1> QED
  BY <1>1, <1>2, <1>3, <1>4, <1>5 DEF AdTextInv, adFrame, adSeen

\* The handshake and the answer to a text: no text is touched.
LEMMA HandshakeKeepsAdTexts ==
  ASSUME AdTextInv, SendRequest \/ State3 \/ RecvMail \/ TimeOut \/ Unpack
  PROVE  AdTextInv'
<1> SUFFICES ASSUME ~adUnruly PROVE AdTextInv'
  BY DEF AdTextInv, SendRequest, State3, RecvMail, TimeOut, Unpack
<1>1. /\ adPc \in {"send", "recv", "unpack"}
      /\ adPc' \in {"send", "recv", "unpack", "wait"}
      /\ UNCHANGED <<adText, adFrame, adSeen, adUnruly>>
  BY DEF SendRequest, State3, RecvMail, TimeOut, Unpack, Top
<1>2. ADS_MB' \in BOOLEAN /\ (ADS_MB' => adPc' = "recv")
  <2>1. ADS_MB \in BOOLEAN /\ (ADS_MB => adPc = "recv")
    BY <1>1 DEF AdTextInv
  <2>2. CASE RecvMail
    BY <2>2 DEF RecvMail
  <2>3. CASE TimeOut
    BY <2>1, <2>3 DEF TimeOut
  <2>4. CASE SendRequest \/ State3 \/ Unpack
    <3>1. UNCHANGED ADS_MB /\ adPc # "recv"
      BY <2>4 DEF SendRequest, State3, Unpack
    <3> QED
      BY <2>1, <3>1
  <2> QED
    BY <2>2, <2>3, <2>4
<1>3. ~AdHeld /\ ~AdHeld' /\ ~AdPending /\ ~AdPending'
  BY <1>1, <1>2 DEF AdHeld, AdPending
<1> QED
  BY <1>1, <1>2, <1>3 DEF AdTextInv, adText, adFrame, adSeen

\* The mail of a text is taken and the text copied.
LEMMA CopyKeepsAdTexts ==
  ASSUME AdTextInv, WaitText \/ CheckADText \/ CopyADText \/ SetADSize
  PROVE  AdTextInv'
<1> SUFFICES ASSUME ~adUnruly PROVE AdTextInv'
  BY DEF AdTextInv, WaitText, CheckADText, CopyADText, SetADSize
<1>1. AdHeld /\ AdPending
  BY DEF WaitText, CheckADText, CopyADText, SetADSize, AdHeld, AdPending
<1>2. adSent > 0 /\ adSent \in Nat /\ pADText = adSent /\ ADTextLen = adSent /\ adHeap = {adSent}
  BY <1>1 DEF AdTextInv
<1>3. ADS_MB' \in BOOLEAN /\ ~ADS_MB'
  <2>1. CASE WaitText
    BY <2>1 DEF WaitText
  <2>2. CASE CheckADText \/ CopyADText \/ SetADSize
    <3>1. UNCHANGED ADS_MB /\ adPc \in {"check", "copy", "size"}
      BY <2>2 DEF CheckADText, CopyADText, SetADSize
    <3> QED
      BY <3>1 DEF AdTextInv
  <2> QED
    BY <2>1, <2>2
<1>4. UNCHANGED <<adText, adSeen, adUnruly>>
  BY DEF WaitText, CheckADText, CopyADText, SetADSize
<1>5. CASE WaitText
  <2>1. adPc' = "check" /\ AdHeld' /\ AdPending'
    BY <1>5 DEF WaitText, AdHeld, AdPending
  <2> QED
    BY <1>1, <1>2, <1>3, <1>4, <2>1 DEF AdTextInv, adText, adSeen
<1>6. CASE CheckADText
  <2>1. adPc' = "copy" /\ AdHeld' /\ AdPending' /\ adSrc' = adSent
    BY <1>2, <1>6 DEF CheckADText, AdHeld, AdPending
  <2> QED
    BY <1>1, <1>2, <1>3, <1>4, <2>1 DEF AdTextInv, adText, adSeen
<1>7. CASE CopyADText
  <2>1. adPc' = "size" /\ AdHeld' /\ AdPending' /\ adData' = adSent
    BY <1>2, <1>7 DEF CopyADText, Copied, AdHeld, AdPending, AdTextInv
  <2> QED
    BY <1>1, <1>2, <1>3, <1>4, <2>1 DEF AdTextInv, adText, adSeen
<1>8. CASE SetADSize
  <2>1. adPc' = "free" /\ AdHeld' /\ AdPending' /\ adSize' = adSent /\ adData' = adSent
    BY <1>2, <1>8 DEF SetADSize, AdHeld, AdPending, AdTextInv
  <2> QED
    BY <1>1, <1>2, <1>3, <1>4, <2>1 DEF AdTextInv, adText, adSeen
<1> QED
  BY <1>5, <1>6, <1>7, <1>8

\* The block is freed, its length cleared and the text sent.
LEMMA ShowKeepsAdTexts ==
  ASSUME AdTextInv, FreeADText \/ ClearADLen \/ ShowADText
  PROVE  AdTextInv'
<1> SUFFICES ASSUME ~adUnruly PROVE AdTextInv'
  BY DEF AdTextInv, FreeADText, ClearADLen, ShowADText
<1>1. AdPending /\ adSent > 0 /\ adSent \in Nat /\ pADText = adSent
  BY DEF FreeADText, ClearADLen, ShowADText, AdPending, AdHeld, AdTextInv
<1>2. UNCHANGED <<ADS_MB, pADText, adSent, adUnruly>> /\ ~ADS_MB
  BY DEF FreeADText, ClearADLen, ShowADText, AdTextInv, adText
<1>3. adData = adSent /\ adSize = adSent
  BY DEF FreeADText, ClearADLen, ShowADText, AdTextInv
<1>4. CASE FreeADText
  <2>1. AdHeld /\ adHeap = {adSent}
    BY <1>4 DEF FreeADText, AdHeld, AdTextInv
  <2>2. /\ adPc' = "clear" /\ adHeap' = {} /\ ~adWildFree'
        /\ UNCHANGED <<adFrame, adShown, adSpoilt>>
    BY <1>1, <1>4, <2>1 DEF FreeADText, AdTextInv
  <2>3. ~AdHeld' /\ AdPending'
    BY <2>2 DEF AdHeld, AdPending
  <2>4. ~adSpoilt /\ adShown = 1 .. adSent - 1
    BY <1>1 DEF AdTextInv
  <2> QED
    BY <1>1, <1>2, <1>3, <2>2, <2>3, <2>4 DEF AdTextInv, adFrame
<1>5. CASE ClearADLen
  <2>1. adPc = "clear" /\ adPc' = "show" /\ UNCHANGED <<adHeap, adFrame, adSeen>>
    BY <1>5 DEF ClearADLen
  <2>2. ~AdHeld /\ ~AdHeld' /\ AdPending'
    BY <2>1 DEF AdHeld, AdPending
  <2> QED
    BY <1>1, <1>2, <2>1, <2>2 DEF AdTextInv, adFrame, adSeen
<1>6. CASE ShowADText
  <2>1. adPc = "show" /\ adPc' = "recv" /\ UNCHANGED <<adHeap, adWildFree>>
    BY <1>6 DEF ShowADText, adText
  <2>2. ~AdHeld /\ ~AdHeld' /\ ~AdPending'
    BY <2>1 DEF AdHeld, AdPending
  <2>3. adShown = 1 .. adSent - 1
    BY <1>1 DEF AdTextInv
  <2>4. adShown' = adShown \cup {adSent} /\ UNCHANGED adSpoilt
    BY <1>1, <1>3, <1>6, <2>3 DEF ShowADText, Good
  <2>5. adShown' = 1 .. adSent
    BY <1>1, <2>3, <2>4
  <2> QED
    BY <1>1, <1>2, <2>1, <2>2, <2>4, <2>5 DEF AdTextInv
<1> QED
  BY <1>4, <1>5, <1>6

\* As long as mails come when they are waited for, the screen gets whole texts
\* only, each once, and every block is freed once (AdscreenAPP.c 137-200), for any
\* number of texts and however far the screen is behind.
THEOREM AdTextsWholeHolds == Spec => []AdTextsWhole
<1>1. Init => AdTextInv
  <2> SUFFICES ASSUME Init PROVE AdTextInv
    OBVIOUS
  <2>1. adPc = "send" /\ pADText = 0 /\ adHeap = {} /\ adSent = 0 /\ adShown = {}
    BY DEF Init, AdInit
  <2>2. ADS_MB \in BOOLEAN /\ ~ADS_MB /\ ~adSpoilt /\ ~adWildFree
    BY DEF Init, AdInit
  <2>3. ~AdHeld /\ ~AdPending
    BY <2>1 DEF AdHeld, AdPending
  <2> QED
    BY <2>1, <2>2, <2>3 DEF AdTextInv
<1>2. AdTextInv /\ [Next]_vars => AdTextInv'
  <2> SUFFICES ASSUME AdTextInv, [Next]_vars PROVE AdTextInv'
    OBVIOUS
  <2>1. CASE Screen(AdThread)
    BY <2>1, HandshakeKeepsAdTexts, CopyKeepsAdTexts, ShowKeepsAdTexts DEF Screen, AdThread
  <2>2. CASE Screen(AdEnv)
    BY <2>2, NewTextKeepsAdTexts, AnswerKeepsAdTexts DEF Screen, AdEnv
  <2>3. CASE UNCHANGED adVars
    BY <2>3, AdTextUntouched DEF adVars, adTexts
  <2> QED
    BY <2>1, <2>2, <2>3 DEF Next, Display, Reader, vars
<1>3. AdTextInv => AdTextsWhole
  <2> SUFFICES ASSUME AdTextInv, ~adUnruly PROVE AdTextsWhole
    BY DEF AdTextsWhole
  <2>1. adPc = "recv" => ~AdHeld
    BY DEF AdHeld
  <2>2. AdIdle => ~AdPending
    BY DEF AdIdle, AdPending, AdHeld
  <2> QED
    BY <2>1, <2>2 DEF AdTextInv, AdTextsWhole
<1> QED
  BY <1>1, <1>2, <1>3, PTL DEF Spec
=============================================================================
