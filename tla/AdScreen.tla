------------------------------ MODULE AdScreen ------------------------------
(***************************************************************************)
(* The advertising screen thread of src/MySouce/PCP/AdscreenAPP.c: asks    *)
(* for the version, powers the screen on, then passes on texts and waits   *)
(* for the screen's answer to each, five seconds at most.  ADS_MB has room *)
(* for one mail and its content is never looked at, so a late answer, a    *)
(* text and an answer in time are the same to the thread.  The splitter    *)
(* runs AD_Get_text between any two steps of the thread, as in LcdApp.     *)
(***************************************************************************)
EXTENDS LcdApp, Sequences

CONSTANTS AdTexts,    \* bound: texts the server sends to the screen
          MaxAsked    \* bound: frames the screen has yet to answer

ASSUME AdBoundsAssumption == AdTexts \in Nat /\ MaxAsked \in Nat \ {0}

VARIABLES
  adCouter,              \* couter of ADS_input
  adBuf,                 \* the receive buffer: an answer, or "mixed"
  asked,                 \* frames the screen has received and not answered
  ADS_MB,                \* a mail is waiting
  state, adPc,
  pADText, ADTextLen,
  adSrc, adData, adSize,
  adHeap,
  adSent, adShown, adSpoilt, adWildFree,   \* histories, as in LcdApp
  adUnruly,              \* history: a mail came that the thread was not waiting for
  poweredOn              \* history: the screen has answered PowerOn

adText  == <<pADText, ADTextLen, adHeap, adSent>>
adFrame == <<adSrc, adData, adSize>>
adSeen  == <<adShown, adSpoilt, adWildFree>>
adLink  == <<adCouter, adBuf, asked, poweredOn>>
adVars  == <<adLink, ADS_MB, state, adPc, adText, adFrame, adSeen, adUnruly>>

AdInit ==
  /\ adCouter = 0 /\ adBuf = "mixed" /\ asked = <<>> /\ poweredOn = FALSE
  /\ ADS_MB = FALSE /\ state = 1 /\ adPc = "send"
  /\ pADText = 0 /\ ADTextLen = 0 /\ adHeap = {} /\ adSent = 0
  /\ adSrc = 0 /\ adData = 0 /\ adSize = 0
  /\ adShown = {} /\ adSpoilt = FALSE /\ adWildFree = FALSE /\ adUnruly = FALSE

\* The screen sends a byte of its answer to the oldest frame.  Every byte is stored
\* before it is looked at: an opening 0x7E changes nothing in the last answer, the
\* byte after it does, a second 0x7E too, and a stray byte overwrites the answer's
\* first; whether control(ADS,2,..) still unpacks it then is up to System.lib.
ADS_input(b) ==
  /\ asked # <<>>
  /\ adCouter' = NextCouter(adCouter, b)
  /\ IF EndsFrame(adCouter, b)
     THEN /\ adBuf' = Head(asked) /\ asked' = Tail(asked)
          /\ poweredOn' = (poweredOn \/ Head(asked) = "PowerOn")
          /\ ADS_MB' = TRUE
          /\ adUnruly' = (adUnruly \/ adPc # "recv" \/ ADS_MB)
     ELSE /\ adBuf' \in CASE adCouter # 0 -> {"mixed"}
                          [] b = "7E"      -> {adBuf}
                          [] OTHER         -> {adBuf, "mixed"}
          /\ UNCHANGED <<asked, poweredOn, ADS_MB, adUnruly>>
  /\ UNCHANGED <<state, adPc, adText, adFrame, adSeen>>

\* The thread sleeps in rt_mb_recv at line 137 and nothing is on its way to it.
AdIdle == adPc = "wait" /\ ~ADS_MB /\ asked = <<>>

\* rt_mb_send fails on a full mailbox, which nobody notices.
AD_Get_text(t) ==
  /\ pADText' = t /\ ADTextLen' = t
  /\ adHeap' = adHeap \cup {t}
  /\ ADS_MB' = TRUE
  /\ adSent' = t
  /\ adUnruly' = (adUnruly \/ ~AdIdle)
  /\ UNCHANGED <<adLink, state, adPc, adFrame, adSeen>>

NewAdText == adSent < AdTexts /\ AD_Get_text(adSent + 1)

\* ADS->control(ADS,1,..): the frame is lost on a screen that is too far behind.
Ask(cmd) == asked' = IF Len(asked) < MaxAsked THEN Append(asked, cmd) ELSE asked

\* The top of the loop in each state.
Top(s) == IF s = 4 THEN "wait" ELSE "send"

SendRequestKeepsCmd ==
  /\ adPc = "send" /\ state \in {1, 2}
  /\ Ask("Version")
  /\ adPc' = "recv"
  /\ UNCHANGED <<adCouter, adBuf, poweredOn, ADS_MB, state, adText, adFrame, adSeen, adUnruly>>

SendRequest ==
  /\ adPc = "send" /\ state \in {1, 2}
  /\ Ask(IF state = 1 THEN "Version" ELSE "PowerOn")
  /\ adPc' = "recv"
  /\ UNCHANGED <<adCouter, adBuf, poweredOn, ADS_MB, state, adText, adFrame, adSeen, adUnruly>>

State3 ==
  /\ adPc = "send" /\ state = 3
  /\ state' = 4 /\ adPc' = "wait"
  /\ UNCHANGED <<adLink, ADS_MB, adText, adFrame, adSeen, adUnruly>>

RecvMail ==
  /\ adPc = "recv" /\ ADS_MB
  /\ ADS_MB' = FALSE
  /\ adPc' = "unpack"
  /\ UNCHANGED <<adLink, state, adText, adFrame, adSeen, adUnruly>>

\* Five seconds without a mail.
TimeOut ==
  /\ adPc = "recv" /\ ~ADS_MB
  /\ adPc' = Top(state)
  /\ UNCHANGED <<adLink, ADS_MB, state, adText, adFrame, adSeen, adUnruly>>

AfterUnpackWithoutCmd == CASE state = 1 -> 2 [] state = 2 -> 3 [] OTHER -> state
\* The state after an answer that control(ADS,2,..) could unpack.
AfterUnpack ==
  CASE state = 1 -> 2
    [] state = 2 -> IF adBuf = "PowerOn" THEN 3 ELSE 2
    [] OTHER     -> state

Unpack ==
  /\ adPc = "unpack"
  /\ state' = IF adBuf = "mixed" THEN state ELSE AfterUnpack
  /\ adPc' = Top(state')
  /\ UNCHANGED <<adLink, ADS_MB, adText, adFrame, adSeen, adUnruly>>

WaitText ==
  /\ adPc = "wait" /\ ADS_MB
  /\ ADS_MB' = FALSE
  /\ adPc' = "check"
  /\ UNCHANGED <<adLink, state, adText, adFrame, adSeen, adUnruly>>

\* if(!pADText) break;
CheckADText ==
  /\ adPc = "check"
  /\ IF pADText = 0 THEN adPc' = "wait" ELSE adPc' = "copy"
  /\ adSrc' = pADText
  /\ UNCHANGED <<adLink, ADS_MB, state, adText, adData, adSize, adSeen, adUnruly>>

CopyADText ==
  /\ adPc = "copy"
  /\ adData' = Copied(adSrc, ADTextLen, adHeap)
  /\ adPc' = "size"
  /\ UNCHANGED <<adLink, ADS_MB, state, adText, adSrc, adSize, adSeen, adUnruly>>

SetADSize ==
  /\ adPc = "size"
  /\ adSize' = ADTextLen
  /\ adPc' = "free"
  /\ UNCHANGED <<adLink, ADS_MB, state, adText, adSrc, adData, adSeen, adUnruly>>

FreeADTextForgotten ==
  /\ adPc = "free"
  /\ adPc' = "clear"
  /\ UNCHANGED <<adLink, ADS_MB, state, adText, adFrame, adSeen, adUnruly>>

\* rt_free(pADText): see FreeText.
FreeADText ==
  /\ adPc = "free"
  /\ adHeap' = adHeap \ {pADText}
  /\ adWildFree' = (adWildFree \/ pADText \notin adHeap)
  /\ adPc' \in IF pADText \in adHeap THEN {"clear"} ELSE {"clear", "hung"}
  /\ UNCHANGED <<adLink, ADS_MB, state, pADText, ADTextLen, adSent, adFrame, adShown, adSpoilt, adUnruly>>

ClearADLen ==
  /\ adPc = "clear"
  /\ ADTextLen' = 0
  /\ adPc' = "show"
  /\ UNCHANGED <<adLink, ADS_MB, state, pADText, adHeap, adSent, adFrame, adSeen, adUnruly>>

ShowADText ==
  /\ adPc = "show"
  /\ Ask("Message")
  /\ IF Good(adData, adSize, adShown)
     THEN adShown' = adShown \cup {adData} /\ UNCHANGED adSpoilt
     ELSE adSpoilt' = TRUE /\ UNCHANGED adShown
  /\ adPc' = "recv"
  /\ adSrc' = 0 /\ adData' = 0 /\ adSize' = 0   \* not used any more
  /\ UNCHANGED <<adCouter, adBuf, poweredOn, ADS_MB, state, adText, adWildFree, adUnruly>>

AdThread ==
  \/ SendRequest \/ State3 \/ RecvMail \/ TimeOut \/ Unpack
  \/ WaitText \/ CheckADText \/ CopyADText \/ SetADSize \/ FreeADText \/ ClearADLen \/ ShowADText

AdEnv == NewAdText \/ \E b \in {"7E", "x"} : ADS_input(b)
-----------------------------------------------------------------------------
(* Properties                                                              *)

\* As long as every mail comes when the thread waits for it (a text when it is
\* idle, an answer within the five seconds), the screen gets nothing but whole
\* texts, each once, and every block is freed exactly once.
AdTextsWhole ==
  ~adUnruly =>
    /\ ~adSpoilt /\ ~adWildFree
    /\ adPc = "recv" => adHeap = {}
    /\ AdIdle => adShown = 1 .. adSent

\* No text goes to a screen that has not confirmed PowerOn: a late answer to the
\* version request, or a text's mail, is never taken for that confirmation.
PoweredBeforeTexts == state >= 3 \/ adShown # {} => poweredOn

\* Liveness: a text given to an idle thread is shown.
AdTextShown == \A t \in 1 .. AdTexts : (adSent = t) ~> (t \in adShown \/ adUnruly)
=============================================================================
