------------------------------ MODULE Screens -------------------------------
(***************************************************************************)
(* The display with the card reader, and the advertising screen, with the  *)
(* splitter that feeds both.  The two halves share no variable, so their   *)
(* steps need not be interleaved: a behaviour exercises one of them.       *)
(***************************************************************************)
EXTENDS RfidApp, AdScreen

VARIABLE exercised   \* the half of the system this behaviour is about

vars == <<lcdVars, rfidVars, adVars, exercised>>

Display(A) == exercised = "display" /\ A /\ UNCHANGED <<rfidVars, adVars, exercised>>
Reader(A)  == exercised = "display" /\ A /\ UNCHANGED <<adVars, exercised>>
Screen(A)  == exercised = "screen" /\ A /\ UNCHANGED <<lcdVars, rfidVars, exercised>>

Init == LcdInit /\ RfidInit /\ AdInit /\ exercised \in {"display", "screen"}

Next ==
  \/ Display(LcdThread) \/ Display(LcdEnv)
  \/ Reader(RfidThread) \/ Reader(RfidEnv)
  \/ Screen(AdThread) \/ Screen(AdEnv)

\* The threads above priority 28 sleep again and again, so the screen threads
\* run when they can; the screen goes on sending an answer it has begun.
Fairness ==
  /\ WF_vars(Display(LcdThread))
  /\ WF_vars(Screen(AdThread))
  /\ WF_vars(Screen(\E b \in {"7E", "x"} : ADS_input(b)))

Spec == Init /\ [][Next]_vars /\ Fairness

-----------------------------------------------------------------------------
(* Properties                                                              *)

\* Liveness: a text is shown, on the display unless texts crowd or another bit of
\* LCD_Event hides its own, on the advertising screen unless its mail is mixed
\* up with another.
TextsReachScreens == LcdTextShown /\ AdTextShown

\* What the screen sends next is overwriting the answer whose mail the thread is
\* yet to act on.
Overtaken == adBuf = "mixed" /\ (ADS_MB \/ adPc = "unpack")

\* Liveness: with a screen that goes on answering, however late, and texts coming
\* in between, the version and power-on handshake ends, unless the screen again
\* and again overwrites an answer before the thread has read it.
HandshakeEnds == exercised = "display" \/ <>(state = 4) \/ []<>Overtaken
=============================================================================
