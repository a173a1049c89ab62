------------------------------ MODULE RfidApp -------------------------------
(***************************************************************************)
(* The card reader thread of src/MySouce/RFID/RFID_APP.c.  It finds a      *)
(* card, talks to it, counts up a block on it, and has LcdApp greet the    *)
(* driver; every call of the driver (System.lib) may fail, and does when   *)
(* the card it was talking to has left the field.                          *)
(***************************************************************************)
EXTENDS LcdApp

CONSTANT Cards   \* a driver's card is named after the driver's bit of LCD_Event

NoCard == 0
ASSUME CardsAssumption == Cards \subseteq Nat \ {NoCard, Ack, Text}

VARIABLES
  field,       \* the card in the field of the reader
  same,        \* it has been there since the last FindCard
  rfidPc,
  SnrBuf,      \* serial number read by RFID_Anticoll
  written,     \* history: the card in the field has been counted up
  greetings,   \* history: events sent since the card came, up to 2
  flaky        \* history: FindCard missed a card that was there

rfidVars == <<field, same, rfidPc, SnrBuf, written, greetings, flaky>>

RfidInit ==
  /\ field = NoCard /\ same = FALSE /\ rfidPc = "find" /\ SnrBuf = NoCard
  /\ written = FALSE /\ greetings = 0 /\ flaky = FALSE

CardComes(c) ==
  /\ field = NoCard
  /\ field' = c /\ greetings' = 0
  /\ UNCHANGED <<same, rfidPc, SnrBuf, written, flaky, lcdVars>>

CardLeaves ==
  /\ field # NoCard
  /\ field' = NoCard /\ same' = FALSE /\ written' = FALSE /\ greetings' = 0 /\ flaky' = FALSE
  /\ UNCHANGED <<rfidPc, SnrBuf, lcdVars>>

FindCard ==
  /\ rfidPc = "find" /\ field # NoCard
  /\ same' = TRUE /\ rfidPc' = "dialogue"
  /\ UNCHANGED <<field, SnrBuf, written, greetings, flaky, lcdVars>>

\* Anticoll, SelCard, LoadPassword, Authenticate and the first read; the serial
\* number is there before any of the others can fail.
Dialogue ==
  /\ rfidPc = "dialogue"
  /\ \/ same /\ SnrBuf' = field /\ rfidPc' \in {"write", "find"}
     \/ rfidPc' = "find" /\ UNCHANGED SnrBuf
  /\ UNCHANGED <<field, same, written, greetings, flaky, lcdVars>>

Write ==
  /\ rfidPc = "write"
  /\ \/ same /\ written' = TRUE /\ rfidPc' = "verify"
     \/ rfidPc' = "find" /\ UNCHANGED written
  /\ UNCHANGED <<field, same, SnrBuf, greetings, flaky, lcdVars>>

Verify ==
  /\ rfidPc = "verify"
  /\ \/ same /\ rfidPc' = "notify"
     \/ rfidPc' = "find"
  /\ UNCHANGED <<field, same, SnrBuf, written, greetings, flaky, lcdVars>>

\* The serial number is compared and the display told, if it has its event.
Tell ==
  /\ LCD_Event' = IF SnrBuf \in Drivers /\ lcdPc # "start"
                  THEN LCD_Event \cup {SnrBuf} ELSE LCD_Event
  /\ greetings' = IF greetings = 2 THEN 2 ELSE greetings + 1
  /\ UNCHANGED <<lcdCouter, lcdPc, lcdText, lcdFrame, lcdSeen, lcdMasked>>

NotifyWithoutWait ==
  /\ rfidPc = "notify"
  /\ Tell
  /\ rfidPc' = "find"
  /\ UNCHANGED <<field, same, SnrBuf, written, flaky>>

Notify ==
  /\ rfidPc = "notify"
  /\ Tell
  /\ rfidPc' = "leave"
  /\ UNCHANGED <<field, same, SnrBuf, written, flaky>>

\* FindCard is called twice a second until it fails; it may also miss a card.
WaitLeave ==
  /\ rfidPc = "leave"
  /\ rfidPc' = "find"
  /\ flaky' = (flaky \/ field # NoCard)
  /\ UNCHANGED <<field, same, SnrBuf, written, greetings, lcdVars>>

RfidThread == FindCard \/ Dialogue \/ Write \/ Verify \/ Notify \/ WaitLeave
RfidEnv    == CardLeaves \/ \E c \in Cards : CardComes(c)
-----------------------------------------------------------------------------
(* Properties                                                              *)

\* A card held to the reader is greeted at most once, and only after its block
\* has been written, as long as FindCard does not miss it while it is there.
OneGreetingPerVisit ==
  field # NoCard /\ greetings > 0 /\ ~flaky => greetings = 1 /\ (same => written)
=============================================================================
