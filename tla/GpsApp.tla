------------------------------- MODULE GpsApp -------------------------------
(***************************************************************************)
(* The position thread of src/MySouce/PCP/GPSAPP.c: GPS_input collects a   *)
(* sentence in the device's one buffer and mails its length (GPS_MB has    *)
(* room for one); the thread parses every Every-th sentence out of that    *)
(* buffer while the next may be coming in, and reports the position.       *)
(*                                                                         *)
(* A sentence is "fix" (third field 'A'), "void" (anything else there: no  *)
(* position, or not a GPRMC sentence at all) or "short" (under 3 fields).  *)
(***************************************************************************)
EXTENDS AuthEvent

CONSTANTS Every,       \* 10
          HeapBlocks   \* bound: blocks of 100 bytes the heap has to spare

ASSUME GpsAssumption == Every \in Nat \ {0} /\ HeapBlocks \in Nat

Sentences == {"fix", "void", "short"}

VARIABLES
  UserData,     \* the sentence in the buffer, or "partial"
  GPS_MB,       \* a mail is waiting
  gpsPc, gpsCouter,
  torn,         \* the buffer was written to since Unpack_GPRMC began to read it
  location,     \* *pLocateBasicInfo: "none" yet, a "good" position, or "bad"
  gpsValue,     \* bit AUTHENTCATED_EVENT of Value, uninitialised at first
  leaked,       \* tempBufs returned from without rt_free
  reported,     \* what the last report said
  guessed,      \* history: Value had the bit by accident
  early,        \* history: a report went out before AUTHENTCATED_EVENT
  disturbed     \* history: a sentence was torn or short

gpsVars == <<UserData, GPS_MB, gpsPc, gpsCouter, torn, location, gpsValue, leaked, reported,
             guessed, early, disturbed>>

GpsInit ==
  /\ UserData = "short" /\ GPS_MB = FALSE /\ gpsPc = "recv" /\ gpsCouter = 0 /\ torn = FALSE
  /\ location = "none" /\ gpsValue \in BOOLEAN /\ leaked = 0 /\ reported = "nothing"
  /\ guessed = gpsValue /\ early = FALSE /\ disturbed = FALSE

\* '$' or a character after it: the buffer is overwritten from the start.
GpsChar ==
  /\ UserData' = "partial" /\ torn' = TRUE
  /\ UNCHANGED <<GPS_MB, gpsPc, gpsCouter, location, gpsValue, leaked, reported, guessed, early, disturbed>>

\* '\n': the sentence is terminated and mailed.
GpsNewline(kind) ==
  /\ UserData = "partial" \/ kind = "short"
  /\ UserData' = kind /\ torn' = TRUE
  /\ GPS_MB' = TRUE
  /\ UNCHANGED <<gpsPc, gpsCouter, location, gpsValue, leaked, reported, guessed, early, disturbed>>

GPS_input == GpsChar \/ \E kind \in Sentences : GpsNewline(kind)

GpsRecv ==
  /\ gpsPc = "recv" /\ GPS_MB
  /\ GPS_MB' = FALSE
  /\ gpsCouter' = (gpsCouter + 1) % Every
  /\ gpsPc' = IF gpsCouter + 1 < Every THEN "recv" ELSE "begin"
  /\ UNCHANGED <<UserData, torn, location, gpsValue, leaked, reported, guessed, early, disturbed>>

\* Unpack_GPRMC: rt_malloc(100), then the sentence is read character by character.
GpsBegin ==
  /\ gpsPc = "begin"
  /\ torn' = (UserData = "partial")
  /\ gpsPc' = IF leaked < HeapBlocks THEN "parse" ELSE "recv"
  /\ UNCHANGED <<UserData, GPS_MB, gpsCouter, location, gpsValue, leaked, reported, guessed, early, disturbed>>

\* What the parser makes of the buffer: of a torn one, anything.
Outcomes == IF torn THEN Sentences ELSE {UserData}

UnpackDropsShort(kind) ==
  IF kind = "void"
  THEN leaked' = leaked + 1 /\ gpsPc' = "recv"
  ELSE UNCHANGED leaked /\ gpsPc' = IF kind = "short" THEN "recv" ELSE "test"

\* Line 52 returns without freeing tempBuf; the other returns free it.
UnpackReturns(kind) ==
  IF kind = "void"
  THEN leaked' = leaked + 1 /\ gpsPc' = "recv"
  ELSE UNCHANGED leaked /\ gpsPc' = "test"

GpsParse ==
  /\ gpsPc = "parse"
  /\ \E kind \in Outcomes :
       /\ UnpackReturns(kind)
       /\ location' = CASE kind = "fix" -> IF torn THEN "bad" ELSE "good"
                        [] OTHER -> location
       /\ disturbed' = (disturbed \/ torn \/ kind = "short")
  /\ torn' = FALSE
  /\ UNCHANGED <<UserData, GPS_MB, gpsCouter, gpsValue, reported, guessed, early>>

GpsTestsNothing ==
  /\ gpsPc = "test"
  /\ reported' = location
  /\ early' = (early \/ ~authenticated)
  /\ gpsPc' = "recv"
  /\ UNCHANGED <<UserData, GPS_MB, gpsCouter, torn, location, gpsValue, leaked, guessed, disturbed>>

\* rt_event_recv with time-out 0 sets Value only if the event is there.
GpsTest ==
  /\ gpsPc = "test"
  /\ gpsValue' = (gpsValue \/ authenticated)
  /\ reported' = IF gpsValue' THEN location ELSE reported
  /\ early' = (early \/ (gpsValue' /\ ~authenticated))
  /\ gpsPc' = "recv"
  /\ UNCHANGED <<UserData, GPS_MB, gpsCouter, torn, location, leaked, guessed, disturbed>>

GpsThread == GpsRecv \/ GpsBegin \/ GpsParse \/ GpsTest
-----------------------------------------------------------------------------
(* Properties                                                              *)

\* Reports go out before authentication only if the uninitialised Value happened
\* to have the bit, and say a position of one whole sentence unless a sentence
\* was short or was overtaken by the next while it was parsed.
GpsReportsSound ==
  /\ early => guessed
  /\ ~disturbed => reported \in {"nothing", "good"}

\* Liveness: once the terminal is authenticated, positions go on being reported
\* as long as sentences come, unless the blocks lost on sentences without a
\* position have used up the heap.
GpsReportsGoOn ==
  []<>(gpsPc = "begin") /\ <>authenticated
    => <>(leaked = HeapBlocks) \/ []<>(gpsPc = "test")
=============================================================================
