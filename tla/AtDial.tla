------------------------------- MODULE AtDial -------------------------------
(***************************************************************************)
(* The dial-up dialogue of AT_thread_entry (src/MySouce/ATcmd/AT_APP.c)    *)
(* with the CDMA modem, on top of the line ring of AtRing, together with   *)
(* what it shares with the rest of the terminal: MC323A_state, which tells *)
(* the USART1 interrupt to feed the protocol parser, and GlobalEvent,      *)
(* which tells the application threads that they may send.                 *)
(*                                                                         *)
(* The modem is external: it answers each command in turn, may report      *)
(* unasked ("^MODE:2", "remote close", anything else), and is known to     *)
(* this model only by what AT_APP.c expects of it.                         *)
(***************************************************************************)
EXTENDS AtRing

CONSTANTS
  EarlyClose,   \* may the server close before the terminal has noticed the link?
  StrictModem,  \* does the modem refuse IPENTRANS while nothing is connected?
  ErrCmds,      \* commands the modem may answer with ERROR at other times
  MaxErrs, MaxCloses, MaxModes, MaxNoise, MaxDrops   \* bounds on the environment

ASSUME LineAssumption == Line = {"OK", "ERROR", "MODE2", "CLOSE", "HCMGSS", "OTHER"}

VARIABLES
  state, IpSel,        \* locals of AT_thread_entry
  MC323A_state, GlobalEvent,
  reg,                 \* Register_thread_entry: starting, waiting, woken, done
  cmds,                \* commands on their way to the modem
  link, trans,         \* modem: TCP connection open, transparent transmission on
  reports,             \* modem: SMS reports still to come
  booting,             \* modem: (re)starting, will announce ^MODE:2
  errs, closes, modes, noise, drops

dialVars  == <<state, IpSel, MC323A_state, GlobalEvent, reg>>
modemVars == <<cmds, link, trans, reports, booting>>
counters  == <<errs, closes, modes, noise, drops>>
vars      == <<Str, Ready, pWrite, pRead, ATsem, pc, seen, Value, unread, overrun,
               state, IpSel, MC323A_state, GlobalEvent, reg,
               cmds, link, trans, reports, booting, errs, closes, modes, noise, drops>>

Cmd == {"IPINIT", "IPINIT?", "HSMSSS", "HCMGS", "SMS", "IPOPEN", "IPDATMODE", "IPENTRANS", "RESET"}

Init ==
  /\ RingInit
  /\ state = 0 /\ IpSel = 0 /\ MC323A_state = "DISABLE" /\ GlobalEvent = {} /\ reg = "starting"
  /\ cmds = <<>> /\ link = FALSE /\ trans = FALSE /\ reports = 0 /\ booting = TRUE
  /\ errs = 0 /\ closes = 0 /\ modes = 0 /\ noise = 0 /\ drops = 0
-----------------------------------------------------------------------------
(* AT_thread_entry                                                         *)

\* The steps of AtRing with which the thread waits for and decodes a line.
AwaitLine == TakeLine /\ UNCHANGED <<dialVars, modemVars, counters>>

\* MC323A->write: the driver of UART1 returns 0 and sends nothing when it has
\* no empty node; nobody looks at what it returns.
Send(c) ==
  \/ cmds' = Append(cmds, c) /\ UNCHANGED drops
  \/ drops < MaxDrops /\ drops' = drops + 1 /\ UNCHANGED cmds

\* What a dispatch step leaves alone.
Rest  == UNCHANGED <<nodes, seen, Value, unread, overrun, reg, link, trans, reports, booting,
                     errs, closes, modes, noise>>
Quiet == UNCHANGED <<cmds, drops>>
Net   == <<MC323A_state, GlobalEvent>>

\* States in which "OK" makes the thread send the next command at once.
NextCmd == [s \in {1, 2, 6, 7} |->
              CASE s = 1 -> [cmd |-> "IPINIT?",   to |-> 2]
                [] s = 2 -> [cmd |-> "HSMSSS",    to |-> 3]
                [] s = 6 -> [cmd |-> "IPDATMODE", to |-> 7]
                [] s = 7 -> [cmd |-> "IPENTRANS", to |-> 8]]

OkNextCmd ==
  /\ pc = "dispatch" /\ Value = "OK" /\ state \in DOMAIN NextCmd
  /\ Send(NextCmd[state].cmd) /\ state' = NextCmd[state].to
  /\ pc' = "take"
  /\ Rest /\ UNCHANGED <<IpSel, Net>>

\* State 3: give the phone number, wait 0.1 s, then send the text.
OkPhoneNumber ==
  /\ pc = "dispatch" /\ Value = "OK" /\ state = 3
  /\ Send("HCMGS") /\ pc' = "smsDelay"
  /\ Rest /\ UNCHANGED <<state, IpSel, Net>>

\* The text and its end mark are two writes, back to back.  They are one step here:
\* the modem does nothing about the text before the end mark, and a line that comes
\* in between is only put on the ring, as it may be before.  If the text is dropped
\* the modem sends an empty message and reports it all the same; if the end mark
\* is, there is no message, which is Send's dropped command.
SendText ==
  /\ pc = "smsDelay"
  /\ Send("SMS") /\ state' = 4 /\ pc' = "take"
  /\ Rest /\ UNCHANGED <<IpSel, Net>>

OkDialsBeforeReport ==
  /\ pc = "dispatch" /\ Value = "OK" /\ state \in {0, 4, 9}
  /\ IF state = 4 THEN Send("IPOPEN") /\ state' = 6 ELSE Quiet /\ UNCHANGED state
  /\ pc' = "take"
  /\ Rest /\ UNCHANGED <<IpSel, Net>>

OkSkipsSemaphore ==
  /\ pc = "dispatch" /\ Value = "OK" /\ state \in {0, 4, 9}
  /\ pc' = "check"
  /\ Rest /\ Quiet /\ UNCHANGED <<state, IpSel, Net>>

\* State 4's "state==5;" compares and assigns nothing; 0 and 9 expect no answer.
OkIgnored ==
  /\ pc = "dispatch" /\ Value = "OK" /\ state \in {0, 4, 9}
  /\ pc' = "take"
  /\ Rest /\ Quiet /\ UNCHANGED <<state, IpSel, Net>>

\* "^HCMGSS:" waits 0.1 s and jumps to TCP_Dial, whatever the state is; state 5,
\* the other way there, is never entered.
SmsReported ==
  /\ pc = "dispatch" /\ Value = "HCMGSS"
  /\ pc' = "dialDelay"
  /\ Rest /\ Quiet /\ UNCHANGED <<state, IpSel, Net>>

AtDialLabel == pc = "dialDelay" \/ (pc = "dispatch" /\ Value = "OK" /\ state = 5)

TCP_Dial ==
  /\ AtDialLabel
  /\ Send("IPOPEN") /\ state' = 6 /\ pc' = "take"
  /\ Rest /\ UNCHANGED <<IpSel, Net>>

\* State 8: MC323A->control(NET_STATE, ENABLE), then rt_event_send.
OkEnableNet ==
  /\ pc = "dispatch" /\ Value = "OK" /\ state = 8
  /\ MC323A_state' = "ENABLE" /\ pc' = "announce"
  /\ Rest /\ Quiet /\ UNCHANGED <<state, IpSel, GlobalEvent>>

AnnounceForgetsWaiters ==
  /\ pc = "announce"
  /\ GlobalEvent' = GlobalEvent \cup {"NET_CONNET"}
  /\ state' = 9 /\ pc' = "take"
  /\ Quiet
  /\ UNCHANGED <<nodes, seen, Value, unread, overrun, IpSel, MC323A_state, reg,
                 link, trans, reports, booting, errs, closes, modes, noise>>

\* rt_event_send also resumes the thread that waits for the event.
Announce ==
  /\ pc = "announce"
  /\ GlobalEvent' = GlobalEvent \cup {"NET_CONNET"}
  /\ reg' = IF reg = "waiting" THEN "woken" ELSE reg
  /\ state' = 9 /\ pc' = "take"
  /\ Quiet
  /\ UNCHANGED <<nodes, seen, Value, unread, overrun, IpSel, MC323A_state,
                 link, trans, reports, booting, errs, closes, modes, noise>>

\* "^MODE:2", in any state: register again.  Nothing takes the network back.
ModeCdma ==
  /\ pc = "dispatch" /\ Value = "MODE2"
  /\ Send("IPINIT") /\ state' = 1 /\ pc' = "take"
  /\ Rest /\ UNCHANGED <<IpSel, Net>>

ErrorGivesUp ==
  /\ pc = "dispatch" /\ Value = "ERROR" /\ state = 1
  /\ pc' = "take"
  /\ Rest /\ Quiet /\ UNCHANGED <<state, IpSel, Net>>

\* AT^IPINIT failed: register again.
ErrorRetry ==
  /\ pc = "dispatch" /\ Value = "ERROR" /\ state = 1
  /\ Send("IPINIT") /\ pc' = "take"
  /\ Rest /\ UNCHANGED <<state, IpSel, Net>>

\* The server of ip1.dat cannot be reached: use ip2.dat and start again.
ErrorOpen ==
  /\ pc = "dispatch" /\ Value = "ERROR" /\ state = 6
  /\ Send("RESET") /\ IpSel' = 1 /\ state' = 0 /\ pc' = "take"
  /\ Rest /\ UNCHANGED Net

Ignored ==
  /\ pc = "dispatch"
  /\ Value \in {"OTHER", NoCommand} \/ (Value = "ERROR" /\ state \notin {1, 6})
  /\ pc' = "take"
  /\ Rest /\ Quiet /\ UNCHANGED <<state, IpSel, Net>>

\* "remote close": rt_event_recv(NET_CONNET, OR|CLEAR, RT_WAITING_FOREVER)
RemoteClosed ==
  /\ pc = "dispatch" /\ Value = "CLOSE"
  /\ pc' = "waitNet"
  /\ Rest /\ Quiet /\ UNCHANGED <<state, IpSel, Net>>

TakeNetEventWithoutClear ==
  /\ pc = "waitNet" /\ "NET_CONNET" \in GlobalEvent
  /\ pc' = "netDown"
  /\ Rest /\ Quiet /\ UNCHANGED <<state, IpSel, Net>>

\* The event is cleared as it is received; AT_thread_entry itself is the only
\* thread that sends it.
TakeNetEvent ==
  /\ pc = "waitNet" /\ "NET_CONNET" \in GlobalEvent
  /\ GlobalEvent' = GlobalEvent \ {"NET_CONNET"}
  /\ pc' = "netDown"
  /\ Rest /\ Quiet /\ UNCHANGED <<state, IpSel, MC323A_state>>

NetDownKeepsState ==
  /\ pc = "netDown"
  /\ MC323A_state' = "DISABLE"
  /\ Send("RESET") /\ pc' = "take"
  /\ Rest /\ UNCHANGED <<state, IpSel, GlobalEvent>>

\* control(NET_STATE, DISABLE), AT^RESET, and the dial sequence from the start.
NetDown ==
  /\ pc = "netDown"
  /\ MC323A_state' = "DISABLE"
  /\ Send("RESET") /\ state' = 0 /\ pc' = "take"
  /\ Rest /\ UNCHANGED <<IpSel, GlobalEvent>>

Dialogue ==
  \/ OkNextCmd \/ OkPhoneNumber \/ SendText \/ OkIgnored \/ SmsReported \/ TCP_Dial
  \/ OkEnableNet \/ Announce \/ ModeCdma \/ ErrorRetry \/ ErrorOpen \/ Ignored
  \/ RemoteClosed \/ TakeNetEvent \/ NetDown
-----------------------------------------------------------------------------
(* Register_thread_entry: wait for NET_CONNET, publish AUTHENTCATED, end.  *)

RegisterStart ==
  /\ reg = "starting"
  /\ reg' = IF "NET_CONNET" \in GlobalEvent THEN "woken" ELSE "waiting"
  /\ UNCHANGED <<ringVars, state, IpSel, Net, modemVars, counters>>

RegisterPublish ==
  /\ reg = "woken"
  /\ GlobalEvent' = GlobalEvent \cup {"AUTHENTCATED"}
  /\ reg' = "done"
  /\ UNCHANGED <<ringVars, state, IpSel, MC323A_state, modemVars, counters>>
-----------------------------------------------------------------------------
(* The modem and the network (external).                                   *)

\* The command is data for the server once transparent transmission is on.
Swallow ==
  /\ cmds # <<>> /\ ~booting /\ trans
  /\ cmds' = Tail(cmds)
  /\ UNCHANGED <<ringVars, dialVars, link, trans, reports, booting, counters>>

Refused == StrictModem /\ Head(cmds) = "IPENTRANS" /\ ~link

AnswerError ==
  /\ cmds # <<>> /\ ~booting /\ ~trans
  /\ Refused \/ (Head(cmds) \in ErrCmds /\ errs < MaxErrs)
  /\ PutLine("ERROR")
  /\ cmds' = Tail(cmds) /\ errs' = IF Refused THEN errs ELSE errs + 1
  /\ UNCHANGED <<dialVars, link, trans, reports, booting, closes, modes, noise, drops>>

AnswerOk ==
  /\ cmds # <<>> /\ ~booting /\ ~trans /\ ~Refused
  /\ LET c == Head(cmds)
     IN  /\ PutLine(IF c = "HCMGS" THEN "OTHER" ELSE "OK")      \* the ">" prompt
         /\ cmds' = IF c = "RESET" THEN <<>> ELSE Tail(cmds)
         /\ link' = CASE c = "IPOPEN" -> TRUE [] c = "RESET" -> FALSE [] OTHER -> link
         /\ trans' = (c = "IPENTRANS" /\ link)
         /\ reports' = CASE c = "SMS" -> reports + 1 [] c = "RESET" -> 0 [] OTHER -> reports
         /\ booting' = (c = "RESET")
  /\ UNCHANGED <<dialVars, counters>>

ReportSms ==
  /\ reports > 0
  /\ PutLine("HCMGSS") /\ reports' = reports - 1
  /\ UNCHANGED <<dialVars, cmds, link, trans, booting, counters>>

Boot ==
  /\ booting
  /\ PutLine("MODE2") /\ booting' = FALSE
  /\ UNCHANGED <<dialVars, cmds, link, trans, reports, counters>>

\* Service lost and found again.
ModeChange ==
  /\ ~booting /\ modes < MaxModes
  /\ PutLine("MODE2") /\ modes' = modes + 1
  /\ UNCHANGED <<dialVars, modemVars, errs, closes, noise, drops>>

ServerClose ==
  /\ link /\ closes < MaxCloses
  /\ EarlyClose \/ "NET_CONNET" \in GlobalEvent
  /\ PutLine("CLOSE") /\ closes' = closes + 1
  /\ link' = FALSE /\ trans' = FALSE
  /\ UNCHANGED <<dialVars, cmds, reports, booting, errs, modes, noise, drops>>

\* ^RSSILVL, ^DSDORMANT and the like
OtherReport ==
  /\ noise < MaxNoise
  /\ PutLine("OTHER") /\ noise' = noise + 1
  /\ UNCHANGED <<dialVars, modemVars, errs, closes, modes, drops>>

Modem == Swallow \/ AnswerError \/ AnswerOk \/ ReportSms \/ Boot

Next ==
  \/ AwaitLine \/ Dialogue
  \/ RegisterStart \/ RegisterPublish
  \/ Modem \/ ModeChange \/ ServerClose \/ OtherReport

Spec == Init /\ [][Next]_vars

\* Threads that are ready run, and the modem does what it was told; that it
\* reports anything unasked is never assumed.
FairSpec ==
  /\ Spec
  /\ WF_vars(AwaitLine \/ Dialogue) /\ WF_vars(RegisterStart \/ RegisterPublish)
  /\ WF_vars(Swallow \/ AnswerOk \/ AnswerError) /\ WF_vars(ReportSms) /\ WF_vars(Boot)
-----------------------------------------------------------------------------
(* Properties                                                              *)

\* However long the switch takes (its delays, its waits), the thread uses the
\* line ring as AtRing says, so what holds of the ring holds here.
Ring == INSTANCE AtRing WITH
          pc <- IF pc \in {"smsDelay", "dialDelay", "announce", "waitNet", "netDown"}
                THEN "dispatch" ELSE pc
UsesRing == Ring!RingSpec

\* The two copies of "the network is up" agree whenever the AT thread is not
\* between changing one and the other: the USART1 interrupt feeds the protocol
\* parser exactly while the application threads are told NET_CONNET.
NetCopiesAgree ==
  pc \notin {"announce", "netDown"} =>
    (MC323A_state = "ENABLE" <=> "NET_CONNET" \in GlobalEvent)

\* A "remote close" line that AT_thread_entry has not finished with.
ClosePending ==
  \/ \E i \in 1 .. Len(unread) : unread[i] = "CLOSE"
  \/ pc \in {"dispatch", "waitNet", "netDown"} /\ Value = "CLOSE"

\* The application threads are told that the network is ready only while the
\* modem really has a connection, until the line that reports its loss has
\* been dealt with.
NetReadyMeansLinked == "NET_CONNET" \in GlobalEvent => link \/ ClosePending \/ overrun

\* The same as long as ^MODE:2 is only reported after a start of the modem:
\* errors, lost commands and a server that closes at any moment do not lead
\* AT_thread_entry to announce a network that is not there.
OrderlyNetReadyMeansLinked == modes = 0 => NetReadyMeansLinked

\* Commands the modem has not answered, and answers the thread has not used.
Answers == {i \in 1 .. Len(unread) : unread[i] \in {"OK", "ERROR"}}

\* From TCP_Dial on, the answer the thread waits for is the answer to the
\* command it sent last: at most one command is unanswered, and no answer to an
\* earlier command (a late "OK" of the SMS) is still under way, unless ^MODE:2
\* came unasked.
OneAnswerAwaited ==
  state \in {6, 7, 8} /\ pc = "take" /\ ~overrun /\ modes = 0 =>
    \/ Answers = {} /\ Len(cmds) <= 1
    \/ cmds = <<>> /\ \E i \in Answers : Answers = {i}

\* "remote close" always ends in a fresh start of the dial sequence.
CloseRestartsDialling == (pc = "waitNet") ~> (state = 0)

\* With a modem that answers, whatever errors and disconnections it reports (a
\* bounded number of times), the terminal ends up connected for good.
EventuallyConnected == <>[](state = 9 /\ "NET_CONNET" \in GlobalEvent /\ link)

\* The application threads are allowed to send in the end: the registration
\* thread does not miss NET_CONNET.
EventuallyAuthenticated == <>("AUTHENTCATED" \in GlobalEvent)
=============================================================================
