---------------------------- MODULE AtDial_proofs ----------------------------
(***************************************************************************)
(* Proofs about the dial dialogue, for every number of ring nodes and every *)
(* behaviour of the modem the specification allows: the copies of the      *)
(* network state, the use of the ring, and which command, answer and       *)
(* report can be under way in which state.                                 *)
(***************************************************************************)
EXTENDS AtDial, SequenceTheorems, TLAPS

\* NetCopiesAgree with what is known inside the two windows it excludes.
NetInv ==
  /\ NetCopiesAgree
  /\ pc = "announce" => MC323A_state = "ENABLE"
  /\ pc = "netDown" => "NET_CONNET" \notin GlobalEvent

\* Steps that touch neither copy, and neither enter nor leave a window.
LEMMA NetUntouched ==
  ASSUME NetInv, MC323A_state' = MC323A_state,
         "NET_CONNET" \in GlobalEvent' <=> "NET_CONNET" \in GlobalEvent,
         \/ pc' = pc
         \/ pc \notin {"announce", "netDown"} /\ pc' \notin {"announce", "netDown"}
  PROVE  NetInv'
  BY DEF NetInv, NetCopiesAgree

\* MC323A_state, read by the USART1 interrupt, and NET_CONNET in GlobalEvent,
\* read by the application threads, never disagree outside the two windows in
\* which AT_thread_entry changes them one after the other.
THEOREM NetCopiesAgreeHolds == Spec => []NetCopiesAgree
<1>1. Init => NetInv
  BY DEF Init, RingInit, NetInv, NetCopiesAgree
<1>2. NetInv /\ [Next]_vars => NetInv'
  <2> SUFFICES ASSUME NetInv, [Next]_vars PROVE NetInv'
    OBVIOUS
  <2>1. CASE AwaitLine
    BY <2>1, NetUntouched
    DEF AwaitLine, TakeLine, SemTake, NotReady, BeginDecode, EndDecode, Clear, dialVars
  <2>2. CASE OkNextCmd \/ OkPhoneNumber \/ SendText \/ OkIgnored \/ SmsReported
    BY <2>2, NetUntouched DEF OkNextCmd, OkPhoneNumber, SendText, OkIgnored, SmsReported, Net
  <2>3. CASE TCP_Dial
    BY <2>3, NetUntouched DEF TCP_Dial, AtDialLabel, Net
  <2>4. CASE ModeCdma \/ ErrorRetry \/ ErrorOpen \/ Ignored \/ RemoteClosed
    BY <2>4, NetUntouched DEF ModeCdma, ErrorRetry, ErrorOpen, Ignored, RemoteClosed, Net
  <2>5. CASE OkEnableNet
    BY <2>5 DEF OkEnableNet, NetInv, NetCopiesAgree
  <2>6. CASE Announce
    BY <2>6 DEF Announce, NetInv, NetCopiesAgree
  <2>7. CASE TakeNetEvent
    BY <2>7 DEF TakeNetEvent, NetInv, NetCopiesAgree
  <2>8. CASE NetDown
    BY <2>8 DEF NetDown, NetInv, NetCopiesAgree
  <2>9. CASE RegisterStart \/ RegisterPublish
    BY <2>9, NetUntouched DEF RegisterStart, RegisterPublish, Net, ringVars
  <2>10. CASE Modem \/ ModeChange \/ ServerClose \/ OtherReport
    BY <2>10, NetUntouched
    DEF Modem, Swallow, AnswerError, AnswerOk, ReportSms, Boot, ModeChange, ServerClose,
        OtherReport, PutLine, dialVars, ringVars
  <2>11. CASE UNCHANGED vars
    BY <2>11, NetUntouched DEF vars
  <2> QED
    BY <2>1, <2>2, <2>3, <2>4, <2>5, <2>6, <2>7, <2>8, <2>9, <2>10, <2>11 DEF Next, Dialogue
<1>3. NetInv => NetCopiesAgree
  BY DEF NetInv
<1> QED
  BY <1>1, <1>2, <1>3, PTL DEF Spec
-----------------------------------------------------------------------------
(* The line ring                                                           *)

\* Where the thread is, as UsesRing maps it.
Busy == {"smsDelay", "dialDelay", "announce", "waitNet", "netDown"}
RingPc == IF pc \in Busy THEN "dispatch" ELSE pc

\* The branches of the switch leave the ring alone: the thread goes back to the
\* semaphore, or stays in the switch.
LEMMA DialogueLeavesRing ==
  ASSUME Dialogue
  PROVE  /\ UNCHANGED <<nodes, seen, Value, unread, overrun>>
         /\ RingPc = "dispatch" /\ RingPc' \in {"take", "dispatch"}
<1>1. CASE OkNextCmd \/ OkPhoneNumber \/ SendText \/ OkIgnored \/ SmsReported
  BY <1>1 DEF OkNextCmd, OkPhoneNumber, SendText, OkIgnored, SmsReported, Rest, RingPc, Busy
<1>2. CASE TCP_Dial
  BY <1>2 DEF TCP_Dial, AtDialLabel, Rest, RingPc, Busy
<1>3. CASE ModeCdma \/ ErrorRetry \/ ErrorOpen \/ Ignored \/ RemoteClosed
  BY <1>3 DEF ModeCdma, ErrorRetry, ErrorOpen, Ignored, RemoteClosed, Rest, RingPc, Busy
<1>4. CASE OkEnableNet \/ Announce \/ TakeNetEvent \/ NetDown
  BY <1>4 DEF OkEnableNet, Announce, TakeNetEvent, NetDown, Rest, RingPc, Busy
<1> QED
  BY <1>1, <1>2, <1>3, <1>4 DEF Dialogue

\* Every line of the modem, asked for or not, is one PutLine.
LEMMA ModemPutsLines ==
  ASSUME Modem \/ ModeChange \/ ServerClose \/ OtherReport
  PROVE  UNCHANGED ringVars \/ \E l \in Line : PutLine(l)
BY LineAssumption
   DEF Modem, Swallow, AnswerError, AnswerOk, ReportSms, Boot, ModeChange, ServerClose, OtherReport

\* AT_thread_entry with its delays and waits, and the modem with its answers and
\* reports, use the ring of lines as AtRing specifies it.
THEOREM UsesRingHolds == Spec => UsesRing
<1>1. Init => Ring!RingInit
  BY DEF Init, RingInit, ATcmdBuf_init, Ring!RingInit, Ring!ATcmdBuf_init, Nodes, Ring!Nodes
<1>2. [Next]_vars => [Ring!RingNext]_(Ring!ringVars)
  <2> SUFFICES ASSUME [Next]_vars PROVE Ring!RingNext \/ UNCHANGED Ring!ringVars
    OBVIOUS
  <2>1. CASE AwaitLine
    <3>1. CASE SemTake
      BY <3>1 DEF SemTake, Ring!RingNext, Ring!SemTake
    <3>2. CASE NotReady
      BY <3>2 DEF NotReady, Ring!RingNext, Ring!NotReady, nodes, Ring!nodes
    <3>3. CASE BeginDecode
      BY <3>3 DEF BeginDecode, Ring!RingNext, Ring!BeginDecode, nodes, Ring!nodes
    <3>4. CASE EndDecode
      BY <3>4 DEF EndDecode, Ring!RingNext, Ring!EndDecode, nodes, Ring!nodes
    <3>5. CASE Clear
      BY <3>5 DEF Clear, Ring!RingNext, Ring!Clear, next, Ring!next
    <3> QED
      BY <2>1, <3>1, <3>2, <3>3, <3>4, <3>5 DEF AwaitLine, TakeLine
  <2>2. CASE Dialogue
    <3>1. CASE RingPc' = "take"
      <4>1. Ring!Dispatch
        BY <2>2, <3>1, DialogueLeavesRing DEF RingPc, Busy, Ring!Dispatch, nodes, Ring!nodes
      <4> QED
        BY <4>1 DEF Ring!RingNext
    <3>2. CASE RingPc' = "dispatch"
      BY <2>2, <3>2, DialogueLeavesRing DEF RingPc, Busy, Ring!ringVars, nodes
    <3> QED
      BY <2>2, <3>1, <3>2, DialogueLeavesRing
  <2>3. CASE Modem \/ ModeChange \/ ServerClose \/ OtherReport
    <3>1. CASE UNCHANGED ringVars
      BY <3>1 DEF ringVars, Ring!ringVars
    <3>2. CASE \E l \in Line : PutLine(l)
      <4>1. PICK l \in Line : PutLine(l)
        BY <3>2
      <4>2. Ring!PutLine(l)
        BY <4>1 DEF PutLine, Ring!PutLine, next, Ring!next
      <4> QED
        BY <4>2 DEF Ring!RingNext
    <3> QED
      BY <2>3, <3>1, <3>2, ModemPutsLines
  <2>4. CASE RegisterStart \/ RegisterPublish \/ UNCHANGED vars
    BY <2>4 DEF RegisterStart, RegisterPublish, vars, ringVars, Ring!ringVars
  <2> QED
    BY <2>1, <2>2, <2>3, <2>4 DEF Next
<1> QED
  BY <1>1, <1>2, PTL DEF Spec, UsesRing, Ring!RingSpec
-----------------------------------------------------------------------------
(* The dialogue                                                            *)

\* The lines the thread has still to act on: the one in its hand, at position 0,
\* and the unread ones.
Pos == {i \in 0 .. Len(unread) : i > 0 \/ pc = "dispatch"}
LineAt(i) == IF i = 0 THEN Value ELSE unread[i]

\* A line of S is among them; at most one is; those of S come before those of T.
Some(S) == \E i \in Pos : LineAt(i) \in S
Single(S) == \A i, j \in Pos : LineAt(i) \in S /\ LineAt(j) \in S => i = j
Before(S, T) == \A i, j \in Pos : LineAt(i) \in S /\ LineAt(j) \in T => i < j

Answer == {"OK", "ERROR"}
InClose == pc \in {"waitNet", "netDown"}
NetUp == "NET_CONNET" \in GlobalEvent

\* c is the only command the thread has not got the answer of.
Awaiting(c) ==
  \/ cmds = <<c>> /\ ~Some(Answer)
  \/ cmds = <<>> /\ Single(Answer)

\* Types, and which waits of the switch belong to which state.
DialTypes ==
  /\ state \in {0, 1, 2, 3, 4, 6, 7, 8, 9}
  /\ pc \in {"take", "check", "decode", "clear", "dispatch"} \cup Busy
  /\ reports \in {0, 1} /\ booting \in BOOLEAN /\ link \in BOOLEAN /\ trans \in BOOLEAN
  /\ pc = "smsDelay" => state = 3
  /\ pc = "dialDelay" => state = 4
  /\ pc = "announce" => state = 8
  /\ pc = "waitNet" => state \in {7, 8, 9}
  /\ pc = "netDown" => state = 9
  /\ InClose => Value = "CLOSE"

\* What is under way in the state the thread is in.
Restarting ==
  /\ cmds \in {<<>>, <<"RESET">>}
  /\ booting => cmds = <<>> /\ ~Some({"MODE2"})
  /\ Some({"MODE2"}) => cmds = <<>>
  /\ Single({"MODE2"}) /\ Before(Answer, {"MODE2"})
Texting ==
  /\ cmds \in {<<>>, <<"HCMGS">>, <<"SMS">>, <<"HCMGS", "SMS">>}
  /\ reports = 1 => cmds = <<>> /\ ~Some({"HCMGSS"})
  /\ Some({"HCMGSS"}) => cmds = <<>>
  /\ Single({"HCMGSS"}) /\ Before(Answer, {"HCMGSS"})
  /\ pc = "dialDelay" => cmds = <<>> /\ reports = 0 /\ ~Some({"HCMGSS"}) /\ ~Some(Answer)
Opening ==
  /\ Awaiting("IPOPEN")
  /\ Some({"OK"}) <=> link \/ Some({"CLOSE"})
  /\ Before({"OK"}, {"CLOSE"})

Phase ==
  /\ state = 0 => Restarting
  /\ state = 1 => Awaiting("IPINIT")
  /\ state = 2 => Awaiting("IPINIT?")
  /\ state = 3 => IF pc = "smsDelay" THEN cmds \in {<<>>, <<"HCMGS">>} ELSE Awaiting("HSMSSS")
  /\ state = 4 => Texting
  /\ state = 6 => Opening
  /\ state = 7 => Awaiting("IPDATMODE")
  /\ state = 8 => IF pc = "announce" THEN cmds = <<>> /\ ~Some(Answer) ELSE Awaiting("IPENTRANS")
  /\ state = 9 => cmds = <<>> /\ ~Some(Answer)

\* A report that does not belong to the state is not under way.
NoStrays ==
  /\ state # 0 => ~booting /\ ~Some({"MODE2"})
  /\ state # 4 => reports = 0 /\ ~Some({"HCMGSS"})

\* The connection, the line that reports its loss and the event.
Connection ==
  /\ trans => link
  /\ state < 6 => ~link /\ ~Some({"CLOSE"})
  /\ state \in {7, 8, 9} => link \/ Some({"CLOSE"}) \/ InClose
  /\ Some({"CLOSE"}) \/ InClose => ~link
  /\ Single({"CLOSE"}) /\ (InClose => ~Some({"CLOSE"}))
  /\ NetUp <=> state = 9 /\ pc # "netDown"

\* What makes OneAnswerAwaited and OrderlyNetReadyMeansLinked inductive: without
\* unasked ^MODE:2, commands, answers and reports under way are those of the
\* state the thread is in.
Orderly == DialTypes /\ Phase /\ NoStrays /\ Connection
DialInv ==
  /\ modes \in Nat
  /\ modes = 0 /\ ~overrun => Orderly

\* The dialogue's ring is AtRing's, so what AtRing_proofs shows of that holds here.
R == INSTANCE AtRing_proofs WITH pc <- RingPc

LEMMA RingKnown == Spec => []R!IndInv
<1> USE DEF nodes, next, Nodes, RingPc, Busy
<1>1. Ring!RingInit => R!RingInit
  BY DEF Ring!RingInit, R!RingInit, Ring!ATcmdBuf_init, R!ATcmdBuf_init, Ring!Nodes, R!Nodes
<1>2. [Ring!RingNext]_(Ring!ringVars) => [R!RingNext]_(R!ringVars)
  BY DEF Ring!RingNext, R!RingNext, Ring!ringVars, R!ringVars, Ring!PutLine, R!PutLine,
         Ring!SemTake, R!SemTake, Ring!NotReady, R!NotReady, Ring!BeginDecode, R!BeginDecode,
         Ring!EndDecode, R!EndDecode, Ring!Clear, R!Clear, Ring!Dispatch, R!Dispatch,
         Ring!nodes, R!nodes, Ring!next, R!next
<1>3. R!RingSpec => []R!IndInv
  BY R!IndInvHolds, NodeNumAssumption, NoCommandAssumption, PTL
<1> QED
  BY <1>1, <1>2, <1>3, UsesRingHolds, PTL DEF UsesRing, Ring!RingSpec, R!RingSpec

\* What the dialogue uses of it.
LinesKnown ==
  /\ unread \in Seq(Line) /\ Value \in Line \cup {NoCommand}
  /\ pc = "clear" /\ ~overrun => Len(unread) > 0 /\ Value = unread[1]

LEMMA RingGivesLines == R!IndInv => LinesKnown
BY DEF R!IndInv, R!RingTypeOK, LinesKnown, RingPc, Busy

\* A step that neither takes nor adds a line.
LEMMA LinesKept ==
  ASSUME NEW S, NEW T, unread' = unread, pc' = "dispatch" <=> pc = "dispatch",
         pc = "dispatch" => Value' = Value
  PROVE  /\ Some(S)' <=> Some(S)
         /\ Single(S)' <=> Single(S)
         /\ Before(S, T)' <=> Before(S, T)
BY DEF Some, Single, Before, Pos, LineAt

\* The oldest line goes from the ring into the thread's hand.
LEMMA LinesCleared ==
  ASSUME NEW S, NEW T, LinesKnown, Clear, ~overrun
  PROVE  /\ Some(S)' <=> Some(S)
         /\ Single(S) => Single(S)'
         /\ Before(S, T) => Before(S, T)'
<1>1. /\ unread \in Seq(Line) /\ Len(unread) > 0 /\ Value = unread[1]
      /\ Len(unread') = Len(unread) - 1
      /\ \A i \in 1 .. Len(unread') : unread'[i] = unread[i + 1]
  BY DEF LinesKnown, Clear
<1>2. /\ Pos = 1 .. Len(unread) /\ Pos' = 0 .. Len(unread) - 1
  BY <1>1 DEF Clear, Pos
<1>3. \A i \in Pos' : i + 1 \in Pos /\ LineAt(i)' = LineAt(i + 1)
  BY <1>1, <1>2 DEF LineAt, Clear
<1>4. \A i \in Pos : i - 1 \in Pos' /\ LineAt(i - 1)' = LineAt(i)
  BY <1>1, <1>2 DEF LineAt, Clear
<1>5. Some(S)' <=> Some(S)
  BY <1>3, <1>4 DEF Some
<1>6. Single(S) => Single(S)'
  BY <1>2, <1>3 DEF Single
<1>7. Before(S, T) => Before(S, T)'
  BY <1>2, <1>3 DEF Before
<1> QED
  BY <1>5, <1>6, <1>7

\* The modem adds a line.
LEMMA LinesPut ==
  ASSUME NEW S, NEW T, NEW l \in Line, LinesKnown, PutLine(l), ~overrun'
  PROVE  /\ Some(S)' <=> Some(S) \/ l \in S
         /\ Single(S) /\ (l \in S => ~Some(S)) => Single(S)'
         /\ Before(S, T) /\ (l \in S => l \notin T /\ ~Some(T)) => Before(S, T)'
<1>0. PICK n \in Nat : n = Len(unread)
  BY DEF LinesKnown
<1>1. /\ n = Len(unread) /\ Len(unread') = n + 1 /\ unread'[n + 1] = l
      /\ \A i \in 1 .. n : unread'[i] = unread[i]
  BY <1>0 DEF LinesKnown, PutLine
<1>2. /\ Pos \subseteq 0 .. n /\ Pos' = Pos \cup {n + 1} /\ n + 1 \notin Pos
      /\ LineAt(n + 1)' = l /\ \A i \in Pos : LineAt(i)' = LineAt(i)
  BY <1>1 DEF PutLine, Pos, LineAt
<1>3. Some(S)' <=> Some(S) \/ l \in S
  BY <1>2 DEF Some
<1>4. Single(S) /\ (l \in S => ~Some(S)) => Single(S)'
  BY <1>2 DEF Single, Some
<1>5. Before(S, T) /\ (l \in S => l \notin T /\ ~Some(T)) => Before(S, T)'
  BY <1>1, <1>2 DEF Before, Some
<1> QED
  BY <1>3, <1>4, <1>5

\* The thread has acted on the line in its hand.
LEMMA LinesDone ==
  ASSUME NEW S, NEW T, LinesKnown, pc = "dispatch", pc' # "dispatch", unread' = unread
  PROVE  /\ Some(S)' => Some(S)
         /\ Some(S) <=> Value \in S \/ Some(S)'
         /\ Single(S) => Single(S)' /\ (Value \in S => ~Some(S)')
         /\ Before(S, T) => Before(S, T)' /\ (Value \in T => ~Some(S))
<1>1. /\ Len(unread) \in Nat /\ 0 \in Pos /\ Pos' = Pos \ {0} /\ Pos \subseteq Nat
      /\ LineAt(0) = Value /\ \A i \in Pos' : LineAt(i)' = LineAt(i)
  BY DEF LinesKnown, Pos, LineAt
<1>2. Some(S) <=> Value \in S \/ Some(S)'
  BY <1>1 DEF Some
<1>3. Single(S) => Single(S)' /\ (Value \in S => ~Some(S)')
  BY <1>1 DEF Some, Single
<1>4. Before(S, T) => Before(S, T)' /\ (Value \in T => ~Some(S))
  BY <1>1 DEF Some, Before
<1> QED
  BY <1>2, <1>3, <1>4

\* The kinds of lines Orderly speaks of, and those it orders after answers.
Kinds == {Answer, {"OK"}, {"MODE2"}, {"HCMGSS"}, {"CLOSE"}}
LateKinds == {{"MODE2"}, {"HCMGSS"}, {"CLOSE"}}

\* What no line and one line have to do with each other.
LEMMA LinesRelated ==
  /\ Some({"OK"}) => Some(Answer)
  /\ Some({"ERROR"}) => Some(Answer)
  /\ \A S \in Kinds : ~Some(S) => Single(S)
  /\ \A S \in {Answer, {"OK"}} : \A T \in LateKinds :
       ~Some(S) \/ ~Some(T) => Before(S, T)
BY DEF Some, Single, Before, Answer

\* LinesKept, LinesCleared, LinesPut and LinesDone for these kinds.
SameLines ==
  /\ \A S \in Kinds : (Some(S)' <=> Some(S)) /\ (Single(S) => Single(S)')
  /\ \A S \in {Answer, {"OK"}} : \A T \in LateKinds : Before(S, T) => Before(S, T)'
MoreLines(l) ==
  /\ \A S \in Kinds : /\ Some(S)' <=> Some(S) \/ l \in S
                      /\ Single(S) /\ (l \in S => ~Some(S)) => Single(S)'
  /\ \A S \in {Answer, {"OK"}} : \A T \in LateKinds :
       Before(S, T) /\ (l \in S => l \notin T /\ ~Some(T)) => Before(S, T)'
LessLines ==
  /\ \A S \in Kinds : /\ Some(S) <=> Value \in S \/ Some(S)'
                      /\ Single(S) => Single(S)' /\ (Value \in S => ~Some(S)')
  /\ \A S \in {Answer, {"OK"}} : \A T \in LateKinds :
       Before(S, T) => Before(S, T)' /\ (Value \in T => ~Some(S))

\* Steps that change nothing Orderly speaks of but the place in the loop.
LEMMA OrderlySameLines ==
  ASSUME Orderly, SameLines,
         UNCHANGED <<state, cmds, link, trans, reports, booting>>, NetUp' <=> NetUp,
         \/ pc' = pc /\ Value' = Value
         \/ pc \notin Busy /\ pc' \in {"take", "check", "decode", "clear", "dispatch"}
  PROVE  Orderly'
<1>1. DialTypes'
  BY DEF Orderly, DialTypes, InClose, Busy
<1>2. \A c : Awaiting(c) => Awaiting(c)'
  BY DEF SameLines, Awaiting, Kinds
<1>3. Restarting => Restarting'
  BY DEF SameLines, Restarting, Kinds, LateKinds
<1>4. Texting => Texting'
  BY DEF SameLines, Texting, Busy, Kinds, LateKinds
<1>5. Opening => Opening'
  BY <1>2 DEF SameLines, Opening, Kinds, LateKinds
<1>6. Phase'
  BY <1>2, <1>3, <1>4, <1>5 DEF Orderly, Phase, SameLines, Busy, Kinds
<1>7. NoStrays' /\ Connection'
  BY DEF Orderly, NoStrays, Connection, SameLines, InClose, Busy, Kinds
<1> QED
  BY <1>1, <1>6, <1>7 DEF Orderly

\* The thread acts on a line that makes it send nothing and stay in its state.
LEMMA OrderlyIgnores ==
  ASSUME Orderly, LinesKnown, LessLines, OkIgnored \/ Ignored
  PROVE  Orderly'
<1> USE DEF Kinds, LateKinds
<1>1. /\ pc = "dispatch" /\ pc' = "take" /\ ~(Value \in {"MODE2", "HCMGSS", "CLOSE"})
      /\ Value = "OK" => state \notin {1, 2, 3, 6, 7, 8}
      /\ Value = "ERROR" => state # 6
      /\ UNCHANGED <<state, cmds, link, trans, reports, booting, GlobalEvent, Value>>
  BY LineAssumption, NoCommandAssumption
  DEF OkIgnored, Ignored, Rest, Quiet, Net, Orderly, DialTypes
<1>2. DialTypes'
  BY <1>1 DEF Orderly, DialTypes, InClose, Busy
<1>3. \A c : Awaiting(c) => Awaiting(c)'
  BY <1>1, LinesRelated DEF LessLines, Awaiting
<1>4. Restarting => Restarting'
  BY <1>1 DEF LessLines, Restarting
<1>5. Texting => Texting'
  BY <1>1 DEF LessLines, Texting
<1>6. state = 6 /\ Opening => Opening'
  BY <1>1, <1>3 DEF LessLines, Opening
<1>7. Phase'
  BY <1>1, <1>3, <1>4, <1>5, <1>6 DEF Orderly, Phase, LessLines
<1>8. NoStrays' /\ Connection'
  BY <1>1 DEF Orderly, NoStrays, Connection, LessLines, NetUp, InClose
<1> QED
  BY <1>2, <1>7, <1>8 DEF Orderly

\* A command sent while none is unanswered is the only one, or was dropped.
LEMMA SendsOne ==
  ASSUME NEW c, cmds = <<>>, Send(c)
  PROVE  cmds' = <<c>> \/ cmds' = <<>>
BY DEF Send

\* Two commands on their way.
LEMMA AppendToOne ==
  ASSUME NEW a, NEW b PROVE Append(<<a>>, b) = <<a, b>>
<1>1. <<a>> \in Seq({a, b}) /\ <<a, b>> \in Seq({a, b}) /\ b \in {a, b}
  OBVIOUS
<1>2. PICK s \in Seq({a, b}) : s = <<a>>
  BY <1>1
<1>3. Len(s) = 1 /\ s[1] = a
  BY <1>2
<1>4. PICK u \in Seq({a, b}) : u = Append(s, b)
  BY <1>1, AppendProperties
<1>5. /\ Len(u) = Len(s) + 1 /\ u[Len(s) + 1] = b
      /\ \A i \in 1 .. Len(s) : u[i] = s[i]
  BY <1>1, <1>4, AppendProperties
<1>6. Len(u) = 2 /\ u[1] = a /\ u[2] = b
  BY <1>3, <1>5
<1>7. PICK t \in Seq({a, b}) : t = <<a, b>>
  BY <1>1
<1>8. Len(t) = 2 /\ t[1] = a /\ t[2] = b
  BY <1>7
<1>9. u = t
  BY <1>6, <1>8, SeqEqual
<1> QED
  BY <1>2, <1>4, <1>7, <1>9

\* Acting on an answer when one command was asked: nothing is under way after it.
LEMMA AnswerTaken ==
  ASSUME NEW c, Awaiting(c), LessLines, Value \in Answer
  PROVE  cmds = <<>> /\ ~Some(Answer)'
BY DEF LessLines, Awaiting, Kinds

\* "OK" of the expected command: the next one.
LEMMA OrderlyNextCmd ==
  ASSUME Orderly, LessLines, OkNextCmd
  PROVE  Orderly'
<1> USE DEF Kinds, LateKinds
<1>1. /\ pc = "dispatch" /\ pc' = "take" /\ Value = "OK" /\ state \in {1, 2, 6, 7}
      /\ UNCHANGED <<link, trans, reports, booting, GlobalEvent>>
  BY DEF OkNextCmd, Rest, Net, NextCmd
<1>2. cmds = <<>> /\ ~Some(Answer)'
  BY <1>1, AnswerTaken DEF Orderly, Phase, Opening, Answer
<1>3. PICK c, s : Send(c) /\ state' = s /\ <<state, c, s>> \in
        {<<1, "IPINIT?", 2>>, <<2, "HSMSSS", 3>>, <<6, "IPDATMODE", 7>>, <<7, "IPENTRANS", 8>>}
  BY <1>1 DEF OkNextCmd, NextCmd
<1>4. Awaiting(c)'
  BY <1>2, <1>3, SendsOne, LinesRelated DEF Awaiting, LessLines, Single, Some
<1>5. Phase'
  BY <1>1, <1>3, <1>4 DEF Phase
<1>6. state = 6 => link \/ Some({"CLOSE"})
  BY <1>1 DEF Orderly, Phase, Opening, LessLines
<1>7. DialTypes' /\ NoStrays'
  BY <1>1, <1>3 DEF Orderly, DialTypes, NoStrays, LessLines, InClose, Busy
<1>8. Connection'
  BY <1>1, <1>3, <1>6 DEF Orderly, Connection, LessLines, NetUp, InClose
<1> QED
  BY <1>5, <1>7, <1>8 DEF Orderly

\* "OK" before the SMS: the phone number, then the delay, then the text.
LEMMA OrderlyPhoneNumber ==
  ASSUME Orderly, LessLines, OkPhoneNumber
  PROVE  Orderly'
<1> USE DEF Kinds, LateKinds
<1>1. /\ pc = "dispatch" /\ pc' = "smsDelay" /\ Value = "OK" /\ state = 3
      /\ Send("HCMGS") /\ UNCHANGED <<state, link, trans, reports, booting, GlobalEvent>>
  BY DEF OkPhoneNumber, Rest, Net
<1>2. cmds = <<>>
  BY <1>1, AnswerTaken DEF Orderly, Phase, Answer
<1>3. Phase'
  BY <1>1, <1>2, SendsOne DEF Phase
<1>4. DialTypes' /\ NoStrays' /\ Connection'
  BY <1>1 DEF Orderly, DialTypes, NoStrays, Connection, LessLines, NetUp, InClose, Busy
<1> QED
  BY <1>3, <1>4 DEF Orderly

LEMMA OrderlySendText ==
  ASSUME Orderly, SameLines, SendText
  PROVE  Orderly'
<1> USE DEF Kinds, LateKinds
<1>1. /\ pc = "smsDelay" /\ pc' = "take" /\ state = 3 /\ state' = 4
      /\ Send("SMS") /\ UNCHANGED <<link, trans, reports, booting, GlobalEvent>>
  BY DEF SendText, Rest, Net, Orderly, DialTypes
<1>2. cmds' \in {<<>>, <<"HCMGS">>, <<"SMS">>, <<"HCMGS", "SMS">>}
  <2>1. cmds = <<>> \/ cmds = <<"HCMGS">>
    BY <1>1 DEF Orderly, Phase
  <2>2. Append(<<>>, "SMS") = <<"SMS">>
    OBVIOUS
  <2>3. Append(<<"HCMGS">>, "SMS") = <<"HCMGS", "SMS">>
    BY AppendToOne
  <2> QED
    BY <1>1, <2>1, <2>2, <2>3, Zenon DEF Send
<1>3. reports = 0 /\ ~Some({"HCMGSS"})
  BY <1>1 DEF Orderly, NoStrays
<1>4. ~Some({"HCMGSS"})' /\ Single({"HCMGSS"})' /\ Before(Answer, {"HCMGSS"})'
  BY <1>3, LinesRelated DEF SameLines
<1>5. Texting'
  BY <1>1, <1>2, <1>3, <1>4 DEF Texting
<1>6. Phase'
  BY <1>1, <1>5 DEF Phase
<1>7. DialTypes' /\ NoStrays' /\ Connection'
  BY <1>1 DEF Orderly, DialTypes, NoStrays, Connection, SameLines, NetUp, InClose, Busy
<1> QED
  BY <1>6, <1>7 DEF Orderly

\* "^HCMGSS:" comes after the answer to the text: TCP_Dial finds nothing under way.
LEMMA OrderlySmsReported ==
  ASSUME Orderly, LessLines, SmsReported
  PROVE  Orderly'
<1> USE DEF Kinds, LateKinds
<1>1. /\ pc = "dispatch" /\ pc' = "dialDelay" /\ Value = "HCMGSS"
      /\ UNCHANGED <<state, cmds, link, trans, reports, booting, GlobalEvent>>
  BY DEF SmsReported, Rest, Quiet, Net
<1>2. Some({"HCMGSS"})
  BY <1>1 DEF LessLines
<1>3. state = 4 /\ Texting
  BY <1>2 DEF Orderly, NoStrays, Phase
<1>4. cmds = <<>> /\ reports = 0 /\ ~Some({"HCMGSS"})' /\ ~Some(Answer)'
  BY <1>1, <1>2, <1>3 DEF Texting, LessLines, Orderly, DialTypes
<1>5. Texting'
  BY <1>1, <1>3, <1>4 DEF Texting, LessLines
<1>6. Phase'
  BY <1>1, <1>3, <1>5 DEF Phase
<1>7. DialTypes' /\ NoStrays' /\ Connection'
  BY <1>1, <1>3 DEF Orderly, DialTypes, NoStrays, Connection, LessLines, NetUp, InClose, Busy
<1> QED
  BY <1>6, <1>7 DEF Orderly

LEMMA OrderlyTCP_Dial ==
  ASSUME Orderly, SameLines, TCP_Dial
  PROVE  Orderly'
<1> USE DEF Kinds, LateKinds
<1>1. /\ pc = "dialDelay" /\ pc' = "take" /\ state = 4 /\ state' = 6
      /\ Send("IPOPEN") /\ UNCHANGED <<link, trans, reports, booting, GlobalEvent>>
  BY DEF TCP_Dial, AtDialLabel, Rest, Net, Orderly, DialTypes
<1>2. cmds = <<>> /\ reports = 0 /\ ~Some({"HCMGSS"}) /\ ~Some(Answer)
  BY <1>1 DEF Orderly, Phase, Texting
<1>3. ~link /\ ~Some({"CLOSE"})
  BY <1>1 DEF Orderly, Connection
<1>4. ~Some(Answer)' /\ ~Some({"OK"})' /\ ~Some({"CLOSE"})'
  BY <1>2, <1>3, LinesRelated DEF SameLines
<1>5. Single(Answer)' /\ Before({"OK"}, {"CLOSE"})'
  BY <1>4 DEF Single, Before, Some
<1>6. Opening'
  BY <1>1, <1>2, <1>3, <1>4, <1>5, SendsOne DEF Opening, Awaiting
<1>7. Phase'
  BY <1>1, <1>6 DEF Phase
<1>8. DialTypes' /\ NoStrays' /\ Connection'
  BY <1>1, <1>2, <1>3 DEF Orderly, DialTypes, NoStrays, Connection, SameLines, NetUp, InClose, Busy
<1> QED
  BY <1>7, <1>8 DEF Orderly

\* "OK" of IPENTRANS, then the event.
LEMMA OrderlyNetUp ==
  ASSUME Orderly, \/ OkEnableNet /\ LessLines
                  \/ Announce /\ SameLines
  PROVE  Orderly'
<1> USE DEF Kinds, LateKinds
<1>1. CASE OkEnableNet /\ LessLines
  <2>1. /\ pc = "dispatch" /\ pc' = "announce" /\ Value = "OK" /\ state = 8
        /\ UNCHANGED <<state, cmds, link, trans, reports, booting, GlobalEvent>>
    BY <1>1 DEF OkEnableNet, Rest, Quiet
  <2>2. cmds = <<>> /\ ~Some(Answer)'
    BY <1>1, <2>1, AnswerTaken DEF Orderly, Phase, Answer
  <2>3. Phase'
    BY <2>1, <2>2 DEF Phase
  <2>4. DialTypes' /\ NoStrays' /\ Connection'
    BY <1>1, <2>1 DEF Orderly, DialTypes, NoStrays, Connection, LessLines, NetUp, InClose, Busy
  <2> QED
    BY <2>3, <2>4 DEF Orderly
<1>2. CASE Announce /\ SameLines
  <2>1. /\ pc = "announce" /\ pc' = "take" /\ state = 8 /\ state' = 9 /\ NetUp'
        /\ UNCHANGED <<cmds, link, trans, reports, booting>>
    BY <1>2 DEF Announce, Quiet, Orderly, DialTypes, NetUp
  <2>2. Phase'
    BY <1>2, <2>1 DEF Phase, Orderly, SameLines
  <2>3. DialTypes' /\ NoStrays' /\ Connection'
    BY <1>2, <2>1 DEF Orderly, DialTypes, NoStrays, Connection, SameLines, InClose, Busy
  <2> QED
    BY <2>2, <2>3 DEF Orderly
<1> QED
  BY <1>1, <1>2

\* "^MODE:2" after a start of the modem: registration begins with a clean slate.
LEMMA OrderlyModeCdma ==
  ASSUME Orderly, LessLines, ModeCdma
  PROVE  Orderly'
<1> USE DEF Kinds, LateKinds
<1>1. /\ pc = "dispatch" /\ pc' = "take" /\ Value = "MODE2" /\ state' = 1
      /\ Send("IPINIT") /\ UNCHANGED <<link, trans, reports, booting, GlobalEvent>>
  BY DEF ModeCdma, Rest, Net
<1>2. Some({"MODE2"})
  BY <1>1 DEF LessLines
<1>3. state = 0 /\ Restarting
  BY <1>2 DEF Orderly, NoStrays, Phase
<1>4. cmds = <<>> /\ ~booting /\ ~Some({"MODE2"})' /\ ~Some(Answer)'
  BY <1>1, <1>2, <1>3 DEF Restarting, LessLines
<1>5. Awaiting("IPINIT")'
  BY <1>1, <1>4, SendsOne DEF Awaiting, Single, Some
<1>6. Phase'
  BY <1>1, <1>5 DEF Phase
<1>7. DialTypes' /\ NoStrays' /\ Connection'
  BY <1>1, <1>3, <1>4 DEF Orderly, DialTypes, NoStrays, Connection, LessLines, NetUp, InClose, Busy
<1> QED
  BY <1>6, <1>7 DEF Orderly

\* "ERROR" of IPINIT: the same command again; of IPOPEN: RESET.
LEMMA OrderlyErrors ==
  ASSUME Orderly, LessLines, ErrorRetry \/ ErrorOpen
  PROVE  Orderly'
<1> USE DEF Kinds, LateKinds
<1>1. CASE ErrorRetry
  <2>1. /\ pc = "dispatch" /\ pc' = "take" /\ Value = "ERROR" /\ state = 1
        /\ Send("IPINIT") /\ UNCHANGED <<state, link, trans, reports, booting, GlobalEvent>>
    BY <1>1 DEF ErrorRetry, Rest, Net
  <2>2. cmds = <<>> /\ ~Some(Answer)'
    BY <2>1, AnswerTaken DEF Orderly, Phase, Answer
  <2>3. Awaiting("IPINIT")'
    BY <2>1, <2>2, SendsOne DEF Awaiting, Single, Some
  <2>4. Phase'
    BY <2>1, <2>3 DEF Phase
  <2>5. DialTypes' /\ NoStrays' /\ Connection'
    BY <2>1 DEF Orderly, DialTypes, NoStrays, Connection, LessLines, NetUp, InClose, Busy
  <2> QED
    BY <2>4, <2>5 DEF Orderly
<1>2. CASE ErrorOpen
  <2>1. /\ pc = "dispatch" /\ pc' = "take" /\ Value = "ERROR" /\ state = 6 /\ state' = 0
        /\ Send("RESET") /\ UNCHANGED <<link, trans, reports, booting, GlobalEvent>>
    BY <1>2 DEF ErrorOpen, Rest, Net
  <2>2. cmds = <<>> /\ ~Some(Answer)'
    BY <2>1, AnswerTaken DEF Orderly, Phase, Opening, Answer
  <2>3. Some({"OK"})' => Some(Answer)'
    BY DEF Some, Answer
  <2>4. ~link /\ ~Some({"CLOSE"})
    BY <2>1, <2>2, <2>3 DEF Orderly, Phase, Opening, LessLines
  <2>5. ~booting /\ ~Some({"MODE2"})'
    BY <2>1 DEF Orderly, NoStrays, LessLines
  <2>6. Single({"MODE2"})' /\ Before(Answer, {"MODE2"})'
    BY <2>5 DEF Single, Before, Some
  <2>7. Restarting'
    BY <2>1, <2>2, <2>5, <2>6, SendsOne DEF Restarting
  <2>8. Phase'
    BY <2>1, <2>7 DEF Phase
  <2>9. DialTypes' /\ NoStrays' /\ Connection'
    BY <2>1, <2>4 DEF Orderly, DialTypes, NoStrays, Connection, LessLines, NetUp, InClose, Busy
  <2> QED
    BY <2>8, <2>9 DEF Orderly
<1> QED
  BY <1>1, <1>2

\* "remote close" and what follows it.
LEMMA OrderlyClose ==
  ASSUME Orderly, \/ RemoteClosed /\ LessLines
                  \/ (TakeNetEvent \/ NetDown) /\ SameLines
  PROVE  Orderly'
<1> USE DEF Kinds, LateKinds
<1>1. CASE RemoteClosed /\ LessLines
  <2>1. /\ pc = "dispatch" /\ pc' = "waitNet" /\ Value = "CLOSE"
        /\ UNCHANGED <<state, cmds, link, trans, reports, booting, GlobalEvent, Value>>
    BY <1>1 DEF RemoteClosed, Rest, Quiet, Net
  <2>2. Some({"CLOSE"}) /\ ~Some({"CLOSE"})'
    BY <1>1, <2>1 DEF LessLines, Orderly, Connection
  <2>3. state \in {6, 7, 8, 9}
    BY <2>2 DEF Orderly, Connection, DialTypes
  <2>4. state # 6
    BY <1>1, <2>1, <2>2 DEF Orderly, Phase, Opening, LessLines
  <2>5. \A c : Awaiting(c) => Awaiting(c)'
    BY <1>1, <2>1 DEF LessLines, Awaiting, Answer
  <2>6. Phase'
    BY <1>1, <2>1, <2>3, <2>4, <2>5 DEF Phase, Orderly, LessLines
  <2>7. DialTypes' /\ NoStrays' /\ Connection'
    BY <1>1, <2>1, <2>2, <2>3, <2>4
    DEF Orderly, DialTypes, NoStrays, Connection, LessLines, NetUp, InClose, Busy
  <2> QED
    BY <2>6, <2>7 DEF Orderly
<1>2. CASE TakeNetEvent /\ SameLines
  <2>1. /\ pc = "waitNet" /\ pc' = "netDown" /\ NetUp /\ ~NetUp' /\ Value' = Value
        /\ UNCHANGED <<state, cmds, link, trans, reports, booting>>
    BY <1>2 DEF TakeNetEvent, Rest, Quiet, NetUp
  <2>2. state = 9
    BY <2>1 DEF Orderly, Connection
  <2>3. Phase'
    BY <1>2, <2>1, <2>2 DEF Phase, Orderly, SameLines
  <2>4. DialTypes' /\ NoStrays' /\ Connection'
    BY <1>2, <2>1, <2>2 DEF Orderly, DialTypes, NoStrays, Connection, SameLines, InClose, Busy
  <2> QED
    BY <2>3, <2>4 DEF Orderly
<1>3. CASE NetDown /\ SameLines
  <2>1. /\ pc = "netDown" /\ pc' = "take" /\ state = 9 /\ state' = 0 /\ NetUp' = NetUp
        /\ Send("RESET") /\ UNCHANGED <<link, trans, reports, booting>>
    BY <1>3 DEF NetDown, Rest, NetUp, Orderly, DialTypes
  <2>2. cmds = <<>> /\ ~Some(Answer) /\ ~booting /\ ~Some({"MODE2"}) /\ ~Some({"CLOSE"}) /\ ~link
    BY <2>1 DEF Orderly, Phase, NoStrays, Connection, InClose
  <2>3. ~Some({"MODE2"})' /\ Single({"MODE2"})' /\ Before(Answer, {"MODE2"})'
    BY <1>3, <2>2, LinesRelated DEF SameLines
  <2>4. Restarting'
    BY <2>1, <2>2, <2>3, SendsOne DEF Restarting
  <2>5. Phase'
    BY <2>1, <2>4 DEF Phase
  <2>6. DialTypes' /\ NoStrays' /\ Connection'
    BY <1>3, <2>1, <2>2 DEF Orderly, DialTypes, NoStrays, Connection, SameLines, InClose, Busy
  <2> QED
    BY <2>5, <2>6 DEF Orderly
<1> QED
  BY <1>1, <1>2, <1>3

\* Which commands can be at the modem in which state.
LEMMA CmdsOfState ==
  ASSUME Orderly, cmds # <<>>
  PROVE  /\ state = 0 => cmds = <<"RESET">>
         /\ state = 1 => cmds = <<"IPINIT">> /\ ~Some(Answer)
         /\ state = 2 => cmds = <<"IPINIT?">> /\ ~Some(Answer)
         /\ state = 3 => IF pc = "smsDelay" THEN cmds = <<"HCMGS">>
                         ELSE cmds = <<"HSMSSS">> /\ ~Some(Answer)
         /\ state = 4 => cmds \in {<<"HCMGS">>, <<"SMS">>, <<"HCMGS", "SMS">>}
         /\ state = 6 => cmds = <<"IPOPEN">> /\ ~Some(Answer)
         /\ state = 7 => cmds = <<"IPDATMODE">> /\ ~Some(Answer)
         /\ state = 8 => pc # "announce" /\ cmds = <<"IPENTRANS">> /\ ~Some(Answer)
         /\ state # 9
BY DEF Orderly, Phase, Restarting, Texting, Opening, Awaiting

\* The modem's answers.
LEMMA OrderlySwallow ==
  ASSUME Orderly, SameLines, Swallow
  PROVE  Orderly'
<1> USE DEF Kinds, LateKinds
<1>1. /\ cmds # <<>> /\ link /\ cmds' = Tail(cmds)
      /\ UNCHANGED <<state, pc, Value, link, trans, reports, booting, GlobalEvent>>
  BY DEF Swallow, dialVars, ringVars, Orderly, Connection
<1>2. state \in {7, 8} /\ \E c : Awaiting(c)
  <2>1. state # 6
    BY <1>1, CmdsOfState, LinesRelated DEF Orderly, Phase, Opening
  <2>2. state \in {7, 8}
    BY <1>1, <2>1, CmdsOfState DEF Orderly, Connection, DialTypes
  <2> QED
    BY <1>1, <2>2, CmdsOfState DEF Awaiting
<1>3. PICK c : cmds = <<c>> /\ ~Some(Answer)
  BY <1>1, <1>2 DEF Awaiting
<1>4. cmds' = <<>> /\ Single(Answer)'
  BY <1>1, <1>3, LinesRelated DEF SameLines
<1>5. Phase'
  BY <1>1, <1>2, <1>3, <1>4 DEF Orderly, Phase, Awaiting
<1>6. DialTypes' /\ NoStrays' /\ Connection'
  BY <1>1 DEF Orderly, DialTypes, NoStrays, Connection, SameLines, NetUp, InClose, Busy
<1> QED
  BY <1>5, <1>6 DEF Orderly

LEMMA OrderlyAnswerError ==
  ASSUME Orderly, MoreLines("ERROR"), cmds # <<>>, ~booting, cmds' = Tail(cmds),
         UNCHANGED <<state, pc, Value, link, trans, reports, booting, GlobalEvent>>
  PROVE  Orderly'
<1> USE DEF Kinds, LateKinds
<1>1. \A c : cmds = <<c>> => cmds' = <<>>
  OBVIOUS
<1>2. cmds = <<"HCMGS", "SMS">> => cmds' = <<"SMS">>
  OBVIOUS
<1>3. ASSUME NEW c, cmds = <<c>>, ~Some(Answer) PROVE cmds' = <<>> /\ Single(Answer)'
  BY <1>1, <1>3, LinesRelated DEF MoreLines, Answer
<1>4. state = 0 => Restarting'
  BY <1>1, CmdsOfState DEF Orderly, Phase, Restarting, MoreLines, Answer
<1>5. state = 4 => Texting'
  BY <1>1, <1>2, CmdsOfState DEF Orderly, Phase, Texting, MoreLines, Answer
<1>6. state = 6 => Opening'
  BY <1>3, CmdsOfState DEF Orderly, Phase, Opening, Awaiting, MoreLines, Answer
<1>7. Phase'
  BY <1>1, <1>3, <1>4, <1>5, <1>6, CmdsOfState DEF Phase, Awaiting
<1>8. DialTypes' /\ NoStrays' /\ Connection'
  BY DEF Orderly, DialTypes, NoStrays, Connection, MoreLines, NetUp, InClose, Busy, Answer
<1> QED
  BY <1>7, <1>8 DEF Orderly

LEMMA OrderlyAnswerOk ==
  ASSUME Orderly, LinesKnown, AnswerOk, MoreLines(IF Head(cmds) = "HCMGS" THEN "OTHER" ELSE "OK")
  PROVE  Orderly'
<1> USE DEF Kinds, LateKinds
<1> DEFINE c == Head(cmds)
<1>1. /\ cmds # <<>> /\ ~booting /\ ~trans
      /\ UNCHANGED <<state, pc, Value, GlobalEvent>>
      /\ cmds' = IF c = "RESET" THEN <<>> ELSE Tail(cmds)
      /\ link' = CASE c = "IPOPEN" -> TRUE [] c = "RESET" -> FALSE [] OTHER -> link
      /\ trans' = (c = "IPENTRANS" /\ link)
      /\ reports' = CASE c = "SMS" -> reports + 1 [] c = "RESET" -> 0 [] OTHER -> reports
      /\ booting' = (c = "RESET")
  BY DEF AnswerOk, dialVars, PutLine
<1>2. \A d : cmds = <<d>> => c = d /\ cmds' = <<>>
  BY <1>1
<1>3. cmds = <<"HCMGS", "SMS">> => c = "HCMGS" /\ cmds' = <<"SMS">>
  BY <1>1
<1>4. DialTypes /\ state \in {0, 1, 2, 3, 4, 6, 7, 8, 9}
  BY DEF Orderly, DialTypes
<1>5. /\ c = "RESET" <=> state = 0
      /\ c = "IPOPEN" <=> state = 6
      /\ c = "IPENTRANS" => state = 8
      /\ c = "SMS" => state = 4
      /\ c = "HCMGS" => state \in {3, 4}
      /\ state = 4 => c \in {"SMS", "HCMGS"}
      /\ c = "SMS" => cmds = <<"SMS">>
  BY <1>1, <1>2, <1>3, <1>4, CmdsOfState
<1>6. \/ c = "HCMGS" /\ MoreLines("OTHER")
      \/ c # "HCMGS" /\ MoreLines("OK")
  OBVIOUS
<1> HIDE DEF c
<1>7. ASSUME NEW d, d # "HCMGS", cmds = <<d>>, ~Some(Answer)
      PROVE  cmds' = <<>> /\ Single(Answer)' /\ MoreLines("OK")
  BY <1>2, <1>6, <1>7, LinesRelated DEF MoreLines, Answer
<1>8. state = 0 => Restarting'
  BY <1>1, <1>2, <1>5, <1>6, CmdsOfState DEF Orderly, Phase, Restarting, MoreLines, Answer
<1>9. state = 4 => Texting'
  <2> SUFFICES ASSUME state = 4 PROVE Texting'
    OBVIOUS
  <2>1. /\ reports = 0 /\ reports' = (IF c = "SMS" THEN 1 ELSE 0)
        /\ ~Some({"HCMGSS"}) /\ pc # "dialDelay"
    BY <1>1, <1>5, <1>4 DEF Orderly, Phase, Texting, DialTypes
  <2>2. cmds' \in {<<>>, <<"SMS">>} /\ (reports' = 1 => cmds' = <<>>)
    BY <1>1, <1>2, <1>3, <1>5, <2>1, CmdsOfState
  <2>3. ~Some({"HCMGSS"})' /\ Single({"HCMGSS"})' /\ Before(Answer, {"HCMGSS"})'
    BY <1>6, <2>1, LinesRelated DEF MoreLines, Answer
  <2> QED
    BY <1>1, <2>1, <2>2, <2>3 DEF Texting
<1>10. state = 6 => Opening'
  <2> SUFFICES ASSUME state = 6 PROVE Opening'
    OBVIOUS
  <2>1. cmds' = <<>> /\ Single(Answer)' /\ MoreLines("OK") /\ link'
    BY <1>1, <1>5, <1>7, CmdsOfState
  <2>2. ~Some({"OK"}) /\ ~Some({"CLOSE"})
    BY <1>1, CmdsOfState, LinesRelated DEF Orderly, Phase, Opening
  <2>3. Some({"OK"})' /\ ~Some({"CLOSE"})' /\ Before({"OK"}, {"CLOSE"})'
    BY <2>1, <2>2, LinesRelated DEF MoreLines, Answer
  <2> QED
    BY <2>1, <2>3 DEF Opening, Awaiting
<1>11. Phase'
  BY <1>1, <1>2, <1>4, <1>7, <1>8, <1>9, <1>10, CmdsOfState DEF Phase, Awaiting
<1>12. DialTypes'
  <2>1. reports' \in {0, 1}
    BY <1>1, <1>4, <1>5 DEF Orderly, DialTypes, Phase, Texting
  <2>2. link' \in BOOLEAN /\ trans' \in BOOLEAN /\ booting' \in BOOLEAN
    BY <1>1, <1>4 DEF DialTypes
  <2> QED
    BY <1>1, <1>4, <2>1, <2>2 DEF DialTypes, InClose
<1>13. NoStrays'
  BY <1>1, <1>5, <1>6 DEF Orderly, NoStrays, MoreLines, Answer
<1>14. Connection'
  <2>1. state = 6 => ~Some({"CLOSE"}) /\ ~InClose
    BY <1>1, <1>4, CmdsOfState, LinesRelated DEF Orderly, Phase, Opening, DialTypes, InClose
  <2>2. /\ Some({"CLOSE"})' <=> Some({"CLOSE"})
        /\ Single({"CLOSE"}) => Single({"CLOSE"})'
        /\ InClose' <=> InClose
        /\ NetUp' <=> NetUp
    BY <1>1, <1>6 DEF MoreLines, InClose, NetUp
  <2>3. link' => link \/ state = 6
    BY <1>1, <1>5
  <2>4. (link => link') \/ state = 0
    BY <1>1, <1>5
  <2>5. trans' => link'
    BY <1>1, <1>5
  <2> QED
    BY <1>1, <2>1, <2>2, <2>3, <2>4, <2>5 DEF Orderly, Connection
<1> QED
  BY <1>11, <1>12, <1>13, <1>14 DEF Orderly

\* Reports that were to come, a connection that is lost, and noise.
LEMMA OrderlyReport ==
  ASSUME Orderly, \/ ReportSms /\ MoreLines("HCMGSS")
                  \/ Boot /\ MoreLines("MODE2")
  PROVE  Orderly'
<1> USE DEF Kinds, LateKinds
<1>1. CASE ReportSms /\ MoreLines("HCMGSS")
  <2>1. /\ UNCHANGED <<state, pc, Value, GlobalEvent, cmds, link, trans, booting>>
        /\ reports = 1 /\ reports' = 0
    BY <1>1 DEF ReportSms, dialVars, PutLine, Orderly, DialTypes
  <2>2. state = 4 /\ Texting
    BY <2>1 DEF Orderly, NoStrays, Phase
  <2>3. Texting'
    BY <1>1, <2>1, <2>2 DEF Texting, MoreLines, Answer
  <2>4. Phase'
    BY <2>1, <2>2, <2>3 DEF Phase
  <2>5. DialTypes' /\ NoStrays'
    BY <1>1, <2>1, <2>2 DEF Orderly, DialTypes, NoStrays, MoreLines, InClose, Busy
  <2>6. Connection'
    BY <1>1, <2>1 DEF Orderly, Connection, MoreLines, NetUp, InClose
  <2> QED
    BY <2>4, <2>5, <2>6 DEF Orderly
<1>2. CASE Boot /\ MoreLines("MODE2")
  <2>1. UNCHANGED <<state, pc, Value, GlobalEvent, cmds, link, trans, reports>>
    BY <1>2 DEF Boot, dialVars, PutLine
  <2>2. booting /\ ~booting' /\ booting' \in BOOLEAN
    BY <1>2 DEF Boot
  <2>3. state = 0 /\ Restarting
    BY <2>2 DEF Orderly, NoStrays, Phase
  <2>4. Restarting'
    BY <1>2, <2>1, <2>2, <2>3 DEF Restarting, MoreLines, Answer
  <2>5. Phase'
    BY <2>1, <2>3, <2>4 DEF Phase
  <2>6. DialTypes' /\ NoStrays'
    BY <1>2, <2>1, <2>2, <2>3 DEF Orderly, DialTypes, NoStrays, MoreLines, InClose, Busy
  <2>7. Connection'
    BY <1>2, <2>1 DEF Orderly, Connection, MoreLines, NetUp, InClose
  <2> QED
    BY <2>5, <2>6, <2>7 DEF Orderly
<1> QED
  BY <1>1, <1>2

LEMMA OrderlyServerClose ==
  ASSUME Orderly, MoreLines("CLOSE"), ServerClose
  PROVE  Orderly'
<1> USE DEF Kinds, LateKinds
<1>1. UNCHANGED <<state, pc, Value, GlobalEvent, cmds, reports, booting>>
  BY DEF ServerClose, dialVars, PutLine
<1>2. link /\ ~link' /\ ~trans' /\ link' \in BOOLEAN /\ trans' \in BOOLEAN
  BY DEF ServerClose
<1>3. state \in {6, 7, 8, 9} /\ ~InClose /\ ~Some({"CLOSE"})
  BY <1>2 DEF Orderly, Connection, DialTypes
<1>4. \A c : Awaiting(c) => Awaiting(c)'
  BY <1>1 DEF Awaiting, MoreLines, Answer
<1>5. Opening => Opening'
  BY <1>1, <1>2, <1>3, <1>4 DEF Opening, MoreLines
<1>6. Phase'
  BY <1>1, <1>3, <1>4, <1>5 DEF Orderly, Phase, MoreLines, Answer
<1>7. DialTypes' /\ NoStrays'
  BY <1>1, <1>2 DEF Orderly, DialTypes, NoStrays, MoreLines, InClose, Busy
<1>8. Connection'
  BY <1>1, <1>2, <1>3 DEF Orderly, Connection, MoreLines, NetUp, InClose
<1> QED
  BY <1>6, <1>7, <1>8 DEF Orderly

LEMMA OrderlyOtherReport ==
  ASSUME Orderly, MoreLines("OTHER"), OtherReport
  PROVE  Orderly'
<1>1. SameLines
  BY DEF MoreLines, SameLines, Kinds, LateKinds, Answer
<1> QED
  BY <1>1, OrderlySameLines DEF OtherReport, PutLine, dialVars, modemVars, NetUp

\* The dialogue starts in order.
LEMMA InitDialInv == Init => DialInv
<1> SUFFICES ASSUME Init PROVE DialInv
  OBVIOUS
<1>1. /\ pc = "take" /\ unread = <<>> /\ state = 0 /\ cmds = <<>> /\ reports = 0 /\ modes = 0
      /\ GlobalEvent = {}
  BY DEF Init, RingInit
<1>2. booting /\ ~link /\ ~trans /\ booting \in BOOLEAN /\ link \in BOOLEAN /\ trans \in BOOLEAN
  BY DEF Init
<1>3. Pos = {}
  BY <1>1 DEF Pos
<1>4. \A S : ~Some(S)
  BY <1>3 DEF Some
<1>5. Single({"MODE2"}) /\ Single({"CLOSE"}) /\ Before(Answer, {"MODE2"})
  BY <1>4, LinesRelated DEF Kinds, LateKinds
<1>6. Phase
  BY <1>1, <1>4, <1>5 DEF Phase, Restarting
<1>7. DialTypes /\ NoStrays /\ Connection
  BY <1>1, <1>2, <1>4, <1>5 DEF DialTypes, NoStrays, Connection, InClose, NetUp
<1> QED
  BY <1>1, <1>6, <1>7 DEF DialInv, Orderly

\* The four ways in which a step changes the lines.
LEMMA SameLinesKept ==
  ASSUME unread' = unread, pc' = "dispatch" <=> pc = "dispatch", pc = "dispatch" => Value' = Value
  PROVE  SameLines
BY LinesKept DEF SameLines

LEMMA SameLinesCleared ==
  ASSUME LinesKnown, Clear, ~overrun
  PROVE  SameLines
BY LinesCleared DEF SameLines

LEMMA MoreLinesPut ==
  ASSUME NEW l \in Line, LinesKnown, PutLine(l), ~overrun'
  PROVE  MoreLines(l)
BY LinesPut DEF MoreLines

LEMMA LessLinesDone ==
  ASSUME LinesKnown, pc = "dispatch", pc' # "dispatch", unread' = unread
  PROVE  LessLines
BY LinesDone DEF LessLines

\* An orderly dialogue stays orderly until ^MODE:2 comes unasked or the ring
\* overruns.
LEMMA NextOrderly ==
  ASSUME Orderly, LinesKnown, [Next]_vars, modes = 0, modes' = 0, ~overrun, ~overrun'
  PROVE  Orderly'
<1>1. CASE AwaitLine
  <2>0. UNCHANGED <<state, cmds, link, trans, reports, booting, GlobalEvent>>
    BY <1>1 DEF AwaitLine, dialVars, modemVars
  <2>1. CASE Clear
    <3>1. SameLines
      BY <2>1, SameLinesCleared
    <3> QED
      BY <2>0, <2>1, <3>1, OrderlySameLines DEF Clear, Busy, NetUp
  <2>2. CASE SemTake \/ NotReady \/ BeginDecode \/ EndDecode
    <3>1. /\ unread' = unread /\ pc \notin Busy \cup {"dispatch"}
          /\ pc' \in {"take", "check", "decode", "clear"}
      BY <2>2 DEF SemTake, NotReady, BeginDecode, EndDecode, Busy
    <3>2. SameLines
      BY <3>1, SameLinesKept
    <3> QED
      BY <2>0, <3>1, <3>2, OrderlySameLines DEF NetUp
  <2> QED
    BY <1>1, <2>1, <2>2 DEF AwaitLine, TakeLine
<1>2. CASE \/ OkNextCmd \/ OkPhoneNumber \/ OkIgnored \/ SmsReported \/ OkEnableNet
           \/ ModeCdma \/ ErrorRetry \/ ErrorOpen \/ Ignored \/ RemoteClosed
  <2>1. pc = "dispatch" /\ pc' # "dispatch" /\ unread' = unread
    BY <1>2 DEF OkNextCmd, OkPhoneNumber, OkIgnored, SmsReported, OkEnableNet, ModeCdma,
                ErrorRetry, ErrorOpen, Ignored, RemoteClosed, Rest
  <2>2. LessLines
    BY <2>1, LessLinesDone
  <2> QED
    BY <1>2, <2>2, OrderlyNextCmd, OrderlyPhoneNumber, OrderlyIgnores, OrderlySmsReported,
       OrderlyNetUp, OrderlyModeCdma, OrderlyErrors, OrderlyClose
<1>3. CASE SendText \/ TCP_Dial \/ Announce \/ TakeNetEvent \/ NetDown
  <2>1. pc # "dispatch" /\ pc' # "dispatch" /\ unread' = unread
    BY <1>3 DEF SendText, TCP_Dial, AtDialLabel, Announce, TakeNetEvent, NetDown, Rest,
                Orderly, DialTypes
  <2>2. SameLines
    BY <2>1, SameLinesKept
  <2> QED
    BY <1>3, <2>2, OrderlySendText, OrderlyTCP_Dial, OrderlyNetUp, OrderlyClose
<1>4. CASE RegisterStart \/ RegisterPublish \/ UNCHANGED vars
  <2>1. /\ UNCHANGED <<unread, pc, Value, state, cmds, link, trans, reports, booting>>
        /\ NetUp' <=> NetUp
    BY <1>4 DEF RegisterStart, RegisterPublish, vars, ringVars, modemVars, Net, NetUp
  <2>2. SameLines
    BY <2>1, SameLinesKept
  <2> QED
    BY <2>1, <2>2, OrderlySameLines
<1>5. CASE Swallow
  <2>1. SameLines
    BY <1>5, SameLinesKept DEF Swallow, ringVars
  <2> QED
    BY <1>5, <2>1, OrderlySwallow
<1>6. CASE AnswerError
  <2>1. MoreLines("ERROR")
    BY <1>6, MoreLinesPut, LineAssumption DEF AnswerError
  <2> QED
    BY <1>6, <2>1, OrderlyAnswerError DEF AnswerError, dialVars, PutLine
<1>7. CASE AnswerOk
  <2> DEFINE l == IF Head(cmds) = "HCMGS" THEN "OTHER" ELSE "OK"
  <2>1. PutLine(l) /\ l \in Line
    BY <1>7, LineAssumption DEF AnswerOk
  <2>2. MoreLines(l)
    <3> HIDE DEF l
    <3> QED
      BY <2>1, MoreLinesPut
  <2> QED
    BY <1>7, <2>2, OrderlyAnswerOk
<1>8. CASE ReportSms \/ Boot
  <2>1. ReportSms => MoreLines("HCMGSS")
    BY MoreLinesPut, LineAssumption DEF ReportSms
  <2>2. Boot => MoreLines("MODE2")
    BY MoreLinesPut, LineAssumption DEF Boot
  <2> QED
    BY <1>8, <2>1, <2>2, OrderlyReport
<1>9. CASE ServerClose \/ OtherReport
  <2>1. ServerClose => MoreLines("CLOSE")
    BY MoreLinesPut, LineAssumption DEF ServerClose
  <2>2. OtherReport => MoreLines("OTHER")
    BY MoreLinesPut, LineAssumption DEF OtherReport
  <2> QED
    BY <1>9, <2>1, <2>2, OrderlyServerClose, OrderlyOtherReport
<1>10. ~ModeChange
  BY DEF ModeChange
<1> QED
  BY <1>1, <1>2, <1>3, <1>4, <1>5, <1>6, <1>7, <1>8, <1>9, <1>10 DEF Next, Dialogue, Modem

\* The invariant holds.
LEMMA DialInvHolds == Spec => []DialInv
<1>1. LinesKnown /\ DialInv /\ [Next]_vars => DialInv'
  <2> SUFFICES ASSUME LinesKnown, DialInv, [Next]_vars PROVE DialInv'
    OBVIOUS
  <2>1. modes' \in Nat /\ (modes' = 0 => modes = 0)
    <3>1. CASE AwaitLine \/ RegisterStart \/ RegisterPublish
      BY <3>1 DEF DialInv, AwaitLine, RegisterStart, RegisterPublish, counters
    <3>2. CASE Dialogue
      BY <3>2 DEF DialInv, Dialogue, OkNextCmd, OkPhoneNumber, SendText, OkIgnored, SmsReported,
                  TCP_Dial, OkEnableNet, Announce, ModeCdma, ErrorRetry, ErrorOpen, Ignored,
                  RemoteClosed, TakeNetEvent, NetDown, Rest
    <3>3. CASE Modem \/ ServerClose \/ OtherReport
      <4>1. modes' = modes
        BY <3>3 DEF Modem, Swallow, AnswerError, AnswerOk, ReportSms, Boot, ServerClose,
                    OtherReport, counters
      <4> QED
        BY <4>1 DEF DialInv
    <3>5. CASE ModeChange
      BY <3>5 DEF ModeChange, DialInv
    <3>4. CASE UNCHANGED vars
      BY <3>4 DEF DialInv, vars
    <3> QED
      BY <3>1, <3>2, <3>3, <3>4, <3>5 DEF Next
  <2>2. ~overrun' => ~overrun
    <3>1. CASE AwaitLine
      BY <3>1 DEF AwaitLine, TakeLine, SemTake, NotReady, BeginDecode, EndDecode, Clear
    <3>2. CASE Dialogue
      BY <3>2, DialogueLeavesRing
    <3>3. CASE Modem \/ ModeChange \/ ServerClose \/ OtherReport
      <4>1. CASE UNCHANGED ringVars
        BY <4>1 DEF ringVars
      <4>2. CASE \E l \in Line : PutLine(l)
        BY <4>2 DEF PutLine
      <4> QED
        BY <3>3, <4>1, <4>2, ModemPutsLines
    <3>4. CASE RegisterStart \/ RegisterPublish \/ UNCHANGED vars
      BY <3>4 DEF RegisterStart, RegisterPublish, vars, ringVars
    <3> QED
      BY <3>1, <3>2, <3>3, <3>4 DEF Next
  <2> QED
    BY <2>1, <2>2, NextOrderly DEF DialInv
<1> QED
  BY <1>1, InitDialInv, RingKnown, RingGivesLines, PTL DEF Spec

\* As long as ^MODE:2 comes only after a start of the modem, AT_thread_entry
\* waits, from TCP_Dial on, for the answer to the command it sent last: no late
\* answer to an earlier command is taken for it.
THEOREM OneAnswerAwaitedHolds == Spec => []OneAnswerAwaited
<1>1. DialInv /\ LinesKnown => OneAnswerAwaited
  <2> SUFFICES ASSUME DialInv, LinesKnown, state \in {6, 7, 8}, pc = "take", ~overrun, modes = 0
               PROVE  \/ Answers = {} /\ Len(cmds) <= 1
                      \/ cmds = <<>> /\ \E i \in Answers : Answers = {i}
    BY DEF OneAnswerAwaited
  <2>1. \E c : Awaiting(c)
    BY DEF DialInv, Orderly, Phase, Opening
  <2>2. Answers = {i \in Pos : LineAt(i) \in Answer}
    BY DEF Answers, Pos, LineAt, Answer
  <2>3. CASE \E c : cmds = <<c>> /\ ~Some(Answer)
    BY <2>2, <2>3 DEF Some
  <2>4. CASE cmds = <<>> /\ Single(Answer)
    <3>1. Len(cmds) <= 1
      BY <2>4
    <3>2. \A i, j \in Answers : i = j
      BY <2>2, <2>4 DEF Single
    <3> QED
      BY <2>4, <3>1, <3>2
  <2> QED
    BY <2>1, <2>3, <2>4 DEF Awaiting
<1> QED
  BY <1>1, DialInvHolds, RingKnown, RingGivesLines, PTL

\* As long as ^MODE:2 comes only after a start of the modem, NET_CONNET in
\* GlobalEvent means a connection, or a "remote close" still to be dealt with:
\* whatever errors, lost commands and early closings happen on the way.
THEOREM OrderlyNetReadyMeansLinkedHolds == Spec => []OrderlyNetReadyMeansLinked
<1>1. DialInv /\ LinesKnown => OrderlyNetReadyMeansLinked
  <2> SUFFICES ASSUME DialInv, LinesKnown, modes = 0, NetUp, ~link, ~overrun
               PROVE  ClosePending
    BY DEF OrderlyNetReadyMeansLinked, NetReadyMeansLinked, NetUp
  <2>1. Some({"CLOSE"}) \/ InClose
    BY DEF DialInv, Orderly, Connection
  <2>2. CASE Some({"CLOSE"})
    BY <2>2 DEF Some, Pos, LineAt, ClosePending, LinesKnown
  <2>3. CASE InClose
    BY <2>3 DEF InClose, ClosePending, DialInv, Orderly, DialTypes
  <2> QED
    BY <2>1, <2>2, <2>3
<1> QED
  BY <1>1, DialInvHolds, RingKnown, RingGivesLines, PTL
=============================================================================
