------------------------------- MODULE AtRing -------------------------------
(***************************************************************************)
(* The ring of received modem lines of src/MySouce/ATcmd/AT_APP.c: the end *)
(* of MC323A_RX, which runs in the USART1 interrupt, puts a line in; the   *)
(* head of the loop of AT_thread_entry takes one out.  The two sides share *)
(* the Ready flags and the semaphore ATsem; MC323A_RX never looks at Ready *)
(* before it writes, so a backlog of more than NodeNum lines overruns.     *)
(*                                                                         *)
(* The interrupt may strike between any two steps of the thread.           *)
(***************************************************************************)
EXTENDS Naturals, Sequences

CONSTANTS NodeNum,    \* ATcmdBuf_init(5)
          Line,       \* what a line can be, as DecodeCommand tells them apart
          NoCommand   \* DecodeCommand's 0xff

ASSUME NodeNumAssumption == NodeNum \in Nat \ {0}
ASSUME NoCommandAssumption == NoCommand \notin Line

VARIABLES
  Str, Ready,      \* the nodes
  pWrite, pRead,
  ATsem,
  pc,              \* where AT_thread_entry is
  seen,            \* Str of the node when DecodeCommand began to read it
  Value,           \* what DecodeCommand returned
  unread,          \* history: lines put in and not taken out, until an overrun
  overrun          \* history: MC323A_RX has written over an unread line

nodes    == <<Str, Ready, pWrite, pRead, ATsem>>
ringVars == <<Str, Ready, pWrite, pRead, ATsem, pc, seen, Value, unread, overrun>>

Nodes == 0 .. NodeNum - 1

\* pWrite->next, pRead->next
next(i) == IF i + 1 = NodeNum THEN 0 ELSE i + 1

ATcmdBuf_init ==
  /\ Str = [i \in Nodes |-> NoCommand] /\ Ready = [i \in Nodes |-> FALSE]
  /\ pWrite = 0 /\ pRead = 0

RingInit ==
  /\ ATcmdBuf_init
  /\ ATsem = 0 /\ pc = "take" /\ seen = NoCommand /\ Value = NoCommand
  /\ unread = <<>> /\ overrun = FALSE

PutLineLosesWakeup(l) ==
  /\ Str' = [Str EXCEPT ![pWrite] = l]
  /\ Ready' = [Ready EXCEPT ![pWrite] = TRUE]
  /\ pWrite' = next(pWrite)
  /\ ATsem' = IF ATsem = 0 THEN 1 ELSE ATsem
  /\ overrun' = (overrun \/ Ready[pWrite])
  /\ unread' = IF overrun' THEN <<>> ELSE Append(unread, l)
  /\ UNCHANGED <<pRead, pc, seen, Value>>

\* MC323A_RX has a complete line l in Buf.
PutLine(l) ==
  /\ Str' = [Str EXCEPT ![pWrite] = l]
  /\ Ready' = [Ready EXCEPT ![pWrite] = TRUE]
  /\ pWrite' = next(pWrite)
  /\ ATsem' = ATsem + 1
  /\ overrun' = (overrun \/ Ready[pWrite])
  /\ unread' = IF overrun' THEN <<>> ELSE Append(unread, l)
  /\ UNCHANGED <<pRead, pc, seen, Value>>

SemTake ==
  /\ pc = "take" /\ ATsem > 0
  /\ ATsem' = ATsem - 1
  /\ pc' = "check"
  /\ UNCHANGED <<Str, Ready, pWrite, pRead, seen, Value, unread, overrun>>

\* if(pRead->Ready==0) continue;
NotReady ==
  /\ pc = "check" /\ ~Ready[pRead]
  /\ pc' = "take"
  /\ UNCHANGED <<nodes, seen, Value, unread, overrun>>

BeginDecode ==
  /\ pc = "check" /\ Ready[pRead]
  /\ seen' = Str[pRead]
  /\ pc' = "decode"
  /\ UNCHANGED <<nodes, Value, unread, overrun>>

\* DecodeCommand compares the node with 24 strings, character by character; a
\* line written into the node meanwhile makes it match the old line, the new
\* one, or nothing.
EndDecode ==
  /\ pc = "decode"
  /\ Value' \in IF Str[pRead] = seen THEN {seen} ELSE {seen, Str[pRead], NoCommand}
  /\ pc' = "clear"
  /\ UNCHANGED <<nodes, seen, unread, overrun>>

ClearForgetsReady ==
  /\ pc = "clear"
  /\ pRead' = next(pRead)
  /\ pc' = "dispatch"
  /\ unread' = IF overrun THEN <<>> ELSE Tail(unread)
  /\ UNCHANGED <<Str, Ready, pWrite, ATsem, seen, Value, overrun>>

ClearStaysOnNode ==
  /\ pc = "clear"
  /\ Ready' = [Ready EXCEPT ![pRead] = FALSE]
  /\ pc' = "dispatch"
  /\ unread' = IF overrun THEN <<>> ELSE Tail(unread)
  /\ UNCHANGED <<Str, pWrite, pRead, ATsem, seen, Value, overrun>>

\* pRead->Ready=0; pRead=pRead->next;
Clear ==
  /\ pc = "clear"
  /\ Ready' = [Ready EXCEPT ![pRead] = FALSE]
  /\ pRead' = next(pRead)
  /\ pc' = "dispatch"
  /\ unread' = IF overrun THEN <<>> ELSE Tail(unread)
  /\ UNCHANGED <<Str, pWrite, ATsem, seen, Value, overrun>>

TakeLine == SemTake \/ NotReady \/ BeginDecode \/ EndDecode \/ Clear

\* The switch of AT_thread_entry, seen from the ring: back to the semaphore.
Dispatch ==
  /\ pc = "dispatch"
  /\ pc' = "take"
  /\ UNCHANGED <<nodes, seen, Value, unread, overrun>>

RingNext ==
  \/ \E l \in Line : PutLine(l)
  \/ SemTake \/ NotReady \/ BeginDecode \/ EndDecode \/ Clear
  \/ Dispatch

RingSpec == RingInit /\ [][RingNext]_ringVars
-----------------------------------------------------------------------------
(* Properties                                                              *)

\* Type correctness: pWrite and pRead stay on nodes of the ring.
RingTypeOK ==
  /\ Str \in [Nodes -> Line \cup {NoCommand}] /\ Ready \in [Nodes -> BOOLEAN]
  /\ pWrite \in Nodes /\ pRead \in Nodes /\ ATsem \in Nat
  /\ pc \in {"take", "check", "decode", "clear", "dispatch"}
  /\ seen \in Line \cup {NoCommand} /\ Value \in Line \cup {NoCommand}
  /\ unread \in Seq(Line) /\ overrun \in BOOLEAN

\* The node k places after pRead.
NodeAt(k) == IF pRead + k >= NodeNum THEN pRead + k - NodeNum ELSE pRead + k

\* The token the thread has taken for the node it is looking at.
Taken == IF pc \in {"check", "decode", "clear"} THEN 1 ELSE 0

\* As long as the thread has never fallen NodeNum lines behind, the Ready nodes
\* from pRead on are exactly the unhandled lines in the order of arrival, no
\* other node is Ready, and the semaphore counts them: no line is skipped by
\* the "Ready==0" test and none waits without a token.
RingHoldsUnread ==
  ~overrun =>
    /\ Len(unread) <= NodeNum
    /\ \A k \in 0 .. NodeNum - 1 :
         /\ Ready[NodeAt(k)] <=> k < Len(unread)
         /\ k < Len(unread) => Str[NodeAt(k)] = unread[k + 1]
    /\ pWrite = IF Len(unread) = NodeNum THEN pRead ELSE NodeAt(Len(unread))
    /\ ATsem + Taken = Len(unread)

\* What AT_thread_entry goes on to act on is the oldest unhandled line, and
\* never a mixture of two lines, until the ring overruns.
HandlesOldestLine ==
  [][pc = "clear" /\ pc' = "dispatch" /\ ~overrun
       => unread # <<>> /\ Value = Head(unread)]_ringVars
=============================================================================
