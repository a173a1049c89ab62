------------------------------- MODULE Uart1Tx -------------------------------
(***************************************************************************)
(* src/MySouce/UART1_new .c, the DMA driver of the UART the modem hangs    *)
(* on: init, open, write and close, called by several threads, against     *)
(* DMA1_Channel4_IRQHandler.  Nodes move between an empty and a full list, *)
(* both doubly linked between two sentinels; neither side masks interrupts *)
(* or takes a lock.  One step of a thread is one C statement on shared     *)
(* data; the handler is not interrupted by threads and is one step.        *)
(***************************************************************************)
EXTENDS Naturals, Sequences, FiniteSets

CONSTANTS Writers,     \* threads that call write
          NODE_NUM,    \* 5 in the program
          Uses,        \* ways of using the driver: which threads call it, and how many
                       \* writes begun and not yet sent they allow
          MaxOpens,    \* bound: calls of open
          MaxCloses,   \* bound: clients that close
          MaxWrites,   \* bound: calls of write
          MaxSent      \* bound: transfers the DMA completes

ASSUME NodeAssumption == NODE_NUM \in Nat \ {0}
ASSUME WritersAssumption == IsFiniteSet(Writers)
ASSUME UsesAssumption == Uses \subseteq [callers : SUBSET Writers, window : Nat]
ASSUME BoundAssumption == {MaxOpens, MaxCloses, MaxWrites, MaxSent} \subseteq Nat

\* struct Data_Node_list *
Nodes == 1 .. NODE_NUM
NULL  == 0
empty_list_Head == NODE_NUM + 1
empty_list_Tail == NODE_NUM + 2
full_list_Head  == NODE_NUM + 3
full_list_Tail  == NODE_NUM + 4
Ptr == 1 .. NODE_NUM + 4

VARIABLES
  use,                   \* member of Uses, fixed
  activated,             \* RT_DEVICE_FLAG_ACTIVATED
  opened,                \* RT_DEVICE_OFLAG_OPEN
  openCnt,
  usart,                 \* the USART and its DMA requests are enabled
  live,                  \* nodes whose buffer is allocated
  opens, closes,         \* calls so far
  orderly,               \* history: no open or close began while another client was in one
  Next, Pre,             \* the links of nodes and sentinels
  buff,                  \* pNode->Node->buff: which write filled it, 0 if none
  pCurrentMDASendNode,
  dma,                   \* node whose buffer the DMA channel is sending, or NULL
  pc, pNodeData,         \* of each writer
  writing,               \* number of the write each writer is in
  writes,                \* calls of write so far
  accepted,              \* history: writes that got a node, in order
  sent,                  \* history: writes sent completely, in order
  ranDry,                \* history: the handler ran while the full list RunsDry
  fault                  \* "none", or what stopped the program: "null" when a NULL pointer
                         \* was followed, "free" when a buffer was freed twice

lists   == <<Next, Pre>>
device  == <<use, activated, opened, openCnt, usart, live, opens, closes, orderly>>
writers == <<pc, pNodeData, writing, writes, accepted>>
vars    == <<device, Next, Pre, buff, pCurrentMDASendNode, dma, pc, pNodeData, writing, writes,
             accepted, sent, ranDry, fault>>

\* The links after Data_Node_list_init: every node in the empty list, in order.
Data_Node_list_init ==
  [next |-> [p \in Ptr |-> CASE p \in Nodes \ {NODE_NUM}    -> p + 1
                             [] p = NODE_NUM                -> empty_list_Tail
                             [] p = empty_list_Head         -> 1
                             [] p = full_list_Head          -> full_list_Tail
                             [] OTHER                       -> NULL],
   pre  |-> [p \in Ptr |-> CASE p \in Nodes \ {1}           -> p - 1
                             [] p = 1                       -> empty_list_Head
                             [] p = empty_list_Tail         -> NODE_NUM
                             [] p = full_list_Tail          -> full_list_Head
                             [] OTHER                       -> NULL]]

Init ==
  /\ use \in Uses
  /\ activated = FALSE /\ opened = FALSE /\ openCnt = 0 /\ usart = FALSE
  /\ live = {} /\ opens = 0 /\ closes = 0 /\ orderly = TRUE
  /\ Next = [p \in Ptr |-> NULL] /\ Pre = [p \in Ptr |-> NULL]
  /\ buff = [n \in Nodes |-> 0]
  /\ pCurrentMDASendNode = NULL /\ dma = NULL
  /\ pc = [w \in Writers |-> "out"] /\ pNodeData = [w \in Writers |-> NULL]
  /\ writing = [w \in Writers |-> 0] /\ writes = 0
  /\ accepted = <<>> /\ sent = <<>> /\ ranDry = FALSE /\ fault = "none"

Goto(w, l) == pc' = [pc EXCEPT ![w] = l]
\* Nothing is modelled after a fault.
Crash(why) == fault' = why /\ UNCHANGED <<device, lists, buff, pCurrentMDASendNode, dma, writers, sent, ranDry>>
HasDataPointer(p) == p # NULL
\* pNode->Node!=0: false for the sentinels
HasData(p) == p \in Nodes

\* The node p and the links after Insert_Node_Empty_list(p).
InsertEmptyLosesTail(p) ==
  [node |-> p,
   next |-> [Next EXCEPT ![Pre[empty_list_Tail]] = p, ![p] = empty_list_Tail],
   pre  |-> [Pre EXCEPT ![p] = Pre[empty_list_Tail]]]

Insert_Node_Empty_list(p) ==
  [node |-> p,
   next |-> [Next EXCEPT ![Pre[empty_list_Tail]] = p, ![p] = empty_list_Tail],
   pre  |-> [Pre EXCEPT ![p] = Pre[empty_list_Tail], ![empty_list_Tail] = p]]

\* Get_Full_Node and Get_Empty_Node: the first node of the list at head, NULL if
\* there is none, and the links without it.
Get_Node(head, l) ==
  LET f == l.next[head]
  IN  IF ~HasData(f) THEN [l EXCEPT !.node = NULL]
      ELSE [node |-> f,
            next |-> [l.next EXCEPT ![head] = l.next[f]],
            pre  |-> [l.pre EXCEPT ![l.next[f]] = head]]

\* They would follow a NULL pointer.
FollowsNull(head, l) ==
  LET f == l.next[head]
  IN  f = NULL \/ (HasData(f) /\ l.next[f] = NULL)
-----------------------------------------------------------------------------
(* USART1_new_hw_init, USART1_new_hw_open, USART1_new_hw_close             *)

OpeningOrClosing(w) == pc[w] \in {"lists", "flag", "zero", "busy", "free", "retry", "zero2", "busy2"}
ElsewhereQuiet(w) == \A v \in Writers \ {w} : ~OpeningOrClosing(v)

OpenForgetsCount(w) ==
  /\ pc[w] = "out" /\ w \in use.callers /\ opens < MaxOpens
  /\ opens' = opens + 1 /\ orderly' = (orderly /\ ElsewhereQuiet(w))
  /\ activated' = TRUE /\ usart' = IF activated THEN usart ELSE TRUE
  /\ openCnt' = IF opened THEN openCnt ELSE openCnt + 1
  /\ Goto(w, IF opened THEN "idle" ELSE "lists")
  /\ UNCHANGED <<use, opened, live, closes, lists, buff, pCurrentMDASendNode, dma, pNodeData,
                 writing, writes, accepted, sent, ranDry, fault>>

\* A client calls init, which does nothing the second time, and open.
Open(w) ==
  /\ pc[w] = "out" /\ w \in use.callers /\ opens < MaxOpens
  /\ opens' = opens + 1 /\ orderly' = (orderly /\ ElsewhereQuiet(w))
  /\ activated' = TRUE /\ usart' = IF activated THEN usart ELSE TRUE
  /\ openCnt' = openCnt + 1
  /\ Goto(w, IF opened THEN "idle" ELSE "lists")
  /\ UNCHANGED <<use, opened, live, closes, lists, buff, pCurrentMDASendNode, dma, pNodeData,
                 writing, writes, accepted, sent, ranDry, fault>>

\* Data_Node_list_init, with memory for every buffer
OpenLists(w) ==
  /\ pc[w] = "lists"
  /\ Next' = Data_Node_list_init.next /\ Pre' = Data_Node_list_init.pre /\ live' = Nodes
  /\ Goto(w, "flag")
  /\ UNCHANGED <<use, activated, opened, openCnt, usart, opens, closes, orderly, buff,
                 pCurrentMDASendNode, dma, pNodeData, writing, writes, accepted, sent, ranDry, fault>>

OpenFlag(w) ==
  /\ pc[w] = "flag"
  /\ opened' = TRUE
  /\ Goto(w, "idle")
  /\ UNCHANGED <<use, activated, openCnt, usart, live, opens, closes, orderly, lists, buff,
                 pCurrentMDASendNode, dma, pNodeData, writing, writes, accepted, sent, ranDry, fault>>

\* The head of close: closed already, or others still have it open.
CloseTest(w, again) ==
  LET last == opened /\ ~(openCnt > 1)
  IN  /\ openCnt' = IF opened /\ openCnt > 1 THEN openCnt - 1 ELSE openCnt
      /\ Goto(w, IF last THEN (IF again THEN "zero2" ELSE "zero") ELSE "out")
      /\ UNCHANGED <<use, activated, opened, usart, live, opens, lists, buff,
                     pCurrentMDASendNode, dma, pNodeData, writing, writes, accepted, sent, ranDry, fault>>

Close(w) ==
  /\ pc[w] = "idle" /\ closes < MaxCloses
  /\ closes' = closes + 1 /\ orderly' = (orderly /\ ElsewhereQuiet(w))
  /\ CloseTest(w, FALSE)

\* uart1_test calls close once more, a tenth of a second after RT_EBUSY.
CloseAgain(w) ==
  /\ pc[w] = "retry"
  /\ CloseTest(w, TRUE)
  /\ UNCHANGED <<closes, orderly>>

CloseZero(w) ==
  /\ pc[w] \in {"zero", "zero2"}
  /\ openCnt' = 0
  /\ Goto(w, IF pc[w] = "zero" THEN "busy" ELSE "busy2")
  /\ UNCHANGED <<use, activated, opened, usart, live, opens, closes, orderly, lists, buff,
                 pCurrentMDASendNode, dma, pNodeData, writing, writes, accepted, sent, ranDry, fault>>

\* A transfer under way: RT_EBUSY.  Otherwise the hardware is switched off.
CloseBusy(w) ==
  /\ pc[w] \in {"busy", "busy2"}
  /\ IF pCurrentMDASendNode # NULL
     THEN Goto(w, IF pc[w] = "busy" THEN "retry" ELSE "out") /\ UNCHANGED <<usart, dma>>
     ELSE Goto(w, "free") /\ usart' = FALSE /\ dma' = NULL
  /\ UNCHANGED <<use, activated, opened, openCnt, live, opens, closes, orderly, lists, buff,
                 pCurrentMDASendNode, pNodeData, writing, writes, accepted, sent, ranDry, fault>>

\* free_node, one node at a time: first the full list, then the empty one
FreeNode(w) ==
  LET links == [node |-> NULL, next |-> Next, pre |-> Pre]
      head  == IF HasData(Next[full_list_Head]) THEN full_list_Head ELSE empty_list_Head
      taken == Get_Node(head, links)
  IN  /\ pc[w] = "free" /\ HasData(Next[head])
      /\ IF FollowsNull(head, links) THEN Crash("null")
         ELSE IF taken.node \notin live THEN Crash("free")
         ELSE /\ Next' = taken.next /\ Pre' = taken.pre
              /\ live' = live \ {taken.node}
              /\ UNCHANGED <<use, activated, opened, openCnt, usart, opens, closes, orderly, buff,
                             pCurrentMDASendNode, dma, writers, sent, ranDry, fault>>

Closed(w) ==
  /\ pc[w] = "free" /\ ~HasData(Next[full_list_Head]) /\ ~HasData(Next[empty_list_Head])
  /\ opened' = FALSE
  /\ Goto(w, "out")
  /\ UNCHANGED <<use, activated, openCnt, usart, live, opens, closes, orderly, lists, buff,
                 pCurrentMDASendNode, dma, pNodeData, writing, writes, accepted, sent, ranDry, fault>>

OpenClose(w) ==
  \/ OpenLists(w) \/ OpenFlag(w) \/ CloseAgain(w) \/ CloseZero(w) \/ CloseBusy(w)
  \/ FreeNode(w) \/ Closed(w)
-----------------------------------------------------------------------------
(* USART1_new_hw_write                                                     *)

Call(w) ==
  /\ pc[w] = "idle" /\ writes < MaxWrites
  /\ Len(accepted) - Len(sent) + Cardinality({v \in Writers : pc[v] \in {"check", "pick"}}) < use.window
  /\ writes' = writes + 1 /\ writing' = [writing EXCEPT ![w] = writes + 1]
  /\ Goto(w, "check")
  /\ UNCHANGED <<device, lists, buff, pCurrentMDASendNode, dma, pNodeData, accepted, sent, ranDry, fault>>

\* Get_Empty_Node: no node, write returns 0.
NoEmptyNode(w) ==
  /\ pc[w] = "check" /\ ~HasData(Next[empty_list_Head])
  /\ Goto(w, "idle")
  /\ UNCHANGED <<device, lists, buff, pCurrentMDASendNode, dma, pNodeData, writing, writes, accepted, sent, ranDry, fault>>

SeeEmptyNode(w) ==
  /\ pc[w] = "check" /\ HasData(Next[empty_list_Head])
  /\ Goto(w, "pick")
  /\ UNCHANGED <<device, lists, buff, pCurrentMDASendNode, dma, pNodeData, writing, writes, accepted, sent, ranDry, fault>>

PickNode(w) ==
  /\ pc[w] = "pick"
  /\ pNodeData' = [pNodeData EXCEPT ![w] = Next[empty_list_Head]]
  /\ accepted' = Append(accepted, writing[w])
  /\ Goto(w, "unlink")
  /\ UNCHANGED <<device, lists, buff, pCurrentMDASendNode, dma, writing, writes, sent, ranDry, fault>>

UnlinkForgotten(w) ==
  /\ pc[w] = "unlink"
  /\ Goto(w, "fixPre")
  /\ UNCHANGED <<device, lists, buff, pCurrentMDASendNode, dma, pNodeData, writing, writes, accepted, sent, ranDry, fault>>

UnlinkNode(w) ==
  /\ pc[w] = "unlink"
  /\ Next' = [Next EXCEPT ![empty_list_Head] = Next[pNodeData[w]]]
  /\ Goto(w, "fixPre")
  /\ UNCHANGED <<device, Pre, buff, pCurrentMDASendNode, dma, pNodeData, writing, writes, accepted, sent, ranDry, fault>>

FixPre(w) ==
  /\ pc[w] = "fixPre"
  /\ IF Next[pNodeData[w]] = NULL THEN Crash("null")
     ELSE /\ Pre' = [Pre EXCEPT ![Next[pNodeData[w]]] = empty_list_Head]
          /\ Goto(w, "fill")
          /\ UNCHANGED <<device, Next, buff, pCurrentMDASendNode, dma, pNodeData, writing, writes,
                         accepted, sent, ranDry, fault>>

\* rt_memcpy into the node, and its length
Fill(w) ==
  /\ pc[w] = "fill"
  /\ IF ~HasData(pNodeData[w]) THEN Crash("null")
     ELSE /\ buff' = [buff EXCEPT ![pNodeData[w]] = writing[w]]
          /\ Goto(w, "test")
          /\ UNCHANGED <<device, lists, pCurrentMDASendNode, dma, pNodeData, writing, writes,
                         accepted, sent, ranDry, fault>>

TestAlwaysQueues(w) ==
  /\ pc[w] = "test"
  /\ Goto(w, "link1")
  /\ UNCHANGED <<device, lists, buff, pCurrentMDASendNode, dma, pNodeData, writing, writes, accepted, sent, ranDry, fault>>

\* if(!pCurrentMDASendNode)
Test(w) ==
  /\ pc[w] = "test"
  /\ Goto(w, IF pCurrentMDASendNode = NULL THEN "claim" ELSE "link1")
  /\ UNCHANGED <<device, lists, buff, pCurrentMDASendNode, dma, pNodeData, writing, writes, accepted, sent, ranDry, fault>>

Claim(w) ==
  /\ pc[w] = "claim"
  /\ pCurrentMDASendNode' = pNodeData[w]
  /\ Goto(w, "start")
  /\ UNCHANGED <<device, lists, buff, dma, pNodeData, writing, writes, accepted, sent, ranDry, fault>>

\* USART1_DMA_Wirte(pCurrentMDASendNode->Node->buff, ...)
StartDma(w) ==
  /\ pc[w] = "start"
  /\ IF pCurrentMDASendNode = NULL THEN Crash("null")
     ELSE /\ dma' = pCurrentMDASendNode
          /\ Goto(w, "idle")
          /\ UNCHANGED <<device, lists, buff, pCurrentMDASendNode, pNodeData, writing, writes,
                         accepted, sent, ranDry, fault>>

InsertFullTailFirst(w) ==
  LET p == pNodeData[w]
  IN  \/ /\ pc[w] = "link1" /\ Pre' = [Pre EXCEPT ![full_list_Tail] = p]
         /\ Goto(w, "link2") /\ UNCHANGED Next
      \/ /\ pc[w] = "link2" /\ Next' = [Next EXCEPT ![Pre[full_list_Tail]] = p]
         /\ Goto(w, "link3") /\ UNCHANGED Pre
      \/ /\ pc[w] = "link3" /\ Next' = [Next EXCEPT ![p] = full_list_Tail]
         /\ Goto(w, "idle") /\ UNCHANGED Pre

\* Insert_Node_Full_list, statement by statement
InsertFull(w) ==
  LET p == pNodeData[w]
  IN  \/ /\ pc[w] = "link1" /\ Next' = [Next EXCEPT ![Pre[full_list_Tail]] = p]
         /\ Goto(w, "link2") /\ UNCHANGED Pre
      \/ /\ pc[w] = "link2" /\ Pre' = [Pre EXCEPT ![p] = Pre[full_list_Tail]]
         /\ Goto(w, "link3") /\ UNCHANGED Next
      \/ /\ pc[w] = "link3" /\ Next' = [Next EXCEPT ![p] = full_list_Tail]
         /\ Goto(w, "link4") /\ UNCHANGED Pre
      \/ /\ pc[w] = "link4" /\ Pre' = [Pre EXCEPT ![full_list_Tail] = p]
         /\ Goto(w, "idle") /\ UNCHANGED Next

LinkFull(w) ==
  /\ InsertFull(w)
  /\ UNCHANGED <<device, buff, pCurrentMDASendNode, dma, pNodeData, writing, writes, accepted, sent, ranDry, fault>>

Write(w) ==
  \/ NoEmptyNode(w) \/ SeeEmptyNode(w) \/ PickNode(w) \/ UnlinkNode(w) \/ FixPre(w)
  \/ Fill(w) \/ Test(w) \/ Claim(w) \/ StartDma(w) \/ LinkFull(w)
-----------------------------------------------------------------------------
(* DMA1_Channel4_IRQHandler                                                *)

\* The writer has seen a transfer under way and is putting its node on the full
\* list, where nothing else is left for the handler to take.
RunsDry(w) ==
  /\ pc[w] \in {"link1", "link2", "link3", "link4"}
  /\ Next[full_list_Head] \in {full_list_Tail, pNodeData[w]}

\* The transfer ends: recycle the node, take the next one from the full list.
DMA1_Channel4_IRQHandler ==
  /\ dma # NULL /\ usart /\ Len(sent) < MaxSent
  /\ sent' = Append(sent, buff[dma])
  /\ ranDry' = (ranDry \/ \E w \in Writers : RunsDry(w))
  /\ LET links == IF pCurrentMDASendNode = NULL
                  THEN [node |-> NULL, next |-> Next, pre |-> Pre]
                  ELSE Insert_Node_Empty_list(pCurrentMDASendNode)
         taken == Get_Node(full_list_Head, links)
     IN  IF FollowsNull(full_list_Head, links)
         THEN fault' = "null" /\ UNCHANGED <<lists, pCurrentMDASendNode, dma>>
         ELSE /\ Next' = taken.next /\ Pre' = taken.pre
              /\ pCurrentMDASendNode' = taken.node /\ dma' = taken.node
              /\ UNCHANGED fault
  /\ UNCHANGED <<device, buff, writers>>

Step ==
  /\ fault = "none"
  /\ \/ \E w \in Writers : Call(w) \/ Write(w)
     \/ \E w \in Writers : Open(w) \/ Close(w) \/ OpenClose(w)
     \/ DMA1_Channel4_IRQHandler

Spec == Init /\ [][Step]_vars

\* A thread in a call of the driver goes on, and a transfer ends.
FairSpec ==
  /\ Spec
  /\ \A w \in Writers : WF_vars(fault = "none" /\ (Write(w) \/ OpenClose(w)))
  /\ WF_vars(fault = "none" /\ DMA1_Channel4_IRQHandler)
-----------------------------------------------------------------------------
(* Properties                                                              *)

\* The nodes reached from a list's head by following Next.
Walk(head) ==
  LET at[k \in 0 .. NODE_NUM] ==
        IF k = 0 THEN Next[head] ELSE IF HasData(at[k - 1]) THEN Next[at[k - 1]] ELSE at[k - 1]
  IN  {at[k] : k \in 0 .. NODE_NUM} \cap Nodes

\* A writer that owns a node: taken from the empty list, not yet handed over.
Owns(w) == pc[w] \in {"fixPre", "fill", "test", "claim", "start", "link1"}

\* Callers that take turns: nobody writes before what was written last has left,
\* and none opens or closes while another is opening or closing.  So the AT thread
\* sends its commands, each after the modem's answer to the one before; but it
\* writes the text of a message and its end mark back to back, and uart1_test
\* writes as fast as it can: single callers that do not wait.
TakeTurns == use.window = 1 /\ orderly

\* With a single caller, however fast, no pointer of the driver's lists leads to
\* NULL where the code follows it, wherever the DMA interrupt strikes in write;
\* and callers that take turns never make close free a buffer twice.
NoFault ==
  /\ Cardinality(use.callers) = 1 => fault # "null"
  /\ TakeTurns => fault = "none"

\* The buffer a thread is filling is allocated, and neither being sent nor queued
\* nor free for another writer; the DMA sends from allocated memory.  For callers
\* that take turns, and for a single one of any speed, although the handler
\* recycles nodes into the list from which write is taking one, in the middle of
\* its statements; until the full list RunsDry or the device has been closed.
BufferOwnership ==
  (TakeTurns \/ (Cardinality(use.callers) = 1 /\ usart /\ ~ranDry)) =>
    /\ dma # NULL => dma \in live
    /\ \A w \in Writers :
         pc[w] \in {"fill", "test", "claim"} =>
           /\ pNodeData[w] \in live
           /\ pNodeData[w] # dma
           /\ pNodeData[w] \notin Walk(full_list_Head) \cup Walk(empty_list_Head)
           /\ \A v \in Writers \ {w} : Owns(v) => pNodeData[v] # pNodeData[w]

\* What write accepted leaves in the order it was accepted, nothing twice and
\* nothing left out: for callers that take turns, and for a single caller of any
\* speed, which has all the nodes there are queued or being sent.  The handler
\* may strike between any two statements of write, but while the list RunsDry.
SentInOrder ==
  (TakeTurns \/ (Cardinality(use.callers) = 1 /\ ~ranDry)) =>
    Len(sent) <= Len(accepted) /\ \A i \in DOMAIN sent : sent[i] = accepted[i]

\* When the device is open and no call and no transfer is under way, every node
\* is in one of the two lists: no used node misses the way back.
NoNodeLost ==
  (TakeTurns /\ opened /\ dma = NULL /\ \A w \in Writers : pc[w] \in {"idle", "out"}) =>
    Walk(empty_list_Head) \cup Walk(full_list_Head) = Nodes

\* A client holds the device from the end of open to the beginning of close.
Holders == {w \in Writers : pc[w] # "out" /\ ~OpeningOrClosing(w)}

\* The count is the number of clients, RT_EBUSY or not, and as long as there is
\* one the device is open: nobody's close takes it away from another.
OpenWhileHeld ==
  orderly =>
    /\ \A w \in Holders : opened
    /\ (\A w \in Writers : ~OpeningOrClosing(w)) => openCnt = Cardinality(Holders)

\* Data for which write returned its size is sent sooner or later: a node on
\* the full list is not left there with the DMA idle.
AcceptedIsSent == []<>(\A i \in 1 .. Len(accepted) : \E j \in 1 .. Len(sent) : sent[j] = accepted[i])

\* The same for callers that take turns, until the device has been closed: init
\* does not switch the USART on again.
TurnsAreSent == [](TakeTurns /\ (activated => usart)) => AcceptedIsSent
=============================================================================
