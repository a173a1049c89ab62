--------------------------- MODULE Uart1Tx_proofs ---------------------------
(***************************************************************************)
(* Proofs about the UART1 driver, for every number of nodes and threads:   *)
(* the open count, the pointers of a single caller and the order in which  *)
(* its writes leave, and, for callers that take turns, who owns which      *)
(* buffer and what leaves the port.                                        *)
(***************************************************************************)
EXTENDS Uart1Tx, Integers, FiniteSetTheorems, WellFoundedInduction, TLAPS

\* The statements a thread can be at.
OpenLabel  == {"lists", "flag"}
CloseLabel == {"zero", "busy", "free", "retry", "zero2", "busy2"}
WriteLabel == {"check", "pick", "unlink", "fixPre", "fill", "test", "claim", "start",
               "link1", "link2", "link3", "link4"}
Label == {"out", "idle"} \cup OpenLabel \cup CloseLabel \cup WriteLabel
-----------------------------------------------------------------------------
(* The open count                                                          *)

\* A thread inside write goes on to a statement of write or leaves it, and
\* leaves the device as it is.
LEMMA WriteSteps ==
  ASSUME NEW w \in Writers, pc \in [Writers -> Label], Call(w) \/ Write(w)
  PROVE  /\ UNCHANGED device /\ pc' \in [Writers -> Label]
         /\ pc[w] \in WriteLabel \cup {"idle"} /\ pc'[w] \in WriteLabel \cup {"idle"}
         /\ \A v \in Writers \ {w} : pc'[v] = pc[v]
<1>1. CASE Call(w)
  BY <1>1 DEF Call, Goto, Label, WriteLabel, OpenLabel, CloseLabel
<1>2. CASE NoEmptyNode(w) \/ SeeEmptyNode(w) \/ PickNode(w) \/ UnlinkNode(w)
  BY <1>2 DEF NoEmptyNode, SeeEmptyNode, PickNode, UnlinkNode, Goto, Label, WriteLabel,
              OpenLabel, CloseLabel
<1>3. CASE FixPre(w) \/ Fill(w)
  BY <1>3 DEF FixPre, Fill, Crash, writers, Goto, Label, WriteLabel, OpenLabel, CloseLabel
<1>4. CASE Test(w) \/ Claim(w)
  BY <1>4 DEF Test, Claim, Goto, Label, WriteLabel, OpenLabel, CloseLabel
<1>5. CASE StartDma(w)
  BY <1>5 DEF StartDma, Crash, writers, Goto, Label, WriteLabel, OpenLabel, CloseLabel
<1>6. CASE LinkFull(w)
  BY <1>6 DEF LinkFull, InsertFull, Goto, Label, WriteLabel, OpenLabel, CloseLabel
<1> QED
  BY <1>1, <1>2, <1>3, <1>4, <1>5, <1>6 DEF Write

\* OpenWhileHeld with what is known while one client is in open or close: it is
\* the only one, nobody holds the device, and the count is what the code left.
OpenInv ==
  /\ pc \in [Writers -> Label] /\ openCnt \in Nat
  /\ orderly =>
       /\ \A w \in Holders : opened
       /\ (\A w \in Writers : ~OpeningOrClosing(w)) => openCnt = Cardinality(Holders)
       /\ \A v, w \in Writers : OpeningOrClosing(v) /\ OpeningOrClosing(w) => v = w
       /\ \A w \in Writers :
            /\ OpeningOrClosing(w) => Holders = {}
            /\ pc[w] \in OpenLabel => openCnt = 1
            /\ pc[w] \in CloseLabel \ {"zero"} => openCnt = 0

LEMMA HoldersFinite == IsFiniteSet(Holders) /\ Cardinality(Holders) \in Nat
BY WritersAssumption, FS_Subset, FS_CardinalityType DEF Holders

\* Steps that change no client's standing.
LEMMA OpenInvSameHolders ==
  ASSUME OpenInv, UNCHANGED <<opened, openCnt, orderly>>, pc' \in [Writers -> Label],
         \A v \in Writers : pc'[v] = pc[v] \/ {pc[v], pc'[v]} \subseteq WriteLabel \cup {"idle"}
  PROVE  OpenInv'
<1>1. Holders' = Holders /\ \A v \in Writers : OpeningOrClosing(v)' <=> OpeningOrClosing(v)
  BY DEF Holders, OpeningOrClosing, WriteLabel, OpenInv
<1> QED
  BY <1>1 DEF OpenInv, WriteLabel, OpenLabel, CloseLabel

\* open: one more client, or the first one, who sets the lists up.
LEMMA OpenInvOpen ==
  ASSUME OpenInv, NEW w \in Writers, Open(w)
  PROVE  OpenInv'
<1> USE DEF Label, OpenLabel, CloseLabel, WriteLabel
<1>1. /\ pc[w] = "out" /\ pc' = [pc EXCEPT ![w] = IF opened THEN "idle" ELSE "lists"]
      /\ openCnt' = openCnt + 1 /\ opened' = opened /\ pc \in [Writers -> Label]
      /\ orderly' = (orderly /\ ElsewhereQuiet(w))
  BY DEF Open, Goto, OpenInv
<1>2. pc' \in [Writers -> Label] /\ openCnt' \in Nat
  BY <1>1 DEF OpenInv
<1>3. ASSUME orderly'
      PROVE  /\ \A v \in Holders' : opened'
             /\ (\A v \in Writers : ~OpeningOrClosing(v)') => openCnt' = Cardinality(Holders')
             /\ \A u, v \in Writers : OpeningOrClosing(u)' /\ OpeningOrClosing(v)' => u = v
             /\ \A v \in Writers :
                  /\ OpeningOrClosing(v)' => Holders' = {}
                  /\ pc'[v] \in OpenLabel => openCnt' = 1
                  /\ pc'[v] \in CloseLabel \ {"zero"} => openCnt' = 0
  <2>1. /\ \A v \in Writers : ~OpeningOrClosing(v)
        /\ openCnt = Cardinality(Holders) /\ \A v \in Holders : opened
        /\ w \notin Holders
    BY <1>1, <1>3 DEF ElsewhereQuiet, OpenInv, OpeningOrClosing, Holders
  <2>2. CASE opened
    <3>1. Holders' = Holders \cup {w}
      BY <1>1, <2>2 DEF Holders, OpeningOrClosing
    <3>2. Cardinality(Holders') = openCnt'
      BY <1>1, <2>1, <3>1, HoldersFinite, FS_AddElement
    <3>3. \A v \in Writers : ~OpeningOrClosing(v)' /\ pc'[v] \notin OpenLabel \cup CloseLabel
      BY <1>1, <2>1, <2>2 DEF OpeningOrClosing
    <3> QED
      BY <1>1, <2>2, <3>2, <3>3
  <2>3. CASE ~opened
    <3>1. Holders = {} /\ Holders' = {}
      BY <1>1, <2>1, <2>3 DEF Holders, OpeningOrClosing
    <3>2. openCnt' = 1
      BY <1>1, <2>1, <3>1, FS_EmptySet
    <3>3. /\ \A v \in Writers : OpeningOrClosing(v)' <=> v = w
          /\ \A v \in Writers : pc'[v] \notin CloseLabel
      BY <1>1, <2>1, <2>3 DEF OpeningOrClosing
    <3> QED
      BY <3>1, <3>2, <3>3
  <2> QED
    BY <2>2, <2>3
<1> QED
  BY <1>2, <1>3 DEF OpenInv

\* The client in open or close goes on to another statement of it, or ends it
\* with nobody else holding the device.
LEMMA OpenInvGoesOn ==
  ASSUME OpenInv, NEW w \in Writers, OpeningOrClosing(w), NEW l \in Label,
         pc' = [pc EXCEPT ![w] = l], orderly' = orderly,
         \/ l \in OpenLabel /\ openCnt' = 1
         \/ l \in CloseLabel /\ openCnt' = 0
         \/ l = "idle" /\ openCnt' = 1 /\ opened'
         \/ l = "out" /\ openCnt' = 0
  PROVE  OpenInv'
<1> USE DEF Label, OpenLabel, CloseLabel, WriteLabel
<1>1. pc \in [Writers -> Label] /\ pc' \in [Writers -> Label] /\ openCnt' \in Nat
  BY DEF OpenInv
<1>2. ASSUME orderly
      PROVE  /\ \A v \in Holders' : opened'
             /\ (\A v \in Writers : ~OpeningOrClosing(v)') => openCnt' = Cardinality(Holders')
             /\ \A u, v \in Writers : OpeningOrClosing(u)' /\ OpeningOrClosing(v)' => u = v
             /\ \A v \in Writers :
                  /\ OpeningOrClosing(v)' => Holders' = {}
                  /\ pc'[v] \in OpenLabel => openCnt' = 1
                  /\ pc'[v] \in CloseLabel \ {"zero"} => openCnt' = 0
  <2>1. Holders = {} /\ \A v \in Writers : OpeningOrClosing(v) <=> v = w
    BY <1>2 DEF OpenInv
  <2>2. \A v \in Writers \ {w} : pc'[v] = "out"
    BY <1>1, <2>1 DEF Holders
  <2>3. pc'[w] = l
    BY <1>1
  <2>4. Holders' = IF l = "idle" THEN {w} ELSE {}
    BY <2>2, <2>3 DEF Holders, OpeningOrClosing
  <2>5. \A v \in Writers : OpeningOrClosing(v)' => v = w
    BY <2>2 DEF OpeningOrClosing
  <2>6. OpeningOrClosing(w)' <=> l \notin {"idle", "out"}
    BY <2>3 DEF OpeningOrClosing
  <2>7. Cardinality(Holders') = IF l = "idle" THEN 1 ELSE 0
    BY <2>4, FS_EmptySet, FS_Singleton
  <2> QED
    BY <2>2, <2>3, <2>4, <2>5, <2>6, <2>7
<1> QED
  BY <1>1, <1>2 DEF OpenInv

\* close: one client less, or the last one, who begins to take the device down.
LEMMA OpenInvClose ==
  ASSUME OpenInv, NEW w \in Writers, Close(w)
  PROVE  OpenInv'
<1> USE DEF Label, OpenLabel, CloseLabel, WriteLabel
<1> DEFINE last == opened /\ ~(openCnt > 1)
<1>1. /\ pc[w] = "idle" /\ pc' = [pc EXCEPT ![w] = IF last THEN "zero" ELSE "out"]
      /\ openCnt' = IF opened /\ openCnt > 1 THEN openCnt - 1 ELSE openCnt
      /\ opened' = opened /\ pc \in [Writers -> Label] /\ openCnt \in Nat
      /\ orderly' = (orderly /\ ElsewhereQuiet(w))
  BY DEF Close, CloseTest, Goto, OpenInv
<1>2. pc' \in [Writers -> Label] /\ openCnt' \in Nat
  BY <1>1
<1>3. ASSUME orderly'
      PROVE  /\ \A v \in Holders' : opened'
             /\ (\A v \in Writers : ~OpeningOrClosing(v)') => openCnt' = Cardinality(Holders')
             /\ \A u, v \in Writers : OpeningOrClosing(u)' /\ OpeningOrClosing(v)' => u = v
             /\ \A v \in Writers :
                  /\ OpeningOrClosing(v)' => Holders' = {}
                  /\ pc'[v] \in OpenLabel => openCnt' = 1
                  /\ pc'[v] \in CloseLabel \ {"zero"} => openCnt' = 0
  <2>1. /\ \A v \in Writers : ~OpeningOrClosing(v)
        /\ openCnt = Cardinality(Holders) /\ opened
        /\ w \in Holders
    BY <1>1, <1>3 DEF ElsewhereQuiet, OpenInv, OpeningOrClosing, Holders
  <2>2. Holders' = Holders \ {w}
    BY <1>1 DEF Holders, OpeningOrClosing
  <2>3. Cardinality(Holders') = openCnt - 1
    BY <2>1, <2>2, HoldersFinite, FS_RemoveElement
  <2>4. IsFiniteSet(Holders') /\ Cardinality(Holders') \in Nat
    BY <2>2, HoldersFinite, FS_RemoveElement, FS_CardinalityType
  <2>5. CASE openCnt > 1
    <3>1. \A v \in Writers : ~OpeningOrClosing(v)' /\ pc'[v] \notin OpenLabel \cup CloseLabel
      BY <1>1, <2>1, <2>5 DEF OpeningOrClosing
    <3> QED
      BY <1>1, <2>1, <2>3, <2>5, <3>1
  <2>6. CASE ~(openCnt > 1)
    <3>1. Holders' = {}
      BY <1>1, <2>3, <2>4, <2>6, FS_EmptySet
    <3>2. \A v \in Writers : /\ OpeningOrClosing(v)' <=> v = w
                             /\ pc'[v] \notin OpenLabel \cup (CloseLabel \ {"zero"})
      BY <1>1, <2>1, <2>6 DEF OpeningOrClosing
    <3> QED
      BY <3>1, <3>2
  <2> QED
    BY <2>5, <2>6
<1> QED
  BY <1>2, <1>3 DEF OpenInv

\* The other statements of open and close.
LEMMA OpenInvOpenClose ==
  ASSUME OpenInv, NEW w \in Writers, OpenClose(w)
  PROVE  OpenInv'
<1> USE DEF Label, OpenLabel, CloseLabel, WriteLabel
<1>0. pc \in [Writers -> Label] /\ openCnt \in Nat
  BY DEF OpenInv
<1>1. CASE ~orderly
  <2>1. pc' \in [Writers -> Label] /\ openCnt' \in Nat /\ orderly' = orderly
    <3>1. CASE OpenLists(w) \/ OpenFlag(w) \/ Closed(w)
      BY <1>0, <3>1 DEF OpenLists, OpenFlag, Closed, Goto
    <3>2. CASE CloseAgain(w) \/ CloseZero(w) \/ CloseBusy(w)
      BY <1>0, <3>2 DEF CloseAgain, CloseTest, CloseZero, CloseBusy, Goto
    <3>3. CASE FreeNode(w)
      BY <1>0, <3>3 DEF FreeNode, Crash, device, writers
    <3> QED
      BY <3>1, <3>2, <3>3 DEF OpenClose
  <2> QED
    BY <1>1, <2>1 DEF OpenInv
<1>2. CASE orderly /\ ~FreeNode(w)
  <2>1. /\ pc[w] \in OpenLabel => openCnt = 1
        /\ pc[w] \in CloseLabel \ {"zero"} => openCnt = 0
    BY <1>2 DEF OpenInv
  <2>2. CASE OpenLists(w)
    BY <2>1, <2>2, OpenInvGoesOn DEF OpenLists, Goto, OpeningOrClosing
  <2>3. CASE OpenFlag(w)
    BY <2>1, <2>3, OpenInvGoesOn DEF OpenFlag, Goto, OpeningOrClosing
  <2>4. CASE CloseAgain(w)
    <3>1. pc[w] = "retry" /\ openCnt' = 0 /\ orderly' = orderly
      BY <2>1, <2>4 DEF CloseAgain, CloseTest
    <3>2. PICK l \in {"zero2", "out"} : pc' = [pc EXCEPT ![w] = l]
      BY <2>4 DEF CloseAgain, CloseTest, Goto
    <3> QED
      BY <3>1, <3>2, OpenInvGoesOn DEF OpeningOrClosing
  <2>5. CASE CloseZero(w)
    BY <2>1, <2>5, OpenInvGoesOn DEF CloseZero, Goto, OpeningOrClosing
  <2>6. CASE CloseBusy(w)
    BY <2>1, <2>6, OpenInvGoesOn DEF CloseBusy, Goto, OpeningOrClosing
  <2>7. CASE Closed(w)
    BY <2>1, <2>7, OpenInvGoesOn DEF Closed, Goto, OpeningOrClosing
  <2> QED
    BY <1>2, <2>2, <2>3, <2>4, <2>5, <2>6, <2>7 DEF OpenClose
<1>3. CASE FreeNode(w)
  <2>1. UNCHANGED <<pc, opened, openCnt, orderly>>
    BY <1>3 DEF FreeNode, Crash, device, writers
  <2> QED
    BY <1>0, <2>1, OpenInvSameHolders
<1> QED
  BY <1>1, <1>2, <1>3

LEMMA OpenInvHolds == Spec => []OpenInv
<1>1. Init => OpenInv
  <2> SUFFICES ASSUME Init PROVE OpenInv
    OBVIOUS
  <2>1. pc = [w \in Writers |-> "out"] /\ openCnt = 0
    BY DEF Init
  <2>2. Holders = {} /\ \A w \in Writers : ~OpeningOrClosing(w)
    BY <2>1 DEF Holders, OpeningOrClosing
  <2> QED
    BY <2>1, <2>2, FS_EmptySet DEF OpenInv, Label, OpenLabel, CloseLabel
<1>2. OpenInv /\ [Step]_vars => OpenInv'
  <2> SUFFICES ASSUME OpenInv, [Step]_vars PROVE OpenInv'
    OBVIOUS
  <2>1. ASSUME NEW w \in Writers, Call(w) \/ Write(w) PROVE OpenInv'
    BY <2>1, WriteSteps, OpenInvSameHolders DEF OpenInv, device
  <2>2. CASE UNCHANGED vars \/ DMA1_Channel4_IRQHandler
    BY <2>2, OpenInvSameHolders DEF vars, DMA1_Channel4_IRQHandler, device, writers, OpenInv
  <2> QED
    BY <2>1, <2>2, OpenInvOpen, OpenInvClose, OpenInvOpenClose DEF Step
<1> QED
  BY <1>1, <1>2, PTL DEF Spec

\* Clients that do not open or close at the same time never take the device from
\* each other: USART1_new_hw_close counts its clients rightly, RT_EBUSY or not.
THEOREM OpenWhileHeldHolds == Spec => []OpenWhileHeld
<1>1. OpenInv => OpenWhileHeld
  BY DEF OpenInv, OpenWhileHeld
<1> QED
  BY <1>1, OpenInvHolds, PTL
-----------------------------------------------------------------------------
(* A single caller                                                         *)

Heads == {empty_list_Head, full_list_Head}
Tails == {empty_list_Tail, full_list_Tail}
Links == [Ptr -> Ptr \cup {NULL}]

\* From a node or a head Next leads to a node or a tail, and Pre of a tail to a
\* node or a head: whatever else is wrong with the lists, no NULL is followed.
Linked(next, pre) ==
  /\ next \in Links /\ pre \in Links
  /\ \A p \in Nodes \cup Heads : next[p] \in Nodes \cup Tails
  /\ \A p \in Tails : pre[p] \in Nodes \cup Heads

LEMMA PtrFacts ==
  /\ Nodes \cup Heads \cup Tails = Ptr /\ NULL \notin Ptr
  /\ Nodes \cap (Heads \cup Tails) = {} /\ Heads \cap Tails = {}
  /\ empty_list_Head # full_list_Head /\ empty_list_Tail # full_list_Tail
BY NodeAssumption DEF Nodes, Heads, Tails, Ptr, NULL, empty_list_Head, empty_list_Tail,
                      full_list_Head, full_list_Tail

\* Data_Node_list_init sets such links up.
LEMMA ListInitLinked == Linked(Data_Node_list_init.next, Data_Node_list_init.pre)
BY NodeAssumption
DEF Data_Node_list_init, Linked, Links, Nodes, Heads, Tails, Ptr, NULL, empty_list_Head,
    empty_list_Tail, full_list_Head, full_list_Tail

LEMMA InsertEmptyLinked ==
  ASSUME Linked(Next, Pre), NEW p \in Nodes
  PROVE  /\ Linked(Insert_Node_Empty_list(p).next, Insert_Node_Empty_list(p).pre)
         /\ Next[empty_list_Head] \in Nodes => Insert_Node_Empty_list(p).next[empty_list_Head] \in Nodes
BY PtrFacts DEF Insert_Node_Empty_list, Linked, Links, Heads, Tails

LEMMA GetNodeLinked ==
  ASSUME NEW l, Linked(l.next, l.pre), l = [node |-> l.node, next |-> l.next, pre |-> l.pre],
         NEW head \in Heads
  PROVE  /\ ~FollowsNull(head, l)
         /\ Get_Node(head, l).node \in Nodes \cup {NULL}
         /\ Linked(Get_Node(head, l).next, Get_Node(head, l).pre)
         /\ head = full_list_Head => Get_Node(head, l).next[empty_list_Head] = l.next[empty_list_Head]
<1> DEFINE f == l.next[head]
<1>1. f \in Nodes \cup Tails /\ f # NULL
  BY PtrFacts DEF Linked
<1>2. CASE f \notin Nodes
  <2>1. Get_Node(head, l) = [l EXCEPT !.node = NULL]
    BY <1>2 DEF Get_Node, HasData
  <2>2. /\ Get_Node(head, l).node = NULL /\ Get_Node(head, l).next = l.next
        /\ Get_Node(head, l).pre = l.pre
    BY <2>1
  <2> QED
    BY <1>1, <1>2, <2>2 DEF FollowsNull, HasData
<1>3. CASE f \in Nodes
  <2>1. l.next[f] \in Nodes \cup Tails /\ l.next[f] # NULL
    BY <1>3, PtrFacts DEF Linked
  <2>2. /\ Get_Node(head, l).node = f
        /\ Get_Node(head, l).next = [l.next EXCEPT ![head] = l.next[f]]
        /\ Get_Node(head, l).pre = [l.pre EXCEPT ![l.next[f]] = head]
    BY <1>3 DEF Get_Node, HasData
  <2> HIDE DEF f
  <2>3. Linked([l.next EXCEPT ![head] = l.next[f]], [l.pre EXCEPT ![l.next[f]] = head])
    BY <2>1, PtrFacts DEF Linked, Links
  <2>4. head = full_list_Head
          => [l.next EXCEPT ![head] = l.next[f]][empty_list_Head] = l.next[empty_list_Head]
    BY PtrFacts DEF Linked, Links, Heads
  <2>5. ~FollowsNull(head, l)
    BY <1>1, <2>1 DEF FollowsNull, f
  <2> QED
    BY <1>3, <2>2, <2>3, <2>4, <2>5
<1> QED
  BY <1>2, <1>3

\* What holds of the driver while a single client c uses it, besides links that
\* can be followed: where the interrupt can strike, and what it cannot take away
\* from c there.
Alone(c) ==
  /\ pc \in [Writers -> Label] /\ \A w \in Writers \ {c} : pc[w] = "out"
  /\ Next \in Links /\ Pre \in Links /\ pNodeData \in [Writers -> Ptr \cup {NULL}]
  /\ pCurrentMDASendNode \in Nodes \cup {NULL} /\ dma \in {NULL, pCurrentMDASendNode}
  /\ \/ Linked(Next, Pre)
     \/ ~opened /\ dma = NULL /\ pc[c] \in {"out", "lists"}
  /\ pc[c] = "pick" => Next[empty_list_Head] \in Nodes
  /\ pc[c] \in WriteLabel \ {"check", "pick"} => pNodeData[c] \in Nodes
  /\ pc[c] = "claim" => pCurrentMDASendNode = NULL
  /\ pc[c] = "start" => pCurrentMDASendNode # NULL /\ dma = NULL
  /\ fault # "null"

\* Only c moves.
LEMMA AloneMoves ==
  ASSUME NEW c \in Writers, Alone(c), NEW w \in Writers, w = c \/ pc[w] # "out",
         NEW l \in Label, Goto(w, l)
  PROVE  /\ w = c /\ pc' \in [Writers -> Label] /\ pc'[c] = l
         /\ \A v \in Writers \ {c} : pc'[v] = "out"
BY DEF Alone, Goto

LEMMA AloneOpenClose ==
  ASSUME NEW c \in Writers, use.callers = {c}, Alone(c), NEW w \in Writers,
         Open(w) \/ Close(w) \/ OpenClose(w)
  PROVE  Alone(c)'
<1> USE DEF Label, OpenLabel, CloseLabel, WriteLabel
<1>1. CASE Open(w)
  <2>1. PICK l \in {"idle", "lists"} : Goto(w, l) /\ (opened \/ l = "lists")
    BY <1>1 DEF Open
  <2>2. /\ w = c /\ pc' \in [Writers -> Label] /\ pc'[c] = l
        /\ \A v \in Writers \ {c} : pc'[v] = "out"
    BY <1>1, <2>1, AloneMoves DEF Open
  <2> QED
    BY <1>1, <2>1, <2>2 DEF Open, Alone, lists
<1>2. CASE Close(w) \/ CloseAgain(w) \/ CloseZero(w)
  <2>1. PICK l \in {"out", "zero", "zero2", "busy", "busy2"} : Goto(w, l)
    BY <1>2 DEF Close, CloseAgain, CloseTest, CloseZero
  <2>2. pc[w] \in {"idle", "retry", "zero", "zero2"}
    BY <1>2 DEF Close, CloseAgain, CloseZero
  <2>3. /\ w = c /\ pc' \in [Writers -> Label] /\ pc'[c] = l
        /\ \A v \in Writers \ {c} : pc'[v] = "out"
    BY <2>1, <2>2, AloneMoves
  <2>4. UNCHANGED <<Next, Pre, pCurrentMDASendNode, dma, pNodeData, fault, opened>>
    BY <1>2 DEF Close, CloseAgain, CloseTest, CloseZero, lists
  <2> QED
    BY <2>2, <2>3, <2>4 DEF Alone
<1>3. CASE OpenLists(w)
  <2>1. pc[w] = "lists" /\ Goto(w, "flag")
    BY <1>3 DEF OpenLists
  <2>2. /\ w = c /\ pc' \in [Writers -> Label] /\ pc'[c] = "flag"
        /\ \A v \in Writers \ {c} : pc'[v] = "out"
    BY <2>1, AloneMoves
  <2>3. Linked(Next', Pre') /\ UNCHANGED <<pCurrentMDASendNode, dma, pNodeData, fault>>
    BY <1>3, ListInitLinked DEF OpenLists
  <2> QED
    BY <2>2, <2>3 DEF Alone, Linked
<1>4. CASE OpenFlag(w) \/ CloseBusy(w) \/ Closed(w)
  <2>1. PICK l \in {"idle", "retry", "out", "free"} : Goto(w, l)
    BY <1>4 DEF OpenFlag, CloseBusy, Closed
  <2>2. pc[w] \in {"flag", "busy", "busy2", "free"}
    BY <1>4 DEF OpenFlag, CloseBusy, Closed
  <2>3. /\ w = c /\ pc' \in [Writers -> Label] /\ pc'[c] = l
        /\ \A v \in Writers \ {c} : pc'[v] = "out"
    BY <2>1, <2>2, AloneMoves
  <2>4. UNCHANGED <<Next, Pre, pCurrentMDASendNode, pNodeData, fault>> /\ dma' \in {NULL, dma}
    BY <1>4 DEF OpenFlag, CloseBusy, Closed, lists
  <2> QED
    BY <2>2, <2>3, <2>4 DEF Alone
<1>5. CASE FreeNode(w)
  <2> DEFINE links == [node |-> NULL, next |-> Next, pre |-> Pre]
             head  == IF HasData(Next[full_list_Head]) THEN full_list_Head ELSE empty_list_Head
             taken == Get_Node(head, links)
  <2>1. pc[w] = "free" /\ w = c /\ Linked(Next, Pre)
    BY <1>5 DEF FreeNode, Alone
  <2>2. head \in Heads
    BY DEF Heads
  <2>3. links.next = Next /\ links.pre = Pre /\ links.node = NULL
    OBVIOUS
  <2>4. ~FollowsNull(head, links) /\ Linked(taken.next, taken.pre)
    <3> HIDE DEF links, head
    <3>1. links = [node |-> links.node, next |-> links.next, pre |-> links.pre]
      BY <2>3 DEF links
    <3> QED
      BY <2>1, <2>2, <2>3, <3>1, GetNodeLinked
  <2>5. \/ fault' = "free" /\ UNCHANGED <<Next, Pre>>
        \/ fault' = fault /\ Linked(Next', Pre')
    BY <1>5, <2>4 DEF FreeNode, Crash, lists
  <2>6. UNCHANGED <<pc, pNodeData, pCurrentMDASendNode, dma, opened>>
    BY <1>5 DEF FreeNode, Crash, device, writers
  <2> QED
    BY <2>1, <2>5, <2>6 DEF Alone, Linked
<1> QED
  BY <1>1, <1>2, <1>3, <1>4, <1>5 DEF OpenClose

LEMMA AloneWrite ==
  ASSUME NEW c \in Writers, Alone(c), NEW w \in Writers, Call(w) \/ Write(w)
  PROVE  Alone(c)'
<1> USE DEF Label, OpenLabel, CloseLabel, WriteLabel
<1>0. /\ w = c /\ pc' \in [Writers -> Label] /\ \A v \in Writers \ {c} : pc'[v] = "out"
      /\ opened' = opened /\ Linked(Next, Pre)
  <2>1. pc \in [Writers -> Label] /\ \A v \in Writers \ {c} : pc[v] = "out"
    BY DEF Alone
  <2>2. /\ pc' \in [Writers -> Label] /\ pc[w] \in WriteLabel \cup {"idle"}
        /\ \A v \in Writers \ {w} : pc'[v] = pc[v]
        /\ UNCHANGED device
    BY <2>1, WriteSteps
  <2> QED
    BY <2>1, <2>2 DEF device, Alone
<1>1. CASE Call(w) \/ NoEmptyNode(w) \/ SeeEmptyNode(w) \/ Test(w)
  <2>1. /\ UNCHANGED <<Next, Pre, pCurrentMDASendNode, dma, pNodeData, fault>>
        /\ pc'[c] \in {"idle", "check", "pick", "claim", "link1"}
        /\ pc[c] = "test" <=> pc'[c] \in {"claim", "link1"}
        /\ pc'[c] = "pick" => Next[empty_list_Head] \in Nodes
        /\ pc'[c] = "claim" => pCurrentMDASendNode = NULL
    BY <1>0, <1>1 DEF Call, NoEmptyNode, SeeEmptyNode, Test, lists, Goto, HasData, Alone
  <2> QED
    BY <1>0, <2>1 DEF Alone
<1>2. CASE PickNode(w)
  <2>1. /\ pc[c] = "pick" /\ pc'[c] = "unlink"
        /\ pNodeData' = [pNodeData EXCEPT ![c] = Next[empty_list_Head]]
        /\ UNCHANGED <<Next, Pre, pCurrentMDASendNode, dma, fault>>
    BY <1>0, <1>2 DEF PickNode, lists, Goto, Alone
  <2>2. Next[empty_list_Head] \in Nodes /\ Nodes \subseteq Ptr
    BY <2>1, PtrFacts DEF Alone
  <2>3. pNodeData' \in [Writers -> Ptr \cup {NULL}] /\ pNodeData'[c] \in Nodes
    BY <2>1, <2>2 DEF Alone
  <2> QED
    BY <1>0, <2>1, <2>3 DEF Alone
<1>3. CASE UnlinkNode(w)
  <2>1. /\ pc[c] = "unlink" /\ pc'[c] = "fixPre" /\ pNodeData[c] \in Nodes
        /\ UNCHANGED <<Pre, pCurrentMDASendNode, dma, pNodeData, fault>>
        /\ Next' = [Next EXCEPT ![empty_list_Head] = Next[pNodeData[c]]]
    BY <1>0, <1>3 DEF UnlinkNode, Goto, Alone
  <2>2. Linked(Next', Pre')
    BY <1>0, <2>1, PtrFacts DEF Linked, Links
  <2> QED
    BY <1>0, <2>1, <2>2 DEF Alone, Linked
<1>4. CASE FixPre(w)
  <2>1. pc[c] = "fixPre" /\ pNodeData[c] \in Nodes
    BY <1>0, <1>4 DEF FixPre, Alone
  <2>2. Next[pNodeData[c]] \in Nodes \cup Tails /\ Next[pNodeData[c]] # NULL
    BY <1>0, <2>1, PtrFacts DEF Linked
  <2>3. /\ Pre' = [Pre EXCEPT ![Next[pNodeData[c]]] = empty_list_Head] /\ pc'[c] = "fill"
        /\ UNCHANGED <<Next, pCurrentMDASendNode, dma, pNodeData, fault>>
    BY <1>0, <1>4, <2>2 DEF FixPre, Goto, Alone
  <2>4. Linked(Next', Pre')
    BY <1>0, <2>2, <2>3, PtrFacts DEF Linked, Links, Heads
  <2> QED
    BY <1>0, <2>1, <2>3, <2>4 DEF Alone, Linked
<1>5. CASE Fill(w)
  <2>1. pc[c] = "fill" /\ pNodeData[c] \in Nodes
    BY <1>0, <1>5 DEF Fill, Alone
  <2>2. /\ pc'[c] = "test"
        /\ UNCHANGED <<Next, Pre, pCurrentMDASendNode, dma, pNodeData, fault>>
    BY <1>0, <1>5, <2>1 DEF Fill, HasData, Goto, lists, Alone
  <2> QED
    BY <1>0, <2>1, <2>2 DEF Alone
<1>6. CASE Claim(w)
  <2>1. /\ pc[c] = "claim" /\ pc'[c] = "start" /\ pCurrentMDASendNode' = pNodeData[c]
        /\ UNCHANGED <<Next, Pre, dma, pNodeData, fault>>
    BY <1>0, <1>6 DEF Claim, Goto, lists, Alone
  <2>2. pNodeData[c] \in Nodes /\ dma = NULL
    BY <2>1 DEF Alone
  <2> QED
    BY <1>0, <2>1, <2>2, PtrFacts DEF Alone
<1>7. CASE StartDma(w)
  <2>1. /\ pc[c] = "start" /\ pc'[c] = "idle" /\ dma' = pCurrentMDASendNode
        /\ UNCHANGED <<Next, Pre, pCurrentMDASendNode, pNodeData, fault>>
    BY <1>0, <1>7 DEF StartDma, Goto, lists, Alone
  <2> QED
    BY <1>0, <2>1 DEF Alone
<1>8. CASE LinkFull(w)
  <2> DEFINE p == pNodeData[c]
  <2>1. /\ p \in Nodes /\ UNCHANGED <<pCurrentMDASendNode, dma, pNodeData, fault>>
        /\ pc[c] \in {"link1", "link2", "link3", "link4"}
        /\ pc'[c] \in {"link2", "link3", "link4", "idle"}
    BY <1>0, <1>8 DEF LinkFull, InsertFull, Goto, Alone
  <2>2. \/ Next' = [Next EXCEPT ![Pre[full_list_Tail]] = p] /\ Pre' = Pre
        \/ Pre' = [Pre EXCEPT ![p] = Pre[full_list_Tail]] /\ Next' = Next
        \/ Next' = [Next EXCEPT ![p] = full_list_Tail] /\ Pre' = Pre
        \/ Pre' = [Pre EXCEPT ![full_list_Tail] = p] /\ Next' = Next
    BY <1>0, <1>8 DEF LinkFull, InsertFull
  <2>3. Pre[full_list_Tail] \in Nodes \cup Heads /\ full_list_Tail \in Tails
    BY <1>0 DEF Linked, Tails
  <2> HIDE DEF p
  <2>4. Linked(Next', Pre')
    BY <1>0, <2>1, <2>2, <2>3, PtrFacts DEF Linked, Links
  <2> QED
    BY <1>0, <2>1, <2>4 DEF Alone, Linked, p
<1> QED
  BY <1>1, <1>2, <1>3, <1>4, <1>5, <1>6, <1>7, <1>8 DEF Write

LEMMA AloneInterrupt ==
  ASSUME NEW c \in Writers, Alone(c), DMA1_Channel4_IRQHandler
  PROVE  Alone(c)'
<1>1. /\ dma \in Nodes /\ pCurrentMDASendNode = dma /\ Linked(Next, Pre)
      /\ pc[c] \notin {"claim", "start"}
  BY DEF DMA1_Channel4_IRQHandler, Alone
<1> DEFINE links == Insert_Node_Empty_list(pCurrentMDASendNode)
           taken == Get_Node(full_list_Head, links)
<1>2. /\ Linked(links.next, links.pre)
      /\ Next[empty_list_Head] \in Nodes => links.next[empty_list_Head] \in Nodes
  BY <1>1, InsertEmptyLinked
<1>3. links = [node |-> links.node, next |-> links.next, pre |-> links.pre]
  BY DEF Insert_Node_Empty_list
<1>4. /\ ~FollowsNull(full_list_Head, links) /\ taken.node \in Nodes \cup {NULL}
      /\ Linked(taken.next, taken.pre)
      /\ taken.next[empty_list_Head] = links.next[empty_list_Head]
  <2> HIDE DEF links
  <2>1. full_list_Head \in Heads
    BY DEF Heads
  <2> QED
    BY <1>2, <1>3, <2>1, GetNodeLinked
<1>5. /\ Next' = taken.next /\ Pre' = taken.pre
      /\ pCurrentMDASendNode' = taken.node /\ dma' = taken.node
      /\ UNCHANGED <<fault, pc, pNodeData>>
  BY <1>1, <1>4, PtrFacts DEF DMA1_Channel4_IRQHandler, writers
<1> HIDE DEF links, taken
<1> QED
  BY <1>1, <1>2, <1>4, <1>5 DEF Alone, Linked

\* Nobody changes the way the driver is used, and disorder is not undone.
LEMMA UseFixed ==
  ASSUME Step
  PROVE  use' = use /\ (orderly' => orderly)
<1>1. CASE DMA1_Channel4_IRQHandler
  BY <1>1 DEF DMA1_Channel4_IRQHandler, device
<1>2. ASSUME NEW w \in Writers, Call(w) \/ Write(w) PROVE use' = use /\ (orderly' => orderly)
  BY <1>2 DEF Call, Write, NoEmptyNode, SeeEmptyNode, PickNode, UnlinkNode, FixPre, Fill, Test,
              Claim, StartDma, LinkFull, Crash, device
<1>3. ASSUME NEW w \in Writers, Open(w) \/ Close(w) PROVE use' = use /\ (orderly' => orderly)
  BY <1>3 DEF Open, Close, CloseTest
<1>4. ASSUME NEW w \in Writers, OpenClose(w) PROVE use' = use /\ (orderly' => orderly)
  BY <1>4 DEF OpenClose, OpenLists, OpenFlag, CloseAgain, CloseTest, CloseZero, CloseBusy, FreeNode,
              Closed, Crash, device
<1> QED
  BY <1>1, <1>2, <1>3, <1>4 DEF Step

\* The way the driver is used is one of Uses.
LEMMA UsesHold == Spec => [](use \in Uses)
<1>1. Init => use \in Uses
  BY DEF Init
<1>2. use \in Uses /\ [Step]_vars => (use \in Uses)'
  BY UseFixed DEF vars, device
<1> QED
  BY <1>1, <1>2, PTL DEF Spec

\* With a single client, however fast it writes and wherever DMA1_Channel4 strikes
\* in its calls, neither side follows a NULL pointer.
LEMMA AloneHolds == Spec => [](\A c \in Writers : use.callers = {c} => Alone(c))
<1> DEFINE Inv == \A c \in Writers : use.callers = {c} => Alone(c)
<1>1. Init => Inv
  <2> SUFFICES ASSUME Init, NEW c \in Writers PROVE Alone(c)
    OBVIOUS
  <2>1. ~opened /\ fault # "null"
    BY DEF Init
  <2>2. Next \in Links /\ Pre \in Links
    BY DEF Init, Links
  <2>3. pc \in [Writers -> Label] /\ \A w \in Writers : pc[w] = "out"
    BY DEF Init, Label
  <2>4. /\ pNodeData \in [Writers -> Ptr \cup {NULL}] /\ pCurrentMDASendNode = NULL /\ dma = NULL
    BY DEF Init
  <2> QED
    BY <2>1, <2>2, <2>3, <2>4 DEF Alone, WriteLabel
<1>2. Inv /\ [Step]_vars => Inv'
  <2> SUFFICES ASSUME Inv, [Step]_vars, NEW c \in Writers, use'.callers = {c} PROVE Alone(c)'
    OBVIOUS
  <2>1. CASE UNCHANGED vars
    <3>1. Alone(c) /\ UNCHANGED <<pc, Next, Pre, pNodeData, pCurrentMDASendNode, dma, opened, fault>>
      BY <2>1 DEF vars, device
    <3> QED
      BY <3>1 DEF Alone
  <2>2. CASE Step
    <3>1. use' = use
      BY <2>2, UseFixed
    <3>2. Alone(c) /\ use.callers = {c}
      BY <3>1
    <3> QED
      BY <2>2, <3>2, AloneOpenClose, AloneWrite, AloneInterrupt DEF Step
  <2> QED
    BY <2>1, <2>2
<1> QED
  BY <1>1, <1>2, PTL DEF Spec
-----------------------------------------------------------------------------
(* What a single caller sends                                              *)

\* The statements at which c has had a write accepted that is not handed over
\* yet; at which its node is off the empty list; and at which the last node of
\* the full list leads to it.
Linking == {"link2", "link3", "link4"}
Apart   == {"fixPre", "fill", "test", "claim", "link1"} \cup Linking
Carries == Apart \cup {"unlink"}

\* The n-th write accepted sits in the node f[n].  Those from Low to Top - 1 are
\* on the full list; the one before, if there is a current node, is being sent.
Top(c) == IF pc[c] \in Carries THEN Len(accepted) ELSE Len(accepted) + 1
Low == IF pCurrentMDASendNode = NULL THEN Len(sent) + 1 ELSE Len(sent) + 2
Queued(c) == Len(sent) + 1 .. Top(c) - 1

\* Pre is right at the tail only, and there only while c is not linking.
FullOrder(c, f) ==
  /\ f \in [Nat -> Ptr] /\ Low <= Top(c)
  /\ IF pCurrentMDASendNode = NULL THEN Low = Top(c) ELSE pCurrentMDASendNode = f[Len(sent) + 1]
  /\ \A i \in Queued(c) : f[i] \in Nodes /\ buff[f[i]] = accepted[i]
  /\ \A i, j \in Queued(c) : f[i] = f[j] => i = j
  /\ Next[full_list_Head] = f[Low]
  /\ \A i \in Low .. Top(c) - 1 : Next[f[i]] = f[i + 1]
  /\ IF pc[c] \in Linking
     THEN f[Top(c)] = pNodeData[c]
     ELSE /\ f[Top(c)] = full_list_Tail
          /\ Pre[full_list_Tail] = IF Low = Top(c) THEN full_list_Head ELSE f[Top(c) - 1]
  /\ pc[c] = "link4" => f[Top(c) + 1] = full_list_Tail /\ Next[pNodeData[c]] = full_list_Tail

\* The empty list is e[x], ..., e[y - 1].  When it is empty, Pre of its tail may
\* lead to a node nobody uses any more: then it stays empty for ever.
EmptyOrder(c, e, x, y) ==
  /\ e \in [Nat -> Ptr] /\ x \in Nat /\ y \in Nat /\ x <= y
  /\ \A i \in x .. y - 1 : e[i] \in Nodes /\ Next[e[i]] = e[i + 1]
  /\ \A i, j \in x .. y - 1 : e[i] = e[j] => i = j
  /\ e[y] = empty_list_Tail /\ Next[empty_list_Head] = e[x]
  /\ IF x < y THEN Pre[empty_list_Tail] = e[y - 1] ELSE Pre[empty_list_Tail] \in Nodes \cup {empty_list_Head}
  /\ pc[c] = "unlink" => x < y /\ pNodeData[c] = e[x]
  /\ pc[c] = "fixPre" =>
       IF x < y THEN Next[pNodeData[c]] = e[x]
       ELSE /\ Pre[empty_list_Tail] \in Nodes /\ Next[pNodeData[c]] \in Nodes \cup {empty_list_Tail}
            /\ Pre[empty_list_Tail] = pNodeData[c] => Next[pNodeData[c]] = empty_list_Tail

\* No node is in two places.
Disjoint(c, f, e, x, y) ==
  /\ \A i \in Queued(c) : f[i] # Pre[empty_list_Tail] /\ \A j \in x .. y - 1 : f[i] # e[j]
  /\ pc[c] \in Apart =>
       /\ \A i \in Queued(c) : f[i] # pNodeData[c]
       /\ \A j \in x .. y - 1 : e[j] # pNodeData[c]
       /\ pc[c] # "fixPre" => Pre[empty_list_Tail] # pNodeData[c]

\* c is in the write accepted last, and has seen a transfer when it links.
Mine(c) ==
  /\ pc[c] \in Carries => Len(accepted) > 0 /\ accepted[Len(accepted)] = writing[c]
  /\ pc[c] \in {"test", "claim", "link1"} \cup Linking => buff[pNodeData[c]] = writing[c]
  /\ pc[c] \in {"link1"} \cup Linking => pCurrentMDASendNode # NULL

Ordered(c, f, e, x, y) ==
  /\ opened \/ pc[c] = "flag"
  /\ pc[c] \notin {"lists", "free"}
  /\ FullOrder(c, f) /\ EmptyOrder(c, e, x, y) /\ Disjoint(c, f, e, x, y) /\ Mine(c)

\* Before the first open has initialised the lists.
Prior(c) == /\ ~opened /\ accepted = <<>> /\ sent = <<>> /\ pCurrentMDASendNode = NULL
            /\ pc[c] \in {"out", "lists"}

Prefix == Len(sent) <= Len(accepted) /\ \A i \in 1 .. Len(sent) : sent[i] = accepted[i]

\* What makes SentInOrder inductive for a single caller, besides Alone.  A device
\* that has been closed sends no more.
OrderTypes ==
  /\ accepted \in Seq(Nat) /\ sent \in Seq(Nat) /\ buff \in [Nodes -> Nat]
  /\ writing \in [Writers -> Nat] /\ writes \in Nat
Calm(c) ==
  /\ OrderTypes
  /\ ~activated => Prior(c) /\ pc[c] = "out"
  /\ ~ranDry => /\ Prefix
                /\ usart => Prior(c) \/ \E f, e : \E x, y \in Nat : Ordered(c, f, e, x, y)

\* The links after the lists are initialised.
LEMMA OrderedFirst ==
  ASSUME NEW c \in Writers, Alone(c), OrderTypes, Prior(c), OpenLists(c)
  PROVE  \E f, e : \E x, y \in Nat : Ordered(c, f, e, x, y)'
<1> DEFINE f == [i \in Nat |-> full_list_Tail]
           e == [i \in Nat |-> IF i \in Nodes THEN i ELSE empty_list_Tail]
<1>1. /\ pc'[c] = "flag" /\ accepted' = <<>> /\ sent' = <<>> /\ pCurrentMDASendNode' = NULL
      /\ Next' = Data_Node_list_init.next /\ Pre' = Data_Node_list_init.pre
  BY DEF OpenLists, Goto, Alone, Prior
<1>2. Top(c)' = 1 /\ Low' = 1 /\ Queued(c)' = {}
  BY <1>1 DEF Top, Low, Queued, Carries, Apart, Linking
<1>3. FullOrder(c, f)'
  <2>1. Next'[full_list_Head] = full_list_Tail /\ Pre'[full_list_Tail] = full_list_Head
    BY <1>1, NodeAssumption
    DEF Data_Node_list_init, Nodes, Ptr, NULL, empty_list_Head, empty_list_Tail, full_list_Head, full_list_Tail
  <2>2. full_list_Tail \in Ptr
    BY PtrFacts DEF Tails
  <2> QED
    BY <1>1, <1>2, <2>1, <2>2 DEF FullOrder, Linking
<1>4. EmptyOrder(c, e, 1, NODE_NUM + 1)'
  <2>1. e \in [Nat -> Ptr] /\ e[NODE_NUM + 1] = empty_list_Tail /\ e[1] = 1
        /\ \A i \in 1 .. NODE_NUM : e[i] = i
    BY NodeAssumption DEF Nodes, Ptr, empty_list_Tail
  <2>2. /\ Next'[empty_list_Head] = 1 /\ Pre'[empty_list_Tail] = NODE_NUM
        /\ \A i \in 1 .. NODE_NUM : Next'[i] = IF i = NODE_NUM THEN empty_list_Tail ELSE i + 1
    BY <1>1, NodeAssumption
    DEF Data_Node_list_init, Nodes, Ptr, NULL, empty_list_Head, empty_list_Tail, full_list_Head, full_list_Tail
  <2>3. \A i \in 1 .. NODE_NUM : e[i] \in Nodes /\ Next'[e[i]] = e[i + 1]
    BY <2>1, <2>2, NodeAssumption DEF Nodes
  <2> HIDE DEF e
  <2>4. /\ NODE_NUM + 1 \in Nat /\ 1 < NODE_NUM + 1 /\ 1 .. (NODE_NUM + 1) - 1 = 1 .. NODE_NUM
        /\ (NODE_NUM + 1) - 1 = NODE_NUM /\ NODE_NUM \in 1 .. NODE_NUM
    BY NodeAssumption
  <2> QED
    BY <1>1, <2>1, <2>2, <2>3, <2>4 DEF EmptyOrder
<1>5. Disjoint(c, f, e, 1, NODE_NUM + 1)' /\ Mine(c)'
  BY <1>1, <1>2 DEF Disjoint, Mine, Carries, Apart, Linking
<1>6. Ordered(c, f, e, 1, NODE_NUM + 1)'
  BY <1>1, <1>3, <1>4, <1>5 DEF Ordered
<1> HIDE DEF f, e
<1> QED
  BY <1>6, NodeAssumption

\* Steps that change neither lists nor histories, taken where c carries nothing,
\* or from its test on.
LEMMA OrderedMoves ==
  ASSUME NEW c \in Writers, OrderTypes, NEW f, NEW e, NEW x \in Nat, NEW y \in Nat, Ordered(c, f, e, x, y),
         UNCHANGED <<Next, Pre, buff, pCurrentMDASendNode, pNodeData, accepted, sent>>,
         opened' \/ pc'[c] = "flag", pc'[c] \notin {"lists", "free"},
         \/ pc[c] \notin Carries /\ pc'[c] \notin Carries
         \/ /\ pc[c] = "test" /\ pc'[c] \in {"claim", "link1"} /\ writing' = writing
            /\ pc'[c] = "link1" => pCurrentMDASendNode # NULL
  PROVE  Ordered(c, f, e, x, y)'
<1> USE DEF Carries, Apart, Linking
<1>1. Top(c)' = Top(c) /\ Low' = Low /\ Queued(c)' = Queued(c)
  BY DEF Top, Low, Queued
<1>2. pc[c] \notin Linking /\ pc'[c] \notin Linking \cup {"unlink", "fixPre"}
  OBVIOUS
<1>3. FullOrder(c, f)'
  BY <1>1, <1>2 DEF Ordered, FullOrder
<1>4. EmptyOrder(c, e, x, y)'
  BY <1>2 DEF Ordered, EmptyOrder
<1>5. Disjoint(c, f, e, x, y)'
  BY <1>1 DEF Ordered, Disjoint
<1>6. Mine(c)'
  BY DEF Ordered, Mine
<1> QED
  BY <1>3, <1>4, <1>5, <1>6 DEF Ordered

LEMMA OrderedPickUnlink ==
  ASSUME NEW c \in Writers, Alone(c), OrderTypes, NEW f, NEW e, NEW x \in Nat, NEW y \in Nat,
         Ordered(c, f, e, x, y), PickNode(c) \/ UnlinkNode(c)
  PROVE  \E z \in Nat : Ordered(c, f, e, z, y)'
<1> USE DEF Carries, Apart, Linking
<1>1. CASE PickNode(c)
  <2>1. /\ pc[c] = "pick" /\ pc'[c] = "unlink" /\ pNodeData'[c] = Next[empty_list_Head]
        /\ accepted' = Append(accepted, writing[c])
        /\ UNCHANGED <<opened, Next, Pre, buff, pCurrentMDASendNode, sent, writing>>
    BY <1>1 DEF PickNode, Goto, Alone, device, lists
  <2>2. Next[empty_list_Head] \in Nodes /\ empty_list_Tail \notin Nodes
    BY <2>1, PtrFacts DEF Alone, Tails
  <2>3. /\ Len(accepted') = Len(accepted) + 1 /\ accepted'[Len(accepted) + 1] = writing[c]
        /\ \A i \in 1 .. Len(accepted) : accepted'[i] = accepted[i]
    BY <2>1 DEF OrderTypes
  <2>4. Top(c)' = Top(c) /\ Low' = Low /\ Queued(c)' = Queued(c) /\ Top(c) = Len(accepted) + 1
    BY <2>1, <2>3 DEF Top, Low, Queued
  <2>5. Queued(c) \subseteq 1 .. Len(accepted)
    BY <2>4 DEF Queued, OrderTypes
  <2>6. FullOrder(c, f)'
    <3>1. \A i \in Queued(c) : accepted'[i] = accepted[i]
      BY <2>3, <2>5
    <3> QED
      BY <2>1, <2>4, <3>1 DEF Ordered, FullOrder
  <2>7. EmptyOrder(c, e, x, y)'
    <3>1. e[x] \in Nodes /\ x # y
      BY <2>2 DEF Ordered, EmptyOrder
    <3>2. x < y
      BY <3>1 DEF Ordered, EmptyOrder
    <3> QED
      BY <2>1, <3>2 DEF Ordered, EmptyOrder
  <2>8. Disjoint(c, f, e, x, y)'
    BY <2>1, <2>4 DEF Ordered, Disjoint
  <2>9. Mine(c)'
    BY <2>1, <2>3 DEF Ordered, Mine, OrderTypes
  <2> QED
    BY <2>1, <2>6, <2>7, <2>8, <2>9 DEF Ordered
<1>2. CASE UnlinkNode(c)
  <2>1. /\ pc[c] = "unlink" /\ pc'[c] = "fixPre"
        /\ Next' = [Next EXCEPT ![empty_list_Head] = Next[pNodeData[c]]]
        /\ UNCHANGED <<opened, Pre, buff, pCurrentMDASendNode, pNodeData, accepted, sent, writing>>
    BY <1>2 DEF UnlinkNode, Goto, Alone, device
  <2>2. /\ x < y /\ pNodeData[c] = e[x] /\ e[x] \in Nodes /\ Next[e[x]] = e[x + 1]
        /\ x + 1 \in Nat /\ x + 1 <= y
    BY <2>1 DEF Ordered, EmptyOrder
  <2>3. /\ Next'[empty_list_Head] = e[x + 1]
        /\ \A p \in Nodes \cup {full_list_Head} : Next'[p] = Next[p]
        /\ empty_list_Tail \notin Nodes
    BY <2>1, <2>2, PtrFacts DEF Alone, Links, Heads, Tails
  <2>4. Top(c)' = Top(c) /\ Low' = Low /\ Queued(c)' = Queued(c)
    BY <2>1 DEF Top, Low, Queued
  <2>5. FullOrder(c, f)'
    <3>1. \A i \in Low .. Top(c) - 1 : i \in Queued(c)
      BY DEF Low, Queued, Top, OrderTypes
    <3> QED
      BY <2>1, <2>3, <2>4, <3>1 DEF Ordered, FullOrder
  <2>6. EmptyOrder(c, e, x + 1, y)'
    <3>1. \A i \in x + 1 .. y - 1 : i \in x .. y - 1
      OBVIOUS
    <3>2. /\ \A i \in x + 1 .. y - 1 : e[i] \in Nodes /\ Next'[e[i]] = e[i + 1]
          /\ \A i, j \in x + 1 .. y - 1 : e[i] = e[j] => i = j
          /\ e[y] = empty_list_Tail /\ e \in [Nat -> Ptr] /\ Pre[empty_list_Tail] = e[y - 1]
      BY <2>2, <2>3, <3>1 DEF Ordered, EmptyOrder
    <3>3. CASE x + 1 < y
      BY <2>1, <2>2, <2>3, <3>2, <3>3 DEF EmptyOrder
    <3>4. CASE x + 1 = y
      <4>1. y - 1 = x
        BY <3>4
      <4> QED
        BY <2>1, <2>2, <2>3, <3>2, <3>4, <4>1 DEF EmptyOrder
    <3> QED
      BY <2>2, <3>3, <3>4
  <2>7. Disjoint(c, f, e, x + 1, y)'
    <3>1. \A i \in x + 1 .. y - 1 : i \in x .. y - 1 /\ i # x
      OBVIOUS
    <3>2. x \in x .. y - 1
      BY <2>2
    <3>3. /\ \A i \in Queued(c) : f[i] # Pre[empty_list_Tail] /\ \A j \in x .. y - 1 : f[i] # e[j]
          /\ \A i, j \in x .. y - 1 : e[i] = e[j] => i = j
      BY DEF Ordered, Disjoint, EmptyOrder
    <3> QED
      BY <2>1, <2>2, <2>4, <3>1, <3>2, <3>3 DEF Disjoint
  <2>8. Mine(c)'
    BY <2>1 DEF Ordered, Mine
  <2>9. Ordered(c, f, e, x + 1, y)'
    BY <2>1, <2>5, <2>6, <2>7, <2>8 DEF Ordered
  <2> QED
    BY <2>2, <2>9
<1> QED
  BY <1>1, <1>2

LEMMA OrderedFixPre ==
  ASSUME NEW c \in Writers, Alone(c), OrderTypes, NEW f, NEW e, NEW x \in Nat, NEW y \in Nat,
         Ordered(c, f, e, x, y), FixPre(c)
  PROVE  Ordered(c, f, e, x, y)'
<1> USE DEF Carries, Apart, Linking
<1> DEFINE p == pNodeData[c]
           n == Next[p]
<1>1. pc[c] = "fixPre" /\ p \in Nodes /\ EmptyOrder(c, e, x, y)
  BY DEF FixPre, Alone, WriteLabel, Ordered
<1>2. n \in Nodes \cup {empty_list_Tail} /\ (x < y => n \in Nodes)
  <2>1. CASE x < y
    <3>1. x \in x .. y - 1
      BY <2>1
    <3> QED
      BY <1>1, <2>1, <3>1 DEF EmptyOrder
  <2>2. CASE ~(x < y)
    BY <1>1, <2>2 DEF EmptyOrder
  <2> QED
    BY <2>1, <2>2
<1>3. n \in Ptr /\ n # NULL /\ n # full_list_Tail
  BY <1>2, PtrFacts DEF Tails
<1>4. /\ Pre' = [Pre EXCEPT ![n] = empty_list_Head] /\ pc'[c] = "fill"
      /\ UNCHANGED <<opened, Next, buff, pCurrentMDASendNode, pNodeData, accepted, sent, writing>>
  BY <1>1, <1>3 DEF FixPre, Goto, Alone, device
<1>5. /\ Pre'[full_list_Tail] = Pre[full_list_Tail]
      /\ Pre'[empty_list_Tail] = IF n = empty_list_Tail THEN empty_list_Head ELSE Pre[empty_list_Tail]
      /\ empty_list_Tail \notin Nodes /\ empty_list_Head \notin Nodes
  BY <1>3, <1>4, PtrFacts DEF Alone, Links, Tails, Heads
<1>6. Top(c)' = Top(c) /\ Low' = Low /\ Queued(c)' = Queued(c)
  BY <1>1, <1>4 DEF Top, Low, Queued
<1>7. FullOrder(c, f)'
  BY <1>1, <1>4, <1>5, <1>6 DEF Ordered, FullOrder
<1>8. EmptyOrder(c, e, x, y)'
  <2> HIDE DEF n, p
  <2> QED
    BY <1>1, <1>2, <1>4, <1>5 DEF EmptyOrder
<1>9. Disjoint(c, f, e, x, y)'
  <2>1. Pre'[empty_list_Tail] # p
    <3>1. CASE n = empty_list_Tail
      BY <1>1, <1>5, <3>1
    <3>2. CASE n # empty_list_Tail /\ x < y
      <4>1. Pre[empty_list_Tail] = e[y - 1] /\ y - 1 \in x .. y - 1
        BY <1>1, <3>2 DEF EmptyOrder
      <4> QED
        BY <1>1, <1>5, <3>2, <4>1 DEF Ordered, Disjoint
    <3>3. CASE n # empty_list_Tail /\ ~(x < y)
      BY <1>1, <1>5, <3>3 DEF EmptyOrder
    <3> QED
      BY <3>1, <3>2, <3>3
  <2>2. \A i \in Queued(c) : f[i] # Pre'[empty_list_Tail]
    BY <1>5 DEF Ordered, Disjoint, FullOrder
  <2> QED
    BY <1>1, <1>4, <1>6, <2>1, <2>2 DEF Ordered, Disjoint
<1>10. Mine(c)'
  BY <1>1, <1>4 DEF Ordered, Mine
<1> QED
  BY <1>1, <1>4, <1>7, <1>8, <1>9, <1>10 DEF Ordered

LEMMA OrderedFill ==
  ASSUME NEW c \in Writers, Alone(c), OrderTypes, NEW f, NEW e, NEW x \in Nat, NEW y \in Nat,
         Ordered(c, f, e, x, y), Fill(c)
  PROVE  Ordered(c, f, e, x, y)'
<1> USE DEF Carries, Apart, Linking
<1>1. pc[c] = "fill" /\ pNodeData[c] \in Nodes
  BY DEF Fill, Alone, WriteLabel
<1>2. /\ buff' = [buff EXCEPT ![pNodeData[c]] = writing[c]] /\ pc'[c] = "test"
      /\ UNCHANGED <<opened, Next, Pre, pCurrentMDASendNode, pNodeData, accepted, sent, writing>>
  BY <1>1 DEF Fill, HasData, Goto, Alone, device, lists
<1>3. Top(c)' = Top(c) /\ Low' = Low /\ Queued(c)' = Queued(c)
  BY <1>1, <1>2 DEF Top, Low, Queued
<1>4. \A i \in Queued(c) : buff'[f[i]] = buff[f[i]]
  BY <1>1, <1>2 DEF Ordered, Disjoint, FullOrder, OrderTypes
<1>5. FullOrder(c, f)'
  BY <1>1, <1>2, <1>3, <1>4 DEF Ordered, FullOrder
<1>6. EmptyOrder(c, e, x, y)'
  BY <1>1, <1>2 DEF Ordered, EmptyOrder
<1>7. Disjoint(c, f, e, x, y)'
  BY <1>1, <1>2, <1>3 DEF Ordered, Disjoint
<1>8. Mine(c)'
  BY <1>1, <1>2 DEF Ordered, Mine, OrderTypes
<1> QED
  BY <1>1, <1>2, <1>5, <1>6, <1>7, <1>8 DEF Ordered

\* The write goes straight to the DMA: nothing is queued before it.
LEMMA OrderedClaim ==
  ASSUME NEW c \in Writers, Alone(c), OrderTypes, NEW f, NEW e, NEW x \in Nat, NEW y \in Nat,
         Ordered(c, f, e, x, y), Claim(c)
  PROVE  \E g : Ordered(c, g, e, x, y)'
<1> USE DEF Carries, Apart, Linking
<1> DEFINE p == pNodeData[c]
           a == Len(sent)
<1>1. /\ pc[c] = "claim" /\ pc'[c] = "start" /\ pCurrentMDASendNode' = p
      /\ UNCHANGED <<opened, Next, Pre, buff, pNodeData, accepted, sent, writing>>
  BY DEF Claim, Goto, Alone, device, lists
<1>2. p \in Nodes /\ p \in Ptr /\ p # NULL /\ pCurrentMDASendNode = NULL /\ full_list_Tail \in Ptr /\ full_list_Tail # NULL
  BY <1>1, PtrFacts DEF Alone, WriteLabel, Tails
<1>3. a \in Nat /\ Len(accepted) \in Nat
  BY DEF OrderTypes
<1>4. Low = a + 1 /\ Top(c) = Len(accepted) /\ Len(accepted) = a + 1 /\ f \in [Nat -> Ptr]
  BY <1>1, <1>2 DEF Ordered, FullOrder, Low, Top
<1>5. Low' = a + 2 /\ Top(c)' = a + 2 /\ Queued(c)' = {a + 1}
  <2>1. Low' = a + 2 /\ Top(c)' = a + 2
    BY <1>1, <1>2, <1>3, <1>4 DEF Low, Top
  <2>2. Queued(c)' = a + 1 .. (a + 2) - 1
    BY <1>1, <2>1 DEF Queued
  <2> QED
    BY <1>3, <2>1, <2>2
<1>6. PICK g \in [Nat -> Ptr] : g[a + 1] = p /\ g[a + 2] = full_list_Tail
  <2> DEFINE h == [f EXCEPT ![a + 1] = p, ![a + 2] = full_list_Tail]
  <2>1. h \in [Nat -> Ptr] /\ h[a + 1] = p /\ h[a + 2] = full_list_Tail
    BY <1>2, <1>3, <1>4
  <2> QED
    BY <2>1
<1>7. f[a + 1] = full_list_Tail /\ Next[full_list_Head] = f[a + 1] /\ Pre[full_list_Tail] = full_list_Head
  BY <1>1, <1>4 DEF Ordered, FullOrder
<1>8. buff[p] = accepted[a + 1]
  BY <1>1, <1>4 DEF Ordered, Mine
<1> HIDE DEF p, a
<1>9. FullOrder(c, g)'
  <2>1. a + 2 .. (a + 2) - 1 = {} /\ a' = a
    BY <1>1, <1>3 DEF a
  <2>2. \A i \in Queued(c)' : i = a + 1
    BY <1>5
  <2>3. (Len(sent) + 1)' = a + 1
    BY <1>1 DEF a
  <2> QED
    BY <1>1, <1>2, <1>5, <1>6, <1>7, <1>8, <2>1, <2>2, <2>3 DEF FullOrder
<1>10. EmptyOrder(c, e, x, y)'
  BY <1>1 DEF Ordered, EmptyOrder
<1>11. Disjoint(c, g, e, x, y)'
  <2>1. Pre[empty_list_Tail] # p /\ \A j \in x .. y - 1 : e[j] # p
    BY <1>1 DEF Ordered, Disjoint, p
  <2>2. \A i \in Queued(c)' : g[i] = p
    BY <1>5, <1>6
  <2> QED
    BY <1>1, <2>1, <2>2 DEF Disjoint
<1>12. Mine(c)'
  BY <1>1 DEF Mine
<1>13. Ordered(c, g, e, x, y)'
  BY <1>1, <1>9, <1>10, <1>11, <1>12 DEF Ordered
<1> QED
  BY <1>13

\* Insert_Node_Full_list: the last node of the list, or its head, leads to the
\* node of c first; when Pre of the tail does too, the node is on the list.
LEMMA OrderedLink ==
  ASSUME NEW c \in Writers, Alone(c), OrderTypes, NEW f, NEW e, NEW x \in Nat, NEW y \in Nat,
         Ordered(c, f, e, x, y), LinkFull(c)
  PROVE  \E g : Ordered(c, g, e, x, y)'
<1> USE DEF Carries, Apart, Linking
<1> DEFINE p == pNodeData[c]
           t == Top(c)
<1>1. /\ pc[c] \in {"link1", "link2", "link3", "link4"} /\ pc'[c] \in {"link2", "link3", "link4", "idle"}
      /\ UNCHANGED <<opened, buff, pCurrentMDASendNode, pNodeData, accepted, sent, writing>>
  BY DEF LinkFull, InsertFull, Goto, Alone, device
<1>2. /\ p \in Nodes /\ p \in Ptr /\ full_list_Tail \in Ptr /\ full_list_Tail \notin Nodes
      /\ full_list_Head \notin Nodes /\ empty_list_Head \notin Nodes /\ empty_list_Tail \notin Nodes
      /\ empty_list_Head # full_list_Head /\ empty_list_Tail # full_list_Tail
  BY <1>1, PtrFacts DEF Alone, WriteLabel, Tails, Heads
<1>3. /\ Len(sent) \in Nat /\ Len(accepted) \in Nat /\ t = Len(accepted) /\ Low \in Nat
      /\ Low = Len(sent) + 2 /\ Low <= t /\ f \in [Nat -> Ptr] /\ Low' = Low
      /\ pCurrentMDASendNode # NULL /\ pCurrentMDASendNode = f[Len(sent) + 1]
  BY <1>1 DEF OrderTypes, Top, Low, Ordered, FullOrder, Mine
<1>4. Queued(c) = Len(sent) + 1 .. t - 1 /\ \A i \in Low .. t - 1 : i \in Queued(c)
  BY <1>3 DEF Queued
<1>5. /\ \A i \in Queued(c) : f[i] \in Nodes /\ f[i] # p /\ f[i] # Pre[empty_list_Tail]
                                /\ \A j \in x .. y - 1 : f[i] # e[j]
      /\ \A j \in x .. y - 1 : e[j] \in Nodes /\ e[j] # p
      /\ Pre[empty_list_Tail] # p
  BY <1>1 DEF Ordered, FullOrder, Disjoint, EmptyOrder
<1>6. ASSUME pc'[c] # "idle" PROVE t' = t /\ Queued(c)' = Queued(c)
  BY <1>1, <1>6 DEF Queued, Top
<1>7. ASSUME NEW n \in Ptr, Next' = [Next EXCEPT ![n] = Next'[n]] \/ Next' = Next,
             n = full_list_Head \/ n = p \/ \E i \in Queued(c) : n = f[i],
             Pre'[empty_list_Tail] = Pre[empty_list_Tail]
      PROVE  EmptyOrder(c, e, x, y)'
  <2>1. /\ Next'[empty_list_Head] = Next[empty_list_Head]
        /\ \A j \in x .. y - 1 : Next'[e[j]] = Next[e[j]]
    BY <1>2, <1>5, <1>7, PtrFacts DEF Alone, Links, Heads
  <2> QED
    BY <1>1, <1>7, <2>1 DEF Ordered, EmptyOrder
<1>8. CASE pc[c] = "link1"
  <2> DEFINE n == Pre[full_list_Tail]
  <2>1. pc'[c] = "link2" /\ Next' = [Next EXCEPT ![n] = p] /\ Pre' = Pre
    BY <1>8 DEF LinkFull, InsertFull, Goto, Alone
  <2>2. n = (IF Low = t THEN full_list_Head ELSE f[t - 1]) /\ n \in Ptr
    <3>1. n = IF Low = t THEN full_list_Head ELSE f[t - 1]
      BY <1>8 DEF Ordered, FullOrder
    <3>2. full_list_Head \in Ptr /\ (Low # t => f[t - 1] \in Ptr)
      BY <1>3, PtrFacts DEF Heads
    <3> QED
      BY <3>1, <3>2
  <2>3. PICK g \in [Nat -> Ptr] : g[t] = p /\ \A i \in Nat \ {t} : g[i] = f[i]
    <3> DEFINE h == [f EXCEPT ![t] = p]
    <3>1. h \in [Nat -> Ptr] /\ h[t] = p /\ \A i \in Nat \ {t} : h[i] = f[i]
      BY <1>2, <1>3
    <3> QED
      BY <3>1
  <2>4. t' = t /\ Queued(c)' = Queued(c)
    BY <1>6, <2>1
  <2>5. \A i \in Queued(c) : i \in Nat /\ g[i] = f[i] /\ i < t
    BY <1>3, <1>4, <2>3
  <2>6. /\ Next' \in Links /\ Next'[n] = p /\ \A q \in Ptr \ {n} : Next'[q] = Next[q]
    BY <1>2, <2>1, <2>2 DEF Alone, Links
  <2> HIDE DEF n, t
  <2>7. FullOrder(c, g)'
    <3>1. \A i, j \in Queued(c) : g[i] = g[j] => i = j
      BY <2>5 DEF Ordered, FullOrder
    <3>2. \A i \in Queued(c) : g[i] \in Nodes /\ buff[g[i]] = accepted[i]
      BY <2>5 DEF Ordered, FullOrder
    <3>3. Next'[full_list_Head] = g[Low]
      <4>1. CASE Low = t
        BY <2>2, <2>3, <2>6, <4>1
      <4>2. CASE Low # t
        <5>1. t - 1 \in Queued(c) /\ Low \in Queued(c) /\ full_list_Head \in Ptr
          BY <1>3, <1>4, <4>2, PtrFacts DEF Heads
        <5>2. n # full_list_Head /\ g[Low] = f[Low]
          BY <1>2, <1>5, <2>2, <2>5, <4>2, <5>1
        <5> QED
          BY <2>6, <5>1, <5>2 DEF Ordered, FullOrder
      <4> QED
        BY <4>1, <4>2
    <3>4. \A i \in Low .. t - 1 : Next'[g[i]] = g[i + 1]
      <4> TAKE i \in Low .. t - 1
      <4>1. i \in Queued(c) /\ i \in Nat /\ i < t /\ Low # t /\ t - 1 \in Queued(c) /\ g[i] = f[i] /\ f[i] \in Ptr
        BY <1>3, <1>4, <2>5
      <4>2. CASE i = t - 1
        BY <1>3, <2>2, <2>3, <2>6, <4>1, <4>2
      <4>3. CASE i # t - 1
        <5>1. f[i] # n
          BY <2>2, <4>1, <4>3 DEF Ordered, FullOrder
        <5>2. Next[f[i]] = f[i + 1] /\ g[i + 1] = f[i + 1]
          <6>1. i + 1 \in Nat \ {t}
            BY <1>3, <4>1, <4>3
          <6> QED
            BY <2>3, <6>1 DEF Ordered, FullOrder, t
        <5> QED
          BY <2>6, <4>1, <5>1, <5>2
      <4> QED
        BY <4>2, <4>3
    <3>5. g[Len(sent) + 1] = f[Len(sent) + 1]
      BY <1>3, <1>4, <2>5
    <3> QED
      BY <1>1, <1>3, <2>1, <2>3, <2>4, <3>1, <3>2, <3>3, <3>4, <3>5 DEF FullOrder, t
  <2>8. EmptyOrder(c, e, x, y)'
    <3>1. n = full_list_Head \/ \E i \in Queued(c) : n = f[i]
      <4>1. CASE Low = t
        BY <2>2, <4>1
      <4>2. CASE Low # t
        <5>1. t - 1 \in Queued(c)
          BY <1>3, <1>4, <4>2
        <5> QED
          BY <2>2, <4>2, <5>1
      <4> QED
        BY <4>1, <4>2
    <3>2. Next' = [Next EXCEPT ![n] = Next'[n]]
      BY <2>1, <2>6
    <3> QED
      BY <1>7, <2>1, <2>2, <3>1, <3>2
  <2>9. Disjoint(c, g, e, x, y)'
    BY <1>1, <1>5, <2>1, <2>4, <2>5 DEF Disjoint, p
  <2>10. Mine(c)'
    BY <1>1, <1>8, <2>1 DEF Ordered, Mine
  <2>11. Ordered(c, g, e, x, y)'
    BY <1>1, <1>8, <2>1, <2>7, <2>8, <2>9, <2>10 DEF Ordered
  <2> QED
    BY <2>11
<1>9. CASE pc[c] = "link2"
  <2>1. pc'[c] = "link3" /\ Next' = Next /\ Pre' = [Pre EXCEPT ![p] = Pre[full_list_Tail]]
    BY <1>9 DEF LinkFull, InsertFull, Goto, Alone
  <2>2. Pre'[empty_list_Tail] = Pre[empty_list_Tail]
    BY <1>2, <2>1, PtrFacts DEF Alone, Links, Tails
  <2>3. t' = t /\ Queued(c)' = Queued(c)
    BY <1>6, <2>1
  <2>4. FullOrder(c, f)'
    BY <1>1, <1>3, <1>9, <2>1, <2>3 DEF Ordered, FullOrder
  <2>5. EmptyOrder(c, e, x, y)'
    BY <1>2, <1>7, <2>1, <2>2
  <2>6. Disjoint(c, f, e, x, y)' /\ Mine(c)'
    BY <1>1, <1>9, <2>1, <2>2, <2>3 DEF Ordered, Disjoint, Mine
  <2>7. Ordered(c, f, e, x, y)'
    BY <1>1, <1>9, <2>1, <2>4, <2>5, <2>6 DEF Ordered
  <2> QED
    BY <2>7
<1>10. CASE pc[c] = "link3"
  <2>1. pc'[c] = "link4" /\ Next' = [Next EXCEPT ![p] = full_list_Tail] /\ Pre' = Pre
    BY <1>10 DEF LinkFull, InsertFull, Goto, Alone
  <2>2. PICK g \in [Nat -> Ptr] : g[t + 1] = full_list_Tail /\ \A i \in Nat \ {t + 1} : g[i] = f[i]
    <3> DEFINE h == [f EXCEPT ![t + 1] = full_list_Tail]
    <3>1. h \in [Nat -> Ptr] /\ h[t + 1] = full_list_Tail /\ \A i \in Nat \ {t + 1} : h[i] = f[i]
      BY <1>2, <1>3
    <3> QED
      BY <3>1
  <2>3. t' = t /\ Queued(c)' = Queued(c)
    BY <1>6, <2>1
  <2>4. Next'[p] = full_list_Tail /\ \A q \in Ptr \ {p} : Next'[q] = Next[q]
    BY <1>2, <2>1 DEF Alone, Links
  <2>5. \A i \in Nat : i <= t => g[i] = f[i]
    BY <1>3, <2>2
  <2> HIDE DEF t
  <2>6. FullOrder(c, g)'
    <3>1. \A i \in Queued(c) : i \in Nat /\ i <= t /\ g[i] = f[i]
      BY <1>3, <1>4, <2>5
    <3>2. \A i, j \in Queued(c) : g[i] = g[j] => i = j
      BY <3>1 DEF Ordered, FullOrder
    <3>3. \A i \in Queued(c) : g[i] \in Nodes /\ buff[g[i]] = accepted[i]
      BY <3>1 DEF Ordered, FullOrder
    <3>4. Next'[full_list_Head] = g[Low]
      <4>1. full_list_Head \in Ptr \ {p}
        BY <1>2, PtrFacts DEF Heads
      <4>2. Next[full_list_Head] = f[Low]
        BY DEF Ordered, FullOrder
      <4>3. g[Low] = f[Low]
        BY <1>3, <2>5
      <4> QED
        BY <2>4, <4>1, <4>2, <4>3
    <3>5. \A i \in Low .. t - 1 : Next'[g[i]] = g[i + 1]
      <4> TAKE i \in Low .. t - 1
      <4>1. i \in Queued(c) /\ i \in Nat /\ i + 1 \in Nat /\ i + 1 <= t /\ g[i] = f[i] /\ f[i] \in Ptr \ {p}
        BY <1>3, <1>4, <1>5, <3>1, PtrFacts
      <4>2. Next[f[i]] = f[i + 1]
        BY DEF Ordered, FullOrder, t
      <4> QED
        BY <2>4, <2>5, <4>1, <4>2
    <3>6. g[Len(sent) + 1] = f[Len(sent) + 1] /\ g[t] = p
      BY <1>3, <1>10, <2>5 DEF Ordered, FullOrder, t
    <3> QED
      BY <1>1, <1>3, <2>1, <2>2, <2>3, <2>4, <3>2, <3>3, <3>4, <3>5, <3>6 DEF FullOrder, t
  <2>7. EmptyOrder(c, e, x, y)'
    <3>1. Next' = [Next EXCEPT ![p] = Next'[p]]
      BY <2>1, <2>4
    <3> QED
      BY <1>2, <1>7, <2>1, <3>1
  <2>8. Disjoint(c, g, e, x, y)'
    <3>1. \A i \in Queued(c) : g[i] = f[i]
      BY <1>3, <1>4, <2>5
    <3> QED
      BY <1>1, <1>5, <2>1, <2>3, <3>1 DEF Disjoint, p
  <2>9. Mine(c)'
    BY <1>1, <1>10, <2>1 DEF Ordered, Mine
  <2>10. Ordered(c, g, e, x, y)'
    BY <1>1, <1>10, <2>1, <2>6, <2>7, <2>8, <2>9 DEF Ordered
  <2> QED
    BY <2>10
<1>11. CASE pc[c] = "link4"
  <2>1. pc'[c] = "idle" /\ Next' = Next /\ Pre' = [Pre EXCEPT ![full_list_Tail] = p]
    BY <1>11 DEF LinkFull, InsertFull, Goto, Alone
  <2>2. Pre'[full_list_Tail] = p /\ Pre'[empty_list_Tail] = Pre[empty_list_Tail]
    BY <1>2, <2>1, PtrFacts DEF Alone, Links, Tails
  <2>3. t' = t + 1 /\ Queued(c)' = Queued(c) \cup {t}
    <3>1. t' = t + 1
      BY <1>1, <1>3, <2>1 DEF Top
    <3>2. Queued(c)' = Len(sent) + 1 .. (t + 1) - 1
      BY <1>1, <3>1 DEF Queued
    <3> QED
      BY <1>3, <1>4, <3>1, <3>2
  <2>4. f[t] = p /\ f[t + 1] = full_list_Tail /\ Next[p] = full_list_Tail
    BY <1>11 DEF Ordered, FullOrder
  <2>5. buff[p] = accepted[t]
    BY <1>3, <1>11 DEF Ordered, Mine
  <2> HIDE DEF t
  <2>6. FullOrder(c, f)'
    <3>1. \A i \in Queued(c)' : f[i] \in Nodes /\ buff[f[i]] = accepted[i]
      BY <1>2, <1>5, <2>3, <2>4, <2>5 DEF Ordered, FullOrder
    <3>2. \A i, j \in Queued(c)' : f[i] = f[j] => i = j
      BY <1>5, <2>3, <2>4 DEF Ordered, FullOrder
    <3>3. \A i \in Low .. (t + 1) - 1 : Next[f[i]] = f[i + 1]
      <4> TAKE i \in Low .. (t + 1) - 1
      <4>1. i = t \/ i \in Low .. t - 1
        BY <1>3
      <4> QED
        BY <2>4, <4>1 DEF Ordered, FullOrder, t
    <3>4. Low # t + 1 /\ Low <= t + 1 /\ (t + 1) - 1 = t /\ t + 1 \in Nat
      BY <1>3
    <3>5. Next[full_list_Head] = f[Low]
      BY DEF Ordered, FullOrder
    <3> QED
      BY <1>1, <1>3, <2>1, <2>2, <2>3, <2>4, <3>1, <3>2, <3>3, <3>4, <3>5 DEF FullOrder, t
  <2>7. EmptyOrder(c, e, x, y)'
    BY <1>2, <1>7, <2>1, <2>2
  <2>8. Disjoint(c, f, e, x, y)'
    BY <1>1, <1>5, <2>1, <2>2, <2>3, <2>4 DEF Disjoint, p
  <2>9. Mine(c)'
    BY <2>1 DEF Mine
  <2>10. Ordered(c, f, e, x, y)'
    BY <1>1, <1>11, <2>1, <2>6, <2>7, <2>8, <2>9 DEF Ordered
  <2> QED
    BY <2>10
<1> QED
  BY <1>1, <1>8, <1>9, <1>10, <1>11

\* The handler sends the oldest write accepted and recycles its node, wherever it
\* strikes, as long as the full list does not run dry under c.
LEMMA OrderedInterrupt ==
  ASSUME NEW c \in Writers, Alone(c), OrderTypes, NEW f, NEW e, NEW x \in Nat, NEW y \in Nat,
         Ordered(c, f, e, x, y), Prefix, DMA1_Channel4_IRQHandler, ~ranDry'
  PROVE  Prefix' /\ \E g : \E z \in Nat : Ordered(c, f, g, x, z)'
<1> USE DEF Carries, Apart, Linking
<1> DEFINE p == pNodeData[c]
           r == pCurrentMDASendNode
           a == Len(sent)
           t == Top(c)
           m == Pre[empty_list_Tail]
<1>1. /\ dma \in Nodes /\ r = dma /\ r # NULL /\ Linked(Next, Pre) /\ pc[c] \notin {"claim", "start"}
      /\ UNCHANGED <<pc, pNodeData, buff, accepted, opened, writing>>
      /\ sent' = Append(sent, buff[r])
  BY PtrFacts DEF DMA1_Channel4_IRQHandler, Alone, writers, device
<1>2. /\ a \in Nat /\ Len(accepted) \in Nat /\ t \in Nat /\ t <= Len(accepted) + 1
      /\ Low = a + 2 /\ a + 2 <= t /\ r = f[a + 1] /\ f \in [Nat -> Ptr]
  BY <1>1 DEF OrderTypes, Top, Low, Ordered, FullOrder
<1>3. /\ Queued(c) = a + 1 .. t - 1 /\ a + 1 \in Queued(c)
      /\ \A i \in Low .. t - 1 : i \in Queued(c) /\ i # a + 1
  BY <1>2 DEF Queued
<1>4. /\ \A i \in Queued(c) : f[i] \in Nodes /\ f[i] # m /\ \A j \in x .. y - 1 : f[i] # e[j]
      /\ \A i \in Queued(c) : i # a + 1 => f[i] # r
      /\ pc[c] \in Apart => p # r /\ p \in Nodes
  <2>1. p \in Nodes \/ pc[c] \notin Apart
    BY DEF Alone, WriteLabel
  <2> QED
    BY <1>2, <1>3, <2>1 DEF Ordered, FullOrder, Disjoint
<1>5. a' = a + 1 /\ t' = t /\ Queued(c)' = Low .. t - 1 /\ Prefix'
  <2>1. a' = a + 1 /\ t' = t
    BY <1>1 DEF OrderTypes, Top
  <2>2. Queued(c)' = (a + 1) + 1 .. t - 1
    BY <2>1 DEF Queued
  <2>3. buff[r] = accepted[a + 1]
    BY <1>2, <1>3 DEF Ordered, FullOrder
  <2>4. Prefix'
    <3>1. \A i \in 1 .. a : sent'[i] = sent[i] /\ sent[i] = accepted[i]
      BY <1>1 DEF OrderTypes, Prefix
    <3>2. sent'[a + 1] = accepted[a + 1]
      BY <1>1, <2>3 DEF OrderTypes
    <3>3. \A i \in 1 .. a + 1 : sent'[i] = accepted[i]
      BY <1>2, <3>1, <3>2
    <3>4. a + 1 <= Len(accepted)
      BY <1>2
    <3> QED
      BY <1>1, <2>1, <3>3, <3>4 DEF Prefix
  <2> QED
    BY <1>2, <2>1, <2>2, <2>4
<1>6. /\ m \in Nodes \cup {empty_list_Head} /\ m \in Ptr /\ r \in Ptr /\ r \in Nodes /\ m # r
      /\ full_list_Head \in Ptr /\ full_list_Head \notin Nodes /\ full_list_Head # m /\ full_list_Head # empty_list_Head
      /\ empty_list_Tail \in Ptr /\ empty_list_Tail \notin Nodes /\ full_list_Tail \in Ptr /\ empty_list_Head \in Ptr
      /\ full_list_Tail \notin Nodes /\ full_list_Tail # empty_list_Tail /\ empty_list_Head \notin Nodes
      /\ full_list_Tail # NULL
  <2>1. m \in Nodes \cup {empty_list_Head}
    <3>1. x < y => y - 1 \in x .. y - 1
      OBVIOUS
    <3> QED
      BY <3>1 DEF Ordered, EmptyOrder
  <2>2. m # r
    BY <1>2, <1>3, <1>4
  <2> QED
    BY <1>1, <2>1, <2>2, PtrFacts DEF Heads, Tails
<1> DEFINE links == Insert_Node_Empty_list(r)
           next  == [Next EXCEPT ![m] = r, ![r] = empty_list_Tail]
           pre   == [Pre EXCEPT ![r] = m, ![empty_list_Tail] = r]
<1>7. links = [node |-> r, next |-> next, pre |-> pre]
  BY DEF Insert_Node_Empty_list
<1>8. /\ next \in [Ptr -> Ptr \cup {NULL}] /\ next[m] = r /\ next[r] = empty_list_Tail
      /\ \A q \in Ptr \ {m, r} : next[q] = Next[q]
      /\ pre \in [Ptr -> Ptr \cup {NULL}] /\ pre[empty_list_Tail] = r
      /\ \A q \in Ptr \ {r, empty_list_Tail} : pre[q] = Pre[q]
  BY <1>6 DEF Alone, Links
<1> HIDE DEF p, r, a, t, m, links, next, pre
<1>9. /\ next[full_list_Head] = f[Low]
      /\ \A i \in Low .. t - 1 : f[i] \in Nodes /\ f[i] \in Ptr \ {m, r} /\ next[f[i]] = f[i + 1]
  <2>1. Next[full_list_Head] = f[Low] /\ \A i \in Low .. t - 1 : Next[f[i]] = f[i + 1]
    BY DEF Ordered, FullOrder, t
  <2>2. full_list_Head \in Ptr \ {m, r}
    BY <1>6
  <2>3. \A i \in Low .. t - 1 : f[i] \in Nodes /\ f[i] \in Ptr \ {m, r}
    BY <1>3, <1>4, PtrFacts
  <2> QED
    BY <1>8, <2>1, <2>2, <2>3
<1>10. Low = t => pc[c] \notin {"link1", "link2", "link3", "link4"} /\ f[Low] = full_list_Tail
  <2> SUFFICES ASSUME Low = t PROVE pc[c] \notin {"link1", "link2", "link3", "link4"} /\ f[Low] = full_list_Tail
    OBVIOUS
  <2>1. /\ Next[full_list_Head] = f[t]
        /\ pc[c] \in Linking => f[t] = p
        /\ pc[c] \notin Linking => f[t] = full_list_Tail
    BY DEF Ordered, FullOrder, t, p
  <2>2. ~RunsDry(c)
    BY DEF DMA1_Channel4_IRQHandler
  <2> QED
    BY <2>1, <2>2 DEF RunsDry, p
<1>11. /\ Next' = Get_Node(full_list_Head, links).next /\ Pre' = Get_Node(full_list_Head, links).pre
       /\ pCurrentMDASendNode' = Get_Node(full_list_Head, links).node
  <2>1. ~FollowsNull(full_list_Head, links)
    <3>1. Linked(links.next, links.pre)
      BY <1>1, <1>6, InsertEmptyLinked DEF links
    <3>2. links = [node |-> links.node, next |-> links.next, pre |-> links.pre] /\ full_list_Head \in Heads
      BY <1>7 DEF Heads
    <3> QED
      BY <3>1, <3>2, GetNodeLinked
  <2> QED
    BY <1>1, <2>1 DEF DMA1_Channel4_IRQHandler, links, r
\* What the handler has done to the lists.
<1>12. /\ \A q \in Ptr \ {m, r, full_list_Head} : Next'[q] = Next[q]
       /\ Next'[m] = r /\ Next'[r] = empty_list_Tail /\ Next'[full_list_Head] = f[Low']
       /\ Pre'[empty_list_Tail] = r
       /\ pc[c] \notin Linking => Pre'[full_list_Tail] = IF Low' = t THEN full_list_Head ELSE f[t - 1]
       /\ Low' \in {Low, Low + 1} /\ Low' <= t
       /\ IF Low = t THEN pCurrentMDASendNode' = NULL /\ Low' = t
          ELSE pCurrentMDASendNode' = f[Low] /\ f[Low] # NULL /\ Low' = Low + 1
  <2>1. CASE Low = t
    <3>1. links.next[full_list_Head] \notin Nodes
      BY <1>6, <1>7, <1>9, <1>10, <2>1
    <3>2. Get_Node(full_list_Head, links) = [links EXCEPT !.node = NULL]
      BY <3>1 DEF Get_Node, HasData
    <3>3. Next' = next /\ Pre' = pre /\ pCurrentMDASendNode' = NULL
      BY <1>7, <1>11, <3>2
    <3>4. Low' = Low
      BY <1>2, <1>5, <3>3 DEF Low, a
    <3>5. Pre'[full_list_Tail] = full_list_Head \/ pc[c] \in Linking
      <4>1. full_list_Tail \in Ptr \ {r, empty_list_Tail}
        BY <1>6
      <4>2. pc[c] \notin Linking => Pre[full_list_Tail] = full_list_Head
        BY <2>1 DEF Ordered, FullOrder, t
      <4> QED
        BY <1>8, <3>3, <4>1, <4>2
    <3>6. Low <= t
      BY <1>2
    <3> QED
      BY <1>8, <1>9, <2>1, <3>3, <3>4, <3>5, <3>6
  <2>2. CASE Low # t
    <3> DEFINE q == f[Low + 1]
    <3>1. Low \in Low .. t - 1 /\ Low + 1 <= t /\ Low + 1 \in Nat
      BY <1>2, <2>2
    <3>2. f[Low] \in Nodes /\ next[f[Low]] = q /\ f[Low] # NULL
      BY <1>9, <3>1, PtrFacts
    <3>3. q \in Ptr /\ q # empty_list_Tail /\ (Low + 1 < t => q \in Nodes)
          /\ (Low + 1 = t /\ pc[c] \notin Linking => q = full_list_Tail)
          /\ (Low + 1 = t /\ pc[c] \in Linking => q \in Nodes)
      <4>1. q \in Ptr
        BY <1>2, <3>1
      <4>2. Low + 1 < t => q \in Nodes
        <5>1. Low + 1 < t => Low + 1 \in Low .. t - 1
          BY <1>2, <3>1
        <5> QED
          BY <1>9, <5>1
      <4>3. /\ Low + 1 = t /\ pc[c] \notin Linking => q = full_list_Tail
            /\ Low + 1 = t /\ pc[c] \in Linking => q \in Nodes
        BY <1>4 DEF Ordered, FullOrder, t, p
      <4> QED
        BY <1>2, <1>6, <3>1, <4>1, <4>2, <4>3
    <3>4. Get_Node(full_list_Head, links) =
            [node |-> f[Low], next |-> [next EXCEPT ![full_list_Head] = q], pre |-> [pre EXCEPT ![q] = full_list_Head]]
      BY <1>7, <1>9, <3>2 DEF Get_Node, HasData
    <3>5. /\ Next' = [next EXCEPT ![full_list_Head] = q] /\ Pre' = [pre EXCEPT ![q] = full_list_Head]
          /\ pCurrentMDASendNode' = f[Low]
      BY <1>11, <3>4
    <3>6. Low' = Low + 1
      BY <1>2, <1>5, <3>2, <3>5 DEF Low, a
    <3> HIDE DEF q
    <3>7. /\ Next'[full_list_Head] = q /\ \A s \in Ptr \ {full_list_Head} : Next'[s] = next[s]
          /\ Pre'[q] = full_list_Head /\ \A s \in Ptr \ {q} : Pre'[s] = pre[s]
      BY <1>6, <1>8, <3>3, <3>5
    <3>8. pc[c] \notin Linking => Pre'[full_list_Tail] = IF Low + 1 = t THEN full_list_Head ELSE f[t - 1]
      <4>1. full_list_Tail \in Ptr \ {r, empty_list_Tail}
        BY <1>6
      <4>2. pc[c] \notin Linking => Pre[full_list_Tail] = f[t - 1]
        BY <2>2 DEF Ordered, FullOrder, t
      <4>3. Low + 1 # t => q # full_list_Tail
        BY <1>2, <1>6, <3>1, <3>3
      <4> QED
        BY <1>8, <3>3, <3>7, <4>1, <4>2, <4>3
    <3>9. Pre'[empty_list_Tail] = r
      BY <1>6, <1>8, <3>3, <3>7
    <3>10. Next'[m] = r /\ Next'[r] = empty_list_Tail /\ \A s \in Ptr \ {m, r, full_list_Head} : Next'[s] = Next[s]
      BY <1>6, <1>8, <3>7
    <3>11. Next'[full_list_Head] = f[Low']
      BY <3>6, <3>7 DEF q
    <3> QED
      BY <2>2, <3>1, <3>2, <3>5, <3>6, <3>8, <3>9, <3>10, <3>11
  <2> QED
    BY <2>1, <2>2
<1>13. FullOrder(c, f)'
  <2>1. \A i \in Low .. t - 1 : f[i] \in Nodes /\ buff[f[i]] = accepted[i]
    BY <1>3 DEF Ordered, FullOrder
  <2>2. \A i, j \in Low .. t - 1 : f[i] = f[j] => i = j
    BY <1>3 DEF Ordered, FullOrder
  <2>3. \A i \in Low' .. t - 1 : Next'[f[i]] = f[i + 1]
    <3> TAKE i \in Low' .. t - 1
    <3>1. i \in Low .. t - 1
      BY <1>2, <1>12
    <3>2. f[i] \in Ptr \ {m, r, full_list_Head} /\ Next[f[i]] = f[i + 1]
      BY <1>6, <1>8, <1>9, <3>1
    <3> QED
      BY <1>12, <3>2
  <2>4. (a + 1)' = Low
    BY <1>2, <1>5
  <2>5. pc[c] = "link4" => f[t + 1] = full_list_Tail /\ Next'[p] = full_list_Tail
    <3>1. pc[c] = "link4" => p \in Ptr \ {m, r, full_list_Head}
      BY <1>4, <1>6, PtrFacts DEF Ordered, Disjoint, p, m
    <3> QED
      BY <1>12, <3>1 DEF Ordered, FullOrder, t, p
  <2>6. /\ pc[c] \in Linking => f[t] = p
        /\ pc[c] \notin Linking => f[t] = full_list_Tail
    BY DEF Ordered, FullOrder, t, p
  <2>7. Top(c)' = t /\ (Len(sent) + 1)' = Low /\ p' = pNodeData'[c] /\ p' = p
    BY <1>1, <1>5, <2>4 DEF t, a, p
  <2> QED
    BY <1>1, <1>2, <1>5, <1>12, <2>1, <2>2, <2>3, <2>5, <2>6, <2>7 DEF FullOrder
<1>14. Mine(c)'
  <2>1. pc[c] \in {"link1"} \cup Linking => pCurrentMDASendNode' # NULL
    <3>1. CASE Low = t
      BY <1>10, <3>1
    <3>2. CASE Low # t
      BY <1>12, <3>2
    <3> QED
      BY <3>1, <3>2
  <2> QED
    BY <1>1, <2>1 DEF Ordered, Mine
<1>15. SUFFICES \E g : \E z \in Nat : (EmptyOrder(c, g, x, z) /\ Disjoint(c, f, g, x, z))'
  BY <1>1, <1>5, <1>13, <1>14 DEF Ordered
<1>16. EmptyOrder(c, e, x, y) /\ Disjoint(c, f, e, x, y)
  BY DEF Ordered
<1>17. CASE x < y \/ m = empty_list_Head
  <2>1. PICK g \in [Nat -> Ptr] : g[y] = r /\ g[y + 1] = empty_list_Tail /\ \A i \in Nat \ {y, y + 1} : g[i] = e[i]
    <3> DEFINE h == [e EXCEPT ![y] = r, ![y + 1] = empty_list_Tail]
    <3>1. h \in [Nat -> Ptr] /\ h[y] = r /\ h[y + 1] = empty_list_Tail /\ \A i \in Nat \ {y, y + 1} : h[i] = e[i]
      BY <1>6, <1>16 DEF EmptyOrder
    <3> QED
      BY <3>1
  <2>2. /\ \A j \in x .. y - 1 : g[j] = e[j] /\ e[j] \in Nodes /\ e[j] # r /\ e[j] # full_list_Head /\ e[j] \in Ptr
        /\ \A j \in x .. y - 1 : j # y - 1 => e[j] # m
    <3>1. \A j \in x .. y - 1 : g[j] = e[j]
      <4>1. \A j \in x .. y - 1 : j \in Nat \ {y, y + 1}
        OBVIOUS
      <4> QED
        BY <2>1, <4>1
    <3>2. \A j \in x .. y - 1 : e[j] \in Nodes /\ e[j] # r
      BY <1>2, <1>3, <1>4, <1>16 DEF EmptyOrder
    <3>3. \A j \in x .. y - 1 : j # y - 1 => e[j] # m
      <4> TAKE j \in x .. y - 1
      <4>1. x < y /\ y - 1 \in x .. y - 1
        OBVIOUS
      <4> QED
        BY <1>16, <4>1 DEF EmptyOrder, m
    <3> QED
      BY <1>6, <3>1, <3>2, <3>3, PtrFacts
  <2>3. /\ x < y => m = e[y - 1] /\ y - 1 \in x .. y - 1 /\ g[x] = e[x]
        /\ x = y => m = empty_list_Head
        /\ x <= y
    BY <1>16, <1>17, <2>2 DEF EmptyOrder, m
  <2>4. x .. (y + 1) - 1 = (x .. y - 1) \cup {y} /\ y \notin x .. y - 1 /\ x < y + 1 /\ y + 1 \in Nat
        /\ (y + 1) - 1 = y
    BY <2>3
  <2>5. \A j \in x .. (y + 1) - 1 : g[j] \in Nodes /\ Next'[g[j]] = g[j + 1]
    <3> TAKE j \in x .. (y + 1) - 1
    <3>1. CASE j = y
      BY <1>6, <1>12, <2>1, <3>1
    <3>2. CASE j \in x .. y - 1 /\ j = y - 1
      <4>1. j + 1 = y /\ x < y
        BY <3>2
      <4> QED
        BY <1>12, <2>1, <2>2, <2>3, <3>2, <4>1
    <3>3. CASE j \in x .. y - 1 /\ j # y - 1
      <4>1. j + 1 \in x .. y - 1
        BY <3>3
      <4>2. Next[e[j]] = e[j + 1]
        BY <1>16, <3>3 DEF EmptyOrder
      <4>3. e[j] \in Ptr \ {m, r, full_list_Head}
        BY <2>2, <3>3
      <4> QED
        BY <1>12, <2>2, <3>3, <4>1, <4>2, <4>3
    <3> QED
      BY <2>4, <3>1, <3>2, <3>3
  <2>6. \A i, j \in x .. (y + 1) - 1 : g[i] = g[j] => i = j
    BY <1>16, <2>1, <2>2, <2>4 DEF EmptyOrder
  <2>7. Next'[empty_list_Head] = g[x]
    <3>1. CASE x < y
      <4>1. m \in Nodes
        BY <2>2, <2>3, <3>1
      <4>2. empty_list_Head \in Ptr \ {m, r, full_list_Head}
        BY <1>6, <4>1
      <4> QED
        BY <1>12, <1>16, <2>3, <3>1, <4>2 DEF EmptyOrder
    <3>2. CASE x = y
      BY <1>12, <2>1, <2>3, <3>2
    <3> QED
      BY <2>3, <3>1, <3>2
  <2>8. pc[c] = "unlink" => p = g[x]
    BY <1>16, <2>3 DEF EmptyOrder, p
  <2>9. pc[c] = "fixPre" => Next'[p] = g[x]
    <3> SUFFICES ASSUME pc[c] = "fixPre" PROVE Next'[p] = g[x]
      OBVIOUS
    <3>1. x < y
      <4>1. x = y => m \in Nodes
        BY <1>16 DEF EmptyOrder, m
      <4> QED
        BY <1>6, <2>3, <4>1
    <3>2. p \in Nodes /\ p # r /\ p # m
      BY <1>4, <1>16, <2>3, <3>1 DEF Disjoint, p
    <3>3. p \in Ptr \ {m, r, full_list_Head} /\ Next[p] = e[x]
      BY <1>6, <1>16, <3>1, <3>2, PtrFacts DEF EmptyOrder, p
    <3> QED
      BY <1>12, <2>3, <3>1, <3>3
  <2>10. EmptyOrder(c, g, x, y + 1)'
    BY <1>1, <1>12, <2>1, <2>4, <2>5, <2>6, <2>7, <2>8, <2>9 DEF EmptyOrder, p
  <2>11. Disjoint(c, f, g, x, y + 1)'
    <3>1. \A i \in Low .. t - 1 : f[i] # r /\ \A j \in x .. (y + 1) - 1 : f[i] # g[j]
      BY <1>3, <1>4, <2>1, <2>2, <2>4
    <3>2. pc[c] \in Apart => /\ \A i \in Low .. t - 1 : f[i] # p
                             /\ \A j \in x .. (y + 1) - 1 : g[j] # p
                             /\ p # r
      BY <1>3, <1>4, <1>16, <2>1, <2>2, <2>4 DEF Disjoint, p
    <3> QED
      BY <1>1, <1>5, <1>12, <3>1, <3>2 DEF Disjoint, p
  <2> QED
    BY <2>4, <2>10, <2>11
<1>18. CASE x = y /\ m \in Nodes
  <2>1. e[y] = empty_list_Tail /\ Next[empty_list_Head] = e[x] /\ e \in [Nat -> Ptr] /\ x .. y - 1 = {}
    BY <1>16, <1>18 DEF EmptyOrder
  <2>2. Next'[empty_list_Head] = e[x]
    <3>1. empty_list_Head \in Ptr \ {m, r, full_list_Head}
      BY <1>6, <1>18
    <3> QED
      BY <1>12, <2>1, <3>1
  <2>3. pc[c] = "fixPre" => Next'[p] \in Nodes \cup {empty_list_Tail} /\ p # r
    <3> SUFFICES ASSUME pc[c] = "fixPre" PROVE Next'[p] \in Nodes \cup {empty_list_Tail} /\ p # r
      OBVIOUS
    <3>1. p \in Nodes /\ p # r /\ p \in Ptr /\ p # full_list_Head
      BY <1>4, <1>6, PtrFacts
    <3>2. Next[p] \in Nodes \cup {empty_list_Tail}
      BY <1>16, <1>18 DEF EmptyOrder, p
    <3> QED
      BY <1>6, <1>12, <3>1, <3>2
  <2>4. pc[c] # "unlink"
    BY <1>16, <1>18 DEF EmptyOrder
  <2>5. EmptyOrder(c, e, x, y)'
    BY <1>1, <1>6, <1>12, <1>18, <2>1, <2>2, <2>3, <2>4 DEF EmptyOrder, p
  <2>6. Disjoint(c, f, e, x, y)'
    <3>1. \A i \in Low .. t - 1 : f[i] # r
      BY <1>3, <1>4
    <3>2. pc[c] \in Apart => p # r /\ \A i \in Low .. t - 1 : f[i] # p
      BY <1>3, <1>4, <1>16 DEF Disjoint, p
    <3> QED
      BY <1>1, <1>5, <1>12, <2>1, <3>1, <3>2 DEF Disjoint, p
  <2> QED
    BY <2>5, <2>6
<1> QED
  BY <1>6, <1>16, <1>17, <1>18 DEF EmptyOrder

Settled(c) == \E f, e : \E x, y \in Nat : Ordered(c, f, e, x, y)

LEMMA SettledWrite ==
  ASSUME NEW c \in Writers, Alone(c), OrderTypes, Settled(c), Call(c) \/ Write(c)
  PROVE  Settled(c)'
<1> USE DEF Carries, Apart, Linking
<1>1. PICK f, e : \E x, y \in Nat : Ordered(c, f, e, x, y)
  BY DEF Settled
<1>2. PICK x \in Nat, y \in Nat : Ordered(c, f, e, x, y)
  BY <1>1
<1>3. CASE PickNode(c) \/ UnlinkNode(c)
  BY <1>2, <1>3, OrderedPickUnlink DEF Settled
<1>4. CASE FixPre(c)
  BY <1>2, <1>4, OrderedFixPre DEF Settled
<1>5. CASE Fill(c)
  BY <1>2, <1>5, OrderedFill DEF Settled
<1>6. CASE Claim(c)
  BY <1>2, <1>6, OrderedClaim DEF Settled
<1>7. CASE LinkFull(c)
  BY <1>2, <1>7, OrderedLink DEF Settled
<1>8. CASE Call(c) \/ NoEmptyNode(c) \/ SeeEmptyNode(c) \/ Test(c) \/ StartDma(c)
  <2>1. /\ UNCHANGED <<opened, Next, Pre, buff, pCurrentMDASendNode, pNodeData, accepted, sent>>
        /\ \/ pc[c] \in {"idle", "check", "start"} /\ pc'[c] \in {"check", "pick", "idle"}
           \/ /\ pc[c] = "test" /\ pc'[c] \in {"claim", "link1"} /\ writing' = writing
              /\ pc'[c] = "link1" => pCurrentMDASendNode # NULL
    BY <1>8 DEF Call, NoEmptyNode, SeeEmptyNode, Test, StartDma, Goto, Alone, device, lists
  <2>2. opened'
    BY <1>2, <2>1 DEF Ordered
  <2>3. Ordered(c, f, e, x, y)'
    BY <1>2, <2>1, <2>2, OrderedMoves
  <2> QED
    BY <2>3 DEF Settled
<1> QED
  BY <1>3, <1>4, <1>5, <1>6, <1>7, <1>8 DEF Write

LEMMA CalmWrite ==
  ASSUME NEW c \in Writers, Alone(c), Calm(c), Call(c) \/ Write(c)
  PROVE  Calm(c)'
<1>1. /\ UNCHANGED <<activated, usart>> /\ pc[c] \in WriteLabel \cup {"idle"}
  BY WriteSteps DEF Alone, device
<1>2. ~Prior(c) /\ activated
  BY <1>1 DEF Calm, Prior, WriteLabel
<1>3. /\ UNCHANGED <<sent, ranDry>> /\ accepted' \in {accepted, Append(accepted, writing[c])}
      /\ buff' \in {buff, [buff EXCEPT ![pNodeData[c]] = writing[c]]}
      /\ \/ UNCHANGED <<writing, writes>>
         \/ writes' = writes + 1 /\ writing' = [writing EXCEPT ![c] = writes + 1]
  <2>1. CASE Call(c) \/ NoEmptyNode(c) \/ SeeEmptyNode(c) \/ PickNode(c) \/ UnlinkNode(c) \/ Test(c) \/ Claim(c) \/ LinkFull(c)
    BY <2>1 DEF Call, NoEmptyNode, SeeEmptyNode, PickNode, UnlinkNode, Test, Claim, LinkFull
  <2>2. CASE FixPre(c) \/ Fill(c) \/ StartDma(c)
    BY <2>2 DEF FixPre, Fill, StartDma, Crash, writers
  <2> QED
    BY <2>1, <2>2 DEF Write
<1>4. OrderTypes'
  <2>1. OrderTypes
    BY DEF Calm
  <2>2. writing[c] \in Nat /\ accepted' \in Seq(Nat) /\ sent' \in Seq(Nat)
    <3>1. writing[c] \in Nat /\ accepted \in Seq(Nat) /\ sent' \in Seq(Nat)
      BY <1>3, <2>1 DEF OrderTypes
    <3>2. Append(accepted, writing[c]) \in Seq(Nat)
      BY <3>1
    <3> QED
      BY <1>3, <3>1, <3>2
  <2>3. buff' \in [Nodes -> Nat]
    BY <1>3, <2>1, <2>2 DEF OrderTypes
  <2>4. writing' \in [Writers -> Nat] /\ writes' \in Nat
    BY <1>3, <2>1 DEF OrderTypes
  <2> QED
    BY <2>2, <2>3, <2>4 DEF OrderTypes
<1>5. Prefix => Prefix'
  <2>1. CASE accepted' = accepted
    BY <1>3, <2>1 DEF Prefix
  <2>2. CASE accepted' = Append(accepted, writing[c])
    <3>1. /\ Len(accepted') = Len(accepted) + 1 /\ Len(accepted) \in Nat /\ Len(sent) \in Nat
          /\ \A i \in 1 .. Len(accepted) : accepted'[i] = accepted[i]
      BY <2>2 DEF Calm, OrderTypes
    <3> QED
      BY <1>3, <3>1 DEF Prefix
  <2> QED
    BY <1>3, <2>1, <2>2
<1>6. ~ranDry /\ usart => Settled(c)'
  BY <1>2, SettledWrite DEF Calm, Settled
<1> QED
  BY <1>1, <1>2, <1>3, <1>4, <1>5, <1>6 DEF Calm, Settled

LEMMA CalmOpenClose ==
  ASSUME NEW c \in Writers, Alone(c), Calm(c), Open(c) \/ Close(c) \/ OpenClose(c)
  PROVE  Calm(c)'
<1>1. UNCHANGED <<sent, accepted, ranDry, buff, writing, writes, pCurrentMDASendNode, pNodeData>>
  <2>1. CASE Open(c) \/ Close(c)
    BY <2>1 DEF Open, Close, CloseTest
  <2>2. CASE OpenLists(c) \/ OpenFlag(c) \/ CloseAgain(c)
    BY <2>2 DEF OpenLists, OpenFlag, CloseAgain, CloseTest
  <2>3. CASE CloseZero(c) \/ CloseBusy(c) \/ Closed(c)
    BY <2>3 DEF CloseZero, CloseBusy, Closed
  <2>4. CASE FreeNode(c)
    BY <2>4 DEF FreeNode, Crash, writers
  <2> QED
    BY <2>1, <2>2, <2>3, <2>4 DEF OpenClose
<1>2. OrderTypes' /\ (Prefix => Prefix')
  BY <1>1 DEF Calm, OrderTypes, Prefix
<1>3. CASE Open(c)
  <2>1. /\ pc[c] = "out" /\ activated' = TRUE /\ opened' = opened /\ UNCHANGED <<Next, Pre>>
        /\ pc'[c] = (IF opened THEN "idle" ELSE "lists") /\ usart' = IF activated THEN usart ELSE TRUE
    BY <1>3 DEF Open, Goto, Alone, lists
  <2>2. Prior(c) => Prior(c)'
    BY <1>1, <2>1 DEF Prior
  <2>3. ASSUME Settled(c) PROVE Settled(c)'
    <3>1. PICK f, e : \E x, y \in Nat : Ordered(c, f, e, x, y)
      BY <2>3 DEF Settled
    <3>2. PICK x \in Nat, y \in Nat : Ordered(c, f, e, x, y)
      BY <3>1
    <3>3. opened /\ pc'[c] = "idle"
      BY <2>1, <3>2 DEF Ordered
    <3>4. Ordered(c, f, e, x, y)'
      BY <1>1, <2>1, <3>2, <3>3, OrderedMoves DEF Carries, Apart, Linking, Calm
    <3> QED
      BY <3>4 DEF Settled
  <2>4. ~ranDry /\ usart' => Prior(c) \/ Settled(c)
    BY <2>1 DEF Calm, Settled
  <2> QED
    BY <1>1, <1>2, <2>1, <2>2, <2>3, <2>4 DEF Calm, Settled
<1>4. CASE Close(c) \/ CloseAgain(c) \/ CloseZero(c) \/ OpenFlag(c) \/ CloseBusy(c)
  <2>1. /\ pc[c] \in {"idle", "retry", "zero", "zero2", "flag", "busy", "busy2"} /\ activated' = activated
        /\ pc'[c] \in {"idle", "retry", "zero", "zero2", "busy", "busy2", "out", "free"}
        /\ (opened \/ pc[c] = "flag" => opened') /\ UNCHANGED <<Next, Pre>>
        /\ (usart' => usart /\ pc'[c] # "free")
    <3>1. CASE Close(c) \/ CloseAgain(c)
      BY <3>1 DEF Close, CloseAgain, CloseTest, Goto, Alone, lists
    <3>2. CASE CloseZero(c) \/ OpenFlag(c)
      BY <3>2 DEF CloseZero, OpenFlag, Goto, Alone, lists
    <3>3. CASE CloseBusy(c)
      BY <3>3 DEF CloseBusy, Goto, Alone, lists
    <3> QED
      BY <1>4, <3>1, <3>2, <3>3
  <2>2. ~Prior(c) /\ activated
    BY <2>1 DEF Calm, Prior
  <2>3. ASSUME Settled(c), pc'[c] # "free" PROVE Settled(c)'
    <3>1. PICK f, e : \E x, y \in Nat : Ordered(c, f, e, x, y)
      BY <2>3 DEF Settled
    <3>2. PICK x \in Nat, y \in Nat : Ordered(c, f, e, x, y)
      BY <3>1
    <3>3. opened'
      BY <2>1, <3>2 DEF Ordered
    <3>4. Ordered(c, f, e, x, y)'
      BY <1>1, <2>1, <2>3, <3>2, <3>3, OrderedMoves DEF Carries, Apart, Linking, Calm
    <3> QED
      BY <3>4 DEF Settled
  <2> QED
    BY <1>1, <1>2, <2>1, <2>2, <2>3 DEF Calm, Settled
<1>5. CASE OpenLists(c)
  <2>1. pc[c] = "lists" /\ UNCHANGED <<activated, usart>>
    BY <1>5 DEF OpenLists
  <2>2. activated /\ ~Settled(c)
    BY <2>1 DEF Calm, Settled, Ordered
  <2>3. Prior(c) => Settled(c)'
    BY <1>5, OrderedFirst DEF Calm, Settled
  <2> QED
    BY <1>1, <1>2, <2>1, <2>2, <2>3 DEF Calm, Settled
<1>6. CASE FreeNode(c) \/ Closed(c)
  <2>1. pc[c] = "free" /\ UNCHANGED <<activated, usart>>
    BY <1>6 DEF FreeNode, Closed, Crash, device
  <2>2. activated /\ ~Prior(c) /\ ~Settled(c)
    BY <2>1 DEF Calm, Settled, Ordered, Prior
  <2> QED
    BY <1>1, <1>2, <2>1, <2>2 DEF Calm, Settled
<1> QED
  BY <1>3, <1>4, <1>5, <1>6 DEF OpenClose

LEMMA CalmInterrupt ==
  ASSUME NEW c \in Writers, Alone(c), Calm(c), DMA1_Channel4_IRQHandler
  PROVE  Calm(c)'
<1>1. /\ dma \in Nodes /\ pCurrentMDASendNode = dma /\ pCurrentMDASendNode # NULL
      /\ UNCHANGED <<activated, usart, accepted, buff, writing, writes>>
      /\ sent' = Append(sent, buff[dma]) /\ (ranDry => ranDry')
  BY PtrFacts DEF DMA1_Channel4_IRQHandler, Alone, writers, device
<1>2. activated /\ ~Prior(c) /\ usart
  BY <1>1 DEF Calm, Prior, DMA1_Channel4_IRQHandler
<1>3. OrderTypes'
  BY <1>1 DEF Calm, OrderTypes
<1>4. ASSUME ~ranDry' PROVE Prefix' /\ Settled(c)'
  <2>1. OrderTypes /\ Prefix /\ Settled(c)
    BY <1>1, <1>2, <1>4 DEF Calm, Settled
  <2>2. PICK f, e : \E x, y \in Nat : Ordered(c, f, e, x, y)
    BY <2>1 DEF Settled
  <2>3. PICK x \in Nat, y \in Nat : Ordered(c, f, e, x, y)
    BY <2>2
  <2> QED
    BY <1>4, <2>1, <2>3, OrderedInterrupt DEF Settled
<1> QED
  BY <1>1, <1>2, <1>3, <1>4 DEF Calm, Settled

\* With a single client, everything accepted is sent in its order until the full
\* list runs dry under a writer.
LEMMA CalmHolds == Spec => [](\A c \in Writers : use.callers = {c} => Calm(c))
<1> DEFINE Inv == \A c \in Writers : use.callers = {c} => Calm(c)
           Sole == \A c \in Writers : use.callers = {c} => Alone(c)
<1>1. Init => Inv
  <2> SUFFICES ASSUME Init, NEW c \in Writers PROVE Calm(c)
    OBVIOUS
  <2>1. OrderTypes /\ ~usart
    BY DEF Init, OrderTypes
  <2>2. Prior(c) /\ pc[c] = "out"
    BY DEF Init, Prior
  <2>3. Prefix
    BY DEF Init, Prefix
  <2> QED
    BY <2>1, <2>2, <2>3 DEF Calm
<1>2. Sole /\ Inv /\ [Step]_vars => Inv'
  <2> SUFFICES ASSUME Sole, Inv, [Step]_vars, NEW c \in Writers, use'.callers = {c} PROVE Calm(c)'
    OBVIOUS
  <2>1. CASE UNCHANGED vars
    <3>1. /\ Calm(c)
          /\ UNCHANGED <<pc, Next, Pre, pNodeData, pCurrentMDASendNode, buff, writing, writes, accepted, sent, ranDry>>
          /\ UNCHANGED <<opened, activated, usart>>
      BY <2>1 DEF vars, device
    <3>2. Prior(c)' = Prior(c) /\ Prefix' = Prefix /\ OrderTypes' = OrderTypes
      BY <3>1 DEF Prior, Prefix, OrderTypes
    <3>3. Settled(c)' = Settled(c)
      BY <3>1 DEF Settled, Ordered, FullOrder, EmptyOrder, Disjoint, Mine, Queued, Top, Low
    <3> QED
      BY <3>1, <3>2, <3>3 DEF Calm, Settled
  <2>2. CASE Step
    <3>1. use' = use
      BY <2>2, UseFixed
    <3>2. Alone(c) /\ Calm(c) /\ use.callers = {c}
      BY <3>1
    <3>3. CASE DMA1_Channel4_IRQHandler
      BY <3>2, <3>3, CalmInterrupt
    <3>4. ASSUME NEW w \in Writers, Call(w) \/ Write(w) PROVE Calm(c)'
      <4>1. w = c
        <5>1. pc[w] # "out"
          BY <3>2, <3>4, WriteSteps DEF Alone, WriteLabel
        <5> QED
          BY <3>2, <5>1 DEF Alone
      <4> QED
        BY <3>2, <3>4, <4>1, CalmWrite
    <3>5. ASSUME NEW w \in Writers, Open(w) \/ Close(w) \/ OpenClose(w) PROVE Calm(c)'
      <4>1. w = c
        <5>1. CASE Open(w)
          BY <3>2, <5>1 DEF Open
        <5>2. CASE Close(w) \/ OpenClose(w)
          <6>1. pc[w] # "out"
            BY <5>2 DEF Close, OpenClose, OpenLists, OpenFlag, CloseAgain, CloseZero, CloseBusy, FreeNode, Closed
          <6> QED
            BY <3>2, <6>1 DEF Alone
        <5> QED
          BY <3>5, <5>1, <5>2
      <4> QED
        BY <3>2, <3>5, <4>1, CalmOpenClose
    <3> QED
      BY <2>2, <3>3, <3>4, <3>5 DEF Step
  <2> QED
    BY <2>1, <2>2
<1> QED
  BY <1>1, <1>2, AloneHolds, PTL DEF Spec
\* From Data_Node_list_init to free_node every node has its buffer.
Allocated(c) == ((opened /\ pc[c] # "free") \/ pc[c] = "flag") => live = Nodes

LEMMA AllocatedOpenClose ==
  ASSUME NEW c \in Writers, Alone(c), Allocated(c), Open(c) \/ Close(c) \/ OpenClose(c)
  PROVE  Allocated(c)'
<1>1. CASE Open(c) \/ Close(c) \/ CloseAgain(c)
  <2>1. /\ UNCHANGED <<opened, live>> /\ pc[c] \in {"out", "idle", "retry"}
        /\ pc'[c] \in {"idle", "lists", "zero", "zero2", "out"}
    BY <1>1 DEF Open, Close, CloseAgain, CloseTest, Goto, Alone
  <2> QED
    BY <2>1 DEF Allocated
<1>2. CASE OpenLists(c)
  BY <1>2 DEF OpenLists, Allocated
<1>3. CASE OpenFlag(c)
  BY <1>3 DEF OpenFlag, Allocated
<1>4. CASE CloseZero(c) \/ CloseBusy(c)
  <2>1. /\ UNCHANGED <<opened, live>> /\ pc[c] \in {"zero", "zero2", "busy", "busy2"}
        /\ pc'[c] \in {"busy", "busy2", "retry", "out", "free"}
    BY <1>4 DEF CloseZero, CloseBusy, Goto, Alone
  <2> QED
    BY <2>1 DEF Allocated
<1>5. CASE FreeNode(c)
  <2>1. pc[c] = "free" /\ pc' = pc
    BY <1>5 DEF FreeNode, Crash, writers
  <2> QED
    BY <2>1 DEF Allocated
<1>6. CASE Closed(c)
  <2>1. ~opened' /\ pc'[c] = "out"
    BY <1>6 DEF Closed, Goto, Alone
  <2> QED
    BY <2>1 DEF Allocated
<1> QED
  BY <1>1, <1>2, <1>3, <1>4, <1>5, <1>6 DEF OpenClose

LEMMA AllocatedHolds == Spec => [](\A c \in Writers : use.callers = {c} => Allocated(c))
<1> DEFINE Inv == \A c \in Writers : use.callers = {c} => Allocated(c)
           Sole == \A c \in Writers : use.callers = {c} => Alone(c)
<1>1. Init => Inv
  BY DEF Init, Allocated
<1>2. Sole /\ Inv /\ [Step]_vars => Inv'
  <2> SUFFICES ASSUME Sole, Inv, [Step]_vars, NEW c \in Writers, use'.callers = {c} PROVE Allocated(c)'
    OBVIOUS
  <2>1. use' = use
    BY UseFixed DEF vars, device
  <2>2. Alone(c) /\ Allocated(c) /\ use.callers = {c}
    BY <2>1
  <2>3. CASE UNCHANGED vars
    <3>1. UNCHANGED <<pc, opened, live>>
      BY <2>3 DEF vars, device
    <3> QED
      BY <2>2, <3>1 DEF Allocated
  <2>4. CASE DMA1_Channel4_IRQHandler
    <3>1. UNCHANGED <<pc, opened, live>>
      BY <2>4 DEF DMA1_Channel4_IRQHandler, device, writers
    <3> QED
      BY <2>2, <3>1 DEF Allocated
  <2>5. ASSUME NEW w \in Writers, Call(w) \/ Write(w) PROVE Allocated(c)'
    <3>1. /\ pc \in [Writers -> Label]
          /\ \A v \in Writers \ {c} : pc[v] = "out"
      BY <2>2 DEF Alone
    <3>2. /\ UNCHANGED device /\ pc[w] \in WriteLabel \cup {"idle"} /\ pc'[w] \in WriteLabel \cup {"idle"}
      BY <2>5, <3>1, WriteSteps
    <3>3. w = c
      BY <3>1, <3>2 DEF WriteLabel
    <3> QED
      BY <2>2, <3>2, <3>3 DEF Allocated, device, WriteLabel
  <2>6. ASSUME NEW w \in Writers, Open(w) \/ Close(w) \/ OpenClose(w) PROVE Allocated(c)'
    <3>1. w = c
      <4>1. CASE Open(w)
        BY <2>2, <4>1 DEF Open
      <4>2. CASE Close(w) \/ OpenClose(w)
        <5>1. pc[w] # "out"
          BY <4>2 DEF Close, OpenClose, OpenLists, OpenFlag, CloseAgain, CloseZero, CloseBusy, FreeNode, Closed
        <5> QED
          BY <2>2, <5>1 DEF Alone
      <4> QED
        BY <2>6, <4>1, <4>2
    <3> QED
      BY <2>2, <2>6, <3>1, AllocatedOpenClose
  <2> QED
    BY <2>3, <2>4, <2>5, <2>6 DEF Step
<1> QED
  BY <1>1, <1>2, AloneHolds, PTL DEF Spec
-----------------------------------------------------------------------------
(* Callers that take turns                                                 *)

\* The node k places after r: one node is out at a time and comes back at the
\* end, so the empty list holds the nodes in the order of their numbers, from r
\* on and round.
At(r, k) == IF r + k > NODE_NUM THEN r + k - NODE_NUM ELSE r + k

\* The empty list consists of r and the m - 1 nodes after it.
Chain(r, m) ==
  /\ Next[empty_list_Head] = IF m = 0 THEN empty_list_Tail ELSE r
  /\ \A k \in 0 .. m - 1 : Next[At(r, k)] = IF k + 1 = m THEN empty_list_Tail ELSE At(r, k + 1)
ChainEnd(r, m) == Pre[empty_list_Tail] = IF m = 0 THEN empty_list_Head ELSE At(r, m - 1)

\* A thread in write has taken a node off the list; it is in write at all.
Having == {"fixPre", "fill", "test", "claim", "start"}
Active(w) == pc[w] \in {"check", "pick", "unlink"} \cup Having

NodeOut == dma # NULL \/ \E w \in Writers : pc[w] \in Having
Freeing == \E w \in Writers : pc[w] = "free"
ListsReady == opened \/ \E w \in Writers : pc[w] = "flag"
Unsent == dma # NULL \/ \E w \in Writers : pc[w] \in Having \cup {"unlink"}
Last == accepted[Len(accepted)]

TurnTypes ==
  /\ pc \in [Writers -> Label \ {"link1", "link2", "link3", "link4"}]
  /\ Next \in Links /\ Pre \in Links /\ pNodeData \in [Writers -> Ptr \cup {NULL}]
  /\ pCurrentMDASendNode \in Nodes \cup {NULL}
  /\ buff \in [Nodes -> Nat] /\ writing \in [Writers -> Nat] /\ writes \in Nat
  /\ accepted \in Seq(Nat) /\ sent \in Seq(Nat)

\* One write at a time, and the transfer belongs to the last one.
OneAtATime ==
  /\ \A v, w \in Writers : Active(v) /\ Active(w) => v = w
  /\ \A w \in Writers : (pc[w] \in OpenLabel => ~opened) /\ (pc[w] \in CloseLabel => opened)
  /\ dma # NULL => opened /\ ~Freeing /\ \A w \in Writers : ~Active(w)
  /\ (\A w \in Writers : pc[w] # "start") => pCurrentMDASendNode = dma
  /\ \A w \in Writers : pc[w] = "start" => pCurrentMDASendNode = pNodeData[w]

\* What has left the port, and what is on its way.
InOrder ==
  /\ Len(accepted) = Len(sent) + (IF Unsent THEN 1 ELSE 0)
  /\ \A i \in 1 .. Len(sent) : sent[i] = accepted[i]
  /\ \A w \in Writers : pc[w] \in {"unlink", "fixPre", "fill"} => writing[w] = Last
  /\ \A w \in Writers : pc[w] \in {"test", "claim", "start"} => buff[pNodeData[w]] = Last
  /\ dma # NULL => buff[dma] = Last

\* The lists: the full one stays empty, the empty one is a chain of all nodes, of
\* all but the one that is out, or of those that close has still to free.
ChainOf(r, m) ==
  /\ Chain(r, m)
  /\ ChainEnd(r, m) \/ (m = 0 /\ \E w \in Writers : pc[w] = "fixPre")
  /\ IF Freeing THEN live = {At(r, k) : k \in 0 .. m - 1}
     ELSE live = Nodes /\ m = IF NodeOut THEN NODE_NUM - 1 ELSE NODE_NUM
  /\ \A w \in Writers : pc[w] \in Having => pNodeData[w] = At(r, NODE_NUM - 1)
  /\ dma # NULL => dma = At(r, NODE_NUM - 1)
InLists ==
  /\ ListsReady => /\ Next[full_list_Head] = full_list_Tail
                   /\ \E r \in Nodes : \E m \in 0 .. NODE_NUM : ChainOf(r, m)
  /\ \A w \in Writers : pc[w] = "unlink" => pNodeData[w] = Next[empty_list_Head]
  /\ \A w \in Writers : pc[w] = "fixPre" => Next[pNodeData[w]] = Next[empty_list_Head]

\* What makes BufferOwnership, SentInOrder, NoNodeLost and NoFault inductive for
\* callers that take turns.
Turns == fault = "none" /\ TurnTypes /\ OneAtATime /\ InOrder /\ InLists

\* Going round the nodes.
LEMMA AtFacts ==
  ASSUME NEW r \in Nodes
  PROVE  /\ At(r, 0) = r
         /\ \A k \in 0 .. NODE_NUM - 1 : At(r, k) \in Nodes
         /\ \A j, k \in 0 .. NODE_NUM - 1 : At(r, j) = At(r, k) => j = k
         /\ \A n \in Nodes : \E k \in 0 .. NODE_NUM - 1 : At(r, k) = n
         /\ At(r, 1) \in Nodes
         /\ \A k \in 0 .. NODE_NUM - 2 : At(At(r, 1), k) = At(r, k + 1)
         /\ At(At(r, 1), NODE_NUM - 1) = r
<1> USE NodeAssumption DEF At, Nodes
<1>1. At(r, 0) = r /\ At(r, 1) \in Nodes /\ \A k \in 0 .. NODE_NUM - 1 : At(r, k) \in Nodes
  OBVIOUS
<1>2. \A j, k \in 0 .. NODE_NUM - 1 : At(r, j) = At(r, k) => j = k
  OBVIOUS
<1>3. \A n \in Nodes : \E k \in 0 .. NODE_NUM - 1 : At(r, k) = n
  <2> TAKE n \in Nodes
  <2>1. CASE n >= r
    <3>1. n - r \in 0 .. NODE_NUM - 1 /\ At(r, n - r) = n
      BY <2>1
    <3> QED
      BY <3>1
  <2>2. CASE n < r
    <3>1. n - r + NODE_NUM \in 0 .. NODE_NUM - 1 /\ At(r, n - r + NODE_NUM) = n
      BY <2>2
    <3> QED
      BY <3>1
  <2> QED
    BY <2>1, <2>2
<1>4. /\ \A k \in 0 .. NODE_NUM - 2 : At(At(r, 1), k) = At(r, k + 1)
      /\ At(At(r, 1), NODE_NUM - 1) = r
  OBVIOUS
<1> QED
  BY <1>1, <1>2, <1>3, <1>4

\* While a thread writes, it is the only one, the device is open, and nobody opens
\* or closes it.
LEMMA WritesAlone ==
  ASSUME OpenInv, orderly, OneAtATime, NEW w \in Writers, Active(w)
  PROVE  /\ opened /\ dma = NULL /\ ~Freeing
         /\ \A v \in Writers \ {w} : ~Active(v)
         /\ \A v \in Writers : ~OpeningOrClosing(v)
<1>1. w \in Holders
  BY DEF Holders, Active, OpeningOrClosing, Having
<1>2. \A v \in Writers : ~OpeningOrClosing(v)
  BY <1>1 DEF OpenInv
<1> QED
  BY <1>1, <1>2 DEF OpenInv, OneAtATime, Freeing, OpeningOrClosing

\* While a client opens or closes, nobody else does anything.
LEMMA OpensAlone ==
  ASSUME OpenInv, orderly, NEW w \in Writers, OpeningOrClosing(w)
  PROVE  \A v \in Writers \ {w} : pc[v] = "out"
BY DEF OpenInv, Holders

\* Steps that only move a thread between statements that own no node.
LEMMA TurnsMoves ==
  ASSUME Turns, NEW w \in Writers,
         NEW l \in {"out", "idle", "lists", "check", "pick", "zero", "busy", "retry", "zero2", "busy2"},
         pc' = [pc EXCEPT ![w] = l],
         pc[w] \notin Having \cup {"unlink", "free", "lists"},
         UNCHANGED <<Next, Pre, pNodeData, pCurrentMDASendNode, dma, buff, accepted, sent, live, fault>>,
         \A v \in Writers \ {w} : writing'[v] = writing[v],
         writing' \in [Writers -> Nat], writes' \in Nat,
         l \in {"check", "pick"} => dma = NULL /\ \A v \in Writers \ {w} : ~Active(v),
         l = "lists" => ~opened, l \in CloseLabel => opened,
         \/ opened' = opened /\ pc[w] # "flag"
         \/ pc[w] = "flag" /\ l = "idle" /\ opened' /\ \A v \in Writers \ {w} : pc[v] = "out"
  PROVE  Turns'
<1> USE DEF Label, OpenLabel, CloseLabel, WriteLabel
<1>1. /\ pc \in [Writers -> Label \ {"link1", "link2", "link3", "link4"}]
      /\ pc'[w] = l /\ \A v \in Writers \ {w} : pc'[v] = pc[v]
      /\ pc' \in [Writers -> Label \ {"link1", "link2", "link3", "link4"}]
  BY DEF Turns, TurnTypes
<1>2. /\ \A v \in Writers : pc[v] \in Having \cup {"unlink", "free"}
                              \/ pc'[v] \in Having \cup {"unlink", "free"} => pc'[v] = pc[v] /\ v # w
  BY <1>1 DEF Having
<1>3. /\ Freeing' <=> Freeing
      /\ NodeOut' <=> NodeOut
      /\ Unsent' <=> Unsent
  BY <1>2 DEF Freeing, NodeOut, Unsent, Having
<1>4. ListsReady' <=> ListsReady
  BY <1>1 DEF ListsReady
<1>5. TurnTypes'
  BY <1>1 DEF Turns, TurnTypes
<1>6. OneAtATime'
  <2>1. \A v \in Writers : Active(v)' => Active(v) \/ (v = w /\ l \in {"check", "pick"})
    BY <1>1 DEF Active, Having
  <2>2. \A u, v \in Writers : Active(u)' /\ Active(v)' => u = v
    BY <2>1 DEF Turns, OneAtATime
  <2>3. \A v \in Writers : pc'[v] = "start" <=> pc[v] = "start"
    BY <1>2 DEF Having
  <2>4. \A v \in Writers : /\ pc'[v] \in OpenLabel => ~opened'
                           /\ pc'[v] \in CloseLabel => opened'
    BY <1>1 DEF Turns, OneAtATime
  <2> QED
    BY <1>1, <1>3, <2>1, <2>2, <2>3, <2>4 DEF Turns, OneAtATime
<1>7. InOrder'
  BY <1>1, <1>2, <1>3 DEF Turns, InOrder, Last, Having
<1>8. ASSUME NEW r, NEW m, ChainOf(r, m) PROVE ChainOf(r, m)'
  <2>1. Chain(r, m)' /\ (ChainEnd(r, m)' <=> ChainEnd(r, m))
    BY <1>8 DEF ChainOf, Chain, ChainEnd
  <2>2. \A v \in Writers : pc'[v] \in Having \/ pc[v] \in Having => pc'[v] = pc[v]
    BY <1>2
  <2> QED
    BY <1>3, <1>8, <2>1, <2>2 DEF ChainOf, Having
<1>9. InLists'
  BY <1>2, <1>4, <1>8 DEF Turns, InLists
<1> QED
  BY <1>5, <1>6, <1>7, <1>9 DEF Turns

LEMMA TurnsOpenClose ==
  ASSUME OpenInv, Turns, NEW w \in Writers, orderly,
         \/ Open(w) \/ Close(w) \/ OpenFlag(w) \/ CloseAgain(w) \/ CloseZero(w)
  PROVE  Turns'
<1> USE DEF OpenLabel, CloseLabel
<1>1. writing \in [Writers -> Nat] /\ writes \in Nat
  BY DEF Turns, TurnTypes
<1>2. CASE Open(w)
  <2>1. PICK l \in {"idle", "lists"} : pc' = [pc EXCEPT ![w] = l] /\ (l = "lists" => ~opened)
    BY <1>2 DEF Open, Goto
  <2> QED
    BY <1>1, <1>2, <2>1, TurnsMoves DEF Open, lists, Having
<1>3. CASE Close(w) \/ CloseAgain(w)
  <2>1. PICK l \in {"out", "zero", "zero2"} : pc' = [pc EXCEPT ![w] = l] /\ (l # "out" => opened)
    BY <1>3 DEF Close, CloseAgain, CloseTest, Goto
  <2>2. pc[w] \in {"idle", "retry"}
    BY <1>3 DEF Close, CloseAgain
  <2> QED
    BY <1>1, <1>3, <2>1, <2>2, TurnsMoves DEF Close, CloseAgain, CloseTest, lists, Having
<1>4. CASE CloseZero(w)
  <2>1. PICK l \in {"busy", "busy2"} : pc' = [pc EXCEPT ![w] = l] /\ opened
    BY <1>4 DEF CloseZero, Goto, Turns, OneAtATime, CloseLabel
  <2> QED
    BY <1>1, <1>4, <2>1, TurnsMoves DEF CloseZero, lists, Having
<1>5. CASE OpenFlag(w)
  <2>1. \A v \in Writers \ {w} : pc[v] = "out"
    BY <1>5, OpensAlone DEF OpenFlag, OpeningOrClosing
  <2> QED
    BY <1>1, <1>5, <2>1, TurnsMoves DEF OpenFlag, Goto, lists, Having
<1> QED
  BY <1>2, <1>3, <1>4, <1>5

\* close when the device is busy, or not.
LEMMA TurnsCloseBusy ==
  ASSUME OpenInv, Turns, NEW w \in Writers, orderly, CloseBusy(w)
  PROVE  Turns'
<1> USE DEF Label, OpenLabel, CloseLabel, WriteLabel
<1>1. writing \in [Writers -> Nat] /\ writes \in Nat
  BY DEF Turns, TurnTypes
<1>2. pc[w] \in {"busy", "busy2"} /\ \A v \in Writers \ {w} : pc[v] = "out"
  BY OpensAlone DEF CloseBusy, OpeningOrClosing
<1>3. CASE pCurrentMDASendNode # NULL
  <2>1. PICK l \in {"retry", "out"} : pc' = [pc EXCEPT ![w] = l] /\ opened
    BY <1>2, <1>3 DEF CloseBusy, Goto, Turns, OneAtATime
  <2> QED
    BY <1>1, <1>2, <1>3, <2>1, TurnsMoves DEF CloseBusy, lists, Having
<1>4. CASE pCurrentMDASendNode = NULL
  <2>1. /\ pc' = [pc EXCEPT ![w] = "free"] /\ dma' = NULL
        /\ UNCHANGED <<Next, Pre, live, opened, buff, pCurrentMDASendNode, pNodeData, writing, writes,
                       accepted, sent, fault>>
    BY <1>4 DEF CloseBusy, Goto, lists
  <2>2. \A v \in Writers : pc[v] # "start"
    BY <1>2
  <2>3. dma = NULL
    BY <1>4, <2>2 DEF Turns, OneAtATime
  <2>4. /\ pc' \in [Writers -> Label \ {"link1", "link2", "link3", "link4"}]
        /\ pc'[w] = "free" /\ \A v \in Writers \ {w} : pc'[v] = "out"
    BY <1>2, <2>1 DEF Turns, TurnTypes
  <2>5. ~NodeOut /\ ~Freeing /\ ~Unsent /\ ~Unsent' /\ Freeing' /\ (ListsReady' => ListsReady)
    BY <1>2, <2>1, <2>3, <2>4 DEF NodeOut, Freeing, Unsent, Having, ListsReady
  <2>6. TurnTypes' /\ OneAtATime'
    <3>1. opened
      BY <1>2 DEF Turns, OneAtATime
    <3> QED
      BY <2>1, <2>4, <2>2, <2>3, <3>1 DEF Turns, TurnTypes, OneAtATime, Active, Having
  <2>7. InOrder'
    BY <2>1, <2>4, <2>5 DEF Turns, InOrder
  <2>8. ASSUME NEW r \in Nodes, NEW m \in 0 .. NODE_NUM, ChainOf(r, m) PROVE ChainOf(r, m)'
    <3>1. m = NODE_NUM /\ live = Nodes /\ Chain(r, m) /\ ChainEnd(r, m)
      BY <1>2, <2>5, <2>8 DEF ChainOf
    <3>2. Nodes = {At(r, k) : k \in 0 .. m - 1}
      BY <3>1, AtFacts
    <3>3. Chain(r, m)' /\ ChainEnd(r, m)' /\ live' = {At(r, k) : k \in 0 .. m - 1}
      BY <2>1, <3>1, <3>2 DEF Chain, ChainEnd
    <3> QED
      BY <2>1, <2>4, <2>5, <3>3 DEF ChainOf, Having
  <2>9. InLists'
    BY <2>1, <2>4, <2>5, <2>8 DEF Turns, InLists
  <2> QED
    BY <2>1, <2>6, <2>7, <2>9 DEF Turns
<1> QED
  BY <1>3, <1>4

\* The lists are set up afresh.
LEMMA TurnsOpenLists ==
  ASSUME OpenInv, Turns, NEW w \in Writers, orderly, OpenLists(w)
  PROVE  Turns'
<1> USE DEF Label, OpenLabel, CloseLabel, WriteLabel
<1>1. pc[w] = "lists" /\ \A v \in Writers \ {w} : pc[v] = "out"
  BY OpensAlone DEF OpenLists, OpeningOrClosing
<1>2. /\ pc' = [pc EXCEPT ![w] = "flag"] /\ live' = Nodes
      /\ UNCHANGED <<opened, buff, dma, pCurrentMDASendNode, pNodeData, writing, writes,
                     accepted, sent, fault>>
      /\ Next' = Data_Node_list_init.next /\ Pre' = Data_Node_list_init.pre
  BY DEF OpenLists, Goto
<1>3. ~opened /\ dma = NULL /\ pCurrentMDASendNode = NULL
  <2>1. ~opened
    BY <1>1 DEF Turns, OneAtATime
  <2>2. \A v \in Writers : pc[v] # "start"
    BY <1>1
  <2> QED
    BY <2>1, <2>2 DEF Turns, OneAtATime
<1>4. /\ pc' \in [Writers -> Label \ {"link1", "link2", "link3", "link4"}]
      /\ pc'[w] = "flag" /\ \A v \in Writers \ {w} : pc'[v] = "out"
  BY <1>1, <1>2 DEF Turns, TurnTypes
<1>5. ~NodeOut' /\ ~Freeing' /\ ~Unsent' /\ ~Unsent
  BY <1>1, <1>2, <1>3, <1>4 DEF NodeOut, Freeing, Unsent, Having
<1>6. TurnTypes' /\ OneAtATime'
  <2>1. Next' \in Links /\ Pre' \in Links
    BY <1>2, ListInitLinked DEF Linked
  <2> QED
    BY <1>2, <1>3, <1>4, <2>1 DEF Turns, TurnTypes, OneAtATime, Active, Having
<1>7. InOrder'
  BY <1>2, <1>3, <1>4, <1>5 DEF Turns, InOrder
<1>8. ChainOf(1, NODE_NUM)' /\ 1 \in Nodes
  <2>1. /\ \A n \in Nodes \ {NODE_NUM} : Next'[n] = n + 1
        /\ Next'[NODE_NUM] = empty_list_Tail /\ Next'[empty_list_Head] = 1
        /\ Pre'[empty_list_Tail] = NODE_NUM
    BY <1>2, NodeAssumption DEF Data_Node_list_init, Ptr, Nodes, empty_list_Head, empty_list_Tail,
                                full_list_Head, full_list_Tail
  <2>2. Chain(1, NODE_NUM)' /\ ChainEnd(1, NODE_NUM)' /\ 1 \in Nodes
    BY <2>1, NodeAssumption DEF Chain, ChainEnd, At, Nodes
  <2> QED
    BY <1>2, <1>3, <1>4, <1>5, <2>2 DEF ChainOf, Having
<1>9. Next'[full_list_Head] = full_list_Tail
  BY <1>2, NodeAssumption DEF Data_Node_list_init, Ptr, Nodes, empty_list_Head, empty_list_Tail,
                              full_list_Head, full_list_Tail
<1>10. InLists'
  <2>1. NODE_NUM \in 0 .. NODE_NUM
    BY NodeAssumption
  <2> QED
    BY <1>4, <1>8, <1>9, <2>1 DEF InLists
<1> QED
  BY <1>2, <1>6, <1>7, <1>10 DEF Turns

\* The last buffer has been freed.
LEMMA TurnsClosed ==
  ASSUME OpenInv, Turns, NEW w \in Writers, orderly, Closed(w)
  PROVE  Turns'
<1> USE DEF Label, OpenLabel, CloseLabel, WriteLabel
<1>1. pc[w] = "free" /\ \A v \in Writers \ {w} : pc[v] = "out"
  BY OpensAlone DEF Closed, OpeningOrClosing
<1>2. /\ pc' = [pc EXCEPT ![w] = "out"]
      /\ UNCHANGED <<Next, Pre, live, buff, dma, pCurrentMDASendNode, pNodeData, writing, writes,
                     accepted, sent, fault>>
  BY DEF Closed, Goto, lists
<1>3. ~opened' /\ dma = NULL /\ pCurrentMDASendNode = NULL
  BY <1>1 DEF Closed, Turns, OneAtATime, Freeing
<1>4. /\ pc' \in [Writers -> Label \ {"link1", "link2", "link3", "link4"}]
      /\ \A v \in Writers : pc'[v] = "out"
  BY <1>1, <1>2 DEF Turns, TurnTypes
<1>5. ~Unsent' /\ ~Unsent /\ ~ListsReady'
  BY <1>1, <1>2, <1>3, <1>4 DEF Unsent, Having, ListsReady
<1>6. TurnTypes' /\ OneAtATime'
  BY <1>2, <1>3, <1>4 DEF Turns, TurnTypes, OneAtATime, Active, Having
<1>7. InOrder'
  BY <1>2, <1>3, <1>4, <1>5 DEF Turns, InOrder
<1>8. InLists'
  BY <1>4, <1>5 DEF InLists
<1> QED
  BY <1>2, <1>6, <1>7, <1>8 DEF Turns

\* Taking the first node off the chain.
LEMMA ChainLosesFirst ==
  ASSUME NEW r \in Nodes, NEW m \in 1 .. NODE_NUM, Chain(r, m), Next \in Links,
         Next' = [Next EXCEPT ![empty_list_Head] = Next[r]]
  PROVE  Chain(At(r, 1), m - 1)'
<1>1. /\ r = At(r, 0) /\ At(r, 1) \in Nodes
      /\ \A k \in 0 .. NODE_NUM - 1 : At(r, k) \in Nodes
      /\ \A k \in 0 .. NODE_NUM - 2 : At(At(r, 1), k) = At(r, k + 1)
  BY AtFacts
<1>2. Next[r] = IF m = 1 THEN empty_list_Tail ELSE At(r, 1)
  <2>1. 0 \in 0 .. m - 1
    OBVIOUS
  <2> QED
    BY <1>1, <2>1 DEF Chain
<1>3. Next'[empty_list_Head] = Next[r] /\ \A n \in Nodes : Next'[n] = Next[n]
  BY PtrFacts DEF Links, Heads
<1>4. ASSUME NEW k \in 0 .. m - 2
      PROVE  Next'[At(At(r, 1), k)] = IF k + 1 = m - 1 THEN empty_list_Tail ELSE At(At(r, 1), k + 1)
  <2>1. At(At(r, 1), k) = At(r, k + 1) /\ k + 1 \in 0 .. m - 1 /\ At(r, k + 1) \in Nodes
    BY <1>1, NodeAssumption
  <2>2. Next[At(r, k + 1)] = IF k + 2 = m THEN empty_list_Tail ELSE At(r, k + 2)
    BY <2>1 DEF Chain
  <2>3. k + 2 # m => At(At(r, 1), k + 1) = At(r, k + 2)
    BY <1>1, NodeAssumption
  <2> QED
    BY <1>3, <2>1, <2>2, <2>3
<1>5. Next'[empty_list_Head] = IF m - 1 = 0 THEN empty_list_Tail ELSE At(r, 1)
  BY <1>2, <1>3
<1> QED
  BY <1>4, <1>5 DEF Chain

LEMMA TurnsFreeNode ==
  ASSUME OpenInv, Turns, NEW w \in Writers, orderly, FreeNode(w)
  PROVE  Turns'
<1>1. pc[w] = "free" /\ \A v \in Writers \ {w} : pc[v] = "out"
  BY OpensAlone DEF FreeNode, OpeningOrClosing
<1>2. /\ Freeing /\ dma = NULL /\ Next \in Links /\ Pre \in Links
      /\ HasData(Next[empty_list_Head]) \/ HasData(Next[full_list_Head])
  BY <1>1 DEF Turns, TurnTypes, OneAtATime, Freeing, FreeNode
<1>3. ListsReady
  BY <1>1 DEF Turns, OneAtATime, CloseLabel, ListsReady
<1> QED
  <2>1. PICK r \in Nodes, m \in 0 .. NODE_NUM : ChainOf(r, m)
    BY <1>3 DEF Turns, InLists
  <2>2. Chain(r, m) /\ ChainEnd(r, m) /\ live = {At(r, k) : k \in 0 .. m - 1}
    BY <1>1, <1>2, <2>1 DEF ChainOf
  <2>3. Next[full_list_Head] = full_list_Tail /\ ~HasData(Next[full_list_Head])
    BY <1>3, PtrFacts DEF Turns, InLists, HasData, Tails
  <2>4. m \in 1 .. NODE_NUM /\ Next[empty_list_Head] = r
    BY <1>2, <2>2, <2>3, PtrFacts DEF Chain, HasData, Tails
  <2>5. Next[r] = IF m = 1 THEN empty_list_Tail ELSE At(r, 1)
    BY <2>2, <2>4, AtFacts DEF Chain
  <2>6. At(r, 1) \in Nodes /\ Next[r] # NULL /\ r \in live
    BY <2>2, <2>4, <2>5, AtFacts, PtrFacts DEF Tails
  <2> DEFINE links == [node |-> NULL, next |-> Next, pre |-> Pre]
             taken == Get_Node(empty_list_Head, links)
  <2>7. /\ taken.node = r /\ taken.next = [Next EXCEPT ![empty_list_Head] = Next[r]]
        /\ taken.pre = [Pre EXCEPT ![Next[r]] = empty_list_Head]
        /\ ~FollowsNull(empty_list_Head, links)
    BY <2>4, <2>6, PtrFacts DEF Get_Node, FollowsNull, HasData
  <2>8. /\ Next' = [Next EXCEPT ![empty_list_Head] = Next[r]]
        /\ Pre' = [Pre EXCEPT ![Next[r]] = empty_list_Head]
        /\ live' = live \ {r}
        /\ UNCHANGED <<opened, buff, pCurrentMDASendNode, dma, pc, pNodeData, writing, writes, accepted,
                       sent, fault>>
    BY <2>3, <2>6, <2>7 DEF FreeNode, writers
  <2>9. Chain(At(r, 1), m - 1)'
    BY <1>2, <2>2, <2>4, <2>8, ChainLosesFirst
  <2>10. ChainEnd(At(r, 1), m - 1)'
    <3>1. CASE m = 1
      <4>1. Next[r] = empty_list_Tail /\ empty_list_Tail \in Ptr
        BY <2>5, <3>1, PtrFacts DEF Tails
      <4> QED
        BY <1>2, <2>8, <3>1, <4>1 DEF ChainEnd, Links
    <3>2. CASE m # 1
      <4>1. Pre'[empty_list_Tail] = Pre[empty_list_Tail]
        BY <1>2, <2>5, <2>6, <2>8, <3>2, PtrFacts DEF Links, Tails
      <4>2. At(At(r, 1), m - 2) = At(r, m - 1)
        BY <2>4, <3>2, AtFacts, NodeAssumption
      <4> QED
        BY <2>2, <2>4, <3>2, <4>1, <4>2 DEF ChainEnd
    <3> QED
      BY <3>1, <3>2
  <2>11. live' = {At(At(r, 1), k) : k \in 0 .. m - 2}
    <3>1. \A n : (n \in live /\ n # r) <=> \E k \in 1 .. m - 1 : n = At(r, k)
      <4>1. \A k \in 0 .. m - 1 : At(r, k) = r <=> k = 0
        BY <2>4, NodeAssumption DEF At, Nodes
      <4>2. /\ \A k \in 0 .. m - 1 : k # 0 => k \in 1 .. m - 1
            /\ \A k \in 1 .. m - 1 : k \in 0 .. m - 1 /\ k # 0
        BY <2>4, NodeAssumption
      <4>3. \A n : n \in live <=> \E k \in 0 .. m - 1 : n = At(r, k)
        BY <2>2
      <4> QED
        BY <4>1, <4>2, <4>3, Zenon
    <3>2. \A n : (\E k \in 1 .. m - 1 : n = At(r, k)) <=> (\E k \in 0 .. m - 2 : n = At(At(r, 1), k))
      <4>1. \A k \in 1 .. m - 1 : k - 1 \in 0 .. m - 2 /\ At(At(r, 1), k - 1) = At(r, k)
        BY <2>4, AtFacts, NodeAssumption
      <4>2. \A k \in 0 .. m - 2 : k + 1 \in 1 .. m - 1 /\ At(At(r, 1), k) = At(r, k + 1)
        BY <2>4, AtFacts, NodeAssumption
      <4> QED
        BY <4>1, <4>2
    <3> QED
      BY <2>8, <3>1, <3>2
  <2>12. Freeing' /\ (ListsReady' <=> ListsReady) /\ (Unsent' <=> Unsent)
    BY <1>2, <2>8 DEF Freeing, ListsReady, Unsent
  <2>13. ChainOf(At(r, 1), m - 1)'
    BY <1>1, <1>2, <2>8, <2>9, <2>10, <2>11, <2>12 DEF ChainOf, Having
  <2>14. InLists'
    <3>1. Next'[full_list_Head] = full_list_Tail
      BY <1>2, <2>3, <2>8, PtrFacts DEF Links, Heads
    <3>2. m - 1 \in 0 .. NODE_NUM
      BY <2>4, NodeAssumption
    <3> QED
      BY <1>1, <2>6, <2>8, <2>13, <3>1, <3>2 DEF InLists
  <2>15. TurnTypes' /\ OneAtATime'
    <3>1. Next' \in Links /\ Pre' \in Links
      BY <1>2, <2>8, PtrFacts DEF Links, Heads
    <3> QED
      BY <1>2, <2>8, <3>1 DEF Turns, TurnTypes, OneAtATime, Active, Freeing
  <2>16. InOrder'
    BY <2>8, <2>12 DEF Turns, InOrder, Last
  <2> QED
    BY <2>8, <2>14, <2>15, <2>16 DEF Turns

\* write begins only when nothing is under way, and finds a node.
LEMMA TurnsCall ==
  ASSUME OpenInv, Turns, NEW w \in Writers, orderly, use.window = 1, Call(w)
  PROVE  Turns'
<1> DEFINE Asking == {v \in Writers : pc[v] \in {"check", "pick"}}
<1>1. /\ Len(accepted) \in Nat /\ Len(sent) \in Nat /\ writing \in [Writers -> Nat] /\ writes \in Nat
  BY DEF Turns, TurnTypes
<1>2. IsFiniteSet(Asking) /\ Cardinality(Asking) \in Nat
  BY WritersAssumption, FS_Subset, FS_CardinalityType
<1>3. /\ Len(accepted) = Len(sent) + (IF Unsent THEN 1 ELSE 0)
      /\ Len(accepted) - Len(sent) + Cardinality(Asking) < 1
  BY DEF Call, Turns, InOrder
<1>4. Cardinality(Asking) = 0 /\ ~Unsent
  <2> HIDE DEF Asking
  <2> QED
    BY <1>1, <1>2, <1>3
<1>5. Asking = {}
  BY <1>2, <1>4, FS_EmptySet
<1>6. dma = NULL /\ \A v \in Writers : ~Active(v)
  BY <1>4, <1>5 DEF Unsent, Active
<1>7. /\ writing' \in [Writers -> Nat] /\ writes' \in Nat
      /\ \A v \in Writers \ {w} : writing'[v] = writing[v]
  BY <1>1 DEF Call
<1>8. /\ pc[w] = "idle" /\ pc' = [pc EXCEPT ![w] = "check"]
      /\ UNCHANGED <<Next, Pre, pNodeData, pCurrentMDASendNode, dma, buff, accepted, sent, live, fault,
                     opened>>
  BY DEF Call, Goto, device, lists
<1> QED
  BY <1>6, <1>7, <1>8, TurnsMoves DEF Having, CloseLabel

LEMMA TurnsAsk ==
  ASSUME OpenInv, Turns, NEW w \in Writers, orderly, NoEmptyNode(w) \/ SeeEmptyNode(w)
  PROVE  Turns'
<1>1. PICK l \in {"idle", "pick"} : pc' = [pc EXCEPT ![w] = l]
  BY DEF NoEmptyNode, SeeEmptyNode, Goto
<1>2. pc[w] = "check" /\ dma = NULL /\ \A v \in Writers \ {w} : ~Active(v)
  <2>1. pc[w] = "check"
    BY DEF NoEmptyNode, SeeEmptyNode
  <2> QED
    BY <2>1, WritesAlone DEF Active, Turns
<1>3. writing \in [Writers -> Nat] /\ writes \in Nat
  BY DEF Turns, TurnTypes
<1> QED
  BY <1>1, <1>2, <1>3, TurnsMoves DEF NoEmptyNode, SeeEmptyNode, device, lists, Having, CloseLabel

\* What is known when the one thread in write takes a step and stays in write.
WriteStep(w, l) ==
  /\ Active(w) /\ pc' = [pc EXCEPT ![w] = l] /\ l \in {"unlink"} \cup Having
  /\ UNCHANGED <<opened, live, dma, sent, fault, writing, writes>>

LEMMA WriteStepFacts ==
  ASSUME OpenInv, Turns, orderly, NEW w \in Writers, NEW l, WriteStep(w, l)
  PROVE  /\ pc' \in [Writers -> Label \ {"link1", "link2", "link3", "link4"}]
         /\ pc'[w] = l /\ \A v \in Writers \ {w} : pc'[v] = pc[v] /\ pc[v] \in {"out", "idle"}
         /\ opened /\ opened' /\ dma = NULL /\ dma' = NULL /\ ~Freeing /\ ~Freeing'
         /\ ListsReady /\ live = Nodes /\ live' = Nodes
         /\ NodeOut <=> pc[w] \in Having
         /\ NodeOut' <=> l \in Having
         /\ Unsent <=> pc[w] \in Having \cup {"unlink"}
         /\ Unsent'
         /\ Next[full_list_Head] = full_list_Tail
         /\ \A v \in Writers \ {w} : ~Active(v) /\ ~Active(v)'
<1> USE DEF Label, OpenLabel, CloseLabel, WriteLabel
<1>1. /\ pc \in [Writers -> Label \ {"link1", "link2", "link3", "link4"}]
      /\ OneAtATime
  BY DEF Turns, TurnTypes
<1>2. /\ opened /\ dma = NULL /\ ~Freeing
      /\ \A v \in Writers \ {w} : ~Active(v)
      /\ \A v \in Writers : ~OpeningOrClosing(v)
  BY <1>1, WritesAlone DEF WriteStep
<1>3. \A v \in Writers \ {w} : pc'[v] = pc[v] /\ pc[v] \in {"out", "idle"}
  BY <1>1, <1>2 DEF WriteStep, Active, OpeningOrClosing, Having
<1>4. /\ pc' \in [Writers -> Label \ {"link1", "link2", "link3", "link4"}] /\ pc'[w] = l
      /\ pc[w] \in {"check", "pick", "unlink"} \cup Having /\ l \in {"unlink"} \cup Having
      /\ opened' = opened /\ dma' = dma /\ live' = live
  BY <1>1 DEF WriteStep, Active, Having
<1>5. /\ NodeOut <=> pc[w] \in Having
      /\ NodeOut' <=> l \in Having
      /\ Unsent <=> pc[w] \in Having \cup {"unlink"}
      /\ Unsent'
  BY <1>2, <1>3, <1>4 DEF NodeOut, Unsent, Having
<1>6. ~Freeing' /\ ListsReady
  BY <1>2, <1>3, <1>4 DEF Freeing, ListsReady, Having
<1>7. Next[full_list_Head] = full_list_Tail /\ live = Nodes
  BY <1>2, <1>6 DEF Turns, InLists, ChainOf
<1>8. \A v \in Writers \ {w} : ~Active(v)'
  BY <1>3 DEF Active, Having
<1> QED
  BY <1>2, <1>3, <1>4, <1>5, <1>6, <1>7, <1>8

\* Steps that change at most pCurrentMDASendNode and buff keep the lists.
LEMMA OneAtATimeWrites ==
  ASSUME OpenInv, Turns, orderly, NEW w \in Writers, NEW l, WriteStep(w, l),
         IF l = "start" THEN pCurrentMDASendNode' = pNodeData'[w] ELSE pCurrentMDASendNode' = NULL
  PROVE  OneAtATime'
<1>1. /\ pc'[w] = l /\ \A v \in Writers \ {w} : pc'[v] \in {"out", "idle"}
      /\ dma' = NULL /\ \A v \in Writers \ {w} : ~Active(v)'
      /\ l \in {"unlink"} \cup Having
  BY WriteStepFacts DEF WriteStep
<1>2. \A v \in Writers : pc'[v] \notin OpenLabel \cup CloseLabel /\ (pc'[v] = "start" => v = w)
  BY <1>1 DEF OpenLabel, CloseLabel, Having
<1>3. (\A v \in Writers : pc'[v] # "start") => pCurrentMDASendNode' = dma'
  BY <1>1
<1>4. \A v \in Writers : pc'[v] = "start" => pCurrentMDASendNode' = pNodeData'[v]
  BY <1>1, <1>2
<1> QED
  BY <1>1, <1>2, <1>3, <1>4 DEF OneAtATime

\* Before the thread claims the transfer nobody has it.
LEMMA NothingCurrent ==
  ASSUME OpenInv, Turns, orderly, NEW w \in Writers, NEW l, WriteStep(w, l), pc[w] # "start"
  PROVE  pCurrentMDASendNode = NULL
<1>1. \A v \in Writers : pc[v] # "start"
  BY WriteStepFacts
<1> QED
  BY <1>1, WriteStepFacts DEF Turns, OneAtATime

LEMMA TurnsPickNode ==
  ASSUME OpenInv, Turns, orderly, NEW w \in Writers, PickNode(w)
  PROVE  Turns'
<1>1. /\ pc[w] = "pick" /\ WriteStep(w, "unlink")
      /\ pNodeData' = [pNodeData EXCEPT ![w] = Next[empty_list_Head]]
      /\ accepted' = Append(accepted, writing[w])
      /\ UNCHANGED <<Next, Pre, buff, pCurrentMDASendNode>>
  BY DEF PickNode, WriteStep, Active, Goto, device, lists
<1>2. /\ pc' \in [Writers -> Label \ {"link1", "link2", "link3", "link4"}]
      /\ pc'[w] = "unlink" /\ \A v \in Writers \ {w} : pc'[v] \in {"out", "idle"}
      /\ dma' = NULL /\ ~Freeing' /\ live' = Nodes /\ ~NodeOut /\ ~NodeOut' /\ ~Unsent /\ Unsent'
      /\ ListsReady /\ ~Freeing
  BY <1>1, WriteStepFacts DEF Having
<1>3. TurnTypes
  BY DEF Turns
<1>4. /\ accepted' \in Seq(Nat) /\ Len(accepted') = Len(accepted) + 1
      /\ Last' = writing[w] /\ \A i \in 1 .. Len(accepted) : accepted'[i] = accepted[i]
  BY <1>1, <1>3 DEF TurnTypes, Last
<1>5. TurnTypes'
  <2>1. pNodeData' \in [Writers -> Ptr \cup {NULL}]
    BY <1>1, <1>3, PtrFacts DEF TurnTypes, Links, Heads
  <2>2. writing' = writing /\ writes' = writes /\ sent' = sent
    BY <1>1 DEF WriteStep
  <2> QED
    BY <1>1, <1>2, <1>3, <1>4, <2>1, <2>2 DEF TurnTypes
<1>6. OneAtATime'
  BY <1>1, NothingCurrent, OneAtATimeWrites
<1>7. InOrder'
  <2>1. writing' = writing /\ sent' = sent
    BY <1>1 DEF WriteStep
  <2>2. Len(accepted) = Len(sent) /\ Len(sent) \in Nat /\ \A i \in 1 .. Len(sent) : sent[i] = accepted[i]
    BY <1>2, <1>3 DEF Turns, InOrder, TurnTypes
  <2> QED
    BY <1>2, <1>4, <2>1, <2>2 DEF InOrder
<1>8. ASSUME NEW r \in Nodes, NEW m \in 0 .. NODE_NUM, ChainOf(r, m) PROVE ChainOf(r, m)'
  <2>1. m = NODE_NUM /\ Chain(r, m)' /\ ChainEnd(r, m)'
    BY <1>1, <1>2, <1>8, NodeAssumption DEF ChainOf, Chain, ChainEnd
  <2> QED
    BY <1>2, <2>1 DEF ChainOf, Having
<1>9. InLists'
  <2>1. pNodeData'[w] = Next'[empty_list_Head]
    BY <1>1, <1>3 DEF TurnTypes
  <2> QED
    BY <1>1, <1>2, <1>8, <2>1 DEF Turns, InLists
<1>10. fault' = "none"
  BY <1>1 DEF WriteStep, Turns
<1> QED
  BY <1>5, <1>6, <1>7, <1>9, <1>10 DEF Turns

LEMMA TurnsUnlinkNode ==
  ASSUME OpenInv, Turns, orderly, NEW w \in Writers, UnlinkNode(w)
  PROVE  Turns'
<1>1. /\ pc[w] = "unlink" /\ WriteStep(w, "fixPre")
      /\ Next' = [Next EXCEPT ![empty_list_Head] = Next[pNodeData[w]]]
      /\ UNCHANGED <<Pre, pNodeData, accepted, buff, pCurrentMDASendNode>>
  BY DEF UnlinkNode, WriteStep, Active, Goto, device, Having
<1>2. /\ pc' \in [Writers -> Label \ {"link1", "link2", "link3", "link4"}]
      /\ pc'[w] = "fixPre" /\ \A v \in Writers \ {w} : pc'[v] \in {"out", "idle"}
      /\ dma' = NULL /\ ~Freeing' /\ live' = Nodes /\ ~NodeOut /\ NodeOut' /\ Unsent /\ Unsent'
      /\ ListsReady /\ ~Freeing /\ Next[full_list_Head] = full_list_Tail
  BY <1>1, WriteStepFacts DEF Having
<1>3. PICK r \in Nodes, m \in 0 .. NODE_NUM : ChainOf(r, m)
  BY <1>2 DEF Turns, InLists
<1>4. m = NODE_NUM /\ Chain(r, m) /\ ChainEnd(r, m)
  BY <1>2, <1>3, NodeAssumption DEF ChainOf
<1>5. pNodeData[w] = r /\ Next[empty_list_Head] = r /\ NODE_NUM \in 1 .. NODE_NUM
  BY <1>1, <1>4, NodeAssumption DEF Turns, InLists, Chain
<1>6. TurnTypes /\ Next \in Links /\ Pre \in Links
  BY DEF Turns, TurnTypes
<1>7. Chain(At(r, 1), NODE_NUM - 1)'
  BY <1>1, <1>4, <1>5, <1>6, ChainLosesFirst
<1>8. NODE_NUM > 1 => ChainEnd(At(r, 1), NODE_NUM - 1)'
  <2> SUFFICES ASSUME NODE_NUM > 1 PROVE ChainEnd(At(r, 1), NODE_NUM - 1)'
    OBVIOUS
  <2>1. At(At(r, 1), NODE_NUM - 2) = At(r, NODE_NUM - 1)
    BY NodeAssumption DEF At, Nodes
  <2> QED
    BY <1>1, <1>4, <2>1, NodeAssumption DEF ChainEnd
<1>9. ChainOf(At(r, 1), NODE_NUM - 1)'
  <2>1. pNodeData'[w] = At(At(r, 1), NODE_NUM - 1)
    BY <1>1, <1>5, AtFacts
  <2>2. ChainEnd(At(r, 1), NODE_NUM - 1)' \/ (NODE_NUM - 1 = 0 /\ pc'[w] = "fixPre")
    BY <1>2, <1>8, NodeAssumption
  <2> QED
    BY <1>2, <1>7, <2>1, <2>2 DEF ChainOf, Having
<1>10. Next'[r] = Next'[empty_list_Head] /\ Next'[full_list_Head] = Next[full_list_Head] /\ Next' \in Links
  <2>1. Next' = [Next EXCEPT ![empty_list_Head] = Next[r]] /\ r \in Ptr /\ r # empty_list_Head
    BY <1>1, <1>5, PtrFacts DEF Heads
  <2>2. Next[r] \in Ptr \cup {NULL} /\ Heads \subseteq Ptr /\ empty_list_Head # full_list_Head
    BY <1>6, <2>1, PtrFacts DEF Links
  <2> QED
    BY <1>6, <2>1, <2>2 DEF Links, Heads
<1>11. InLists'
  <2>1. At(r, 1) \in Nodes /\ NODE_NUM - 1 \in 0 .. NODE_NUM
    BY AtFacts, NodeAssumption
  <2>2. Next'[pNodeData'[w]] = Next'[empty_list_Head] /\ Next'[full_list_Head] = full_list_Tail
    BY <1>1, <1>2, <1>5, <1>10
  <2> QED
    BY <1>2, <1>9, <2>1, <2>2 DEF InLists
<1>12. TurnTypes' /\ fault' = "none"
  BY <1>1, <1>2, <1>6, <1>10 DEF WriteStep, TurnTypes, Turns
<1>13. OneAtATime'
  BY <1>1, NothingCurrent, OneAtATimeWrites
<1>14. InOrder'
  BY <1>1, <1>2 DEF WriteStep, Turns, InOrder, Last
<1> QED
  BY <1>11, <1>12, <1>13, <1>14 DEF Turns

LEMMA TurnsFixPre ==
  ASSUME OpenInv, Turns, orderly, NEW w \in Writers, FixPre(w)
  PROVE  Turns'
<1>1. pc[w] = "fixPre" /\ Active(w) /\ TurnTypes /\ OneAtATime
  BY DEF FixPre, Active, Having, Turns
<1>2. opened /\ ~Freeing /\ ListsReady /\ NodeOut
  BY <1>1, WritesAlone DEF ListsReady, NodeOut, Having
<1>3. PICK r \in Nodes, m \in 0 .. NODE_NUM : ChainOf(r, m)
  BY <1>2 DEF Turns, InLists
<1>4. /\ m = NODE_NUM - 1 /\ Chain(r, m) /\ pNodeData[w] = At(r, NODE_NUM - 1)
      /\ m > 0 => ChainEnd(r, m)
  BY <1>1, <1>2, <1>3, NodeAssumption DEF ChainOf, Having
<1>5. /\ Next[pNodeData[w]] = Next[empty_list_Head]
      /\ Next[empty_list_Head] = IF m = 0 THEN empty_list_Tail ELSE r
  BY <1>1, <1>4 DEF Turns, InLists, Chain
<1>6. Next[pNodeData[w]] \in Ptr /\ Next[pNodeData[w]] # NULL
  BY <1>5, PtrFacts DEF Tails
<1>7. /\ WriteStep(w, "fill") /\ Pre' = [Pre EXCEPT ![Next[empty_list_Head]] = empty_list_Head]
      /\ UNCHANGED <<Next, pNodeData, accepted, buff, pCurrentMDASendNode>>
  BY <1>1, <1>5, <1>6 DEF FixPre, WriteStep, Goto, device, Having
<1>8. /\ pc' \in [Writers -> Label \ {"link1", "link2", "link3", "link4"}]
      /\ pc'[w] = "fill" /\ \A v \in Writers \ {w} : pc'[v] \in {"out", "idle"}
      /\ dma' = NULL /\ ~Freeing' /\ live' = Nodes /\ NodeOut' /\ Unsent /\ Unsent'
      /\ Next[full_list_Head] = full_list_Tail
  BY <1>1, <1>7, WriteStepFacts DEF Having
<1>9. ChainEnd(r, m)' /\ Pre' \in Links
  <2>1. CASE m = 0
    BY <1>1, <1>5, <1>6, <1>7, <2>1, PtrFacts DEF ChainEnd, TurnTypes, Links, Heads
  <2>2. CASE m # 0
    <3>1. Pre'[empty_list_Tail] = Pre[empty_list_Tail] /\ Pre' \in Links
      BY <1>1, <1>5, <1>7, <2>2, PtrFacts DEF TurnTypes, Links, Heads, Tails
    <3> QED
      BY <1>4, <2>2, <3>1, NodeAssumption DEF ChainEnd
  <2> QED
    BY <2>1, <2>2
<1>10. ChainOf(r, m)'
  <2>1. Chain(r, m)'
    BY <1>4, <1>7 DEF Chain
  <2> QED
    BY <1>4, <1>7, <1>8, <1>9, <2>1 DEF ChainOf, Having
<1>11. InLists'
  BY <1>7, <1>8, <1>10 DEF InLists
<1>12. TurnTypes' /\ fault' = "none"
  BY <1>1, <1>7, <1>8, <1>9 DEF WriteStep, TurnTypes, Turns
<1>13. OneAtATime'
  BY <1>1, <1>7, NothingCurrent, OneAtATimeWrites
<1>14. InOrder'
  BY <1>1, <1>7, <1>8 DEF WriteStep, Turns, InOrder, Last
<1> QED
  BY <1>11, <1>12, <1>13, <1>14 DEF Turns

\* The node is filled and becomes the one to send; the lists are left alone.
LEMMA TurnsFillTestClaim ==
  ASSUME OpenInv, Turns, orderly, NEW w \in Writers, Fill(w) \/ Test(w) \/ Claim(w)
  PROVE  Turns'
<1>1. pc[w] \in {"fill", "test", "claim"} /\ Active(w) /\ TurnTypes /\ OneAtATime
  BY DEF Fill, Test, Claim, Active, Having, Turns
<1>2. opened /\ ~Freeing /\ ListsReady /\ NodeOut /\ dma = NULL /\ \A v \in Writers \ {w} : ~Active(v)
  BY <1>1, WritesAlone DEF ListsReady, NodeOut, Having
<1>3. pCurrentMDASendNode = NULL
  <2>1. \A v \in Writers : pc[v] # "start"
    BY <1>1, <1>2 DEF Active, Having
  <2> QED
    BY <1>1, <1>2, <2>1 DEF OneAtATime
<1>4. PICK r \in Nodes, m \in 0 .. NODE_NUM : ChainOf(r, m)
  BY <1>2 DEF Turns, InLists
<1>5. pNodeData[w] = At(r, NODE_NUM - 1) /\ pNodeData[w] \in Nodes
  <2>1. NODE_NUM - 1 \in 0 .. NODE_NUM - 1
    BY NodeAssumption
  <2> QED
    BY <1>1, <1>4, <2>1, AtFacts DEF ChainOf, Having
<1>6. PICK l \in {"test", "claim", "start"} :
        /\ WriteStep(w, l) /\ UNCHANGED <<Next, Pre, pNodeData, accepted>>
        /\ pCurrentMDASendNode' = IF l = "start" THEN pNodeData[w] ELSE NULL
        /\ buff' = IF l = "test" THEN [buff EXCEPT ![pNodeData[w]] = writing[w]] ELSE buff
        /\ <<pc[w], l>> \in {<<"fill", "test">>, <<"test", "claim">>, <<"claim", "start">>}
  <2>1. CASE Fill(w)
    BY <1>1, <1>3, <1>5, <2>1 DEF Fill, HasData, WriteStep, Goto, device, lists, Having
  <2>2. CASE Test(w)
    BY <1>1, <1>3, <2>2 DEF Test, WriteStep, Goto, device, lists, Having
  <2>3. CASE Claim(w)
    BY <1>1, <1>3, <2>3 DEF Claim, WriteStep, Goto, device, lists, Having
  <2> QED
    BY <2>1, <2>2, <2>3
<1>7. /\ pc' \in [Writers -> Label \ {"link1", "link2", "link3", "link4"}]
      /\ pc'[w] = l /\ \A v \in Writers \ {w} : pc'[v] \in {"out", "idle"}
      /\ dma' = NULL /\ ~Freeing' /\ live' = Nodes /\ NodeOut' /\ Unsent /\ Unsent'
      /\ Next[full_list_Head] = full_list_Tail
  BY <1>1, <1>6, WriteStepFacts DEF Having
<1>8. ChainOf(r, m)'
  <2>1. Chain(r, m)' /\ ChainEnd(r, m)' /\ m = NODE_NUM - 1
    <3>1. \A v \in Writers : pc[v] # "fixPre"
      BY <1>1, <1>2 DEF Active, Having
    <3> QED
      BY <1>2, <1>4, <1>6, <3>1 DEF ChainOf, Chain, ChainEnd
  <2> QED
    BY <1>5, <1>6, <1>7, <2>1 DEF ChainOf, Having
<1>9. InLists'
  BY <1>6, <1>7, <1>8 DEF InLists
<1>10. TurnTypes' /\ fault' = "none"
  BY <1>1, <1>5, <1>6, <1>7 DEF WriteStep, TurnTypes, Turns
<1>11. OneAtATime'
  BY <1>6, OneAtATimeWrites
<1>12. InOrder'
  <2>1. buff'[pNodeData'[w]] = Last' /\ Last' = Last
    BY <1>1, <1>5, <1>6 DEF Turns, InOrder, Last, TurnTypes
  <2>2. UNCHANGED <<accepted, sent>>
    BY <1>6 DEF WriteStep
  <2> QED
    BY <1>7, <2>1, <2>2 DEF Turns, InOrder
<1> QED
  BY <1>9, <1>10, <1>11, <1>12 DEF Turns

\* The transfer starts, and write returns.
LEMMA TurnsStartDma ==
  ASSUME OpenInv, Turns, orderly, NEW w \in Writers, StartDma(w)
  PROVE  Turns'
<1> USE DEF Label, OpenLabel, CloseLabel, WriteLabel
<1>1. pc[w] = "start" /\ Active(w) /\ TurnTypes /\ OneAtATime
  BY DEF StartDma, Active, Having, Turns
<1>2. /\ opened /\ ~Freeing /\ ListsReady /\ NodeOut /\ Unsent
      /\ \A v \in Writers \ {w} : ~Active(v)
      /\ \A v \in Writers : ~OpeningOrClosing(v)
  BY <1>1, WritesAlone DEF ListsReady, NodeOut, Unsent, Having
<1>3. PICK r \in Nodes, m \in 0 .. NODE_NUM : ChainOf(r, m)
  BY <1>2 DEF Turns, InLists
<1>4. pNodeData[w] = At(r, NODE_NUM - 1) /\ pNodeData[w] \in Nodes /\ pCurrentMDASendNode = pNodeData[w]
  <2>1. NODE_NUM - 1 \in 0 .. NODE_NUM - 1
    BY NodeAssumption
  <2> QED
    BY <1>1, <1>3, <2>1, AtFacts DEF ChainOf, Having, OneAtATime
<1>5. pNodeData[w] # NULL
  BY <1>4, PtrFacts
<1>6. /\ dma' = pNodeData[w] /\ pc' = [pc EXCEPT ![w] = "idle"]
      /\ UNCHANGED <<opened, live, Next, Pre, pNodeData, accepted, sent, fault, buff, writing, writes,
                     pCurrentMDASendNode>>
  BY <1>4, <1>5 DEF StartDma, Goto, device, lists
<1>7. /\ pc' \in [Writers -> Label \ {"link1", "link2", "link3", "link4"}]
      /\ \A v \in Writers : pc'[v] \in {"out", "idle"}
  BY <1>1, <1>2, <1>6 DEF TurnTypes, Active, OpeningOrClosing, Having
<1>8. ~Freeing' /\ NodeOut' /\ Unsent'
  BY <1>5, <1>6, <1>7 DEF Freeing, NodeOut, Unsent
<1>9. ChainOf(r, m)'
  <2>1. Chain(r, m)' /\ ChainEnd(r, m)' /\ m = NODE_NUM - 1 /\ live = Nodes
    <3>1. \A v \in Writers : pc[v] # "fixPre"
      BY <1>1, <1>2 DEF Active, Having
    <3> QED
      BY <1>2, <1>3, <1>6, <3>1 DEF ChainOf, Chain, ChainEnd
  <2> QED
    BY <1>4, <1>6, <1>7, <1>8, <2>1 DEF ChainOf, Having
<1>10. InLists'
  BY <1>2, <1>6, <1>7, <1>9 DEF Turns, InLists
<1>11. TurnTypes' /\ fault' = "none"
  BY <1>1, <1>6, <1>7 DEF TurnTypes, Turns
<1>12. OneAtATime'
  BY <1>2, <1>4, <1>6, <1>7, <1>8 DEF OneAtATime, Active, Having
<1>13. InOrder'
  BY <1>1, <1>2, <1>6, <1>7, <1>8 DEF Turns, InOrder, Last
<1> QED
  BY <1>10, <1>11, <1>12, <1>13 DEF Turns
\* The transfer ends: the node goes back to the end of the empty list, and the
\* full list has nothing to send.
LEMMA TurnsInterrupt ==
  ASSUME Turns, DMA1_Channel4_IRQHandler
  PROVE  Turns'
<1> USE DEF Label, OpenLabel, CloseLabel, WriteLabel
<1>1. /\ TurnTypes /\ OneAtATime /\ dma # NULL /\ opened /\ ~Freeing
      /\ \A w \in Writers : ~Active(w)
      /\ ListsReady /\ NodeOut /\ Unsent
  BY DEF DMA1_Channel4_IRQHandler, Turns, OneAtATime, ListsReady, NodeOut, Unsent
<1>2. \A w \in Writers : pc[w] \notin Having \cup {"unlink"}
  BY <1>1 DEF Active
<1>3. pCurrentMDASendNode = dma
  BY <1>1, <1>2 DEF OneAtATime, Having
<1>4. Next[full_list_Head] = full_list_Tail
  BY <1>1 DEF Turns, InLists
<1>5. PICK r \in Nodes, m \in 0 .. NODE_NUM : ChainOf(r, m)
  BY <1>1 DEF Turns, InLists
<1>6. /\ dma = At(r, NODE_NUM - 1) /\ dma \in Nodes /\ m = NODE_NUM - 1 /\ live = Nodes
      /\ Chain(r, NODE_NUM - 1) /\ ChainEnd(r, NODE_NUM - 1)
  <2>1. NODE_NUM - 1 \in 0 .. NODE_NUM - 1
    BY NodeAssumption
  <2>2. dma = At(r, NODE_NUM - 1) /\ m = NODE_NUM - 1 /\ live = Nodes
    BY <1>1, <1>5 DEF ChainOf
  <2>3. Chain(r, m) /\ ChainEnd(r, m)
    BY <1>2, <1>5 DEF ChainOf, Having
  <2> QED
    BY <2>1, <2>2, <2>3, AtFacts
<1> DEFINE p == Pre[empty_list_Tail]
           links == Insert_Node_Empty_list(dma)
<1>7. p = IF NODE_NUM = 1 THEN empty_list_Head ELSE At(r, NODE_NUM - 2)
  BY <1>6, NodeAssumption DEF ChainEnd
<1>8. p \in Nodes \cup {empty_list_Head} /\ p # dma
  <2>1. CASE NODE_NUM = 1
    BY <1>6, <1>7, <2>1, PtrFacts DEF Heads
  <2>2. CASE NODE_NUM # 1
    <3>1. NODE_NUM - 2 \in 0 .. NODE_NUM - 1 /\ NODE_NUM - 1 \in 0 .. NODE_NUM - 1
      BY <2>2, NodeAssumption
    <3>2. NODE_NUM - 2 # NODE_NUM - 1
      BY NodeAssumption
    <3>3. At(r, NODE_NUM - 2) \in Nodes /\ At(r, NODE_NUM - 2) # At(r, NODE_NUM - 1)
      BY <3>1, <3>2, AtFacts
    <3> QED
      BY <1>6, <1>7, <2>2, <3>3
  <2> QED
    BY <2>1, <2>2
<1>9. /\ links.next = [Next EXCEPT ![p] = dma, ![dma] = empty_list_Tail]
      /\ links.pre = [Pre EXCEPT ![dma] = p, ![empty_list_Tail] = dma]
      /\ links = [node |-> dma, next |-> links.next, pre |-> links.pre]
  BY DEF Insert_Node_Empty_list
<1>10. /\ p \in Ptr /\ dma \in Ptr /\ full_list_Head \notin {p, dma} /\ full_list_Head \in Ptr
       /\ empty_list_Tail \in Ptr /\ empty_list_Tail # dma /\ empty_list_Head # dma
       /\ full_list_Tail \notin Nodes /\ full_list_Tail # NULL /\ empty_list_Head \in Ptr
  BY <1>6, <1>8, PtrFacts DEF Heads, Tails
<1>11. links.next[full_list_Head] = full_list_Tail
  BY <1>1, <1>4, <1>9, <1>10 DEF TurnTypes, Links
<1>12. /\ ~FollowsNull(full_list_Head, links)
       /\ Get_Node(full_list_Head, links) = [links EXCEPT !.node = NULL]
  BY <1>10, <1>11 DEF FollowsNull, Get_Node, HasData
<1>13. /\ Next' = [Next EXCEPT ![p] = dma, ![dma] = empty_list_Tail]
       /\ Pre' = [Pre EXCEPT ![dma] = p, ![empty_list_Tail] = dma]
       /\ pCurrentMDASendNode' = NULL /\ dma' = NULL /\ fault' = fault
  <2>1. LET taken == Get_Node(full_list_Head, links)
        IN  /\ Next' = taken.next /\ Pre' = taken.pre
            /\ pCurrentMDASendNode' = taken.node /\ dma' = taken.node /\ fault' = fault
    BY <1>1, <1>3, <1>12 DEF DMA1_Channel4_IRQHandler
  <2> QED
    BY <1>9, <1>12, <2>1
<1>14. /\ sent' = Append(sent, buff[dma])
       /\ UNCHANGED <<opened, live, buff, pc, pNodeData, writing, writes, accepted>>
  BY DEF DMA1_Channel4_IRQHandler, device, writers
<1> HIDE DEF links, p
<1>15. /\ Next' \in Links /\ Pre' \in Links
       /\ Next'[p] = dma /\ Next'[dma] = empty_list_Tail /\ Pre'[empty_list_Tail] = dma
       /\ \A q \in Ptr \ {p, dma} : Next'[q] = Next[q]
  BY <1>1, <1>8, <1>10, <1>13 DEF TurnTypes, Links
<1>16. TurnTypes' /\ fault' = "none"
  <2>1. buff[dma] \in Nat
    BY <1>1, <1>6 DEF TurnTypes
  <2> QED
    BY <1>1, <1>13, <1>14, <1>15, <2>1 DEF Turns, TurnTypes
<1>17. OneAtATime'
  BY <1>1, <1>2, <1>13, <1>14 DEF OneAtATime, Active, Having
<1>18. ~NodeOut' /\ ~Unsent' /\ ~Freeing' /\ ListsReady'
  BY <1>1, <1>2, <1>13, <1>14 DEF NodeOut, Unsent, Freeing, ListsReady
<1>19. InOrder'
  <2>1. /\ Len(accepted) = Len(sent) + 1 /\ buff[dma] = accepted[Len(accepted)]
        /\ \A i \in 1 .. Len(sent) : sent[i] = accepted[i]
    BY <1>1 DEF Turns, InOrder, Last
  <2>2. /\ sent \in Seq(Nat) /\ buff[dma] \in Nat /\ Len(sent) \in Nat
    BY <1>1, <1>6 DEF TurnTypes
  <2>3. /\ Len(sent') = Len(sent) + 1 /\ sent'[Len(sent) + 1] = buff[dma]
        /\ \A i \in 1 .. Len(sent) : sent'[i] = sent[i]
    BY <1>14, <2>2
  <2>4. Len(accepted') = Len(sent') /\ \A i \in 1 .. Len(sent') : sent'[i] = accepted'[i]
    BY <1>14, <2>1, <2>2, <2>3
  <2> QED
    BY <1>2, <1>13, <1>14, <1>18, <2>4 DEF InOrder, Having
<1>20. ChainOf(r, NODE_NUM)'
  <2>1. /\ r = At(r, 0)
        /\ \A k \in 0 .. NODE_NUM - 1 : At(r, k) \in Nodes
        /\ \A j, k \in 0 .. NODE_NUM - 1 : At(r, j) = At(r, k) => j = k
    BY AtFacts
  <2>2. Next'[empty_list_Head] = r
    <3>1. CASE NODE_NUM = 1
      BY <1>6, <1>7, <1>15, <2>1, <3>1
    <3>2. CASE NODE_NUM # 1
      <4>1. empty_list_Head # p
        <5>1. NODE_NUM - 2 \in 0 .. NODE_NUM - 1
          BY <3>2, NodeAssumption
        <5> QED
          BY <1>7, <2>1, <3>2, <5>1, PtrFacts DEF Heads
      <4>2. Next[empty_list_Head] = r
        BY <1>6, <3>2, NodeAssumption DEF Chain
      <4> QED
        BY <1>10, <1>15, <4>1, <4>2
    <3> QED
      BY <3>1, <3>2
  <2>3. ASSUME NEW k \in 0 .. NODE_NUM - 1
        PROVE  Next'[At(r, k)] = IF k + 1 = NODE_NUM THEN empty_list_Tail ELSE At(r, k + 1)
    <3>1. CASE k = NODE_NUM - 1
      BY <1>6, <1>15, <3>1, NodeAssumption
    <3>2. CASE k = NODE_NUM - 2
      <4>1. p = At(r, k) /\ k + 1 # NODE_NUM /\ k + 1 = NODE_NUM - 1
        BY <1>7, <3>2, NodeAssumption
      <4> QED
        BY <1>6, <1>15, <4>1
    <3>3. CASE k \notin {NODE_NUM - 1, NODE_NUM - 2}
      <4>1. /\ k \in 0 .. NODE_NUM - 2 /\ k + 1 # NODE_NUM - 1 /\ k + 1 # NODE_NUM
            /\ NODE_NUM - 2 \in 0 .. NODE_NUM - 1 /\ NODE_NUM - 1 \in 0 .. NODE_NUM - 1
            /\ NODE_NUM # 1
        BY <3>3, NodeAssumption
      <4>2. At(r, k) # p /\ At(r, k) # dma /\ At(r, k) \in Ptr
        BY <1>6, <1>7, <2>1, <3>3, <4>1, PtrFacts
      <4>3. Next[At(r, k)] = At(r, k + 1)
        <5>1. k \in 0 .. (NODE_NUM - 1) - 1
          BY <4>1, NodeAssumption
        <5> QED
          BY <1>6, <4>1, <5>1 DEF Chain
      <4> QED
        BY <1>15, <4>1, <4>2, <4>3
    <3> QED
      BY <3>1, <3>2, <3>3
  <2>4. Chain(r, NODE_NUM)' /\ ChainEnd(r, NODE_NUM)'
    BY <1>6, <1>15, <2>2, <2>3, NodeAssumption DEF Chain, ChainEnd
  <2>5. live' = Nodes /\ dma' = NULL /\ \A w \in Writers : pc'[w] \notin Having
    BY <1>2, <1>6, <1>13, <1>14
  <2> QED
    BY <1>18, <2>4, <2>5 DEF ChainOf
<1>21. InLists'
  <2>1. NODE_NUM \in 0 .. NODE_NUM
    BY NodeAssumption
  <2>2. Next'[full_list_Head] = full_list_Tail
    BY <1>4, <1>10, <1>15
  <2> QED
    BY <1>2, <1>14, <1>20, <2>1, <2>2 DEF InLists, Having
<1> QED
  BY <1>16, <1>17, <1>19, <1>21 DEF Turns

\* A step of write.
LEMMA TurnsWrite ==
  ASSUME OpenInv, Turns, orderly, NEW w \in Writers, Write(w)
  PROVE  Turns'
<1>1. ~LinkFull(w)
  BY DEF LinkFull, InsertFull, Turns, TurnTypes
<1> QED
  BY <1>1, TurnsAsk, TurnsPickNode, TurnsUnlinkNode, TurnsFixPre, TurnsFillTestClaim, TurnsStartDma
     DEF Write

LEMMA TurnsHolds == Spec => [](TakeTurns => Turns)
<1> DEFINE Inv == TakeTurns => Turns
<1>1. Init => Inv
  <2> SUFFICES ASSUME Init PROVE Turns
    OBVIOUS
  <2>1. /\ fault = "none" /\ ~opened /\ dma = NULL /\ pCurrentMDASendNode = NULL
        /\ accepted = <<>> /\ sent = <<>>
        /\ pc = [w \in Writers |-> "out"] /\ \A w \in Writers : pc[w] = "out"
    BY DEF Init
  <2>2. TurnTypes
    BY <2>1 DEF Init, TurnTypes, Label, Links
  <2>3. OneAtATime
    BY <2>1 DEF OneAtATime, Active, Having, OpenLabel, CloseLabel
  <2>4. InOrder
    BY <2>1 DEF InOrder, Unsent, Having
  <2>5. InLists
    BY <2>1 DEF InLists, ListsReady
  <2> QED
    BY <2>1, <2>2, <2>3, <2>4, <2>5 DEF Turns
<1>2. OpenInv /\ Inv /\ [Step]_vars => Inv'
  <2> SUFFICES ASSUME OpenInv, Inv, [Step]_vars, TakeTurns' PROVE Turns'
    OBVIOUS
  <2>1. CASE UNCHANGED vars
    <3>1. Turns
      BY <2>1 DEF TakeTurns, vars, device
    <3>2. UNCHANGED <<Next, Pre, pNodeData, pCurrentMDASendNode, dma, buff, accepted, sent, live, fault,
                      opened, pc, writing, writes>>
      BY <2>1 DEF vars, device
    <3>3. TurnTypes' /\ fault' = "none"
      BY <3>1, <3>2 DEF Turns, TurnTypes
    <3>4. OneAtATime'
      BY <3>1, <3>2 DEF Turns, OneAtATime, Active, Freeing
    <3>5. (Unsent' <=> Unsent) /\ (NodeOut' <=> NodeOut) /\ (Freeing' <=> Freeing)
          /\ (ListsReady' <=> ListsReady)
      BY <3>2 DEF Unsent, NodeOut, Freeing, ListsReady
    <3>6. InOrder'
      BY <3>1, <3>2, <3>5 DEF Turns, InOrder, Last
    <3>7. ASSUME NEW r \in Nodes, NEW m \in 0 .. NODE_NUM, ChainOf(r, m) PROVE ChainOf(r, m)'
      BY <3>2, <3>5, <3>7 DEF ChainOf, Chain, ChainEnd
    <3>8. InLists'
      BY <3>1, <3>2, <3>5, <3>7 DEF Turns, InLists
    <3> QED
      BY <3>3, <3>4, <3>6, <3>8 DEF Turns
  <2>2. CASE Step
    <3>1. use' = use /\ (orderly' => orderly)
      BY <2>2, UseFixed
    <3>2. use.window = 1 /\ orderly
      BY <3>1 DEF TakeTurns
    <3>3. Turns
      BY <3>2 DEF TakeTurns
    <3>4. ASSUME NEW w \in Writers, OpenClose(w) PROVE Turns'
      BY <3>2, <3>3, <3>4, TurnsOpenClose, TurnsOpenLists, TurnsCloseBusy, TurnsFreeNode, TurnsClosed
         DEF OpenClose
    <3>5. ASSUME NEW w \in Writers, Open(w) \/ Close(w) PROVE Turns'
      BY <3>2, <3>3, <3>5, TurnsOpenClose
    <3> QED
      BY <2>2, <3>2, <3>3, <3>4, <3>5, TurnsCall, TurnsWrite, TurnsInterrupt DEF Step
  <2> QED
    BY <2>1, <2>2
<1> QED
  BY <1>1, <1>2, OpenInvHolds, PTL DEF Spec

\* With a single caller no NULL pointer is followed, wherever the DMA interrupt
\* strikes in write; and callers that take turns never bring the driver down.
THEOREM NoFaultHolds == Spec => []NoFault
<1>1. /\ use \in Uses
      /\ \A c \in Writers : use.callers = {c} => Alone(c)
      /\ TakeTurns => Turns
      => NoFault
  <2> SUFFICES ASSUME use \in Uses, \A c \in Writers : use.callers = {c} => Alone(c),
                      TakeTurns => Turns
               PROVE  NoFault
    OBVIOUS
  <2>1. ASSUME Cardinality(use.callers) = 1 PROVE fault # "null"
    <3>1. use.callers \subseteq Writers /\ IsFiniteSet(use.callers)
      BY UsesAssumption, WritersAssumption, FS_Subset
    <3>2. PICK c : use.callers = {c}
      BY <2>1, <3>1, FS_Singleton
    <3>3. c \in Writers /\ Alone(c)
      BY <3>1, <3>2
    <3> QED
      BY <3>3 DEF Alone
  <2> QED
    BY <2>1 DEF NoFault, Turns
<1> QED
  BY <1>1, UsesHold, AloneHolds, TurnsHolds, PTL

\* What write accepted leaves the port in the order it was accepted, nothing twice
\* and nothing else: for callers that take turns, and for a single caller however
\* fast, with the full list as long as it gets and the interrupt anywhere in write
\* except while the full list runs dry under it.
THEOREM SentInOrderHolds == Spec => []SentInOrder
<1>1. /\ use \in Uses
      /\ \A c \in Writers : use.callers = {c} => Calm(c)
      /\ TakeTurns => Turns
      => SentInOrder
  <2> SUFFICES ASSUME use \in Uses, \A c \in Writers : use.callers = {c} => Calm(c), TakeTurns => Turns
               PROVE  SentInOrder
    OBVIOUS
  <2>1. ASSUME TakeTurns PROVE sent \in Seq(Nat) /\ Prefix
    BY <2>1 DEF Turns, TurnTypes, InOrder, Prefix
  <2>2. ASSUME Cardinality(use.callers) = 1, ~ranDry PROVE sent \in Seq(Nat) /\ Prefix
    <3>1. use.callers \subseteq Writers /\ IsFiniteSet(use.callers)
      BY UsesAssumption, WritersAssumption, FS_Subset
    <3>2. PICK c : use.callers = {c}
      BY <2>2, <3>1, FS_Singleton
    <3>3. c \in Writers /\ Calm(c)
      BY <3>1, <3>2
    <3> QED
      BY <2>2, <3>3 DEF Calm, OrderTypes
  <2>3. sent \in Seq(Nat) => DOMAIN sent = 1 .. Len(sent)
    OBVIOUS
  <2> QED
    BY <2>1, <2>2, <2>3 DEF SentInOrder, Prefix
<1> QED
  BY <1>1, UsesHold, CalmHolds, TurnsHolds, PTL
-----------------------------------------------------------------------------
(* The nodes on a list                                                     *)

\* One step of Walk along the links, for all places at once: the positions Walk
\* visits are the one function that satisfies at = Follow(at, head).
Follow(at, head) ==
  [k \in 0 .. NODE_NUM |->
     IF k = 0 THEN Next[head] ELSE IF HasData(at[k - 1]) THEN Next[at[k - 1]] ELSE at[k - 1]]

LEMMA LeastNatural ==
  ASSUME NEW T \in SUBSET Nat, T # {}
  PROVE  \E x \in T : \A y \in T : x <= y
<1>1. \E x \in T : \A y \in T : ~ (<<y, x>> \in OpToRel(<, Nat))
  BY WFMin, NatLessThanWellFounded
<1>2. PICK x \in T : \A y \in T : ~ (<<y, x>> \in OpToRel(<, Nat))
  BY <1>1
<1>3. \A y \in T : ~(y < x)
  BY <1>2 DEF OpToRel
<1> QED
  BY <1>3

LEMMA FollowValues ==
  ASSUME NEW head, NEW f, f = Follow(f, head)
  PROVE  /\ f = [k \in 0 .. NODE_NUM |-> f[k]]
         /\ f[0] = Next[head]
         /\ \A k \in 1 .. NODE_NUM : f[k] = IF HasData(f[k - 1]) THEN Next[f[k - 1]] ELSE f[k - 1]
<1> DEFINE F == Follow(f, head)
<1>1. /\ F = [k \in 0 .. NODE_NUM |-> F[k]]
      /\ F[0] = Next[head]
      /\ \A k \in 1 .. NODE_NUM : F[k] = IF HasData(f[k - 1]) THEN Next[f[k - 1]] ELSE f[k - 1]
  BY NodeAssumption DEF Follow
<1>2. F = f
  OBVIOUS
<1> HIDE DEF F
<1> QED
  BY <1>1, <1>2

\* Two of them would differ at a first place, which the place before determines.
LEMMA FollowUnique ==
  ASSUME NEW head, NEW f, NEW g, f = Follow(f, head), g = Follow(g, head)
  PROVE  f = g
<1> DEFINE T == {k \in 0 .. NODE_NUM : f[k] # g[k]}
<1>1. /\ f = [k \in 0 .. NODE_NUM |-> f[k]]
      /\ f[0] = Next[head]
      /\ \A k \in 1 .. NODE_NUM : f[k] = IF HasData(f[k - 1]) THEN Next[f[k - 1]] ELSE f[k - 1]
  BY FollowValues
<1>2. /\ g = [k \in 0 .. NODE_NUM |-> g[k]]
      /\ g[0] = Next[head]
      /\ \A k \in 1 .. NODE_NUM : g[k] = IF HasData(g[k - 1]) THEN Next[g[k - 1]] ELSE g[k - 1]
  BY FollowValues
<1>3. T \in SUBSET Nat
  BY NodeAssumption
<1>4. ASSUME T # {} PROVE FALSE
  <2>1. PICK x \in T : \A y \in T : x <= y
    <3> HIDE DEF T
    <3> QED
      BY <1>3, <1>4, LeastNatural
  <2>2. x \in 0 .. NODE_NUM /\ f[x] # g[x]
    BY <2>1
  <2>3. x # 0
    BY <1>1, <1>2, <2>2
  <2>4. x \in 1 .. NODE_NUM /\ x - 1 \in 0 .. NODE_NUM /\ ~(x <= x - 1)
    BY <2>2, <2>3, NodeAssumption
  <2>5. f[x - 1] = g[x - 1]
    BY <2>1, <2>4
  <2>6. f[x] = g[x]
    BY <1>1, <1>2, <2>4, <2>5
  <2> QED
    BY <2>2, <2>6
<1>5. \A k \in 0 .. NODE_NUM : f[k] = g[k]
  BY <1>4
<1> QED
  BY <1>1, <1>2, <1>5

LEMMA WalkIs ==
  ASSUME NEW head, NEW g, g = Follow(g, head)
  PROVE  Walk(head) = {g[k] : k \in 0 .. NODE_NUM} \cap Nodes
<1> DEFINE at == CHOOSE f : f = Follow(f, head)
<1>1. at = Follow(at, head)
  OBVIOUS
<1>2. Walk(head) = {at[k] : k \in 0 .. NODE_NUM} \cap Nodes
  BY DEF Walk, Follow
<1> HIDE DEF at
<1>3. at = g
  BY <1>1, FollowUnique
<1> QED
  BY <1>2, <1>3

\* The nodes of an empty list, and of the empty list when it is a chain.
LEMMA WalkFull ==
  ASSUME Next[full_list_Head] = full_list_Tail
  PROVE  Walk(full_list_Head) = {}
<1> DEFINE g == [k \in 0 .. NODE_NUM |-> full_list_Tail]
<1>1. full_list_Tail \notin Nodes
  BY PtrFacts DEF Tails
<1>2. g = Follow(g, full_list_Head)
  <2>1. \A k \in 0 .. NODE_NUM : k # 0 => g[k - 1] = full_list_Tail
    BY NodeAssumption
  <2> QED
    BY <1>1, <2>1 DEF Follow, HasData
<1>3. \A k \in 0 .. NODE_NUM : g[k] = full_list_Tail
  OBVIOUS
<1> HIDE DEF g
<1> QED
  BY <1>1, <1>2, <1>3, WalkIs

LEMMA WalkChain ==
  ASSUME NEW r \in Nodes, NEW m \in 0 .. NODE_NUM, Chain(r, m)
  PROVE  Walk(empty_list_Head) = {At(r, k) : k \in 0 .. m - 1}
<1> DEFINE g == [k \in 0 .. NODE_NUM |-> IF k < m THEN At(r, k) ELSE empty_list_Tail]
<1>1. empty_list_Tail \notin Nodes
  BY PtrFacts DEF Tails
<1>2. \A k \in 0 .. NODE_NUM : g[k] = IF k < m THEN At(r, k) ELSE empty_list_Tail
  OBVIOUS
<1>3. \A k \in 0 .. m - 1 : At(r, k) \in Nodes
  BY AtFacts, NodeAssumption
<1>4. g = Follow(g, empty_list_Head)
  <2>1. ASSUME NEW k \in 0 .. NODE_NUM
        PROVE  g[k] = IF k = 0 THEN Next[empty_list_Head]
                      ELSE IF HasData(g[k - 1]) THEN Next[g[k - 1]] ELSE g[k - 1]
    <3>1. CASE k = 0
      BY <1>2, <3>1, AtFacts, NodeAssumption DEF Chain
    <3>2. CASE k # 0
      <4>1. k - 1 \in 0 .. NODE_NUM /\ (k < m => k - 1 < m) /\ (k - 1 < m => k - 1 \in 0 .. m - 1)
            /\ (k - 1) + 1 = k
        BY <3>2, NodeAssumption
      <4>2. CASE k - 1 < m
        <5>1. g[k - 1] = At(r, k - 1) /\ HasData(g[k - 1])
          BY <1>2, <1>3, <4>1, <4>2 DEF HasData
        <5>2. Next[At(r, k - 1)] = IF k = m THEN empty_list_Tail ELSE At(r, k)
          BY <4>1, <4>2 DEF Chain
        <5>3. g[k] = IF k = m THEN empty_list_Tail ELSE At(r, k)
          BY <1>2, <4>1, <4>2, NodeAssumption
        <5> HIDE DEF g
        <5> QED
          BY <3>2, <5>1, <5>2, <5>3
      <4>3. CASE ~(k - 1 < m)
        <5>1. g[k - 1] = empty_list_Tail /\ g[k] = empty_list_Tail
          BY <1>2, <4>1, <4>3
        <5> HIDE DEF g
        <5> QED
          BY <1>1, <3>2, <5>1 DEF HasData
      <4> QED
        BY <4>2, <4>3
    <3> QED
      BY <3>1, <3>2
  <2> QED
    BY <2>1 DEF Follow
<1>5. Walk(empty_list_Head) = {g[k] : k \in 0 .. NODE_NUM} \cap Nodes
  <2> HIDE DEF g
  <2> QED
    BY <1>4, WalkIs
<1> HIDE DEF g
<1>6. ASSUME NEW n \in {g[k] : k \in 0 .. NODE_NUM} \cap Nodes PROVE n \in {At(r, k) : k \in 0 .. m - 1}
  <2>1. PICK k \in 0 .. NODE_NUM : n = g[k]
    BY <1>6
  <2>2. k < m
    BY <1>1, <1>2, <1>6, <2>1
  <2>3. k \in 0 .. m - 1 /\ n = At(r, k)
    BY <1>2, <2>1, <2>2
  <2> QED
    BY <2>3
<1>7. ASSUME NEW k \in 0 .. m - 1 PROVE At(r, k) \in {g[j] : j \in 0 .. NODE_NUM} \cap Nodes
  <2>1. k \in 0 .. NODE_NUM /\ k < m
    BY NodeAssumption
  <2>2. g[k] = At(r, k) /\ At(r, k) \in Nodes
    BY <1>2, <1>3, <2>1
  <2> QED
    BY <2>1, <2>2
<1> QED
  BY <1>5, <1>6, <1>7

\* Along a list that is linked in the order f nothing but its nodes is met.
LEMMA WalkOrdered ==
  ASSUME NEW head, NEW f, NEW lo \in Nat, NEW hi \in Nat, lo <= hi, Next[head] = f[lo],
         \A i \in lo .. hi - 1 : f[i] \in Nodes /\ Next[f[i]] = f[i + 1],
         f[hi] \notin Nodes
  PROVE  \A p \in Walk(head) : \E i \in lo .. hi - 1 : p = f[i]
<1> DEFINE to(k) == IF lo + k <= hi THEN lo + k ELSE hi
           g == [k \in 0 .. NODE_NUM |-> f[to(k)]]
<1>1. g = Follow(g, head)
  <2>1. g[0] = Next[head] /\ 0 \in 0 .. NODE_NUM
    BY NodeAssumption
  <2>2. ASSUME NEW k \in 0 .. NODE_NUM, k # 0
        PROVE  g[k] = IF HasData(g[k - 1]) THEN Next[g[k - 1]] ELSE g[k - 1]
    <3>1. k - 1 \in 0 .. NODE_NUM /\ g[k - 1] = f[to(k - 1)] /\ g[k] = f[to(k)]
      BY <2>2, NodeAssumption
    <3>2. CASE lo + k <= hi
      <4>1. to(k - 1) \in lo .. hi - 1 /\ to(k) = to(k - 1) + 1
        BY <2>2, <3>2, NodeAssumption
      <4> HIDE DEF to
      <4> QED
        BY <3>1, <4>1 DEF HasData
    <3>3. CASE ~(lo + k <= hi)
      <4>1. to(k - 1) = hi /\ to(k) = hi
        BY <2>2, <3>3, NodeAssumption
      <4> HIDE DEF to
      <4> QED
        BY <3>1, <4>1 DEF HasData
    <3> QED
      BY <3>2, <3>3
  <2>3. g = [k \in 0 .. NODE_NUM |-> g[k]]
    OBVIOUS
  <2> HIDE DEF g
  <2> QED
    BY <2>1, <2>2, <2>3 DEF Follow
<1>2. \A k \in 0 .. NODE_NUM : g[k] = f[hi] \/ \E i \in lo .. hi - 1 : g[k] = f[i]
  <2> SUFFICES ASSUME NEW k \in 0 .. NODE_NUM PROVE g[k] = f[hi] \/ \E i \in lo .. hi - 1 : g[k] = f[i]
    OBVIOUS
  <2>1. g[k] = f[to(k)] /\ (to(k) = hi \/ to(k) \in lo .. hi - 1)
    BY NodeAssumption
  <2> HIDE DEF g, to
  <2> QED
    BY <2>1
<1> HIDE DEF g
<1>3. Walk(head) = {g[k] : k \in 0 .. NODE_NUM} \cap Nodes
  BY <1>1, WalkIs
<1> QED
  BY <1>2, <1>3

\* A single caller owns what it fills, wherever the interrupt strikes.
LEMMA SoleOwnership ==
  ASSUME NEW c \in Writers, Alone(c), Allocated(c), Calm(c), usart, ~ranDry
  PROVE  /\ dma # NULL => dma \in live
         /\ \A w \in Writers :
              pc[w] \in {"fill", "test", "claim"} =>
                /\ pNodeData[w] \in live
                /\ pNodeData[w] # dma
                /\ pNodeData[w] \notin Walk(full_list_Head) \cup Walk(empty_list_Head)
                /\ \A v \in Writers \ {w} : Owns(v) => pNodeData[v] # pNodeData[w]
<1>1. Prior(c) \/ \E f, e : \E x, y \in Nat : Ordered(c, f, e, x, y)
  BY DEF Calm
<1>2. CASE Prior(c)
  BY <1>2 DEF Prior, Alone
<1>3. ASSUME NEW f, NEW e, NEW x \in Nat, NEW y \in Nat, Ordered(c, f, e, x, y)
      PROVE  /\ dma # NULL => dma \in live
             /\ pc[c] \in {"fill", "test", "claim"} =>
                  /\ pNodeData[c] \in live
                  /\ pNodeData[c] # dma
                  /\ pNodeData[c] \notin Walk(full_list_Head) \cup Walk(empty_list_Head)
  <2>1. live = Nodes
    BY <1>3 DEF Ordered, Allocated
  <2>2. dma # NULL => dma \in live
    BY <2>1 DEF Alone
  <2> SUFFICES ASSUME pc[c] \in {"fill", "test", "claim"}
               PROVE  /\ pNodeData[c] \in live
                      /\ pNodeData[c] # dma
                      /\ pNodeData[c] \notin Walk(full_list_Head) \cup Walk(empty_list_Head)
    BY <2>2
  <2>3. pc[c] \in Apart /\ pc[c] \notin Linking /\ pNodeData[c] \in Nodes /\ pNodeData[c] # NULL
    BY PtrFacts DEF Apart, Linking, Alone, WriteLabel
  <2>4. /\ \A i \in Queued(c) : f[i] # pNodeData[c]
        /\ \A j \in x .. y - 1 : e[j] # pNodeData[c]
    BY <1>3, <2>3 DEF Ordered, Disjoint
  <2>5. Len(sent) \in Nat /\ Len(accepted) \in Nat
    BY DEF Calm, OrderTypes
  <2>6. Low \in Nat /\ Top(c) \in Nat /\ Low > Len(sent) /\ Low <= Top(c)
    BY <1>3, <2>5 DEF Low, Top, Ordered, FullOrder
  <2>7. pNodeData[c] # dma
    <3> SUFFICES ASSUME dma # NULL PROVE pNodeData[c] # dma
      BY <2>3
    <3>1. dma = pCurrentMDASendNode /\ pCurrentMDASendNode # NULL
      BY DEF Alone
    <3>2. dma = f[Len(sent) + 1] /\ Low = Len(sent) + 2
      BY <1>3, <3>1 DEF Ordered, FullOrder, Low
    <3>3. Len(sent) + 1 \in Queued(c)
      BY <2>5, <2>6, <3>2 DEF Queued
    <3> QED
      BY <2>4, <3>2, <3>3
  <2>8. pNodeData[c] \notin Walk(full_list_Head)
    <3>1. \A i \in Low .. Top(c) - 1 : i \in Queued(c)
      BY <2>5, <2>6 DEF Queued
    <3>2. /\ \A i \in Low .. Top(c) - 1 : f[i] \in Nodes /\ Next[f[i]] = f[i + 1]
          /\ Next[full_list_Head] = f[Low] /\ f[Top(c)] = full_list_Tail
      BY <1>3, <2>3, <3>1 DEF Ordered, FullOrder
    <3>3. f[Top(c)] \notin Nodes
      BY <3>2, PtrFacts DEF Tails
    <3>4. PICK lo \in Nat, hi \in Nat : lo = Low /\ hi = Top(c)
      BY <2>6
    <3>5. \A p \in Walk(full_list_Head) : \E i \in lo .. hi - 1 : p = f[i]
      <4>1. lo <= hi /\ Next[full_list_Head] = f[lo] /\ f[hi] \notin Nodes
        BY <2>6, <3>2, <3>3, <3>4
      <4>2. \A i \in lo .. hi - 1 : f[i] \in Nodes /\ Next[f[i]] = f[i + 1]
        BY <3>2, <3>4
      <4> QED
        BY <4>1, <4>2, WalkOrdered
    <3> QED
      BY <2>4, <3>1, <3>4, <3>5
  <2>9. pNodeData[c] \notin Walk(empty_list_Head)
    <3>1. /\ x <= y /\ \A i \in x .. y - 1 : e[i] \in Nodes /\ Next[e[i]] = e[i + 1]
          /\ Next[empty_list_Head] = e[x] /\ e[y] = empty_list_Tail
      BY <1>3 DEF Ordered, EmptyOrder
    <3>2. e[y] \notin Nodes
      BY <3>1, PtrFacts DEF Tails
    <3>3. \A p \in Walk(empty_list_Head) : \E i \in x .. y - 1 : p = e[i]
      <4>1. x <= y /\ Next[empty_list_Head] = e[x] /\ e[y] \notin Nodes
        BY <3>1, <3>2
      <4>2. \A i \in x .. y - 1 : e[i] \in Nodes /\ Next[e[i]] = e[i + 1]
        BY <3>1
      <4> QED
        BY <4>1, <4>2, WalkOrdered
    <3> QED
      BY <2>4, <3>3
  <2> QED
    BY <2>1, <2>3, <2>7, <2>8, <2>9
<1>4. \A v \in Writers \ {c} : pc[v] = "out" /\ ~Owns(v)
  BY DEF Alone, Owns
<1> QED
  BY <1>1, <1>2, <1>3, <1>4

\* For callers that take turns, and for a single one of any speed, the buffer a
\* thread fills is allocated and its alone: not being sent, not on a list, not
\* another thread's.
THEOREM BufferOwnershipHolds == Spec => []BufferOwnership
<1>1. OpenInv /\ (TakeTurns => Turns) /\ TakeTurns => BufferOwnership
  <2> SUFFICES ASSUME OpenInv, TakeTurns, Turns PROVE BufferOwnership
    OBVIOUS
  <2>1. NODE_NUM - 1 \in 0 .. NODE_NUM - 1
    BY NodeAssumption
  <2>2. dma # NULL => dma \in live
    <3> SUFFICES ASSUME dma # NULL PROVE dma \in live
      OBVIOUS
    <3>1. opened /\ ~Freeing /\ ListsReady
      BY DEF Turns, OneAtATime, ListsReady
    <3>2. PICK r \in Nodes, m \in 0 .. NODE_NUM : ChainOf(r, m)
      BY <3>1 DEF Turns, InLists
    <3> QED
      BY <2>1, <3>1, <3>2, AtFacts DEF ChainOf
  <2>3. ASSUME NEW w \in Writers, pc[w] \in {"fill", "test", "claim"}
        PROVE  /\ pNodeData[w] \in live
               /\ pNodeData[w] # dma
               /\ pNodeData[w] \notin Walk(full_list_Head) \cup Walk(empty_list_Head)
               /\ \A v \in Writers \ {w} : Owns(v) => pNodeData[v] # pNodeData[w]
    <3>1. Active(w) /\ pc[w] \in Having
      BY <2>3 DEF Active, Having
    <3>2. opened /\ dma = NULL /\ ~Freeing /\ \A v \in Writers \ {w} : ~Active(v)
      BY <3>1, WritesAlone DEF Turns, TakeTurns
    <3>3. ListsReady /\ NodeOut
      BY <3>1, <3>2 DEF ListsReady, NodeOut
    <3>4. PICK r \in Nodes, m \in 0 .. NODE_NUM : ChainOf(r, m)
      BY <3>3 DEF Turns, InLists
    <3>5. /\ Chain(r, m) /\ live = Nodes /\ m = NODE_NUM - 1 /\ pNodeData[w] = At(r, NODE_NUM - 1)
      BY <3>1, <3>2, <3>3, <3>4 DEF ChainOf
    <3>6. pNodeData[w] \in Nodes /\ pNodeData[w] # NULL
      BY <2>1, <3>5, AtFacts, PtrFacts
    <3>7. Walk(full_list_Head) = {}
      BY <3>3, WalkFull DEF Turns, InLists
    <3>8. pNodeData[w] \notin Walk(empty_list_Head)
      <4>1. Walk(empty_list_Head) = {At(r, k) : k \in 0 .. m - 1}
        BY <3>5, WalkChain
      <4>2. \A k \in 0 .. m - 1 : k \in 0 .. NODE_NUM - 1 /\ k # NODE_NUM - 1
        BY <3>5, NodeAssumption
      <4>3. \A k \in 0 .. m - 1 : At(r, k) # At(r, NODE_NUM - 1)
        BY <2>1, <4>2, AtFacts
      <4> QED
        BY <3>5, <4>1, <4>3
    <3>9. \A v \in Writers \ {w} : ~Owns(v)
      BY <3>2 DEF Turns, TurnTypes, Owns, Active, Having
    <3> QED
      BY <3>2, <3>5, <3>6, <3>7, <3>8, <3>9
  <2> QED
    BY <2>2, <2>3 DEF BufferOwnership
<1>2. /\ use \in Uses
      /\ \A c \in Writers : use.callers = {c} => Alone(c)
      /\ \A c \in Writers : use.callers = {c} => Allocated(c)
      /\ \A c \in Writers : use.callers = {c} => Calm(c)
      /\ ~TakeTurns
      => BufferOwnership
  <2> SUFFICES ASSUME use \in Uses, Cardinality(use.callers) = 1, usart, ~ranDry,
                      \A c \in Writers : use.callers = {c} => Alone(c) /\ Allocated(c) /\ Calm(c)
               PROVE  BufferOwnership
    BY DEF BufferOwnership
  <2>1. use.callers \subseteq Writers /\ IsFiniteSet(use.callers)
    BY UsesAssumption, WritersAssumption, FS_Subset
  <2>2. PICK c : use.callers = {c}
    BY <2>1, FS_Singleton
  <2>3. c \in Writers /\ Alone(c) /\ Allocated(c) /\ Calm(c)
    BY <2>1, <2>2
  <2> QED
    BY <2>3, SoleOwnership DEF BufferOwnership
<1> QED
  BY <1>1, <1>2, OpenInvHolds, TurnsHolds, UsesHold, AloneHolds, AllocatedHolds, CalmHolds, PTL

\* For callers that take turns, when nothing is under way every node is back on
\* a list.
THEOREM NoNodeLostHolds == Spec => []NoNodeLost
<1>1. (TakeTurns => Turns) => NoNodeLost
  <2> SUFFICES ASSUME Turns, opened, dma = NULL, \A w \in Writers : pc[w] \in {"idle", "out"}
               PROVE  Walk(empty_list_Head) \cup Walk(full_list_Head) = Nodes
    BY DEF NoNodeLost
  <2>1. ListsReady /\ ~NodeOut /\ ~Freeing
    BY DEF ListsReady, NodeOut, Freeing, Having
  <2>2. PICK r \in Nodes, m \in 0 .. NODE_NUM : ChainOf(r, m)
    BY <2>1 DEF Turns, InLists
  <2>3. Chain(r, m) /\ m = NODE_NUM
    BY <2>1, <2>2 DEF ChainOf
  <2>4. Walk(empty_list_Head) = {At(r, k) : k \in 0 .. NODE_NUM - 1}
    BY <2>3, WalkChain
  <2>5. Walk(full_list_Head) = {}
    BY <2>1, WalkFull DEF Turns, InLists
  <2> QED
    BY <2>4, <2>5, AtFacts
<1> QED
  BY <1>1, TurnsHolds, PTL
=============================================================================
