---------------------------- MODULE Uplink_proofs ----------------------------
(***************************************************************************)
(* Descriptors, uploads, pictures, positions and voice frames, for every   *)
(* size of the descriptor table, any set of upload threads, every file and *)
(* packet size, every picture and every heap.                              *)
(***************************************************************************)
EXTENDS Uplink, TLAPS

-----------------------------------------------------------------------------
(* Descriptors                                                             *)

\* Every entry in use belongs to the camera thread or the dial thread, between
\* open and close, or to an upload that has opened its file; uploads keep what
\* they have.
FdOwned ==
  /\ ref_count \in [Fds -> {0, 1}]
  /\ camFd \in Fds \cup {NoFd} /\ dialFd \in Fds \cup {NoFd} /\ upFd \in [Uploads -> Fds \cup {NoFd}]
  /\ camFd # NoFd => ref_count[camFd] = 1 /\ camPc \in {"write", "close", "store2"}
  /\ dialFd # NoFd => ref_count[dialFd] = 1 /\ dialPc = "read" /\ dialFd # camFd
  /\ \A u \in Uploads : upPc[u] \in {"none", "start"} => upFd[u] = NoFd
  /\ upPc \in [Uploads -> {"none", "start", "read", "send", "done"}]
  /\ \A f \in Fds : ref_count[f] = 1 => f \in {camFd, dialFd} \/ \E u \in Uploads : upFd[u] = f

descriptors == <<ref_count, camFd, camPc, dialFd, dialPc, upFd, upPc>>

\* A thread gives up for want of a descriptor.
GivesUp == (camPc' = "returned" /\ camPc = "open") \/ (dialPc' = "halted" /\ dialPc = "idle")

AllHeld == \A f \in Fds : f \in {camFd, dialFd} \/ \E u \in Uploads : upFd[u] = f

\* -1 is not an entry of the table.
LEMMA NoFdIsNoFd == NoFd \notin Fds
BY FdMaxAssumption DEF NoFd, Fds

\* A step that leaves the descriptors alone preserves their ownership.
LEMMA DescriptorsUntouched ==
  FdOwned /\ UNCHANGED descriptors => FdOwned' /\ ~GivesUp
BY DEF FdOwned, GivesUp, descriptors

\* open finds no entry only when each of them is held.
LEMMA FullIsHeld == FdOwned /\ open(NoFd) => AllHeld
BY NoFdIsNoFd DEF open, FirstFree, FdOwned, AllHeld

\* The camera thread (CameraAPP.c 143-199) closes what it opens.
LEMMA CameraKeepsOwnership ==
  ASSUME FdOwned, CameraThread, UNCHANGED <<dialVars, upVars>>
  PROVE  FdOwned' /\ (GivesUp => AllHeld)
<1> USE NoFdIsNoFd
<1>0. UNCHANGED <<dialFd, dialPc, upFd, upPc>>
  BY DEF dialVars, upVars
<1>1. CASE CamRecv
  BY <1>0, <1>1 DEF CamRecv, FdOwned, GivesUp
<1>2. CASE CamOpen
  <2> PICK fd \in Fds \cup {NoFd} :
        open(fd) /\ camFd' = fd /\ camPc' = IF fd = NoFd THEN "returned" ELSE "write"
    BY <1>2 DEF CamOpen
  <2>1. camPc = "open" /\ camFd = NoFd
    BY <1>2 DEF CamOpen, FdOwned
  <2>2. CASE fd = NoFd
    BY <1>0, <2>1, <2>2, FullIsHeld DEF open, FdOwned
  <2>3. CASE fd \in Fds
    BY <1>0, <2>1, <2>3 DEF open, FirstFree, FdOwned, GivesUp
  <2> QED
    BY <2>2, <2>3
<1>3. CASE CamRefused \/ CamWrite \/ CamWriteFails
  BY <1>0, <1>3 DEF CamRefused, CamWrite, CamWriteFails, FdOwned, GivesUp
<1>4. CASE CamClose
  BY <1>0, <1>4 DEF CamClose, close, FdOwned, GivesUp
<1>5. CASE CamClear
  BY <1>0, <1>5 DEF CamClear, FdOwned, GivesUp
<1>6. CASE CamAsk
  BY <1>0, <1>6 DEF CamAsk, AfterAsk, FdOwned, GivesUp
<1>7. CASE CamStore
  <2>1. camPc = "store" /\ camPc' = "store2" /\ camFd = NoFd
    BY <1>7 DEF CamStore, FdOwned
  <2>2. CASE \E fd \in Fds \cup {NoFd} : open(fd) /\ camFd' = fd
    <3> PICK fd \in Fds \cup {NoFd} : open(fd) /\ camFd' = fd
      BY <2>2
    <3> QED
      BY <1>0, <2>1 DEF open, FirstFree, FdOwned, GivesUp
  <2>3. CASE camFd' = NoFd /\ UNCHANGED ref_count
    BY <1>0, <2>1, <2>3 DEF FdOwned, GivesUp
  <2> QED
    BY <1>7, <2>2, <2>3 DEF CamStore
<1>8. CASE CamStoreClose
  BY <1>0, <1>8 DEF CamStoreClose, close, FdOwned, GivesUp
<1>9. CASE CamAgain
  BY <1>0, <1>9 DEF CamAgain, FdOwned, GivesUp
<1> QED
  BY <1>1, <1>2, <1>3, <1>4, <1>5, <1>6, <1>7, <1>8, <1>9 DEF CameraThread

\* So does the dial thread (AT_APP.c 166-169).
LEMMA DialKeepsOwnership ==
  ASSUME FdOwned, DialOpen \/ DialClose
  PROVE  FdOwned' /\ (GivesUp => AllHeld)
<1> USE NoFdIsNoFd
<1>0. UNCHANGED <<camFd, camPc, upFd, upPc>>
  BY DEF DialOpen, DialClose, camVars, upVars
<1>1. CASE DialOpen
  <2> PICK fd \in Fds \cup {NoFd} :
        open(fd) /\ dialFd' = fd /\ dialPc' = IF fd = NoFd THEN "halted" ELSE "read"
    BY <1>1 DEF DialOpen
  <2>1. dialPc = "idle" /\ dialFd = NoFd
    BY <1>1 DEF DialOpen, FdOwned
  <2>2. CASE fd = NoFd
    BY <1>0, <2>1, <2>2, FullIsHeld DEF open, FdOwned
  <2>3. CASE fd \in Fds
    BY <1>0, <2>1, <2>3 DEF open, FirstFree, FdOwned, GivesUp
  <2> QED
    BY <2>2, <2>3
<1>2. CASE DialClose
  BY <1>0, <1>2 DEF DialClose, close, FdOwned, GivesUp
<1> QED
  BY <1>1, <1>2

\* An upload (GNSS_APP.c 284) takes a free entry only, and keeps it.
LEMMA UploadKeepsOwnership ==
  ASSUME FdOwned, NEW u \in Uploads, UploadCMD(u) \/ UploadThread(u)
  PROVE  FdOwned' /\ ~GivesUp
<1> USE NoFdIsNoFd
<1>0. UNCHANGED <<camFd, camPc, dialFd, dialPc>>
  BY DEF UploadCMD, UploadThread, UploadRefused, UploadRead, UploadReadFails, UploadSend, UploadOpen,
         camVars, dialVars
<1>1. CASE UploadCMD(u)
  BY <1>0, <1>1 DEF UploadCMD, FdOwned, GivesUp
<1>2. CASE UploadRefused(u)
  BY <1>0, <1>2 DEF UploadRefused, FdOwned, GivesUp
<1>3. CASE \E n \in FileSizes : UploadOpen(u, n)
  <2> PICK n \in FileSizes : UploadOpen(u, n)
    BY <1>3
  <2> PICK fd \in Fds \cup {NoFd} :
        /\ open(fd)
        /\ upFd' = [upFd EXCEPT ![u] = fd]
        /\ upPc' = [upPc EXCEPT ![u] = IF fd = NoFd THEN "done" ELSE "read"]
    BY DEF UploadOpen
  <2>1. upPc[u] = "start" /\ upFd[u] = NoFd
    BY DEF UploadOpen, FdOwned
  <2>2. \A f \in Fds : ref_count'[f] = 1 => f \in {camFd', dialFd'} \/ \E v \in Uploads : upFd'[v] = f
    BY <1>0, <2>1 DEF open, FdOwned
  <2> QED
    BY <1>0, <2>1, <2>2 DEF open, FirstFree, FdOwned, GivesUp
<1>4. CASE UploadRead(u) \/ UploadReadFails(u)
  BY <1>0, <1>4 DEF UploadRead, UploadReadFails, FdOwned, GivesUp
<1>5. CASE UploadSend(u)
  BY <1>0, <1>5 DEF UploadSend, FdOwned, GivesUp
<1> QED
  BY <1>1, <1>2, <1>3, <1>4, <1>5 DEF UploadThread

\* Everything but the steps of Pictures leaves its variables alone.
LEMMA PicturesOrNot ==
  [Next]_vars =>
    \/ PicturesStep(CameraAnswers) \/ PicturesStep(CameraThread)
    \/ PicturesStep(DialOpen) \/ PicturesStep(DialClose)
    \/ \E u \in Uploads : PicturesStep(UploadCMD(u)) \/ PicturesStep(UploadThread(u))
    \/ UNCHANGED picVars
BY DEF Next, Register, GpsStep, AlertStep, VoiceStep, parts3, vars

\* The camera's packets and its thread leave the other threads alone.
LEMMA CameraAlone ==
  CameraAnswers \/ CameraThread => UNCHANGED <<dialVars, upVars>>
BY DEF CameraAnswers, Camera_input, CameraCorrupted, CameraFalseEnd, CameraLost, CameraRest,
       CameraThread, CamRecv, CamOpen, CamRefused, CamWrite, CamWriteFails, CamClose, CamClear,
       CamAsk, CamStore, CamStoreClose, CamAgain

\* The camera thread ends for want of a descriptor (CameraAPP.c:156), and the dial
\* thread stops in its assertion (AT_APP.c:167), only when uploads and the other of
\* the two hold every entry, for every DFS_FD_MAX and any number of uploads.
THEOREM CameraEndsOnlyWhenFullHolds == Spec => CameraEndsOnlyWhenFull
<1>1. Init => FdOwned
  BY NoFdIsNoFd DEF Init, PicInit, FdInit, FdOwned
<1>2. FdOwned /\ [Next]_vars => FdOwned' /\ (GivesUp => AllHeld)
  <2> SUFFICES ASSUME FdOwned, [Next]_vars PROVE FdOwned' /\ (GivesUp => AllHeld)
    OBVIOUS
  <2>1. CASE PicturesStep(CameraAnswers)
    BY <2>1, CameraAlone, DescriptorsUntouched
    DEF PicturesStep, CameraAnswers, Camera_input, CameraCorrupted, CameraFalseEnd, CameraLost, CameraRest,
        dialVars, upVars, descriptors
  <2>2. CASE PicturesStep(CameraThread)
    BY <2>2, CameraAlone, CameraKeepsOwnership DEF PicturesStep
  <2>3. CASE PicturesStep(DialOpen) \/ PicturesStep(DialClose)
    BY <2>3, DialKeepsOwnership DEF PicturesStep
  <2>4. CASE \E u \in Uploads : PicturesStep(UploadCMD(u)) \/ PicturesStep(UploadThread(u))
    BY <2>4, UploadKeepsOwnership DEF PicturesStep
  <2>5. CASE UNCHANGED picVars
    BY <2>5, DescriptorsUntouched DEF picVars, camVars, dialVars, upVars, descriptors
  <2> QED
    BY <2>1, <2>2, <2>3, <2>4, <2>5, PicturesOrNot
<1>3. FdOwned /\ [Next]_vars => [GivesUp => AllHeld]_picVars
  BY <1>2
<1>4. CameraEndsOnlyWhenFull <=> [][GivesUp => AllHeld]_picVars
  BY PTL DEF CameraEndsOnlyWhenFull, GivesUp, AllHeld
<1> QED
  BY <1>1, <1>2, <1>3, <1>4, PTL DEF Spec
-----------------------------------------------------------------------------
(* Pictures                                                                *)

\* The packet buffer holds the newest part, or one that came corrupted.
PartHeld == parts > 0 /\ size = 1 /\ (spoilt \/ (buf = parts /\ file = parts - 1))

\* Camera1.jpg holds the first n parts of the picture being taken.
Collected(n) == spoilt \/ file = n

\* What makes PhotoStored inductive: as long as no packet's end is found in the wrong
\* place, camera and thread take turns, so the buffer and its size belong to the
\* thread from the event until it asks for more.
TakingTurns ==
  /\ rest = Nothing /\ ~behind
  /\ camPc = "recv" /\ command # <<>> =>
       /\ CameraEV = {}
       /\ \/ command = <<"photo">> /\ Collected(0)
          \/ command = <<"next">> /\ Collected(parts)
  /\ camPc = "recv" /\ command = <<>> =>
       \/ CameraEV = {dNoneDatapart} /\ Collected(parts)
       \/ PartHeld /\ \E kind \in {dPartOfdata, dEndChars} : CameraEV = {kind}
  /\ camPc # "recv" => command = <<>> /\ CameraEV = {}
  /\ camPc \in {"open", "write"} => PartHeld
  /\ camPc \in {"open", "write", "close", "clear", "ask"} => dNoneDatapart \notin Vaule
  /\ camPc \in {"close", "clear", "ask", "store"} => Collected(parts)
  /\ camPc \in {"store2", "again"} => Collected(0)

PhotoInv ==
  /\ spoilt \in BOOLEAN /\ parts \in Nat /\ file \in Nat \cup {Garbage} /\ misread \in Nat
  /\ camPc \in {"recv", "open", "write", "close", "clear", "ask", "store", "store2", "again",
                "returned", "refused"}
  /\ misread = 0 => picture # "partial" /\ TakingTurns

\* What a packet taken as it is does to camera and buffer.
LEMMA PacketTaken ==
  ASSUME PhotoInv, misread = 0, NEW kind \in {dPartOfdata, dEndChars, dNoneDatapart},
         NEW n \in 0 .. MaxParts, NEW data, Sends(kind, n), CameraData(kind, data)
  PROVE  /\ camPc = "recv" /\ command' = <<>> /\ ~behind' /\ CameraEV' = {kind}
         /\ size' = 1 /\ buf' = data /\ parts' = n /\ n \in Nat
         /\ kind = dNoneDatapart => Collected(n)
         /\ kind # dNoneDatapart => n > 0 /\ Collected(n - 1)
<1>1. /\ camPc = "recv" /\ CameraEV = {} /\ ~behind /\ parts \in Nat
      /\ \/ command = <<"photo">> /\ Collected(0)
         \/ command = <<"next">> /\ Collected(parts)
  BY DEF Sends, PhotoInv, TakingTurns
<1>2. Returned(kind) = {kind}
  BY <1>1 DEF Returned
<1>3. CameraEV' = {kind} /\ ~behind' /\ size' = 1 /\ buf' = data
  BY <1>1, <1>2 DEF CameraData
<1>4. n \in Nat /\ command' = Tail(command) /\ parts' = n
      /\ n = (IF Head(command) = "photo" THEN 0 ELSE parts) + (IF kind = dNoneDatapart THEN 0 ELSE 1)
  <2>1. n \in Nat
    BY PicturesAssumption
  <2>2. n = (IF Head(command) = "photo" THEN 0 ELSE parts) + (IF kind = dNoneDatapart THEN 0 ELSE 1)
    BY Zenon DEF Sends
  <2>3. command' = Tail(command) /\ parts' = n
    BY Zenon DEF Sends
  <2> QED
    BY <2>1, <2>2, <2>3
<1>5. CASE command = <<"photo">> /\ Collected(0)
  <2>1. Head(command) = "photo" /\ Tail(command) = <<>>
    BY <1>5
  <2>2. n = IF kind = dNoneDatapart THEN 0 ELSE 1
    BY <1>4, <2>1
  <2>3. kind = dNoneDatapart => Collected(n)
    BY <1>5, <2>2
  <2>4. kind # dNoneDatapart => n > 0 /\ n - 1 = 0
    BY <2>2
  <2> QED
    BY <1>1, <1>3, <1>4, <1>5, <2>1, <2>3, <2>4
<1>6. CASE command = <<"next">> /\ Collected(parts)
  <2>1. Head(command) = "next" /\ Tail(command) = <<>>
    BY <1>6
  <2>2. n = parts + (IF kind = dNoneDatapart THEN 0 ELSE 1)
    BY <1>4, <2>1
  <2>3. kind = dNoneDatapart => n = parts
    BY <1>1, <2>2
  <2>4. kind # dNoneDatapart => n > 0 /\ n - 1 = parts
    BY <1>1, <2>2
  <2> QED
    BY <1>1, <1>3, <1>4, <1>6, <2>1, <2>3, <2>4
<1> QED
  BY <1>1, <1>5, <1>6

\* A packet from the camera.
LEMMA CameraKeepsPhoto ==
  ASSUME PhotoInv, CameraAnswers
  PROVE  PhotoInv'
<1>1. UNCHANGED <<camPc, file, picture>> /\ misread' \in {misread, misread + 1} /\ (spoilt => spoilt')
  BY DEF CameraAnswers, Camera_input, CameraCorrupted, CameraFalseEnd, CameraLost, CameraRest, fileVars
<1>2. spoilt' \in BOOLEAN /\ parts' \in Nat
  <2>1. spoilt' \in {spoilt, TRUE}
    BY DEF CameraAnswers, Camera_input, CameraCorrupted, CameraFalseEnd, CameraLost, CameraRest, fileVars
  <2>2. parts' \in (0 .. MaxParts) \cup {parts}
    BY DEF CameraAnswers, Camera_input, CameraCorrupted, CameraFalseEnd, CameraLost, CameraRest, Sends
  <2>3. MaxParts \in Nat
    BY PicturesAssumption
  <2>4. parts' \in Nat
    BY <2>2, <2>3 DEF PhotoInv
  <2>5. spoilt' \in BOOLEAN
    BY <2>1 DEF PhotoInv
  <2> QED
    BY <2>4, <2>5
<1>3. ASSUME misread' = 0 PROVE TakingTurns'
  <2>1. misread = 0 /\ TakingTurns
    BY <1>1, <1>3 DEF PhotoInv
  <2>2. ~(\E kind \in {dPartOfdata, dEndChars, dNoneDatapart} : CameraFalseEnd(kind) \/ CameraLost(kind))
    BY <1>3, <2>1 DEF CameraFalseEnd, CameraLost
  <2>3. ~CameraRest
    BY <2>1 DEF CameraRest, TakingTurns
  <2>4. PICK kind \in {dPartOfdata, dEndChars, dNoneDatapart} : Camera_input(kind) \/ CameraCorrupted(kind)
    BY <2>2, <2>3 DEF CameraAnswers
  <2>5. CASE Camera_input(kind)
    <3> DEFINE data(n) == IF kind = dNoneDatapart THEN Garbage ELSE n
    <3>1. PICK n \in 0 .. MaxParts : Sends(kind, n) /\ CameraData(kind, data(n))
      BY <2>5 DEF Camera_input
    <3>2. UNCHANGED <<rest, spoilt>>
      BY <2>5 DEF Camera_input, fileVars
    <3>3. /\ camPc = "recv" /\ command' = <<>> /\ ~behind' /\ CameraEV' = {kind}
          /\ size' = 1 /\ buf' = data(n) /\ parts' = n
          /\ kind = dNoneDatapart => Collected(n)
          /\ kind # dNoneDatapart => n > 0 /\ Collected(n - 1)
      BY <2>1, <3>1, PacketTaken
    <3>4. CASE kind = dNoneDatapart
      BY <1>1, <2>1, <3>2, <3>3, <3>4 DEF TakingTurns, Collected
    <3>5. CASE kind # dNoneDatapart
      <4>1. PartHeld'
        BY <1>1, <3>2, <3>3, <3>5 DEF PartHeld, Collected
      <4> QED
        BY <1>1, <2>1, <3>2, <3>3, <3>5, <4>1 DEF TakingTurns
    <3> QED
      BY <3>4, <3>5
  <2>6. CASE CameraCorrupted(kind)
    <3>1. PICK n \in 0 .. MaxParts : Sends(kind, n) /\ CameraData(kind, Garbage)
      BY <2>6 DEF CameraCorrupted
    <3>2. UNCHANGED rest /\ spoilt' /\ kind # dNoneDatapart
      BY <2>6 DEF CameraCorrupted
    <3>3. /\ camPc = "recv" /\ command' = <<>> /\ ~behind' /\ CameraEV' = {kind}
          /\ size' = 1 /\ parts' = n /\ n > 0
      BY <2>1, <3>1, <3>2, PacketTaken
    <3>4. PartHeld'
      BY <3>2, <3>3 DEF PartHeld
    <3> QED
      BY <1>1, <2>1, <3>2, <3>3, <3>4 DEF TakingTurns
  <2> QED
    BY <2>4, <2>5, <2>6
<1>4. misread' = 0 => picture' # "partial"
  BY <1>1 DEF PhotoInv
<1> QED
  BY <1>1, <1>2, <1>3, <1>4 DEF PhotoInv

\* The camera thread.
LEMMA ThreadKeepsPhoto ==
  ASSUME PhotoInv, CameraThread
  PROVE  PhotoInv'
<1>1. UNCHANGED <<misread, parts, rest, behind>>
  BY DEF CameraThread, CamRecv, CamOpen, CamRefused, CamWrite, CamWriteFails, CamClose, CamClear,
         CamAsk, CamStore, CamStoreClose, CamAgain, lineVars, dataVars
<1>2. /\ parts' \in Nat /\ misread' \in Nat
      /\ camPc' \in {"recv", "open", "write", "close", "clear", "ask", "store", "store2", "again",
                     "returned", "refused"}
  BY <1>1 DEF PhotoInv, CameraThread, CamRecv, CamOpen, CamRefused, CamWrite, CamWriteFails, CamClose,
              CamClear, CamAsk, AfterAsk, CamStore, CamStoreClose, CamAgain
<1>3. CASE CamWrite
  <2>1. /\ camPc = "write" /\ file' = Appended(Written) /\ camPc' = "close"
        /\ UNCHANGED <<command, CameraEV, Vaule, size, buf, spoilt, picture>>
    BY <1>3 DEF CamWrite, lineVars, dataVars
  <2>2. file' \in Nat \cup {Garbage}
    BY <2>1 DEF Appended, PhotoInv, Garbage
  <2>3. ASSUME misread = 0 PROVE Collected(parts)'
    <3>1. PartHeld
      BY <2>1, <2>3 DEF PhotoInv, TakingTurns
    <3>2. CASE spoilt
      BY <2>1, <3>2 DEF Collected
    <3>3. CASE ~spoilt
      <4>1. buf = parts /\ file = parts - 1 /\ size = 1 /\ parts \in Nat /\ parts > 0
        BY <3>1, <3>3 DEF PartHeld, PhotoInv
      <4>2. Written = file + 1 /\ file # Garbage
        BY <4>1 DEF Written, Garbage
      <4> QED
        BY <1>1, <2>1, <4>1, <4>2 DEF Appended, Collected
    <3> QED
      BY <3>2, <3>3
  <2> QED
    BY <1>1, <1>2, <2>1, <2>2, <2>3 DEF PhotoInv, TakingTurns
<1>4. CASE CamWriteFails
  <2>1. /\ camPc = "write" /\ file' \in {file, Garbage} /\ spoilt' /\ camPc' = "close"
        /\ UNCHANGED <<command, CameraEV, Vaule, picture>>
    BY <1>4 DEF CamWriteFails, lineVars, dataVars
  <2>2. file' \in Nat \cup {Garbage} /\ spoilt' \in BOOLEAN
    BY <1>4, <2>1 DEF PhotoInv, CamWriteFails
  <2> QED
    BY <1>1, <1>2, <2>1, <2>2 DEF PhotoInv, TakingTurns, Collected
<1>5. CASE CamStore
  <2>1. camPc = "store" /\ camPc' = "store2" /\ (Renamed \/ NotRenamed) /\ UNCHANGED <<command, CameraEV, Vaule>>
    BY <1>5 DEF CamStore, lineVars, dataVars
  <2>2. misread = 0 => Collected(parts)
    BY <2>1 DEF PhotoInv, TakingTurns
  <2>3. CASE Renamed
    <3>1. file' = 0 /\ spoilt' = FALSE /\ Collected(0)'
      BY <2>3 DEF Renamed, Collected
    <3>2. misread = 0 => picture' # "partial"
      BY <2>2, <2>3 DEF Renamed, Collected
    <3> QED
      BY <1>1, <1>2, <2>1, <3>1, <3>2 DEF PhotoInv, TakingTurns
  <2>4. CASE NotRenamed
    <3>1. file' = (IF file = 0 THEN 0 ELSE Garbage) /\ spoilt' = (spoilt \/ file # 0) /\ UNCHANGED picture
      BY <2>4 DEF NotRenamed
    <3>2. Collected(0)'
      BY <3>1 DEF Collected
    <3>3. file' \in Nat \cup {Garbage} /\ spoilt' \in BOOLEAN
      BY <3>1
    <3> QED
      BY <1>1, <1>2, <2>1, <3>1, <3>2, <3>3 DEF PhotoInv, TakingTurns
  <2> QED
    BY <2>1, <2>3, <2>4
<1>6. ASSUME UNCHANGED fileVars,
             CamRecv \/ CamOpen \/ CamRefused \/ CamClose \/ CamClear \/ CamAsk \/ CamStoreClose \/ CamAgain
      PROVE  PhotoInv'
  <2>1. UNCHANGED <<file, spoilt, picture>>
    BY <1>6 DEF fileVars
  <2>2. ASSUME misread = 0 PROVE TakingTurns'
    <3>0. TakingTurns
      BY <2>2 DEF PhotoInv
    <3>1. CASE CamRecv
      <4>1. /\ camPc = "recv" /\ CameraEV # {} /\ Vaule' = CameraEV /\ CameraEV' = {}
            /\ camPc' = (IF CameraEV = {dNoneDatapart} THEN "store" ELSE "open")
            /\ UNCHANGED <<command, buf, size>>
        BY <3>1 DEF CamRecv, lineVars
      <4>2. command = <<>>
        BY <3>0, <4>1 DEF TakingTurns
      <4>3. CASE CameraEV = {dNoneDatapart} /\ Collected(parts)
        BY <1>1, <2>1, <3>0, <4>1, <4>2, <4>3 DEF TakingTurns, Collected
      <4>4. CASE PartHeld /\ \E kind \in {dPartOfdata, dEndChars} : CameraEV = {kind}
        <5>1. dNoneDatapart \notin CameraEV
          BY <4>4 DEF dPartOfdata, dEndChars, dNoneDatapart
        <5>2. camPc' = "open"
          BY <4>1, <5>1
        <5> QED
          BY <1>1, <2>1, <3>0, <4>1, <4>2, <4>4, <5>1, <5>2 DEF TakingTurns, PartHeld
      <4> QED
        BY <3>0, <4>1, <4>2, <4>3, <4>4 DEF TakingTurns
    <3>2. CASE CamOpen \/ CamRefused
      <4>1. /\ camPc = "open" /\ camPc' \in {"returned", "refused", "write"}
            /\ UNCHANGED <<command, CameraEV, buf, size, Vaule>>
        BY <3>2 DEF CamOpen, CamRefused, lineVars, dataVars
      <4> QED
        BY <1>1, <2>1, <3>0, <4>1 DEF TakingTurns, PartHeld
    <3>3. CASE CamClose \/ CamClear \/ CamStoreClose
      BY <1>1, <2>1, <3>0, <3>3 DEF CamClose, CamClear, CamStoreClose, TakingTurns, Collected, lineVars, dataVars
    <3>4. CASE CamAsk
      <4>1. camPc = "ask" /\ camPc' = "recv" /\ command' = <<"next">> /\ UNCHANGED CameraEV
        BY <3>0, <3>4 DEF CamAsk, AfterAsk, TakingTurns, dataVars
      <4> QED
        BY <1>1, <2>1, <3>0, <4>1 DEF TakingTurns, Collected
    <3>5. CASE CamAgain
      <4>1. camPc = "again" /\ camPc' = "recv" /\ command' = <<"photo">> /\ UNCHANGED CameraEV
        BY <3>0, <3>5 DEF CamAgain, TakingTurns, dataVars
      <4> QED
        BY <1>1, <2>1, <3>0, <4>1 DEF TakingTurns, Collected
    <3> QED
      BY <1>6, <3>1, <3>2, <3>3, <3>4, <3>5
  <2> QED
    BY <1>1, <1>2, <2>1, <2>2 DEF PhotoInv
<1>7. \/ CamWrite \/ CamWriteFails \/ CamStore
      \/ UNCHANGED fileVars /\ (CamRecv \/ CamOpen \/ CamRefused \/ CamClose \/ CamClear \/ CamAsk
                                \/ CamStoreClose \/ CamAgain)
  BY DEF CameraThread, CamRecv, CamOpen, CamRefused, CamClose, CamClear, CamAsk, CamStoreClose, CamAgain
<1> QED
  BY <1>3, <1>4, <1>5, <1>6, <1>7

\* Uploads, the dial thread and everything else leave the picture alone.
LEMMA PhotoUntouched == PhotoInv /\ UNCHANGED camVars => PhotoInv'
BY DEF PhotoInv, TakingTurns, PartHeld, Collected, camVars, lineVars, dataVars, fileVars

\* As long as packets end where they should, every picture put away is the one the
\* camera sent, whole and in order, unless this very file met with a corrupted part, a
\* failed write or an earlier picture: however many parts it has, whatever fails, and
\* whatever the other threads do with the descriptors.
THEOREM PhotoStoredHolds == Spec => []PhotoStored
<1>1. Init => PhotoInv
  <2> SUFFICES ASSUME PicInit PROVE PhotoInv
    BY DEF Init
  <2>1. spoilt \in BOOLEAN /\ Collected(0)
    BY DEF PicInit, Collected
  <2> QED
    BY <2>1 DEF PicInit, PhotoInv, TakingTurns
<1>2. PhotoInv /\ [Next]_vars => PhotoInv'
  <2> SUFFICES ASSUME PhotoInv, [Next]_vars PROVE PhotoInv'
    OBVIOUS
  <2>1. CASE PicturesStep(CameraAnswers)
    BY <2>1, CameraKeepsPhoto DEF PicturesStep
  <2>2. CASE PicturesStep(CameraThread)
    BY <2>2, ThreadKeepsPhoto DEF PicturesStep
  <2>3. CASE PicturesStep(DialOpen) \/ PicturesStep(DialClose)
    BY <2>3, PhotoUntouched DEF PicturesStep, DialOpen, DialClose
  <2>4. CASE \E u \in Uploads : PicturesStep(UploadCMD(u)) \/ PicturesStep(UploadThread(u))
    BY <2>4, PhotoUntouched
    DEF PicturesStep, UploadCMD, UploadThread, UploadRefused, UploadOpen, UploadRead, UploadReadFails, UploadSend
  <2>5. CASE UNCHANGED picVars
    BY <2>5, PhotoUntouched DEF picVars
  <2> QED
    BY <2>1, <2>2, <2>3, <2>4, <2>5, PicturesOrNot
<1>3. PhotoInv => PhotoStored
  BY DEF PhotoInv, PhotoStored
<1> QED
  BY <1>1, <1>2, <1>3, PTL DEF Spec
-----------------------------------------------------------------------------
(* Uploads                                                                 *)

\* Quotient and remainder are what they should be, and determined by it.
LEMMA DivMod ==
  ASSUME NEW P \in Nat \ {0}, NEW n \in Nat
  PROVE  n = ((n \div P) * P) + (n % P) /\ n % P \in 0 .. P - 1 /\ n \div P \in Nat
OBVIOUS

LEMMA DivModUnique ==
  ASSUME NEW P \in Nat \ {0}, NEW n \in Nat, NEW q \in Nat, NEW r \in 0 .. P - 1,
         n = q * P + r
  PROVE  n \div P = q /\ n % P = r
OBVIOUS

\* After a whole number of packets, up to PacketSize more bytes are one packet more.
LEMMA OnePacketMore ==
  ASSUME NEW n \in Nat, n % PacketSize = 0, NEW r \in 1 .. PacketSize
  PROVE  /\ PacketsOf(n) \in Nat /\ PacketsOf(n + r) = PacketsOf(n) + 1
         /\ r = PacketSize => (n + r) % PacketSize = 0
<1> DEFINE q == n \div PacketSize
<1>1. PacketSize \in Nat \ {0} /\ 0 \in 0 .. PacketSize - 1
  BY PicturesAssumption
<1>2. q \in Nat /\ n = q * PacketSize + 0 /\ PacketsOf(n) = q
  BY <1>1, DivMod DEF PacketsOf
<1>3. CASE r = PacketSize
  <2>1. n + r \in Nat /\ n + r = (q + 1) * PacketSize + 0 /\ q + 1 \in Nat
    BY <1>1, <1>2, <1>3
  <2> HIDE DEF q
  <2>2. (n + r) \div PacketSize = q + 1 /\ (n + r) % PacketSize = 0
    BY <1>1, <2>1, DivModUnique
  <2> QED
    BY <1>2, <2>2 DEF PacketsOf
<1>4. CASE r # PacketSize
  <2>1. r \in 0 .. PacketSize - 1 /\ r # 0 /\ n + r \in Nat /\ n + r = q * PacketSize + r
    BY <1>1, <1>2, <1>4
  <2> HIDE DEF q
  <2>2. (n + r) \div PacketSize = q /\ (n + r) % PacketSize = r
    BY <1>1, <1>2, <2>1, DivModUnique
  <2> QED
    BY <1>2, <1>4, <2>1, <2>2 DEF PacketsOf
<1> QED
  BY <1>3, <1>4

\* No bytes, no packets.
LEMMA NoPackets == PacketsOf(0) = 0 /\ 0 % PacketSize = 0
<1>1. PacketSize \in Nat \ {0} /\ 0 \in 0 .. PacketSize - 1 /\ 0 = 0 * PacketSize + 0
  BY PicturesAssumption
<1>2. 0 \div PacketSize = 0 /\ 0 % PacketSize = 0
  BY <1>1, DivModUnique
<1> QED
  BY <1>2 DEF PacketsOf

\* What makes UploadWhole inductive: the packets counted so far are those the
\* bytes read so far need and those of the failed reads, and only the last of the
\* former may be short.
UploadInv ==
  /\ upPc \in [Uploads -> {"none", "start", "read", "send", "done"}]
  /\ upFd \in [Uploads -> Fds \cup {NoFd}] /\ upSize \in [Uploads -> Nat]
  /\ offset \in [Uploads -> Nat] /\ PacketID \in [Uploads -> Nat] /\ failures \in [Uploads -> Nat]
  /\ TotalPackets = [u \in Uploads |-> TotalPackets[u]]
  /\ \A u \in Uploads :
       /\ upPc[u] \in {"none", "start"} => upFd[u] = NoFd /\ offset[u] = 0 /\ PacketID[u] = 0 /\ failures[u] = 0
       /\ upPc[u] \in {"read", "send", "done"} /\ upFd[u] # NoFd =>
            /\ TotalPackets[u] = PacketsOf(upSize[u])
            /\ offset[u] <= upSize[u] /\ PacketID[u] = PacketsOf(offset[u]) + failures[u]
            /\ offset[u] < upSize[u] => offset[u] % PacketSize = 0
       /\ upPc[u] \in {"read", "send"} => upFd[u] # NoFd
       /\ upPc[u] = "done" /\ upFd[u] # NoFd => offset[u] = upSize[u]

\* The upload thread (GNSS_APP.c 284-318) and its creation.
LEMMA UploadKeepsCount ==
  ASSUME UploadInv, NEW u \in Uploads, UploadCMD(u) \/ UploadThread(u)
  PROVE  UploadInv'
<1> USE NoFdIsNoFd, PicturesAssumption
<1>1. CASE UploadCMD(u)
  BY <1>1 DEF UploadCMD, UploadInv, countVars
<1>2. CASE UploadRefused(u)
  BY <1>2 DEF UploadRefused, UploadInv, countVars
<1>3. CASE \E n \in FileSizes : UploadOpen(u, n)
  <2> PICK n \in FileSizes : UploadOpen(u, n)
    BY <1>3
  <2> PICK fd \in Fds \cup {NoFd} :
        /\ upFd' = [upFd EXCEPT ![u] = fd]
        /\ upPc' = [upPc EXCEPT ![u] = IF fd = NoFd THEN "done" ELSE "read"]
    BY DEF UploadOpen
  <2>1. /\ upSize' = [upSize EXCEPT ![u] = n] /\ n \in Nat
        /\ TotalPackets' = [TotalPackets EXCEPT ![u] = PacketsOf(n)]
        /\ UNCHANGED <<offset, PacketID, failures>> /\ upPc[u] = "start"
    BY DEF UploadOpen
  <2>2. offset[u] = 0 /\ PacketID[u] = 0 /\ failures[u] = 0
    BY <2>1 DEF UploadInv
  <2> QED
    BY <2>1, <2>2, NoPackets DEF UploadInv
<1>4. CASE UploadRead(u)
  <2>1. /\ upPc[u] = "read" /\ offset' = [offset EXCEPT ![u] = @ + Chunk(u)]
        /\ UNCHANGED <<upFd, upSize, TotalPackets, failures>>
    BY <1>4 DEF UploadRead
  <2>2. /\ upFd[u] # NoFd /\ offset[u] \in Nat /\ upSize[u] \in Nat /\ offset[u] <= upSize[u]
        /\ PacketID[u] = PacketsOf(offset[u]) + failures[u] /\ failures[u] \in Nat
        /\ offset[u] < upSize[u] => offset[u] % PacketSize = 0
    BY <2>1 DEF UploadInv
  <2>3. CASE Chunk(u) = 0
    <3>1. offset[u] = upSize[u]
      BY <2>2, <2>3 DEF Chunk
    <3>2. upPc' = [upPc EXCEPT ![u] = "done"] /\ UNCHANGED PacketID
      BY <1>4, <2>3 DEF UploadRead
    <3>3. offset' = offset
      BY <2>1, <2>2, <2>3 DEF UploadInv
    <3> QED
      BY <2>1, <2>2, <3>1, <3>2, <3>3 DEF UploadInv
  <2>4. CASE Chunk(u) # 0
    <3>1. offset[u] < upSize[u] /\ offset[u] + Chunk(u) <= upSize[u] /\ Chunk(u) \in 1 .. PacketSize
      BY <2>2, <2>4 DEF Chunk
    <3>2. offset[u] + Chunk(u) < upSize[u] => Chunk(u) = PacketSize
      BY <2>2 DEF Chunk
    <3>3. upPc' = [upPc EXCEPT ![u] = "send"] /\ PacketID' = [PacketID EXCEPT ![u] = @ + 1]
      BY <1>4, <2>4 DEF UploadRead
    <3>4. /\ PacketsOf(offset[u]) \in Nat
          /\ PacketsOf(offset[u] + Chunk(u)) = PacketsOf(offset[u]) + 1
          /\ offset[u] + Chunk(u) < upSize[u] => (offset[u] + Chunk(u)) % PacketSize = 0
      BY <2>2, <3>1, <3>2, OnePacketMore
    <3>5. offset[u] + Chunk(u) \in Nat
      BY <2>2, <3>1
    <3> HIDE DEF Chunk
    <3> QED
      BY <2>1, <2>2, <3>1, <3>3, <3>4, <3>5 DEF UploadInv
  <2> QED
    BY <2>3, <2>4
<1>5. CASE UploadReadFails(u)
  <2>1. /\ upPc[u] = "read" /\ upPc' = [upPc EXCEPT ![u] = "send"]
        /\ UNCHANGED <<upFd, upSize, offset, TotalPackets>>
    BY <1>5 DEF UploadReadFails
  <2>2. /\ upFd[u] # NoFd /\ offset[u] \in Nat /\ offset[u] <= upSize[u]
        /\ PacketID[u] = PacketsOf(offset[u]) + failures[u] /\ failures[u] \in Nat /\ PacketID[u] \in Nat
    BY <2>1 DEF UploadInv
  <2>3. CASE failures[u] < MaxFailed
    <3>1. /\ failures' = [failures EXCEPT ![u] = @ + 1]
          /\ PacketID' = [PacketID EXCEPT ![u] = @ + 1]
      BY <1>5, <2>3 DEF UploadReadFails
    <3>2. PacketsOf(offset[u]) \in Int
      BY <2>2, DivMod DEF PacketsOf
    <3>3. PacketID[u] + 1 = PacketsOf(offset[u]) + (failures[u] + 1)
      BY <2>2, <3>2
    <3> QED
      BY <2>1, <2>2, <3>1, <3>3 DEF UploadInv
  <2>4. CASE ~(failures[u] < MaxFailed)
    <3>1. UNCHANGED <<failures, PacketID>>
      BY <1>5, <2>4 DEF UploadReadFails
    <3> QED
      BY <2>1, <2>2, <3>1 DEF UploadInv
  <2> QED
    BY <2>3, <2>4
<1>6. CASE UploadSend(u)
  BY <1>6 DEF UploadSend, UploadInv, countVars
<1> QED
  BY <1>1, <1>2, <1>3, <1>4, <1>5, <1>6 DEF UploadThread

LEMMA UploadUntouched == UploadInv /\ UNCHANGED upVars => UploadInv'
BY DEF UploadInv, upVars, countVars

\* An upload that ends has sent the whole file, in the number of packets it has
\* announced and one for each read that failed (GNSS_APP.c 284-318), for every file
\* size and packet size and any number of failures.
THEOREM UploadWholeHolds == Spec => []UploadWhole
<1>1. Init => UploadInv
  BY DEF Init, PicInit, UploadInv
<1>2. UploadInv /\ [Next]_vars => UploadInv'
  <2> SUFFICES ASSUME UploadInv, [Next]_vars PROVE UploadInv'
    OBVIOUS
  <2>1. CASE \E u \in Uploads : PicturesStep(UploadCMD(u)) \/ PicturesStep(UploadThread(u))
    BY <2>1, UploadKeepsCount DEF PicturesStep
  <2>2. CASE UNCHANGED upVars
    BY <2>2, UploadUntouched
  <2>3. \/ \E u \in Uploads : PicturesStep(UploadCMD(u)) \/ PicturesStep(UploadThread(u))
        \/ UNCHANGED upVars
    BY CameraAlone, PicturesOrNot DEF PicturesStep, DialOpen, DialClose, picVars
  <2> QED
    BY <2>1, <2>2, <2>3
<1>3. UploadInv => UploadWhole
  BY DEF UploadInv, UploadWhole
<1> QED
  BY <1>1, <1>2, <1>3, PTL DEF Spec
-----------------------------------------------------------------------------
(* Positions                                                               *)

\* What makes GpsReportsSound inductive: Value has the bit only because the event
\* was there or by accident, and a report is made only after a sentence that
\* filled in a position, unless one was short or torn.
GpsInv ==
  /\ gpsValue \in BOOLEAN /\ authenticated \in BOOLEAN /\ early \in BOOLEAN
  /\ guessed \in BOOLEAN /\ disturbed \in BOOLEAN /\ torn \in BOOLEAN
  /\ gpsPc \in {"recv", "begin", "parse", "test"} /\ UserData \in Sentences \cup {"partial"}
  /\ gpsPc = "parse" /\ ~torn => UserData # "partial"
  /\ gpsValue /\ ~authenticated => guessed
  /\ early => guessed
  /\ ~disturbed => location \in {"none", "good"}
  /\ ~disturbed /\ gpsPc = "test" => location = "good"
  /\ ~disturbed => reported \in {"nothing", "good"}

\* One step of the position thread or of its interrupt.
LEMMA GpsKeepsInv ==
  ASSUME GpsInv, GPS_input \/ GpsThread, UNCHANGED authenticated
  PROVE  GpsInv'
<1>1. CASE GpsChar
  BY <1>1 DEF GpsChar, GpsInv
<1>2. CASE \E kind \in Sentences : GpsNewline(kind)
  BY <1>2 DEF GpsNewline, GpsInv
<1>3. CASE GpsRecv
  BY <1>3 DEF GpsRecv, GpsInv
<1>4. CASE GpsBegin
  BY <1>4 DEF GpsBegin, GpsInv
<1>5. CASE GpsParse
  <2> PICK kind \in Outcomes :
        /\ UnpackReturns(kind)
        /\ location' = CASE kind = "fix" -> IF torn THEN "bad" ELSE "good" [] OTHER -> location
        /\ disturbed' = (disturbed \/ torn \/ kind = "short")
    BY <1>5 DEF GpsParse
  <2>1. kind \in Sentences
    BY <1>5 DEF Outcomes, GpsParse, GpsInv
  <2>2. gpsPc' = IF kind = "void" THEN "recv" ELSE "test"
    BY DEF UnpackReturns
  <2>3. CASE disturbed'
    BY <1>5, <2>2, <2>3 DEF GpsParse, GpsInv
  <2>4. CASE ~disturbed'
    <3>1. ~disturbed /\ ~torn /\ kind # "short"
      BY <2>4
    <3>2. location' \in {"none", "good"} /\ (kind = "fix" => location' = "good")
      BY <3>1 DEF GpsInv
    <3>3. gpsPc' = "test" => kind = "fix"
      BY <2>1, <2>2, <3>1 DEF Sentences
    <3> QED
      BY <1>5, <2>2, <3>1, <3>2, <3>3 DEF GpsParse, GpsInv
  <2> QED
    BY <2>3, <2>4 
<1>6. CASE GpsTest
  BY <1>6 DEF GpsTest, GpsInv
<1> QED
  BY <1>1, <1>2, <1>3, <1>4, <1>5, <1>6 DEF GPS_input, GpsThread

\* A report before authentication is due to the uninitialised Value (GPSAPP.c:230)
\* and to nothing else, and reports come from whole sentences.
THEOREM GpsReportsSoundHolds == Spec => []GpsReportsSound
<1>1. Init => GpsInv
  <2> SUFFICES ASSUME AuthInit, GpsInit PROVE GpsInv
    BY DEF Init
  <2>1. CASE gpsValue
    BY <2>1 DEF AuthInit, GpsInit, GpsInv, Sentences
  <2>2. CASE ~gpsValue
    BY <2>2 DEF AuthInit, GpsInit, GpsInv, Sentences
  <2> QED
    BY <2>1, <2>2
<1>2. GpsInv /\ [Next]_vars => GpsInv'
  <2> SUFFICES ASSUME GpsInv, [Next]_vars PROVE GpsInv'
    OBVIOUS
  <2>1. CASE Register
    BY <2>1 DEF Register, Publish, parts3, gpsVars, GpsInv
  <2>2. CASE GpsStep(GPS_input) \/ GpsStep(GpsThread)
    BY <2>2, GpsKeepsInv DEF GpsStep
  <2>3. CASE UNCHANGED <<authenticated, gpsVars>>
    BY <2>3 DEF gpsVars, GpsInv
  <2>4. \/ Register \/ GpsStep(GPS_input) \/ GpsStep(GpsThread)
        \/ UNCHANGED <<authenticated, gpsVars>>
    BY DEF Next, PicturesStep, AlertStep, VoiceStep, parts3, vars
  <2> QED
    BY <2>1, <2>2, <2>3, <2>4
<1>3. GpsInv => GpsReportsSound
  BY DEF GpsInv, GpsReportsSound
<1> QED
  BY <1>1, <1>2, <1>3, PTL DEF Spec
-----------------------------------------------------------------------------
(* Voice                                                                   *)

\* Half h of the double buffer holds frame n and is not being refilled.
Whole(h, n) == Buffer[h] = [frame |-> n, dirty |-> FALSE]

\* The record thread has taken a half from the mailbox and not encoded it.
Encoding == recPc \in {"start", "end"}

VoiceTypeOK ==
  /\ currentIndex \in {0, 1} /\ Result \in {0, 1} /\ frames \in Nat /\ i \in Nat
  /\ Buffer \in [{0, 1} -> [frame : Nat, dirty : BOOLEAN]] /\ recMB \in Seq({0, 1})
  /\ recPc \in {"recv", "start", "end", "send"} /\ out_bytes \in Nat
  /\ sentFrames \in Seq(Nat) /\ overrun \in BOOLEAN

\* What makes VoiceFramesWhole inductive: the halves that wait to be encoded, at
\* most two, are the last ones filled, in order, and each holds its frame.
HalvesInOrder ==
  /\ Len(recMB) \in 0 .. 2 /\ (Encoding => Len(recMB) <= 1)
  /\ Len(recMB) > 0 => recMB[Len(recMB)] = 1 - currentIndex /\ Whole(1 - currentIndex, frames)
  /\ Len(recMB) = 2 => recMB[1] = currentIndex /\ Whole(currentIndex, frames - 1)
  /\ Encoding /\ Len(recMB) = 0 => Result = 1 - currentIndex /\ Whole(1 - currentIndex, frames)
  /\ Encoding /\ Len(recMB) = 1 => Result = currentIndex /\ Whole(currentIndex, frames - 1)
  /\ recPc \in {"end", "send"} => out_bytes = Len(sentFrames) + 1

VoiceInv == VoiceTypeOK /\ VoiceFramesWhole /\ (~overrun => HalvesInOrder)

voice == <<currentIndex, Result, frames, i, Buffer, recMB, recPc, out_bytes, sentFrames, overrun>>

\* A step that leaves the recorder alone preserves it.
LEMMA VoiceUntouched == VoiceInv /\ UNCHANGED voice => VoiceInv'
BY DEF VoiceInv, VoiceTypeOK, VoiceFramesWhole, HalvesInOrder, Whole, Encoding, voice

\* The sampling interrupt: a sample that does not overrun goes into a half that
\* nobody waits for, so at most one other half waits and the mailbox has room.
LEMMA SampleKeepsVoice ==
  ASSUME VoiceInv, record_input2
  PROVE  VoiceInv'
<1> DEFINE mails == IF Len(recMB) < MailSize THEN Append(recMB, currentIndex) ELSE recMB
           done  == [frame |-> frames + 1, dirty |-> FALSE]
<1>1. VoiceTypeOK
  BY DEF VoiceInv
<1>2. /\ overrun' = (overrun \/ Waiting(currentIndex))
      /\ UNCHANGED <<recPc, Result, out_bytes, sentFrames>>
  BY DEF record_input2
<1>3. CASE i + 1 = FRAME_SIZE
  <2>1. /\ i' = 0 /\ currentIndex' = 1 - currentIndex /\ frames' = frames + 1
        /\ Buffer' = [Buffer EXCEPT ![currentIndex] = done] /\ recMB' = mails
    BY <1>3 DEF record_input2, MailOf
  <2>2. /\ Buffer'[currentIndex] = done /\ Buffer'[1 - currentIndex] = Buffer[1 - currentIndex]
        /\ Buffer' \in [{0, 1} -> [frame : Nat, dirty : BOOLEAN]]
    <3>1. done \in [frame : Nat, dirty : BOOLEAN]
      BY <1>1 DEF VoiceTypeOK
    <3> HIDE DEF done
    <3> QED
      BY <1>1, <2>1, <3>1 DEF VoiceTypeOK
  <2>3. recMB' \in Seq({0, 1})
    BY <1>1, <2>1 DEF VoiceTypeOK
  <2>4. VoiceTypeOK'
    <3>1. overrun' \in BOOLEAN
      BY <1>2
    <3> QED
      BY <1>1, <1>2, <2>1, <2>2, <2>3, <3>1 DEF VoiceTypeOK
  <2>5. ASSUME ~overrun' PROVE VoiceFramesWhole' /\ HalvesInOrder'
    <3>1. ~overrun /\ ~Waiting(currentIndex) /\ HalvesInOrder
      BY <1>2, <2>5 DEF VoiceInv
    <3>2. Len(recMB) \in 0 .. 1 /\ (Encoding => Len(recMB) = 0)
      BY <1>1, <3>1 DEF Waiting, HalvesInOrder, Encoding, VoiceTypeOK
    <3>3. recMB' = Append(recMB, currentIndex)
      <4>1. MailSize \in Nat /\ MailSize > 1
        BY RecorderAssumption
      <4>2. Len(recMB) < MailSize
        BY <3>2, <4>1
      <4> QED
        BY <2>1, <4>2
    <3> HIDE DEF mails, done
    <3>4. /\ Len(recMB') = Len(recMB) + 1 /\ recMB'[Len(recMB) + 1] = currentIndex
          /\ Len(recMB) = 1 => recMB'[1] = recMB[1]
      BY <1>1, <3>2, <3>3 DEF VoiceTypeOK
    <3>5. 1 - currentIndex' = currentIndex /\ frames' - 1 = frames
      BY <1>1, <2>1 DEF VoiceTypeOK
    <3>6. Whole(1 - currentIndex, frames)'
      BY <2>1, <2>2, <3>5 DEF Whole, done
    <3>7. Whole(1 - currentIndex, frames) => Whole(currentIndex, frames - 1)'
      BY <2>1, <2>2, <3>5 DEF Whole
    <3>8. HalvesInOrder'
      <4>1. CASE Len(recMB) = 0
        BY <1>2, <3>1, <3>2, <3>4, <3>5, <3>6, <3>7, <4>1, <2>1 DEF HalvesInOrder, Encoding
      <4>2. CASE Len(recMB) = 1
        BY <1>2, <3>1, <3>2, <3>4, <3>5, <3>6, <3>7, <4>2, <2>1 DEF HalvesInOrder, Encoding
      <4> QED
        BY <3>2, <4>1, <4>2
    <3>9. VoiceFramesWhole'
      <4>1. Len(sentFrames) \in Nat /\ frames \in Nat /\ frames' = frames + 1
        BY <1>1, <2>1 DEF VoiceTypeOK
      <4>2. /\ sentFrames = [k \in 1 .. Len(sentFrames) |-> k]
            /\ frames = Len(sentFrames) + Len(recMB) + (IF recPc = "recv" THEN 0 ELSE 1)
        BY <3>1 DEF VoiceInv, VoiceFramesWhole
      <4> QED
        BY <1>2, <3>2, <3>4, <4>1, <4>2 DEF VoiceFramesWhole
    <3> QED
      BY <3>8, <3>9
  <2> QED
    BY <2>4, <2>5 DEF VoiceInv, VoiceFramesWhole
<1>4. CASE i + 1 # FRAME_SIZE
  <2>1. /\ i' = i + 1 /\ UNCHANGED <<currentIndex, frames, recMB>>
        /\ Buffer' = [Buffer EXCEPT ![currentIndex].dirty = TRUE]
    BY <1>4 DEF record_input2
  <2>2. /\ Buffer'[1 - currentIndex] = Buffer[1 - currentIndex]
        /\ Buffer' \in [{0, 1} -> [frame : Nat, dirty : BOOLEAN]]
    <3> DEFINE begun == [Buffer[currentIndex] EXCEPT !.dirty = TRUE]
    <3>1. begun \in [frame : Nat, dirty : BOOLEAN]
      BY <1>1 DEF VoiceTypeOK
    <3>2. Buffer' = [Buffer EXCEPT ![currentIndex] = begun]
      BY <2>1
    <3> HIDE DEF begun
    <3> QED
      BY <1>1, <3>1, <3>2 DEF VoiceTypeOK
  <2>3. VoiceTypeOK'
    <3>1. overrun' \in BOOLEAN
      BY <1>2
    <3> QED
      BY <1>1, <1>2, <2>1, <2>2, <3>1 DEF VoiceTypeOK
  <2>4. ASSUME ~overrun' PROVE VoiceFramesWhole' /\ HalvesInOrder'
    <3>1. ~overrun /\ ~Waiting(currentIndex) /\ HalvesInOrder
      BY <1>2, <2>4 DEF VoiceInv
    <3>2. Len(recMB) \in 0 .. 1 /\ (Encoding => Len(recMB) = 0)
      BY <1>1, <3>1 DEF Waiting, HalvesInOrder, Encoding, VoiceTypeOK
    <3>3. HalvesInOrder'
      BY <1>1, <1>2, <2>1, <2>2, <3>1, <3>2 DEF HalvesInOrder, Encoding, Whole, VoiceTypeOK
    <3>4. VoiceFramesWhole'
      BY <1>2, <2>1, <3>1 DEF VoiceInv, VoiceFramesWhole
    <3> QED
      BY <3>3, <3>4
  <2> QED
    BY <2>3, <2>4 DEF VoiceInv, VoiceFramesWhole
<1> QED
  BY <1>3, <1>4

\* The record thread takes, encodes and sends one frame after the other.
LEMMA RecordKeepsVoice ==
  ASSUME VoiceInv, RecThread
  PROVE  VoiceInv'
<1>1. VoiceTypeOK
  BY DEF VoiceInv
<1>2. CASE RecRecv
  <2>1. /\ recPc = "recv" /\ recMB # <<>> /\ Result' = Head(recMB) /\ recMB' = Tail(recMB)
        /\ recPc' = "start"
        /\ UNCHANGED <<i, currentIndex, Buffer, frames, overrun, out_bytes, sentFrames>>
    BY <1>2 DEF RecRecv, isrVars
  <2>2. /\ Len(recMB) \in Nat /\ Len(recMB) > 0 /\ Len(recMB') = Len(recMB) - 1 /\ Result' = recMB[1]
        /\ Result' \in {0, 1} /\ recMB' \in Seq({0, 1})
        /\ Len(recMB) = 2 => recMB'[1] = recMB[2]
    BY <1>1, <2>1 DEF VoiceTypeOK
  <2>3. VoiceTypeOK'
    BY <1>1, <2>1, <2>2 DEF VoiceTypeOK
  <2>4. ASSUME ~overrun PROVE HalvesInOrder'
    <3>1. HalvesInOrder
      BY <2>4 DEF VoiceInv
    <3>2. recPc' = "start" /\ UNCHANGED <<currentIndex, Buffer, frames>>
      BY <2>1
    <3>3. CASE Len(recMB) = 1
      <4>1. Len(recMB') = 0 /\ Result' = 1 - currentIndex /\ Whole(1 - currentIndex, frames)
        BY <2>2, <3>1, <3>3 DEF HalvesInOrder
      <4> QED
        BY <3>2, <4>1 DEF HalvesInOrder, Encoding, Whole
    <3>4. CASE Len(recMB) = 2
      <4>1. /\ Len(recMB') = 1 /\ Result' = currentIndex /\ Whole(currentIndex, frames - 1)
            /\ recMB'[1] = 1 - currentIndex /\ Whole(1 - currentIndex, frames)
        BY <2>2, <3>1, <3>4 DEF HalvesInOrder
      <4> QED
        BY <3>2, <4>1 DEF HalvesInOrder, Encoding, Whole
    <3> QED
      BY <2>2, <3>1, <3>3, <3>4 DEF HalvesInOrder
  <2>5. VoiceFramesWhole'
    BY <1>1, <2>1, <2>2 DEF VoiceInv, VoiceFramesWhole, VoiceTypeOK
  <2> QED
    BY <2>1, <2>3, <2>4, <2>5 DEF VoiceInv
<1>3. CASE EncodeStart
  <2>1. /\ recPc = "start" /\ recPc' = "end"
        /\ out_bytes' = IF Buffer[Result].dirty THEN 0 ELSE Buffer[Result].frame
        /\ UNCHANGED <<i, currentIndex, Buffer, frames, overrun, recMB, Result, sentFrames>>
    BY <1>3 DEF EncodeStart, isrVars
  <2>2. VoiceTypeOK'
    BY <1>1, <2>1 DEF VoiceTypeOK
  <2>3. VoiceFramesWhole'
    BY <2>1 DEF VoiceInv, VoiceFramesWhole
  <2>4. ASSUME ~overrun PROVE HalvesInOrder'
    <3>1. HalvesInOrder /\ Encoding
      BY <2>1, <2>4 DEF VoiceInv, Encoding
    <3>2. Len(recMB) \in 0 .. 1 /\ Whole(Result, frames - Len(recMB))
      BY <1>1, <3>1 DEF HalvesInOrder, VoiceTypeOK
    <3>3. out_bytes' = frames - Len(recMB)
      BY <2>1, <3>2 DEF Whole
    <3>4. out_bytes' = Len(sentFrames') + 1
      BY <1>1, <2>1, <2>4, <3>2, <3>3 DEF VoiceInv, VoiceFramesWhole, VoiceTypeOK
    <3> QED
      BY <2>1, <3>1, <3>4 DEF HalvesInOrder, Encoding, Whole
  <2> QED
    BY <2>1, <2>2, <2>3, <2>4 DEF VoiceInv
<1>4. CASE EncodeEnd
  <2>1. /\ recPc = "end" /\ recPc' = "send"
        /\ out_bytes' = IF Whole(Result, out_bytes) THEN out_bytes ELSE 0
        /\ UNCHANGED <<i, currentIndex, Buffer, frames, overrun, recMB, Result, sentFrames>>
    BY <1>4 DEF EncodeEnd, isrVars, Whole
  <2>2. VoiceTypeOK'
    BY <1>1, <2>1 DEF VoiceTypeOK
  <2>3. VoiceFramesWhole'
    BY <2>1 DEF VoiceInv, VoiceFramesWhole
  <2>4. ASSUME ~overrun PROVE HalvesInOrder'
    <3>1. HalvesInOrder /\ Encoding
      BY <2>1, <2>4 DEF VoiceInv, Encoding
    <3>2. Len(recMB) \in 0 .. 1 /\ Whole(Result, frames - Len(recMB))
      BY <1>1, <3>1 DEF HalvesInOrder, VoiceTypeOK
    <3>3. out_bytes = Len(sentFrames) + 1
      BY <2>1, <3>1 DEF HalvesInOrder
    <3>4. frames - Len(recMB) = Len(sentFrames) + 1
      BY <1>1, <2>1, <2>4, <3>2 DEF VoiceInv, VoiceFramesWhole, VoiceTypeOK
    <3> QED
      BY <2>1, <3>1, <3>2, <3>3, <3>4 DEF HalvesInOrder, Encoding, Whole
  <2> QED
    BY <2>1, <2>2, <2>3, <2>4 DEF VoiceInv
<1>5. CASE RecSend
  <2>1. /\ recPc = "send" /\ recPc' = "recv" /\ sentFrames' = Append(sentFrames, out_bytes)
        /\ UNCHANGED <<i, currentIndex, Buffer, frames, overrun, recMB, Result, out_bytes>>
    BY <1>5 DEF RecSend, isrVars
  <2>2. VoiceTypeOK'
    BY <1>1, <2>1 DEF VoiceTypeOK
  <2>3. ASSUME ~overrun PROVE HalvesInOrder' /\ VoiceFramesWhole'
    <3>1. HalvesInOrder /\ out_bytes = Len(sentFrames) + 1
      BY <2>1, <2>3 DEF VoiceInv, HalvesInOrder
    <3>2. HalvesInOrder'
      BY <2>1, <3>1 DEF HalvesInOrder, Encoding, Whole
    <3>3. /\ sentFrames = [k \in 1 .. Len(sentFrames) |-> k]
          /\ frames = Len(sentFrames) + Len(recMB) + 1
      BY <2>1, <2>3 DEF VoiceInv, VoiceFramesWhole
    <3>4. /\ sentFrames' \in Seq(Nat) /\ Len(sentFrames') = Len(sentFrames) + 1 /\ Len(sentFrames) \in Nat
          /\ \A k \in 1 .. Len(sentFrames) : sentFrames'[k] = sentFrames[k]
          /\ sentFrames'[Len(sentFrames) + 1] = out_bytes
      BY <1>1, <2>1 DEF VoiceTypeOK
    <3>5. \A k \in 1 .. Len(sentFrames') : sentFrames'[k] = k
      BY <3>1, <3>3, <3>4
    <3>6. sentFrames' = [k \in 1 .. Len(sentFrames') |-> k]
      BY <3>4, <3>5
    <3>7. frames = Len(sentFrames') + Len(recMB)
      BY <1>1, <3>3, <3>4 DEF VoiceTypeOK
    <3> QED
      BY <1>1, <2>1, <3>2, <3>4, <3>6, <3>7 DEF VoiceFramesWhole, VoiceTypeOK
  <2> QED
    BY <2>1, <2>2, <2>3 DEF VoiceInv, VoiceFramesWhole
<1> QED
  BY <1>2, <1>3, <1>4, <1>5 DEF RecThread

\* Voice frames are sent whole, once and in order as long as no sample lands in a
\* half that is still to be encoded, for every length of frame and mailbox.
THEOREM VoiceFramesWholeHolds == Spec => []VoiceFramesWhole
<1>1. Init => VoiceInv
  <2> SUFFICES ASSUME RecInit PROVE VoiceInv
    BY DEF Init
  <2>1. VoiceTypeOK
    <3>1. Buffer \in [{0, 1} -> [frame : Nat, dirty : BOOLEAN]]
      BY DEF RecInit
    <3>2. overrun \in BOOLEAN
      BY DEF RecInit
    <3> QED
      BY <3>1, <3>2 DEF RecInit, VoiceTypeOK
  <2>2. Len(recMB) = 0 /\ Len(sentFrames) = 0 /\ recPc = "recv" /\ frames = 0
    BY DEF RecInit
  <2>3. HalvesInOrder
    BY <2>2 DEF HalvesInOrder, Encoding
  <2>4. VoiceFramesWhole
    BY <2>2 DEF VoiceFramesWhole, RecInit
  <2> QED
    BY <2>1, <2>3, <2>4 DEF VoiceInv
<1>2. VoiceInv /\ [Next]_vars => VoiceInv'
  <2> SUFFICES ASSUME VoiceInv, [Next]_vars PROVE VoiceInv'
    OBVIOUS
  <2>1. CASE VoiceStep(record_input2)
    BY <2>1, SampleKeepsVoice DEF VoiceStep
  <2>2. CASE VoiceStep(RecThread)
    BY <2>2, RecordKeepsVoice DEF VoiceStep
  <2>3. CASE VoiceStep(Key) \/ VoiceStep(KeyThread)
    BY <2>3, VoiceUntouched DEF VoiceStep, Key, KeyThread, KeyReleased, KeyPressed, isrVars, voice
  <2>4. CASE UNCHANGED recVars
    BY <2>4, VoiceUntouched DEF recVars, isrVars, voice
  <2>5. \/ VoiceStep(record_input2) \/ VoiceStep(RecThread)
        \/ VoiceStep(Key) \/ VoiceStep(KeyThread) \/ UNCHANGED recVars
    BY DEF Next, Register, PicturesStep, GpsStep, AlertStep, parts3, vars
  <2> QED
    BY <2>1, <2>2, <2>3, <2>4, <2>5
<1>3. VoiceInv => VoiceFramesWhole
  BY DEF VoiceInv
<1> QED
  BY <1>1, <1>2, <1>3, PTL DEF Spec
=============================================================================
