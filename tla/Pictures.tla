------------------------------ MODULE Pictures ------------------------------
(***************************************************************************)
(* The camera thread (src/MySouce/PCP/CameraAPP.c), the threads that       *)
(* upload stored pictures (MultimediaUpload_thread_entry of                *)
(* src/MySouce/GNSS/GNSS_APP.c, one per command of the server, created by  *)
(* the splitter) and the dial thread where it reads the address of the     *)
(* server (readIPAddrFromfile of src/MySouce/ATcmd/AT_APP.c), which share  *)
(* the DFS_FD_MAX descriptors.                                             *)
(*                                                                         *)
(* The camera (external) answers each command with one packet: a part of   *)
(* the picture, its last part, or "nothing (more)".  CameraData assembles  *)
(* it in the interrupt and raises the event bit of its kind.  It tells     *)
(* packets by their length and an end mark, and looks at no checksum, so a *)
(* byte changed, lost, or that looks like the end mark is taken as it      *)
(* comes.  The file system may fail any call.                              *)
(***************************************************************************)
EXTENDS FdTable, AuthEvent, Sequences

CONSTANTS MaxParts,    \* bound: packets of a picture
          MaxMisread,  \* bound: packets whose end is found in the wrong place
          Uploads,     \* bound: upload threads
          MaxFailed,   \* bound: failed reads of an upload that are counted
          FileSizes,   \* what a stored picture may measure
          PacketSize   \* 512

ASSUME PicturesAssumption ==
  /\ MaxParts \in Nat /\ MaxMisread \in Nat /\ MaxFailed \in Nat
  /\ FileSizes \subseteq Nat /\ PacketSize \in Nat \ {0}

dPartOfdata == 2
dEndChars == 3
dNoneDatapart == 4
Garbage == -1        \* bytes that are not those of a whole part
Nothing == 0         \* no piece of a packet is on the line

VARIABLES
  \* the camera: commands it has to answer, parts of this picture sent, last one
  \* sent, the piece of a packet still to come after a false end mark
  command, parts, ended, rest,
  \* CameraData: in the middle of a packet (index > 0); the event; packet buffer
  \* and its size
  behind, CameraEV, buf, size,
  \* the camera thread, Camera1.jpg
  camPc, Vaule, camFd,
  file,                 \* Camera1.jpg: n for parts 1 .. n of this picture, or Garbage
  misread,              \* history: packets whose end was found in the wrong place
  spoilt,               \* history: a part of Camera1.jpg came corrupted, was not
                        \* written, or the file was there before the picture
  picture,              \* history: the last picture renamed, "whole", "partial" or "spoilt"
  \* the dial thread
  dialPc, dialFd,
  \* the upload threads
  upPc, upFd, upSize, offset, PacketID, TotalPackets,
  readFailed, failures  \* history: the last read failed; failed reads

lineVars == <<command, parts, ended, rest>>
dataVars == <<behind, CameraEV, buf, size, misread>>
fileVars == <<file, spoilt, picture>>
camVars  == <<lineVars, dataVars, camPc, Vaule, camFd, fileVars>>
dialVars == <<dialPc, dialFd>>
countVars == <<upSize, offset, PacketID, TotalPackets, readFailed, failures>>
upVars   == <<upPc, upFd, countVars>>
picVars  == <<camVars, dialVars, upVars, ref_count>>

\* A power cut may have left a Camera1.jpg behind.
PicInit ==
  /\ FdInit
  /\ command = <<"photo">> /\ parts = 0 /\ ended = FALSE /\ rest = Nothing
  /\ behind = FALSE /\ CameraEV = {} /\ buf = Garbage /\ size = 0 /\ misread = 0
  /\ camPc = "recv" /\ Vaule = {} /\ camFd = NoFd
  /\ file \in {0, Garbage} /\ spoilt = (file # 0) /\ picture = "whole"
  /\ dialPc = "idle" /\ dialFd = NoFd
  /\ upPc = [u \in Uploads |-> "none"] /\ upFd = [u \in Uploads |-> NoFd]
  /\ upSize = [u \in Uploads |-> 0] /\ offset = [u \in Uploads |-> 0]
  /\ PacketID = [u \in Uploads |-> 0] /\ TotalPackets = [u \in Uploads |-> 0]
  /\ readFailed = [u \in Uploads |-> FALSE] /\ failures = [u \in Uploads |-> 0]
-----------------------------------------------------------------------------
\* What CameraData makes of an end mark after a piece of this kind.  With bytes of
\* an earlier one before it, a full packet has not the length of one, and "nothing
\* more" is not short any more; the last part is known by its 0xD9.
Returned(kind) == IF behind /\ kind # dEndChars THEN {} ELSE {kind}

CameraData(kind, data) ==
  /\ CameraEV' = CameraEV \cup Returned(kind)
  /\ behind' = (Returned(kind) = {})
  /\ buf' = IF behind THEN Garbage ELSE data
  /\ size' = IF Returned(kind) = {} THEN size ELSE 1

\* No end mark is found: the bytes stay in the buffer and nobody is told.  (More
\* than cameraBufSize + 11 of them stop in the assertion: no event either.)
NoEndFound ==
  /\ behind' = TRUE /\ buf' = Garbage
  /\ UNCHANGED <<CameraEV, size>>

\* The camera sends part n of the picture, or that there is none.
Sends(kind, n) ==
  /\ command # <<>> /\ rest = Nothing
  /\ LET photo == Head(command) = "photo" IN
       /\ n = (IF photo THEN 0 ELSE parts) + (IF kind = dNoneDatapart THEN 0 ELSE 1)
       /\ kind # dNoneDatapart => (photo \/ ~ended) /\ n <= MaxParts
       /\ ended' = ((~photo /\ ended) \/ kind # dPartOfdata)
  /\ command' = Tail(command) /\ parts' = n

Camera_input(kind) ==
  /\ \E n \in 0 .. MaxParts :
       Sends(kind, n) /\ CameraData(kind, IF kind = dNoneDatapart THEN Garbage ELSE n)
  /\ UNCHANGED <<rest, misread, camPc, Vaule, camFd, fileVars, dialVars, upVars, ref_count>>

\* A byte of the data was changed on the way; checkSum8 is compared with nothing.
CameraCorrupted(kind) ==
  /\ kind # dNoneDatapart
  /\ \E n \in 0 .. MaxParts : Sends(kind, n) /\ CameraData(kind, Garbage)
  /\ spoilt' = TRUE
  /\ UNCHANGED <<rest, misread, camPc, Vaule, camFd, file, picture, dialVars, upVars, ref_count>>

\* The data holds 0xD9, any byte, "\r\n": taken for the end of the last part.
CameraFalseEnd(kind) ==
  /\ kind # dNoneDatapart /\ misread < MaxMisread
  /\ \E n \in 0 .. MaxParts : Sends(kind, n) /\ CameraData(dEndChars, Garbage)
  /\ rest' = kind /\ misread' = misread + 1
  /\ UNCHANGED <<camPc, Vaule, camFd, fileVars, dialVars, upVars, ref_count>>

\* A byte is lost and the end with it.
CameraLost(kind) ==
  /\ misread < MaxMisread
  /\ \E n \in 0 .. MaxParts : Sends(kind, n) /\ NoEndFound
  /\ misread' = misread + 1
  /\ UNCHANGED <<rest, camPc, Vaule, camFd, fileVars, dialVars, upVars, ref_count>>

\* The bytes after a false end: nine or fewer look like "nothing more", the rest
\* of a full packet like nothing at all.
CameraRest ==
  /\ rest # Nothing /\ rest' = Nothing
  /\ \/ CameraData(dNoneDatapart, Garbage)
     \/ rest = dEndChars /\ CameraData(dEndChars, Garbage)
     \/ rest = dPartOfdata /\ NoEndFound
  /\ UNCHANGED <<command, parts, ended, misread, camPc, Vaule, camFd, fileVars, dialVars, upVars, ref_count>>
-----------------------------------------------------------------------------
CamRecv ==
  /\ camPc = "recv" /\ CameraEV # {}
  /\ Vaule' = CameraEV /\ CameraEV' = {}
  /\ camPc' = IF CameraEV = {dNoneDatapart} THEN "store" ELSE "open"
  /\ UNCHANGED <<lineVars, behind, buf, size, misread, camFd, fileVars, dialVars, upVars, ref_count>>

\* A failed open ends the loop: the device is closed and the thread returns.
CamOpen ==
  /\ camPc = "open"
  /\ \E fd \in Fds \cup {NoFd} :
       /\ open(fd)
       /\ camFd' = fd
       /\ camPc' = IF fd = NoFd THEN "returned" ELSE "write"
  /\ UNCHANGED <<lineVars, dataVars, Vaule, fileVars, dialVars, upVars>>

\* The file system does not open the file: the same.
CamRefused ==
  /\ camPc = "open"
  /\ camPc' = "refused"
  /\ UNCHANGED <<lineVars, dataVars, Vaule, camFd, fileVars, dialVars, upVars, ref_count>>

\* size - 11 wraps around when size is 0.
Written == IF size = 0 THEN Garbage ELSE buf

\* Camera1.jpg with one more piece at its end.
Appended(piece) == IF file # Garbage /\ piece = file + 1 THEN piece ELSE Garbage

CamWriteWithoutAppend ==
  /\ camPc = "write"
  /\ file' = IF Written = 1 THEN 1 ELSE Garbage
  /\ camPc' = "close"
  /\ UNCHANGED <<lineVars, dataVars, Vaule, camFd, spoilt, picture, dialVars, upVars, ref_count>>

CamWrite ==
  /\ camPc = "write"
  /\ file' = Appended(Written)
  /\ camPc' = "close"
  /\ UNCHANGED <<lineVars, dataVars, Vaule, camFd, spoilt, picture, dialVars, upVars, ref_count>>

\* write returns less: "write data failed", and on with the next part.
CamWriteFails ==
  /\ camPc = "write"
  /\ file' \in {file, Garbage}
  /\ spoilt' = TRUE
  /\ camPc' = "close"
  /\ UNCHANGED <<lineVars, dataVars, Vaule, camFd, picture, dialVars, upVars, ref_count>>

CamClose ==
  /\ camPc = "close"
  /\ close(camFd) /\ camFd' = NoFd
  /\ camPc' = "clear"
  /\ UNCHANGED <<lineVars, dataVars, Vaule, fileVars, dialVars, upVars>>

CamClear ==
  /\ camPc = "clear"
  /\ size' = 0
  /\ camPc' = "ask"
  /\ UNCHANGED <<lineVars, behind, CameraEV, buf, misread, Vaule, camFd, fileVars, dialVars, upVars, ref_count>>

AfterAsk == IF dNoneDatapart \in Vaule THEN "store" ELSE "recv"

CamAskUnlessEnd ==
  /\ camPc = "ask"
  /\ command' = IF dEndChars \in Vaule THEN command ELSE Append(command, "next")
  /\ camPc' = AfterAsk
  /\ UNCHANGED <<parts, ended, rest, dataVars, Vaule, camFd, fileVars, dialVars, upVars, ref_count>>

\* Camera->control(Camera,dReadNextPhotoDataCMD,..)
CamAsk ==
  /\ camPc = "ask"
  /\ command' = Append(command, "next")
  /\ camPc' = AfterAsk
  /\ UNCHANGED <<parts, ended, rest, dataVars, Vaule, camFd, fileVars, dialVars, upVars, ref_count>>

\* Camera1.jpg is renamed after the time ...
Renamed ==
  /\ picture' = IF spoilt THEN "spoilt" ELSE IF file = parts THEN "whole" ELSE "partial"
  /\ file' = 0 /\ spoilt' = FALSE

\* ... or there is no rtc, or rename fails, which nobody asks: the next picture is
\* appended to it.
NotRenamed ==
  /\ file' = IF file = 0 THEN 0 ELSE Garbage
  /\ spoilt' = (spoilt \/ file # 0)
  /\ UNCHANGED picture

\* open creates the file if need be; its result is used by close only.
CamStore ==
  /\ camPc = "store"
  /\ \/ \E fd \in Fds \cup {NoFd} : open(fd) /\ camFd' = fd
     \/ camFd' = NoFd /\ UNCHANGED ref_count
  /\ Renamed \/ NotRenamed
  /\ camPc' = "store2"
  /\ UNCHANGED <<lineVars, dataVars, Vaule, dialVars, upVars>>

CamStoreClose ==
  /\ camPc = "store2"
  /\ close(camFd) /\ camFd' = NoFd
  /\ size' = 0
  /\ camPc' = "again"
  /\ UNCHANGED <<lineVars, behind, CameraEV, buf, misread, Vaule, fileVars, dialVars, upVars>>

\* A minute later the next picture is taken.
CamAgain ==
  /\ camPc = "again"
  /\ command' = Append(command, "photo")
  /\ camPc' = "recv"
  /\ UNCHANGED <<parts, ended, rest, dataVars, Vaule, camFd, fileVars, dialVars, upVars, ref_count>>

CameraThread ==
  \/ CamRecv \/ CamOpen \/ CamRefused \/ CamWrite \/ CamWriteFails \/ CamClose \/ CamClear \/ CamAsk
  \/ CamStore \/ CamStoreClose \/ CamAgain
-----------------------------------------------------------------------------
\* readIPAddrFromfile, before each dialling: RT_ASSERT(fd>=0) stops the thread.
DialOpen ==
  /\ dialPc = "idle"
  /\ \E fd \in Fds \cup {NoFd} :
       /\ open(fd)
       /\ dialFd' = fd
       /\ dialPc' = IF fd = NoFd THEN "halted" ELSE "read"
  /\ UNCHANGED <<camVars, upVars>>

DialClose ==
  /\ dialPc = "read"
  /\ close(dialFd) /\ dialFd' = NoFd
  /\ dialPc' = "idle"
  /\ UNCHANGED <<camVars, upVars>>
-----------------------------------------------------------------------------
\* GNSS_Splitter on eStorageUploadMultimediaDataCMD: a thread is created.
UploadCMD(u) ==
  /\ upPc[u] = "none"
  /\ upPc' = [upPc EXCEPT ![u] = "start"]
  /\ UNCHANGED <<camVars, dialVars, upFd, countVars, ref_count>>

\* The command is refused, or there is no memory for the data, or the file cannot
\* be opened: the thread frees what it has and ends.
UploadRefused(u) ==
  /\ upPc[u] = "start"
  /\ upPc' = [upPc EXCEPT ![u] = "done"]
  /\ UNCHANGED <<camVars, dialVars, upFd, countVars, ref_count>>

PacketsOfFullOnly(n) == n \div PacketSize
PacketsOf(n) == n \div PacketSize + (IF n % PacketSize # 0 THEN 1 ELSE 0)

UploadOpen(u, n) ==
  /\ upPc[u] = "start"
  /\ \E fd \in Fds \cup {NoFd} :
       /\ open(fd)
       /\ upFd' = [upFd EXCEPT ![u] = fd]
       /\ upPc' = [upPc EXCEPT ![u] = IF fd = NoFd THEN "done" ELSE "read"]
  /\ upSize' = [upSize EXCEPT ![u] = n]
  /\ TotalPackets' = [TotalPackets EXCEPT ![u] = PacketsOf(n)]
  /\ UNCHANGED <<camVars, dialVars, offset, PacketID, readFailed, failures>>

\* The bytes GNSS_fread returns when it does not fail.
Chunk(u) == IF upSize[u] - offset[u] < PacketSize THEN upSize[u] - offset[u] ELSE PacketSize

UploadReadNeverEnds(u) ==
  /\ upPc[u] = "read"
  /\ offset' = [offset EXCEPT ![u] = @ + Chunk(u)]
  /\ readFailed' = [readFailed EXCEPT ![u] = FALSE]
  /\ upPc' = [upPc EXCEPT ![u] = "send"]
  /\ UNCHANGED <<camVars, dialVars, upFd, upSize, PacketID, TotalPackets, failures, ref_count>>

UploadRead(u) ==
  /\ upPc[u] = "read"
  /\ offset' = [offset EXCEPT ![u] = @ + Chunk(u)]
  /\ readFailed' = [readFailed EXCEPT ![u] = FALSE]
  /\ IF Chunk(u) = 0
     THEN upPc' = [upPc EXCEPT ![u] = "done"] /\ UNCHANGED PacketID
     ELSE upPc' = [upPc EXCEPT ![u] = "send"] /\ PacketID' = [PacketID EXCEPT ![u] = @ + 1]
  /\ UNCHANGED <<camVars, dialVars, upFd, upSize, TotalPackets, failures, ref_count>>

\* GNSS_fread returns -1, which is not 0: a packet is counted and sent all the same,
\* of length -1.  (Only the first MaxFailed are counted here.)
UploadReadFails(u) ==
  /\ upPc[u] = "read"
  /\ upPc' = [upPc EXCEPT ![u] = "send"]
  /\ readFailed' = [readFailed EXCEPT ![u] = TRUE]
  /\ IF failures[u] < MaxFailed
     THEN /\ failures' = [failures EXCEPT ![u] = @ + 1]
          /\ PacketID' = [PacketID EXCEPT ![u] = @ + 1]
     ELSE UNCHANGED <<failures, PacketID>>
  /\ UNCHANGED <<camVars, dialVars, upFd, upSize, offset, TotalPackets, ref_count>>

\* Waits for AUTHENTCATED_EVENT without taking it, sends the packet, sleeps.
UploadSend(u) ==
  /\ upPc[u] = "send" /\ authenticated
  /\ upPc' = [upPc EXCEPT ![u] = "read"]
  /\ UNCHANGED <<camVars, dialVars, upFd, countVars, ref_count>>

UploadThread(u) ==
  \/ UploadRefused(u) \/ UploadRead(u) \/ UploadReadFails(u) \/ UploadSend(u)
  \/ \E n \in FileSizes : UploadOpen(u, n)

-----------------------------------------------------------------------------
(* Properties                                                              *)

\* As long as every packet's end is found where it is, a picture that is put away
\* is the one the camera sent: all its parts, each once and in order, none from
\* the picture before; unless, of this very file, a part came corrupted or was not
\* written, or the file was there already.  So neither a failed write nor a failed
\* rename nor a power cut spoils more than the file it happens to; and size is
\* never cleared under a packet that is still to be written.
PhotoStored == misread = 0 => picture # "partial"

\* The camera thread gives up for want of a descriptor, and the dial thread stops
\* in its assertion, only when each of them is with an upload or with the other of
\* the two: they lose none themselves, whichever of their paths they take.
CameraEndsOnlyWhenFull ==
  [][(camPc' = "returned" /\ camPc = "open") \/ (dialPc' = "halted" /\ dialPc = "idle") =>
       \A f \in Fds : f \in {camFd, dialFd} \/ \E u \in Uploads : upFd[u] = f]_picVars

\* An upload that ends after opening its file has sent all of it, sizes 0 and
\* multiples of 512 included; its last PacketID is the number of packets it
\* announced in each, plus one for every read that failed, and for nothing else.
UploadWhole ==
  \A u \in Uploads :
    upPc[u] = "done" /\ upFd[u] # NoFd =>
      offset[u] = upSize[u] /\ PacketID[u] = TotalPackets[u] + failures[u]

\* Liveness: after authentication an upload thread ends if its reads do not fail
\* again and again.  (A file of FatFs that failed once fails ever after, and the
\* thread then sends packets of length -1 for ever.)
UploadsEnd ==
  \A u \in Uploads : <>[](~readFailed[u]) => ((upPc[u] = "start") ~> (upPc[u] = "done"))

\* The camera thread waits for an event, the camera for a command, and CameraData
\* for the end of a packet that it has missed.
Stalled == behind /\ camPc = "recv" /\ CameraEV = {} /\ command = <<>> /\ rest = Nothing

\* Liveness: pictures go on being taken, whatever the file system fails and even
\* after a packet was cut in two, until the file cannot be opened or CameraData
\* waits for the end of a packet that is over.
PhotosGoOn ==
  []<>(\/ \E k \in DOMAIN command : command[k] = "photo"
       \/ camPc \in {"returned", "refused"} \/ Stalled)
=============================================================================
