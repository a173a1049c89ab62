------------------------------ MODULE MCUplink ------------------------------
(***************************************************************************)
(* The parts of Uplink share next to nothing, so a behaviour checked here  *)
(* exercises one of them and leaves the others in their initial state:     *)
(*   "camera"   the camera, with everything that can go wrong in it;       *)
(*   "table"    the descriptors, which the camera, the dial thread and the *)
(*              uploads compete for: the files uploaded are empty, and of  *)
(*              the camera's faults there are none;                        *)
(*   "uploads"  the uploads and the dial thread without the camera;        *)
(*   "gps", "alerts" and "voice", which includes the beeper.               *)
(* Every step is a step of Uplink; the proofs are about all of them        *)
(* interleaved.                                                            *)
(***************************************************************************)
EXTENDS Uplink

VARIABLE exercised   \* the part this behaviour is about

mcVars == <<vars, exercised>>

In(S, A) == exercised \in S /\ A /\ UNCHANGED exercised

MCInit ==
  /\ Init
  /\ exercised \in {"camera", "table", "uploads", "gps", "alerts", "voice"}
  /\ spoilt => exercised = "camera"   \* no point in varying what is not exercised
  /\ gpsValue => exercised = "gps"
  /\ pressed => exercised \in {"alerts", "voice"}

Camera      == In({"camera"}, PicturesStep(CameraAnswers))
CameraFair  == In({"camera", "table"}, PicturesStep(CameraThread)) /\ (exercised = "table" => ~spoilt')
CameraTable == In({"table"}, PicturesStep(\E kind \in {dPartOfdata, dEndChars, dNoneDatapart} : Camera_input(kind)))
Upload(u)   == \/ In({"uploads"}, PicturesStep(UploadThread(u)))
               \/ In({"table"}, PicturesStep(UploadRefused(u) \/ UploadOpen(u, 0) \/ UploadRead(u)))
Talk        == {"alerts", "voice"}

MCNext ==
  \/ In({"uploads", "gps", "alerts", "voice"}, Register)
  \/ Camera \/ CameraTable \/ CameraFair
  \/ In({"table", "uploads"}, PicturesStep(DialOpen)) \/ In({"table", "uploads"}, PicturesStep(DialClose))
  \/ \E u \in Uploads : In({"table", "uploads"}, PicturesStep(UploadCMD(u))) \/ Upload(u)
  \/ In({"gps"}, GpsStep(GPS_input)) \/ In({"gps"}, GpsStep(GpsThread))
  \/ In({"alerts"}, AlertStep(EXTI4_IRQHandler)) \/ In({"alerts"}, AlertStep(LedThread))
  \/ In(Talk, AlertStep(BeepThread)) \/ In(Talk, VoiceStep(Key)) \/ In(Talk, VoiceStep(KeyThread))
  \/ In({"voice"}, VoiceStep(record_input2)) \/ In({"voice"}, VoiceStep(RecThread))

\* The fairness of Uplink, for what is exercised.
MCFairness ==
  /\ WF_mcVars(In({"uploads", "gps", "alerts", "voice"}, Register))
  /\ WF_mcVars(Camera) /\ WF_mcVars(CameraTable) /\ WF_mcVars(CameraFair)
  /\ WF_mcVars(In({"table", "uploads"}, PicturesStep(DialClose)))
  /\ \A u \in Uploads : WF_mcVars(Upload(u))
  /\ WF_mcVars(In({"gps"}, GpsStep(GpsThread)))
  /\ WF_mcVars(In({"alerts"}, AlertStep(LedThread))) /\ WF_mcVars(In(Talk, AlertStep(BeepThread)))
  /\ WF_mcVars(In({"voice"}, VoiceStep(RecThread)))

MCSpec == MCInit /\ [][MCNext]_mcVars /\ MCFairness
=============================================================================
