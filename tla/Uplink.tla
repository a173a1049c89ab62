------------------------------- MODULE Uplink -------------------------------
(***************************************************************************)
(* The threads that send to the server once AUTHENTCATED_EVENT is there:   *)
(* pictures, positions and voice, and the alerts.  Beyond that event,      *)
(* which none of them changes, and the talk key, which beeps, they share   *)
(* no variable of the model.                                               *)
(***************************************************************************)
EXTENDS Pictures, GpsApp, Recorder

parts3 == <<picVars, gpsVars, recVars, alertVars>>
vars == <<authenticated, parts3>>

PicturesStep(A) == A /\ UNCHANGED <<authenticated, gpsVars, recVars, alertVars>>
GpsStep(A)   == A /\ UNCHANGED <<authenticated, picVars, recVars, alertVars>>
AlertStep(A) == A /\ UNCHANGED <<authenticated, picVars, gpsVars, recVars>>
VoiceStep(A) == A /\ UNCHANGED <<authenticated, picVars, gpsVars>>
Register     == Publish /\ UNCHANGED parts3

CameraAnswers ==
  \/ \E kind \in {dPartOfdata, dEndChars, dNoneDatapart} :
       Camera_input(kind) \/ CameraCorrupted(kind) \/ CameraFalseEnd(kind) \/ CameraLost(kind)
  \/ CameraRest

Init == AuthInit /\ PicInit /\ GpsInit /\ AlertInit /\ RecInit

Next ==
  \/ Register
  \/ PicturesStep(CameraAnswers) \/ PicturesStep(CameraThread)
  \/ PicturesStep(DialOpen) \/ PicturesStep(DialClose)
  \/ \E u \in Uploads : PicturesStep(UploadCMD(u)) \/ PicturesStep(UploadThread(u))
  \/ GpsStep(GPS_input) \/ GpsStep(GpsThread)
  \/ AlertStep(EXTI4_IRQHandler) \/ AlertStep(LedThread) \/ AlertStep(BeepThread)
  \/ VoiceStep(Key) \/ VoiceStep(KeyThread)
  \/ VoiceStep(record_input2) \/ VoiceStep(RecThread)

\* Each thread runs when it can: those above it sleep again and again.  The
\* terminal is authenticated in the end (EventuallyAuthenticated of AtDial), and
\* the camera answers a command.
Fairness ==
  /\ WF_vars(Register)
  /\ WF_vars(PicturesStep(CameraAnswers)) /\ WF_vars(PicturesStep(CameraThread))
  /\ WF_vars(PicturesStep(DialClose))
  /\ \A u \in Uploads : WF_vars(PicturesStep(UploadThread(u)))
  /\ WF_vars(GpsStep(GpsThread))
  /\ WF_vars(AlertStep(LedThread)) /\ WF_vars(AlertStep(BeepThread))
  /\ WF_vars(VoiceStep(RecThread))

Spec == Init /\ [][Next]_vars /\ Fairness
=============================================================================
