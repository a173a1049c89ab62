------------------------------- MODULE Alerts -------------------------------
(***************************************************************************)
(* The beeper (src/MySouce/LED/beep.c) with the LED thread that rings it   *)
(* for the alarm button and for low voltage (LED_my.c, ManualAlarm.c,      *)
(* LowVoltageDetecte.c).  BeepSem is created by the beeper's own thread;   *)
(* the LED thread has the same priority and is started before it.          *)
(***************************************************************************)
EXTENDS AuthEvent

VARIABLES
  BeepSem,             \* its value, or NoSem while the pointer is NULL
  ManualAlarmStatus,
  ledPc, beepPc,
  rung,                \* beeps of the alarm still to be sounded
  presses              \* of the talk key (Recorder) in this turn of the LED thread

alertVars == <<BeepSem, ManualAlarmStatus, ledPc, beepPc, rung, presses>>

NoSem == -1

AlertInit ==
  /\ BeepSem = NoSem /\ ManualAlarmStatus = FALSE
  /\ ledPc = "test" /\ beepPc = "start" /\ rung = FALSE /\ presses = 0

\* The button: EXTI4_IRQHandler.
EXTI4_IRQHandler ==
  /\ ManualAlarmStatus' = TRUE
  /\ UNCHANGED <<BeepSem, ledPc, beepPc, rung, presses>>

\* ManualAlarm_IsInterrupt: the test, then the reset; the interrupt may come
\* in between.
TestAlarm ==
  /\ ledPc = "test"
  /\ ledPc' = IF ManualAlarmStatus THEN "reset" ELSE "voltage"
  /\ UNCHANGED <<BeepSem, ManualAlarmStatus, beepPc, rung, presses>>

ResetAlarm ==
  /\ ledPc = "reset"
  /\ ManualAlarmStatus' = FALSE
  /\ ledPc' = "ring"
  /\ UNCHANGED <<BeepSem, beepPc, rung, presses>>

\* beep_On_time(n); rt_sem_release of a NULL semaphore stops in an assertion.
beep_On_time(n, l) ==
  /\ BeepSem' = IF BeepSem = NoSem THEN NoSem ELSE BeepSem + n
  /\ ledPc' = IF BeepSem = NoSem THEN "hung" ELSE l

RingAlarm ==
  /\ ledPc = "ring"
  /\ beep_On_time(2, "voltage")
  /\ rung' = TRUE
  /\ UNCHANGED <<ManualAlarmStatus, beepPc, presses>>

\* LVD_Pin()==0 rings three times.
TestVoltage ==
  /\ ledPc = "voltage"
  /\ \/ beep_On_time(3, "sleep")
     \/ ledPc' = "sleep" /\ UNCHANGED BeepSem
  /\ UNCHANGED <<ManualAlarmStatus, beepPc, rung, presses>>

LedForgetsAlarm ==
  /\ ledPc = "sleep" /\ BeepSem <= 0
  /\ ledPc' = "test" /\ ManualAlarmStatus' = FALSE
  /\ UNCHANGED <<BeepSem, beepPc, rung, presses>>

\* Two seconds pass, time for ten beeps; at most eight can be due: two for the
\* alarm, three for the voltage, one for each press of the talk key, which takes
\* a second, and the one BeepSem is created with.
LedSleeps ==
  /\ ledPc = "sleep" /\ BeepSem <= 0
  /\ ledPc' = "test" /\ presses' = 0
  /\ UNCHANGED <<BeepSem, ManualAlarmStatus, beepPc, rung>>

LedThread == TestAlarm \/ ResetAlarm \/ RingAlarm \/ TestVoltage \/ LedSleeps

CreateSem ==
  /\ beepPc = "start"
  /\ BeepSem' = 1 /\ beepPc' = "take"
  /\ UNCHANGED <<ManualAlarmStatus, ledPc, rung, presses>>

\* rt_sem_take, then the beeper is on and off for a tenth of a second each.
Beep ==
  /\ beepPc = "take" /\ BeepSem > 0
  /\ BeepSem' = BeepSem - 1
  /\ rung' = (rung /\ ~(BeepSem' = 0))
  /\ UNCHANGED <<ManualAlarmStatus, ledPc, beepPc, presses>>

BeepThread == CreateSem \/ Beep
-----------------------------------------------------------------------------
(* Properties                                                              *)

\* Liveness: a press of the alarm button makes the LED thread ring, even if it
\* comes between the test and the reset of ManualAlarmStatus, and the beeps are
\* sounded; unless the LED thread was stopped at start-up by a semaphore that did
\* not exist yet.
AlarmIsHeard == (ManualAlarmStatus ~> (rung \/ ledPc = "hung")) /\ (rung ~> ~rung)
=============================================================================
