--------------------------- MODULE MCAlarmWatch ---------------------------
(***************************************************************************)
(* Instances of AlarmWatch for TLC: one snooze duration shorter than the   *)
(* presumed one, a queue of two messages.                                  *)
(***************************************************************************)
EXTENDS AlarmWatch

MCDurees == {1}
=============================================================================
