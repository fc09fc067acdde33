---------------------------- MODULE MCAlarmServer ----------------------------
(* Instances of AlarmServer for TLC: the .cfg files give the bounds. *)
EXTENDS AlarmServer
=============================================================================
