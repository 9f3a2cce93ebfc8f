----------------------------- MODULE MCSidServo -----------------------------
(* LibSidServo with one axis, called by two threads. *)
EXTENDS SidServoProps
=============================================================================
