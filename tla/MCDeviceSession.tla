-------------------------- MODULE MCDeviceSession --------------------------
(***************************************************************************)
(* DeviceSession for TLC.  Calls are model values given in the              *)
(* configurations.  They are interchangeable, but no symmetry is declared:  *)
(* the runs check liveness, for which TLC's reduction is not sound.         *)
(***************************************************************************)
EXTENDS DeviceSession
=============================================================================
