------------------------------ MODULE MCLifecycle ------------------------------
(***************************************************************************)
(* One game with two masters.                                              *)
(***************************************************************************)
EXTENDS ScheduledLifecycle, TLC

CONSTANTS m1, m2
================================================================================
