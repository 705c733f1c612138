-------------------------------- MODULE MCQueue --------------------------------
(***************************************************************************)
(* Three commands, two of them of one group, and two worker instances.     *)
(***************************************************************************)
EXTENDS OrderedQueue, TLC

CONSTANTS c1, c2, c3, w1, w2, game, profile

MCGroupOf == (c1 :> game) @@ (c2 :> game) @@ (c3 :> profile)
================================================================================
