------------------------------- MODULE MCRoster -------------------------------
(***************************************************************************)
(* One game with three players and every operation of its queue, from an   *)
(* empty list and from queues in which some have confirmed or cancelled.   *)
(***************************************************************************)
EXTENDS Roster, TLC

MCPlayers == 1 .. 3

MCOperationIds == 0 .. 1

MCTimes == 0 .. 5

MCAmounts == 1 .. 2

Used(status, at) == [status |-> status, at |-> at, op |-> NoOperation]

MCStartRows ==
    {[p \in MCPlayers |-> NoRow],
     (1 :> Used("waiting", 0)) @@ (2 :> Used("cancelled", 0)) @@ (3 :> Used("confirmed", 1))}
=============================================================================
