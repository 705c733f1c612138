-------------------------------- MODULE MCGame --------------------------------
(***************************************************************************)
(* One game and the operations of its own FIFO group: two operations, the  *)
(* first or second of which may fail half-way and be applied again.        *)
(* Every command is compared with the atomic operations of Roster.         *)
(***************************************************************************)
EXTENDS OrderedMutations, TLC

MCEvents == {"game"}

MCKinds == (ByPlayer \cup ByTarget \cup ByMaster) \ {"confirm"}

MCTimes == 0 .. 9

MCOperationIds == 0 .. MaxOps

Used(status, at) == [status |-> status, at |-> at, op |-> NoOperation]

\* The queue is 1, 2, 3; who has confirmed or cancelled varies.
MCStartRows ==
    {(1 :> Used(s1, 0)) @@ (2 :> Used(s2, 1)) @@ (3 :> Used(s3, 2)) :
        s1 \in {"waiting", "confirmed"}, s2 \in {"waiting", "cancelled"},
        s3 \in {"waiting", "confirmed"}}
    \cup {(1 :> NoRow) @@ (2 :> Used("waiting", 0)) @@ (3 :> Used("confirmed", 2))}
===============================================================================
