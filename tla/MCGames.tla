------------------------------- MODULE MCGames --------------------------------
(***************************************************************************)
(* Two games of one date whose times conflict.  Confirmations run in the   *)
(* players' own FIFO groups, beside the groups of the games.               *)
(***************************************************************************)
EXTENDS OrderedMutations, TLC

CONSTANTS a, b

MCEvents == {a, b}

MCConflicts == {{a, b}}

MCTimes == 0 .. 8

MCOperationIds == 0 .. MaxOps

Used(status, at) == [status |-> status, at |-> at, op |-> NoOperation]

\* Players have signed up in the order of their keys and may have confirmed.
MCStartRows ==
    {[p \in Players |-> Used(s[p], p - 1)] : s \in [Players -> {"waiting", "confirmed"}]}

\* The games are interchangeable.
MCSymmetry == Permutations(MCEvents)

\* Two players wait, or one of them has confirmed.
MCRivals ==
    {<<Used("waiting", 0), Used("confirmed", 1)>>, <<Used("confirmed", 0), Used("waiting", 1)>>,
     <<Used("waiting", 0), Used("waiting", 1)>>}
=============================================================================
