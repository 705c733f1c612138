----------------------------- MODULE CommandGroups -----------------------------
(***************************************************************************)
(* What the command queue promises the rest of the program: the commands   *)
(* of one FIFO group are applied one at a time and in the order in which   *)
(* they were accepted, each until it has been completed, while groups do   *)
(* not wait for each other.  OrderedMutations relies on this; OrderedQueue *)
(* implements it.                                                          *)
(***************************************************************************)
EXTENDS Sequences, FiniteSets

CONSTANTS
    Commands,   \* operation ids of the commands clients publish
    Groups,     \* FIFO message groups
    GroupOf     \* queue_group_id of each command

VARIABLES
    pending,    \* accepted commands that are not completed, per group
    busy,       \* the command of a group that is being applied, if any
    accepted    \* commands accepted so far

groupVars == <<pending, busy, accepted>>

Init ==
    /\ pending = [g \in Groups |-> <<>>]
    /\ busy = [g \in Groups |-> {}]
    /\ accepted = {}

Accept(c) ==
    /\ c \notin accepted
    /\ accepted' = accepted \cup {c}
    /\ pending' = [pending EXCEPT ![GroupOf[c]] = Append(@, c)]
    /\ UNCHANGED busy

Begin(g) ==
    /\ pending[g] # <<>> /\ busy[g] = {}
    /\ busy' = [busy EXCEPT ![g] = {Head(pending[g])}]
    /\ UNCHANGED <<pending, accepted>>

\* An attempt ends without success; the command stays first in its group.
Abandon(g) ==
    /\ busy[g] # {}
    /\ busy' = [busy EXCEPT ![g] = {}]
    /\ UNCHANGED <<pending, accepted>>

Complete(g) ==
    /\ busy[g] # {}
    /\ busy' = [busy EXCEPT ![g] = {}]
    /\ pending' = [pending EXCEPT ![g] = Tail(@)]
    /\ UNCHANGED accepted

Next ==
    \/ \E c \in Commands : Accept(c)
    \/ \E g \in Groups : Begin(g) \/ Abandon(g) \/ Complete(g)

Spec == Init /\ [][Next]_groupVars
================================================================================
