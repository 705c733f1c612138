-------------------------------- MODULE Roster --------------------------------
(***************************************************************************)
(* What the registration component promises about one game: every          *)
(* operation on its queue happens once, in one step, on current data.      *)
(* OrderedMutations, where the same operations take several database       *)
(* round trips, crash and are retried, is checked against this module.     *)
(***************************************************************************)
EXTENDS RegistrationRows

CONSTANTS
    Times,      \* bound: signup times, readings of the clock, shifts of a sift
    Amounts,    \* capacities a master may set
    StartRows   \* registrations of a game that has been in use for a while

ASSUME RosterAssumption ==
    /\ Times \subseteq Nat /\ Amounts \subseteq Nat
    /\ StartRows \subseteq {r \in Rows : DistinctTimes(r)}

VARIABLES
    rows,       \* the game's registration rows
    amount      \* events.player_amount

rosterVars == <<rows, amount>>

RosterTypeOK == rows \in Rows /\ amount \in Nat

RosterInit == rows \in StartRows /\ amount \in Amounts

-----------------------------------------------------------------------------
\* A new row, or a cancelled one, goes to the end of the queue.
Enlist(p, op) ==
    /\ p \notin Active(rows)
    /\ \E now, time \in Times :
        /\ IsQueueTime(rows, now, time)
        /\ rows' = EnlistRow(rows, p, op, time)
    /\ UNCHANGED amount

Confirm(p, op) ==
    /\ p \in Active(rows)
    /\ rows' = ConfirmRow(rows, p, op)
    /\ UNCHANGED amount

\* A cancelled row stays in the table; cancelling it again only marks it.
Cancel(p, op) ==
    /\ rows' = CancelRow(rows, p, op)
    /\ UNCHANGED amount

Touch(p, op) ==
    /\ p \in Active(rows)
    /\ rows' = TouchRow(rows, p, op)
    /\ UNCHANGED amount

\* Removal by a master, and the row a same-day confirmation replaces.
DropRow(p) ==
    /\ rows' = [rows EXCEPT ![p] = NoRow]
    /\ UNCHANGED amount

Sift ==
    /\ ~Sifted(rows)
    /\ \E shift \in Times :
        /\ IsShift(rows, shift)
        /\ \A p \in WithStatus(rows, "waiting") : rows[p].at + shift \in Times
        /\ rows' = SiftRows(rows, shift)
    /\ UNCHANGED amount

\* A confirmed reserve player takes the place of the last main-roster player
\* who has not confirmed.
Swap(promoted, demoted, op) ==
    /\ IsSwap(rows, amount, promoted, demoted)
    /\ rows[promoted].op # op /\ rows[demoted].op # op
    /\ rows' = SwapRows(rows, op, promoted, rows[promoted].at, demoted, rows[demoted].at)
    /\ UNCHANGED amount

SetAmount ==
    /\ amount' \in Amounts
    /\ UNCHANGED rows

DeleteEvent ==
    /\ rows' = [p \in Players |-> NoRow]
    /\ UNCHANGED amount

RosterNext ==
    \/ \E p \in Players, op \in OperationIds :
        Enlist(p, op) \/ Confirm(p, op) \/ Cancel(p, op) \/ Touch(p, op)
    \/ \E p \in Players : DropRow(p)
    \/ Sift
    \/ \E p, q \in Players, op \in OperationIds : Swap(p, q, op)
    \/ SetAmount
    \/ DeleteEvent

RosterSpec == RosterInit /\ [][RosterNext]_rosterVars

-----------------------------------------------------------------------------
\* No two active players share a place in the queue, although signup times
\* are also used as ranks and moved into the future by a sift: otherwise the
\* order the players see would depend on their hashed participant keys.
QueueTimesDistinct == DistinctTimes(rows)

\* A step in which nobody who waits comes before a confirmed player whom they
\* were not before.
NobodyOvertakes ==
    \A p \in Active(rows) \cap Active(rows'), q \in WithStatus(rows', "waiting") :
        rows[p].status = "confirmed" /\ ~(q \in Active(rows) /\ Before(rows, q, p))
        => Before(rows', p, q)

\* A player who has confirmed is never overtaken by one who has not: neither
\* by a later signup, nor by a sift, nor by a promotion from the reserve.
ConfirmedNeverOvertaken == [][NobodyOvertakes]_rosterVars

\* A step in which no confirmed player falls out of the main roster.
NobodyFallsOut ==
    \A p \in MainRoster(rows, amount) :
        rows[p].status = "confirmed" /\ p \in Active(rows') /\ amount' >= amount
        => p \in MainRoster(rows', amount')

\* A confirmed player keeps a place in the main roster for as long as the
\* registration is active and masters do not lower the capacity.
ConfirmedKeepsMainPlace == [][NobodyFallsOut]_rosterVars
=============================================================================
