---------------------------- MODULE RegistrationRows ----------------------------
(***************************************************************************)
(* The rows of the `registrations` table that belong to one game, the      *)
(* queue they form, and what each repository operation does to them        *)
(* (adapters/ydb/registration_repository.py, domain/registration_queues.py)*)
(*                                                                         *)
(* A row keeps what the queue depends on: the attendance status, the       *)
(* signup time `created_at` (a microsecond, here a natural number) and     *)
(* `last_operation_id`.  Names, wishes and profile links are left out.     *)
(* A player with no row has the row NoRow.                                 *)
(*                                                                         *)
(* Definitions whose comment begins with "Variant" are plausible mistakes; *)
(* no specification uses them.  PROJECT.json pairs each with the property  *)
(* that notices it.                                                        *)
(***************************************************************************)
EXTENDS Naturals, FiniteSets

CONSTANTS
    Players,      \* participant keys; they are ordered, and break ties of the queue
    OperationIds, \* values of last_operation_id
    NoOperation   \* last_operation_id of a player without a row

ASSUME RowsAssumption ==
    Players \subseteq Nat /\ IsFiniteSet(Players) /\ NoOperation \in OperationIds

Statuses == {"none", "waiting", "confirmed", "cancelled"}

Row == [status : Statuses, at : Nat, op : OperationIds]

Rows == [Players -> Row]

NoRow == [status |-> "none", at |-> 0, op |-> NoOperation]

(***************************************************************************)
(* The queue: domain/registration_queues.py                                *)
(***************************************************************************)
Active(rows) == {p \in Players : rows[p].status \in {"waiting", "confirmed"}}

WithStatus(rows, status) == {p \in Players : rows[p].status = status}

\* queue_key: signup time first, participant key second.
Before(rows, p, q) ==
    \/ rows[p].at < rows[q].at
    \/ rows[p].at = rows[q].at /\ p < q

Position(rows, p) == Cardinality({q \in Active(rows) : Before(rows, q, p)})

MainRoster(rows, amount) == {p \in Active(rows) : Position(rows, p) < amount}

ReserveRoster(rows, amount) == Active(rows) \ MainRoster(rows, amount)

\* A queue in which no two players share a place.
DistinctTimes(rows) ==
    \A p, q \in Active(rows) : rows[p].at = rows[q].at => p = q

\* The confirmation sift finds nothing to do.
Sifted(rows) ==
    \A p \in WithStatus(rows, "waiting"), q \in WithStatus(rows, "confirmed") :
        Before(rows, q, p)

(***************************************************************************)
(* What the repository operations write                                    *)
(***************************************************************************)

\* Variant: the clock alone, as if no row could be ahead of it.
IsClockTime(rows, now, time) == time = now

\* Variant: MAX taken over the waiting rows alone.
IsWaitingTime(rows, now, time) ==
    /\ time >= now
    /\ \A q \in WithStatus(rows, "waiting") : time > rows[q].at
    /\ time = now \/ \E q \in WithStatus(rows, "waiting") : time = rows[q].at + 1

\* max(now, MAX(created_at) + 1 microsecond), MAX taken over rows not cancelled.
IsQueueTime(rows, now, time) ==
    /\ time >= now
    /\ \A q \in Active(rows) : time > rows[q].at
    /\ \/ time = now
       \/ \E q \in Active(rows) : time = rows[q].at + 1

\* enlist, once the queue time has been read: a new or cancelled row starts waiting.
EnlistRow(rows, p, op, time) ==
    [rows EXCEPT ![p] = [status |-> "waiting", at |-> time, op |-> op]]

\* UPDATE ... WHERE participant_key = p AND last_operation_id != op
Update(rows, p, op, status) ==
    IF rows[p].status = "none" \/ rows[p].op = op
    THEN rows
    ELSE [rows EXCEPT ![p].status = status, ![p].op = op]

ConfirmRow(rows, p, op) == Update(rows, p, op, "confirmed")

CancelRow(rows, p, op) == Update(rows, p, op, "cancelled")

\* update_character_wish, update_co_player_wish, update_profile: the queue
\* sees nothing of them but the new last_operation_id.
TouchRow(rows, p, op) == Update(rows, p, op, rows[p].status)

\* max(created_at) - min(created_at) + 1 microsecond, over rows not cancelled.
IsShift(rows, shift) ==
    /\ \A p, q \in Active(rows) : rows[p].at < rows[q].at + shift
    /\ \E p, q \in Active(rows) : rows[p].at + 1 = rows[q].at + shift

\* Variant: the wrong half of the queue is moved.
SiftConfirmedRows(rows, shift) ==
    [p \in Players |->
        IF rows[p].status = "confirmed"
        THEN [rows[p] EXCEPT !.at = @ + shift]
        ELSE rows[p]]

SiftRows(rows, shift) ==
    [p \in Players |->
        IF rows[p].status = "waiting"
        THEN [rows[p] EXCEPT !.at = @ + shift]
        ELSE rows[p]]

\* Variant: the last player of the main roster, confirmed or not.
IsSwapWithLast(rows, amount, promoted, demoted) ==
    /\ promoted \in ReserveRoster(rows, amount)
    /\ rows[promoted].status = "confirmed"
    /\ demoted \in MainRoster(rows, amount)
    /\ \A q \in MainRoster(rows, amount) : q = demoted \/ Before(rows, q, demoted)

\* The last player of the main roster who has not confirmed makes room for a
\* confirmed player of the reserve.
IsSwap(rows, amount, promoted, demoted) ==
    /\ promoted \in ReserveRoster(rows, amount)
    /\ rows[promoted].status = "confirmed"
    /\ demoted \in MainRoster(rows, amount)
    /\ rows[demoted].status = "waiting"
    /\ \A q \in MainRoster(rows, amount) :
        rows[q].status = "waiting" => q = demoted \/ Before(rows, q, demoted)

MoveRow(rows, p, op, time) ==
    IF rows[p].status = "none" \/ rows[p].op = op
    THEN rows
    ELSE [rows EXCEPT ![p].at = time, ![p].op = op]

\* swap_queue_positions: two updates in one transaction, each guarded by the
\* row's own last_operation_id; the times are the ones the caller has read.
SwapRows(rows, op, promoted, promotedAt, demoted, demotedAt) ==
    MoveRow(MoveRow(rows, promoted, op, demotedAt), demoted, op, promotedAt)
=================================================================================
