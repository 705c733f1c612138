----------------------------- MODULE Queues_proofs -----------------------------
(***************************************************************************)
(* Proofs about the two queues of the bot.                                 *)
(*                                                                         *)
(* Roster, the queue of a game's players, for every set of players,        *)
(* whatever the times and the capacities are.                              *)
(*                                                                         *)
(* OrderedQueue, the queue of commands, for any commands, groups and       *)
(* workers, any size of the batches and any number of failures.  The order *)
(* of a group rests on who holds its messages.  Only one worker holds      *)
(* messages of a group, and what it has still to try of a group in which   *)
(* nothing failed is the front of that group, without gaps: hence what it  *)
(* tries next is the first command of its group.                           *)
(***************************************************************************)
EXTENDS Roster, OrderedQueue, SequenceTheorems, FiniteSetTheorems, TLAPS

(***************************************************************************)
(* What the operations on rows do to the places in the queue               *)
(***************************************************************************)

\* Players may leave the queue, or change status in it, without two of the
\* others coming to share a place.
LEMMA LeavingKeepsDistinct ==
    ASSUME NEW r \in Rows, NEW s \in Rows, DistinctTimes(r),
           Active(s) \subseteq Active(r),
           \A p \in Active(s) : s[p].at = r[p].at
    PROVE  DistinctTimes(s)
  BY DEF DistinctTimes

\* The row a signup writes is behind every active row.
LEMMA EnlistKeepsDistinct ==
    ASSUME NEW r \in Rows, DistinctTimes(r),
           NEW p \in Players, NEW op \in OperationIds, NEW now \in Nat, NEW time \in Nat,
           p \notin Active(r), IsQueueTime(r, now, time)
    PROVE  DistinctTimes(EnlistRow(r, p, op, time))
<1> DEFINE s == EnlistRow(r, p, op, time)
<1>1. s \in Rows /\ s[p].at = time
  BY DEF EnlistRow, Rows, Row, Statuses
<1>2. \A q \in Players \ {p} : s[q] = r[q]
  BY DEF EnlistRow, Rows
<1>3. \A q \in Active(s) : q = p \/ q \in Active(r) \ {p}
  BY <1>2 DEF Active
<1>4. \A q \in Active(r) : r[q].at < time
  BY DEF IsQueueTime, Active, Rows, Row
<1>5. \A q \in Active(r) \ {p} : s[q].at < s[p].at /\ s[q].at = r[q].at
  BY <1>1, <1>2, <1>4 DEF Active
<1>6. \A q \in Active(s) : s[q].at \in Nat
  BY <1>1 DEF Active, Rows, Row
<1> QED
  BY <1>3, <1>5, <1>6 DEF DistinctTimes

\* A sift moves the waiting rows together, and behind all the confirmed ones.
LEMMA SiftKeepsDistinct ==
    ASSUME NEW r \in Rows, DistinctTimes(r), NEW shift \in Nat, IsShift(r, shift)
    PROVE  DistinctTimes(SiftRows(r, shift))
<1> DEFINE s == SiftRows(r, shift)
<1>1. ASSUME NEW p \in Players
      PROVE  /\ s[p].status = r[p].status
             /\ s[p].at = IF r[p].status = "waiting" THEN r[p].at + shift ELSE r[p].at
             /\ r[p].at \in Nat
  BY DEF SiftRows, Rows, Row
<1>2. Active(s) = Active(r)
  BY <1>1 DEF Active
<1>3. \A p, q \in Active(r) : r[p].at < r[q].at + shift
  BY DEF IsShift
<1>4. ASSUME NEW p \in Active(r), NEW q \in Active(r), s[p].at = s[q].at
      PROVE  r[p].at = r[q].at
  BY <1>1, <1>3, <1>4 DEF Active
<1> QED
  BY <1>2, <1>4 DEF DistinctTimes

\* A promotion exchanges two places.
LEMMA SwapExchanges ==
    ASSUME NEW r \in Rows, NEW op \in OperationIds,
           NEW p \in Players, NEW q \in Players, p # q,
           r[p].status # "none", r[q].status # "none", r[p].op # op, r[q].op # op
    PROVE  LET s == SwapRows(r, op, p, r[p].at, q, r[q].at) IN
           /\ s \in Rows
           /\ \A x \in Players : s[x].status = r[x].status
           /\ s[p].at = r[q].at /\ s[q].at = r[p].at
           /\ \A x \in Players \ {p, q} : s[x] = r[x]
<1> DEFINE m == MoveRow(r, p, op, r[q].at)
<1>1. m = [r EXCEPT ![p].at = r[q].at, ![p].op = op]
  BY DEF MoveRow
<1>2. /\ m \in Rows
      /\ m[p].at = r[q].at
      /\ \A x \in Players : m[x].status = r[x].status
      /\ \A x \in Players \ {p} : m[x] = r[x]
  BY <1>1 DEF Rows, Row
<1> HIDE DEF m
<1> DEFINE s == MoveRow(m, q, op, r[p].at)
<1>3. m[q].status # "none" /\ m[q].op # op
  BY <1>2
<1>4. s = [m EXCEPT ![q].at = r[p].at, ![q].op = op]
  BY <1>3 DEF MoveRow
<1>5. /\ s \in Rows
      /\ s[q].at = r[p].at
      /\ \A x \in Players : s[x].status = m[x].status
      /\ \A x \in Players \ {q} : s[x] = m[x]
  BY <1>2, <1>4 DEF Rows, Row
<1>6. s = SwapRows(r, op, p, r[p].at, q, r[q].at)
  BY DEF SwapRows, m
<1> QED
  BY <1>2, <1>5, <1>6

\* A promotion leaves the places distinct: the same ones are taken.
LEMMA SwapKeepsDistinct ==
    ASSUME NEW r \in Rows, DistinctTimes(r), NEW op \in OperationIds,
           NEW p \in Active(r), NEW q \in Active(r), p # q,
           r[p].op # op, r[q].op # op
    PROVE  DistinctTimes(SwapRows(r, op, p, r[p].at, q, r[q].at))
<1> DEFINE s == SwapRows(r, op, p, r[p].at, q, r[q].at)
<1>1. p \in Players /\ q \in Players /\ r[p].status # "none" /\ r[q].status # "none"
  BY DEF Active
<1>2. /\ \A x \in Players : s[x].status = r[x].status
      /\ s[p].at = r[q].at /\ s[q].at = r[p].at
      /\ \A x \in Players \ {p, q} : s[x] = r[x]
  BY <1>1, SwapExchanges
<1>3. Active(s) = Active(r)
  BY <1>2 DEF Active
<1>4. \A x, y \in Active(r) : r[x].at = r[y].at => x = y
  BY DEF DistinctTimes
<1>5. Active(r) \subseteq Players
  BY DEF Active
<1>6. DistinctTimes(s)
  <2> HIDE DEF s
  <2> QED
    BY <1>2, <1>3, <1>4, <1>5 DEF DistinctTimes
<1> QED
  BY <1>6

-----------------------------------------------------------------------------
(***************************************************************************)
(* The order of the queue                                                  *)
(***************************************************************************)

\* The active players ahead of p; Position counts them.
Ahead(r, p) == {q \in Active(r) : Before(r, q, p)}

\* Of two players, one is ahead of the other and not the other way round.
LEMMA QueueIsLinear ==
    ASSUME NEW r \in Rows, NEW p \in Players, NEW q \in Players, p # q
    PROVE  Before(r, p, q) <=> ~Before(r, q, p)
  BY RowsAssumption DEF Before, Rows, Row

\* Being ahead is transitive.
LEMMA QueueIsTransitive ==
    ASSUME NEW r \in Rows, NEW p \in Players, NEW q \in Players, NEW x \in Players,
           Before(r, p, q), Before(r, q, x)
    PROVE  Before(r, p, x)
  BY RowsAssumption DEF Before, Rows, Row

\* A place is a natural number: a queue is finite.
LEMMA PositionIsNat ==
    ASSUME NEW r, NEW p
    PROVE  IsFiniteSet(Ahead(r, p)) /\ Position(r, p) \in Nat
<1>1. Ahead(r, p) \subseteq Players
  BY DEF Ahead, Active
<1>2. IsFiniteSet(Ahead(r, p))
  BY <1>1, RowsAssumption, FS_Subset
<1> QED
  BY <1>2, FS_CardinalityType DEF Position, Ahead

\* With nobody new ahead, a player does not fall back.
LEMMA FewerAhead ==
    ASSUME NEW r, NEW s, NEW p, NEW q, Ahead(s, q) \subseteq Ahead(r, p)
    PROVE  Position(s, q) <= Position(r, p)
<1>1. IsFiniteSet(Ahead(r, p))
  BY PositionIsNat
<1> QED
  BY <1>1, FS_Subset DEF Position, Ahead

\* Every player of the main roster is ahead of every player of the reserve.
LEMMA MainBeforeReserve ==
    ASSUME NEW r \in Rows, NEW n \in Nat,
           NEW p \in MainRoster(r, n), NEW q \in ReserveRoster(r, n)
    PROVE  Before(r, p, q)
<1>1. /\ p \in Players /\ q \in Players /\ p # q
      /\ q \in Active(r) /\ Position(r, p) < n /\ ~(Position(r, q) < n)
  BY DEF MainRoster, ReserveRoster, Active
<1>2. SUFFICES ASSUME Before(r, q, p) PROVE FALSE
  BY <1>1, QueueIsLinear
<1>3. Ahead(r, q) \subseteq Ahead(r, p)
  BY <1>1, <1>2, QueueIsTransitive DEF Ahead, Active
<1>4. Position(r, q) <= Position(r, p) /\ Position(r, q) \in Nat /\ Position(r, p) \in Nat
  BY <1>3, FewerAhead, PositionIsNat
<1> QED
  BY <1>1, <1>4

\* Two players whose signup times a step leaves alone keep their order.
LEMMA KeepingTimesKeepsOrder ==
    ASSUME NEW r \in Rows, NEW s \in Rows, NEW p \in Players, NEW q \in Players, p # q,
           s[p].at = r[p].at, s[q].at = r[q].at, ~Before(r, q, p)
    PROVE  Before(s, p, q)
  BY QueueIsLinear DEF Before

\* A swap: what the promoted player passes is no confirmed player.
LEMMA SwapOvertakesNobody ==
    ASSUME NEW r \in Rows, NEW n \in Nat, NEW op \in OperationIds,
           NEW x \in Players, NEW y \in Players, IsSwap(r, n, x, y),
           r[x].op # op, r[y].op # op,
           NEW p \in Active(r), NEW q \in Active(r),
           r[p].status = "confirmed", r[q].status = "waiting", Before(r, p, q)
    PROVE  Before(SwapRows(r, op, x, r[x].at, y, r[y].at), p, q)
<1> DEFINE s == SwapRows(r, op, x, r[x].at, y, r[y].at)
<1>1. /\ x # y /\ r[x].status = "confirmed" /\ r[y].status = "waiting"
      /\ p \in Players /\ q \in Players /\ p # q /\ p # y /\ q # x
  BY DEF IsSwap, Active
<1>2. Before(r, y, x)
  BY MainBeforeReserve DEF IsSwap
<1>3. /\ s \in Rows
      /\ s[x].at = r[y].at /\ s[y].at = r[x].at
      /\ \A z \in Players \ {x, y} : s[z] = r[z]
  BY <1>1, SwapExchanges
<1> HIDE DEF s
<1>4. /\ r[x].at \in Nat /\ r[y].at \in Nat /\ r[p].at \in Nat /\ r[q].at \in Nat
      /\ x \in Nat /\ y \in Nat /\ p \in Nat /\ q \in Nat
  BY <1>1, RowsAssumption DEF Rows, Row
<1>5. ASSUME p = x /\ q = y PROVE Before(s, p, q)
  BY <1>2, <1>1, <1>5, QueueIsLinear
<1>6. ASSUME p = x /\ q # y PROVE Before(s, p, q)
  BY <1>1, <1>2, <1>3, <1>4, <1>6 DEF Before
<1>7. ASSUME p # x /\ q = y PROVE Before(s, p, q)
  BY <1>1, <1>2, <1>3, <1>4, <1>7 DEF Before
<1>8. ASSUME p # x /\ q # y PROVE Before(s, p, q)
  BY <1>1, <1>3, <1>8 DEF Before
<1>9. Before(s, p, q)
  BY <1>5, <1>6, <1>7, <1>8
<1> QED
  BY <1>9 DEF s

\* A swap puts at most the promoted player ahead of another one, and only in
\* the place of the demoted player.
LEMMA SwapKeepsPosition ==
    ASSUME NEW r \in Rows, DistinctTimes(r), NEW n \in Nat, NEW op \in OperationIds,
           NEW x \in Players, NEW y \in Players, IsSwap(r, n, x, y),
           r[x].op # op, r[y].op # op,
           NEW p \in MainRoster(r, n), r[p].status = "confirmed"
    PROVE  Position(SwapRows(r, op, x, r[x].at, y, r[y].at), p) <= Position(r, p)
<1> DEFINE s == SwapRows(r, op, x, r[x].at, y, r[y].at)
           rest == Ahead(r, p) \ {y}
<1>1. /\ x # y /\ x \in Active(r) /\ y \in Active(r)
      /\ p \in Players /\ p \in Active(r) /\ p # x /\ p # y
  BY DEF IsSwap, Active, MainRoster, ReserveRoster
<1>2. Before(r, p, x)
  BY MainBeforeReserve DEF IsSwap
<1>3. /\ s \in Rows
      /\ \A z \in Players : s[z].status = r[z].status
      /\ s[x].at = r[y].at /\ s[y].at = r[x].at
      /\ \A z \in Players \ {x, y} : s[z] = r[z]
  BY <1>1, SwapExchanges DEF Active
<1> HIDE DEF s
<1>4. Active(s) = Active(r)
  BY <1>3 DEF Active
<1>5. /\ r[x].at \in Nat /\ r[y].at \in Nat /\ r[p].at \in Nat
      /\ r[x].at # r[p].at /\ r[y].at # r[p].at
  BY <1>1 DEF DistinctTimes, Rows, Row
<1>6. \A z \in Active(r) \ {x, y} : Before(s, z, p) <=> Before(r, z, p)
  BY <1>1, <1>3 DEF Before, Active
<1>7. ~Before(s, y, p) /\ (Before(s, x, p) <=> Before(r, y, p))
  BY <1>1, <1>2, <1>3, <1>5 DEF Before
<1>8. ASSUME ~Before(r, y, p) PROVE Position(s, p) <= Position(r, p)
  <2>1. Ahead(s, p) \subseteq Ahead(r, p)
    BY <1>1, <1>4, <1>6, <1>7, <1>8 DEF Ahead
  <2> QED
    BY <2>1, FewerAhead
<1>9. ASSUME Before(r, y, p) PROVE Position(s, p) <= Position(r, p)
  <2>1. y \in Ahead(r, p) /\ x \notin rest
    BY <1>1, <1>2, <1>9, QueueIsLinear DEF Ahead
  <2>2. Ahead(s, p) \subseteq rest \cup {x}
    BY <1>1, <1>4, <1>6, <1>7 DEF Ahead
  <2>3. IsFiniteSet(Ahead(r, p)) /\ Position(r, p) \in Nat
    BY PositionIsNat
  <2>4. IsFiniteSet(rest) /\ Cardinality(rest) = Position(r, p) - 1
    BY <2>1, <2>3, FS_RemoveElement DEF Position, Ahead
  <2>5. IsFiniteSet(rest \cup {x}) /\ Cardinality(rest \cup {x}) = Position(r, p)
    <3>1. IsFiniteSet(rest) /\ x \notin rest
      BY <2>1, <2>4
    <3> HIDE DEF rest
    <3>2. IsFiniteSet(rest \cup {x}) /\ Cardinality(rest \cup {x}) = Cardinality(rest) + 1
      BY <3>1, FS_AddElement
    <3> QED
      BY <2>3, <2>4, <3>2
  <2>6. Cardinality(Ahead(s, p)) <= Position(r, p)
    BY <2>2, <2>5, FS_Subset
  <2> QED
    BY <2>6 DEF Position, Ahead
<1>10. Position(s, p) <= Position(r, p)
  BY <1>8, <1>9
<1> QED
  BY <1>10 DEF s

-----------------------------------------------------------------------------
(***************************************************************************)
(* The theorems                                                            *)
(***************************************************************************)

\* Every operation keeps the rows well-formed: no operation invents a status,
\* and signup times stay natural numbers however far a sift moves them.
THEOREM RosterTypeCorrect == RosterSpec => []RosterTypeOK
<1> USE RowsAssumption, RosterAssumption DEF RosterTypeOK
<1>1. RosterInit => RosterTypeOK
  BY DEF RosterInit, DistinctTimes
<1>2. RosterTypeOK /\ [RosterNext]_rosterVars => RosterTypeOK'
  <2> SUFFICES ASSUME RosterTypeOK, [RosterNext]_rosterVars PROVE RosterTypeOK'
    OBVIOUS
  <2> USE DEF Rows, Row, Statuses
  <2>1. ASSUME NEW p \in Players, NEW op \in OperationIds, Enlist(p, op) PROVE RosterTypeOK'
    BY <2>1 DEF Enlist, EnlistRow
  <2>2. ASSUME NEW p \in Players, NEW op \in OperationIds, Confirm(p, op) PROVE RosterTypeOK'
    BY <2>2 DEF Confirm, ConfirmRow, Update
  <2>3. ASSUME NEW p \in Players, NEW op \in OperationIds, Cancel(p, op) PROVE RosterTypeOK'
    BY <2>3 DEF Cancel, CancelRow, Update
  <2>4. ASSUME NEW p \in Players, NEW op \in OperationIds, Touch(p, op) PROVE RosterTypeOK'
    BY <2>4 DEF Touch, TouchRow, Update
  <2>5. ASSUME NEW p \in Players, DropRow(p) PROVE RosterTypeOK'
    BY <2>5 DEF DropRow, NoRow
  <2>6. CASE Sift
    BY <2>6 DEF Sift, SiftRows
  <2>7. ASSUME NEW p \in Players, NEW q \in Players, NEW op \in OperationIds, Swap(p, q, op)
        PROVE RosterTypeOK'
    <3>1. rows[p].at \in Nat /\ rows[q].at \in Nat
      OBVIOUS
    <3>2. ASSUME NEW r \in Rows, NEW x \in Players, NEW t \in Nat
          PROVE  MoveRow(r, x, op, t) \in Rows
      BY <3>2, ZenonT(30) DEF MoveRow
    <3> QED
      BY <2>7, <3>1, <3>2 DEF Swap, SwapRows
  <2>8. CASE SetAmount
    BY <2>8 DEF SetAmount
  <2>9. CASE DeleteEvent
    BY <2>9 DEF DeleteEvent, NoRow
  <2>10. CASE UNCHANGED rosterVars
    BY <2>10 DEF rosterVars
  <2> QED
    BY <2>1, <2>2, <2>3, <2>4, <2>5, <2>6, <2>7, <2>8, <2>9, <2>10 DEF RosterNext
<1> QED
  BY <1>1, <1>2, PTL DEF RosterSpec

-----------------------------------------------------------------------------
\* No two active players ever share a place in a game's queue.
THEOREM PlacesDistinct == RosterSpec => []QueueTimesDistinct
<1> USE RowsAssumption, RosterAssumption
<1>1. RosterInit => QueueTimesDistinct
  BY DEF RosterInit, QueueTimesDistinct
<1>2. RosterTypeOK /\ RosterTypeOK' /\ QueueTimesDistinct /\ [RosterNext]_rosterVars => QueueTimesDistinct'
  <2> SUFFICES ASSUME RosterTypeOK, RosterTypeOK', DistinctTimes(rows), [RosterNext]_rosterVars
               PROVE  DistinctTimes(rows')
    BY DEF QueueTimesDistinct
  <2> USE DEF RosterTypeOK
  <2>1. ASSUME NEW p \in Players, NEW op \in OperationIds, Enlist(p, op)
        PROVE  DistinctTimes(rows')
    <3>1. PICK now \in Times, time \in Times :
            IsQueueTime(rows, now, time) /\ rows' = EnlistRow(rows, p, op, time)
      BY <2>1 DEF Enlist
    <3> QED
      BY <2>1, <3>1, EnlistKeepsDistinct DEF Enlist
  <2>2. ASSUME NEW p \in Players, NEW op \in OperationIds,
               Confirm(p, op) \/ Cancel(p, op) \/ Touch(p, op)
        PROVE  DistinctTimes(rows')
    <3>1. \A q \in Players : rows'[q].at = rows[q].at
      BY <2>2 DEF Confirm, Cancel, Touch, ConfirmRow, CancelRow, TouchRow, Update, Rows, Row
    <3>2. \A q \in Players \ {p} : rows'[q].status = rows[q].status
      BY <2>2 DEF Confirm, Cancel, Touch, ConfirmRow, CancelRow, TouchRow, Update, Rows, Row
    <3>3. p \in Active(rows') => p \in Active(rows)
      <4>1. CASE Confirm(p, op) \/ Touch(p, op)
        BY <4>1 DEF Confirm, Touch
      <4>2. CASE Cancel(p, op)
        BY <4>2 DEF Cancel, CancelRow, Update, Active, Rows, Row
      <4> QED
        BY <2>2, <4>1, <4>2
    <3>4. Active(rows') \subseteq Active(rows)
      BY <3>2, <3>3 DEF Active
    <3> QED
      BY <3>1, <3>4, LeavingKeepsDistinct DEF Active
  <2>3. ASSUME NEW p \in Players, DropRow(p) PROVE DistinctTimes(rows')
    <3>1. \A q \in Players : q # p => rows'[q] = rows[q]
      BY <2>3 DEF DropRow, Rows
    <3>2. rows'[p].status = "none"
      BY <2>3 DEF DropRow, NoRow, Rows
    <3>3. Active(rows') \subseteq Active(rows) /\ \A q \in Active(rows') : rows'[q].at = rows[q].at
      BY <3>1, <3>2 DEF Active
    <3> QED
      BY <3>3, LeavingKeepsDistinct
  <2>4. CASE Sift
    BY <2>4, SiftKeepsDistinct DEF Sift
  <2>5. ASSUME NEW p \in Players, NEW q \in Players, NEW op \in OperationIds, Swap(p, q, op)
        PROVE  DistinctTimes(rows')
    <3>1. p \in Active(rows) /\ q \in Active(rows) /\ p # q
      BY <2>5 DEF Swap, IsSwap, MainRoster, ReserveRoster
    <3> QED
      BY <2>5, <3>1, SwapKeepsDistinct DEF Swap
  <2>6. CASE SetAmount
    BY <2>6 DEF SetAmount
  <2>7. CASE DeleteEvent
    <3>1. Active(rows') = {}
      BY <2>7 DEF DeleteEvent, NoRow, Active
    <3> QED
      BY <3>1 DEF DistinctTimes
  <2>8. CASE UNCHANGED rosterVars
    BY <2>8 DEF rosterVars
  <2> QED
    BY <2>1, <2>2, <2>3, <2>4, <2>5, <2>6, <2>7, <2>8 DEF RosterNext
<1> QED
  BY <1>1, <1>2, RosterTypeCorrect, PTL DEF RosterSpec

-----------------------------------------------------------------------------
\* Nobody who waits ever overtakes a confirmed player.
THEOREM NeverOvertaken == RosterSpec => ConfirmedNeverOvertaken
<1> USE RowsAssumption, RosterAssumption
<1>1. RosterTypeOK /\ RosterTypeOK' /\ [RosterNext]_rosterVars => [NobodyOvertakes]_rosterVars
  <2> SUFFICES ASSUME RosterTypeOK, RosterTypeOK', RosterNext,
                      NEW p \in Active(rows) \cap Active(rows'),
                      NEW q \in WithStatus(rows', "waiting"),
                      rows[p].status = "confirmed",
                      ~(q \in Active(rows) /\ Before(rows, q, p))
               PROVE  Before(rows', p, q)
    BY DEF NobodyOvertakes
  <2> USE DEF RosterTypeOK
  <2>a. p \in Players /\ q \in Players /\ p \in Active(rows) /\ q \in Active(rows')
    BY DEF Active, WithStatus
  \* The steps that change neither places nor who waits.
  <2>b. ASSUME q \in WithStatus(rows, "waiting"),
               rows'[p].at = rows[p].at, rows'[q].at = rows[q].at
        PROVE  Before(rows', p, q)
    <3>1. p # q /\ ~Before(rows, q, p)
      BY <2>a, <2>b DEF WithStatus, Active
    <3> QED
      BY <2>a, <2>b, <3>1, KeepingTimesKeepsOrder
  <2>1. ASSUME NEW x \in Players, NEW op \in OperationIds, Enlist(x, op)
        PROVE  Before(rows', p, q)
    <3>1. PICK now \in Times, time \in Times :
            IsQueueTime(rows, now, time) /\ rows' = EnlistRow(rows, x, op, time)
      BY <2>1 DEF Enlist
    <3>2. p # x /\ rows[p].at < time
      BY <2>1, <2>a, <3>1 DEF Enlist, IsQueueTime
    <3>3. rows'[p] = rows[p] /\ (q # x => rows'[q] = rows[q])
      BY <2>a, <3>1, <3>2 DEF EnlistRow, Rows
    <3>4. CASE q = x
      BY <2>a, <3>1, <3>2, <3>3, <3>4 DEF EnlistRow, Before, Rows
    <3>5. CASE q # x
      BY <2>a, <2>b, <3>3, <3>5 DEF WithStatus
    <3> QED
      BY <3>4, <3>5
  <2>2. ASSUME NEW x \in Players, NEW op \in OperationIds,
               Confirm(x, op) \/ Cancel(x, op) \/ Touch(x, op)
        PROVE  Before(rows', p, q)
    <3>1. \A y \in Players : rows'[y].at = rows[y].at
      BY <2>2 DEF Confirm, Cancel, Touch, ConfirmRow, CancelRow, TouchRow, Update, Rows, Row
    <3>2. rows'[q].status = "waiting" => rows[q].status = "waiting"
      BY <2>2, <2>a DEF Confirm, Cancel, Touch, ConfirmRow, CancelRow, TouchRow, Update, Rows, Row
    <3> QED
      BY <2>a, <2>b, <3>1, <3>2 DEF WithStatus
  <2>3. ASSUME NEW x \in Players, DropRow(x) PROVE Before(rows', p, q)
    <3>1. \A y \in Players : y # x => rows'[y] = rows[y]
      BY <2>3 DEF DropRow, Rows
    <3>2. rows'[x].status = "none"
      BY <2>3 DEF DropRow, NoRow, Rows
    <3> QED
      BY <2>a, <2>b, <3>1, <3>2 DEF Active, WithStatus
  <2>4. CASE Sift
    <3>1. PICK shift \in Times : IsShift(rows, shift) /\ rows' = SiftRows(rows, shift)
      BY <2>4 DEF Sift
    <3>2. \A y \in Players :
            /\ rows'[y].status = rows[y].status
            /\ rows'[y].at =
                IF rows[y].status = "waiting" THEN rows[y].at + shift ELSE rows[y].at
      BY <3>1 DEF SiftRows, Rows, Row
    <3>3. rows[p].at < rows[q].at + shift
      BY <2>a, <3>1, <3>2 DEF IsShift, Active
    <3> QED
      BY <2>a, <3>2, <3>3 DEF Before, WithStatus
  <2>5. ASSUME NEW x \in Players, NEW y \in Players, NEW op \in OperationIds, Swap(x, y, op)
        PROVE  Before(rows', p, q)
    <3>1. /\ IsSwap(rows, amount, x, y)
          /\ rows[x].op # op /\ rows[y].op # op
          /\ rows' = SwapRows(rows, op, x, rows[x].at, y, rows[y].at)
      BY <2>5 DEF Swap
    <3>2. x # y /\ rows[x].status # "none" /\ rows[y].status # "none"
      BY <3>1 DEF IsSwap
    <3>3. \A z \in Players : rows'[z].status = rows[z].status
      BY <3>1, <3>2, SwapExchanges
    <3>4. q \in Active(rows) /\ rows[q].status = "waiting" /\ p # q
      BY <2>a, <3>3 DEF Active, WithStatus
    <3>5. Before(rows, p, q)
      BY <2>a, <3>4, QueueIsLinear
    <3> QED
      BY <2>a, <3>1, <3>4, <3>5, SwapOvertakesNobody
  <2>6. CASE SetAmount
    BY <2>6, <2>a, <2>b DEF SetAmount
  <2>7. CASE DeleteEvent
    BY <2>7, <2>a DEF DeleteEvent, NoRow, Active
  <2> QED
    BY <2>1, <2>2, <2>3, <2>4, <2>5, <2>6, <2>7 DEF RosterNext
<1> QED
  BY <1>1, RosterTypeCorrect, PTL DEF RosterSpec, ConfirmedNeverOvertaken

-----------------------------------------------------------------------------
\* A confirmed player of the main roster stays in it while the registration
\* is active and the capacity is not lowered.
THEOREM KeepsMainPlace == RosterSpec => ConfirmedKeepsMainPlace
<1> USE RowsAssumption, RosterAssumption
<1>1. RosterTypeOK /\ RosterTypeOK' /\ QueueTimesDistinct /\ [RosterNext]_rosterVars => [NobodyFallsOut]_rosterVars
  <2> SUFFICES ASSUME RosterTypeOK, RosterTypeOK', DistinctTimes(rows), RosterNext,
                      NEW p \in MainRoster(rows, amount),
                      rows[p].status = "confirmed", p \in Active(rows'), amount' >= amount
               PROVE  p \in MainRoster(rows', amount')
    BY DEF NobodyFallsOut, QueueTimesDistinct
  <2> USE DEF RosterTypeOK
  <2>a. p \in Players /\ p \in Active(rows) /\ Position(rows, p) < amount
    BY DEF MainRoster, Active
  <2>b. SUFFICES Position(rows', p) <= Position(rows, p)
    <3>1. Position(rows', p) \in Nat /\ Position(rows, p) \in Nat
      BY PositionIsNat
    <3> QED
      BY <2>a, <2>b, <3>1 DEF MainRoster
  \* The steps in which players leave, or change status, where they are.
  <2>c. ASSUME Active(rows') \subseteq Active(rows),
               \A q \in Active(rows') : rows'[q].at = rows[q].at
        PROVE  Position(rows', p) <= Position(rows, p)
    <3>1. Ahead(rows', p) \subseteq Ahead(rows, p)
      BY <2>c DEF Ahead, Before
    <3> QED
      BY <3>1, FewerAhead
  <2>1. ASSUME NEW x \in Players, NEW op \in OperationIds, Enlist(x, op)
        PROVE  Position(rows', p) <= Position(rows, p)
    <3>1. PICK now \in Times, time \in Times :
            IsQueueTime(rows, now, time) /\ rows' = EnlistRow(rows, x, op, time)
      BY <2>1 DEF Enlist
    <3>2. p # x /\ rows[p].at < time
      BY <2>1, <2>a, <3>1 DEF Enlist, IsQueueTime
    <3>3. \A q \in Players \ {x} : rows'[q] = rows[q]
      BY <3>1 DEF EnlistRow, Rows
    <3>4. rows'[x].at = time /\ time \in Nat
      BY <3>1 DEF EnlistRow, Rows
    <3>5. rows[p].at \in Nat
      BY <2>a DEF Rows, Row
    <3>6. ~Before(rows', x, p)
      BY <2>a, <3>2, <3>3, <3>4, <3>5 DEF Before
    <3>7. \A q \in Ahead(rows', p) : q # x /\ q \in Players
      BY <3>6 DEF Ahead, Active
    <3>8. \A q \in Players \ {x} : q \in Ahead(rows', p) => q \in Ahead(rows, p)
      BY <2>a, <3>2, <3>3 DEF Ahead, Before, Active
    <3>9. Ahead(rows', p) \subseteq Ahead(rows, p)
      BY <3>7, <3>8
    <3> QED
      BY <3>9, FewerAhead
  <2>2. ASSUME NEW x \in Players, NEW op \in OperationIds,
               Confirm(x, op) \/ Cancel(x, op) \/ Touch(x, op)
        PROVE  Position(rows', p) <= Position(rows, p)
    <3>1. \A y \in Players : rows'[y].at = rows[y].at
      BY <2>2 DEF Confirm, Cancel, Touch, ConfirmRow, CancelRow, TouchRow, Update, Rows, Row
    <3>2. Active(rows') \subseteq Active(rows)
      <4>1. \A y \in Players \ {x} : rows'[y].status = rows[y].status
        BY <2>2 DEF Confirm, Cancel, Touch, ConfirmRow, CancelRow, TouchRow, Update, Rows, Row
      <4>2. CASE Confirm(x, op) \/ Touch(x, op)
        BY <4>1, <4>2 DEF Confirm, Touch, Active
      <4>3. CASE Cancel(x, op)
        <5>1. x \in Active(rows') => x \in Active(rows)
          BY <4>3 DEF Cancel, CancelRow, Update, Active, Rows, Row
        <5> QED
          BY <4>1, <5>1 DEF Active
      <4> QED
        BY <2>2, <4>2, <4>3
    <3> QED
      BY <2>c, <3>1, <3>2 DEF Active
  <2>3. ASSUME NEW x \in Players, DropRow(x) PROVE Position(rows', p) <= Position(rows, p)
    <3>1. \A y \in Players : y # x => rows'[y] = rows[y]
      BY <2>3 DEF DropRow, Rows
    <3>2. rows'[x].status = "none"
      BY <2>3 DEF DropRow, NoRow, Rows
    <3>3. Active(rows') \subseteq Active(rows) /\ \A y \in Active(rows') : rows'[y].at = rows[y].at
      BY <3>1, <3>2 DEF Active
    <3> QED
      BY <2>c, <3>3
  <2>4. CASE Sift
    <3>1. PICK shift \in Times : IsShift(rows, shift) /\ rows' = SiftRows(rows, shift)
      BY <2>4 DEF Sift
    <3>2. \A y \in Players :
            /\ rows'[y].status = rows[y].status
            /\ rows[y].at \in Nat
            /\ rows'[y].at =
                IF rows[y].status = "waiting" THEN rows[y].at + shift ELSE rows[y].at
      BY <3>1 DEF SiftRows, Rows, Row
    <3>3. \A q \in Active(rows') : q \in Active(rows) /\ q \in Players
      BY <3>2 DEF Active
    <3>4. \A q \in Active(rows) : rows[p].at < rows[q].at + shift
      BY <2>a, <3>1 DEF IsShift
    <3>5. \A q \in Active(rows') : Before(rows', q, p) => Before(rows, q, p)
      BY <2>a, <3>2, <3>3, <3>4 DEF Before
    <3>6. Ahead(rows', p) \subseteq Ahead(rows, p)
      BY <3>3, <3>5 DEF Ahead
    <3> QED
      BY <3>6, FewerAhead
  <2>5. ASSUME NEW x \in Players, NEW y \in Players, NEW op \in OperationIds, Swap(x, y, op)
        PROVE  Position(rows', p) <= Position(rows, p)
    BY <2>5, SwapKeepsPosition DEF Swap
  <2>6. CASE SetAmount
    BY <2>6, <2>c DEF SetAmount
  <2>7. CASE DeleteEvent
    BY <2>7, <2>a DEF DeleteEvent, NoRow, Active
  <2> QED
    BY <2>1, <2>2, <2>3, <2>4, <2>5, <2>6, <2>7 DEF RosterNext
<1> QED
  BY <1>1, RosterTypeCorrect, PlacesDistinct, PTL DEF RosterSpec, ConfirmedKeepsMainPlace

-----------------------------------------------------------------------------
(***************************************************************************)
(* The queue of commands                                                   *)
(***************************************************************************)
\* What is queued: commands of the group that were accepted, each once.
QueuesOK ==
    \A g \in Groups :
        /\ \A i \in DOMAIN fifo[g] : GroupOf[fifo[g][i]] = g /\ fifo[g][i] \in seen
        /\ \A i, j \in DOMAIN fifo[g] : fifo[g][i] = fifo[g][j] => i = j

\* Two workers never hold messages of one group.
OneReceiver ==
    \A c, d \in Commands :
        GroupOf[c] = GroupOf[d] /\ lease[c] \in Workers /\ lease[d] \in Workers => lease[c] = lease[d]

\* A worker holds the messages that it has still to try.
BatchHeld ==
    \A w \in Workers :
        LET b == worker[w].batch IN
        /\ \A i \in DOMAIN b : lease[b[i]] = w
        /\ \A i, j \in DOMAIN b : b[i] = b[j] => i = j

\* A worker that is about to try q[l] has all that is before it in its batch,
\* before its place i.
FrontOf(q, b, i) ==
    \E l \in DOMAIN q : q[l] = b[i] /\ \A m \in 1 .. l - 1 : \E k \in 1 .. i - 1 : b[k] = q[m]

\* Of a group in which nothing failed, the batch of a worker is the front.
BatchIsFront ==
    \A w \in Workers : \A i \in DOMAIN worker[w].batch :
        LET b == worker[w].batch
            g == GroupOf[b[i]]
        IN  g \notin worker[w].failedGroups => FrontOf(fifo[g], b, i)

\* Commands are tried in the loop over a batch only, and not after a failure.
PhasesOK ==
    \A w \in Workers :
        /\ worker[w].phase # "batch" => worker[w].batch = <<>>
        /\ worker[w].running => MayStart(w)
        /\ worker[w].phase # "idle" => worker[w].kicks > 0

\* A wake-up that is not about to be deleted.
WakeupLeft ==
    Backlog # {} =>
        \/ kicks > 0
        \/ \E w \in Workers : worker[w].phase \notin {"idle", "acknowledge"}
        \/ \E c \in seen : progress[c] # "kicked"

\* The inductive invariant.
OrderInv == TypeOK /\ QueuesOK /\ OneReceiver /\ BatchHeld /\ BatchIsFront /\ PhasesOK

IInv == OrderInv /\ WakeupLeft

-----------------------------------------------------------------------------
(***************************************************************************)
(* Queues and batches                                                      *)
(***************************************************************************)

\* What is tried first is the first of its group.
LEMMA FirstIsHead ==
    ASSUME NEW S, NEW q \in Seq(S), NEW b \in Seq(S), b # <<>>, FrontOf(q, b, 1)
    PROVE  q # <<>> /\ Head(q) = Head(b)
<1>1. PICK l \in DOMAIN q : q[l] = b[1] /\ \A m \in 1 .. l - 1 : \E k \in 1 .. 1 - 1 : b[k] = q[m]
  BY DEF FrontOf
<1>2. l \in 1 .. Len(q)
  OBVIOUS
<1>3. l = 1
  <2> SUFFICES ASSUME l # 1 PROVE FALSE
    OBVIOUS
  <2>1. 1 \in 1 .. l - 1
    BY <1>2
  <2> QED
    BY <1>1, <2>1
<1> QED
  BY <1>1, <1>2, <1>3

\* A new message is behind what a worker has.
LEMMA FrontAfterAppend ==
    ASSUME NEW S, NEW q \in Seq(S), NEW c \in S, NEW b, NEW i, FrontOf(q, b, i)
    PROVE  FrontOf(Append(q, c), b, i)
<1>1. PICK l \in DOMAIN q : q[l] = b[i] /\ \A m \in 1 .. l - 1 : \E k \in 1 .. i - 1 : b[k] = q[m]
  BY DEF FrontOf
<1>2. /\ l \in 1 .. Len(q) /\ Len(q) \in Nat
      /\ DOMAIN Append(q, c) = 1 .. Len(q) + 1
      /\ \A m \in 1 .. Len(q) : Append(q, c)[m] = q[m]
  BY AppendProperties
<1>3. l \in DOMAIN Append(q, c) /\ Append(q, c)[l] = b[i]
  BY <1>1, <1>2
<1>4. \A m \in 1 .. l - 1 : Append(q, c)[m] = q[m]
  BY <1>2
<1> QED
  BY <1>1, <1>3, <1>4 DEF FrontOf

\* When a command is dropped from a batch, the other groups keep their front.
LEMMA FrontWithoutOther ==
    ASSUME NEW S, NEW q \in Seq(S), NEW b \in Seq(S), b # <<>>,
           NEW i \in DOMAIN Tail(b), FrontOf(q, b, i + 1),
           \A m \in DOMAIN q : q[m] # Head(b)
    PROVE  FrontOf(q, Tail(b), i)
<1>1. PICK l \in DOMAIN q :
          q[l] = b[i + 1] /\ \A m \in 1 .. l - 1 : \E k \in 1 .. (i + 1) - 1 : b[k] = q[m]
  BY DEF FrontOf
<1>2. /\ Len(b) \in Nat /\ Len(q) \in Nat /\ DOMAIN q = 1 .. Len(q) /\ Head(b) = b[1]
      /\ DOMAIN Tail(b) = 1 .. Len(b) - 1 /\ \A k \in 1 .. Len(b) - 1 : Tail(b)[k] = b[k + 1]
  BY HeadTailProperties
<1>3. ASSUME NEW m \in 1 .. l - 1
      PROVE  \E k \in 1 .. i - 1 : Tail(b)[k] = q[m]
  <2>1. PICK k \in 1 .. (i + 1) - 1 : b[k] = q[m]
    BY <1>1
  <2>2. m \in DOMAIN q
    BY <1>2
  <2>3. k # 1
    BY <1>2, <2>1, <2>2
  <2>4. k - 1 \in 1 .. i - 1 /\ k - 1 \in 1 .. Len(b) - 1 /\ (k - 1) + 1 = k
    BY <1>2, <2>3
  <2> QED
    BY <1>2, <2>1, <2>4
<1>4. q[l] = Tail(b)[i]
  BY <1>1, <1>2
<1> QED
  BY <1>3, <1>4 DEF FrontOf

\* When the first command of a group is done, what follows is in front.
LEMMA FrontWithoutFirst ==
    ASSUME NEW S, NEW q \in Seq(S), NEW b \in Seq(S), q # <<>>, b # <<>>, Head(q) = Head(b),
           \A l, m \in DOMAIN q : q[l] = q[m] => l = m,
           \A l, m \in DOMAIN b : b[l] = b[m] => l = m,
           NEW i \in DOMAIN Tail(b), FrontOf(q, b, i + 1)
    PROVE  FrontOf(Tail(q), Tail(b), i)
<1>1. PICK l \in DOMAIN q :
          q[l] = b[i + 1] /\ \A m \in 1 .. l - 1 : \E k \in 1 .. (i + 1) - 1 : b[k] = q[m]
  BY DEF FrontOf
<1>2. /\ Len(b) \in Nat /\ Len(q) \in Nat /\ DOMAIN q = 1 .. Len(q) /\ DOMAIN b = 1 .. Len(b)
      /\ Head(b) = b[1] /\ Head(q) = q[1]
      /\ DOMAIN Tail(b) = 1 .. Len(b) - 1 /\ \A k \in 1 .. Len(b) - 1 : Tail(b)[k] = b[k + 1]
      /\ DOMAIN Tail(q) = 1 .. Len(q) - 1 /\ \A k \in 1 .. Len(q) - 1 : Tail(q)[k] = q[k + 1]
  BY HeadTailProperties
<1>3. 1 \in DOMAIN b /\ i + 1 \in DOMAIN b /\ i + 1 # 1 /\ l \in 1 .. Len(q)
  BY <1>2
<1>4. l # 1
  BY <1>1, <1>2, <1>3
<1>5. l - 1 \in DOMAIN Tail(q) /\ Tail(q)[l - 1] = Tail(b)[i]
  <2>1. l - 1 \in 1 .. Len(q) - 1 /\ (l - 1) + 1 = l
    BY <1>2, <1>3, <1>4
  <2> QED
    BY <1>1, <1>2, <2>1
<1>6. ASSUME NEW m \in 1 .. (l - 1) - 1
      PROVE  \E k \in 1 .. i - 1 : Tail(b)[k] = Tail(q)[m]
  <2>1. m + 1 \in 1 .. l - 1 /\ m \in 1 .. Len(q) - 1 /\ m + 1 \in DOMAIN q /\ 1 \in DOMAIN q
    BY <1>2, <1>3, <1>4
  <2>2. PICK k \in 1 .. (i + 1) - 1 : b[k] = q[m + 1]
    BY <1>1, <2>1
  <2>3. m + 1 # 1 /\ q[m + 1] # q[1]
    BY <2>1, SMTT(30)
  <2>4. k # 1
    BY <1>2, <2>2, <2>3
  <2>5. k - 1 \in 1 .. i - 1 /\ k - 1 \in 1 .. Len(b) - 1 /\ (k - 1) + 1 = k
    BY <1>2, <2>4
  <2> QED
    BY <1>2, <2>1, <2>2, <2>5
<1> QED
  BY <1>5, <1>6 DEF FrontOf

\* What is left of a sequence of distinct elements without the first one.
LEMMA TailElements ==
    ASSUME NEW S, NEW q \in Seq(S), q # <<>>,
           \A i, j \in DOMAIN q : q[i] = q[j] => i = j
    PROVE  /\ Tail(q) \in Seq(S)
           /\ \A i \in DOMAIN Tail(q) : Tail(q)[i] # Head(q)
           /\ \A i \in DOMAIN Tail(q) : \E j \in DOMAIN q : Tail(q)[i] = q[j]
           /\ \A i, j \in DOMAIN Tail(q) : Tail(q)[i] = Tail(q)[j] => i = j
<1>1. /\ Len(q) \in Nat \ {0} /\ DOMAIN q = 1 .. Len(q) /\ Head(q) = q[1] /\ Tail(q) \in Seq(S)
      /\ DOMAIN Tail(q) = 1 .. Len(q) - 1 /\ \A k \in 1 .. Len(q) - 1 : Tail(q)[k] = q[k + 1]
  BY HeadTailProperties, EmptySeq
<1>2. \A i \in DOMAIN Tail(q) : i + 1 \in DOMAIN q /\ Tail(q)[i] = q[i + 1]
  BY <1>1
<1>3. ASSUME NEW i \in DOMAIN Tail(q), NEW j \in DOMAIN Tail(q), Tail(q)[i] = Tail(q)[j]
      PROVE  i = j
  <2>1. i + 1 = j + 1
    BY <1>2, <1>3
  <2> QED
    BY <1>1, <2>1
<1>4. ASSUME NEW i \in DOMAIN Tail(q)
      PROVE  Tail(q)[i] # Head(q)
  <2>1. i + 1 # 1 /\ 1 \in DOMAIN q /\ i + 1 \in DOMAIN q
    BY <1>1, <1>2
  <2> QED
    BY <1>1, <1>2, <2>1
<1> QED
  BY <1>1, <1>2, <1>3, <1>4

\* Deleting the first message of a group leaves the rest.
LEMMA DeletedFirst ==
    ASSUME NEW S, NEW q \in Seq(S), q # <<>>,
           \A l, m \in DOMAIN q : q[l] = q[m] => l = m
    PROVE  Deleted(q, Head(q)) = Tail(q)
<1>1. DOMAIN q = 1 .. Len(q) /\ Len(q) \in Nat \ {0} /\ 1 \in DOMAIN q /\ Head(q) = q[1]
  BY EmptySeq
<1>2. (CHOOSE i \in DOMAIN q : q[i] = Head(q)) = 1
  BY <1>1
<1>3. Deleted(q, Head(q)) = SubSeq(q, 1, 0) \o SubSeq(q, 2, Len(q))
  BY <1>1, <1>2 DEF Deleted, RemoveAt
<1>4. SubSeq(q, 1, 0) = <<>> /\ SubSeq(q, 2, Len(q)) = Tail(q) /\ Tail(q) \in Seq(S)
  BY SubSeqEmpty, TailIsSubSeq, HeadTailProperties
<1> QED
  BY <1>3, <1>4, ConcatEmptySeq

-----------------------------------------------------------------------------
(***************************************************************************)
(* Deliveries                                                              *)
(***************************************************************************)

\* An order of a delivery contains each of its messages once.
LEMMA OrderOfDelivery ==
    ASSUME NEW S \in SUBSET Commands, IsFiniteSet(S), NEW s \in Orders(S)
    PROVE  /\ s \in Seq(Commands)
           /\ \A i \in DOMAIN s : s[i] \in S
           /\ \A i, j \in DOMAIN s : s[i] = s[j] => i = j
           /\ \A c \in S : \E i \in DOMAIN s : s[i] = c
<1> DEFINE n == Cardinality(S)
<1>1. n \in Nat
  BY FS_CardinalityType
<1>2. s \in [1 .. n -> S] /\ \A i, j \in 1 .. n : i # j => s[i] # s[j]
  BY DEF Orders, SetToSeqs
<1>3. s \in Injection(1 .. n, S)
  BY <1>2 DEF Injection, IsInjective
<1>4. Cardinality(1 .. n) = n
  BY <1>1, FS_Interval
<1>5. s \in Surjection(1 .. n, S)
  BY <1>3, <1>4, FS_Injection
<1> HIDE DEF n
<1>6. s \in Seq(Commands)
  BY <1>1, <1>2
<1> QED
  BY <1>2, <1>5, <1>6 DEF Surjection

\* A delivery takes the front of groups of which nobody holds anything.
LEMMA DeliveryFromFront ==
    ASSUME TypeOK, QueuesOK, NEW S \in Deliveries, NEW c \in S
    PROVE  /\ ~Blocked(GroupOf[c])
           /\ \E l \in DOMAIN fifo[GroupOf[c]] :
                  fifo[GroupOf[c]][l] = c /\ \A m \in 1 .. l - 1 : fifo[GroupOf[c]][m] \in S
<1> DEFINE available == {g \in Groups : fifo[g] # <<>> /\ ~Blocked(g)}
           messages(n) == UNION {{fifo[g][i] : i \in 1 .. n[g]} : g \in available}
<1>1. PICK n \in [available -> 0 .. BatchSize] :
          (\A g \in available : n[g] <= Len(fifo[g])) /\ S = messages(n)
  BY DEF Deliveries
<1>2. PICK g \in available : \E i \in 1 .. n[g] : c = fifo[g][i]
  BY <1>1
<1>3. PICK i \in 1 .. n[g] : c = fifo[g][i]
  BY <1>2
<1>4. /\ g \in Groups /\ ~Blocked(g) /\ fifo[g] \in Seq(Commands)
      /\ n[g] \in 0 .. BatchSize /\ n[g] <= Len(fifo[g]) /\ Len(fifo[g]) \in Nat
  BY <1>1, <1>2, OrderedQueueAssumption DEF TypeOK
<1>5. i \in DOMAIN fifo[g] /\ GroupOf[c] = g
  BY <1>3, <1>4, OrderedQueueAssumption DEF QueuesOK
<1>6. \A m \in 1 .. i - 1 : m \in 1 .. n[g]
  BY <1>3, <1>4, OrderedQueueAssumption
<1>7. \A m \in 1 .. i - 1 : fifo[g][m] \in S
  BY <1>1, <1>2, <1>6
<1> QED
  BY <1>3, <1>4, <1>5, <1>7

\* Received in any order, it is the front of every group.
LEMMA OrderIsFront ==
    ASSUME TypeOK, QueuesOK, NEW S \in Deliveries, NEW s \in Orders(S), NEW i \in DOMAIN s
    PROVE  FrontOf(fifo[GroupOf[s[i]]], s, i)
<1> DEFINE g == GroupOf[s[i]]
           q == fifo[g]
<1>1. S \in SUBSET Commands /\ IsFiniteSet(S)
  BY DEF Deliveries
<1>2. /\ s \in Seq(Commands) /\ s[i] \in S
      /\ \A c \in S : \E k \in DOMAIN s : s[k] = c
  BY <1>1, OrderOfDelivery
<1>3. PICK l \in DOMAIN q : q[l] = s[i] /\ \A m \in 1 .. l - 1 : q[m] \in S
  BY <1>2, DeliveryFromFront
<1>4. g \in Groups /\ q \in Seq(Commands) /\ \A k, m \in DOMAIN q : q[k] = q[m] => k = m
  BY <1>1, <1>2, OrderedQueueAssumption DEF TypeOK, QueuesOK
<1>5. ASSUME NEW m \in 1 .. l - 1
      PROVE  \E k \in 1 .. i - 1 : s[k] = q[m]
  <2>1. PICK k \in DOMAIN s : s[k] = q[m]
    BY <1>2, <1>3
  <2>2. l \in 1 .. Len(q) /\ m \in DOMAIN q /\ m < l /\ k \in 1 .. Len(s) /\ i \in 1 .. Len(s)
    BY <1>2, <1>4
  <2>3. GroupOf[q[m]] = g
    BY <1>4, <2>2 DEF QueuesOK
  <2>4. k # i
    BY <1>3, <1>4, <2>1, <2>2
  <2>5. ASSUME i < k PROVE FALSE
    <3>1. \E x, y \in DOMAIN q : x < y /\ q[x] = s[i] /\ q[y] = s[k]
      BY <2>1, <2>3, <2>5 DEF Orders
    <3>2. PICK x \in DOMAIN q, y \in DOMAIN q : x < y /\ q[x] = s[i] /\ q[y] = s[k]
      BY <3>1
    <3>3. x = l /\ y = m
      BY <1>3, <1>4, <2>1, <2>2, <3>2
    <3> QED
      BY <2>2, <3>2, <3>3
  <2>6. k \in 1 .. i - 1
    BY <2>2, <2>4, <2>5
  <2> QED
    BY <2>1, <2>6
<1> QED
  BY <1>3, <1>5 DEF FrontOf

-----------------------------------------------------------------------------
(***************************************************************************)
(* Steps and the order of groups                                           *)
(***************************************************************************)

\* The state of worker w becomes the given one, the others stay.
Becomes(w, phase, batch, running, failed) ==
    /\ worker' \in [Workers -> Worker]
    /\ worker'[w].phase = phase /\ worker'[w].batch = batch
    /\ worker'[w].running = running /\ worker'[w].failedGroups = failed
    /\ \A v \in Workers \ {w} : worker'[v] = worker[v]

\* A step to another phase changes nothing else of a worker.
LEMMA BecomeEffect ==
    ASSUME TypeOK, NEW w \in Workers, NEW p \in Phases, Become(w, p)
    PROVE  /\ Becomes(w, p, worker[w].batch, worker[w].running, worker[w].failedGroups)
           /\ worker'[w].kicks = worker[w].kicks
BY DEF TypeOK, Become, Becomes, Worker

\* The end of an invocation.
LEMMA IdleEffect ==
    ASSUME TypeOK, NEW w \in Workers, worker' = [worker EXCEPT ![w] = Idle]
    PROVE  Becomes(w, "idle", <<>>, FALSE, {})
<1>1. Idle \in Worker
  BY EmptySeq DEF Idle, Worker, Phases
<1> QED
  BY <1>1 DEF TypeOK, Becomes, Idle

\* Most steps leave the queues alone; of a batch they keep everything or nothing,
\* and they give messages back only of what no batch has.
LEMMA QuietStep ==
    ASSUME OrderInv, TypeOK', UNCHANGED fifo, seen \subseteq seen',
           \A v \in Workers :
               \/ worker'[v].batch = <<>>
               \/ worker'[v].batch = worker[v].batch /\ worker[v].failedGroups \subseteq worker'[v].failedGroups,
           \A c \in Commands :
               \/ lease'[c] = lease[c]
               \/ lease'[c] \notin Workers /\ (lease[c] \in Workers => worker'[lease[c]].batch = <<>>)
    PROVE  QueuesOK' /\ OneReceiver' /\ BatchHeld' /\ BatchIsFront'
<1>1. QueuesOK'
  BY DEF OrderInv, QueuesOK
<1>2. OneReceiver'
  BY DEF OrderInv, OneReceiver
<1>3. BatchHeld'
  <2> SUFFICES ASSUME NEW w \in Workers
               PROVE  /\ \A i \in DOMAIN worker'[w].batch : lease'[worker'[w].batch[i]] = w
                      /\ \A i, j \in DOMAIN worker'[w].batch :
                             worker'[w].batch[i] = worker'[w].batch[j] => i = j
    BY DEF BatchHeld
  <2>1. CASE worker'[w].batch = <<>>
    BY <2>1
  <2>2. CASE worker'[w].batch = worker[w].batch /\ worker'[w].batch # <<>>
    <3>1. worker[w].batch \in Seq(Commands)
      BY DEF OrderInv, TypeOK, Worker
    <3>2. \A i \in DOMAIN worker[w].batch : worker[w].batch[i] \in Commands /\ lease[worker[w].batch[i]] = w
      BY <3>1 DEF OrderInv, BatchHeld
    <3> QED
      BY <2>2, <3>2 DEF OrderInv, BatchHeld
  <2> QED
    BY <2>1, <2>2
<1>4. BatchIsFront'
  BY DEF OrderInv, BatchIsFront
<1> QED
  BY <1>1, <1>2, <1>3, <1>4

\* Publishers.
LEMMA PublishStep ==
    ASSUME OrderInv, NEW c \in Commands, SendCommand(c) \/ SendKick(c) \/ PublishFails(c)
    PROVE  OrderInv'
<1>1. progress' \in [Commands -> {"new", "durable", "kicked"}] /\ failures' \in 0 .. MaxFailures /\ kicks' \in Nat
  <2>1. progress' \in [Commands -> {"new", "durable", "kicked"}]
    BY DEF OrderInv, TypeOK, SendCommand, SendKick, PublishFails
  <2>2. failures' \in 0 .. MaxFailures
    BY OrderedQueueAssumption DEF OrderInv, TypeOK, SendCommand, SendKick, PublishFails, Fails
  <2>3. kicks' \in Nat
    BY DEF OrderInv, TypeOK, SendCommand, SendKick, PublishFails
  <2> QED
    BY <2>1, <2>2, <2>3
<1>2. UNCHANGED <<lease, worker>>
  BY DEF SendCommand, SendKick, PublishFails
<1>3. PhasesOK'
  BY <1>2 DEF OrderInv, PhasesOK, MayStart, NextCommand
<1>4. CASE SendCommand(c) /\ c \notin seen
  <2> DEFINE g == GroupOf[c]
  <2>1. g \in Groups /\ fifo[g] \in Seq(Commands) /\ fifo \in [Groups -> Seq(Commands)]
    BY OrderedQueueAssumption DEF OrderInv, TypeOK
  <2>2. fifo' = [fifo EXCEPT ![g] = Append(@, c)] /\ seen' = seen \cup {c}
    BY <1>4 DEF SendCommand, AppendOnce
  <2>3. /\ fifo'[g] = Append(fifo[g], c) /\ \A h \in Groups \ {g} : fifo'[h] = fifo[h]
        /\ fifo' \in [Groups -> Seq(Commands)]
    BY <2>1, <2>2, AppendProperties
  <2>4. /\ DOMAIN fifo'[g] = 1 .. Len(fifo[g]) + 1 /\ DOMAIN fifo[g] = 1 .. Len(fifo[g])
        /\ Len(fifo[g]) \in Nat
        /\ \A m \in 1 .. Len(fifo[g]) : fifo'[g][m] = fifo[g][m]
        /\ fifo'[g][Len(fifo[g]) + 1] = c
    BY <2>1, <2>3, AppendProperties
  <2>5. TypeOK'
    BY <1>1, <1>2, <2>2, <2>3 DEF OrderInv, TypeOK
  <2>6. QueuesOK'
    <3>1. \A i \in DOMAIN fifo[g] : GroupOf[fifo[g][i]] = g /\ fifo[g][i] \in seen
      BY <2>1 DEF OrderInv, QueuesOK
    <3>2. \A i, j \in DOMAIN fifo[g] : fifo[g][i] = fifo[g][j] => i = j
      BY <2>1 DEF OrderInv, QueuesOK
    <3>3. /\ \A i \in DOMAIN fifo'[g] : GroupOf[fifo'[g][i]] = g /\ fifo'[g][i] \in seen'
          /\ \A i, j \in DOMAIN fifo'[g] : fifo'[g][i] = fifo'[g][j] => i = j
      <4>1. \A i \in DOMAIN fifo'[g] : i \in DOMAIN fifo[g] \/ i = Len(fifo[g]) + 1
        BY <2>4
      <4> QED
        BY <1>4, <2>2, <2>4, <3>1, <3>2, <4>1
    <3> QED
      BY <2>2, <2>3, <3>3 DEF OrderInv, QueuesOK
  <2>7. OneReceiver' /\ BatchHeld'
    BY <1>2 DEF OrderInv, OneReceiver, BatchHeld
  <2>8. BatchIsFront'
    <3>1. \A b, i : FrontOf(fifo[g], b, i) => FrontOf(fifo'[g], b, i)
      BY <2>1, <2>3, FrontAfterAppend
    <3>2. \A w \in Workers : \A i \in DOMAIN worker[w].batch : GroupOf[worker[w].batch[i]] \in Groups
      BY OrderedQueueAssumption DEF OrderInv, TypeOK, Worker
    <3> QED
      BY <1>2, <2>3, <3>1, <3>2 DEF OrderInv, BatchIsFront
  <2> QED
    BY <1>3, <2>5, <2>6, <2>7, <2>8 DEF OrderInv
<1>5. CASE ~(SendCommand(c) /\ c \notin seen)
  <2>1. UNCHANGED fifo /\ seen' = seen
    BY <1>5 DEF SendCommand, AppendOnce, SendKick, PublishFails
  <2>2. TypeOK'
    BY <1>1, <1>2, <2>1 DEF OrderInv, TypeOK
  <2> QED
    BY <1>2, <1>3, <2>1, <2>2, QuietStep DEF OrderInv
<1> QED
  BY <1>4, <1>5

\* Steps of an invocation outside the loop over a batch.
LEMMA OutsideStep ==
    ASSUME OrderInv, NEW w \in Workers,
           Invoke(w) \/ StopDraining(w) \/ EndBatch(w) \/ Count(w) \/ Wake(w) \/ Acknowledge(w) \/ EndRun(w)
    PROVE  OrderInv'
<1>1. UNCHANGED <<progress, seen, fifo, lease>> /\ failures' \in 0 .. MaxFailures
  BY OrderedQueueAssumption DEF OrderInv, TypeOK, Invoke, StopDraining, EndBatch, Count, Wake, Acknowledge,
     EndRun, Fails
<1>2. worker[w] \in Worker /\ worker[w].batch = <<>> /\ ~worker[w].running
  <2>1. worker[w] \in Worker
    BY DEF OrderInv, TypeOK
  <2>2. worker[w].batch = <<>>
    BY DEF OrderInv, PhasesOK, Invoke, StopDraining, EndBatch, Count, Wake, Acknowledge, EndRun
  <2> QED
    BY <2>1, <2>2 DEF OrderInv, TypeOK
<1>3. /\ worker' \in [Workers -> Worker] /\ \A v \in Workers \ {w} : worker'[v] = worker[v]
      /\ worker'[w].batch = <<>> /\ worker'[w].running = FALSE
      /\ worker'[w].phase # "idle" => worker'[w].kicks > 0
      /\ kicks' \in Nat
  <2>1. CASE Invoke(w)
    <3>1. PICK n \in 1 .. TriggerBatch :
              n <= kicks /\ kicks' = kicks - n
              /\ worker' = [worker EXCEPT ![w].phase = "receive", ![w].kicks = n]
      BY <2>1 DEF Invoke
    <3>2. n \in Nat /\ n > 0 /\ kicks' \in Nat
      BY <3>1, OrderedQueueAssumption DEF OrderInv, TypeOK
    <3>3. worker'[w].kicks = n
      BY <1>2, <3>1 DEF OrderInv, TypeOK, Worker
    <3>4. worker' \in [Workers -> Worker] /\ \A v \in Workers \ {w} : worker'[v] = worker[v]
      <4>1. [worker[w] EXCEPT !.phase = "receive", !.kicks = n] \in Worker
        BY <1>2, <3>2 DEF Worker, Phases
      <4>2. worker \in [Workers -> Worker]
        BY DEF OrderInv, TypeOK
      <4>3. worker' = [worker EXCEPT ![w] = [worker[w] EXCEPT !.phase = "receive", !.kicks = n]]
        BY <3>1, <4>2
      <4> QED
        BY <4>1, <4>2, <4>3
    <3>5. worker'[w].batch = worker[w].batch /\ worker'[w].running = worker[w].running
      BY <1>2, <3>1 DEF OrderInv, TypeOK, Worker
    <3> QED
      BY <1>2, <3>2, <3>3, <3>4, <3>5 DEF Worker
  <2>2. CASE \E p \in Phases : Become(w, p) /\ kicks' \in {kicks, kicks + 1} /\ worker[w].phase # "idle"
    <3>1. PICK p \in Phases : Become(w, p)
      BY <2>2
    <3>2. Becomes(w, p, worker[w].batch, worker[w].running, worker[w].failedGroups)
          /\ worker'[w].kicks = worker[w].kicks
      BY <3>1, BecomeEffect DEF OrderInv
    <3> QED
      BY <1>2, <2>2, <3>2 DEF Becomes, OrderInv, PhasesOK, TypeOK, Worker
  <2>3. CASE worker' = [worker EXCEPT ![w] = Idle] /\ kicks' \in {kicks, kicks + worker[w].kicks}
    <3>1. kicks' \in Nat
      BY <1>2, <2>3 DEF OrderInv, TypeOK, Worker
    <3> QED
      BY <2>3, <3>1, IdleEffect DEF OrderInv, Becomes
  <2> QED
    BY <2>1, <2>2, <2>3 DEF StopDraining, EndBatch, Count, Wake, Acknowledge, EndRun, Phases
<1>4. TypeOK'
  BY <1>1, <1>3 DEF OrderInv, TypeOK
<1>5. QueuesOK' /\ OneReceiver' /\ BatchHeld' /\ BatchIsFront'
  <2>1. \A v \in Workers \ {w} : worker'[v].batch = worker[v].batch /\ worker'[v].failedGroups = worker[v].failedGroups
    BY <1>3
  <2> QED
    BY <1>1, <1>3, <1>4, <2>1, QuietStep
<1>6. PhasesOK'
  BY <1>3 DEF OrderInv, PhasesOK, MayStart, NextCommand
<1> QED
  BY <1>4, <1>5, <1>6 DEF OrderInv

\* A delivery.
LEMMA ReceiveStep ==
    ASSUME OrderInv, NEW w \in Workers, Receive(w)
    PROVE  OrderInv'
<1>0. PICK S \in Deliveries \ {{}} :
          /\ \E s \in Orders(S) : worker' = [worker EXCEPT ![w].phase = "batch", ![w].batch = s]
          /\ lease' = [c \in Commands |-> IF c \in S THEN w ELSE lease[c]]
  BY DEF Receive
<1>1. PICK s \in Orders(S) : worker' = [worker EXCEPT ![w].phase = "batch", ![w].batch = s]
  BY <1>0
<1>2. UNCHANGED <<progress, seen, fifo, kicks, failures>> /\ worker[w].phase = "receive"
  BY DEF Receive
<1>3. S \in SUBSET Commands /\ IsFiniteSet(S)
  BY DEF Deliveries
<1>4. /\ s \in Seq(Commands) /\ \A i \in DOMAIN s : s[i] \in S
      /\ \A i, j \in DOMAIN s : s[i] = s[j] => i = j
  BY <1>3, OrderOfDelivery
<1>5. Becomes(w, "batch", s, worker[w].running, worker[w].failedGroups) /\ worker'[w].kicks = worker[w].kicks
  BY <1>1, <1>4, ZenonT(30) DEF OrderInv, TypeOK, Becomes, Worker, Phases
<1>6. worker[w].batch = <<>> /\ worker[w].running = FALSE /\ worker[w].kicks > 0
  <2>1. worker[w].batch = <<>> /\ worker[w].kicks > 0
    BY <1>2 DEF OrderInv, PhasesOK
  <2>2. worker[w].running \in BOOLEAN
    BY DEF OrderInv, TypeOK, Worker
  <2> QED
    BY <2>1, <2>2 DEF OrderInv, TypeOK
<1>7. TypeOK'
  <2>1. lease' \in [Commands -> Workers \cup {Free, Lost}]
    BY <1>0 DEF OrderInv, TypeOK
  <2>2. \A v \in Workers : worker'[v].running => worker'[v].batch # <<>>
    BY <1>5, <1>6 DEF OrderInv, TypeOK, Becomes
  <2> QED
    BY <1>2, <1>5, <2>1, <2>2 DEF OrderInv, TypeOK, Becomes
<1>8. QueuesOK'
  BY <1>2 DEF OrderInv, QueuesOK
<1>9. \A c \in S, d \in Commands : GroupOf[d] = GroupOf[c] => lease[d] \notin Workers
  <2>1. \A c \in S : ~Blocked(GroupOf[c])
    BY DeliveryFromFront DEF OrderInv
  <2> QED
    BY <2>1, OrderedQueueAssumption DEF Blocked, Free
<1>10. OneReceiver'
  <2>1. \A c \in Commands : lease'[c] = IF c \in S THEN w ELSE lease[c]
    BY <1>0
  <2> QED
    BY <1>3, <1>9, <2>1 DEF OrderInv, OneReceiver
<1>11. BatchHeld'
  <2> SUFFICES ASSUME NEW v \in Workers
               PROVE  /\ \A i \in DOMAIN worker'[v].batch : lease'[worker'[v].batch[i]] = v
                      /\ \A i, j \in DOMAIN worker'[v].batch :
                             worker'[v].batch[i] = worker'[v].batch[j] => i = j
    BY DEF BatchHeld
  <2>1. CASE v = w
    BY <1>0, <1>3, <1>4, <1>5, <2>1 DEF Becomes
  <2>2. CASE v # w
    <3>1. worker'[v] = worker[v] /\ worker[v].batch \in Seq(Commands)
      BY <1>5, <2>2 DEF Becomes, OrderInv, TypeOK, Worker
    <3>2. \A i \in DOMAIN worker[v].batch : worker[v].batch[i] \in Commands /\ lease[worker[v].batch[i]] = v
      BY <3>1 DEF OrderInv, BatchHeld
    <3>3. \A i \in DOMAIN worker[v].batch : worker[v].batch[i] \notin S
      BY <1>9, <3>2
    <3> QED
      BY <1>0, <3>1, <3>2, <3>3 DEF OrderInv, BatchHeld
  <2> QED
    BY <2>1, <2>2
<1>12. BatchIsFront'
  <2>1. \A i \in DOMAIN s : FrontOf(fifo[GroupOf[s[i]]], s, i)
    BY OrderIsFront DEF OrderInv
  <2>2. \A v \in Workers \ {w} : worker'[v] = worker[v]
    BY <1>5 DEF Becomes
  <2> QED
    BY <1>2, <1>5, <2>1, <2>2 DEF OrderInv, BatchIsFront, Becomes
<1>13. PhasesOK'
  BY <1>5, <1>6 DEF OrderInv, PhasesOK, MayStart, NextCommand, Becomes
<1> QED
  BY <1>7, <1>8, <1>10, <1>11, <1>12, <1>13 DEF OrderInv

\* A command is dropped from a batch; those of its group are not tried any more.
LEMMA DropStep ==
    ASSUME OrderInv, TypeOK', UNCHANGED <<fifo, seen, lease>>, NEW w \in Workers,
           worker[w].batch # <<>>, worker'[w].batch = Tail(worker[w].batch),
           worker[w].failedGroups \subseteq worker'[w].failedGroups,
           GroupOf[NextCommand(w)] \in worker'[w].failedGroups,
           \A v \in Workers \ {w} : worker'[v] = worker[v]
    PROVE  QueuesOK' /\ OneReceiver' /\ BatchHeld' /\ BatchIsFront'
<1> DEFINE b == worker[w].batch
<1>1. /\ b \in Seq(Commands) /\ Len(b) \in Nat \ {0} /\ DOMAIN b = 1 .. Len(b) /\ Head(b) = b[1]
      /\ DOMAIN Tail(b) = 1 .. Len(b) - 1 /\ \A k \in 1 .. Len(b) - 1 : Tail(b)[k] = b[k + 1]
  <2>1. b \in Seq(Commands)
    BY DEF OrderInv, TypeOK, Worker
  <2> QED
    BY <2>1, HeadTailProperties, EmptySeq
<1>2. QueuesOK' /\ OneReceiver'
  BY DEF OrderInv, QueuesOK, OneReceiver
<1>3. BatchHeld'
  <2>1. \A k \in 1 .. Len(b) - 1 : k + 1 \in DOMAIN b
    BY <1>1
  <2>2. /\ \A i \in DOMAIN Tail(b) : lease[Tail(b)[i]] = w
        /\ \A i, j \in DOMAIN Tail(b) : Tail(b)[i] = Tail(b)[j] => i = j
    BY <1>1, <2>1 DEF OrderInv, BatchHeld
  <2> QED
    BY <2>2 DEF OrderInv, BatchHeld
<1>4. BatchIsFront'
  <2>1. ASSUME NEW i \in DOMAIN Tail(b), GroupOf[Tail(b)[i]] \notin worker'[w].failedGroups
        PROVE  FrontOf(fifo[GroupOf[Tail(b)[i]]], Tail(b), i)
    <3>1. i + 1 \in DOMAIN b /\ Tail(b)[i] = b[i + 1] /\ b[i + 1] \in Commands
      BY <1>1
    <3> DEFINE g == GroupOf[b[i + 1]]
    <3>2. g \in Groups /\ fifo[g] \in Seq(Commands)
      BY <3>1, OrderedQueueAssumption DEF OrderInv, TypeOK
    <3>3. FrontOf(fifo[g], b, i + 1)
      BY <2>1, <3>1 DEF OrderInv, BatchIsFront
    <3>4. \A m \in DOMAIN fifo[g] : fifo[g][m] # Head(b)
      BY <2>1, <3>1, <3>2 DEF OrderInv, QueuesOK, NextCommand
    <3> QED
      BY <1>1, <3>1, <3>2, <3>3, <3>4, FrontWithoutOther
  <2> QED
    BY <2>1 DEF OrderInv, BatchIsFront
<1> QED
  BY <1>2, <1>3, <1>4

\* A worker in the loop over a batch, whatever it does there, keeps its wake-ups.
LEMMA LoopPhases ==
    ASSUME OrderInv, NEW w \in Workers, worker[w].phase = "batch",
           NEW batch, NEW running, NEW failed, Becomes(w, "batch", batch, running, failed),
           running => batch # <<>> /\ GroupOf[Head(batch)] \notin failed,
           worker'[w].kicks = worker[w].kicks
    PROVE  PhasesOK' /\ \A v \in Workers : worker'[v].running => worker'[v].batch # <<>>
<1>1. ASSUME NEW v \in Workers \ {w}
      PROVE  worker'[v] = worker[v]
  BY DEF Becomes
<1>2. PhasesOK'
  BY <1>1 DEF OrderInv, PhasesOK, Becomes, MayStart, NextCommand
<1> QED
  BY <1>1, <1>2 DEF OrderInv, TypeOK, Becomes

\* A command is tried, or passed over.
LEMMA StartStep ==
    ASSUME OrderInv, NEW w \in Workers, Start(w)
    PROVE  OrderInv'
<1>1. /\ UNCHANGED <<progress, seen, fifo, lease, kicks, failures>>
      /\ worker[w].phase = "batch" /\ worker[w].batch # <<>> /\ ~worker[w].running
  BY DEF Start
<1>2. worker \in [Workers -> Worker] /\ worker[w] \in Worker /\ worker[w].batch \in Seq(Commands)
  BY DEF OrderInv, TypeOK, Worker
<1>3. CASE MayStart(w)
  <2>1. worker' = [worker EXCEPT ![w].running = TRUE]
    BY <1>3 DEF Start
  <2>2. /\ Becomes(w, "batch", worker[w].batch, TRUE, worker[w].failedGroups)
        /\ worker'[w].kicks = worker[w].kicks
    BY <1>1, <1>2, <2>1 DEF Becomes, Worker
  <2>3. PhasesOK' /\ \A v \in Workers : worker'[v].running => worker'[v].batch # <<>>
    BY <1>1, <1>3, <2>2, LoopPhases DEF MayStart, NextCommand
  <2>4. TypeOK'
    BY <1>1, <2>2, <2>3 DEF OrderInv, TypeOK, Becomes
  <2>5. \A v \in Workers : worker'[v].batch = worker[v].batch /\ worker[v].failedGroups \subseteq worker'[v].failedGroups
    BY <2>2 DEF Becomes
  <2> QED
    BY <1>1, <2>3, <2>4, <2>5, QuietStep DEF OrderInv
<1>4. CASE ~MayStart(w)
  <2>1. worker' = [worker EXCEPT ![w].batch = Tail(@)]
    BY <1>4 DEF Start
  <2>2. Tail(worker[w].batch) \in Seq(Commands)
    BY <1>1, <1>2, HeadTailProperties
  <2>3. /\ Becomes(w, "batch", Tail(worker[w].batch), FALSE, worker[w].failedGroups)
        /\ worker'[w].kicks = worker[w].kicks
    BY <1>1, <1>2, <2>1, <2>2 DEF Becomes, Worker
  <2>4. PhasesOK' /\ \A v \in Workers : worker'[v].running => worker'[v].batch # <<>>
    BY <1>1, <2>3, LoopPhases
  <2>5. TypeOK'
    BY <1>1, <2>3, <2>4 DEF OrderInv, TypeOK, Becomes
  <2>6. QueuesOK' /\ OneReceiver' /\ BatchHeld' /\ BatchIsFront'
    BY <1>1, <1>4, <2>3, <2>5, DropStep DEF Becomes, MayStart
  <2> QED
    BY <2>4, <2>5, <2>6 DEF OrderInv
<1> QED
  BY <1>3, <1>4

\* A command fails.
LEMMA FailCommandStep ==
    ASSUME OrderInv, NEW w \in Workers, FailCommand(w)
    PROVE  OrderInv'
<1> DEFINE failed == worker[w].failedGroups \cup {GroupOf[NextCommand(w)]}
<1>1. /\ UNCHANGED <<progress, seen, fifo, lease, kicks>> /\ worker[w].running
      /\ worker' = [worker EXCEPT ![w].running = FALSE, ![w].batch = Tail(@), ![w].failedGroups = failed]
  BY DEF FailCommand
<1>2. failures' \in 0 .. MaxFailures
  BY OrderedQueueAssumption DEF OrderInv, TypeOK, FailCommand, Fails
<1>3. /\ worker \in [Workers -> Worker] /\ worker[w] \in Worker
      /\ worker[w].batch \in Seq(Commands) /\ worker[w].batch # <<>> /\ worker[w].phase = "batch"
  BY <1>1 DEF OrderInv, TypeOK, PhasesOK, Worker
<1>4. Tail(worker[w].batch) \in Seq(Commands) /\ failed \in SUBSET Groups
  BY <1>3, HeadTailProperties, OrderedQueueAssumption DEF Worker, NextCommand
<1>5. Becomes(w, "batch", Tail(worker[w].batch), FALSE, failed) /\ worker'[w].kicks = worker[w].kicks
  <2> HIDE DEF failed
  <2> QED
    BY <1>1, <1>3, <1>4 DEF Becomes, Worker
<1>6. PhasesOK' /\ \A v \in Workers : worker'[v].running => worker'[v].batch # <<>>
  BY <1>3, <1>5, LoopPhases
<1>7. TypeOK'
  BY <1>1, <1>2, <1>5, <1>6 DEF OrderInv, TypeOK, Becomes
<1>8. QueuesOK' /\ OneReceiver' /\ BatchHeld' /\ BatchIsFront'
  BY <1>1, <1>3, <1>5, <1>7, DropStep DEF Becomes
<1> QED
  BY <1>6, <1>7, <1>8 DEF OrderInv

\* What a worker may start is the first command of its group.
LEMMA NextIsFirst ==
    ASSUME OrderInv, NEW w \in Workers, worker[w].batch # <<>>, MayStart(w)
    PROVE  /\ NextCommand(w) \in Commands /\ lease[NextCommand(w)] = w
           /\ LET q == fifo[GroupOf[NextCommand(w)]] IN q # <<>> /\ Head(q) = NextCommand(w)
<1> DEFINE b == worker[w].batch
           q == fifo[GroupOf[NextCommand(w)]]
<1>1. b \in Seq(Commands)
  BY DEF OrderInv, TypeOK, Worker
<1>2. 1 \in DOMAIN b /\ NextCommand(w) = b[1] /\ b[1] \in Commands
  BY <1>1, EmptySeq DEF NextCommand
<1>3. lease[NextCommand(w)] = w
  BY <1>2 DEF OrderInv, BatchHeld
<1>4. FrontOf(q, b, 1)
  BY <1>1, <1>2 DEF OrderInv, BatchIsFront, MayStart
<1>5. q \in Seq(Commands)
  BY <1>2, OrderedQueueAssumption DEF OrderInv, TypeOK
<1>6. q # <<>> /\ Head(q) = Head(b)
  BY <1>1, <1>4, <1>5, FirstIsHead
<1> QED
  BY <1>2, <1>3, <1>6 DEF NextCommand

\* So is what a worker applies.
LEMMA AppliedIsFirst ==
    ASSUME OrderInv, NEW w \in Workers, worker[w].running
    PROVE  /\ worker[w].phase = "batch" /\ worker[w].batch # <<>> /\ NextCommand(w) \in Commands
           /\ lease[NextCommand(w)] = w
           /\ LET q == fifo[GroupOf[NextCommand(w)]] IN q # <<>> /\ Head(q) = NextCommand(w)
<1>1. worker[w].batch # <<>> /\ worker[w].phase = "batch" /\ MayStart(w)
  BY DEF OrderInv, TypeOK, PhasesOK
<1> QED
  BY <1>1, NextIsFirst

\* A command was applied, and its message is deleted.
LEMMA FinishStep ==
    ASSUME OrderInv, NEW w \in Workers, Finish(w)
    PROVE  OrderInv'
<1> DEFINE c == NextCommand(w)
           g == GroupOf[c]
           b == worker[w].batch
<1>1. /\ UNCHANGED <<progress, seen, kicks, failures>> /\ worker[w].running
      /\ fifo' = [fifo EXCEPT ![g] = Deleted(@, c)] /\ lease' = [lease EXCEPT ![c] = Free]
      /\ worker' = [worker EXCEPT ![w].running = FALSE, ![w].batch = Tail(@), ![w].processed = TRUE]
  BY DEF Finish
<1>2. /\ worker[w].phase = "batch" /\ b # <<>> /\ c \in Commands /\ lease[c] = w
      /\ fifo[g] # <<>> /\ Head(fifo[g]) = c
  BY <1>1, AppliedIsFirst
<1>3. /\ worker \in [Workers -> Worker] /\ worker[w] \in Worker /\ b \in Seq(Commands)
      /\ g \in Groups /\ fifo[g] \in Seq(Commands) /\ fifo \in [Groups -> Seq(Commands)]
  BY <1>2, OrderedQueueAssumption DEF OrderInv, TypeOK, Worker
<1>4. /\ Len(b) \in Nat \ {0} /\ DOMAIN b = 1 .. Len(b) /\ Head(b) = b[1] /\ c = b[1]
      /\ Tail(b) \in Seq(Commands)
      /\ DOMAIN Tail(b) = 1 .. Len(b) - 1 /\ \A k \in 1 .. Len(b) - 1 : Tail(b)[k] = b[k + 1]
  BY <1>2, <1>3, HeadTailProperties, EmptySeq DEF NextCommand
<1>5. /\ \A l, m \in DOMAIN fifo[g] : fifo[g][l] = fifo[g][m] => l = m
      /\ \A l, m \in DOMAIN b : b[l] = b[m] => l = m
      /\ \A l \in DOMAIN b : lease[b[l]] = w
  BY <1>3 DEF OrderInv, QueuesOK, BatchHeld
<1>6. /\ fifo'[g] = Tail(fifo[g]) /\ \A h \in Groups \ {g} : fifo'[h] = fifo[h]
      /\ fifo' \in [Groups -> Seq(Commands)]
  <2>1. Deleted(fifo[g], c) = Tail(fifo[g])
    BY <1>2, <1>3, <1>5, DeletedFirst
  <2>2. Tail(fifo[g]) \in Seq(Commands)
    BY <1>2, <1>3, HeadTailProperties
  <2> QED
    BY <1>1, <1>3, <2>1, <2>2
<1>7. \A d \in Commands : lease'[d] = IF d = c THEN Free ELSE lease[d]
  BY <1>1 DEF OrderInv, TypeOK
<1>8. Becomes(w, "batch", Tail(b), FALSE, worker[w].failedGroups) /\ worker'[w].kicks = worker[w].kicks
  <2> HIDE DEF g, c
  <2> QED
    BY <1>1, <1>2, <1>3, <1>4, ZenonT(30) DEF Becomes, Worker
<1> HIDE DEF c
<1>9. PhasesOK' /\ \A v \in Workers : worker'[v].running => worker'[v].batch # <<>>
  BY <1>2, <1>8, LoopPhases
<1>10. TypeOK'
  <2>1. lease' \in [Commands -> Workers \cup {Free, Lost}]
    BY <1>1 DEF OrderInv, TypeOK
  <2> QED
    BY <1>1, <1>6, <1>8, <1>9, <2>1 DEF OrderInv, TypeOK, Becomes
<1>11. QueuesOK'
  <2>1. ASSUME NEW h \in Groups
        PROVE  /\ \A i \in DOMAIN fifo'[h] : GroupOf[fifo'[h][i]] = h /\ fifo'[h][i] \in seen
               /\ \A i, j \in DOMAIN fifo'[h] : fifo'[h][i] = fifo'[h][j] => i = j
    <3>1. CASE h = g
      <4>1. /\ \A i \in DOMAIN Tail(fifo[g]) : \E j \in DOMAIN fifo[g] : Tail(fifo[g])[i] = fifo[g][j]
            /\ \A i, j \in DOMAIN Tail(fifo[g]) : Tail(fifo[g])[i] = Tail(fifo[g])[j] => i = j
        BY <1>2, <1>3, <1>5, TailElements
      <4>2. \A l \in DOMAIN fifo[g] : GroupOf[fifo[g][l]] = g /\ fifo[g][l] \in seen
        BY <1>3 DEF OrderInv, QueuesOK
      <4>3. \A i \in DOMAIN Tail(fifo[g]) : GroupOf[Tail(fifo[g])[i]] = g /\ Tail(fifo[g])[i] \in seen
        BY <4>1, <4>2
      <4>4. fifo'[h] = Tail(fifo[g])
        BY <1>6, <3>1
      <4> QED
        BY <3>1, <4>1, <4>3, <4>4
    <3>2. CASE h # g
      BY <1>6, <3>2 DEF OrderInv, QueuesOK
    <3> QED
      BY <3>1, <3>2
  <2> QED
    BY <1>1, <2>1 DEF QueuesOK
<1>12. OneReceiver'
  BY <1>7, OrderedQueueAssumption DEF OrderInv, OneReceiver, Free
<1>13. ASSUME NEW v \in Workers \ {w}
       PROVE  /\ worker'[v] = worker[v]
              /\ \A i \in DOMAIN worker[v].batch :
                     /\ worker[v].batch[i] \in Commands /\ lease[worker[v].batch[i]] = v
                     /\ GroupOf[worker[v].batch[i]] \in Groups \ {g}
  <2>1. worker'[v] = worker[v] /\ worker[v].batch \in Seq(Commands)
    BY <1>3, <1>8 DEF Becomes, Worker
  <2>2. \A i \in DOMAIN worker[v].batch : worker[v].batch[i] \in Commands /\ lease[worker[v].batch[i]] = v
    BY <2>1 DEF OrderInv, BatchHeld
  <2> QED
    BY <1>2, <2>1, <2>2, OrderedQueueAssumption DEF OrderInv, OneReceiver
<1>14. BatchHeld'
  <2>1. /\ \A i \in DOMAIN Tail(b) : \E j \in DOMAIN b : Tail(b)[i] = b[j]
        /\ \A i, j \in DOMAIN Tail(b) : Tail(b)[i] = Tail(b)[j] => i = j
        /\ \A i \in DOMAIN Tail(b) : Tail(b)[i] # Head(b)
    BY <1>2, <1>3, <1>5, TailElements
  <2>2. \A i \in DOMAIN Tail(b) : lease'[Tail(b)[i]] = w
    <3>1. \A l \in DOMAIN b : b[l] \in Commands
      BY <1>3, ElementOfSeq
    <3> QED
      BY <1>4, <1>5, <1>7, <2>1, <3>1
  <2> SUFFICES ASSUME NEW v \in Workers
               PROVE  /\ \A i \in DOMAIN worker'[v].batch : lease'[worker'[v].batch[i]] = v
                      /\ \A i, j \in DOMAIN worker'[v].batch :
                             worker'[v].batch[i] = worker'[v].batch[j] => i = j
    BY DEF BatchHeld
  <2>3. CASE v = w
    <3>1. worker'[v].batch = Tail(b)
      BY <1>8, <2>3 DEF Becomes
    <3>2. \A i \in DOMAIN worker'[v].batch : lease'[worker'[v].batch[i]] = v
      BY <2>2, <2>3, <3>1
    <3>3. \A i, j \in DOMAIN worker'[v].batch : worker'[v].batch[i] = worker'[v].batch[j] => i = j
      BY <2>1, <3>1
    <3> QED
      BY <3>2, <3>3
  <2>4. CASE v # w
    <3>1. worker'[v] = worker[v] /\ \A i \in DOMAIN worker[v].batch : lease'[worker[v].batch[i]] = v
      BY <1>2, <1>7, <1>13, <2>4
    <3> QED
      BY <3>1 DEF OrderInv, BatchHeld
  <2> QED
    BY <2>3, <2>4
<1>15. BatchIsFront'
  <2>1. ASSUME NEW i \in DOMAIN Tail(b), GroupOf[Tail(b)[i]] \notin worker[w].failedGroups
        PROVE  FrontOf(fifo'[GroupOf[Tail(b)[i]]], Tail(b), i)
    <3> DEFINE h == GroupOf[b[i + 1]]
    <3>1. i + 1 \in DOMAIN b /\ Tail(b)[i] = b[i + 1] /\ b[i + 1] \in Commands
      BY <1>3, <1>4
    <3>2. h \in Groups /\ fifo[h] \in Seq(Commands)
      BY <1>3, <3>1, OrderedQueueAssumption
    <3>3. FrontOf(fifo[h], b, i + 1)
      BY <2>1, <3>1 DEF OrderInv, BatchIsFront
    <3>4. CASE h = g
      <4>1. FrontOf(fifo[g], b, i + 1) /\ Head(fifo[g]) = Head(b)
        BY <1>2, <1>4, <3>3, <3>4
      <4>2. FrontOf(Tail(fifo[g]), Tail(b), i)
        BY <1>2, <1>3, <1>5, <4>1, FrontWithoutFirst
      <4> QED
        BY <1>6, <3>1, <3>4, <4>2
    <3>5. CASE h # g
      <4>1. \A m \in DOMAIN fifo[h] : fifo[h][m] # Head(b)
        BY <1>4, <3>2, <3>5 DEF OrderInv, QueuesOK
      <4>2. FrontOf(fifo[h], Tail(b), i)
        BY <1>2, <1>3, <3>2, <3>3, <4>1, FrontWithoutOther
      <4> QED
        BY <1>6, <3>1, <3>2, <3>5, <4>2
    <3> QED
      BY <3>4, <3>5
  <2>2. ASSUME NEW v \in Workers \ {w}, NEW i \in DOMAIN worker[v].batch,
               GroupOf[worker[v].batch[i]] \notin worker[v].failedGroups
        PROVE  FrontOf(fifo'[GroupOf[worker[v].batch[i]]], worker[v].batch, i)
    <3>1. fifo'[GroupOf[worker[v].batch[i]]] = fifo[GroupOf[worker[v].batch[i]]]
      BY <1>6, <1>13
    <3> QED
      BY <2>2, <3>1 DEF OrderInv, BatchIsFront
  <2> SUFFICES ASSUME NEW v \in Workers, NEW i \in DOMAIN worker'[v].batch,
                      GroupOf[worker'[v].batch[i]] \notin worker'[v].failedGroups
               PROVE  FrontOf(fifo'[GroupOf[worker'[v].batch[i]]], worker'[v].batch, i)
    BY DEF BatchIsFront
  <2>3. CASE v = w
    BY <1>8, <2>1, <2>3 DEF Becomes
  <2>4. CASE v # w
    BY <1>13, <2>2, <2>4
  <2> QED
    BY <2>3, <2>4
<1> QED
  BY <1>9, <1>10, <1>11, <1>12, <1>14, <1>15 DEF OrderInv

\* The loop is left with whatever the worker has.
LEMMA DeadlineStep ==
    ASSUME OrderInv, NEW w \in Workers, Deadline(w)
    PROVE  OrderInv'
<1>1. /\ UNCHANGED <<progress, seen, fifo, lease, kicks>> /\ worker[w].phase # "idle"
      /\ worker' = [worker EXCEPT ![w].phase = "release", ![w].running = FALSE, ![w].batch = <<>>,
                                  ![w].failedGroups = Groups]
      /\ failures' \in 0 .. MaxFailures
  BY OrderedQueueAssumption DEF OrderInv, TypeOK, Deadline, Fails
<1>2. worker \in [Workers -> Worker] /\ worker[w] \in Worker /\ <<>> \in Seq(Commands)
  BY EmptySeq DEF OrderInv, TypeOK
<1>3. Becomes(w, "release", <<>>, FALSE, Groups) /\ worker'[w].kicks = worker[w].kicks
  BY <1>1, <1>2 DEF Becomes, Worker, Phases
<1>4. TypeOK'
  BY <1>1, <1>3 DEF OrderInv, TypeOK, Becomes
<1>5. PhasesOK'
  BY <1>1, <1>3 DEF OrderInv, PhasesOK, Becomes, MayStart, NextCommand
<1>6. \A v \in Workers : worker'[v].batch = <<>> \/ worker'[v] = worker[v]
  BY <1>3 DEF Becomes
<1>7. QueuesOK' /\ OneReceiver' /\ BatchHeld' /\ BatchIsFront'
  BY <1>1, <1>4, <1>6, QuietStep
<1> QED
  BY <1>4, <1>5, <1>7 DEF OrderInv

\* A message is given back after the loop, or runs out.
LEMMA ReleaseStep ==
    ASSUME OrderInv, (\E w \in Workers : Release(w)) \/ (\E c \in Commands : Expire(c))
    PROVE  OrderInv'
<1>1. UNCHANGED <<progress, seen, fifo, kicks, worker>>
  BY DEF Release, Expire
<1>2. /\ failures' \in 0 .. MaxFailures
      /\ \E c \in Commands :
            /\ lease' \in {[lease EXCEPT ![c] = Free], [lease EXCEPT ![c] = Lost]}
            /\ lease[c] \in Workers => worker[lease[c]].phase = "release"
  BY OrderedQueueAssumption DEF OrderInv, TypeOK, Release, Expire, Fails, Held, Lost
<1>3. PICK c \in Commands :
          /\ lease' \in {[lease EXCEPT ![c] = Free], [lease EXCEPT ![c] = Lost]}
          /\ lease[c] \in Workers => worker[lease[c]].phase = "release"
  BY <1>2
<1>4. lease[c] \in Workers => worker[lease[c]].batch = <<>>
  BY <1>3 DEF OrderInv, PhasesOK
<1>5. TypeOK'
  <2>1. lease' \in [Commands -> Workers \cup {Free, Lost}]
    BY <1>3 DEF OrderInv, TypeOK
  <2> QED
    BY <1>1, <1>2, <2>1 DEF OrderInv, TypeOK
<1>6. \A d \in Commands :
          \/ lease'[d] = lease[d]
          \/ lease'[d] \notin Workers /\ (lease[d] \in Workers => worker[lease[d]].batch = <<>>)
  <2>1. lease'[c] \in {Free, Lost} /\ \A d \in Commands \ {c} : lease'[d] = lease[d]
    BY <1>3 DEF OrderInv, TypeOK
  <2>2. Free \notin Workers /\ Lost \notin Workers
    BY OrderedQueueAssumption DEF Free, Lost
  <2> QED
    BY <1>4, <2>1, <2>2
<1>7. QueuesOK' /\ OneReceiver' /\ BatchHeld' /\ BatchIsFront'
  BY <1>1, <1>5, <1>6, QuietStep
<1>8. PhasesOK'
  BY <1>1 DEF OrderInv, PhasesOK, MayStart, NextCommand
<1> QED
  BY <1>5, <1>7, <1>8 DEF OrderInv

\* An instance is killed, and nobody gives back what it holds.
LEMMA KillStep ==
    ASSUME OrderInv, NEW w \in Workers, Kill(w)
    PROVE  OrderInv'
<1>1. /\ UNCHANGED <<progress, seen, fifo>> /\ worker' = [worker EXCEPT ![w] = Idle]
      /\ lease' = [c \in Commands |-> IF lease[c] = w THEN Lost ELSE lease[c]]
      /\ kicks' = kicks + worker[w].kicks /\ failures' \in 0 .. MaxFailures
  BY OrderedQueueAssumption DEF OrderInv, TypeOK, Kill, Fails
<1>2. Becomes(w, "idle", <<>>, FALSE, {})
  BY <1>1, IdleEffect DEF OrderInv
<1>3. kicks' \in Nat
  BY <1>1 DEF OrderInv, TypeOK, Worker
<1>4. TypeOK'
  <2>1. lease' \in [Commands -> Workers \cup {Free, Lost}]
    BY <1>1 DEF OrderInv, TypeOK
  <2> QED
    BY <1>1, <1>2, <1>3, <2>1 DEF OrderInv, TypeOK, Becomes
<1>5. PhasesOK'
  BY <1>2 DEF OrderInv, PhasesOK, Becomes, MayStart, NextCommand
<1>6. \A v \in Workers : worker'[v].batch = <<>> \/ worker'[v] = worker[v]
  BY <1>2 DEF Becomes
<1>7. \A c \in Commands :
          \/ lease'[c] = lease[c]
          \/ lease'[c] \notin Workers /\ (lease[c] \in Workers => worker'[lease[c]].batch = <<>>)
  <2>1. \A c \in Commands : lease'[c] = IF lease[c] = w THEN Lost ELSE lease[c]
    BY <1>1
  <2>2. Lost \notin Workers /\ worker'[w].batch = <<>>
    BY <1>2, OrderedQueueAssumption DEF Becomes, Lost
  <2> QED
    BY <2>1, <2>2
<1>8. QueuesOK' /\ OneReceiver' /\ BatchHeld' /\ BatchIsFront'
  BY <1>1, <1>4, <1>6, <1>7, QuietStep
<1> QED
  BY <1>4, <1>5, <1>8 DEF OrderInv

-----------------------------------------------------------------------------
(***************************************************************************)
(* Theorems                                                                *)
(***************************************************************************)

LEMMA OrderInit == Init => OrderInv
<1> SUFFICES ASSUME Init PROVE OrderInv
  OBVIOUS
<1>1. Idle \in Worker /\ Idle.batch = <<>> /\ Idle.running = FALSE /\ Idle.phase = "idle"
  BY EmptySeq DEF Idle, Worker, Phases
<1>2. TypeOK
  BY <1>1, EmptySeq, OrderedQueueAssumption DEF Init, TypeOK, Free
<1>3. QueuesOK /\ OneReceiver
  BY OrderedQueueAssumption DEF Init, QueuesOK, OneReceiver, Free
<1>4. BatchHeld /\ BatchIsFront /\ PhasesOK
  BY <1>1 DEF Init, BatchHeld, BatchIsFront, PhasesOK
<1> QED
  BY <1>2, <1>3, <1>4 DEF OrderInv

LEMMA OrderStep == OrderInv /\ [Next]_vars => OrderInv'
<1> SUFFICES ASSUME OrderInv, [Next]_vars PROVE OrderInv'
  OBVIOUS
<1>1. CASE \E c \in Commands : SendCommand(c) \/ SendKick(c) \/ PublishFails(c)
  BY <1>1, PublishStep
<1>2. CASE \E w \in Workers : Invoke(w) \/ StopDraining(w) \/ EndBatch(w) \/ Count(w) \/ Wake(w)
                              \/ Acknowledge(w) \/ EndRun(w)
  BY <1>2, OutsideStep
<1>3. CASE \E w \in Workers : Receive(w) \/ Start(w) \/ Finish(w)
  BY <1>3, ReceiveStep, StartStep, FinishStep
<1>4. CASE (\E w \in Workers : Release(w)) \/ (\E c \in Commands : Expire(c))
  BY <1>4, ReleaseStep
<1>5. CASE \E w \in Workers : Failure(w)
  BY <1>5, FailCommandStep, DeadlineStep, KillStep DEF Failure
<1>6. CASE UNCHANGED vars
  BY <1>6 DEF vars, OrderInv, TypeOK, QueuesOK, OneReceiver, BatchHeld, BatchIsFront, PhasesOK,
     MayStart, NextCommand
<1> QED
  BY <1>1, <1>2, <1>3, <1>4, <1>5, <1>6 DEF Next, WorkerStep

\* Whatever is published twice, redelivered, killed or given back late: a group
\* is received by one worker, which has the front of the group in its batch.
THEOREM OrderInvariant == Spec => []OrderInv
BY OrderInit, OrderStep, PTL DEF Spec

\* A wake-up that is not about to be deleted stays, or another one appears.
LEMMA WakeupStep ==
    ASSUME ~StaleCounters, IInv, [Next]_vars
    PROVE  WakeupLeft'
<1> DEFINE awake == {"receive", "batch", "release", "count", "wake"}
<1>1. /\ kicks \in Nat /\ worker \in [Workers -> Worker]
      /\ \A w \in Workers : worker[w].phase # "idle" => worker[w].kicks > 0 /\ worker[w].kicks \in Nat
  BY DEF IInv, OrderInv, TypeOK, PhasesOK, Worker
<1>2. ASSUME NEW w \in Workers, worker'[w].phase \in awake
      PROVE  WakeupLeft'
  BY <1>2 DEF WakeupLeft
<1>3. CASE \E c \in Commands : SendCommand(c)
  BY <1>3 DEF SendCommand, WakeupLeft, IInv, OrderInv, TypeOK
<1>4. CASE \E c \in Commands : SendKick(c)
  BY <1>1, <1>4 DEF SendKick, WakeupLeft
<1>5. CASE \E c \in Commands : PublishFails(c)
  <2>1. PICK c \in Commands : PublishFails(c)
    BY <1>5
  <2>2. /\ UNCHANGED <<seen, fifo, kicks, worker>>
        /\ \A d \in Commands : progress[d] # "kicked" => progress'[d] # "kicked"
    BY <2>1 DEF PublishFails, IInv, OrderInv, TypeOK
  <2>3. \A d \in seen : d \in Commands
    BY DEF IInv, OrderInv, TypeOK
  <2> QED
    BY <2>2, <2>3 DEF WakeupLeft, Backlog, IInv
<1>6. CASE \E w \in Workers : Invoke(w) \/ Receive(w) \/ StopDraining(w) \/ Start(w) \/ EndBatch(w)
                              \/ FailCommand(w) \/ Deadline(w) \/ Finish(w)
  <2>1. PICK w \in Workers : Invoke(w) \/ Receive(w) \/ StopDraining(w) \/ Start(w) \/ EndBatch(w)
                             \/ FailCommand(w) \/ Deadline(w) \/ Finish(w)
    BY <1>6
  <2>2. worker[w].running => worker[w].phase = "batch"
    BY DEF IInv, OrderInv, TypeOK, PhasesOK
  <2>3. worker'[w].phase \in awake
    <3>1. CASE Invoke(w) \/ Receive(w)
      BY <1>1, <3>1 DEF Invoke, Receive, Worker
    <3>2. CASE StopDraining(w) \/ EndBatch(w)
      BY <1>1, <3>2 DEF StopDraining, EndBatch, Become, Worker
    <3>3. CASE Start(w) \/ FailCommand(w) \/ Finish(w)
      <4>1. worker'[w].phase = worker[w].phase
        BY <1>1, <3>3 DEF Start, FailCommand, Finish, Worker
      <4>2. worker[w].phase = "batch"
        BY <2>2, <3>3 DEF Start, FailCommand, Finish
      <4> QED
        BY <4>1, <4>2
    <3>4. CASE Deadline(w)
      BY <1>1, <3>4 DEF Deadline, Worker
    <3> QED
      BY <2>1, <3>1, <3>2, <3>3, <3>4
  <2> QED
    BY <1>2, <2>3
<1>7. CASE \E w \in Workers : EndRun(w) \/ Wake(w) \/ Kill(w)
  <2>1. PICK w \in Workers : EndRun(w) \/ Wake(w) \/ Kill(w)
    BY <1>7
  <2>2. kicks' > 0 \/ worker'[w].phase \in awake
    <3>1. worker[w].kicks > 0 /\ worker[w].kicks \in Nat
      BY <1>1, <2>1 DEF EndRun, Wake, Kill
    <3>2. \/ kicks' \in {kicks + 1, kicks + worker[w].kicks}
          \/ Become(w, "count")
      BY <2>1 DEF EndRun, Wake, Kill
    <3> QED
      BY <1>1, <3>1, <3>2 DEF Become, Worker
  <2> QED
    BY <1>2, <2>2 DEF WakeupLeft
<1>8. CASE \E w \in Workers : Count(w)
  <2>1. PICK w \in Workers : Count(w)
    BY <1>8
  <2>2. Become(w, "wake") \/ Backlog = {}
    BY <2>1 DEF Count, MustContinue
  <2>3. CASE Become(w, "wake")
    BY <1>1, <1>2, <2>3 DEF Become, Worker
  <2>4. CASE Backlog = {}
    BY <2>1, <2>4 DEF Count, Backlog, WakeupLeft
  <2> QED
    BY <2>2, <2>3, <2>4
<1>9. CASE \E w \in Workers : Acknowledge(w)
  <2>1. PICK w \in Workers : Acknowledge(w)
    BY <1>9
  <2>2. /\ UNCHANGED <<progress, seen, fifo, kicks>> /\ worker[w].phase = "acknowledge"
        /\ \A v \in Workers \ {w} : worker'[v] = worker[v]
    BY <1>1, <2>1 DEF Acknowledge
  <2> QED
    BY <2>2 DEF WakeupLeft, Backlog, IInv
<1>10. CASE (\E w \in Workers : Release(w)) \/ (\E c \in Commands : Expire(c)) \/ UNCHANGED vars
  <2>1. UNCHANGED <<progress, seen, fifo, kicks, worker>>
    BY <1>10 DEF Release, Expire, vars
  <2> QED
    BY <2>1 DEF WakeupLeft, Backlog, IInv
<1> QED
  BY <1>3, <1>4, <1>5, <1>6, <1>7, <1>8, <1>9, <1>10 DEF Next, WorkerStep, Failure

\* While accepted commands wait, something will start a worker again, provided
\* that the two counters of the queue, which are approximate, miss no leased
\* message.
THEOREM BacklogWakesWorker ==
    ASSUME ~StaleCounters
    PROVE  Spec => []BacklogKeepsWakeup
<1>1. Init => IInv
  <2>1. Init => Backlog = {}
    BY OrderedQueueAssumption DEF Init, Backlog, ToSet
  <2> QED
    BY <2>1, OrderInit DEF IInv, WakeupLeft
<1>2. IInv /\ [Next]_vars => IInv'
  BY OrderStep, WakeupStep DEF IInv
<1>3. IInv => BacklogKeepsWakeup
  BY DEF IInv, WakeupLeft, BacklogKeepsWakeup
<1> QED
  BY <1>1, <1>2, <1>3, PTL DEF Spec

-----------------------------------------------------------------------------
(***************************************************************************)
(* The promise of CommandGroups                                            *)
(***************************************************************************)

\* The commands that workers in these states apply, per group.
Busy(ws) ==
    [g \in Groups |->
        {Head(ws[w].batch) : w \in {v \in Workers : ws[v].running /\ GroupOf[Head(ws[v].batch)] = g}}]

LEMMA BusyIsApplying ==
    /\ [g \in Groups |-> Applying(g)] = Busy(worker)
    /\ [g \in Groups |-> Applying(g)]' = Busy(worker')
BY DEF Busy, Applying, NextCommand

\* Steps that neither begin nor end an application.
LEMMA BusyStays ==
    ASSUME \A w \in Workers : /\ worker'[w].running = worker[w].running
                              /\ worker[w].running => worker'[w].batch = worker[w].batch
    PROVE  Busy(worker') = Busy(worker)
BY DEF Busy

\* A worker that is about to apply a command of a group is the only one.
LEMMA BusyBegins ==
    ASSUME OrderInv, NEW w \in Workers, worker[w].batch # <<>>, MayStart(w), ~worker[w].running,
           worker'[w].running, worker'[w].batch = worker[w].batch,
           \A v \in Workers \ {w} : worker'[v] = worker[v]
    PROVE  LET c == NextCommand(w)
               g == GroupOf[c]
           IN  Busy(worker)[g] = {} /\ Busy(worker') = [Busy(worker) EXCEPT ![g] = {c}]
<1> DEFINE c == NextCommand(w)
           g == GroupOf[c]
<1>1. c \in Commands /\ lease[c] = w /\ g \in Groups
  BY NextIsFirst, OrderedQueueAssumption
<1>2. ASSUME NEW v \in Workers, worker[v].running, GroupOf[Head(worker[v].batch)] = g
      PROVE  FALSE
  <2>1. Head(worker[v].batch) \in Commands /\ lease[Head(worker[v].batch)] = v
    BY <1>2, AppliedIsFirst DEF NextCommand
  <2>2. v = w
    BY <1>1, <1>2, <2>1 DEF OrderInv, OneReceiver
  <2> QED
    BY <1>2, <2>2
<1>3. Busy(worker)[g] = {}
  BY <1>1, <1>2 DEF Busy
<1>4. Busy(worker')[g] = {c}
  BY <1>1, <1>2 DEF Busy, NextCommand
<1>5. ASSUME NEW h \in Groups \ {g}
      PROVE  Busy(worker')[h] = Busy(worker)[h]
  BY DEF Busy, NextCommand
<1> QED
  BY <1>1, <1>3, <1>4, <1>5 DEF Busy

\* When its application ends, nothing of the group is applied.
LEMMA BusyEnds ==
    ASSUME OrderInv, NEW w \in Workers, worker[w].running, ~worker'[w].running,
           \A v \in Workers \ {w} : worker'[v] = worker[v]
    PROVE  LET c == NextCommand(w)
               g == GroupOf[c]
           IN  Busy(worker)[g] = {c} /\ Busy(worker') = [Busy(worker) EXCEPT ![g] = {}]
<1> DEFINE c == NextCommand(w)
           g == GroupOf[c]
<1>1. c \in Commands /\ lease[c] = w /\ g \in Groups
  BY AppliedIsFirst, OrderedQueueAssumption
<1>2. ASSUME NEW v \in Workers, worker[v].running, GroupOf[Head(worker[v].batch)] = g
      PROVE  v = w
  <2>1. Head(worker[v].batch) \in Commands /\ lease[Head(worker[v].batch)] = v
    BY <1>2, AppliedIsFirst DEF NextCommand
  <2> QED
    BY <1>1, <1>2, <2>1 DEF OrderInv, OneReceiver
<1>3. Busy(worker)[g] = {c}
  BY <1>1, <1>2 DEF Busy, NextCommand
<1>4. Busy(worker')[g] = {}
  BY <1>1, <1>2 DEF Busy, NextCommand
<1>5. ASSUME NEW h \in Groups \ {g}
      PROVE  Busy(worker')[h] = Busy(worker)[h]
  BY DEF Busy, NextCommand
<1> QED
  BY <1>1, <1>3, <1>4, <1>5 DEF Busy

\* A publication is accepted once; the kick is no part of the promise.
LEMMA PublishKeepsPromise ==
    ASSUME OrderInv, NEW c \in Commands, SendCommand(c) \/ SendKick(c) \/ PublishFails(c)
    PROVE  Promise!Next \/ UNCHANGED Promise!groupVars
<1>1. UNCHANGED worker
  BY DEF SendCommand, SendKick, PublishFails
<1>2. [g \in Groups |-> Applying(g)]' = [g \in Groups |-> Applying(g)]
  BY <1>1, BusyStays, BusyIsApplying
<1>3. CASE SendCommand(c) /\ c \notin seen
  <2>1. Promise!Accept(c)
    BY <1>2, <1>3 DEF SendCommand, AppendOnce, Promise!Accept
  <2> QED
    BY <2>1 DEF Promise!Next
<1>4. CASE ~(SendCommand(c) /\ c \notin seen)
  <2>1. UNCHANGED fifo /\ seen' = seen
    BY <1>4 DEF SendCommand, AppendOnce, SendKick, PublishFails
  <2> QED
    BY <1>2, <2>1 DEF Promise!groupVars
<1> QED
  BY <1>3, <1>4

\* A worker starts the first command of a group that nobody applies.
LEMMA StartKeepsPromise ==
    ASSUME OrderInv, NEW w \in Workers, Start(w)
    PROVE  Promise!Next \/ UNCHANGED Promise!groupVars
<1>1. /\ UNCHANGED <<fifo, seen>> /\ worker[w].batch # <<>> /\ ~worker[w].running
      /\ worker \in [Workers -> Worker]
  BY DEF Start, OrderInv, TypeOK
<1>2. CASE MayStart(w)
  <2> DEFINE c == NextCommand(w)
             g == GroupOf[c]
  <2>1. /\ worker'[w].running /\ worker'[w].batch = worker[w].batch
        /\ \A v \in Workers \ {w} : worker'[v] = worker[v]
    BY <1>1, <1>2 DEF Start, Worker
  <2>2. Busy(worker)[g] = {} /\ Busy(worker') = [Busy(worker) EXCEPT ![g] = {c}]
    BY <1>1, <1>2, <2>1, BusyBegins
  <2>3. g \in Groups /\ fifo[g] # <<>> /\ Head(fifo[g]) = c
    BY <1>1, <1>2, NextIsFirst, OrderedQueueAssumption
  <2>4. Promise!Begin(g)
    BY <1>1, <2>2, <2>3, BusyIsApplying DEF Promise!Begin
  <2> QED
    BY <2>3, <2>4 DEF Promise!Next
<1>3. CASE ~MayStart(w)
  <2>1. /\ worker'[w].running = worker[w].running
        /\ \A v \in Workers \ {w} : worker'[v] = worker[v]
    BY <1>1, <1>3 DEF Start, Worker
  <2>2. Busy(worker') = Busy(worker)
    BY <1>1, <2>1, BusyStays
  <2> QED
    BY <1>1, <2>2, BusyIsApplying DEF Promise!groupVars
<1> QED
  BY <1>2, <1>3

\* What is applied leaves its group, which was its first command.
LEMMA FinishKeepsPromise ==
    ASSUME OrderInv, NEW w \in Workers, Finish(w)
    PROVE  Promise!Next
<1> DEFINE c == NextCommand(w)
           g == GroupOf[c]
<1>1. /\ worker[w].running /\ UNCHANGED seen /\ fifo' = [fifo EXCEPT ![g] = Deleted(@, c)]
      /\ worker \in [Workers -> Worker]
  BY DEF Finish, OrderInv, TypeOK
<1>2. c \in Commands /\ fifo[g] # <<>> /\ Head(fifo[g]) = c /\ g \in Groups
  BY <1>1, AppliedIsFirst, OrderedQueueAssumption
<1>3. fifo[g] \in Seq(Commands) /\ \A l, m \in DOMAIN fifo[g] : fifo[g][l] = fifo[g][m] => l = m
  BY <1>2 DEF OrderInv, TypeOK, QueuesOK
<1>4. fifo' = [fifo EXCEPT ![g] = Tail(@)]
  BY <1>1, <1>2, <1>3, DeletedFirst
<1>5. ~worker'[w].running /\ \A v \in Workers \ {w} : worker'[v] = worker[v]
  BY <1>1 DEF Finish, Worker
<1>6. Busy(worker)[g] = {c} /\ Busy(worker') = [Busy(worker) EXCEPT ![g] = {}]
  BY <1>1, <1>5, BusyEnds
<1>7. Promise!Complete(g)
  BY <1>1, <1>4, <1>6, BusyIsApplying DEF Promise!Complete
<1> QED
  BY <1>2, <1>7 DEF Promise!Next

\* A failure ends an attempt, if there is one.
LEMMA FailureKeepsPromise ==
    ASSUME OrderInv, NEW w \in Workers, Failure(w)
    PROVE  Promise!Next \/ UNCHANGED Promise!groupVars
<1>1. /\ UNCHANGED <<fifo, seen>> /\ ~worker'[w].running
      /\ \A v \in Workers \ {w} : worker'[v] = worker[v]
  <2>1. CASE FailCommand(w) \/ Deadline(w)
    BY <2>1 DEF FailCommand, Deadline, OrderInv, TypeOK, Worker
  <2>2. CASE Kill(w)
    BY <2>2, IdleEffect DEF Kill, OrderInv, Becomes
  <2> QED
    BY <2>1, <2>2 DEF Failure
<1>2. CASE worker[w].running
  <2> DEFINE g == GroupOf[NextCommand(w)]
  <2>1. Busy(worker)[g] = {NextCommand(w)} /\ Busy(worker') = [Busy(worker) EXCEPT ![g] = {}]
    BY <1>1, <1>2, BusyEnds
  <2>2. g \in Groups
    BY <1>2, AppliedIsFirst, OrderedQueueAssumption
  <2>3. Promise!Abandon(g)
    BY <1>1, <2>1, BusyIsApplying DEF Promise!Abandon
  <2> QED
    BY <2>2, <2>3 DEF Promise!Next
<1>3. CASE ~worker[w].running
  <2>1. Busy(worker') = Busy(worker)
    BY <1>1, <1>3 DEF Busy
  <2> QED
    BY <1>1, <2>1, BusyIsApplying DEF Promise!groupVars
<1> QED
  BY <1>2, <1>3

\* Everything else is about receiving, leases and wake-ups.
LEMMA OtherKeepsPromise ==
    ASSUME OrderInv, NEW w \in Workers,
           Invoke(w) \/ Receive(w) \/ StopDraining(w) \/ EndBatch(w) \/ Release(w) \/ EndRun(w)
           \/ Count(w) \/ Wake(w) \/ Acknowledge(w)
    PROVE  UNCHANGED Promise!groupVars
<1>1. UNCHANGED <<fifo, seen>> /\ worker \in [Workers -> Worker]
  BY DEF Invoke, Receive, StopDraining, EndBatch, Release, EndRun, Count, Wake, Acknowledge, OrderInv, TypeOK
<1>2. CASE Release(w)
  BY <1>1, <1>2, BusyStays, BusyIsApplying DEF Release, Promise!groupVars
<1>3. CASE ~Release(w)
  <2>1. /\ ~worker[w].running
        /\ \A v \in Workers \ {w} : worker'[v] = worker[v]
    <3>1. worker[w].phase # "batch" \/ worker[w].batch = <<>>
      BY <1>3 DEF Invoke, Receive, StopDraining, EndBatch, EndRun, Count, Wake, Acknowledge
    <3>2. ~worker[w].running
      BY <3>1 DEF OrderInv, TypeOK, PhasesOK
    <3> QED
      BY <1>1, <1>3, <3>2 DEF Invoke, Receive, StopDraining, EndBatch, EndRun, Count, Wake, Acknowledge, Become
  <2>2. worker'[w].running = worker[w].running
    <3>1. CASE worker' = [worker EXCEPT ![w] = Idle]
      BY <1>1, <2>1, <3>1 DEF Idle, Worker
    <3>2. CASE worker' # [worker EXCEPT ![w] = Idle]
      BY <1>1, <1>3, <3>2 DEF Invoke, Receive, StopDraining, EndBatch, EndRun, Count, Wake, Acknowledge,
         Become, Worker
    <3> QED
      BY <3>1, <3>2
  <2>3. Busy(worker') = Busy(worker)
    BY <2>1, <2>2, BusyStays
  <2> QED
    BY <1>1, <2>3, BusyIsApplying DEF Promise!groupVars
<1> QED
  BY <1>2, <1>3

\* The queue and its workers keep the promise of CommandGroups: the commands of
\* a group are applied one at a time, in the order of their publication.
THEOREM GroupsImplemented == Spec => ImplementsGroups
<1>1. Init => Promise!Init
  <2> SUFFICES ASSUME Init PROVE Promise!Init
    OBVIOUS
  <2>1. Busy(worker) = [g \in Groups |-> {}]
    BY DEF Init, Idle, Busy
  <2> QED
    BY <2>1, BusyIsApplying DEF Init, Promise!Init
<1>2. OrderInv /\ [Next]_vars => [Promise!Next]_Promise!groupVars
  <2> SUFFICES ASSUME OrderInv, [Next]_vars
               PROVE  Promise!Next \/ UNCHANGED Promise!groupVars
    OBVIOUS
  <2>1. CASE \E c \in Commands : SendCommand(c) \/ SendKick(c) \/ PublishFails(c)
    BY <2>1, PublishKeepsPromise
  <2>2. CASE \E w \in Workers : WorkerStep(w) \/ Failure(w)
    BY <2>2, StartKeepsPromise, FinishKeepsPromise, FailureKeepsPromise, OtherKeepsPromise DEF WorkerStep
  <2>3. CASE (\E c \in Commands : Expire(c)) \/ UNCHANGED vars
    <3>1. UNCHANGED <<fifo, seen, worker>>
      BY <2>3 DEF Expire, vars
    <3> QED
      BY <3>1, BusyStays, BusyIsApplying DEF Promise!groupVars
  <2> QED
    BY <2>1, <2>2, <2>3 DEF Next
<1> QED
  BY <1>1, <1>2, OrderInvariant, PTL DEF Spec, ImplementsGroups, Promise!Spec
===============================================================================
