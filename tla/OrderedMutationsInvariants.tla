---------------------- MODULE OrderedMutationsInvariants ----------------------
(***************************************************************************)
(* The inductive invariants of OrderedMutations.                           *)
(*                                                                         *)
(* `Structure` says which commands wait where and what of their operation  *)
(* ids the tables already hold.  Upon it stand three results.  About all   *)
(* the operations beside each other: a player has confirmed at most one    *)
(* game of a date (`OneGame`).  About the commands that share the FIFO     *)
(* group of a game: what an attempt has read is still true when it writes, *)
(* so that every write is an operation of Roster (`OneAtATime`), and whom  *)
(* a command has moved is told before it is answered (`InTold`).           *)
(***************************************************************************)
EXTENDS OrderedMutations

\* The steps an attempt has still to make.
Pending(attempt, step) == \E i \in 1 .. Len(attempt.todo) : attempt.todo[i] = step

\* A command as Publish makes it.
WellFormed(c) ==
    /\ c.kind \in ByPlayer \cup ByTarget => \E p \in Players : c.player = {p}
    /\ c.kind = "amount" => c.amount \in Amounts

\* No record in the tables is of this operation.
Fresh(op) ==
    /\ op \notin applied
    /\ \A e \in Events :
        /\ games[e].removal.op # op
        /\ \A p \in Players : rows[e][p].op # op

\* Operations are numbered as they are published; those behind the head of
\* their group have left nothing yet.
QueuesSound ==
    \A g \in Groups : \A i \in 1 .. Len(queue[g]) :
        /\ WellFormed(queue[g][i]) /\ queue[g][i].op <= published
        /\ i > 1 => Fresh(queue[g][i].op)

OpsDiffer ==
    \A g, h \in Groups : \A i \in 1 .. Len(queue[g]), j \in 1 .. Len(queue[h]) :
        queue[g][i].op = queue[h][j].op => g = h /\ i = j

OpsToCome == \A op \in published + 1 .. MaxOps : Fresh(op)

\* Every attempt ends with the answer.
EndsWithReply ==
    \A g \in Groups : LET todo == work[g].todo IN todo # <<>> => todo[Len(todo)] = "reply"

Structure == TypeOK /\ QueuesSound /\ OpsDiffer /\ OpsToCome /\ EndsWithReply

-----------------------------------------------------------------------------
\* Confirmations

\* A row of another game that a queued confirmation has marked is given up.
GivenUp ==
    \A g \in Groups : \A i \in 1 .. Len(queue[g]) :
        LET c == queue[g][i] IN
        c.kind = "confirm" =>
            \A f \in Events \ {c.event}, p \in Players :
                rows[f][p].op = c.op => rows[f][p].status # "confirmed"

\* Of the conflicting games that are confirmed, a confirmation about to be
\* written gives up every one.
RivalsAreKnown ==
    \A g \in Groups :
        LET c == CommandAt(g) IN
        Pending(work[g], "write") /\ c.kind = "confirm" => Elsewhere(c) \subseteq work[g].replaced

OneGame == OneConfirmedPerDate /\ GivenUp /\ RivalsAreKnown

-----------------------------------------------------------------------------
\* The commands of one game

\* A plan writes once, after it has recorded and looked and before it tells
\* the players.
WritesInOrder(s) ==
    \A i, j \in 1 .. Len(s) :
        s[j] = "write" => /\ s[i] = "write" => i = j
                          /\ s[i] \in {"removal", "look"} => i < j
                          /\ s[i] \in {"read", "send"} => j < i

Up(c) == [way |-> "up", key |-> Key(c)]

\* The snapshot of a promotion names the player it is about.
Recorded(c, game) == game.removal.op = c.op /\ Up(c) \in game.removal.entries

Swapped(c, game, r) ==
    game.removal.op = c.op /\ Up(c) \in Current(game.removal.entries, r, game.amount)

\* Refused, of a command that is no confirmation, for the row of its game and
\* the rows of its registrations.
Rejected(c, game, r) ==
    \/ ~game.exists /\ c.kind \notin {"archive", "delete"}
    \/ game.archived /\ c.kind \notin {"archive", "unarchive", "delete"}
    \/ c.kind = "delete" /\ game.exists /\ ~game.archived
    \/ /\ c.kind = "enlist"
       /\ game.status = "closed" \/ (r[Key(c)].status \in {"waiting", "confirmed"} /\ r[Key(c)].op # c.op)
    \/ /\ c.kind = "promote"
       /\ \/ Key(c) \notin Active(r)
          \/ ~Swapped(c, game, r) /\ ~\E p \in Players : IsSwap(r, game.amount, Key(c), p)
    \/ c.kind = "remove" /\ r[Key(c)].status = "cancelled"
    \/ c.kind = "cancel" /\ r[Key(c)].status = "none"
    \/ c.kind = "touch" /\ r[Key(c)].status \in {"none", "cancelled"}

\* What an attempt at c has read is still true before its write.
EnlistReady(c, w, r) ==
    /\ r[Key(c)].op # c.op /\ w.time \in Times
    /\ \E now \in Clock : IsQueueTime(r, now, w.time)

SiftReady(c, w, r) ==
    /\ ~Sifted(r)
    /\ Pending(w, "look") \/ (w.time \in Times /\ IsShift(r, w.time))

PromoteReady(c, w, game, r) ==
    /\ \E p \in Players :
        /\ IsSwap(r, game.amount, Key(c), p)
        /\ w.mate = {p} /\ w.time = r[Key(c)].at /\ w.mateTime = r[p].at
    /\ Up(c) \in w.entries
    /\ Pending(w, "removal") \/ Recorded(c, game)

Ready(c, w, game, r, effective) ==
    Pending(w, "write") =>
        /\ c.kind \in {"enlist", "sift", "promote"} => WritesInOrder(w.todo)
        /\ c.kind = "enlist" => EnlistReady(c, w, r)
        /\ c.kind = "sift" => SiftReady(c, w, r)
        /\ c.kind = "promote" => ~effective /\ PromoteReady(c, w, game, r)

\* A command that has begun, or that has taken effect, would not be refused
\* for the state of its game.
Admitted(c, w, game, r, effective) ==
    /\ w.refused => w.todo = <<"reply">>
    /\ w.refused /\ ~w.denied => ~effective
    /\ (w.todo # <<>> /\ ~w.refused) \/ effective => ~Rejected(c, game, r)
    /\ c.kind = "promote" /\ effective => Swapped(c, game, r)
    /\ Pending(w, "tellReserve") \/ Pending(w, "tellLink") \/ Pending(w, "read")
            => c.kind \notin {"archive", "delete"}
    /\ Pending(w, "erase") \/ Pending(w, "drop") => c.kind = "delete"

InTurn(c, w, game, r, effective) ==
    Ready(c, w, game, r, effective) /\ Admitted(c, w, game, r, effective)

\* Rows are marked with operations that took effect.
MarksAreApplied ==
    \A e \in Events, p \in Players : rows[e][p].op # NoOperation => rows[e][p].op \in applied

EveryHeadInTurn ==
    \A g \in Groups :
        LET c == CommandAt(g)
        IN  queue[g] # <<>> => InTurn(c, work[g], games[c.event], rows[c.event], c.op \in applied)

NobodyRefused == \A g \in Groups : queue[g] = <<>> => ~work[g].refused

OneAtATime == QueueTimesDistinct /\ MarksAreApplied /\ EveryHeadInTurn /\ NobodyRefused

-----------------------------------------------------------------------------
\* The notices of a command, while nobody confirms

\* The moves that somebody has to be told of before the answer.
Ways == {"up", "down", "out", "cancelled"}

Moving == {"cancel", "remove", "sift", "promote", "amount"}

MovesOf(c, moves) == {m \in moves : m.op = c.op /\ m.way \in Ways}

EntryOf(m) == [way |-> m.way, key |-> m.key]

NoticeOf(m) == [op |-> m.op, way |-> m.way, key |-> m.key]

\* A player leaves the queue; whoever moves up has a record of its own.
Leaving(c) == c.kind \in {"cancel", "remove"}

ByReserve(c, m) == Leaving(c) /\ m.way = "up"

\* The steps of a plan that depend on each other; no step is made twice.
Order ==
    ({"removal", "look", "reserve"} \X {"write"})
    \cup ({"removal"} \X {"read", "send"})
    \cup ({"look"} \X {"reserve"})
    \cup ({"write"} \X {"tellReserve", "read", "send"})
    \cup ({"read"} \X {"send"})
    \cup ({"tellReserve", "read", "send"} \X {"reply"})

Precedes(step, other) == <<step, other>> \in Order

InOrder(s) ==
    /\ \A i, j \in 1 .. Len(s) : s[i] = s[j] => i = j
    /\ \A i, j \in 1 .. Len(s) : Precedes(s[i], s[j]) => i < j

\* What a write made now does to a player, as the snapshot names it.
SiftMoves(r, amount, n) ==
    \E shift \in Nat :
        /\ IsShift(r, shift)
        /\ \/ n.way = "up" /\ n.key \in MainRoster(SiftRows(r, shift), amount) \ MainRoster(r, amount)
           \/ n.way = "down" /\ n.key \in MainRoster(r, amount) \ MainRoster(SiftRows(r, shift), amount)

SwapMoves(c, r, amount, n) ==
    \E p \in Players :
        IsSwap(r, amount, Key(c), p) /\ (n = Up(c) \/ (n.way = "down" /\ n.key = p))

Foreseen(c, game, r, n) ==
    \/ c.kind = "cancel" /\ n.way = "cancelled" /\ n.key = Key(c) /\ n.key \in Active(r)
    \/ c.kind = "remove" /\ n.way = "out" /\ n.key = Key(c) /\ r[n.key].status # "none"
    \/ /\ c.kind = "amount" /\ n.way = "up"
       /\ n.key \in MainRoster(r, c.amount) \ MainRoster(r, game.amount)
    \/ c.kind = "sift" /\ ~Sifted(r) /\ SiftMoves(r, game.amount, n)
    \/ c.kind = "promote" /\ SwapMoves(c, r, game.amount, n)

Named(c, game, r, entries) == \A n \in Entry : Foreseen(c, game, r, n) => n \in entries

\* The snapshot that is recorded, or about to be, names whom the write moves.
Snapshot(c, w, game) ==
    IF game.removal.op = c.op THEN game.removal.entries
    ELSE IF Pending(w, "removal") THEN w.entries ELSE {}

SnapshotNames(c, w, game, r) ==
    game.removal.op = c.op \/ Pending(w, "removal") \/ Pending(w, "write")
        => Named(c, game, r, Snapshot(c, w, game))

\* So does the record of the player who moves up for the one who leaves.
Candidates(c, w, game) ==
    IF game.reserve.op = c.op THEN game.reserve.keys
    ELSE IF Pending(w, "reserve") THEN w.candidates ELSE {}

ReserveNames(c, w, game, r) ==
    Leaving(c) =>
        /\ \/ game.reserve.op = c.op
           \/ (Pending(w, "reserve") \/ Pending(w, "write")) /\ ~Pending(w, "look")
           => Promoted(r, Key(c), game.amount) \subseteq Candidates(c, w, game)
        /\ Pending(w, "look") =>
             w.amount = game.amount /\ (game.reserve.op # c.op => Pending(w, "reserve"))
        /\ Pending(w, "reserve") => game.reserve.op # c.op

\* A plan that writes tells afterwards.
PlanTells(c, w, r) ==
    /\ InOrder(w.todo)
    /\ Pending(w, "write") /\ c.kind \in Moving => Pending(w, "read")
    /\ Pending(w, "write") /\ Leaving(c) => Pending(w, "tellReserve")
    /\ Pending(w, "read") => Pending(w, "send")
    /\ Pending(w, "write") /\ c.kind = "remove" => r[Key(c)].status # "none"
    /\ Pending(w, "look") /\ c.kind = "sift" => Pending(w, "write")

\* A move that was made is on record.
Noted(c, game, r, m) ==
    /\ c.kind \in Moving /\ m.event = c.event
    /\ IF ByReserve(c, m) THEN game.reserve.op = c.op /\ m.key \in game.reserve.keys
       ELSE game.removal.op = c.op /\ EntryOf(m) \in game.removal.entries
    /\ c.kind \in {"sift", "promote"} =>
         m.way \in {"up", "down"} /\ (m.way = "up" => r[m.key].status = "confirmed")

\* The player is still where the move has put them.
Stays(m, game, r) ==
    /\ m.way = "up" => m.key \in MainRoster(r, game.amount)
    /\ m.way = "down" => r[m.key].status = "waiting" /\ m.key \notin MainRoster(r, game.amount)

\* An attempt that has begun has told of a move, or will.
Announced(c, w, game, r, m, said) ==
    \/ NoticeOf(m) \in said \/ ~Stays(m, game, r)
    \/ IF ByReserve(c, m) THEN Pending(w, "tellReserve")
       ELSE Pending(w, "read") \/ (Pending(w, "send") /\ EntryOf(m) \in w.entries)

Announces(c, w, game, r, moves, said) ==
    /\ SnapshotNames(c, w, game, r) /\ ReserveNames(c, w, game, r) /\ PlanTells(c, w, r)
    /\ \A m \in moves :
        Noted(c, game, r, m) /\ (w.todo # <<>> /\ ~w.refused => Announced(c, w, game, r, m, said))

EveryHeadAnnounces ==
    \A g \in Groups :
        LET c == CommandAt(g)
        IN  queue[g] # <<>> =>
              Announces(c, work[g], games[c.event], rows[c.event], MovesOf(c, moved), told)

MovesAreApplied == \A m \in moved : m.way \in Ways => m.op \in applied

\* Who is marked as told has been told.
DoneIsTold(game, said) ==
    /\ Notices(game.removal.op, game.removal.done) \subseteq said
    /\ game.reserve.done => Notices(game.reserve.op, Entries("up", game.reserve.keys)) \subseteq said

MarkedAreTold == \A e \in Events : DoneIsTold(games[e], told)

\* A promotion record is of a command that has been at the head of its group.
Unreserved(op) == \A e \in Events : games[e].reserve.op # op

ReservesOfHeads ==
    /\ \A g \in Groups : \A i \in 1 .. Len(queue[g]) : i > 1 => Unreserved(queue[g][i].op)
    /\ \A op \in published + 1 .. MaxOps : Unreserved(op)

InTold == EveryHeadAnnounces /\ MovesAreApplied /\ MarkedAreTold /\ ReservesOfHeads
===============================================================================
