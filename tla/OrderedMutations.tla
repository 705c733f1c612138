--------------------------- MODULE OrderedMutations ---------------------------
(***************************************************************************)
(* application/ordered_mutations.py driven by application/worker.py over   *)
(* the YDB tables.  A command waits in the FIFO group its queue_group_id   *)
(* names: the game's group, or the player's own group for CONFIRM.  The    *)
(* head of a group is applied in several database round trips; between     *)
(* any two of them the commands of other groups go on, and the attempt may *)
(* fail (an exception, the deadline, a killed instance), after which the   *)
(* same command is applied again from the beginning.                       *)
(*                                                                         *)
(* `Load` is what an attempt reads before its first write; it leaves the   *)
(* steps to make in `todo`, in the order of the code.  Every write is a    *)
(* step of its own.  A message to a player and the marker that records it  *)
(* are one step.  A game here has no additional question, and a player is  *)
(* one person with one registration row per game.                          *)
(***************************************************************************)
EXTENDS RegistrationRows, Sequences

CONSTANTS
    Events,       \* games
    Linked,       \* players whose Telegram and VK profiles are linked
    Conflicts,    \* pairs of games of one date whose confirmation times conflict
    Kinds,        \* the operations clients publish
    Amounts,      \* capacities a master may set
    StartRows,    \* registrations of a game that has been in use for a while
    StartStatus,  \* status of every game at the start
    Times,        \* bound: signup times, readings of the clock, shifts of a sift
    Clock,        \* bound: readings of the clock an enlistment may get
    MaxOps,       \* bound: commands published
    MaxCrashes    \* bound: attempts that fail half-way

ByPlayer == {"enlist", "cancel", "confirm", "touch"}

ByTarget == {"remove", "promote"}

ByMaster == {"sift", "amount", "open", "close", "open_confirmation",
             "archive", "unarchive", "delete"}

GameStatuses == {"created", "confirmation_open", "closed"}

ASSUME OrderedMutationsAssumption ==
    /\ Linked \subseteq Players
    /\ Conflicts \subseteq SUBSET Events
    /\ Kinds \subseteq ByPlayer \cup ByTarget \cup ByMaster
    /\ MaxOps \in Nat /\ MaxCrashes \in Nat
    /\ Times \subseteq Nat /\ Clock \subseteq Times /\ Amounts \subseteq Nat
    /\ NoOperation = 0 /\ OperationIds = 0 .. MaxOps
    /\ StartRows \subseteq Rows /\ StartStatus \in GameStatuses
    /\ \A r \in StartRows : DistinctTimes(r) /\ \A p \in Players : r[p].op = NoOperation

VARIABLES
    games,      \* the `events` table
    rows,       \* the `registrations` table, per game
    queue,      \* FIFO group -> commands not yet deleted
    work,       \* FIFO group -> the attempt at its head command
    published,  \* commands published so far
    crashes,    \* attempts that failed so far
    moved,      \* history: what the write of an operation changed for a player
    told,       \* history: what a player has been told
    applied     \* history: operations whose write changed a registration

vars == <<games, rows, queue, work, published, crashes, moved, told, applied>>

history == <<moved, told, applied>>

-----------------------------------------------------------------------------
\* last_reserve_promotion_* and last_confirmed_link_promotion_*; `keys` has at
\* most one member.
Promotion == [op : OperationIds, keys : SUBSET Players, done : BOOLEAN]

\* How an operation touches a player.
Entry == [way : {"up", "down", "out", "cancelled", "opened"}, key : Players]

\* participant_removal_keys and participant_removal_notified_keys
Removal == [op : OperationIds, entries : SUBSET Entry, done : SUBSET Entry]

Game == [exists : BOOLEAN, status : GameStatuses, archived : BOOLEAN, amount : Nat,
         reserve : Promotion, link : Promotion, removal : Removal]

\* `player` is the author or the target, `replaced` the games a confirmation
\* gives up (at most one); both are empty when the kind has none.
Command == [op : 1 .. MaxOps, kind : Kinds, event : Events, player : SUBSET Players,
            replaced : SUBSET Events, amount : Amounts \cup {0}]

Groups == ({"event"} \X Events) \cup ({"player"} \X Players)

Key(c) == CHOOSE p \in Players : p \in c.player

\* Variant: confirmations are ordered per game, like everything else.
GroupOfGame(c) == <<"event", c.event>>

\* queue_group_id
GroupOf(c) == IF c.kind = "confirm" THEN <<"player", Key(c)>> ELSE <<"event", c.event>>

\* `look` reads the queue again, `write` changes the registrations or the game,
\* `read` collects the notices that are due and `send` sends one of them.
Steps == {"removal", "look", "reserve", "link", "write", "erase", "drop",
          "tellReserve", "tellLink", "read", "send", "reply"}

\* What an attempt has read so far; no steps are left of an attempt not begun.
Attempt == [todo : Seq(Steps), refused : BOOLEAN, denied : BOOLEAN, amount : Nat, entries : SUBSET Entry,
            candidates : SUBSET Players, confirmed : SUBSET Players, time : Nat,
            mate : SUBSET Players, mateTime : Nat, replaced : SUBSET Events]

Idle == [todo |-> <<>>, refused |-> FALSE, denied |-> FALSE, amount |-> 0, entries |-> {},
         candidates |-> {}, confirmed |-> {}, time |-> 0,
         mate |-> {}, mateTime |-> 0, replaced |-> {}]

TypeOK ==
    /\ games \in [Events -> Game]
    /\ rows \in [Events -> Rows]
    /\ queue \in [Groups -> Seq(Command)]
    /\ \A g \in Groups : \A i \in 1 .. Len(queue[g]) : GroupOf(queue[g][i]) = g
    /\ work \in [Groups -> Attempt]
    /\ published \in 0 .. MaxOps /\ crashes \in 0 .. MaxCrashes
    /\ \A g \in Groups : work[g].todo # <<>> => queue[g] # <<>>

-----------------------------------------------------------------------------
Live(e) == games[e].exists /\ ~games[e].archived

Conflict(e, f) == e # f /\ {e, f} \in Conflicts

ConfirmedIn(p) == {e \in Events : Live(e) /\ rows[e][p].status = "confirmed"}

\* A player has confirmed at most one of the games of a date whose times
\* conflict (README: "only one can ultimately be confirmed").
OneConfirmedPerDate ==
    \A p \in Players : \A e, f \in ConfirmedIn(p) : ~Conflict(e, f)

NewGame(amount) ==
    [exists |-> TRUE, status |-> StartStatus, archived |-> FALSE, amount |-> amount,
     reserve |-> [op |-> NoOperation, keys |-> {}, done |-> FALSE],
     link |-> [op |-> NoOperation, keys |-> {}, done |-> FALSE],
     removal |-> [op |-> NoOperation, entries |-> {}, done |-> {}]]

Init ==
    /\ games \in [Events -> {NewGame(a) : a \in Amounts}]
    /\ rows \in [Events -> StartRows]
    /\ OneConfirmedPerDate
    /\ queue = [g \in Groups |-> <<>>]
    /\ work = [g \in Groups |-> Idle]
    /\ published = 0 /\ crashes = 0
    /\ moved = {} /\ told = {} /\ applied = {}

-----------------------------------------------------------------------------
(***************************************************************************)
(* Publishing: RegistrationService.enqueue                                 *)
(***************************************************************************)

\* The dialogue offers to replace the conflicting game that is confirmed.
Replaceable(kind, e, p) ==
    IF kind = "confirm"
    THEN {{}} \cup {{f} : f \in {f \in ConfirmedIn(p) : Conflict(e, f)}}
    ELSE {{}}

Commands(op) ==
    (UNION {
      {[op |-> op, kind |-> k, event |-> e, player |-> {p}, replaced |-> r, amount |-> 0] :
          r \in Replaceable(k, e, p)} :
              k \in Kinds \cap (ByPlayer \cup ByTarget), e \in Events, p \in Players})
    \cup {[op |-> op, kind |-> k, event |-> e, player |-> {}, replaced |-> {}, amount |-> 0] :
              k \in Kinds \cap (ByMaster \ {"amount"}), e \in Events}
    \cup {[op |-> op, kind |-> k, event |-> e, player |-> {}, replaced |-> {}, amount |-> a] :
              k \in Kinds \cap {"amount"}, e \in Events, a \in Amounts}

\* Signup is refused before publishing as well while registration is closed.
Publish ==
    /\ published < MaxOps
    /\ \E c \in Commands(published + 1) :
        /\ games[c.event].exists
        /\ c.kind = "enlist" => games[c.event].status # "closed"
        /\ queue' = [queue EXCEPT ![GroupOf(c)] = Append(@, c)]
    /\ published' = published + 1
    /\ UNCHANGED <<games, rows, work, crashes, history>>

-----------------------------------------------------------------------------
(***************************************************************************)
(* The reads of an attempt, and what it refuses                            *)
(***************************************************************************)
Begin(g, todo, attempt) ==
    /\ work' = [work EXCEPT ![g] = [attempt EXCEPT !.todo = todo]]
    /\ UNCHANGED <<games, rows, queue, published, crashes, history>>

When(condition, steps) == IF condition THEN steps ELSE <<>>

Entries(way, keys) == {[way |-> way, key |-> p] : p \in keys}

\* _current_sift_entries: the recorded moves that still match the roster.
Current(entries, r, amount) ==
    {n \in entries :
        \/ n.way = "up" /\ r[n.key].status = "confirmed" /\ n.key \in MainRoster(r, amount)
        \/ n.way = "down" /\ r[n.key].status = "waiting" /\ n.key \notin MainRoster(r, amount)}

RowOf(c) == rows[c.event][Key(c)]

GameOf(c) == games[c.event]

EnlistRefused(c) ==
    \/ GameOf(c).status = "closed"
    \/ RowOf(c).status \in {"waiting", "confirmed"} /\ RowOf(c).op # c.op

\* Other games of the date that the player has confirmed; archived games are
\* not looked at.
Elsewhere(c) == {f \in ConfirmedIn(Key(c)) : Conflict(c.event, f)}

AlreadyApplied(c) == RowOf(c).op = c.op /\ RowOf(c).status = "confirmed"

ConfirmRefused(c) ==
    \/ GameOf(c).status # "confirmation_open"
    \/ RowOf(c).status \in {"none", "cancelled"}
    \/ Elsewhere(c) # {} /\ Elsewhere(c) # c.replaced
    \/ Elsewhere(c) = {} /\ c.replaced # {} /\ ~AlreadyApplied(c)
    \/ \E f \in c.replaced : ~games[f].exists

\* Variant: a retry is not recognised.
NeverSwapped(c) == FALSE

\* A retry finds the moves it recorded in place.
AlreadySwapped(c) ==
    /\ GameOf(c).removal.op = c.op
    /\ [way |-> "up", key |-> Key(c)]
            \in Current(GameOf(c).removal.entries, rows[c.event], GameOf(c).amount)

PromoteRefused(c) ==
    \/ Key(c) \notin Active(rows[c.event])
    \/ /\ ~AlreadySwapped(c)
       /\ ~\E p \in Players : IsSwap(rows[c.event], GameOf(c).amount, Key(c), p)

Refused(c) ==
    \/ ~GameOf(c).exists /\ c.kind \notin {"archive", "delete"}
    \/ GameOf(c).archived /\ c.kind \notin {"archive", "unarchive", "delete"}
    \/ c.kind = "delete" /\ GameOf(c).exists /\ ~GameOf(c).archived
    \/ c.kind = "enlist" /\ EnlistRefused(c)
    \/ c.kind = "confirm" /\ ConfirmRefused(c)
    \/ c.kind = "promote" /\ PromoteRefused(c)
    \/ c.kind = "remove" /\ RowOf(c).status = "cancelled"
    \/ c.kind = "cancel" /\ RowOf(c).status = "none"
    \/ c.kind = "touch" /\ RowOf(c).status \in {"none", "cancelled"}

Refuse(g) == Begin(g, <<"reply">>, [Idle EXCEPT !.refused = TRUE])

\* The author's rights over the game or the archive, the links between their
\* profiles, a complete profile and the opening of the registration are read
\* by every attempt and written by the gateway outside the game's group: an
\* attempt that gets as far as these checks may be denied, whatever the
\* earlier ones of the same command were.
Deniable(c) ==
    /\ GameOf(c).exists
    /\ GameOf(c).archived => c.kind \in {"unarchive", "delete"}
    /\ c.kind = "enlist" => GameOf(c).status # "closed"
    /\ c.kind = "confirm" => GameOf(c).status = "confirmation_open"

Deny(g) == Begin(g, <<"reply">>, [Idle EXCEPT !.refused = TRUE, !.denied = TRUE])

LoadEnlist(g, c) ==
    /\ c.kind = "enlist"
    /\ \/ RowOf(c).op = c.op /\ Begin(g, <<"reply">>, Idle)
       \/ /\ RowOf(c).op # c.op
          /\ \E now \in Clock, time \in Times :
              /\ IsQueueTime(rows[c.event], now, time)
              /\ Begin(g, <<"write", "reply">>, [Idle EXCEPT !.time = time])

\* Variant: the records are made on every attempt.
PromotionsAgain(e, c, eligible) ==
    When(eligible, <<"look">>) \o <<"reserve", "link">>

\* _record_promotions looks at the queue only for a row that is not cancelled;
\* each record is made once per operation.
Promotions(e, c, eligible) ==
    LET reserve == games[e].reserve.op # c.op
        link == games[e].link.op # c.op
    IN  When(eligible /\ (reserve \/ link), <<"look">>)
        \o When(reserve, <<"reserve">>) \o When(link, <<"link">>)

LoadCancel(g, c) ==
    /\ c.kind = "cancel"
    /\ LET active == RowOf(c).status # "cancelled" IN
        Begin(g,
              When(GameOf(c).removal.op # c.op, <<"removal">>)
              \o Promotions(c.event, c, active)
              \o <<"write", "tellReserve", "tellLink", "read", "send", "reply">>,
              [Idle EXCEPT !.amount = GameOf(c).amount,
                           !.entries = IF active THEN Entries("cancelled", c.player) ELSE {}])

LoadRemove(g, c) ==
    /\ c.kind = "remove"
    /\ LET present == RowOf(c).status # "none" IN
        Begin(g,
              When(GameOf(c).removal.op # c.op, <<"removal">>)
              \o Promotions(c.event, c, present)
              \o When(present, <<"write">>)
              \o <<"read", "send", "tellReserve", "tellLink", "reply">>,
              [Idle EXCEPT !.amount = GameOf(c).amount,
                           !.entries = IF present THEN Entries("out", c.player) ELSE {}])

\* The game given up is dropped from the command if it is no longer confirmed.
LoadConfirm(g, c) ==
    /\ c.kind = "confirm"
    /\ LET given(f) == rows[f][Key(c)].status
           replaced == {f \in c.replaced : given(f) = "confirmed" \/ AlreadyApplied(c)}
           game == CHOOSE f \in replaced : TRUE
           promote == IF replaced = {} THEN <<>>
                      ELSE Promotions(game, c, given(game) \in {"waiting", "confirmed"})
       IN Begin(g,
                promote \o <<"write">>
                \o When(replaced # {}, <<"tellReserve", "tellLink">>) \o <<"reply">>,
                [Idle EXCEPT !.replaced = replaced,
                             !.amount = IF replaced = {} THEN 0 ELSE games[game].amount])

\* The moves are those of the queue before and after, whatever the shift is.
LoadSift(g, c) ==
    /\ c.kind = "sift"
    /\ LET r == rows[c.event]
           amount == GameOf(c).amount
           main == MainRoster(r, amount)
       IN \/ /\ Sifted(r)
             /\ Begin(g, When(GameOf(c).removal.op # c.op, <<"removal">>)
                         \o <<"read", "send", "reply">>, Idle)
          \/ /\ ~Sifted(r)
             /\ \E shift \in Times :
                 /\ IsShift(r, shift)
                 /\ LET after == MainRoster(SiftRows(r, shift), amount) IN
                     Begin(g, <<"removal", "look", "write", "read", "send", "reply">>,
                           [Idle EXCEPT !.entries = Entries("up", after \ main)
                                                    \cup Entries("down", main \ after)])

LoadPromote(g, c) ==
    /\ c.kind = "promote"
    /\ \/ AlreadySwapped(c) /\ Begin(g, <<"read", "send", "reply">>, Idle)
       \/ /\ ~AlreadySwapped(c)
          /\ \E p \in Players :
              /\ IsSwap(rows[c.event], GameOf(c).amount, Key(c), p)
              /\ Begin(g, <<"removal", "write", "read", "send", "reply">>,
                       [Idle EXCEPT !.entries = Entries("up", c.player) \cup Entries("down", {p}),
                                    !.time = RowOf(c).at,
                                    !.mate = {p}, !.mateTime = rows[c.event][p].at])

LoadAmount(g, c) ==
    /\ c.kind = "amount"
    /\ LET r == rows[c.event] IN
        Begin(g, When(GameOf(c).removal.op # c.op, <<"removal">>)
                 \o <<"write", "read", "send", "reply">>,
              [Idle EXCEPT !.entries =
                  Entries("up", MainRoster(r, c.amount) \ MainRoster(r, GameOf(c).amount))])

\* Participants are notified only when this attempt finds confirmation closed.
LoadStatus(g, c) ==
    \/ c.kind \in {"touch", "open", "close"} /\ Begin(g, <<"write", "reply">>, Idle)
    \/ /\ c.kind = "open_confirmation"
       /\ Begin(g, <<"write">>
                   \o When(GameOf(c).status # "confirmation_open", <<"read", "send">>)
                   \o <<"reply">>, Idle)

LoadArchival(g, c) ==
    \/ /\ c.kind = "archive"
       /\ Begin(g, When(GameOf(c).exists /\ ~GameOf(c).archived, <<"write">>) \o <<"reply">>, Idle)
    \/ /\ c.kind = "unarchive"
       /\ Begin(g, When(GameOf(c).archived, <<"write">>) \o <<"reply">>, Idle)
    \/ /\ c.kind = "delete"
       /\ Begin(g, When(GameOf(c).exists, <<"erase", "drop">>) \o <<"reply">>, Idle)

Load(g) ==
    /\ queue[g] # <<>> /\ work[g].todo = <<>>
    /\ LET c == Head(queue[g]) IN
        \/ Deniable(c) /\ Deny(g)
        \/ Refused(c) /\ Refuse(g)
        \/ /\ ~Refused(c)
           /\ \/ LoadEnlist(g, c) \/ LoadCancel(g, c) \/ LoadRemove(g, c)
              \/ LoadConfirm(g, c) \/ LoadSift(g, c) \/ LoadPromote(g, c)
              \/ LoadAmount(g, c) \/ LoadStatus(g, c) \/ LoadArchival(g, c)

-----------------------------------------------------------------------------
(***************************************************************************)
(* The steps of an attempt                                                 *)
(***************************************************************************)
At(g, step) == work[g].todo # <<>> /\ Head(work[g].todo) = step

CommandAt(g) == Head(queue[g])

Continue(g, attempt) == work' = [work EXCEPT ![g] = [attempt EXCEPT !.todo = Tail(@)]]

\* The game whose reserve an operation draws on.
DrawnOn(g) ==
    IF CommandAt(g).kind = "confirm"
    THEN CHOOSE f \in work[g].replaced : TRUE
    ELSE CommandAt(g).event

\* set_participant_removal, or add_participant_removal_keys when the record
\* is already the operation's own.
RecordRemoval(g) ==
    /\ At(g, "removal")
    /\ LET c == CommandAt(g)
           old == games[c.event].removal
       IN games' = [games EXCEPT ![c.event].removal =
            IF old.op = c.op
            THEN [old EXCEPT !.entries = @ \cup work[g].entries]
            ELSE [op |-> c.op, entries |-> work[g].entries, done |-> {}]]
    /\ Continue(g, work[g])
    /\ UNCHANGED <<rows, queue, published, crashes, history>>

\* The first reserve player, if the leaving one holds a main-roster place.
Promoted(r, p, amount) ==
    {q \in Active(r) :
        /\ Position(r, q) = amount
        /\ p \in Active(r) /\ Position(r, p) < amount}

\* list_for_event in _record_promotions, and in sift_waiting_to_end.
Look(g) ==
    /\ At(g, "look")
    /\ LET c == CommandAt(g)
           r == rows[DrawnOn(g)]
       IN IF c.kind = "sift"
          THEN \/ Active(r) = {} /\ Continue(g, [work[g] EXCEPT !.todo = Tail(@)])  \* nothing to write
               \/ \E shift \in Times :
                   IsShift(r, shift) /\ Continue(g, [work[g] EXCEPT !.time = shift])
          ELSE LET keys == Promoted(r, Key(c), work[g].amount) IN
               Continue(g, [work[g] EXCEPT
                   !.candidates = keys,
                   !.confirmed = {q \in keys : r[q].status = "confirmed"}])
    /\ UNCHANGED <<games, rows, queue, published, crashes, history>>

RecordReserve(g) ==
    /\ At(g, "reserve")
    /\ games' = [games EXCEPT ![DrawnOn(g)].reserve =
            [@ EXCEPT !.op = CommandAt(g).op, !.keys = work[g].candidates, !.done = FALSE]]
    /\ Continue(g, work[g])
    /\ UNCHANGED <<rows, queue, published, crashes, history>>

RecordLink(g) ==
    /\ At(g, "link")
    /\ games' = [games EXCEPT ![DrawnOn(g)].link =
            [@ EXCEPT !.op = CommandAt(g).op, !.keys = work[g].confirmed, !.done = FALSE]]
    /\ Continue(g, work[g])
    /\ UNCHANGED <<rows, queue, published, crashes, history>>

\* What a write changes for the players, as the history variable keeps it.
\* Nobody is told when masters lower the capacity.
Moves(c, newGames, newRows) ==
    UNION {
        LET main == MainRoster(rows[e], games[e].amount)
            reserve == ReserveRoster(rows[e], games[e].amount)
            newMain == MainRoster(newRows[e], newGames[e].amount)
            newReserve == ReserveRoster(newRows[e], newGames[e].amount)
            opened == games[e].status # "confirmation_open"
                      /\ newGames[e].status = "confirmation_open"
            ways == Entries("up", reserve \cap newMain)
                    \cup Entries("down", IF c.kind = "amount" THEN {} ELSE main \cap newReserve)
                    \cup Entries("out", {p \in c.player : c.kind = "remove" /\ e = c.event
                                                          /\ newRows[e][p] # rows[e][p]})
                    \cup Entries("cancelled", {p \in c.player :
                                    /\ c.kind = "cancel" /\ p \in Active(rows[e])
                                    /\ p \notin Active(newRows[e])})
                    \cup Entries("opened", IF opened THEN WithStatus(rows[e], "waiting") ELSE {})
        IN {[op |-> c.op, event |-> e, way |-> n.way, key |-> n.key] : n \in ways}
        : e \in Events}

\* A write made by the attempt at the head of group g.
Commit(g, newGames, newRows) ==
    LET c == CommandAt(g) IN
    /\ games' = newGames /\ rows' = newRows
    /\ moved' = moved \cup Moves(c, newGames, newRows)
    /\ applied' = IF <<newGames, newRows>> = <<games, rows>> THEN applied ELSE applied \cup {c.op}
    /\ Continue(g, work[g])
    /\ UNCHANGED <<queue, published, crashes, told>>

WriteEnlist(g) ==
    /\ At(g, "write") /\ CommandAt(g).kind = "enlist"
    /\ LET c == CommandAt(g) IN
        Commit(g, games, [rows EXCEPT ![c.event] = EnlistRow(@, Key(c), c.op, work[g].time)])

WriteCancel(g) ==
    /\ At(g, "write") /\ CommandAt(g).kind = "cancel"
    /\ LET c == CommandAt(g) IN
        Commit(g, games, [rows EXCEPT ![c.event] = CancelRow(@, Key(c), c.op)])

WriteTouch(g) ==
    /\ At(g, "write") /\ CommandAt(g).kind = "touch"
    /\ LET c == CommandAt(g) IN
        Commit(g, games, [rows EXCEPT ![c.event] = TouchRow(@, Key(c), c.op)])

WriteRemove(g) ==
    /\ At(g, "write") /\ CommandAt(g).kind = "remove"
    /\ LET c == CommandAt(g) IN
        Commit(g, games, [rows EXCEPT ![c.event][Key(c)] = NoRow])

\* One transaction gives up the other game and confirms this one; neither
\* statement looks at the status of its row.
WriteConfirm(g) ==
    /\ At(g, "write") /\ CommandAt(g).kind = "confirm"
    /\ LET c == CommandAt(g)
           p == Key(c)
           GiveUp(r) == IF p \in Linked THEN CancelRow(r, p, c.op) ELSE [r EXCEPT ![p] = NoRow]
       IN Commit(g, games, [e \in Events |->
            IF e = c.event THEN ConfirmRow(rows[e], p, c.op)
            ELSE IF e \in work[g].replaced THEN GiveUp(rows[e]) ELSE rows[e]])

WriteSift(g) ==
    /\ At(g, "write") /\ CommandAt(g).kind = "sift"
    /\ Commit(g, games, [rows EXCEPT ![CommandAt(g).event] = SiftRows(@, work[g].time)])

\* Variant: the two signup times are passed in the wrong order.
WritePromoteUnswapped(g) ==
    /\ At(g, "write") /\ CommandAt(g).kind = "promote"
    /\ LET c == CommandAt(g) IN
        \E p \in work[g].mate :
            Commit(g, games, [rows EXCEPT ![c.event] =
                SwapRows(@, c.op, Key(c), work[g].mateTime, p, work[g].time)])

WritePromote(g) ==
    /\ At(g, "write") /\ CommandAt(g).kind = "promote"
    /\ LET c == CommandAt(g) IN
        \E p \in work[g].mate :
            Commit(g, games, [rows EXCEPT ![c.event] =
                SwapRows(@, c.op, Key(c), work[g].time, p, work[g].mateTime)])

WriteAmount(g) ==
    /\ At(g, "write") /\ CommandAt(g).kind = "amount"
    /\ Commit(g, [games EXCEPT ![CommandAt(g).event].amount = CommandAt(g).amount], rows)

NewStatus(kind) ==
    CASE kind = "open" -> "created"
      [] kind = "close" -> "closed"
      [] kind = "open_confirmation" -> "confirmation_open"

WriteStatus(g) ==
    /\ At(g, "write") /\ CommandAt(g).kind \in {"open", "close", "open_confirmation"}
    /\ LET c == CommandAt(g) IN
        Commit(g, [games EXCEPT ![c.event].status = NewStatus(c.kind)], rows)

\* archive closes the game; unarchive leaves it closed.
WriteArchival(g) ==
    /\ At(g, "write") /\ CommandAt(g).kind \in {"archive", "unarchive"}
    /\ LET e == CommandAt(g).event IN
        Commit(g,
               IF CommandAt(g).kind = "archive"
               THEN [games EXCEPT ![e].status = "closed", ![e].archived = TRUE]
               ELSE [games EXCEPT ![e].archived = FALSE],
               rows)

\* DELETE_EVENT: the registrations first, the game afterwards.
EraseRows(g) ==
    /\ At(g, "erase")
    /\ Commit(g, games, [rows EXCEPT ![CommandAt(g).event] = [p \in Players |-> NoRow]])

DropGame(g) ==
    /\ At(g, "drop")
    /\ Commit(g, [games EXCEPT ![CommandAt(g).event].exists = FALSE], rows)

Write(g) ==
    \/ WriteEnlist(g) \/ WriteCancel(g) \/ WriteTouch(g) \/ WriteRemove(g) \/ WriteConfirm(g)
    \/ WriteSift(g) \/ WritePromote(g) \/ WriteAmount(g) \/ WriteStatus(g) \/ WriteArchival(g)
    \/ EraseRows(g) \/ DropGame(g)

Notices(op, entries) == {[op |-> op, way |-> n.way, key |-> n.key] : n \in entries}

\* notify_reserve_promotion: whoever is recorded for this operation now.
TellReserve(g) ==
    /\ At(g, "tellReserve")
    /\ LET e == DrawnOn(g)
           due == games[e].reserve.op = CommandAt(g).op /\ ~games[e].reserve.done
                  /\ games[e].reserve.keys # {}
       IN IF due
          THEN /\ told' = told \cup Notices(CommandAt(g).op, Entries("up", games[e].reserve.keys))
               /\ games' = [games EXCEPT ![e].reserve.done = TRUE]
          ELSE UNCHANGED <<told, games>>
    /\ Continue(g, work[g])
    /\ UNCHANGED <<rows, queue, published, crashes, moved, applied>>

\* notify_confirmed_link_promotion: the stored chat links.
TellLink(g) ==
    /\ At(g, "tellLink")
    /\ LET e == DrawnOn(g) IN
        games' = IF games[e].link.op = CommandAt(g).op /\ games[e].link.keys # {}
                 THEN [games EXCEPT ![e].link.done = TRUE]
                 ELSE games
    /\ Continue(g, work[g])
    /\ UNCHANGED <<rows, queue, published, crashes, history>>

\* The notices that the snapshot still owes; a broadcast owes every player
\* who has not confirmed.
Due(c) ==
    LET game == games[c.event]
        r == rows[c.event]
        owed == game.removal.entries \ game.removal.done
    IN  IF c.kind = "open_confirmation" THEN Entries("opened", WithStatus(r, "waiting"))
        ELSE IF game.removal.op # c.op THEN {}
        ELSE IF c.kind \in {"sift", "promote"} THEN Current(owed, r, game.amount)
        ELSE owed

Read(g) ==
    /\ At(g, "read")
    /\ Continue(g, [work[g] EXCEPT !.entries = Due(CommandAt(g))])
    /\ UNCHANGED <<games, rows, queue, published, crashes, history>>

Send(g) ==
    /\ At(g, "send")
    /\ \E n \in work[g].entries :
        LET c == CommandAt(g) IN
        /\ told' = told \cup Notices(c.op, {n})
        /\ games' = IF n.way # "opened" /\ games[c.event].removal.op = c.op
                    THEN [games EXCEPT ![c.event].removal.done = @ \cup {n}]
                    ELSE games
        /\ work' = [work EXCEPT ![g].entries = @ \ {n}]
    /\ UNCHANGED <<rows, queue, published, crashes, moved, applied>>

AllSent(g) ==
    /\ At(g, "send") /\ work[g].entries = {}
    /\ Continue(g, work[g])
    /\ UNCHANGED <<games, rows, queue, published, crashes, history>>

\* A notification finds the game deleted: EventNotFound is a refusal.
LoseGame(g) ==
    /\ At(g, "tellReserve") \/ At(g, "tellLink") \/ At(g, "read")
    /\ ~games[DrawnOn(g)].exists
    /\ Refuse(g)

\* The author is answered and the message is deleted from the FIFO.
Reply(g) ==
    /\ At(g, "reply")
    /\ queue' = [queue EXCEPT ![g] = Tail(@)]
    /\ work' = [work EXCEPT ![g] = Idle]
    /\ UNCHANGED <<games, rows, published, crashes, history>>

\* An exception, the worker's deadline or a killed instance: what the attempt
\* has written stays, the message becomes visible again.
Fail(g) ==
    /\ work[g].todo # <<>> /\ crashes < MaxCrashes
    /\ work' = [work EXCEPT ![g] = Idle]
    /\ crashes' = crashes + 1
    /\ UNCHANGED <<games, rows, queue, published, history>>

Step(g) ==
    \/ Load(g)
    \/ RecordRemoval(g) \/ Look(g) \/ RecordReserve(g) \/ RecordLink(g)
    \/ Write(g)
    \/ TellReserve(g) \/ TellLink(g) \/ Read(g) \/ Send(g) \/ AllSent(g)
    \/ LoseGame(g)
    \/ Reply(g)

\* Every published command has been answered.
Done ==
    /\ published = MaxOps /\ \A g \in Groups : queue[g] = <<>>
    /\ UNCHANGED vars

Next == Publish \/ (\E g \in Groups : Step(g) \/ Fail(g)) \/ Done

Spec == Init /\ [][Next]_vars

-----------------------------------------------------------------------------
(***************************************************************************)
(* Properties                                                              *)
(***************************************************************************)

\* No two active players share a place in a game's queue.
QueueTimesDistinct == \A e \in Events : DistinctTimes(rows[e])

\* A game as the atomic specification sees it.
AtomicGame(e) == INSTANCE Roster WITH rows <- rows[e], amount <- games[e].amount

\* Every step on the queue of a game is an operation of Roster, made once and
\* on current data, or changes nothing: the reads of an attempt are still true
\* when it writes, and a repeated attempt writes nothing more.
ImplementsRoster ==
    /\ \A e \in Events : AtomicGame(e)!RosterInit
    /\ [][\A e \in Events : [AtomicGame(e)!RosterNext]_(AtomicGame(e)!rosterVars)]_vars

\* A player is still where a move has put them.
Holds(m) ==
    LET r == rows[m.event]
        main == MainRoster(r, games[m.event].amount)
    IN  CASE m.way = "up" -> m.key \in main
          [] m.way = "down" -> r[m.key].status = "waiting" /\ m.key \notin main
          [] m.way = "opened" -> r[m.key].status = "waiting"
          [] OTHER -> TRUE

Untold(op, ways) ==
    {m \in moved : m.op = op /\ m.way \in ways /\ Holds(m)
                   /\ [op |-> op, way |-> m.way, key |-> m.key] \notin told}

\* A command is answered, and leaves the queue, only after every player it
\* moved between main roster and reserve, removed or cancelled has been told
\* (the masters, for a cancellation), however often the attempt was repeated,
\* unless a repetition finds its author denied: the check comes before the
\* notices, so whoever an earlier attempt moved is then never told.
MovesAreTold ==
    [][\A g \in Groups :
        At(g, "reply") /\ queue'[g] # queue[g] /\ ~work[g].denied
        => Untold(CommandAt(g).op, {"up", "down", "out", "cancelled"}) = {}]_vars

\* Of those, the players who came from the reserve into the main roster:
\* "every reserve player crossing into the main roster receives one retry-safe
\* notification" (README.md:139).
PromotionsAreTold ==
    [][\A g \in Groups :
        At(g, "reply") /\ queue'[g] # queue[g]
        => Untold(CommandAt(g).op, {"up"}) = {}]_vars

\* The master who opens confirmation is answered only after the players who
\* have not confirmed have been told.
CompletionFollowsNotifications ==
    [][\A g \in Groups :
        At(g, "reply") /\ queue'[g] # queue[g]
        => Untold(CommandAt(g).op, {"opened"}) = {}]_vars

\* The state of the game and of its registrations never turns an operation
\* that took effect into a refusal when it is retried: what its first attempt
\* changed, and what other commands changed since, does not read as an
\* obstacle.  Rights, links and the opening are no part of that state (Deniable).
AppliedIsNeverRefused ==
    \A g \in Groups :
        work[g].refused /\ ~work[g].denied => CommandAt(g).op \notin applied

\* An operation that has changed the registrations does not change them again
\* when it is retried (a sift may: players go on confirming meanwhile).
RetryNeverReapplies ==
    [][\A g \in Groups :
        /\ At(g, "write") /\ work'[g] # work[g]
        /\ CommandAt(g).op \in applied /\ CommandAt(g).kind # "sift"
        => rows' = rows]_vars

\* The snapshot of an operation is not replaced while the operation is still
\* in its queue (ordered_mutations.py: "FIFO ordering prevents another event
\* command from replacing it before every notification attempt has completed").
SnapshotOutlivesCommand ==
    [][\A e \in Events :
        games'[e].removal.op # games[e].removal.op
        => \A g \in Groups : \A i \in 1 .. Len(queue[g]) :
            queue[g][i].op # games[e].removal.op]_vars

\* CLOSED accepts neither enlistment nor confirmation.
ClosedAcceptsNothing ==
    [][\A e \in Events, p \in Players :
        games[e].status = "closed" /\ rows'[e][p].status # rows[e][p].status
        => rows'[e][p].status \in {"none", "cancelled"}]_vars

\* A confirmation that gives up another game ends with its own game confirmed.
ReplacementConfirms ==
    [][\A g \in Groups :
        At(g, "write") /\ work'[g] # work[g] /\ work[g].replaced # {}
        => LET c == CommandAt(g) IN rows'[c.event][Key(c)].status = "confirmed"]_vars

\* A confirmed player of the main roster stays in it while the registration is
\* active and the capacity is not lowered, whatever the masters' sift had read
\* before the confirmation.
ConfirmedKeepsMainPlace ==
    [][\A e \in Events : \A p \in MainRoster(rows[e], games[e].amount) :
        /\ rows[e][p].status = "confirmed" /\ p \in Active(rows'[e])
        /\ games'[e].amount >= games[e].amount
        => p \in MainRoster(rows'[e], games'[e].amount)]_vars

\* Nobody who waits, newly signed up or not, overtakes a confirmed player.
ConfirmedNeverOvertaken ==
    [][\A e \in Events :
        \A p \in Active(rows[e]) \cap Active(rows'[e]), q \in WithStatus(rows'[e], "waiting") :
            /\ rows[e][p].status = "confirmed"
            /\ ~(q \in Active(rows[e]) /\ Before(rows[e], q, p))
            => Before(rows'[e], p, q)]_vars

-----------------------------------------------------------------------------
\* The worker keeps receiving from every FIFO group that has a command.
Fairness == \A g \in Groups : WF_vars(Step(g))

FairSpec == Spec /\ Fairness
=============================================================================
