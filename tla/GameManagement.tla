--------------------------- MODULE GameManagement ---------------------------
(***************************************************************************)
(* The administration dialogues of a game (conversation_admin_dialog.py,   *)
(* conversation_admin_games.py, conversation_admin_rosters.py and the      *)
(* question editor of conversation_questions.py), beside the dialogues of  *)
(* roles and masters, and the worker that applies what they order.         *)
(*                                                                         *)
(* A dialogue checks the rights of its actor with every message; the order *)
(* it publishes waits in the game's queue and is checked again when it is  *)
(* applied.  Meanwhile other administrators and masters, the worker and    *)
(* the players change what the dialogue was shown.                         *)
(***************************************************************************)
EXTENDS RoleManagement

CONSTANTS MaxMoves   \* bound: confirmations and cancellations of players

ASSUME GameManagementAssumption == MaxMoves \in Nat

VARIABLES
    rosters,    \* active registrations of each game, in the order of the roster
    queue,      \* orders not yet applied, a FIFO per game
    published,  \* history: orders
    moves

gameVars == <<rosters, queue, published, moves>>

vars == <<roleVars, gameVars>>

-----------------------------------------------------------------------------
Status == {"created", "confirmation", "closed"}

\* `closing`: the automatic closing has begun; `question`: it asks one;
\* `edits`: what was changed; `links`: the message whose links to posts it has.
Game == [exists : BOOLEAN, archived : BOOLEAN, status : Status, closing : BOOLEAN,
         question : BOOLEAN, edits : SUBSET STRING, links : 0 .. MaxMessages]

Registration == [who : Players, confirmed : BOOLEAN]

\* About: what the pressed button's message was about.
Order == [op : STRING, actor : Profiles, game : Games, who : Subjects,
          message : 1 .. MaxMessages, about : About]

TypeOK ==
    /\ RoleTypeOK
    /\ games \in [Games -> Game]
    /\ rosters \in [Games -> Seq(Registration)]
    /\ queue \in [Games -> Seq(Order)]
    /\ \A g \in Games : ToSet(queue[g]) \subseteq published
    /\ published \subseteq Order
    /\ moves \in 0 .. MaxMoves

Init ==
    \E start \in Starts :
        /\ RoleInit(start)
        /\ rosters = start.rosters
        /\ queue = [g \in Games |-> <<>>]
        /\ published = {}
        /\ moves = start.moves

-----------------------------------------------------------------------------
(***************************************************************************)
(* The roster, of one place (player_amount = 1)                            *)
(***************************************************************************)
Capacity == 1

Waiting(g) == {r.who : r \in {q \in ToSet(rosters[g]) : ~q.confirmed}}

Registered(g) == {r.who : r \in ToSet(rosters[g])}

Main(g) == ToSet(SubSeq(rosters[g], 1, IF Len(rosters[g]) < Capacity THEN Len(rosters[g]) ELSE Capacity))

HasUnconfirmedMain(g) == \E r \in Main(g) : ~r.confirmed

ConfirmedReserve(g) == {r.who : r \in {q \in ToSet(rosters[g]) \ Main(g) : q.confirmed}}

CanPromote(g, p) == HasUnconfirmedMain(g) /\ p \in ConfirmedReserve(g)

-----------------------------------------------------------------------------
(***************************************************************************)
(* The worker                                                              *)
(***************************************************************************)
\* Variant: a game is deleted whatever became of it meanwhile.
PermittedAnyDelete(c) ==
    LET row == games[c.game]
    IN /\ row.exists
       /\ \/ c.op \in {"unarchive", "delete"} /\ IsAdmin(c.actor)
          \/ c.op \notin {"unarchive", "delete"} /\ ~row.archived /\ Manages(c.actor, c.game)

Permitted(c) ==
    LET row == games[c.game]
    IN /\ row.exists
       /\ \/ c.op = "unarchive" /\ IsAdmin(c.actor)
          \/ c.op = "delete" /\ IsAdmin(c.actor) /\ row.archived
          \/ c.op \notin {"unarchive", "delete"} /\ ~row.archived /\ Manages(c.actor, c.game)

\* What an order makes of the game's row.
Ordered(c) ==
    LET row == games[c.game]
    IN CASE c.op = "unarchive" -> [row EXCEPT !.archived = FALSE]
         [] c.op = "delete" -> [row EXCEPT !.exists = FALSE]
         [] c.op = "archive" -> [row EXCEPT !.archived = TRUE, !.status = "closed"]
         [] c.op = "registration" -> [row EXCEPT !.status = "created"]
         [] c.op = "confirmation" -> [row EXCEPT !.status = "confirmation"]
         [] c.op = "close" -> [row EXCEPT !.status = "closed"]
         [] c.op \in {"details", "amount", "question"} -> [row EXCEPT !.edits = @ \cup {c.op}]
         [] OTHER -> row

\* The place of the last unconfirmed player of the main roster goes to p.
Swapped(g, p) ==
    LET old == Cardinality(Main(g))
        new == CHOOSE i \in DOMAIN rosters[g] : rosters[g][i].who = p
    IN [rosters[g] EXCEPT ![old] = rosters[g][new], ![new] = rosters[g][old]]

OrderedRoster(c) ==
    LET roster == rosters[c.game]
    IN CASE c.op = "remove" -> SelectSeq(roster, LAMBDA r : r.who # c.who)
         [] c.op = "promote" /\ CanPromote(c.game, c.who) -> Swapped(c.game, c.who)
         [] c.op = "sift" -> SelectSeq(roster, LAMBDA r : r.confirmed)
                                 \o SelectSeq(roster, LAMBDA r : ~r.confirmed)
         [] c.op = "delete" -> <<>>
         [] OTHER -> roster

\* A refused order is answered and gone.
Apply(g) ==
    /\ queue[g] # <<>>
    /\ queue' = [queue EXCEPT ![g] = Tail(@)]
    /\ LET c == Head(queue[g])
       IN \/ /\ Permitted(c)
             /\ games' = [games EXCEPT ![g] = Ordered(c)]
             /\ rosters' = [rosters EXCEPT ![g] = OrderedRoster(c)]
             /\ leaders' = IF c.op = "delete" THEN [leaders EXCEPT ![g] = {}] ELSE leaders
          \/ ~Permitted(c) /\ UNCHANGED <<games, rosters, leaders>>
    /\ UNCHANGED <<roles, granted, told, rows, pending, turn, keyboard, heard, changed, refused, sent,
                   failures, published, moves>>

\* A player confirms, or leaves the game.
PlayerMoves(g, i) ==
    /\ moves < MaxMoves /\ i \in DOMAIN rosters[g]
    /\ moves' = moves + 1
    /\ \/ /\ ~rosters[g][i].confirmed
          /\ rosters' = [rosters EXCEPT ![g][i].confirmed = TRUE]
       \/ rosters' = [rosters EXCEPT ![g] = RemoveAt(@, i)]
    /\ UNCHANGED <<roleVars, queue, published>>

-----------------------------------------------------------------------------
(***************************************************************************)
(* Effects of a turn on a game                                             *)
(***************************************************************************)
\* Variant: an order that has been published before is an error.
PublishOnce(a) ==
    /\ Doing(a, "publish")
    /\ LET g == Now(a).game
           order == [op |-> Now(a).arg, actor |-> a, game |-> g, who |-> Now(a).who,
                     message |-> Received(a).id, about |-> Pressed(a).about]
       IN \/ (~games[g].exists \/ order \in published) /\ GiveUp(a) /\ UNCHANGED <<queue, published>>
          \/ /\ games[g].exists /\ order \notin published
             /\ Proceed(a)
             /\ queue' = [queue EXCEPT ![g] = Append(@, order)]
             /\ published' = published \cup {order}
    /\ UNCHANGED <<games, leaders, roles, granted, told, rows, pending, keyboard, heard, changed,
                   refused, sent, failures, rosters, moves>>

\* registrations.enqueue: an update that comes again publishes the same
\* operation id, which the queue drops.  A game that is gone is an error.
Publish(a) ==
    /\ Doing(a, "publish")
    /\ LET g == Now(a).game
           order == [op |-> Now(a).arg, actor |-> a, game |-> g, who |-> Now(a).who,
                     message |-> Received(a).id, about |-> Pressed(a).about]
       IN \/ ~games[g].exists /\ GiveUp(a) /\ UNCHANGED <<queue, published>>
          \/ /\ games[g].exists /\ order \in published
             /\ Proceed(a) /\ UNCHANGED <<queue, published>>
          \/ /\ games[g].exists /\ order \notin published
             /\ Proceed(a)
             /\ queue' = [queue EXCEPT ![g] = Append(@, order)]
             /\ published' = published \cup {order}
    /\ UNCHANGED <<games, leaders, roles, granted, told, rows, pending, keyboard, heard, changed,
                   refused, sent, failures, rosters, moves>>

Written(row, column, message) ==
    [row EXCEPT !.edits = @ \cup {column}, !.links = IF column = "links" THEN message ELSE @]

\* set_post_links and the setters of planned times, straight to the row; links
\* are then read back.
WriteRow(a) ==
    /\ Doing(a, "write")
    /\ LET g == Now(a).game
           column == Now(a).arg
       IN /\ games' = IF games[g].exists
                      THEN [games EXCEPT ![g] = Written(@, column, Received(a).id)] ELSE games
          /\ \/ column # "links" /\ Proceed(a)
             \/ /\ column = "links"
                /\ turn' = [turn EXCEPT ![a].todo = <<Do("read-back", g, NoOne, column)>>]
    /\ UNCHANGED <<leaders, roles, granted, told, rows, pending, keyboard, heard, changed, refused,
                   sent, failures, gameVars>>

\* "game post links were not persisted": those of another message are there.
\* Of a game that is gone the dialogue says so.
ReadBack(a) ==
    /\ Doing(a, "read-back")
    /\ LET row == games[Now(a).game]
       IN IF row.exists /\ row.links # Received(a).id THEN GiveUp(a) ELSE Proceed(a)
    /\ UNCHANGED <<games, leaders, roles, granted, told, rows, pending, keyboard, heard, changed, refused,
                   sent, failures, gameVars>>

Publishes(a, op, g, p, buttons) ==
    Plan(a, [IdleRow EXCEPT !.buttons = buttons], <<Do("publish", g, p, op)>>, "")

Writes(a, kind, g, buttons) ==
    Plan(a, [IdleRow EXCEPT !.buttons = buttons], <<Do("write", g, NoOne, kind)>>, "")

-----------------------------------------------------------------------------
(***************************************************************************)
(* Menus                                                                   *)
(***************************************************************************)
GameButtons(values, g) == {ForGame(v, g) : v \in values}

AdminButtons(a) ==
    {Plain("games"), Plain("menu")}
        \cup (IF IsAdmin(a) THEN {Plain("mod:menu"), Plain("archived")} ELSE {})

\* _game_management
ManageButtons(a, g) ==
    IF games[g].archived THEN GameButtons({"ag:unarchive", "ag:delete"}, g) \cup {Plain("archived")}
    ELSE IF Manages(a, g)
    THEN GameButtons({"ag:edit", "ag:schedule", "ag:notifications", "ag:players", "ag:files",
                      "ag:masters"}, g)
             \cup (IF IsAdmin(a) THEN GameButtons({"stats:game"}, g) ELSE {}) \cup {Plain("games")}
    ELSE (IF ViewsUnassigned(a) THEN GameButtons({"ag:players", "ag:files", "master:list"}, g) ELSE {})
             \cup {Plain("games")}

\* _scheduled_events_menu
ScheduleButtons(g) ==
    GameButtons({"ag:manage"}, g)
        \cup (IF games[g].status = "created"
              THEN GameButtons({"ag:schedule-registration", "ag:schedule-confirmation"}, g) ELSE {})
        \cup (IF games[g].closing THEN {} ELSE GameButtons({"ag:schedule-close"}, g))

\* What each menu of a game offers.
Menu(v, a, g) ==
    CASE v = "ag:edit" -> {"ag:status", "ag:details", "ag:amount", "ag:question", "ag:links", "ag:archive"}
      [] v = "ag:files" -> {"ag:tables"}
      [] v = "ag:notifications" -> {"ag:remind", "ag:notify", "ag:notify-all", "ag:notify-link"}
      [] v = "ag:players" ->
            {"ag:waiting", "ag:profiles"}
                \cup (IF Manages(a, g) THEN {"ag:remove", "ag:sift", "ag:promote"} ELSE {})

Menus == {"ag:edit", "ag:files", "ag:notifications", "ag:players"}

\* The first question of each dialogue.
Opening ==
    [v \in {"ag:details", "ag:links", "ag:status", "ag:archive", "ag:notify", "ag:notify-all", "ag:notify-link"} |->
        CASE v = "ag:details" -> "UPDATE_GAME_NAME" [] v = "ag:links" -> "POST_LINK_TELEGRAM"
          [] v = "ag:status" -> "STATUS_SELECT" [] v = "ag:archive" -> "ARCHIVE_NAME"
          [] v = "ag:notify" -> "NOTIFICATION_MESSAGE_TEXT"
          [] v = "ag:notify-all" -> "ALL_PLAYERS_NOTIFICATION_TEXT"
          [] v = "ag:notify-link" -> "NOTIFICATION_CONFIRM"]

-----------------------------------------------------------------------------
(***************************************************************************)
(* Questions                                                               *)
(***************************************************************************)
\* The question that follows a good answer.
Following ==
    [state \in {"UPDATE_GAME_NAME", "POST_LINK_TELEGRAM", "SCHEDULE_CONFIRMATION_TIME",
                "NOTIFICATION_MESSAGE_TEXT", "ALL_PLAYERS_NOTIFICATION_TEXT"} |->
        CASE state = "UPDATE_GAME_NAME" -> "UPDATE_GAME_DATE" [] state = "POST_LINK_TELEGRAM" -> "POST_LINK_VK"
          [] state = "SCHEDULE_CONFIRMATION_TIME" -> "SCHEDULE_CONFIRMATION_DEADLINE"
          [] state = "NOTIFICATION_MESSAGE_TEXT" -> "NOTIFICATION_CONFIRM"
          [] state = "ALL_PLAYERS_NOTIFICATION_TEXT" -> "ALL_PLAYERS_NOTIFICATION_CONFIRM"]

\* The order a good answer gives.
Ordering ==
    [state \in {"UPDATE_GAME_DATE", "UPDATE_PLAYER_AMOUNT", "CONFIRMATION_DEADLINE", "ARCHIVE_NAME"} |->
        CASE state = "UPDATE_GAME_DATE" -> "details" [] state = "UPDATE_PLAYER_AMOUNT" -> "amount"
          [] state = "CONFIRMATION_DEADLINE" -> "confirmation" [] state = "ARCHIVE_NAME" -> "archive"]

\* The column of the game's row a good answer is written to.
Writing ==
    [state \in {"POST_LINK_VK", "SCHEDULE_REGISTRATION_TIME", "SCHEDULE_CONFIRMATION_DEADLINE",
                "SCHEDULE_CLOSE_TIME"} |->
        CASE state = "POST_LINK_VK" -> "links" [] state = "SCHEDULE_REGISTRATION_TIME" -> "registration-plan"
          [] state = "SCHEDULE_CONFIRMATION_DEADLINE" -> "confirmation-plan"
          [] state = "SCHEDULE_CLOSE_TIME" -> "closing-plan"]

\* The order that pressing "send" gives.
Sending ==
    [state \in {"NOTIFICATION_CONFIRM", "ALL_PLAYERS_NOTIFICATION_CONFIRM"} |->
        IF state = "NOTIFICATION_CONFIRM" THEN "notify" ELSE "notify-all"]

StatusOrders ==
    [v \in {"status:registration", "status:close"} |->
        IF v = "status:registration" THEN "registration" ELSE "close"]

\* Answers that may also be given with a button.
Quick == {"UPDATE_GAME_DATE", "CONFIRMATION_DEADLINE"}

GoodAnswer(a) ==
    IF Received(a).pressed THEN rows[a].state \in Quick /\ Pressed(a).value = "quick"
    ELSE Received(a).good

Scheduling == {"SCHEDULE_REGISTRATION_TIME", "SCHEDULE_CONFIRMATION_TIME",
               "SCHEDULE_CONFIRMATION_DEADLINE", "SCHEDULE_CLOSE_TIME"}

\* The keyboard below a question.
Keys(state, g) ==
    CASE state = "STATUS_SELECT" ->
            {Plain("status:registration"), Plain("status:confirmation"), Plain("status:close"),
             ForGame("ag:edit", g)}
      [] state \in Quick -> {Plain("quick"), ForGame("ag:edit", g)}
      [] state = "SCHEDULE_REGISTRATION_TIME" -> GameButtons({"ag:clear-registration", "ag:schedule"}, g)
      [] state = "SCHEDULE_CONFIRMATION_TIME" ->
            GameButtons({"ag:schedule-tuesday", "ag:clear-confirmation", "ag:schedule"}, g)
      [] state = "SCHEDULE_CONFIRMATION_DEADLINE" -> GameButtons({"ag:schedule"}, g)
      [] state = "SCHEDULE_CLOSE_TIME" ->
            GameButtons({"ag:schedule-night", "ag:clear-close", "ag:schedule"}, g)
      [] state \in DOMAIN Sending ->
            {Bare("notification:confirm", g, NoOne), ForGame("ag:notifications", g)}
      [] state \in {"NOTIFICATION_MESSAGE_TEXT", "ALL_PLAYERS_NOTIFICATION_TEXT"} ->
            {ForGame("ag:notifications", g)}
      [] state = "QUESTION_EDIT_MENU" -> {Plain("rq:text"), ForGame("ag:edit", g)}
      [] state = "DELETE_NAME" -> {ForGame("ag:manage", g)}
      [] OTHER -> {ForGame("ag:edit", g)}

Ask(a, state, g) == Say(a, [IdleRow EXCEPT !.state = state, !.game = g], Keys(state, g))

-----------------------------------------------------------------------------
(***************************************************************************)
(* Rosters                                                                 *)
(***************************************************************************)
\* Whom a list shows; "profiles" and "waiting" are lists to look at.
Listed(mode, g) ==
    CASE mode \in {"remove", "profiles"} -> Registered(g)
      [] mode = "waiting" -> Waiting(g)
      [] mode = "promote" -> ConfirmedReserve(g)

PickState(mode) ==
    CASE mode = "remove" -> "REMOVE_PICK" [] mode = "profiles" -> "PROFILES_PICK"
      [] mode = "waiting" -> "WAITING_PICK" [] mode = "promote" -> "RESERVE_PROMOTION_PICK"

ConfirmState(mode) == IF mode = "remove" THEN "REMOVE_CONFIRM" ELSE "RESERVE_PROMOTION_CONFIRM"

\* The buttons of a list, and of the question about one of its players.
PickValue(mode) ==
    CASE mode = "remove" -> "pick:remove" [] mode = "profiles" -> "pick:profiles"
      [] mode = "waiting" -> "pick:waiting" [] mode = "promote" -> "pick:promote"

ConfirmValue(mode) == IF mode = "remove" THEN "confirm:remove" ELSE "confirm:promote"

\* token_urlsafe: no two lists have a token in common.
FreshToken(a) == Received(a).id

Pick(mode, token, g, p) ==
    [ForPerson(PickValue(mode), g, p) EXCEPT !.token = token]

\* _show_removable_players, _show_waiting_players, _show_player_profiles,
\* _show_confirmed_reserve_players; a list of more than a page is one list.
ShowList(a, mode, g) ==
    LET token == FreshToken(a)
        shown == Listed(mode, g)
    IN IF mode = "promote" /\ ~HasUnconfirmedMain(g) THEN Leave(a, {ForGame("ag:players", g)})
       ELSE Say(a, [IdleRow EXCEPT !.state = PickState(mode), !.game = g, !.token = token, !.choices = shown],
                {Pick(mode, token, g, p) : p \in shown} \cup {ForGame("ag:players", g)})

\* The token a choice had in its list comes back with its confirmation.
SelectedButton(verb, row) ==
    [Plain(verb) EXCEPT !.token = row.token, !.who = row.who,
                        !.about = [game |-> row.game, who |-> row.who]]

\* Variant: a confirmation is known by its verb, not by its token and choice.
SameVerb(b, c) == b.value = c.value

SameValue(b, c) == [b EXCEPT !.about = NoAbout] = [c EXCEPT !.about = NoAbout]

\* What may still be done to whom was chosen.
StillListed(mode, g, p) ==
    IF mode = "promote" THEN CanPromote(g, p) ELSE p \in Listed(mode, g)

Question(a, mode, row) ==
    Say(a, row, {SelectedButton(ConfirmValue(mode), row),
                 IF mode = "remove" THEN ForGame("ag:remove", row.game)
                 ELSE [Plain("page:promote") EXCEPT !.token = row.token]})

\* _admin_remove_pick, _admin_waiting_pick, _admin_profiles_pick and
\* _admin_reserve_promotion_pick
PickStep(a, mode) ==
    LET row == rows[a]
        b == Pressed(a)
        p == b.who
        chosen == b.value = PickValue(mode) /\ b.token = row.token /\ p \in row.choices
    IN \/ ~games[row.game].exists /\ Leave(a, {Plain("games")})
       \/ /\ games[row.game].exists
          /\ ~chosen \/ ~StillListed(mode, row.game, p)
          /\ ShowList(a, mode, row.game)
       \/ /\ games[row.game].exists /\ chosen /\ StillListed(mode, row.game, p)
          /\ \/ /\ mode \in {"remove", "promote"}
                /\ Question(a, mode, [row EXCEPT !.state = ConfirmState(mode), !.who = p])
             \/ /\ mode \in {"waiting", "profiles"}
                /\ Say(a, row, GameButtons({IF mode = "waiting" THEN "ag:waiting" ELSE "ag:profiles",
                                            "ag:players"}, row.game))

\* _admin_remove_confirm and _admin_reserve_promotion_confirm; looking up a
\* player of a game that is gone is an error, which nobody catches.
ConfirmStep(a, mode) ==
    LET row == rows[a]
        b == Pressed(a)
        back == b.value \in {"ag:remove", "page:promote"}
        confirmed == SameValue(b, SelectedButton(ConfirmValue(mode), row))
        possible == StillListed(mode, row.game, row.who)
    IN \/ ~games[row.game].exists /\ (mode = "promote" \/ back) /\ Leave(a, {Plain("games")})
       \/ /\ games[row.game].exists
          /\ back \/ (confirmed /\ ~possible)
          /\ ShowList(a, mode, row.game)
       \/ /\ games[row.game].exists \/ mode = "remove"
          /\ ~back /\ ~confirmed /\ Question(a, mode, row)
       \/ /\ games[row.game].exists /\ confirmed /\ possible
          /\ Publishes(a, mode, row.game, row.who, {ForGame("ag:players", row.game)})

\* _remove_waiting_confirmation
AskSift(a, g) ==
    LET count == Cardinality(Waiting(g))
        row == [IdleRow EXCEPT !.state = "REMOVE_WAITING_CONFIRM", !.game = g,
                               !.token = FreshToken(a), !.count = count]
    IN IF count = 0 THEN Leave(a, {ForGame("ag:players", g)})
       ELSE Say(a, row, {SelectedButton("confirm:sift", row), ForGame("ag:players", g)})

\* _admin_remove_waiting_confirm: how many they are is compared, not who.
SiftStep(a) ==
    LET row == rows[a]
        confirmed == SameValue(Pressed(a), SelectedButton("confirm:sift", row))
                        /\ Cardinality(Waiting(row.game)) = row.count
    IN \/ ~games[row.game].exists /\ Leave(a, {Plain("games")})
       \/ games[row.game].exists /\ ~confirmed /\ AskSift(a, row.game)
       \/ /\ games[row.game].exists /\ confirmed
          /\ Publishes(a, "sift", row.game, NoOne, {ForGame("ag:players", row.game)})

-----------------------------------------------------------------------------
(***************************************************************************)
(* _admin_game_action: the "ag:" buttons                                   *)
(***************************************************************************)
ViewerActions == {"ag:files", "ag:waiting", "ag:tables", "ag:players", "ag:profiles", "ag:masters"}

Lists ==
    [v \in {"ag:remove", "ag:waiting", "ag:profiles", "ag:promote"} |->
        CASE v = "ag:remove" -> "remove" [] v = "ag:waiting" -> "waiting"
          [] v = "ag:profiles" -> "profiles" [] v = "ag:promote" -> "promote"]

\* Actions of archived games, for administrators.
ArchiveAction(a, v, g) ==
    \/ ~IsAdmin(a) /\ Refuse(a)
    \/ IsAdmin(a) /\ ~games[g].archived /\ Leave(a, {ForGame("ag:manage", g)})
    \/ IsAdmin(a) /\ games[g].archived /\ v = "ag:delete" /\ Ask(a, "DELETE_NAME", g)
    \/ /\ IsAdmin(a) /\ games[g].archived /\ v = "ag:unarchive"
       /\ Publishes(a, "unarchive", g, NoOne, {Plain("games")})

\* The planned stages; the menu of stages is shown after every answer.
ScheduleAction(a, v, g) ==
    LET created == games[g].status = "created"
        menu == ScheduleButtons(g)
    IN \/ v = "ag:schedule" /\ Leave(a, menu)
       \/ /\ v \in {"ag:schedule-registration", "ag:schedule-confirmation", "ag:schedule-tuesday",
                    "ag:clear-registration", "ag:clear-confirmation"}
          /\ ~created /\ Leave(a, menu)
       \/ v = "ag:schedule-registration" /\ created /\ Ask(a, "SCHEDULE_REGISTRATION_TIME", g)
       \/ v = "ag:schedule-confirmation" /\ created /\ Ask(a, "SCHEDULE_CONFIRMATION_TIME", g)
       \/ /\ v = "ag:schedule-tuesday" /\ created
          /\ \E state \in {"SCHEDULE_CONFIRMATION_DEADLINE", "SCHEDULE_CONFIRMATION_TIME"} : Ask(a, state, g)
       \/ v = "ag:clear-registration" /\ created /\ Writes(a, "registration-plan", g, menu)
       \/ v = "ag:clear-confirmation" /\ created /\ Writes(a, "confirmation-plan", g, menu)
       \/ v \in {"ag:schedule-close", "ag:clear-close"} /\ games[g].closing /\ Leave(a, menu)
       \/ v = "ag:schedule-close" /\ ~games[g].closing /\ Ask(a, "SCHEDULE_CLOSE_TIME", g)
       \/ v = "ag:clear-close" /\ ~games[g].closing /\ Writes(a, "closing-plan", g, menu)
       \/ /\ v = "ag:schedule-night"
          /\ \/ Ask(a, "SCHEDULE_CLOSE_TIME", g)
             \/ Writes(a, "closing-plan", g, menu)

Schedules == {"ag:schedule", "ag:schedule-registration", "ag:schedule-confirmation", "ag:schedule-tuesday",
              "ag:schedule-close", "ag:schedule-night", "ag:clear-registration", "ag:clear-confirmation",
              "ag:clear-close"}

\* An action that its actor may take, on a game that is not archived.
ActiveAction(a, v, g) ==
    \/ v \in Menus /\ Leave(a, GameButtons(Menu(v, a, g), g) \cup {ForGame("ag:manage", g)})
    \/ v \in Schedules /\ ScheduleAction(a, v, g)
    \/ v \in DOMAIN Opening /\ Ask(a, Opening[v], g)
    \/ /\ v \in {"ag:amount", "ag:question"}
       /\ \/ games[g].question /\ Ask(a, "QUESTION_EDIT_MENU", g)
          \/ ~games[g].question /\ v = "ag:amount" /\ Ask(a, "UPDATE_PLAYER_AMOUNT", g)
          \/ ~games[g].question /\ v = "ag:question" /\ Leave(a, {ForGame("ag:edit", g)})
    \/ v \in DOMAIN Lists /\ ShowList(a, Lists[v], g)
    \/ v = "ag:sift" /\ AskSift(a, g)
    \/ v = "ag:masters" /\ MastersMenu(a, g)
    \/ /\ v = "ag:remind"
       /\ \/ games[g].status = "confirmation"
             /\ Publishes(a, "remind", g, NoOne, {ForGame("ag:notifications", g)})
          \/ games[g].status # "confirmation" /\ Leave(a, {ForGame("ag:notifications", g)})
    \/ /\ v = "ag:tables"
       /\ \/ Manages(a, g) /\ Publishes(a, "tables", g, NoOne, {ForGame("ag:files", g)})
          \/ ~Manages(a, g) /\ Leave(a, {ForGame("ag:files", g)})

GameAction(a) ==
    LET v == Pressed(a).value
        g == Pressed(a).game
        found == games[g].exists /\ (games[g].archived => IsAdmin(a))
        archives == v \in {"ag:delete", "ag:unarchive"}
        allowed == Manages(a, g) \/ (ViewsUnassigned(a) /\ v \in ViewerActions)
    IN \/ ~HasAdminAccess(a) /\ Refuse(a)
       \/ HasAdminAccess(a) /\ ~found /\ Leave(a, {Plain("games")})
       \/ /\ HasAdminAccess(a) /\ found
          /\ \/ v = "ag:manage" /\ Leave(a, ManageButtons(a, g))
             \/ archives /\ ArchiveAction(a, v, g)
             \/ v # "ag:manage" /\ ~archives /\ games[g].archived /\ Leave(a, {Plain("games")})
             \/ v # "ag:manage" /\ ~archives /\ ~games[g].archived /\ ~allowed /\ Refuse(a)
             \/ v # "ag:manage" /\ ~archives /\ ~games[g].archived /\ allowed /\ ActiveAction(a, v, g)

\* _statistics_action: what cannot be undone is confirmed from the current
\* keyboard only.
StatisticsAction(a) ==
    LET g == Pressed(a).game
    IN \/ ~IsAdmin(a) /\ Object(a)
       \/ IsAdmin(a) /\ ~(games[g].exists /\ ~games[g].archived) /\ Leave(a, {Plain("games")})
       \/ /\ IsAdmin(a) /\ games[g].exists /\ ~games[g].archived
          /\ \/ Pressed(a).value = "stats:game"
                /\ Leave(a, {ForGame("stats:confirm", g), ForGame("ag:manage", g)})
             \/ /\ Pressed(a).value = "stats:confirm"
                /\ \/ Pressed(a) \notin rows[a].buttons /\ Leave(a, {ForGame("ag:manage", g)})
                   \/ Pressed(a) \in rows[a].buttons
                      /\ Publishes(a, "statistics", g, NoOne, {ForGame("ag:manage", g)})

\* _admin_start: the labels of the menu
AdminStart(a) ==
    LET v == Pressed(a).value
        listed(archived) == {g \in Games : games[g].exists /\ games[g].archived = archived}
    IN \/ ~HasAdminAccess(a) /\ Object(a)
       \/ /\ HasAdminAccess(a)
          /\ \/ v = "games" /\ Leave(a, {ForGame("ag:manage", g) : g \in listed(FALSE)}
                                           \cup (IF IsAdmin(a) THEN {Plain("archived")} ELSE {}))
             \/ v = "archived" /\ IsAdmin(a) /\ Leave(a, {ForGame("ag:manage", g) : g \in listed(TRUE)})
             \/ v = "archived" /\ ~IsAdmin(a) /\ Object(a)
             \/ v = "role:grant" /\ StartGrant(a)
             \/ v = "role:revoke" /\ ShowModerators(a, "remove")
             \/ v = "role:list" /\ ShowModerators(a, "list")

-----------------------------------------------------------------------------
(***************************************************************************)
(* _admin_step: a message in a dialogue                                    *)
(***************************************************************************)
\* Variant: the second link is taken from whoever has been asked for it.
EditStatesButLinks ==
    {"STATUS_SELECT", "UPDATE_GAME_NAME", "UPDATE_GAME_DATE", "UPDATE_PLAYER_AMOUNT",
     "POST_LINK_TELEGRAM", "CONFIRMATION_DEADLINE", "NOTIFICATION_MESSAGE_TEXT", "NOTIFICATION_CONFIRM",
     "ARCHIVE_NAME", "DELETE_NAME"}

EditStates ==
    {"STATUS_SELECT", "UPDATE_GAME_NAME", "UPDATE_GAME_DATE", "UPDATE_PLAYER_AMOUNT",
     "POST_LINK_TELEGRAM", "POST_LINK_VK", "CONFIRMATION_DEADLINE", "NOTIFICATION_MESSAGE_TEXT",
     "NOTIFICATION_CONFIRM", "ARCHIVE_NAME", "DELETE_NAME"}

LeaderStates ==
    {"EVENT_LEADER_PLATFORM", "EVENT_LEADER_PROFILE", "EVENT_LEADER_ADD_PICK",
     "EVENT_LEADER_PROMOTE_CONFIRM", "EVENT_LEADER_REMOVE", "EVENT_LEADER_REMOVE_CONFIRM",
     "EVENT_LEADER_LIST"}

RosterStates ==
    {"REMOVE_PICK", "REMOVE_CONFIRM", "REMOVE_WAITING_CONFIRM", "WAITING_PICK", "PROFILES_PICK",
     "RESERVE_PROMOTION_PICK", "RESERVE_PROMOTION_CONFIRM"}

\* event_bound_states: the rights are checked with every message.
EventBound == EditStates \cup Scheduling \cup LeaderStates \cup RosterStates

ViewOnly == {"EVENT_LEADER_LIST", "WAITING_PICK", "PROFILES_PICK"}

DeletesArchived(a) ==
    /\ rows[a].state = "DELETE_NAME"
    /\ games[rows[a].game].exists /\ games[rows[a].game].archived

\* Variant: who has just removed himself may not be told so.
NeverRemovingSelf(a) == FALSE

\* pending_self_removal: the message has already removed its author.
RemovingSelf(a) ==
    /\ rows[a].state = "EVENT_LEADER_REMOVE_CONFIRM" /\ rows[a].who = a
    /\ \E request \in rows[a].marks : request.kind = "leader-revoke"

\* The dialogue is over because of what became of its game.
GameGone(a) ==
    LET g == rows[a].game
    IN /\ rows[a].state \in EventBound
       /\ \/ rows[a].state = "DELETE_NAME" /\ ~games[g].exists
          \/ games[g].exists /\ games[g].archived /\ ~DeletesArchived(a)

\* The dialogue is over because of what became of the rights of its actor.
RightsGone(a) ==
    LET g == rows[a].game
    IN /\ rows[a].state \in EventBound
       /\ IF DeletesArchived(a) THEN ~IsAdmin(a)
          ELSE /\ ~RemovingSelf(a)
               /\ IF rows[a].state \in ViewOnly THEN ~ViewsDetails(a, g) ELSE ~Manages(a, g)

\* A question is asked again, or followed, or its answer is put to use.
\* Counting the recipients in a game that is gone is an error.
FormStep(a) ==
    LET state == rows[a].state
        g == rows[a].game
        forms == DOMAIN Following \cup DOMAIN Ordering \cup DOMAIN Writing
        counts == state \in {"NOTIFICATION_MESSAGE_TEXT", "ALL_PLAYERS_NOTIFICATION_TEXT"}
    IN \/ state \in forms /\ ~GoodAnswer(a) /\ Ask(a, state, g)
       \/ /\ state \in DOMAIN Following /\ GoodAnswer(a)
          /\ counts => games[g].exists
          /\ Ask(a, Following[state], g)
       \/ /\ state \in DOMAIN Ordering /\ GoodAnswer(a)
          /\ Publishes(a, Ordering[state], g, NoOne, {ForGame("ag:edit", g)})
       \/ /\ state \in DOMAIN Writing /\ GoodAnswer(a)
          /\ \/ ~games[g].exists /\ Leave(a, {Plain("games")})
             \/ /\ games[g].exists /\ state \in Scheduling
                /\ IF state = "SCHEDULE_CLOSE_TIME" THEN games[g].closing ELSE games[g].status # "created"
                /\ Leave(a, ScheduleButtons(g))
             \/ /\ games[g].exists
                /\ state = "SCHEDULE_CLOSE_TIME" => ~games[g].closing
                /\ state \in Scheduling \ {"SCHEDULE_CLOSE_TIME"} => games[g].status = "created"
                /\ Writes(a, Writing[state], g, {ForGame("ag:manage", g)})

\* Choices made with buttons, and the name that confirms a deletion.
ChoiceStep(a) ==
    LET state == rows[a].state
        g == rows[a].game
        v == Pressed(a).value
        named == ~Received(a).pressed /\ Received(a).good
    IN \/ /\ state = "STATUS_SELECT"
          /\ \/ v \notin DOMAIN StatusOrders \cup {"status:confirmation"} /\ Ask(a, state, g)
             \/ v = "status:confirmation" /\ Ask(a, "CONFIRMATION_DEADLINE", g)
             \/ v \in DOMAIN StatusOrders
                /\ Publishes(a, StatusOrders[v], g, NoOne, {ForGame("ag:edit", g)})
       \/ /\ state \in DOMAIN Sending
          /\ \/ v # "notification:confirm" /\ Ask(a, state, g)
             \/ v = "notification:confirm"
                /\ Publishes(a, Sending[state], g, NoOne, {ForGame("ag:notifications", g)})
       \/ /\ state = "DELETE_NAME"
          /\ \/ ~named /\ Ask(a, state, g)
             \/ named /\ Publishes(a, IF DeletesArchived(a) THEN "delete" ELSE "archive", g, NoOne,
                                   {Plain("games"), Plain("archived")})

\* _question_edit_step, which checks the rights itself
QuestionStep(a) ==
    LET g == rows[a].game
        row == games[g]
    IN /\ rows[a].state \in {"QUESTION_EDIT_MENU", "QUESTION_EDIT_VALUE"}
       /\ \/ ~row.exists /\ Leave(a, {})
          \/ row.exists /\ ~Manages(a, g) /\ Refuse(a)
          \/ row.exists /\ Manages(a, g) /\ (row.archived \/ ~row.question) /\ Leave(a, {})
          \/ /\ row.exists /\ Manages(a, g) /\ ~row.archived /\ row.question
             /\ \/ /\ rows[a].state = "QUESTION_EDIT_MENU"
                   /\ Ask(a, IF Pressed(a).value = "rq:text" THEN "QUESTION_EDIT_VALUE"
                             ELSE "QUESTION_EDIT_MENU", g)
                \/ /\ rows[a].state = "QUESTION_EDIT_VALUE"
                   /\ \/ ~GoodAnswer(a) /\ Ask(a, "QUESTION_EDIT_VALUE", g)
                      \/ GoodAnswer(a) /\ Publishes(a, "question", g, NoOne, {ForGame("ag:edit", g)})

RosterStep(a) ==
    LET state == rows[a].state
    IN \/ \E mode \in {"remove", "profiles", "waiting", "promote"} :
            state = PickState(mode) /\ PickStep(a, mode)
       \/ \E mode \in {"remove", "promote"} : state = ConfirmState(mode) /\ ConfirmStep(a, mode)
       \/ state = "REMOVE_WAITING_CONFIRM" /\ SiftStep(a)

\* Dialogues of which only the buttons of a "mod:" or "master:" list lead on.
ListStates == {"MODERATOR_LIST", "MODERATOR_REMOVE", "MODERATOR_REMOVE_CONFIRM", "EVENT_LEADER_ADD_PICK",
               "EVENT_LEADER_REMOVE", "EVENT_LEADER_REMOVE_CONFIRM", "EVENT_LEADER_LIST"}

AdminStep(a) ==
    \/ ~HasAdminAccess(a) /\ Refuse(a)
    \/ HasAdminAccess(a) /\ GameGone(a) /\ Dismiss(a, {Plain("games")})
    \/ HasAdminAccess(a) /\ ~GameGone(a) /\ RightsGone(a) /\ Refuse(a)
    \/ /\ HasAdminAccess(a) /\ ~GameGone(a) /\ ~RightsGone(a)
       /\ \/ Pressed(a).value \in RoleCallbacks /\ Callback(a)
          \/ /\ Pressed(a).value \notin RoleCallbacks
             /\ \/ RoleStep(a)
                \/ FormStep(a)
                \/ ChoiceStep(a)
                \/ QuestionStep(a)
                \/ RosterStep(a)
                \/ rows[a].state \in ListStates /\ Leave(a, {})

-----------------------------------------------------------------------------
(***************************************************************************)
(* handle                                                                  *)
(***************************************************************************)
\* FREE_TEXT_DIALOG_STATES
FreeText ==
    (EventBound \ {"STATUS_SELECT", "EVENT_LEADER_PLATFORM"})
        \cup {"QUESTION_EDIT_VALUE", "GAMEMASTER_PROFILE", "MODERATOR_LIST", "MODERATOR_REMOVE",
              "MODERATOR_REMOVE_CONFIRM"}

Outdated(a) ==
    /\ rows[a].state \in FreeText /\ Received(a).pressed
    /\ Pressed(a).value \notin {"menu", "admin"}
    /\ \A b \in rows[a].buttons : ~SameValue(b, Pressed(a))

\* Menus that end the dialogue whatever it is.
Roots == {"menu", "admin", "mod:menu"}

\* "ag:" buttons that end the dialogue first; the others are answers in one.
Clearing == {"ag:manage", "ag:edit", "ag:files", "ag:masters", "ag:players", "ag:notifications"} \cup Schedules

GameActions == Clearing \cup DOMAIN Opening \cup DOMAIN Lists
    \cup {"ag:amount", "ag:question", "ag:sift", "ag:remind", "ag:tables", "ag:delete", "ag:unarchive"}

StartValues == {"games", "archived", "role:grant", "role:revoke", "role:list"}

Taken(a) == pending[a] # {} /\ ~turn[a].busy

TakeOutdated(a) == Taken(a) /\ Outdated(a) /\ Plan(a, rows[a], <<>>, "refused")

TakeMenu(a) ==
    /\ Taken(a) /\ ~Outdated(a)
    /\ \/ Pressed(a).value = "menu" /\ Leave(a, {Plain("admin")})
       \/ /\ Pressed(a).value = "admin"
          /\ Leave(a, IF HasAdminAccess(a) THEN AdminButtons(a) ELSE {})
       \/ Pressed(a).value = "mod:menu" /\ ModeratorMenu(a)

TakeClearing(a) ==
    Taken(a) /\ ~Outdated(a) /\ Pressed(a).value \in Clearing /\ GameAction(a)

\* _continue
TakeAnswer(a) ==
    /\ Taken(a) /\ ~Outdated(a) /\ rows[a].state # "IDLE"
    /\ Pressed(a).value \notin Clearing \cup Roots
    /\ AdminStep(a)

\* _start
TakeIdle(a) ==
    /\ Taken(a) /\ ~Outdated(a) /\ rows[a].state = "IDLE"
    /\ LET v == Pressed(a).value
       IN \/ v \in GameActions \ Clearing /\ GameAction(a)
          \/ v \in {"stats:game", "stats:confirm"} /\ StatisticsAction(a)
          \/ v \in StartValues /\ AdminStart(a)
          \/ v \in RoleCallbacks /\ Callback(a)
          \/ /\ v \notin GameActions \cup Roots \cup StartValues \cup RoleCallbacks
                             \cup {"stats:game", "stats:confirm"}
             /\ Leave(a, {Plain("admin")})

\* What the gateway does with a message it has.
Serve(a) ==
    \/ TakeOutdated(a) /\ UNCHANGED gameVars
    \/ TakeMenu(a) /\ UNCHANGED gameVars
    \/ TakeClearing(a) /\ UNCHANGED gameVars
    \/ TakeAnswer(a) /\ UNCHANGED gameVars
    \/ TakeIdle(a) /\ UNCHANGED gameVars
    \/ RoleEffect(a) /\ UNCHANGED gameVars
    \/ Publish(a)
    \/ WriteRow(a)
    \/ ReadBack(a)

Next ==
    \/ \E a \in Masters : Press(a) /\ UNCHANGED gameVars
    \/ \E a \in Masters : Write(a) /\ UNCHANGED gameVars
    \/ \E a \in Masters : Die(a) /\ UNCHANGED gameVars
    \/ \E a \in Masters : Serve(a)
    \/ \E g \in Games : Apply(g)
    \/ \E g \in Games : \E i \in DOMAIN rosters[g] : PlayerMoves(g, i)

Spec == Init /\ [][Next]_vars

\* A message is delivered until it is answered, and the worker is woken
\* until the queue is empty.
FairSpec ==
    /\ Spec
    /\ \A a \in Masters : WF_vars(Serve(a))
    /\ \A g \in Games : WF_vars(Apply(g))

-----------------------------------------------------------------------------
(***************************************************************************)
(* Where an instance begins: rows and keyboards as the dialogues leave     *)
(* them                                                                    *)
(***************************************************************************)
\* Buttons that carry a game, and buttons that carry a profile.
GameValues == GameActions \cup {"stats:game", "stats:confirm"}
    \cup {"master:self-add", "master:add", "master:remove", "master:list"}

PersonValues == {"mod:remove-pick", "master:add-pick"}

\* Buttons that confirm the choice of a player, and the lists they belong to.
Confirming(b) == b.value \in {"confirm:remove", "confirm:promote"}

Holding(row) ==
    row.state \in {"REMOVE_PICK", "REMOVE_CONFIRM", "RESERVE_PROMOTION_PICK", "RESERVE_PROMOTION_CONFIRM"}

SoundButton(b) ==
    /\ b.value \in GameValues => b.game \in Games
    /\ b.value \in PersonValues => b.who \in Profiles
    /\ Confirming(b) => b.about.who = b.who

\* A question about a game, or about a profile, has one.
SoundRow(row) ==
    /\ row.state \in EventBound \cup DOMAIN Following \cup DOMAIN Sending
                       \cup {"QUESTION_EDIT_MENU", "QUESTION_EDIT_VALUE"} => row.game \in Games
    /\ row.state \in {"MODERATOR_REMOVE_CONFIRM", "EVENT_LEADER_PROMOTE_CONFIRM",
                     "EVENT_LEADER_REMOVE_CONFIRM"} => row.who \in Profiles
    /\ row.state \in {"GAMEMASTER_PROFILE", "EVENT_LEADER_PROFILE"} =>
         \A b \in row.buttons : b.who \in Profiles \cup {NoOne}

\* A token stands for one list.
SameList(row, buttons) ==
    Holding(row) =>
        \A b \in buttons : Confirming(b) /\ b.token = row.token => b.about.game = row.game

\* Tokens and marks of messages that are still to come are not in use.  Who is
\* to lose a role had one when he was chosen.
ASSUME StartsAssumption ==
    \A start \in Starts :
        /\ start.games \in [Games -> Game] /\ start.leaders \in [Games -> SUBSET Profiles]
        /\ start.roles \in [Profiles -> Role \ {"admin"}]
        /\ start.rows \in [Masters -> Row] /\ start.keyboard \in [Masters -> SUBSET Button]
        /\ start.rosters \in [Games -> Seq(Registration)]
        /\ start.sent \in 0 .. MaxMessages /\ start.failures \in 0 .. MaxFailures
        /\ start.moves \in 0 .. MaxMoves
        /\ \A a \in Masters :
             LET row == start.rows[a]
                 buttons == start.keyboard[a] \cup row.buttons
                 later == start.sent + 1 .. MaxMessages
             IN /\ SoundRow(row) /\ SameList(row, buttons)
                /\ row.token \notin later
                /\ \A b \in buttons : SoundButton(b) /\ b.token \notin later
                /\ \A request \in row.marks : request.message \notin later
                /\ row.state = "MODERATOR_REMOVE_CONFIRM" => start.roles[row.who] # "none"

-----------------------------------------------------------------------------
(***************************************************************************)
(* Properties                                                              *)
(***************************************************************************)
\* A removal or a promotion concerns the player and the game that the
\* message with the pressed button was about.  (conversation_admin_rosters.py:
\* the keyboards of several lists and questions stay in the chat.)
TokenConfirmsItsTarget ==
    \A c \in published :
        c.op \in {"remove", "promote"} => c.about = [game |-> c.game, who |-> c.who]

Answered(m) == \A a \in Masters : \A received \in pending[a] : received.id # m

\* Somebody was told, or the repeated message was turned away: its author had
\* lost his rights meanwhile, or been sent a notice that outdated his keyboard,
\* or its game was archived or deleted.
Told(request) == request \in heard \/ request.message \in refused

\* Every change on record of what p and its linked profiles may do.
Changes(p) ==
    ({granted[q] : q \in Linked(p)} \cup {changed[g][q] : g \in Games, q \in Linked(p)}) \ {NoRequest}

\* Two messages have changed the rights of one person.
Contended(p) == \E one, other \in Changes(p) : one.message # other.message

\* Whose role or games were changed by one message alone has been told when
\* that message is answered, however often it was tried.
\* (conversation_admin_roles.py and conversation_admin_dialog.py: request_id
\* and the pending marks.)
RoleChangeIsTold ==
    \A p \in Profiles : \A request \in Changes(p) :
        Answered(request.message) /\ ~Contended(p) => Told(request)

\* Once a revocation is announced, a linked profile that has a role has it by
\* a grant of the dialogues, not from before.  (conversation_admin_dialog.py:
\* mod:remove-confirm; the role of one profile counts for all linked ones.)
RevokedEverywhere ==
    \A a \in Masters :
        turn[a].busy /\ turn[a].note = "revoked" /\ turn[a].todo = <<>> =>
            \A p \in Profiles :
                [kind |-> "revoke", game |-> NoGame, who |-> p, message |-> Received(a).id] \in heard
                    => \A q \in Linked(p) :
                         roles[q] = "none" \/ (granted[q] # NoRequest /\ granted[q].kind = "grant")

\* A game and its masters change only by an order whose author may change it
\* when it is applied, or in a turn whose actor could when it decided.
\* (conversation_admin_dialog.py: event_bound_states; ordered_mutations.py:
\* _require_event_leader.)
OnlyMastersChangeGames ==
    [][\A g \in Games :
        games'[g] # games[g] \/ leaders'[g] # leaders[g] =>
            \/ /\ queue'[g] # queue[g]
               /\ Manages(Head(queue[g]).actor, g)
            \/ \E a \in Masters :
                /\ turn[a].busy /\ turn'[a] # turn[a] /\ turn[a].todo # <<>>
                /\ Now(a).game = g /\ g \in turn[a].manages]_vars

\* A game that an administrator has taken out of the archive is not deleted
\* by what another one had ordered before.  (ordered_mutations.py: DELETE.)
UnarchivedIsKept ==
    [][\A g \in Games : games[g].exists /\ ~games'[g].exists => games[g].archived]_vars

\* Two messages with the links of one game are being answered.
LinksAtOdds ==
    \E a, b \in Masters :
        /\ a # b /\ pending[a] # {} /\ pending[b] # {}
        /\ rows[a].state = "POST_LINK_VK" /\ rows[b].state = "POST_LINK_VK"
        /\ rows[a].game = rows[b].game

\* Every message is answered, unless a game is deleted under a dialogue, or
\* two messages change one person's rights or the links of one game: each takes
\* the other's write for a failure of its own and is given up, as long as they
\* keep step.
\* (functions/gateway/handler.py; conversation_core.py: handle.)
AnsweredUnlessUndone ==
    \A a \in Masters :
        pending[a] # {} ~>
            \/ pending[a] = {}
            \/ \E g \in Games : ~games[g].exists
            \/ \E p \in Profiles : Contended(p)
            \/ LinksAtOdds
=============================================================================
