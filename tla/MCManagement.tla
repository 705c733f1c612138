---------------------------- MODULE MCManagement ----------------------------
(***************************************************************************)
(* Instances of GameManagement: one game, an administrator, the game's     *)
(* master, and a person with a profile on both platforms.                  *)
(***************************************************************************)
EXTENDS GameManagement

CONSTANTS ada, max, tom, vic, p1, p2, g1

MCPeople == {{ada}, {max}, {tom, vic}}

ActiveGame == [exists |-> TRUE, archived |-> FALSE, status |-> "created", closing |-> FALSE,
               question |-> FALSE, edits |-> {}, links |-> 0]

ArchivedGame == [ActiveGame EXCEPT !.archived = TRUE, !.status = "closed"]

GameRows == {ActiveGame, ArchivedGame, [ActiveGame EXCEPT !.exists = FALSE],
             [ActiveGame EXCEPT !.status = "confirmation", !.closing = TRUE, !.question = TRUE]}

TwoPlayers == <<[who |-> p1, confirmed |-> FALSE], [who |-> p2, confirmed |-> TRUE]>>

In(state) == [IdleRow EXCEPT !.state = state, !.game = g1]

Showing(row, buttons) == [row EXCEPT !.buttons = buttons]

\* `budget`: how many messages follow.  Whom ada may take a role from has one.
Start(budget, game, adasRow, maxsRow) ==
    LET row(a) == IF a = ada THEN adasRow ELSE maxsRow
        role(p) == IF p = max THEN "moderator"
                   ELSE IF p = tom /\ \E a \in Masters : row(a).state = "MODERATOR_REMOVE_CONFIRM" THEN "viewer"
                   ELSE "none"
    IN [games |-> [g \in Games |-> game],
        leaders |-> [g \in Games |-> {max}],
        roles |-> [p \in Profiles |-> role(p)],
        rows |-> [a \in Masters |-> row(a)],
        keyboard |-> [a \in Masters |-> row(a).buttons],
        rosters |-> [g \in Games |-> TwoPlayers],
        sent |-> MaxMessages - budget, failures |-> 0, moves |-> 0]

\* A viewer who is no master, and a master without a role.
Ranks(start) ==
    {start, [start EXCEPT !.roles[max] = "viewer", !.leaders[g1] = {}],
            [start EXCEPT !.roles[max] = "none"]}

-----------------------------------------------------------------------------
(***************************************************************************)
(* Every question and every menu: one message from each, and no failures   *)
(***************************************************************************)
MenuButtons ==
    GameButtons(GameActions \cup {"stats:game", "stats:confirm"}, g1)
        \cup GameButtons({"master:self-add", "master:add", "master:remove", "master:list"}, g1)
        \cup {Plain(v) : v \in StartValues \cup Roots} \cup {Plain("quick")}

AboutTom(state) == [In(state) EXCEPT !.who = tom, !.role = "viewer"]

PeopleButtons ==
    {ForPerson(v, g1, p) : v \in {"mod:view", "mod:remove-pick", "master:add-pick", "master:view",
                                  "master:remove-pick"}, p \in {max, tom}}
        \cup {Plain(v) : v \in {"mod:list-page", "mod:remove-page", "mod:remove-confirm", "master:add-direct",
                                "master:promote:yes", "master:promote:no", "master:remove-page",
                                "master:list-page", "master:remove-confirm", "admin:gamemaster",
                                "admin:event-leader"}}

Questions == EditStates \cup Scheduling \cup DOMAIN Sending \cup DOMAIN Following
    \cup {"QUESTION_EDIT_MENU", "QUESTION_EDIT_VALUE"}

Picking(mode, confirming) ==
    LET row == [In(IF confirming THEN ConfirmState(mode) ELSE PickState(mode))
                    EXCEPT !.token = 9, !.choices = {p1, p2}, !.who = IF confirming THEN p2 ELSE NoOne]
    IN Showing(row, IF confirming
                    THEN {SelectedButton(ConfirmValue(mode), row), Plain("page:promote"), Plain("other")}
                    ELSE {Pick(mode, 9, g1, p) : p \in {p1, p2}} \cup {Plain("other")})

Sifting(count) ==
    LET row == [In("REMOVE_WAITING_CONFIRM") EXCEPT !.token = 9, !.count = count]
    IN Showing(row, {SelectedButton("confirm:sift", row)})

ListRows ==
    {Picking(mode, FALSE) : mode \in {"remove", "profiles", "waiting", "promote"}}
        \cup {Picking(mode, TRUE) : mode \in {"remove", "promote"}}
        \cup {Sifting(count) : count \in {1, 2}}

AskedRows ==
    {Showing(IdleRow, MenuButtons), Showing(IdleRow, {ForGame("stats:confirm", g1)})}
        \cup {Showing(In(state), Keys(state, g1)) : state \in Questions}
        \cup {Showing(AboutTom(state), PeopleButtons) : state \in ListStates \cup LeaderStates \cup RoleSteps}
        \cup ListRows

OneMessage ==
    LET oneOf(row) == {Start(1, game, row, IdleRow) : game \in GameRows}
                        \cup UNION {Ranks(Start(1, game, IdleRow, row)) : game \in GameRows}
    IN {[start EXCEPT !.failures = MaxFailures, !.moves = MaxMoves] :
            start \in UNION {oneOf(row) : row \in AskedRows}}

-----------------------------------------------------------------------------
(***************************************************************************)
(* Two actors, or one with a longer dialogue                               *)
(***************************************************************************)
Bares(values, p) == {Bare(v, g1, p) : v \in values}

\* Both change what tom may do; or one does, and fails between two steps.
Together(start) ==
    {[start EXCEPT !.failures = MaxFailures], [start EXCEPT !.rows[ada] = IdleRow, !.sent = @ + 1],
     [start EXCEPT !.rows[max] = IdleRow, !.keyboard[max] = {}, !.sent = @ + 1]}

Granting ==
    Together(Start(2, ActiveGame, AboutTom("GAMEMASTER_PROFILE"),
                   Showing(AboutTom("EVENT_LEADER_PROMOTE_CONFIRM"), Bares({"master:promote:yes"}, tom))))

Revoking ==
    {[start EXCEPT !.roles = [p \in Profiles |-> IF p = ada THEN "none" ELSE "viewer"]] : start \in
        Together(Start(2, ActiveGame,
                       Showing(AboutTom("MODERATOR_REMOVE_CONFIRM"), Bares({"mod:remove-confirm"}, tom)),
                       Showing(AboutTom("EVENT_LEADER_PROMOTE_CONFIRM"), Bares({"master:promote:yes"}, tom))))}

RemovingMax ==
    Showing([In("EVENT_LEADER_REMOVE_CONFIRM") EXCEPT !.who = max], Bares({"master:remove-confirm"}, max))

\* ada removes max from the game he is changing, or he himself does at the
\* same time.
Removing ==
    {[Start(3, ActiveGame, RemovingMax, In("POST_LINK_TELEGRAM")) EXCEPT !.failures = MaxFailures],
     Start(2, ActiveGame, RemovingMax, RemovingMax)}

\* Both write the links of the game; or ada does, and fails between two steps.
Linking ==
    {Start(2, ActiveGame, In("POST_LINK_VK"), In("POST_LINK_VK")),
     Start(1, ActiveGame, In("POST_LINK_VK"), IdleRow)}

RoleMenus ==
    {Start(2, ActiveGame, Showing(IdleRow, ModeratorButtons), IdleRow),
     Start(2, ActiveGame, Showing(IdleRow, GameButtons({"ag:masters"}, g1)), IdleRow)}

\* ada archives the game while max is changing its masters.
Vanishing ==
    {Start(3, ActiveGame, In("ARCHIVE_NAME"), row) : row \in
        {Showing(AboutTom("EVENT_LEADER_PROMOTE_CONFIRM"), Bares({"master:promote:yes"}, tom)), RemovingMax}}

Archived ==
    Start(3, ArchivedGame, Showing(IdleRow, GameButtons({"ag:unarchive", "ag:delete"}, g1)), IdleRow)

\* The turn that gives an order may die after it has.
Edited ==
    Start(1, ActiveGame, Showing(In("UPDATE_GAME_DATE"), Keys("UPDATE_GAME_DATE", g1)), IdleRow)

\* The question about p1 of an earlier list is still in the chat.
OldQuestions ==
    LET earlier(mode) == [Picking(mode, TRUE) EXCEPT !.token = 8, !.who = p1]
        start(mode) == Start(2, ActiveGame, Picking(mode, FALSE), IdleRow)
    IN {[start(mode) EXCEPT !.keyboard[ada] = @ \cup {SelectedButton(ConfirmValue(mode), earlier(mode))}] :
            mode \in {"remove", "promote"}}

MCStarts == OneMessage \cup {Archived, Edited} \cup Vanishing \cup Granting \cup Revoking \cup Removing \cup Linking \cup RoleMenus \cup OldQuestions
=============================================================================
