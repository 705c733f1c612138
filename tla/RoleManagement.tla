--------------------------- MODULE RoleManagement ---------------------------
(***************************************************************************)
(* Roles of the bot and masters of the games, as administrators and        *)
(* masters hand them out in their dialogues (conversation_core.py,         *)
(* conversation_admin_access.py, conversation_admin_roles.py and the       *)
(* "mod:" and "master:" parts of conversation_admin_dialog.py).            *)
(*                                                                         *)
(* A person may have a profile on each platform; linked profiles share     *)
(* their rights.  One message is one turn of the gateway: it reads, then   *)
(* performs its writes and notices one after the other, then saves the     *)
(* actor's row.  A turn may die between any two of them; the platform then *)
(* delivers the message again.  What a turn reads it reads at once.        *)
(* Overlapping turns of ONE actor are PlayerDialogue's subject: here an    *)
(* actor waits for the answer before writing again, and several actors     *)
(* work at the same time.                                                  *)
(***************************************************************************)
EXTENDS Naturals, Sequences, FiniteSets, SequencesExt, FiniteSetsExt

CONSTANTS
    Profiles,    \* rows of `users`
    People,      \* a partition of Profiles: who is linked with whom
    Admins,      \* profiles configured as administrators
    Masters,     \* the profiles that use the administration dialogues
    Players,     \* registrations
    NoOne,
    Games,
    NoGame,
    Starts,      \* where an instance begins
    MaxMessages, \* bound: messages of all actors
    MaxFailures  \* bound: turns that die

ASSUME RoleManagementAssumption ==
    /\ Masters \subseteq Profiles /\ Admins \subseteq Profiles
    /\ UNION People = Profiles
    /\ \A one, other \in People : one = other \/ one \cap other = {}
    /\ \A person \in People : IsFiniteSet(person)
    /\ NoOne \notin Profiles \cup Players /\ NoGame \notin Games
    /\ Profiles \cap Players = {}
    /\ MaxMessages \in Nat /\ MaxFailures \in Nat

VARIABLES
    games,    \* rows of `events`
    leaders,  \* rows of `event_leaders`
    roles,    \* privileged_role
    granted,  \* gamemaster_grant_operation_id
    told,     \* last_delivery_operation_id
    rows,     \* the dialogue part of the actors' rows
    pending,  \* the message each actor waits to see answered
    turn,     \* what the gateway is doing with it
    keyboard, \* history: buttons sent to each actor
    heard,    \* history: notices sent
    changed,  \* history: the request that last changed a master of a game
    refused,  \* history: messages turned away: no rights, outdated, the game is gone
    sent, failures

roleVars == <<games, leaders, roles, granted, told, rows, pending, turn, keyboard, heard,
              changed, refused, sent, failures>>

-----------------------------------------------------------------------------
Optional == Games \cup {NoGame}

Subjects == Profiles \cup Players \cup {NoOne}

Role == {"none", "moderator", "viewer", "pass", "admin"}

Assignable == Role \ {"none", "admin"}

Level(role) == CASE role = "none" -> 0 [] role = "moderator" -> 1 [] role = "viewer" -> 2
                 [] role = "pass" -> 3 [] role = "admin" -> 4

\* What a message of the bot was about, beside what its buttons carry.
About == [game : Optional, who : Subjects]

\* `value`, `game`, `who` and `token` come back when a button is pressed.
Button == [value : STRING, game : Optional, who : Subjects, token : Nat, about : About]

\* A written message: `who` is the profile or name it states, if it is good.
Message == [id : 1 .. MaxMessages, pressed : BOOLEAN, good : BOOLEAN, button : Button]

\* request_id of a grant or of a revocation
Request == [kind : {"grant", "revoke", "leader-grant", "leader-revoke"},
            game : Optional, who : Profiles, message : 1 .. MaxMessages]

NoRequest == [kind |-> "none"]

\* Dialogue of an actor; NoGame, NoOne and 0 stand for a missing key.
\* `marks` holds pending_leader_grant, pending_leader_revoke and
\* completed_master_promotion.
Row == [state : STRING, game : Optional, who : Subjects, role : Role \ {"admin"}, token : Nat,
        choices : SUBSET Players, count : Nat, marks : SUBSET Request, buttons : SUBSET Button]

Effect == [do : STRING, game : Optional, who : Subjects, arg : STRING]

\* `row` and `told` are the actor's row as the turn holds it; the
\* games its actor managed are history.
Turn == [busy : BOOLEAN, row : Row, told : Request \cup {NoRequest}, todo : Seq(Effect),
         note : {"", "refused", "revoked"}, manages : SUBSET Games]

IdleRow == [state |-> "IDLE", game |-> NoGame, who |-> NoOne, role |-> "none", token |-> 0,
            choices |-> {}, count |-> 0, marks |-> {}, buttons |-> {}]

FreeTurn == [busy |-> FALSE, row |-> IdleRow, told |-> NoRequest, todo |-> <<>>, note |-> "",
             manages |-> {}]

RoleTypeOK ==
    /\ leaders \in [Games -> SUBSET Profiles]
    /\ roles \in [Profiles -> Role \ {"admin"}]
    /\ granted \in [Profiles -> Request \cup {NoRequest}]
    /\ told \in [Profiles -> Request \cup {NoRequest}]
    /\ rows \in [Masters -> Row]
    /\ \A a \in Masters : pending[a] \subseteq Message /\ Cardinality(pending[a]) <= 1
    /\ turn \in [Masters -> Turn]
    /\ \A a \in Masters : turn[a].busy => pending[a] # {}
    /\ \A a \in Masters : keyboard[a] \subseteq Button
    /\ heard \subseteq Request
    /\ changed \in [Games -> [Profiles -> Request \cup {NoRequest}]]
    /\ refused \subseteq 1 .. MaxMessages
    /\ sent \in 0 .. MaxMessages /\ failures \in 0 .. MaxFailures

RoleInit(start) ==
    /\ games = start.games /\ leaders = start.leaders /\ roles = start.roles
    /\ rows = start.rows /\ keyboard = start.keyboard
    /\ granted = [p \in Profiles |-> NoRequest]
    /\ told = [p \in Profiles |-> NoRequest]
    /\ pending = [a \in Masters |-> {}]
    /\ turn = [a \in Masters |-> FreeTurn]
    /\ heard = {} /\ refused = {}
    /\ changed = [g \in Games |-> [p \in Profiles |-> NoRequest]]
    /\ sent = start.sent /\ failures = start.failures

-----------------------------------------------------------------------------
(***************************************************************************)
(* Rights                                                                  *)
(***************************************************************************)
\* global_users
Linked(p) == UNION {person \in People : p \in person}

IsAdmin(p) == Linked(p) \cap Admins # {}

\* _privileged_role
RoleOf(p) ==
    IF IsAdmin(p) THEN "admin"
    ELSE CHOOSE r \in {roles[q] : q \in Linked(p)} :
            \A q \in Linked(p) : Level(roles[q]) <= Level(r)

HasAdminAccess(p) == Level(RoleOf(p)) >= Level("moderator")

ViewsUnassigned(p) == Level(RoleOf(p)) >= Level("viewer")

IsLeader(p, g) == Linked(p) \cap leaders[g] # {}

Manages(p, g) == IsAdmin(p) \/ IsLeader(p, g)

ViewsDetails(p, g) == Manages(p, g) \/ ViewsUnassigned(p)

-----------------------------------------------------------------------------
(***************************************************************************)
(* Actors and turns                                                        *)
(***************************************************************************)
NoAbout == [game |-> NoGame, who |-> NoOne]

Plain(value) == [value |-> value, game |-> NoGame, who |-> NoOne, token |-> 0, about |-> NoAbout]

ForGame(value, g) == [Plain(value) EXCEPT !.game = g, !.about.game = g]

ForPerson(value, g, p) == [Plain(value) EXCEPT !.who = p, !.about = [game |-> g, who |-> p]]

\* A question about a person whose buttons do not carry the person.
Bare(value, g, p) == [Plain(value) EXCEPT !.about = [game |-> g, who |-> p]]

Send(a, pressed, good, b) ==
    /\ sent < MaxMessages
    /\ pending[a] = {}
    /\ sent' = sent + 1
    /\ pending' = [pending EXCEPT
         ![a] = {[id |-> sent + 1, pressed |-> pressed, good |-> good, button |-> b]}]
    /\ UNCHANGED <<games, leaders, roles, granted, told, rows, turn, keyboard, heard, changed,
                   refused, failures>>

Press(a) == \E b \in keyboard[a] : Send(a, TRUE, TRUE, b)

\* Text is written where a dialogue asks for it, and may be no good.
Write(a) ==
    /\ rows[a].state # "IDLE"
    /\ \/ Send(a, FALSE, FALSE, Plain("text"))
       \/ /\ rows[a].state \notin {"GAMEMASTER_PROFILE", "EVENT_LEADER_PROFILE", "EVENT_LEADER_PROMOTE_CONFIRM"}
          /\ Send(a, FALSE, TRUE, Plain("text"))
       \/ \E p \in Profiles :
            /\ rows[a].state \in {"GAMEMASTER_PROFILE", "EVENT_LEADER_PROFILE"}
            /\ Send(a, FALSE, TRUE, [Plain("text") EXCEPT !.who = p])

Received(a) == CHOOSE m \in pending[a] : TRUE

Pressed(a) == Received(a).button

Plan(a, row, todo, note) ==
    /\ turn' = [turn EXCEPT ![a] = [busy |-> TRUE, row |-> row, told |-> told[a], todo |-> todo,
                                    note |-> note,
                                    manages |-> {g \in Games : Manages(a, g)}]]
    /\ UNCHANGED <<games, leaders, roles, granted, told, rows, pending, keyboard, heard, changed,
                   refused, sent, failures>>

Say(a, row, buttons) == Plan(a, [row EXCEPT !.buttons = buttons], <<>>, "")

\* _clear and an answer
Leave(a, buttons) == Say(a, IdleRow, buttons)

\* An objection: an answer without buttons leaves none that is current.
Object(a) == Plan(a, [rows[a] EXCEPT !.buttons = {}], <<>>, "refused")

\* An answer that leaves the dialogue and its keyboard where they are.
Remark(a) == Say(a, rows[a], rows[a].buttons)

Refuse(a) == Plan(a, IdleRow, <<>>, "refused")

\* The dialogue ends because its game is gone.
Dismiss(a, buttons) == Plan(a, [IdleRow EXCEPT !.buttons = buttons], <<>>, "refused")

\* _save: the whole row is written, and the platform gets its answer.
Save(a) ==
    /\ turn[a].busy /\ turn[a].todo = <<>>
    /\ rows' = [rows EXCEPT ![a] = turn[a].row]
    /\ told' = [told EXCEPT ![a] = turn[a].told]
    /\ keyboard' = [keyboard EXCEPT ![a] = @ \cup turn[a].row.buttons]
    /\ refused' = IF turn[a].note = "refused" THEN refused \cup {Received(a).id} ELSE refused
    /\ pending' = [pending EXCEPT ![a] = {}]
    /\ turn' = [turn EXCEPT ![a] = FreeTurn]
    /\ UNCHANGED <<games, leaders, roles, granted, heard, changed, sent, failures>>

Die(a) ==
    /\ turn[a].busy /\ failures < MaxFailures
    /\ failures' = failures + 1
    /\ turn' = [turn EXCEPT ![a] = FreeTurn]
    /\ UNCHANGED <<games, leaders, roles, granted, told, rows, pending, keyboard, heard, changed,
                   refused, sent>>

-----------------------------------------------------------------------------
(***************************************************************************)
(* What a turn does after it has decided, one step at a time               *)
(***************************************************************************)
Do(what, g, p, arg) == [do |-> what, game |-> g, who |-> p, arg |-> arg]

Now(a) == Head(turn[a].todo)

Doing(a, what) == turn[a].busy /\ turn[a].todo # <<>> /\ Now(a).do = what

Requested(a, kind, g, p) == [kind |-> kind, game |-> g, who |-> p, message |-> Received(a).id]

Proceed(a) == turn' = [turn EXCEPT ![a].todo = Tail(@)]

\* An exception: the turn is given up, and the message comes again.
GiveUp(a) == turn' = [turn EXCEPT ![a] = FreeTurn]

\* _clear once the rest is done; what is left of the plan is dropped.
Finish(a, todo) == turn' = [turn EXCEPT ![a].todo = todo, ![a].row = IdleRow]

Clear(a) ==
    /\ Doing(a, "clear")
    /\ Finish(a, Tail(turn[a].todo))
    /\ UNCHANGED <<games, leaders, roles, granted, told, rows, pending, keyboard, heard, changed,
                   refused, sent, failures>>

\* users.set_privileged_role of one profile; the request names the profile
\* the actor chose.
SetRole(a) ==
    /\ Doing(a, "set-role")
    /\ roles' = [roles EXCEPT ![Now(a).who] = Now(a).arg]
    /\ granted' = [granted EXCEPT ![Now(a).who] = Requested(a, "grant", NoGame, turn[a].row.who)]
    /\ Proceed(a)
    /\ UNCHANGED <<games, leaders, told, rows, pending, keyboard, heard, changed, refused, sent,
                   failures>>

\* users.clear_privileged_role
ClearRole(a) ==
    /\ Doing(a, "clear-role")
    /\ roles[Now(a).who] = "none" => UNCHANGED <<roles, granted>>
    /\ roles[Now(a).who] # "none" =>
        /\ roles' = [roles EXCEPT ![Now(a).who] = "none"]
        /\ granted' = [granted EXCEPT
             ![Now(a).who] = Requested(a, "revoke", NoGame, turn[a].row.who)]
    /\ Proceed(a)
    /\ UNCHANGED <<games, leaders, told, rows, pending, keyboard, heard, changed, refused, sent,
                   failures>>

\* The row is read again: "... was not persisted".  A grant that somebody
\* else overwrote with the same role is theirs to announce.
CheckRole(a) ==
    /\ Doing(a, "check-role")
    /\ LET p == Now(a).who
       IN IF roles[p] # Now(a).arg THEN GiveUp(a)
          ELSE IF roles[p] # "none" /\ granted[p] # Requested(a, "grant", NoGame, p)
          THEN Finish(a, <<>>)
          ELSE Proceed(a)
    /\ UNCHANGED <<games, leaders, roles, granted, told, rows, pending, keyboard, heard, changed,
                   refused, sent, failures>>

\* _promote_master_target: the one whose grant it is sends the notice; the
\* others leave it out.
CheckPromotion(a) ==
    /\ Doing(a, "check-promotion")
    /\ LET p == Now(a).who
       IN IF roles[p] = "none" THEN GiveUp(a)
          ELSE IF granted[p] = Requested(a, "grant", NoGame, p) THEN Proceed(a)
          ELSE turn' = [turn EXCEPT ![a].todo = Tail(Tail(Tail(@)))]
    /\ UNCHANGED <<games, leaders, roles, granted, told, rows, pending, keyboard, heard, changed,
                   refused, sent, failures>>

\* users.save in the middle of a turn: the mark tells a later attempt how
\* far this one came.
Mark(a) ==
    /\ Doing(a, "mark")
    /\ LET request == Requested(a, Now(a).arg, Now(a).game, Now(a).who)
           marked == [turn[a].row EXCEPT !.marks = @ \cup {request}]
       IN /\ rows' = [rows EXCEPT ![a] = marked]
          /\ turn' = [turn EXCEPT ![a].row = marked, ![a].todo = Tail(@)]
    /\ told' = [told EXCEPT ![a] = turn[a].told]
    /\ UNCHANGED <<games, leaders, roles, granted, pending, keyboard, heard, changed, refused, sent,
                   failures>>

SetLeaders(g, who, request) ==
    /\ leaders' = [leaders EXCEPT ![g] = who]
    /\ changed' = [changed EXCEPT ![g][request.who] = request]

AddLeader(a) ==
    /\ Doing(a, "add-leader")
    /\ LET g == Now(a).game
           p == Now(a).who
       IN IF games[g].exists /\ p \notin leaders[g]
          THEN SetLeaders(g, leaders[g] \cup {p}, Requested(a, "leader-grant", g, p))
          ELSE UNCHANGED <<leaders, changed>>
    /\ Proceed(a)
    /\ UNCHANGED <<games, roles, granted, told, rows, pending, keyboard, heard, refused, sent,
                   failures>>

CheckLeader(a) ==
    /\ Doing(a, "check-leader")
    /\ IF Now(a).who \in leaders[Now(a).game] THEN Proceed(a) ELSE GiveUp(a)
    /\ UNCHANGED <<games, leaders, roles, granted, told, rows, pending, keyboard, heard, changed,
                   refused, sent, failures>>

\* remove_leader says whether there was a row; if there was none, the
\* revocation "was not persisted".
RemoveLeader(a) ==
    /\ Doing(a, "remove-leader")
    /\ LET g == Now(a).game
           p == Now(a).who
       IN IF p \in leaders[g]
          THEN SetLeaders(g, leaders[g] \ {p}, Requested(a, "leader-revoke", g, p)) /\ Proceed(a)
          ELSE GiveUp(a) /\ UNCHANGED <<leaders, changed>>
    /\ UNCHANGED <<games, roles, granted, told, rows, pending, keyboard, heard, refused, sent,
                   failures>>

\* _notify_status_change: the notice is sent unless it was claimed before;
\* then it is claimed in the row of the one it was sent to, where it takes
\* the place of the current keyboard.
Tell(a) ==
    /\ Doing(a, "tell")
    /\ LET request == Requested(a, Now(a).arg, Now(a).game, Now(a).who)
       IN IF told[Now(a).who] = request
          THEN UNCHANGED heard /\ turn' = [turn EXCEPT ![a].todo = Tail(Tail(@))]
          ELSE heard' = heard \cup {request} /\ Proceed(a)
    /\ UNCHANGED <<games, leaders, roles, granted, told, rows, pending, keyboard, changed, refused,
                   sent, failures>>

Claim(a) ==
    /\ Doing(a, "claim")
    /\ LET p == Now(a).who
           request == Requested(a, Now(a).arg, Now(a).game, p)
       IN /\ told' = [told EXCEPT ![p] = request]
          /\ rows' = [b \in Masters |-> IF b = p THEN [rows[b] EXCEPT !.buttons = {}] ELSE rows[b]]
          /\ turn' = [turn EXCEPT ![a].todo = Tail(@),
                                  ![a].told = IF a = p THEN request ELSE @]
    /\ UNCHANGED <<games, leaders, roles, granted, pending, keyboard, heard, changed, refused, sent,
                   failures>>

Notice(kind, g, p) == <<Do("tell", g, p, kind), Do("claim", g, p, kind)>>

-----------------------------------------------------------------------------
(***************************************************************************)
(* Roles of the bot                                                        *)
(***************************************************************************)
ModeratorButtons == {Plain("role:grant"), Plain("role:revoke"), Plain("role:list")}

\* MANAGE_MODERATORS; handle has cleared the dialogue.
ModeratorMenu(a) ==
    IF IsAdmin(a) THEN Leave(a, ModeratorButtons) ELSE Leave(a, {})

\* The three GRANT buttons.
StartGrant(a) ==
    IF ~IsAdmin(a) THEN Object(a)
    ELSE \E r \in Assignable :
            Say(a, [IdleRow EXCEPT !.state = "GAMEMASTER_PLATFORM", !.role = r],
                {Plain("admin:gamemaster")})

GrantPlatform(a) ==
    IF ~IsAdmin(a) THEN Refuse(a)
    ELSE IF Pressed(a).value # "admin:gamemaster" THEN Remark(a)
    ELSE Say(a, [rows[a] EXCEPT !.state = "GAMEMASTER_PROFILE"], {Plain("mod:menu")})

\* Variant: a repeated grant is not recognised.
NeverSame(a, p) == FALSE

\* The message has granted the role before, and was given up after that.
SameOperation(a, p) ==
    /\ roles[p] = rows[a].role
    /\ granted[p] = Requested(a, "grant", NoGame, p)

\* _grant_gamemaster
Grant(a) ==
    LET p == Pressed(a).who
        role == rows[a].role
        others == {q \in Linked(p) \ {p} : roles[q] # role}
        own == IF roles[p] = role /\ SameOperation(a, p) THEN {} ELSE {p}
        writes(who) == SetToSeq({Do("set-role", NoGame, q, role) : q \in who})
    IN IF ~IsAdmin(a) THEN Refuse(a)
       ELSE IF p = NoOne \/ ~Received(a).good THEN Say(a, rows[a], {Plain("mod:menu")})
       ELSE IF IsAdmin(p) \/ (RoleOf(p) = role /\ ~SameOperation(a, p)) THEN Leave(a, {})
       ELSE Plan(a, [rows[a] EXCEPT !.who = p],
                 writes(own) \o writes(others) \o <<Do("check-role", NoGame, p, role)>>
                     \o Notice("grant", NoGame, p) \o <<Do("clear", NoGame, NoOne, "")>>, "")

\* _moderator_users(removable): the roles that the bot itself has granted
Removable == {p \in Profiles : roles[p] # "none" /\ p \notin Admins}

ShowModerators(a, mode) ==
    IF ~IsAdmin(a) THEN Object(a)
    ELSE IF mode = "remove"
    THEN Say(a, [IdleRow EXCEPT !.state = "MODERATOR_REMOVE"],
             {ForPerson("mod:remove-pick", NoGame, p) : p \in Removable} \cup {Plain("mod:menu")})
    ELSE Say(a, [IdleRow EXCEPT !.state = "MODERATOR_LIST"],
             {ForPerson("mod:view", NoGame, p) : p \in {q \in Profiles : RoleOf(q) # "none"}}
                 \cup {Plain("mod:menu")})

ViewModerator(a) ==
    IF ~IsAdmin(a) \/ rows[a].state # "MODERATOR_LIST" THEN Object(a)
    ELSE Say(a, rows[a], {Plain("mod:list-page")})

PickModerator(a) ==
    LET p == Pressed(a).who
    IN IF ~IsAdmin(a) \/ rows[a].state # "MODERATOR_REMOVE" THEN Object(a)
       ELSE IF roles[p] = "none" \/ IsAdmin(p) THEN ShowModerators(a, "remove")
       ELSE Say(a, [rows[a] EXCEPT !.state = "MODERATOR_REMOVE_CONFIRM", !.who = p, !.role = roles[p]],
                {Bare("mod:remove-confirm", NoGame, p), Plain("mod:remove-page")})

\* Variant: only the chosen profile loses its role.
OnlyChosen(p) == {p}

\* Whose roles a revocation clears.
Affected(p) == Linked(p)

Revoke(a) ==
    LET p == rows[a].who
        holders == {q \in Affected(p) : roles[q] # "none"}
        checked == IF p \in Affected(p) THEN <<Do("check-role", NoGame, p, "none")>> ELSE <<>>
    IN IF ~IsAdmin(a) \/ rows[a].state # "MODERATOR_REMOVE_CONFIRM" THEN Object(a)
       ELSE IF holders = {} /\ granted[p] # Requested(a, "revoke", NoGame, p) THEN Leave(a, {})
       ELSE Plan(a, rows[a],
                 SetToSeq({Do("clear-role", NoGame, q, "") : q \in holders})
                     \o (IF holders = {} THEN <<>> ELSE checked)
                     \o Notice("revoke", NoGame, p) \o <<Do("clear", NoGame, NoOne, "")>>, "revoked")

-----------------------------------------------------------------------------
(***************************************************************************)
(* Masters of a game                                                       *)
(***************************************************************************)
Active(g) == games[g].exists /\ ~games[g].archived

\* _event_masters_menu; handle has cleared the dialogue.
MastersMenu(a, g) ==
    IF ~ViewsDetails(a, g) THEN Leave(a, {})
    ELSE Leave(a,
           {ForGame("master:list", g)}
             \cup {ForGame(v, g) : v \in IF Manages(a, g) THEN {"master:add", "master:remove"} ELSE {}}
             \cup {ForGame(v, g) : v \in IF IsAdmin(a) /\ ~IsLeader(a, g)
                                         THEN {"master:self-add"} ELSE {}})

\* _master_candidates
Candidates(g) == {p \in Profiles : RoleOf(p) # "none" /\ p \notin leaders[g]}

\* _show_event_master_candidates
CandidatesShown(row, g) ==
    [IdleRow EXCEPT
        !.state = "EVENT_LEADER_ADD_PICK", !.game = g, !.marks = {},
        !.buttons = {ForPerson("master:add-pick", g, p) : p \in Candidates(g)}
                        \cup {Plain("master:add-direct"), ForGame("ag:masters", g)}]

\* _show_event_masters
MastersShown(mode, g) ==
    [IdleRow EXCEPT
        !.state = IF mode = "remove" THEN "EVENT_LEADER_REMOVE" ELSE "EVENT_LEADER_LIST",
        !.game = g,
        !.buttons = {ForPerson(IF mode = "remove" THEN "master:remove-pick" ELSE "master:view", g, p) :
                        p \in leaders[g]} \cup {ForGame("ag:masters", g)}]

Present(a, row) == Plan(a, row, <<>>, "")

\* _master_promotion_question
PromotionQuestion(row, g, p) ==
    [row EXCEPT !.state = "EVENT_LEADER_PROMOTE_CONFIRM", !.game = g, !.who = p,
                !.buttons = {Bare("master:promote:yes", g, p), Bare("master:promote:no", g, p)}]

\* Variant: an addition that was given up is not taken up again.
NothingPending(row, request) == FALSE

\* pending_leader_grant: the message has added the master before.
GrantPending(row, request) == request \in row.marks

\* _assign_event_leader, from the rights as they are now: the row and the
\* plan of the turn.
Assignment(a, row, g, p) ==
    LET done == <<Do("clear", NoGame, NoOne, "")>>
        request == Requested(a, "leader-grant", g, p)
    IN IF ~HasAdminAccess(p) THEN [row |-> PromotionQuestion(row, g, p), todo |-> <<>>]
       ELSE IF Linked(p) \cap leaders[g] # {}
       THEN [row |-> row,
             todo |-> IF GrantPending(row, request) THEN Notice("leader-grant", g, p) \o done ELSE done]
       ELSE [row |-> row,
             todo |-> <<Do("mark", g, p, "leader-grant"), Do("add-leader", g, p, ""),
                        Do("check-leader", g, p, "")>> \o Notice("leader-grant", g, p) \o done]

Assign(a, g, p) ==
    LET plan == Assignment(a, rows[a], g, p) IN Plan(a, plan.row, plan.todo, "")

AddSelf(a) ==
    LET g == Pressed(a).game
    IN IF ~IsAdmin(a) \/ ~Active(g) THEN Object(a) ELSE Assign(a, g, a)

\* "master:add:", "master:remove:" and "master:list:"
OpenMasters(a, mode) ==
    LET g == Pressed(a).game
    IN IF ~Active(g) THEN Object(a)
       ELSE IF mode = "list"
       THEN IF ViewsDetails(a, g) THEN Present(a, MastersShown("list", g)) ELSE Object(a)
       ELSE IF ~Manages(a, g) THEN Leave(a, {})
       ELSE Present(a, IF mode = "add" THEN CandidatesShown(rows[a], g) ELSE MastersShown("remove", g))

PickMaster(a) ==
    LET g == rows[a].game
    IN IF rows[a].state # "EVENT_LEADER_ADD_PICK" \/ ~games[g].exists THEN Object(a)
       ELSE Assign(a, g, Pressed(a).who)

\* _promote_master_target, then _assign_event_leader; the second is decided
\* when the first is done.
Promote(a) ==
    LET g == rows[a].game
        p == rows[a].who
        row == rows[a]
        request == Requested(a, "grant", NoGame, p)
        same == roles[p] = "moderator" /\ granted[p] = request
        writes == IF roles[p] = "none" THEN <<Do("set-role", NoGame, p, "moderator")>> ELSE <<>>
        promotion ==
            IF request \in row.marks THEN <<>>
            ELSE IF ~same /\ HasAdminAccess(p) THEN <<Do("mark", NoGame, p, "grant")>>
            ELSE writes \o <<Do("check-promotion", NoGame, p, "")>> \o Notice("grant", NoGame, p)
                     \o <<Do("mark", NoGame, p, "grant")>>
    IN IF row.state # "EVENT_LEADER_PROMOTE_CONFIRM" THEN Object(a)
       ELSE IF ~games[g].exists THEN Dismiss(a, {})
       ELSE Plan(a, row, promotion \o <<Do("assign", g, p, "")>>, "")

AssignPromoted(a) ==
    /\ Doing(a, "assign")
    /\ LET plan == Assignment(a, turn[a].row, Now(a).game, Now(a).who)
       IN turn' = [turn EXCEPT ![a].row = plan.row, ![a].todo = plan.todo]
    /\ UNCHANGED <<games, leaders, roles, granted, told, rows, pending, keyboard, heard, changed,
                   refused, sent, failures>>

DeclinePromotion(a) ==
    LET g == rows[a].game
    IN IF rows[a].state # "EVENT_LEADER_PROMOTE_CONFIRM" THEN Object(a)
       ELSE IF ~games[g].exists THEN Dismiss(a, {})
       ELSE Present(a, CandidatesShown(rows[a], g))

AddDirectly(a) ==
    IF rows[a].state # "EVENT_LEADER_ADD_PICK" THEN Object(a)
    ELSE Say(a, [rows[a] EXCEPT !.state = "EVENT_LEADER_PLATFORM"],
             {Plain("admin:event-leader"), ForGame("ag:masters", rows[a].game)})

LeaderPlatform(a) ==
    IF Pressed(a).value # "admin:event-leader" THEN Remark(a)
    ELSE Say(a, [rows[a] EXCEPT !.state = "EVENT_LEADER_PROFILE"], {ForGame("ag:masters", rows[a].game)})

\* _add_event_leader
LeaderProfile(a) ==
    LET g == rows[a].game
        p == Pressed(a).who
    IN IF p = NoOne \/ ~Received(a).good THEN Remark(a)
       ELSE IF ~games[g].exists THEN Dismiss(a, {})
       ELSE Assign(a, g, p)

ViewMaster(a) ==
    IF rows[a].state # "EVENT_LEADER_LIST" THEN Object(a)
    ELSE Say(a, rows[a], {Plain("master:list-page")})

\* "master:remove-page:" and "master:list-page:"; the game is the
\* dialogue's, and there may be none.
PageMasters(a, mode) ==
    LET g == rows[a].game
    IN IF g = NoGame THEN Object(a)
       ELSE IF ~games[g].exists THEN Object(a)
       ELSE Present(a, MastersShown(mode, g))

PickRemoved(a) ==
    LET g == rows[a].game
        p == Pressed(a).who
    IN IF rows[a].state # "EVENT_LEADER_REMOVE" THEN Object(a)
       ELSE IF p \notin leaders[g]
       THEN IF games[g].exists THEN Present(a, MastersShown("remove", g)) ELSE Object(a)
       ELSE Say(a, [rows[a] EXCEPT !.state = "EVENT_LEADER_REMOVE_CONFIRM", !.who = p],
                {Bare("master:remove-confirm", g, p), Plain("master:remove-page")})

RemoveMaster(a) ==
    LET g == rows[a].game
        p == rows[a].who
        told0 == Notice("leader-revoke", g, p) \o <<Do("clear", NoGame, NoOne, "")>>
    IN IF rows[a].state # "EVENT_LEADER_REMOVE_CONFIRM" THEN Object(a)
       ELSE IF ~games[g].exists THEN Dismiss(a, {})
       ELSE IF p \in leaders[g]
       THEN Plan(a, rows[a], <<Do("mark", g, p, "leader-revoke"), Do("remove-leader", g, p, "")>> \o told0, "")
       ELSE IF Requested(a, "leader-revoke", g, p) \in rows[a].marks THEN Plan(a, rows[a], told0, "")
       ELSE Leave(a, {})

-----------------------------------------------------------------------------
(***************************************************************************)
(* _admin_callback: what a "mod:" or "master:" button does                 *)
(***************************************************************************)
RoleCallbacks ==
    {"mod:list-page", "mod:remove-page", "mod:view", "mod:remove-pick", "mod:remove-confirm",
     "master:self-add", "master:add", "master:remove", "master:list",
     "master:remove-page", "master:list-page", "master:add-pick", "master:add-direct",
     "master:promote:yes", "master:promote:no", "master:view", "master:remove-pick",
     "master:remove-confirm"}

Callback(a) ==
    LET v == Pressed(a).value
    IN \/ v = "mod:list-page" /\ ShowModerators(a, "list")
       \/ v = "mod:remove-page" /\ ShowModerators(a, "remove")
       \/ v = "mod:view" /\ ViewModerator(a)
       \/ v = "mod:remove-pick" /\ PickModerator(a)
       \/ v = "mod:remove-confirm" /\ Revoke(a)
       \/ v = "master:self-add" /\ AddSelf(a)
       \/ v = "master:add" /\ OpenMasters(a, "add")
       \/ v = "master:remove" /\ OpenMasters(a, "remove")
       \/ v = "master:list" /\ OpenMasters(a, "list")
       \/ v = "master:remove-page" /\ PageMasters(a, "remove")
       \/ v = "master:list-page" /\ PageMasters(a, "list")
       \/ v = "master:add-pick" /\ PickMaster(a)
       \/ v = "master:add-direct" /\ AddDirectly(a)
       \/ v = "master:promote:yes" /\ Promote(a)
       \/ v = "master:promote:no" /\ DeclinePromotion(a)
       \/ v = "master:view" /\ ViewMaster(a)
       \/ v = "master:remove-pick" /\ PickRemoved(a)
       \/ v = "master:remove-confirm" /\ RemoveMaster(a)

\* The dialogue states of roles and masters that take an answer.
RoleStep(a) ==
    LET state == rows[a].state
    IN \/ state = "GAMEMASTER_PLATFORM" /\ GrantPlatform(a)
       \/ state = "GAMEMASTER_PROFILE" /\ Grant(a)
       \/ state = "EVENT_LEADER_PLATFORM" /\ LeaderPlatform(a)
       \/ state = "EVENT_LEADER_PROFILE" /\ LeaderProfile(a)
       \/ state = "EVENT_LEADER_PROMOTE_CONFIRM" /\ Remark(a)

RoleSteps == {"GAMEMASTER_PLATFORM", "GAMEMASTER_PROFILE", "EVENT_LEADER_PLATFORM",
              "EVENT_LEADER_PROFILE", "EVENT_LEADER_PROMOTE_CONFIRM"}

\* One effect of a turn that is under way, or its end.
RoleEffect(a) ==
    \/ Clear(a) \/ SetRole(a) \/ ClearRole(a) \/ CheckRole(a) \/ CheckPromotion(a) \/ Mark(a)
    \/ AddLeader(a) \/ CheckLeader(a) \/ RemoveLeader(a) \/ Tell(a) \/ Claim(a) \/ AssignPromoted(a)
    \/ Save(a)
=============================================================================
