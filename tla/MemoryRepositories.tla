-------------------------- MODULE MemoryRepositories --------------------------
(***************************************************************************)
(* The repositories of adapters/memory.py as functions of rows: what a     *)
(* method makes of the row it is called for.  The unit tests run on them,  *)
(* and on AWS they decide what a transaction writes (DynamoStore).         *)
(*                                                                         *)
(* A row keeps the fields that another method reads: a game its status,    *)
(* whether its opening is planned for later, the unique values signup      *)
(* token and Telegram chat, the archive, the operation of a closing and    *)
(* one link; a registration its place in the queue; a user the role, the   *)
(* last notice and the last update.  Methods that only set other columns   *)
(* behave like the ones kept.                                              *)
(*                                                                         *)
(* Definitions whose comment begins with "Variant" are plausible mistakes; *)
(* no specification uses them.  PROJECT.json pairs each with the property  *)
(* that notices it.                                                        *)
(***************************************************************************)
EXTENDS Naturals

CONSTANTS
    Games,
    People,      \* identities: leaders and players of games, rows of `users`
    Tokens,      \* signup tokens
    Chats,       \* Telegram chats
    Operations,  \* operation ids
    None

ASSUME MemoryAssumption ==
    /\ None \notin Games \cup Tokens \cup Chats \cup Operations
    /\ Tokens \cap Chats = {}

\* There is no row.
NoDoc == [kind |-> "none"]

Exists(doc) == doc.kind # "none"

Event ==
    [kind : {"event"}, status : {"created", "confirmation_open", "closed"}, planned : BOOLEAN,
     token : Tokens, chat : Chats \cup {None}, archived : BOOLEAN,
     closing : Operations \cup {None}, link : Operations \cup {None}]

Leader == [kind |-> "leader"]

Registration ==
    [kind : {"registration"}, status : {"waiting", "confirmed", "cancelled"}, at : Nat,
     op : Operations \cup {None}, told : BOOLEAN]

Role == {"none", "moderator", "viewer", "pass", "admin"}

User ==
    [kind : {"user"}, role : Role, grant : Operations \cup {None},
     told : Operations \cup {None}, experienced : BOOLEAN, update : Operations \cup {None}]

(***************************************************************************)
(* A call: the method, the game it is about, the people it names, its      *)
(* operation id, and the value it is given.                                *)
(***************************************************************************)
EventMethods ==
    {"create", "delete", "set_status", "set_registration_open_at", "bind_telegram_chat",
     "migrate_telegram_chat", "archive", "unarchive", "start_scheduled_close",
     "complete_scheduled_close_actions", "open_confirmation", "set_public_table"}

\* A call of the event repository names a game and passes a value of its kind.
EventCall(call) ==
    /\ call.game \in Games
    /\ call.op \in Operations
    /\ call.method = "create" => call.value \in Tokens
    /\ call.method = "set_status" => call.value \in {"created", "confirmation_open", "closed"}
    /\ call.method = "set_registration_open_at" => call.value \in BOOLEAN
    /\ call.method \in {"bind_telegram_chat", "migrate_telegram_chat"} => call.chat \in Chats

LeaderMethods == {"create", "delete", "add_leader", "remove_leader", "list_leaders"}

RegistrationMethods ==
    {"enlist", "confirm_linked", "update_linked_wish", "cancel_linked", "sift_waiting_to_end",
     "swap_queue_positions", "remove_many", "delete_for_event", "mark_delivered"}

UserMethods ==
    {"save", "set_privileged_role", "clear_privileged_role", "claim_delivery",
     "grant_larp_experience"}

-----------------------------------------------------------------------------
(***************************************************************************)
(* MemoryEventRepository                                                   *)
(***************************************************************************)
NewEvent(token) ==
    [kind |-> "event", status |-> "created", planned |-> FALSE, token |-> token, chat |-> None,
     archived |-> FALSE, closing |-> None, link |-> None]

\* A manual opening overrides a planned one; other statuses leave the plan alone.
SetStatus(event, status) ==
    [event EXCEPT !.status = status, !.planned = @ /\ status # "created"]

\* A game has one chat, and keeps it.  `others` are the games known to have the chat.
BindChat(event, chat, others) ==
    IF event.archived \/ event.chat # None \/ others # {} THEN event
    ELSE [event EXCEPT !.chat = chat]

\* Telegram gives a group a new id when it becomes a supergroup.
MigrateChat(event, old, new, others) ==
    IF event.chat \notin {old, new} \/ others # {} THEN event
    ELSE [event EXCEPT !.chat = new]

Archive(event) ==
    IF event.archived THEN event ELSE [event EXCEPT !.status = "closed", !.archived = TRUE]

Unarchive(event) == [event EXCEPT !.archived = FALSE]

\* One closing is begun at a time, and none of an archived game.
StartClose(event, op) ==
    IF event.closing = op \/ event.archived \/ event.closing # None THEN event
    ELSE [event EXCEPT !.status = "closed", !.closing = op]

\* The actions of another closing are not this one's to complete.
CompleteClose(event, op) ==
    IF event.closing = op THEN Archive(event) ELSE event

OpenConfirmation(event) == [event EXCEPT !.status = "confirmation_open"]

\* The first link stays: tables, achievements and the chat's invitation.
SetLink(event, link) == IF event.link # None THEN event ELSE [event EXCEPT !.link = link]

\* What a method leaves of the game's row.
EventMethod(call, event, others) ==
    IF ~Exists(event)
    THEN IF call.method = "create" THEN NewEvent(call.value) ELSE event
    ELSE CASE call.method = "delete" -> NoDoc
           [] call.method = "set_status" -> SetStatus(event, call.value)
           [] call.method = "set_registration_open_at" -> [event EXCEPT !.planned = call.value]
           [] call.method = "bind_telegram_chat" -> BindChat(event, call.chat, others)
           [] call.method = "migrate_telegram_chat" ->
                MigrateChat(event, call.value, call.chat, others)
           [] call.method = "archive" -> Archive(event)
           [] call.method = "unarchive" -> Unarchive(event)
           [] call.method = "start_scheduled_close" -> StartClose(event, call.op)
           [] call.method = "complete_scheduled_close_actions" -> CompleteClose(event, call.op)
           [] call.method = "open_confirmation" -> OpenConfirmation(event)
           [] call.method = "set_public_table" -> SetLink(event, call.op)
           [] OTHER -> event

\* Methods that stamp updated_at also when they change nothing else.
StampsEvent(call, event) ==
    call.method \in {"set_status", "open_confirmation"} /\ Exists(event)

StampsUser(call, user) == call.method = "grant_larp_experience" /\ Exists(user)

\* The row of one leader.  Leaders of a game without a row are not kept.
LeaderMethod(call, event, leader, person) ==
    IF call.method = "delete" \/ (call.method # "create" /\ ~Exists(event)) THEN NoDoc
    ELSE IF person \notin call.people THEN leader
    ELSE CASE call.method \in {"create", "add_leader"} -> Leader
           [] call.method = "remove_leader" -> NoDoc
           [] OTHER -> leader

-----------------------------------------------------------------------------
(***************************************************************************)
(* MemoryRegistrationRepository.  `rows` are the rows of all games, by     *)
(* game and person.                                                        *)
(***************************************************************************)
Active(rows, game) ==
    {p \in People : Exists(rows[game, p]) /\ rows[game, p].status # "cancelled"}

Waiting(rows, game) == {p \in Active(rows, game) : rows[game, p].status = "waiting"}

\* The places taken, and the first behind all of them.
Places(rows, game) == {rows[game, p].at : p \in Active(rows, game)}

NextPlace(rows, game) ==
    CHOOSE n \in {0} \cup {m + 1 : m \in Places(rows, game)} : \A m \in Places(rows, game) : n > m

\* A row already marked with the operation has been written by it.
Applied(row, op) == ~Exists(row) \/ row.op = op

EnlistedRow(rows, game, person, op) ==
    LET row == rows[game, person] IN
    IF ~Exists(row)
    THEN [kind |-> "registration", status |-> "waiting", at |-> NextPlace(rows, game),
          op |-> op, told |-> FALSE]
    ELSE IF row.op = op THEN row
    ELSE IF row.status = "cancelled"
    THEN [row EXCEPT !.status = "waiting", !.at = NextPlace(rows, game), !.op = op]
    ELSE [row EXCEPT !.op = op]

Marked(row, op, status) ==
    IF Applied(row, op) THEN row ELSE [row EXCEPT !.status = status, !.op = op]

\* max(created_at) - min(created_at) + 1 microsecond, over the active rows.
Shift(rows, game) ==
    LET apart == {m - n + 1 : m, n \in Places(rows, game)}
    IN  CHOOSE d \in apart : \A other \in apart : other <= d

SiftedRow(rows, game, person) ==
    IF person \in Waiting(rows, game)
    THEN [rows[game, person] EXCEPT !.at = @ + Shift(rows, game)]
    ELSE rows[game, person]

\* Two players change places, at the times the caller has read.
SwappedRow(rows, call, person) ==
    LET up == rows[call.game, call.up]
        down == rows[call.game, call.down]
    IN  IF ~Exists(up) \/ ~Exists(down) \/ (up.op = call.op /\ down.op = call.op)
        THEN rows[call.game, person]
        ELSE IF person = call.up THEN [up EXCEPT !.at = call.value[2], !.op = call.op]
        ELSE [down EXCEPT !.at = call.value[1], !.op = call.op]

\* Confirming gives up the game it replaces, in the same step.
ConfirmedRow(rows, call, game, person) ==
    LET row == rows[game, person] IN
    IF person \notin call.people THEN row
    ELSE IF game = call.game THEN Marked(row, call.op, "confirmed")
    ELSE IF game = call.value THEN Marked(row, call.op, "cancelled")
    ELSE row

RegistrationMethod(call, rows, game, person) ==
    LET row == rows[game, person] IN
    IF call.method = "confirm_linked" THEN ConfirmedRow(rows, call, game, person)
    ELSE IF game # call.game THEN row
    ELSE IF call.method = "sift_waiting_to_end" THEN SiftedRow(rows, game, person)
    ELSE IF call.method = "delete_for_event" THEN NoDoc
    ELSE IF person \notin call.people THEN row
    ELSE CASE call.method = "enlist" -> EnlistedRow(rows, game, person, call.op)
           [] call.method = "update_linked_wish" ->
                IF Applied(row, call.op) THEN row ELSE [row EXCEPT !.op = call.op]
           [] call.method = "cancel_linked" -> Marked(row, call.op, "cancelled")
           [] call.method = "swap_queue_positions" -> SwappedRow(rows, call, person)
           [] call.method = "remove_many" -> NoDoc
           [] call.method = "mark_delivered" /\ Exists(row) -> [row EXCEPT !.told = TRUE]
           [] OTHER -> row

-----------------------------------------------------------------------------
(***************************************************************************)
(* MemoryUserRepository.  `held` is the user the caller of save has read   *)
(* before and changed since.                                               *)
(***************************************************************************)
NewUser ==
    [kind |-> "user", role |-> "none", grant |-> None, told |-> None, experienced |-> FALSE,
     update |-> None]

\* The whole row is replaced by what the caller holds.
Saved(user, held, update) == [held EXCEPT !.update = update]

GrantedRole(user, role, op) ==
    IF user.role = role /\ user.grant = op THEN user
    ELSE [user EXCEPT !.role = role, !.grant = op]

ClearedRole(user, op) ==
    IF user.role = "none" THEN user ELSE [user EXCEPT !.role = "none", !.grant = op]

UserMethod(call, user, held) ==
    IF call.method = "save" THEN Saved(user, held, call.op)
    ELSE IF ~Exists(user) THEN user
    ELSE CASE call.method = "set_privileged_role" -> GrantedRole(user, call.value, call.op)
           [] call.method = "clear_privileged_role" -> ClearedRole(user, call.op)
           [] call.method = "claim_delivery" -> [user EXCEPT !.told = call.op]
           [] call.method = "grant_larp_experience" -> [user EXCEPT !.experienced = TRUE]
           [] OTHER -> user

\* Methods that raise instead of returning.
Raises(call, event, user) ==
    \/ call.method = "create" /\ Exists(event)
    \/ call.method \in {"set_privileged_role", "clear_privileged_role"} /\ ~Exists(user)
===============================================================================
