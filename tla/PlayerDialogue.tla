--------------------------- MODULE PlayerDialogue ---------------------------
(***************************************************************************)
(* One player's conversation with the bot (conversation_core.py,           *)
(* conversation_players.py, conversation_questions.py) beside the worker   *)
(* that applies the published commands and the masters who change the      *)
(* games meanwhile.                                                        *)
(*                                                                         *)
(* A message is handled by one invocation of the gateway: it loads the     *)
(* player's row of `users`, decides, publishes at most one command and     *)
(* saves the whole row.  Several invocations run at the same time.  The    *)
(* platform delivers a message again until it has been answered.           *)
(*                                                                         *)
(* Buttons stay on the screen: every button ever sent can be pressed at    *)
(* any later time.  The games all conflict with each other.  Texts are     *)
(* left out; a text is accepted or refused (too long, empty).              *)
(***************************************************************************)
EXTENDS Naturals, Sequences, FiniteSets, SequencesExt

CONSTANTS
    Games,
    Questions,    \* games that ask an additional question at signup
    NoGame,
    Lists,        \* lists of games the player opens
    Slots,        \* invocations of the gateway at the same time
    Starts,       \* games, registrations, wishes, the player's row and the
                  \* buttons on the screen, where an instance begins
    MasterMoves,  \* changes of games by masters and time
    MaxMessages,  \* bound: messages of the player
    MaxMoves,     \* bound: changes of games
    MaxFailures   \* bound: failed invocations

ASSUME PlayerDialogueAssumption ==
    /\ Questions \subseteq Games /\ NoGame \notin Games
    /\ Lists \subseteq {"list:enlist", "list:confirm", "list:wishes", "list:cancel"}
    /\ MasterMoves \subseteq {"open", "postpone", "confirmation", "close", "archive", "unarchive", "delete"}
    /\ MaxMessages \in Nat /\ MaxMoves \in Nat /\ MaxFailures \in Nat

VARIABLES
    games,       \* rows of `events`
    regs,        \* the player's attendance status in each game
    wished,      \* games in which the player has a character wish
    user,        \* the player's row of `users`
    pending,     \* messages the platform has still to deliver
    turn,        \* what each invocation is doing
    queue,       \* published commands, in their FIFO groups
    keyboard,    \* history: buttons of dialogues sent so far
    lost,        \* history: buttons of answers that could not be sent
    agreed,      \* history: games that were asked about when a yes came
    published,   \* history: commands
    accepted,    \* history: messages answered with "accepted"
    sent, moves, failures

vars == <<games, regs, wished, user, pending, turn, queue, keyboard, lost, agreed, published, accepted,
          sent, moves, failures>>

outside == <<games, regs, wished, queue, published, moves>>

-----------------------------------------------------------------------------
Game == [status : {"created", "confirmation_open", "closed"}, opened : BOOLEAN,
         archived : BOOLEAN, exists : BOOLEAN]

Optional == Games \cup {NoGame}

\* `value` and `game` are what the platform sends back; `about` is what the
\* message of the button was about: a game, and the game it would replace.
Values == Lists \cup {"start", "menu", "enlist", "confirm", "character", "co-player", "answer", "cancel",
           "enlist:skip", "wish:skip", "keep", "none", "replace:yes", "cancel:yes", "pick"}

Button == [value : Values, game : Optional, about : SeqOf(Games, 2)]

Message == [id : 1 .. MaxMessages, kind : {"text", "media", "press"}, button : Button]

States == {"IDLE", "ENLIST_WISH_PLAY", "ENLIST_ANSWER", "ANSWER_EDIT", "CONFIRM_REPLACE",
           "CONFIRM_WISH", "CHARACTER_EDIT", "CO_PLAYER_EDIT", "CANCEL_CONFIRM"}

\* FREE_TEXT_DIALOG_STATES
FreeText == States \ {"IDLE", "CONFIRM_REPLACE", "CANCEL_CONFIRM"}

\* dialog_context; NoGame and FALSE stand for a missing key.
Context == [event : Optional, replaced : Optional, existing : BOOLEAN,
            wish : BOOLEAN, answered : BOOLEAN]

NoContext == [event |-> NoGame, replaced |-> NoGame, existing |-> FALSE,
              wish |-> FALSE, answered |-> FALSE]

User == [state : States, context : Context, buttons : SUBSET Button, last : 0 .. MaxMessages]

Kinds == {"enlist", "confirm", "character", "co-player", "answer", "cancel"}

\* `pressed` is what the message of the pressed button was about, if any;
\* `old` says that the button was not on the current keyboard.
Command == [message : 1 .. MaxMessages, kind : Kinds, game : Games, replaced : Optional,
            pressed : SeqOf(Games, 2), old : BOOLEAN, answered : BOOLEAN]

NoButton == [value |-> "menu", game |-> NoGame, about |-> <<>>]

Turn == [step : {"free", "decide", "publish", "save"}, message : SUBSET Message,
         user : User, command : SUBSET Command, accepts : BOOLEAN]

\* Confirmations of all games wait in one group of the player.
Groups == Games \cup {NoGame}

GroupOf(c) == IF c.kind = "confirm" THEN NoGame ELSE c.game

IsOne(S) == \E x \in S : S = {x}

TypeOK ==
    /\ games \in [Games -> Game]
    /\ regs \in [Games -> {"none", "waiting", "confirmed", "cancelled"}]
    /\ wished \subseteq Games
    /\ user \in User
    /\ pending \subseteq Message
    /\ turn \in [Slots -> Turn]
    /\ \A s \in Slots : IF turn[s].step = "free" THEN turn[s].message = {} ELSE IsOne(turn[s].message)
    /\ \A s \in Slots : IF turn[s].step = "publish" THEN IsOne(turn[s].command) ELSE turn[s].command = {}
    /\ queue \in [Groups -> Seq(Command)]
    /\ keyboard \subseteq Button /\ lost \subseteq Button /\ agreed \subseteq Games \X Games
    /\ published \subseteq Command
    /\ accepted \subseteq 1 .. MaxMessages
    /\ sent \in 0 .. MaxMessages /\ moves \in 0 .. MaxMoves /\ failures \in 0 .. MaxFailures

-----------------------------------------------------------------------------
\* A button that opens a dialogue names the game.
NamesGame(b) ==
    b.value \in {"start", "enlist", "confirm", "character", "co-player", "answer", "cancel"}
    => b.game \in Games

\* A dialogue finds the keys of dialog_context that its handler reads
\* (context["event_id"], context["replaced_event_id"], context["wish_play"]).
HasItsContext(u) ==
    /\ u.state # "IDLE" => u.context.event # NoGame
    /\ u.state = "CONFIRM_REPLACE" => u.context.replaced # NoGame
    /\ u.state = "ENLIST_ANSWER" => u.context.wish

QuestionAbout(g, f) == [value |-> "replace:yes", game |-> NoGame, about |-> <<g, f>>]

\* The games of the question, when the message that meets it in the player's
\* row is a press of its yes.  The yes of an older question has the same value.
SaysYes(u, m) ==
    IF u.state = "CONFIRM_REPLACE" /\ m.kind = "press" /\ m.button.value = "replace:yes"
    THEN {<<u.context.event, u.context.replaced>>}
    ELSE {}

\* Of a game to be given up the player has been asked, and then has said yes.
\* `put` are the questions put so far, `yes` those that were answered so.
AskedFirst(u, put, yes) ==
    u.state \in {"CONFIRM_REPLACE", "CONFIRM_WISH"} /\ u.context.replaced # NoGame =>
        /\ QuestionAbout(u.context.event, u.context.replaced) \in put
        /\ u.state = "CONFIRM_WISH" => <<u.context.event, u.context.replaced>> \in yes

Beginning == [games : [Games -> Game], regs : [Games -> {"none", "waiting", "confirmed", "cancelled"}],
              wished : SUBSET Games, user : User, keyboard : SUBSET Button]

\* An instance may begin within a dialogue, but with no yes said.
ASSUME StartsAssumption ==
    \A start \in Starts :
        /\ start \in Beginning /\ start.user.buttons \subseteq start.keyboard
        /\ \A b \in start.keyboard : NamesGame(b)
        /\ HasItsContext(start.user) /\ AskedFirst(start.user, start.keyboard, {})

FreeTurn(u) == [step |-> "free", message |-> {}, user |-> u, command |-> {}, accepts |-> FALSE]

NewUser == [state |-> "IDLE", context |-> NoContext, buttons |-> {}, last |-> 0]

Init ==
    /\ \E start \in Starts :
        /\ games = start.games /\ regs = start.regs /\ wished = start.wished
        /\ user = start.user /\ keyboard = start.keyboard
    /\ lost = {} /\ agreed = {}
    /\ pending = {}
    /\ turn = [s \in Slots |-> FreeTurn(NewUser)]
    /\ queue = [g \in Groups |-> <<>>]
    /\ published = {} /\ accepted = {}
    /\ sent = 0 /\ moves = 0 /\ failures = 0

-----------------------------------------------------------------------------
(***************************************************************************)
(* What the lists offer                                                    *)
(***************************************************************************)
Live(g) == games[g].exists /\ ~games[g].archived

\* get_registration
Registered(g) == regs[g] \in {"waiting", "confirmed"}

Choice(values, games0) == {[value |-> v, game |-> g, about |-> <<g>>] : v \in values, g \in games0}

\* _show_open_events and _show_registered: the buttons of a list.
Listed(list) ==
    LET mine == {g \in Games : Live(g) /\ Registered(g)} IN
    CASE list = "list:enlist" ->
            Choice({"enlist"}, {g \in Games : Live(g) /\ games[g].status # "closed" /\ games[g].opened})
      [] list = "list:confirm" ->
            Choice({"confirm"}, {g \in mine : games[g].status = "confirmation_open" /\ regs[g] = "waiting"})
      [] list = "list:wishes" -> Choice({"character", "co-player"}, mine) \cup Choice({"answer"}, mine \cap Questions)
      [] list = "list:cancel" -> Choice({"cancel"}, mine)

\* The conflicting games that the player has confirmed: registrations_on_date.
Conflicting(g) == {f \in Games \ {g} : Live(f) /\ regs[f] = "confirmed"}

\* What each selection asks of the game when its button is pressed.
Selectable(flow, g) ==
    /\ Live(g)
    /\ flow = "enlist" => games[g].opened /\ games[g].status # "closed" /\ ~Registered(g)
    /\ flow \in {"confirm", "character", "co-player", "answer"} => Registered(g)
    /\ flow = "confirm" => games[g].status = "confirmation_open"
    /\ flow = "character" => regs[g] = "confirmed" \/ g \in wished
    /\ flow = "answer" => g \in Questions /\ games[g].status # "closed"
    /\ flow = "cancel" => regs[g] # "none"

-----------------------------------------------------------------------------
(***************************************************************************)
(* The player and the platform                                             *)
(***************************************************************************)
MenuButtons == {[NoButton EXCEPT !.value = v] : v \in {"menu"} \cup Lists}

Send(kind, button) ==
    /\ sent < MaxMessages
    /\ sent' = sent + 1
    /\ pending' = pending \cup {[id |-> sent + 1, kind |-> kind, button |-> button]}
    /\ UNCHANGED <<outside, user, turn, keyboard, lost, agreed, accepted, failures>>

Write == Send("text", NoButton)

SendMedia == Send("media", NoButton)

Press == \E b \in MenuButtons \cup keyboard : Send("press", b)

\* Variant: a message already answered is an error.
AcknowledgeNever == FALSE /\ UNCHANGED vars

\* A message already answered is acknowledged in silence.
Acknowledge ==
    /\ \E m \in pending :
        /\ m.id = user.last
        /\ \A s \in Slots : m \notin turn[s].message
        /\ pending' = pending \ {m}
    /\ UNCHANGED <<outside, user, turn, keyboard, lost, agreed, accepted, sent, failures>>

\* Invocations are alike: the first free one takes the message.
Deliver(s) ==
    /\ turn[s].step = "free"
    /\ \A r \in Slots : r < s => turn[r].step # "free"
    /\ \E m \in pending :
        /\ m.id # user.last
        /\ \A r \in Slots : m \notin turn[r].message
        /\ turn' = [turn EXCEPT ![s] = [FreeTurn(user) EXCEPT !.step = "decide", !.message = {m}]]
        /\ agreed' = agreed \cup SaysYes(user, m)
    /\ UNCHANGED <<outside, user, pending, keyboard, lost, accepted, sent, failures>>

-----------------------------------------------------------------------------
(***************************************************************************)
(* handle: what a message does to the row the invocation has loaded        *)
(***************************************************************************)
MessageOf(s) == CHOOSE m \in turn[s].message : TRUE

Pressed(s) == MessageOf(s).button

Current(s) == turn[s].user.context

Buttons(values, carried, about) ==
    {[value |-> v, game |-> carried, about |-> about] : v \in values}

Say(s, state, context, buttons) ==
    /\ turn' = [turn EXCEPT ![s].step = "save",
                            ![s].user = [@ EXCEPT !.state = state, !.context = context,
                                                  !.buttons = buttons]]
    /\ UNCHANGED <<outside, user, pending, keyboard, lost, agreed, accepted, sent, failures>>

\* _clear, and an answer that starts nothing.
Leave(s) == Say(s, "IDLE", NoContext, {})

\* The same dialogue, asked again.
Ask(s, buttons) == Say(s, turn[s].user.state, Current(s), buttons)

\* _clear and RegistrationService.enqueue: the message is answered with
\* "accepted" once the command has been published.
Submit(s, kind, context) ==
    LET b == Pressed(s) IN
    /\ turn' = [turn EXCEPT
         ![s].step = "publish", ![s].accepts = TRUE,
         ![s].user = [@ EXCEPT !.state = "IDLE", !.context = NoContext, !.buttons = {}],
         ![s].command = {[message |-> MessageOf(s).id, kind |-> kind, game |-> context.event,
                          replaced |-> IF kind = "confirm" THEN context.replaced ELSE NoGame,
                          pressed |-> b.about, answered |-> context.answered,
                          old |-> /\ MessageOf(s).kind = "press"
                                  /\ b.value \notin {c.value : c \in turn[s].user.buttons}]}]
    /\ UNCHANGED <<outside, user, pending, keyboard, lost, agreed, accepted, sent, failures>>

\* Variant: no button is ever out of date.
NeverOutdated(s) == FALSE

Outdated(s) ==
    /\ turn[s].user.state \in FreeText
    /\ MessageOf(s).kind = "press"
    /\ Pressed(s).value \notin {"start", "menu"}
    /\ \A b \in turn[s].user.buttons : b.value # Pressed(s).value \/ b.game # Pressed(s).game

Deciding(s) == turn[s].step = "decide"

IsStart(s) == MessageOf(s).kind = "press" /\ Pressed(s).value = "start"

\* Unsupported content, an old button, and the way back to the menu.
Interrupt(s) ==
    /\ Deciding(s)
    /\ \/ /\ MessageOf(s).kind = "media" \/ Outdated(s)
          /\ Ask(s, turn[s].user.buttons)
       \/ /\ MessageOf(s).kind = "press" /\ Pressed(s).value = "menu"
          /\ Leave(s)

\* The handlers of dialogue states and of the menu get what is left.
In(s, state) ==
    /\ Deciding(s) /\ turn[s].user.state = state
    /\ MessageOf(s).kind # "media" /\ ~Outdated(s) /\ ~IsStart(s)
    /\ MessageOf(s).kind = "press" => Pressed(s).value # "menu"

Presses(s, values) == MessageOf(s).kind = "press" /\ Pressed(s).value \in values

Writes(s) == MessageOf(s).kind = "text"

Chosen(s, flow) ==
    \/ In(s, "IDLE") /\ Presses(s, {flow})
    \/ Deciding(s) /\ IsStart(s) /\ flow = "enlist"

\* A text outside every dialogue, or a button of a dialogue that is over.
Unrecognised(s) ==
    /\ In(s, "IDLE")
    /\ Writes(s) \/ Presses(s, {"enlist:skip", "wish:skip", "keep", "none", "replace:yes",
                                "cancel:yes", "pick"})
    /\ Leave(s)

ShowList(s) ==
    /\ In(s, "IDLE") /\ Presses(s, Lists)
    /\ Say(s, "IDLE", NoContext, Listed(Pressed(s).value))

About(g) == [NoContext EXCEPT !.event = g]

SelectEnlist(s) ==
    /\ Chosen(s, "enlist")
    /\ LET g == Pressed(s).game IN
       \/ /\ Selectable("enlist", g)
          /\ Say(s, "ENLIST_WISH_PLAY", About(g), Buttons({"enlist:skip"}, NoGame, <<g>>))
       \/ ~Selectable("enlist", g) /\ Leave(s)

\* _begin_confirmation_wish: a context of its own.
AskForWish(s, g, replaced) ==
    Say(s, "CONFIRM_WISH",
        [About(g) EXCEPT !.replaced = replaced, !.existing = g \in wished],
        Buttons({"none"} \cup (IF g \in wished THEN {"keep"} ELSE {}), NoGame, <<g>>))

\* Variant: the question does not keep which game it is about.
AskToReplaceUnnamed(s, g, replaced) ==
    Say(s, "CONFIRM_REPLACE", About(g), Buttons({"replace:yes"}, NoGame, <<g, replaced>>))

AskToReplace(s, g, replaced) ==
    Say(s, "CONFIRM_REPLACE", [About(g) EXCEPT !.replaced = replaced],
        Buttons({"replace:yes"}, NoGame, <<g, replaced>>))

SelectConfirm(s) ==
    /\ Chosen(s, "confirm")
    /\ LET g == Pressed(s).game IN
       \/ /\ Selectable("confirm", g)
          /\ \/ Conflicting(g) = {} /\ AskForWish(s, g, NoGame)
             \/ \E f \in Conflicting(g) : AskToReplace(s, g, f)
       \/ ~Selectable("confirm", g) /\ Leave(s)

\* The other selections open their dialogue or refuse.
Select(s, flow, state, values, carried) ==
    /\ Chosen(s, flow)
    /\ LET g == Pressed(s).game IN
       \/ /\ Selectable(flow, g)
          /\ Say(s, state, [About(g) EXCEPT !.existing = flow = "character" /\ g \in wished],
                 Buttons(values, IF carried THEN g ELSE NoGame, <<g>>))
       \/ ~Selectable(flow, g) /\ Leave(s)

SelectCharacter(s) == Select(s, "character", "CHARACTER_EDIT", {"none"}, FALSE)

SelectCoPlayer(s) == Select(s, "co-player", "CO_PLAYER_EDIT", {"wish:skip"}, FALSE)

SelectAnswer(s) == Select(s, "answer", "ANSWER_EDIT", {"pick"}, TRUE)

SelectCancel(s) == Select(s, "cancel", "CANCEL_CONFIRM", {"cancel:yes"}, FALSE)

\* _enqueue_enlist
Enlist(s, context) ==
    LET g == context.event IN
    \/ (~Live(g) \/ Registered(g)) /\ Leave(s)
    \/ /\ Live(g) /\ g \in Questions /\ ~context.answered
       /\ Say(s, "ENLIST_ANSWER", context, Buttons({"pick"}, g, <<g>>))
    \/ /\ Live(g) /\ ~Registered(g) /\ (g \in Questions => context.answered)
       /\ Submit(s, "enlist", context)

WishOfEnlist(s) ==
    /\ In(s, "ENLIST_WISH_PLAY")
    /\ \/ Ask(s, Buttons({"enlist:skip"}, NoGame, <<Current(s).event>>)) /\ ~Presses(s, {"enlist:skip"})
       \/ /\ Writes(s) \/ Presses(s, {"enlist:skip"})
          /\ Enlist(s, [Current(s) EXCEPT !.wish = TRUE])

Picks(s) == Presses(s, {"pick"}) /\ Pressed(s).game = Current(s).event

\* _answer_step; games keep their questions.
Answer(s) ==
    LET g == Current(s).event IN
    /\ In(s, "ENLIST_ANSWER") \/ In(s, "ANSWER_EDIT")
    /\ \/ ~games[g].exists /\ Leave(s)
       \/ games[g].exists /\ ~Picks(s) /\ Ask(s, Buttons({"pick"}, g, <<g>>))
       \/ /\ games[g].exists /\ Picks(s)
          /\ \/ /\ turn[s].user.state = "ENLIST_ANSWER"
                /\ Enlist(s, [Current(s) EXCEPT !.answered = TRUE])
             \/ turn[s].user.state = "ANSWER_EDIT" /\ Submit(s, "answer", Current(s))

\* Variant: whatever comes to the question is taken for a yes.
ReplaceAnyway(s) ==
    LET g == Current(s).event
        f == Current(s).replaced
    IN
    /\ In(s, "CONFIRM_REPLACE")
    /\ \/ ~(Selectable("confirm", g) /\ games[f].exists) /\ Leave(s)
       \/ Selectable("confirm", g) /\ games[f].exists /\ AskForWish(s, g, f)

\* _confirm_replacement_step
Replace(s) ==
    LET g == Current(s).event
        f == Current(s).replaced
    IN
    /\ In(s, "CONFIRM_REPLACE")
    /\ \/ ~(games[g].exists /\ games[f].exists) /\ Leave(s)
       \/ /\ games[g].exists /\ games[f].exists
          /\ \/ ~Presses(s, {"replace:yes"}) /\ Ask(s, Buttons({"replace:yes"}, NoGame, <<g, f>>))
             \/ Presses(s, {"replace:yes"}) /\ ~Selectable("confirm", g) /\ Leave(s)
             \/ Presses(s, {"replace:yes"}) /\ Selectable("confirm", g) /\ AskForWish(s, g, f)

SubmitIfLive(s, kind, allowed) ==
    LET g == Current(s).event IN
    \/ Live(g) /\ allowed /\ Submit(s, kind, Current(s))
    \/ ~(Live(g) /\ allowed) /\ Leave(s)

\* _character_command: a wish is a text, "keep" or "none".
Wish(s) ==
    LET kept == IF Current(s).existing /\ turn[s].user.state = "CONFIRM_WISH" THEN {"keep"} ELSE {} IN
    /\ In(s, "CONFIRM_WISH") \/ In(s, "CHARACTER_EDIT")
    /\ \/ Writes(s) /\ Ask(s, Buttons({"none"} \cup kept, NoGame, <<Current(s).event>>))
       \/ SubmitIfLive(s, IF turn[s].user.state = "CONFIRM_WISH" THEN "confirm" ELSE "character", TRUE)

CoPlayerWish(s) ==
    /\ In(s, "CO_PLAYER_EDIT")
    /\ \/ Writes(s) /\ Ask(s, Buttons({"wish:skip"}, NoGame, <<Current(s).event>>))
       \/ SubmitIfLive(s, "co-player", Registered(Current(s).event))

CancelStep(s) ==
    /\ In(s, "CANCEL_CONFIRM")
    /\ \/ ~Presses(s, {"cancel:yes"}) /\ Ask(s, {})
       \/ Presses(s, {"cancel:yes"}) /\ SubmitIfLive(s, "cancel", TRUE)

-----------------------------------------------------------------------------
(***************************************************************************)
(* Publishing, saving, failing                                             *)
(***************************************************************************)
CommandOf(s) == CHOOSE c \in turn[s].command : TRUE

\* enqueue raises for a game that is gone, and for a signup that has closed.
Refused(c) ==
    \/ ~games[c.game].exists
    \/ c.kind = "enlist" /\ (games[c.game].status = "closed" \/ ~games[c.game].opened)

\* The queue drops a command with the operation id of an earlier one.
Append1(c) ==
    IF \E d \in published : d.message = c.message /\ d.kind = c.kind
    THEN queue
    ELSE [queue EXCEPT ![GroupOf(c)] = Append(@, c)]

Publishing(s) == turn[s].step = "publish"

Published(s) ==
    LET c == CommandOf(s) IN
    /\ queue' = Append1(c)
    /\ published' = published \cup {c}
    /\ turn' = [turn EXCEPT ![s].step = "save", ![s].command = {}]
    /\ UNCHANGED <<games, regs, wished, moves, user, pending, keyboard, lost, agreed, accepted, sent, failures>>

\* Variant: a failed publication is logged and the dialogue goes on.
PublishOrSkip(s) ==
    /\ Publishing(s)
    /\ \/ ~Refused(CommandOf(s)) /\ Published(s)
       \/ /\ turn' = [turn EXCEPT ![s].step = "save", ![s].command = {}]
          /\ UNCHANGED <<outside, user, pending, keyboard, lost, agreed, accepted, sent, failures>>

Publish(s) == Publishing(s) /\ ~Refused(CommandOf(s)) /\ Published(s)

Drop(s) ==
    /\ turn' = [turn EXCEPT ![s] = FreeTurn(NewUser)]
    /\ UNCHANGED <<outside, user, pending, keyboard, lost, agreed, accepted, sent>>

\* The exception leaves the handler: nothing is saved or answered.
Raise(s) ==
    /\ Publishing(s) /\ Refused(CommandOf(s))
    /\ Drop(s) /\ UNCHANGED failures

\* A failure while deciding leaves what a failure to publish or save leaves.
Fail(s) ==
    /\ turn[s].step \in {"publish", "save"} /\ failures < MaxFailures
    /\ failures' = failures + 1
    /\ Drop(s)

\* _save writes the whole row, then the gateway answers the message.  If it
\* cannot, the platform delivers the message again, and nobody answers it.
Save(s) ==
    /\ turn[s].step = "save"
    /\ user' = [turn[s].user EXCEPT !.last = MessageOf(s).id]
    /\ turn' = [turn EXCEPT ![s] = FreeTurn(NewUser)]
    /\ \/ /\ pending' = pending \ turn[s].message
          /\ keyboard' = keyboard \cup turn[s].user.buttons
          /\ accepted' = IF turn[s].accepts THEN accepted \cup {MessageOf(s).id} ELSE accepted
          /\ UNCHANGED <<lost, failures>>
       \/ /\ failures < MaxFailures /\ failures' = failures + 1
          /\ lost' = lost \cup turn[s].user.buttons
          /\ UNCHANGED <<pending, keyboard, accepted>>
    /\ UNCHANGED <<outside, agreed, sent>>

-----------------------------------------------------------------------------
(***************************************************************************)
(* The worker and the masters                                              *)
(***************************************************************************)
\* What the worker does not refuse.
Allowed(c) ==
    LET g == c.game IN
    /\ Live(g)
    /\ c.kind = "enlist" => games[g].status # "closed" /\ ~Registered(g)
    /\ c.kind # "enlist" => Registered(g)
    /\ c.kind = "confirm" =>
        /\ games[g].status = "confirmation_open"
        /\ Conflicting(g) = IF c.replaced = NoGame THEN {} ELSE {c.replaced}

\* OrderedMutationService.apply as one step; OrderedMutations has its details.
Apply(c) ==
    /\ regs' = [g \in Games |->
         CASE g = c.game /\ c.kind = "enlist" -> "waiting"
           [] g = c.game /\ c.kind = "confirm" -> "confirmed"
           [] g = c.game /\ c.kind = "cancel" -> "cancelled"
           [] g = c.replaced -> "cancelled"
           [] OTHER -> regs[g]]
    /\ wished' = IF c.kind \in {"confirm", "character"} THEN wished \cup {c.game} ELSE wished

Work ==
    /\ \E g \in Groups :
        /\ queue[g] # <<>>
        /\ queue' = [queue EXCEPT ![g] = Tail(@)]
        /\ \/ Allowed(Head(queue[g])) /\ Apply(Head(queue[g]))
           \/ ~Allowed(Head(queue[g])) /\ UNCHANGED <<regs, wished>>
    /\ UNCHANGED <<games, user, pending, turn, keyboard, lost, agreed, published, accepted, sent, moves, failures>>

Change(g, move, row) ==
    /\ move \in MasterMoves /\ moves < MaxMoves
    /\ moves' = moves + 1
    /\ games' = [games EXCEPT ![g] = row]
    /\ UNCHANGED <<regs, wished, queue, published, user, pending, turn, keyboard, lost, agreed, accepted,
                   sent, failures>>

\* Masters, the planned opening and the passing of time.
Master(g) ==
    /\ games[g].exists
    /\ \/ ~games[g].opened /\ Change(g, "open", [games[g] EXCEPT !.opened = TRUE])
       \/ games[g].opened /\ games[g].status = "created"
          /\ Change(g, "postpone", [games[g] EXCEPT !.opened = FALSE])
       \/ games[g].status = "created" /\ ~games[g].archived
          /\ Change(g, "confirmation", [games[g] EXCEPT !.status = "confirmation_open"])
       \/ games[g].status # "closed" /\ ~games[g].archived
          /\ Change(g, "close", [games[g] EXCEPT !.status = "closed"])
       \/ ~games[g].archived /\ Change(g, "archive", [games[g] EXCEPT !.archived = TRUE])
       \/ games[g].archived /\ Change(g, "unarchive", [games[g] EXCEPT !.archived = FALSE])
       \/ games[g].archived /\ Change(g, "delete", [games[g] EXCEPT !.exists = FALSE])

Handle(s) ==
    \/ Interrupt(s) \/ Unrecognised(s) \/ ShowList(s)
    \/ SelectEnlist(s) \/ SelectConfirm(s) \/ SelectCharacter(s) \/ SelectCoPlayer(s)
    \/ SelectAnswer(s) \/ SelectCancel(s)
    \/ WishOfEnlist(s) \/ Answer(s) \/ Replace(s) \/ Wish(s) \/ CoPlayerWish(s) \/ CancelStep(s)

Next ==
    \/ Write \/ SendMedia \/ Press \/ Acknowledge
    \/ \E s \in Slots : Deliver(s) \/ Handle(s) \/ Publish(s) \/ Raise(s) \/ Save(s) \/ Fail(s)
    \/ Work
    \/ \E g \in Games : Master(g)

Spec == Init /\ [][Next]_vars

\* The platform delivers messages again for as long as they are not answered,
\* and invocations run to their end.
Progress ==
    \/ Acknowledge
    \/ \E s \in Slots : Deliver(s) \/ Handle(s) \/ Publish(s) \/ Raise(s) \/ Save(s)

Fairness == WF_vars(Progress)

FairSpec == Spec /\ Fairness

-----------------------------------------------------------------------------
(***************************************************************************)
(* Properties                                                              *)
(***************************************************************************)
Rows == {user} \cup {turn[s].user : s \in Slots}

\* No message is answered with a missing key of dialog_context
\* (context["event_id"], context["replaced_event_id"], context["wish_play"]):
\* whatever row an overlapping invocation has saved, a dialogue state is
\* saved with the context its handler reads.
DialogueHasItsContext == \A u \in Rows : HasItsContext(u)

\* A confirmation gives up another game only after the question about the two
\* games was put (_select_event, CONFIRM_REPLACE) and a press of yes came while
\* the player's row was asking about exactly these two
\* (_confirm_replacement_step): no text, exit, other button or overlapping
\* dialogue about other games leads there.
ReplacementWasAsked ==
    \A c \in published : c.replaced # NoGame =>
        /\ QuestionAbout(c.game, c.replaced) \in keyboard \cup lost
        /\ <<c.game, c.replaced>> \in agreed

\* The player has also seen that very question.
QuestionWasSeen ==
    \A c \in published : c.replaced # NoGame => QuestionAbout(c.game, c.replaced) \in keyboard

\* "accepted" is said only of a published command, through failures,
\* redeliveries and refusals of the publisher (_enqueue_enlist,
\* _character_command, _cancel_step publish before handle saves).
AcceptedIsPublished == \A i \in accepted : \E c \in published : c.message = i

\* A press of an old button is never taken for a wish or a signup (handle,
\* FREE_TEXT_DIALOG_STATES): docs/admin-guide-ru.md:282.
OldButtonIsNotAWish ==
    \A c \in published : c.kind \in {"enlist", "confirm", "character", "co-player"} => ~c.old

\* A signup to a game with a question carries an answer.
SignupIsAnswered ==
    \A c \in published : c.kind = "enlist" /\ c.game \in Questions => c.answered

\* A pressed button means the game that its message was about: "are you sure
\* that you want to cancel your participation in the game ...?"
\* (conversation_players.py:597).
ButtonMeansItsGame == \A c \in published : c.pressed = <<>> \/ c.game = Head(c.pressed)

\* Signup to a game may have been closed, put off or deleted.
Withdrawn == \E g \in Games : ~games[g].exists \/ games[g].status = "closed" \/ ~games[g].opened

\* The player's messages are answered in the end, unless a game has been
\* withdrawn meanwhile: no failure or overlap leaves them without a reply.
AnsweredOrWithdrawn == pending # {} ~> pending = {} \/ Withdrawn

\* The same whatever the masters do (README.md:616, a message is kept until it
\* is handled).
Answered == pending # {} ~> pending = {}
=============================================================================
