------------------------- MODULE PlayerDialogue_proofs -------------------------
(***************************************************************************)
(* Proofs about PlayerDialogue, for any games, lists, changes by masters,  *)
(* number of invocations at the same time, messages and failures.          *)
(*                                                                         *)
(* Handlers trust what the row says of the dialogue.  The invariant says   *)
(* of every row, saved or being decided on, what its handler takes for     *)
(* granted, and it speaks of the screen only through what has been put on  *)
(* it so far: since nothing leaves the screen, it survives whatever other  *)
(* invocations do in between.                                              *)
(***************************************************************************)
EXTENDS PlayerDialogue, SequenceTheorems, FiniteSetTheorems, TLAPS

\* Questions and menus put so far, whether or not the answer could be sent.
Put == keyboard \cup lost

\* A message the player can send: a button on the screen, or no button.
Heard(m) == NamesGame(m.button)

RowSound(u, put, yes) ==
    /\ \A b \in u.buttons : NamesGame(b)
    /\ HasItsContext(u) /\ AskedFirst(u, put, yes)

\* What a command may be, once it is to be published.
CommandSound(c, put, yes) ==
    /\ c.replaced # NoGame => QuestionAbout(c.game, c.replaced) \in put /\ <<c.game, c.replaced>> \in yes
    /\ c.kind \in {"enlist", "confirm", "character", "co-player"} => ~c.old

\* A row that is being decided on was saved; the buttons of a new one will be
\* put when it is saved.
TurnSound(t, put, yes, done) ==
    /\ \A m \in t.message : Heard(m)
    /\ t.step = "decide" =>
        t.user.buttons \subseteq put /\ \A m \in t.message : SaysYes(t.user, m) \subseteq yes
    /\ RowSound(t.user, IF t.step = "decide" THEN put ELSE put \cup t.user.buttons, yes)
    /\ \A c \in t.command : CommandSound(c, put, yes) /\ \A m \in t.message : c.message = m.id
    /\ t.step \in {"free", "decide"} => ~t.accepts
    /\ t.step = "save" /\ t.accepts => \A m \in t.message : \E c \in done : c.message = m.id

UserSound == user.buttons \subseteq Put /\ RowSound(user, Put, agreed)

ScreenSound == \A b \in Put : NamesGame(b)

MessagesSound == \A m \in pending : Heard(m)

TurnsSound == \A s \in Slots : TurnSound(turn[s], Put, agreed, published)

CommandsSound == \A c \in published : CommandSound(c, Put, agreed)

\* The inductive invariant.
IInv ==
    /\ TypeOK
    /\ UserSound /\ ScreenSound /\ MessagesSound /\ TurnsSound /\ CommandsSound
    /\ AcceptedIsPublished

-----------------------------------------------------------------------------
(***************************************************************************)
(* Buttons, rows and turns                                                 *)
(***************************************************************************)

LEMMA AboutType ==
    ASSUME NEW g \in Games, NEW f \in Games
    PROVE  {<<>>, <<g>>, <<g, f>>} \subseteq SeqOf(Games, 2)
<1>1. /\ <<>> \in [1 .. 0 -> Games] /\ <<g>> \in [1 .. 1 -> Games] /\ <<g, f>> \in [1 .. 2 -> Games]
      /\ 0 \in 0 .. 2 /\ 1 \in 0 .. 2 /\ 2 \in 0 .. 2
  OBVIOUS
<1> QED
  BY <1>1 DEF SeqOf

LEMMA ButtonsType ==
    ASSUME NEW values \in SUBSET Values, NEW carried \in Optional, NEW g \in Games, NEW about, 
           about = <<g>> \/ \E f \in Games : about = <<g, f>>
    PROVE  Buttons(values, carried, about) \subseteq Button
<1>1. about \in SeqOf(Games, 2)
  BY AboutType
<1> QED
  BY <1>1 DEF Buttons, Button

LEMMA ContextType ==
    /\ NoContext \in Context
    /\ \A g \in Games : About(g) \in Context
BY DEF NoContext, About, Context, Optional

\* Buttons of questions need not name a game.
LEMMA QuestionsNamed ==
    ASSUME NEW values \in SUBSET {"enlist:skip", "wish:skip", "keep", "none", "replace:yes", "cancel:yes", "pick"},
           NEW carried, NEW about
    PROVE  \A b \in Buttons(values, carried, about) : NamesGame(b)
BY DEF Buttons, NamesGame

\* What has been put stays put, and what has been published stays published.
LEMMA TurnSoundGrows ==
    ASSUME NEW t, NEW put, NEW yes, NEW done, NEW put2, NEW yes2, NEW done2,
           put \subseteq put2, yes \subseteq yes2, done \subseteq done2,
           TurnSound(t, put, yes, done)
    PROVE  TurnSound(t, put2, yes2, done2)
BY DEF TurnSound, Heard, RowSound, AskedFirst, CommandSound

LEMMA RowSoundGrows ==
    ASSUME NEW u, NEW put, NEW yes, NEW put2, NEW yes2, put \subseteq put2, yes \subseteq yes2,
           RowSound(u, put, yes)
    PROVE  RowSound(u, put2, yes2)
BY DEF RowSound, AskedFirst

LEMMA CommandSoundGrows ==
    ASSUME NEW c, NEW put, NEW yes, NEW put2, NEW yes2, put \subseteq put2, yes \subseteq yes2,
           CommandSound(c, put, yes)
    PROVE  CommandSound(c, put2, yes2)
BY DEF CommandSound

\* A free invocation.
LEMMA FreeTurnSound ==
    ASSUME NEW put, NEW yes, NEW done
    PROVE  FreeTurn(NewUser) \in Turn /\ TurnSound(FreeTurn(NewUser), put, yes, done)
<1>1. NewUser \in User
  BY ContextType, PlayerDialogueAssumption DEF NewUser, User, States
<1>2. RowSound(NewUser, put, yes)
  BY DEF RowSound, NewUser, HasItsContext, AskedFirst
<1>3. NewUser.buttons = {}
  BY DEF NewUser
<1> HIDE DEF NewUser
<1> QED
  BY <1>1, <1>2, <1>3 DEF FreeTurn, Turn, TurnSound

LEMMA AgreedType == IInv => agreed \subseteq Games \X Games
BY DEF IInv, TypeOK

\* The message of an invocation, and the game of its dialogue.
LEMMA Decided ==
    ASSUME IInv, NEW s \in Slots, turn[s].step # "free"
    PROVE  /\ turn[s] \in Turn /\ turn[s].user \in User /\ turn[s].message = {MessageOf(s)}
           /\ MessageOf(s) \in Message /\ Pressed(s) \in Button
           /\ Heard(MessageOf(s))
<1>1. turn[s] \in Turn /\ IsOne(turn[s].message)
  BY DEF IInv, TypeOK
<1>2. turn[s].message = {MessageOf(s)} /\ MessageOf(s) \in turn[s].message
  BY <1>1 DEF IsOne, MessageOf
<1>3. MessageOf(s) \in Message
  BY <1>1, <1>2 DEF Turn
<1> QED
  BY <1>1, <1>2, <1>3 DEF Turn, Message, Pressed, IInv, TurnsSound, TurnSound

\* Within a decided row, the game of a dialogue.
LEMMA CurrentType ==
    ASSUME IInv, NEW s \in Slots, Deciding(s)
    PROVE  /\ turn[s].user.state \in States /\ Current(s) \in Context /\ turn[s].user.buttons \subseteq Put
           /\ Current(s).event \in Optional /\ Current(s).replaced \in Optional
           /\ turn[s].user.state # "IDLE" => Current(s).event \in Games
           /\ RowSound(turn[s].user, Put, agreed)
<1>1. turn[s].user \in User /\ turn[s].step = "decide"
  BY Decided DEF Deciding
<1>2. turn[s].user.buttons \subseteq Put /\ RowSound(turn[s].user, Put, agreed)
  BY <1>1 DEF IInv, TurnsSound, TurnSound
<1> QED
  BY <1>1, <1>2 DEF User, Context, Current, Optional, RowSound, HasItsContext

\* Steps of one invocation that change nothing else.
LEMMA TurnOnly ==
    ASSUME IInv, NEW s \in Slots, NEW t \in Turn, turn' = [turn EXCEPT ![s] = t],
           IF t.step = "free" THEN t.message = {} ELSE IsOne(t.message),
           IF t.step = "publish" THEN IsOne(t.command) ELSE t.command = {},
           TurnSound(t, Put, agreed', published), agreed \subseteq agreed', agreed' \subseteq Games \X Games,
           UNCHANGED <<games, regs, wished, user, pending, queue, keyboard, lost, published, accepted,
                       sent, moves>>,
           failures' \in 0 .. MaxFailures
    PROVE  IInv'
<1>1. turn \in [Slots -> Turn] /\ turn'[s] = t /\ \A r \in Slots \ {s} : turn'[r] = turn[r]
  BY DEF IInv, TypeOK
<1>2. TypeOK'
  <2>1. turn' \in [Slots -> Turn]
    BY <1>1
  <2>2. /\ \A r \in Slots : IF turn'[r].step = "free" THEN turn'[r].message = {} ELSE IsOne(turn'[r].message)
        /\ \A r \in Slots : IF turn'[r].step = "publish" THEN IsOne(turn'[r].command) ELSE turn'[r].command = {}
    BY <1>1 DEF IInv, TypeOK
  <2> QED
    BY <2>1, <2>2 DEF IInv, TypeOK
<1>3. TurnsSound'
  <2>1. ASSUME NEW r \in Slots \ {s} PROVE TurnSound(turn[r], Put, agreed', published)
    BY TurnSoundGrows DEF IInv, TurnsSound
  <2> QED
    BY <1>1, <2>1 DEF TurnsSound, Put
<1>4. UserSound' /\ CommandsSound'
  <2>1. RowSound(user, Put, agreed')
    BY RowSoundGrows DEF IInv, UserSound
  <2>2. ASSUME NEW c \in published PROVE CommandSound(c, Put, agreed')
    BY CommandSoundGrows DEF IInv, CommandsSound
  <2> QED
    BY <2>1, <2>2 DEF IInv, UserSound, CommandsSound, Put
<1> QED
  BY <1>2, <1>3, <1>4 DEF IInv, ScreenSound, MessagesSound, AcceptedIsPublished, Put

-----------------------------------------------------------------------------
(***************************************************************************)
(* What handlers decide                                                    *)
(***************************************************************************)

\* An answer, after which the row is sound.
Said(s) ==
    \E state \in States, context \in Context, buttons \in SUBSET Button :
        /\ Say(s, state, context, buttons)
        /\ RowSound([state |-> state, context |-> context, buttons |-> buttons, last |-> turn[s].user.last],
                    Put \cup buttons, agreed)

\* A command, of a dialogue with its context.
Submitted(s) ==
    \E kind \in Kinds, context \in Context :
        /\ Submit(s, kind, context)
        /\ context.event \in Games
        /\ kind = "confirm" /\ context.replaced # NoGame =>
               QuestionAbout(context.event, context.replaced) \in Put /\ <<context.event, context.replaced>> \in agreed
        /\ kind \in {"enlist", "confirm", "character", "co-player"} =>
               /\ turn[s].user.state \in FreeText /\ ~Outdated(s)
               /\ MessageOf(s).kind = "press" => Pressed(s).value \notin {"start", "menu"}

LEMMA SaidStep ==
    ASSUME IInv, NEW s \in Slots, Deciding(s), Said(s)
    PROVE  IInv'
<1>1. PICK state \in States, context \in Context, buttons \in SUBSET Button :
          /\ Say(s, state, context, buttons)
          /\ RowSound([state |-> state, context |-> context, buttons |-> buttons, last |-> turn[s].user.last],
                      Put \cup buttons, agreed)
  BY DEF Said
<1>2. turn[s] \in Turn /\ turn[s].user \in User /\ turn \in [Slots -> Turn] /\ IsOne(turn[s].message)
      /\ turn[s].command = {} /\ TurnSound(turn[s], Put, agreed, published) /\ turn[s].step = "decide"
  BY DEF IInv, TypeOK, TurnsSound, Turn, Deciding
<1> DEFINE u == [turn[s].user EXCEPT !.state = state, !.context = context, !.buttons = buttons]
           t == [turn[s] EXCEPT !.step = "save", !.user = u]
<1>3. /\ u \in User /\ u.buttons = buttons /\ u.state = state /\ u.context = context
  BY <1>2 DEF User
<1>4. turn' = [turn EXCEPT ![s] = [turn[s] EXCEPT !.step = "save", !.user = u]]
  BY <1>1, <1>2 DEF Say, Turn
<1>5. RowSound(u, Put \cup u.buttons, agreed)
  BY <1>1, <1>3 DEF RowSound, HasItsContext, AskedFirst
<1> HIDE DEF u
<1>6. t \in Turn /\ t.step = "save" /\ t.user = u /\ t.message = turn[s].message /\ t.command = {} /\ ~t.accepts
  BY <1>2, <1>3 DEF Turn, TurnSound
<1> HIDE DEF t
<1>7. TurnSound(t, Put, agreed, published)
  BY <1>2, <1>5, <1>6 DEF TurnSound
<1> USE DEF t
<1>8. turn' = [turn EXCEPT ![s] = t]
  BY <1>4
<1> HIDE DEF t
<1>9. UNCHANGED <<games, regs, wished, user, pending, queue, keyboard, lost, agreed, published, accepted, sent, moves>>
      /\ failures' \in 0 .. MaxFailures
  BY <1>1 DEF Say, outside, IInv, TypeOK
<1> QED
  BY <1>2, <1>6, <1>7, <1>8, <1>9, AgreedType, TurnOnly

LEMMA SubmittedStep ==
    ASSUME IInv, NEW s \in Slots, Deciding(s), Submitted(s)
    PROVE  IInv'
<1>1. PICK kind \in Kinds, context \in Context :
          /\ Submit(s, kind, context)
          /\ context.event \in Games
          /\ kind = "confirm" /\ context.replaced # NoGame =>
                 QuestionAbout(context.event, context.replaced) \in Put /\ <<context.event, context.replaced>> \in agreed
          /\ kind \in {"enlist", "confirm", "character", "co-player"} =>
                 /\ turn[s].user.state \in FreeText /\ ~Outdated(s)
                 /\ MessageOf(s).kind = "press" => Pressed(s).value \notin {"start", "menu"}
  BY DEF Submitted
<1>2. turn[s] \in Turn /\ turn[s].user \in User /\ turn \in [Slots -> Turn] /\ IsOne(turn[s].message)
      /\ TurnSound(turn[s], Put, agreed, published)
  BY DEF IInv, TypeOK, TurnsSound, Turn, Deciding
<1>3. MessageOf(s) \in Message /\ Pressed(s) \in Button /\ turn[s].message = {MessageOf(s)}
  BY Decided DEF Deciding
<1> DEFINE u == [turn[s].user EXCEPT !.state = "IDLE", !.context = NoContext, !.buttons = {}]
           old == /\ MessageOf(s).kind = "press"
                  /\ Pressed(s).value \notin {c.value : c \in turn[s].user.buttons}
           c == [message |-> MessageOf(s).id, kind |-> kind, game |-> context.event,
                 replaced |-> IF kind = "confirm" THEN context.replaced ELSE NoGame,
                 pressed |-> Pressed(s).about, answered |-> context.answered, old |-> old]
           t == [turn[s] EXCEPT !.step = "publish", !.accepts = TRUE, !.user = u, !.command = {c}]
<1>4. u \in User /\ u.state = "IDLE" /\ u.buttons = {}
  BY <1>2, ContextType DEF User, States
<1>5. c \in Command
  BY <1>1, <1>3 DEF Command, Message, Button, Context, Optional
<1>6. CommandSound(c, Put, agreed)
  <2>1. c.replaced # NoGame => QuestionAbout(c.game, c.replaced) \in Put /\ <<c.game, c.replaced>> \in agreed
    BY <1>1
  <2>2. ASSUME kind \in {"enlist", "confirm", "character", "co-player"}
        PROVE  ~old
    BY <1>1, <2>2 DEF Outdated
  <2> QED
    BY <2>1, <2>2 DEF CommandSound
<1>7. \A m \in turn[s].message : c.message = m.id
  BY <1>3
<1>8. turn' = [turn EXCEPT ![s] = t]
  BY <1>1, <1>2 DEF Submit, Turn
<1> HIDE DEF u, c
<1>9. /\ t \in Turn /\ t.step = "publish" /\ t.user = u /\ t.message = turn[s].message /\ t.command = {c}
  BY <1>2, <1>4, <1>5 DEF Turn
<1> HIDE DEF t
<1>10. TurnSound(t, Put, agreed, published)
  <2>1. RowSound(u, Put \cup u.buttons, agreed)
    BY <1>4 DEF RowSound, HasItsContext, AskedFirst
  <2> QED
    BY <1>2, <1>6, <1>7, <1>9, <2>1 DEF TurnSound
<1>11. UNCHANGED <<games, regs, wished, user, pending, queue, keyboard, lost, agreed, published, accepted, sent, moves>>
       /\ failures' \in 0 .. MaxFailures
  BY <1>1 DEF Submit, outside, IInv, TypeOK
<1>12. IsOne(t.command) /\ IsOne(t.message)
  BY <1>2, <1>9 DEF IsOne
<1> QED
  BY <1>8, <1>9, <1>10, <1>11, <1>12, AgreedType, TurnOnly

\* What makes an answer leave a sound row.
LEMMA SaidBy ==
    ASSUME NEW s \in Slots, NEW state \in States, NEW context \in Context, NEW buttons \in SUBSET Button,
           Say(s, state, context, buttons),
           \A b \in buttons : NamesGame(b),
           state # "IDLE" => context.event \in Games,
           state = "CONFIRM_REPLACE" => context.replaced # NoGame,
           state = "ENLIST_ANSWER" => context.wish,
           state \in {"CONFIRM_REPLACE", "CONFIRM_WISH"} /\ context.replaced # NoGame =>
               /\ QuestionAbout(context.event, context.replaced) \in Put \cup buttons
               /\ state = "CONFIRM_WISH" => <<context.event, context.replaced>> \in agreed
    PROVE  Said(s)
<1> DEFINE row == [state |-> state, context |-> context, buttons |-> buttons, last |-> turn[s].user.last]
<1>1. row.state = state /\ row.context = context /\ row.buttons = buttons
  OBVIOUS
<1> HIDE DEF row
<1>2. RowSound(row, Put \cup buttons, agreed)
  BY <1>1, PlayerDialogueAssumption DEF RowSound, HasItsContext, AskedFirst
<1> USE DEF row
<1> QED
  BY <1>2 DEF Said

LEMMA LeaveOutcome ==
    ASSUME NEW s \in Slots, Leave(s)
    PROVE  Said(s)
<1>1. "IDLE" \in States /\ NoContext \in Context /\ {} \in SUBSET Button
  BY ContextType DEF States
<1>2. NoContext.replaced = NoGame
  BY DEF NoContext
<1>3. Say(s, "IDLE", NoContext, {})
  BY DEF Leave
<1> QED
  BY <1>1, <1>2, <1>3, SaidBy

\* A question asked again keeps the row; buttons may only be those of the
\* dialogue or those that were put already.
LEMMA AskOutcome ==
    ASSUME IInv, NEW s \in Slots, Deciding(s), NEW buttons \in SUBSET Button,
           \A b \in buttons : NamesGame(b), Ask(s, buttons)
    PROVE  Said(s)
<1>1. /\ turn[s].user.state \in States /\ Current(s) \in Context
      /\ turn[s].user.state # "IDLE" => Current(s).event \in Games
      /\ RowSound(turn[s].user, Put, agreed)
  BY CurrentType
<1>2. Say(s, turn[s].user.state, Current(s), buttons)
  BY DEF Ask
<1>3. /\ turn[s].user.state = "CONFIRM_REPLACE" => Current(s).replaced # NoGame
      /\ turn[s].user.state = "ENLIST_ANSWER" => Current(s).wish
  BY <1>1 DEF RowSound, HasItsContext, Current
<1>4. turn[s].user.state \in {"CONFIRM_REPLACE", "CONFIRM_WISH"} /\ Current(s).replaced # NoGame =>
          /\ QuestionAbout(Current(s).event, Current(s).replaced) \in Put \cup buttons
          /\ turn[s].user.state = "CONFIRM_WISH" => <<Current(s).event, Current(s).replaced>> \in agreed
  BY <1>1 DEF RowSound, AskedFirst, Current
<1> QED
  BY <1>1, <1>2, <1>3, <1>4, SaidBy

\* What the dialogue itself asks of the game at hand.
LEMMA AskAgainOutcome ==
    ASSUME IInv, NEW s \in Slots, Deciding(s), turn[s].user.state # "IDLE",
           NEW values \in SUBSET {"enlist:skip", "wish:skip", "keep", "none", "replace:yes", "cancel:yes", "pick"},
           NEW carried \in Optional, NEW about,
           about = <<Current(s).event>> \/ \E f \in Games : about = <<Current(s).event, f>>,
           Ask(s, Buttons(values, carried, about))
    PROVE  Said(s)
<1>1. Current(s).event \in Games
  BY CurrentType
<1>2. values \in SUBSET Values
  BY DEF Values
<1>3. Buttons(values, carried, about) \in SUBSET Button
  BY <1>1, <1>2, ButtonsType
<1> QED
  BY <1>3, QuestionsNamed, AskOutcome

LEMMA InterruptOutcome ==
    ASSUME IInv, NEW s \in Slots, Interrupt(s)
    PROVE  Deciding(s) /\ Said(s)
<1>1. Deciding(s)
  BY DEF Interrupt
<1>2. CASE Ask(s, turn[s].user.buttons)
  <2>1. turn[s].user.buttons \in SUBSET Button /\ \A b \in turn[s].user.buttons : NamesGame(b)
    BY <1>1, CurrentType, Decided DEF RowSound, User, Deciding
  <2> QED
    BY <1>1, <1>2, <2>1, AskOutcome
<1>3. CASE Leave(s)
  BY <1>1, <1>3, LeaveOutcome
<1> QED
  BY <1>1, <1>2, <1>3 DEF Interrupt

LEMMA ShowListOutcome ==
    ASSUME IInv, NEW s \in Slots, ShowList(s)
    PROVE  Deciding(s) /\ Said(s)
<1>1. Deciding(s) /\ Pressed(s).value \in Lists
  BY DEF ShowList, In, Presses
<1>2. /\ Say(s, "IDLE", NoContext, Listed(Pressed(s).value))
      /\ Pressed(s).value \in {"list:enlist", "list:confirm", "list:wishes", "list:cancel"}
  BY <1>1, PlayerDialogueAssumption DEF ShowList
<1>3. ASSUME NEW values \in SUBSET {"enlist", "confirm", "character", "co-player", "answer", "cancel"},
             NEW set \in SUBSET Games
      PROVE  Choice(values, set) \in SUBSET Button /\ \A b \in Choice(values, set) : NamesGame(b)
  <2>1. \A g \in Games : <<g>> \in SeqOf(Games, 2)
    BY AboutType
  <2> QED
    BY <1>3, <2>1 DEF Choice, Button, Values, Optional, NamesGame
<1>4. Listed(Pressed(s).value) \in SUBSET Button /\ \A b \in Listed(Pressed(s).value) : NamesGame(b)
  BY <1>2, <1>3 DEF Listed
<1>5. "IDLE" \in States /\ NoContext \in Context /\ NoContext.replaced = NoGame
  BY ContextType DEF States, NoContext
<1> QED
  BY <1>1, <1>2, <1>4, <1>5, SaidBy

\* A selection is of a game: its button says which.
LEMMA ChosenGame ==
    ASSUME IInv, NEW s \in Slots,
           NEW flow \in {"enlist", "confirm", "character", "co-player", "answer", "cancel"}, Chosen(s, flow)
    PROVE  Deciding(s) /\ Pressed(s).game \in Games
<1>1. Deciding(s) /\ Pressed(s).value \in {flow, "start"}
  BY DEF Chosen, In, Presses, IsStart
<1>2. NamesGame(Pressed(s))
  BY <1>1, Decided DEF Deciding, Heard, Pressed
<1> QED
  BY <1>1, <1>2 DEF NamesGame

\* Every selection of one game that opens a dialogue about it.
LEMMA OpensOutcome ==
    ASSUME IInv, NEW s \in Slots, NEW g \in Games, NEW existing \in BOOLEAN,
           NEW state \in States \ {"CONFIRM_REPLACE", "ENLIST_ANSWER"},
           NEW values \in SUBSET {"enlist:skip", "wish:skip", "keep", "none", "replace:yes", "cancel:yes", "pick"},
           NEW carried \in Optional,
           Say(s, state, [About(g) EXCEPT !.existing = existing], Buttons(values, carried, <<g>>))
    PROVE  Said(s)
<1> DEFINE context == [About(g) EXCEPT !.existing = existing]
<1>1. context \in Context /\ context.event = g /\ context.replaced = NoGame
  BY ContextType DEF About, NoContext, Context, Optional
<1>2. values \in SUBSET Values
  BY DEF Values
<1>3. Buttons(values, carried, <<g>>) \in SUBSET Button
  BY <1>2, ButtonsType
<1>4. Say(s, state, context, Buttons(values, carried, <<g>>))
  OBVIOUS
<1> HIDE DEF context
<1> QED
  BY <1>1, <1>3, <1>4, QuestionsNamed, SaidBy

LEMMA SelectOutcome ==
    ASSUME IInv, NEW s \in Slots,
           \/ SelectEnlist(s) \/ SelectCharacter(s) \/ SelectCoPlayer(s) \/ SelectAnswer(s) \/ SelectCancel(s)
    PROVE  Deciding(s) /\ Said(s)
<1> DEFINE g == Pressed(s).game
<1>1. ASSUME NEW flow \in {"character", "co-player", "answer", "cancel"},
             NEW state \in {"CHARACTER_EDIT", "CO_PLAYER_EDIT", "ANSWER_EDIT", "CANCEL_CONFIRM"},
             NEW values \in SUBSET {"none", "wish:skip", "pick", "cancel:yes"}, NEW carried \in BOOLEAN,
             Select(s, flow, state, values, carried)
      PROVE  Deciding(s) /\ Said(s)
  <2>1. Chosen(s, flow) /\ Deciding(s) /\ g \in Games
    BY <1>1, ChosenGame DEF Select
  <2>2. CASE Leave(s)
    BY <2>1, <2>2, LeaveOutcome
  <2>3. CASE Say(s, state, [About(g) EXCEPT !.existing = flow = "character" /\ g \in wished],
                 Buttons(values, IF carried THEN g ELSE NoGame, <<g>>))
    <3> DEFINE existing == flow = "character" /\ g \in wished
               with == IF carried THEN g ELSE NoGame
    <3>1. /\ existing \in BOOLEAN
          /\ with \in Optional
          /\ state \in States \ {"CONFIRM_REPLACE", "ENLIST_ANSWER"}
          /\ values \in SUBSET {"enlist:skip", "wish:skip", "keep", "none", "replace:yes", "cancel:yes", "pick"}
      BY <2>1 DEF Optional, States
    <3>2. Say(s, state, [About(g) EXCEPT !.existing = existing], Buttons(values, with, <<g>>))
      BY <2>3
    <3> HIDE DEF existing, with
    <3> QED
      BY <2>1, <3>1, <3>2, OpensOutcome
  <2> QED
    BY <1>1, <2>1, <2>2, <2>3 DEF Select
<1>2. CASE SelectEnlist(s)
  <2>1. Chosen(s, "enlist") /\ Deciding(s) /\ g \in Games
    BY <1>2, ChosenGame DEF SelectEnlist
  <2>2. CASE Leave(s)
    BY <2>1, <2>2, LeaveOutcome
  <2>3. CASE Say(s, "ENLIST_WISH_PLAY", About(g), Buttons({"enlist:skip"}, NoGame, <<g>>))
    <3>1. About(g) = [About(g) EXCEPT !.existing = FALSE]
      <4>1. About(g) \in Context /\ About(g).existing = FALSE
        BY <2>1, ContextType DEF About, NoContext
      <4> QED
        BY <4>1 DEF Context
    <3>2. Say(s, "ENLIST_WISH_PLAY", [About(g) EXCEPT !.existing = FALSE], Buttons({"enlist:skip"}, NoGame, <<g>>))
      BY <2>3, <3>1
    <3>3. "ENLIST_WISH_PLAY" \in States \ {"CONFIRM_REPLACE", "ENLIST_ANSWER"} /\ NoGame \in Optional
      BY DEF States, Optional
    <3> QED
      BY <2>1, <3>2, <3>3, OpensOutcome
  <2> QED
    BY <1>2, <2>1, <2>2, <2>3 DEF SelectEnlist
<1>3. CASE SelectCharacter(s)
  BY <1>1, <1>3 DEF SelectCharacter
<1>4. CASE SelectCoPlayer(s)
  BY <1>1, <1>4 DEF SelectCoPlayer
<1>5. CASE SelectAnswer(s)
  BY <1>1, <1>5 DEF SelectAnswer
<1>6. CASE SelectCancel(s)
  BY <1>1, <1>6 DEF SelectCancel
<1> QED
  BY <1>2, <1>3, <1>4, <1>5, <1>6

\* The wish of a confirmation; what is given up has been asked about.
LEMMA AskForWishOutcome ==
    ASSUME NEW s \in Slots, NEW g \in Games, NEW replaced \in Optional, AskForWish(s, g, replaced),
           replaced # NoGame => QuestionAbout(g, replaced) \in Put /\ <<g, replaced>> \in agreed
    PROVE  Said(s)
<1> DEFINE existing == g \in wished
           context == [About(g) EXCEPT !.replaced = replaced, !.existing = existing]
           values == {"none"} \cup (IF g \in wished THEN {"keep"} ELSE {})
<1>1. context \in Context /\ context.event = g /\ context.replaced = replaced
  <2>1. existing \in BOOLEAN
    OBVIOUS
  <2> HIDE DEF existing
  <2>2. About(g) \in Context /\ About(g).event = g
    BY ContextType DEF About, NoContext
  <2> QED
    BY <2>1, <2>2 DEF Context
<1>2. values \in SUBSET Values /\ values \in SUBSET {"none", "keep"}
  BY DEF Values
<1>3. Say(s, "CONFIRM_WISH", context, Buttons(values, NoGame, <<g>>))
  BY DEF AskForWish
<1> HIDE DEF context, values
<1>4. NoGame \in Optional /\ "CONFIRM_WISH" \in States
  BY DEF Optional, States
<1>5. Buttons(values, NoGame, <<g>>) \in SUBSET Button
  BY <1>2, <1>4, ButtonsType
<1>6. \A b \in Buttons(values, NoGame, <<g>>) : NamesGame(b)
  BY <1>2, QuestionsNamed
<1> QED
  BY <1>1, <1>3, <1>4, <1>5, <1>6, SaidBy

LEMMA AskToReplaceOutcome ==
    ASSUME NEW s \in Slots, NEW g \in Games, NEW f \in Games, AskToReplace(s, g, f)
    PROVE  Said(s)
<1> DEFINE context == [About(g) EXCEPT !.replaced = f]
           buttons == Buttons({"replace:yes"}, NoGame, <<g, f>>)
<1>1. context \in Context /\ context.event = g /\ context.replaced = f /\ f # NoGame
  BY ContextType, PlayerDialogueAssumption DEF About, NoContext, Context, Optional
<1>2. NoGame \in Optional /\ "CONFIRM_REPLACE" \in States /\ {"replace:yes"} \in SUBSET Values
  BY DEF Optional, States, Values
<1>3. buttons \in SUBSET Button
  BY <1>2, ButtonsType
<1>4. \A b \in buttons : NamesGame(b)
  BY QuestionsNamed
<1>5. QuestionAbout(g, f) \in buttons
  BY DEF QuestionAbout, Buttons
<1>6. Say(s, "CONFIRM_REPLACE", context, buttons)
  BY DEF AskToReplace
<1> HIDE DEF context, buttons
<1> QED
  BY <1>1, <1>2, <1>3, <1>4, <1>5, <1>6, SaidBy

LEMMA SelectConfirmOutcome ==
    ASSUME IInv, NEW s \in Slots, SelectConfirm(s)
    PROVE  Deciding(s) /\ Said(s)
<1> DEFINE g == Pressed(s).game
<1>1. Chosen(s, "confirm") /\ Deciding(s) /\ g \in Games
  BY ChosenGame DEF SelectConfirm
<1>2. CASE Leave(s)
  BY <1>1, <1>2, LeaveOutcome
<1>3. CASE AskForWish(s, g, NoGame)
  BY <1>1, <1>3, AskForWishOutcome DEF Optional
<1>4. ASSUME NEW f \in Conflicting(g), AskToReplace(s, g, f)
      PROVE  Said(s)
  <2>1. f \in Games
    BY DEF Conflicting
  <2> QED
    BY <1>1, <1>4, <2>1, AskToReplaceOutcome
<1> QED
  BY <1>1, <1>2, <1>3, <1>4 DEF SelectConfirm

\* What makes a command sound.
LEMMA SubmitBy ==
    ASSUME IInv, NEW s \in Slots, NEW state \in States \ {"IDLE"}, In(s, state),
           NEW kind \in Kinds, NEW context \in Context, Submit(s, kind, context),
           context.event = Current(s).event, context.replaced = Current(s).replaced,
           kind = "confirm" => state = "CONFIRM_WISH",
           kind = "cancel" \/ state \in FreeText
    PROVE  Submitted(s)
<1>1. /\ Deciding(s) /\ turn[s].user.state = state /\ ~Outdated(s)
      /\ MessageOf(s).kind = "press" => Pressed(s).value \notin {"start", "menu"}
  BY DEF In, IsStart
<1>2. context.event \in Games
  BY <1>1, CurrentType
<1>3. kind = "confirm" /\ context.replaced # NoGame =>
          QuestionAbout(context.event, context.replaced) \in Put /\ <<context.event, context.replaced>> \in agreed
  <2>1. RowSound(turn[s].user, Put, agreed)
    BY <1>1, CurrentType
  <2> QED
    BY <1>1, <2>1 DEF RowSound, AskedFirst, Current
<1>4. kind \in {"enlist", "confirm", "character", "co-player"} => state \in FreeText
  OBVIOUS
<1> QED
  BY <1>1, <1>2, <1>3, <1>4 DEF Submitted

LEMMA EnlistOutcome ==
    ASSUME IInv, NEW s \in Slots, NEW state \in {"ENLIST_WISH_PLAY", "ENLIST_ANSWER"}, In(s, state),
           NEW context \in Context, context.event = Current(s).event, context.replaced = Current(s).replaced,
           context.wish, Enlist(s, context)
    PROVE  Said(s) \/ Submitted(s)
<1> DEFINE g == context.event
<1>1. state \in States \ {"IDLE"} /\ state \in FreeText /\ Deciding(s) /\ turn[s].user.state = state
  BY DEF States, FreeText, In
<1>2. g \in Games
  BY <1>1, CurrentType
<1>3. CASE Leave(s)
  BY <1>3, LeaveOutcome
<1>4. CASE Say(s, "ENLIST_ANSWER", context, Buttons({"pick"}, g, <<g>>))
  <2>1. "ENLIST_ANSWER" \in States /\ {"pick"} \in SUBSET Values /\ g \in Optional
    BY <1>2 DEF States, Values, Optional
  <2>2. Buttons({"pick"}, g, <<g>>) \in SUBSET Button
    BY <1>2, <2>1, ButtonsType
  <2>3. \A b \in Buttons({"pick"}, g, <<g>>) : NamesGame(b)
    BY QuestionsNamed
  <2> QED
    BY <1>2, <1>4, <2>1, <2>2, <2>3, SaidBy
<1>5. CASE Submit(s, "enlist", context)
  BY <1>1, <1>5, SubmitBy DEF Kinds
<1> QED
  BY <1>3, <1>4, <1>5 DEF Enlist

LEMMA WishOfEnlistOutcome ==
    ASSUME IInv, NEW s \in Slots, WishOfEnlist(s)
    PROVE  Deciding(s) /\ (Said(s) \/ Submitted(s))
<1>1. Deciding(s) /\ turn[s].user.state = "ENLIST_WISH_PLAY" /\ In(s, "ENLIST_WISH_PLAY")
  BY DEF WishOfEnlist, In
<1>2. CASE Ask(s, Buttons({"enlist:skip"}, NoGame, <<Current(s).event>>))
  BY <1>1, <1>2, AskAgainOutcome DEF Optional
<1>3. CASE Enlist(s, [Current(s) EXCEPT !.wish = TRUE])
  <2> DEFINE context == [Current(s) EXCEPT !.wish = TRUE]
  <2>1. /\ context \in Context /\ context.event = Current(s).event
        /\ context.replaced = Current(s).replaced /\ context.wish
    <3>1. Current(s) \in Context
      BY <1>1, CurrentType
    <3> QED
      BY <3>1 DEF Context
  <2>2. Enlist(s, context)
    BY <1>3
  <2> HIDE DEF context
  <2> QED
    BY <1>1, <2>1, <2>2, EnlistOutcome
<1> QED
  BY <1>1, <1>2, <1>3 DEF WishOfEnlist

LEMMA AnswerOutcome ==
    ASSUME IInv, NEW s \in Slots, Answer(s)
    PROVE  Deciding(s) /\ (Said(s) \/ Submitted(s))
<1>1. Deciding(s) /\ \/ In(s, "ENLIST_ANSWER") /\ turn[s].user.state = "ENLIST_ANSWER"
                     \/ In(s, "ANSWER_EDIT") /\ turn[s].user.state = "ANSWER_EDIT"
  BY DEF Answer, In
<1>2. turn[s].user.state # "IDLE" /\ Current(s).event \in Games /\ Current(s) \in Context
      /\ RowSound(turn[s].user, Put, agreed)
  BY <1>1, CurrentType
<1>3. CASE Leave(s)
  BY <1>1, <1>3, LeaveOutcome
<1>4. CASE Ask(s, Buttons({"pick"}, Current(s).event, <<Current(s).event>>))
  BY <1>1, <1>2, <1>4, AskAgainOutcome DEF Optional
<1>5. CASE turn[s].user.state = "ENLIST_ANSWER" /\ Enlist(s, [Current(s) EXCEPT !.answered = TRUE])
  <2> DEFINE context == [Current(s) EXCEPT !.answered = TRUE]
  <2>1. /\ context \in Context /\ context.event = Current(s).event
        /\ context.replaced = Current(s).replaced /\ context.wish = Current(s).wish
    BY <1>2 DEF Context
  <2>2. Current(s).wish
    BY <1>2, <1>5 DEF RowSound, HasItsContext, Current
  <2>3. Enlist(s, context)
    BY <1>5
  <2> HIDE DEF context
  <2> QED
    BY <1>1, <1>5, <2>1, <2>2, <2>3, EnlistOutcome
<1>6. CASE turn[s].user.state = "ANSWER_EDIT" /\ Submit(s, "answer", Current(s))
  <2>1. In(s, "ANSWER_EDIT") /\ "answer" \in Kinds /\ "ANSWER_EDIT" \in States \ {"IDLE"} /\ "ANSWER_EDIT" \in FreeText
    BY <1>1, <1>6 DEF Kinds, States, FreeText
  <2> QED
    BY <1>1, <1>2, <1>6, <2>1, SubmitBy
<1> QED
  BY <1>1, <1>3, <1>4, <1>5, <1>6 DEF Answer

LEMMA ReplaceOutcome ==
    ASSUME IInv, NEW s \in Slots, Replace(s)
    PROVE  Deciding(s) /\ Said(s)
<1> DEFINE g == Current(s).event
           f == Current(s).replaced
<1>1. Deciding(s) /\ turn[s].user.state = "CONFIRM_REPLACE"
  BY DEF Replace, In
<1>2. g \in Games /\ f \in Optional /\ RowSound(turn[s].user, Put, agreed)
  BY <1>1, CurrentType
<1>3. f # NoGame /\ f \in Games /\ QuestionAbout(g, f) \in Put
  BY <1>1, <1>2 DEF RowSound, HasItsContext, AskedFirst, Current, Optional
<1>4. CASE Leave(s)
  BY <1>1, <1>4, LeaveOutcome
<1>5. CASE Ask(s, Buttons({"replace:yes"}, NoGame, <<g, f>>))
  BY <1>1, <1>3, <1>5, AskAgainOutcome DEF Optional
<1>6. CASE Presses(s, {"replace:yes"}) /\ AskForWish(s, g, f)
  <2>1. <<g, f>> \in agreed
    <3>1. turn[s].step = "decide" /\ MessageOf(s) \in turn[s].message
      BY <1>1, Decided DEF Deciding
    <3>2. SaysYes(turn[s].user, MessageOf(s)) \subseteq agreed
      BY <3>1 DEF IInv, TurnsSound, TurnSound
    <3>3. SaysYes(turn[s].user, MessageOf(s)) = {<<g, f>>}
      BY <1>1, <1>6 DEF SaysYes, Presses, Pressed, Current
    <3> QED
      BY <3>2, <3>3
  <2> QED
    BY <1>1, <1>2, <1>3, <1>6, <2>1, AskForWishOutcome
<1> QED
  BY <1>1, <1>4, <1>5, <1>6 DEF Replace

LEMMA SubmitIfLiveOutcome ==
    ASSUME IInv, NEW s \in Slots, NEW state \in States \ {"IDLE"}, In(s, state), NEW kind \in Kinds, NEW allowed,
           SubmitIfLive(s, kind, allowed), kind = "confirm" => state = "CONFIRM_WISH",
           kind = "cancel" \/ state \in FreeText
    PROVE  Said(s) \/ Submitted(s)
<1>1. CASE Leave(s)
  BY <1>1, LeaveOutcome
<1>2. CASE Submit(s, kind, Current(s))
  <2>1. Deciding(s)
    BY DEF In
  <2>2. Current(s) \in Context
    BY <2>1, CurrentType
  <2> QED
    BY <1>2, <2>2, SubmitBy
<1> QED
  BY <1>1, <1>2 DEF SubmitIfLive

LEMMA WishesOutcome ==
    ASSUME IInv, NEW s \in Slots, Wish(s) \/ CoPlayerWish(s) \/ CancelStep(s)
    PROVE  Deciding(s) /\ (Said(s) \/ Submitted(s))
<1>1. CASE CancelStep(s)
  <2>1. Deciding(s) /\ In(s, "CANCEL_CONFIRM") /\ "CANCEL_CONFIRM" \in States \ {"IDLE"} /\ "cancel" \in Kinds
    BY <1>1 DEF CancelStep, In, States, Kinds
  <2>2. CASE Ask(s, {})
    BY <2>1, <2>2, AskOutcome
  <2>3. CASE SubmitIfLive(s, "cancel", TRUE)
    BY <2>1, <2>3, SubmitIfLiveOutcome
  <2> QED
    BY <1>1, <2>1, <2>2, <2>3 DEF CancelStep
<1>2. CASE CoPlayerWish(s)
  <2>1. /\ Deciding(s) /\ In(s, "CO_PLAYER_EDIT") /\ turn[s].user.state = "CO_PLAYER_EDIT"
        /\ "CO_PLAYER_EDIT" \in States \ {"IDLE"} /\ "CO_PLAYER_EDIT" \in FreeText /\ "co-player" \in Kinds
    BY <1>2 DEF CoPlayerWish, In, States, FreeText, Kinds
  <2>2. CASE Ask(s, Buttons({"wish:skip"}, NoGame, <<Current(s).event>>))
    BY <2>1, <2>2, AskAgainOutcome DEF Optional
  <2>3. CASE SubmitIfLive(s, "co-player", Registered(Current(s).event))
    BY <2>1, <2>3, SubmitIfLiveOutcome
  <2> QED
    BY <1>2, <2>1, <2>2, <2>3 DEF CoPlayerWish
<1>3. CASE Wish(s)
  <2> DEFINE state == turn[s].user.state
             kind == IF state = "CONFIRM_WISH" THEN "confirm" ELSE "character"
             kept == IF Current(s).existing /\ turn[s].user.state = "CONFIRM_WISH" THEN {"keep"} ELSE {}
  <2>1. /\ Deciding(s) /\ In(s, state) /\ state \in {"CONFIRM_WISH", "CHARACTER_EDIT"}
        /\ state \in States \ {"IDLE"} /\ state \in FreeText /\ kind \in Kinds
        /\ kind = "confirm" => state = "CONFIRM_WISH"
    BY <1>3 DEF Wish, In, States, FreeText, Kinds
  <2>2. CASE Ask(s, Buttons({"none"} \cup kept, NoGame, <<Current(s).event>>))
    <3>1. {"none"} \cup kept \in SUBSET {"enlist:skip", "wish:skip", "keep", "none", "replace:yes", "cancel:yes", "pick"}
      OBVIOUS
    <3>2. state # "IDLE"
      BY <2>1
    <3> HIDE DEF kept
    <3> QED
      BY <2>1, <2>2, <3>1, <3>2, AskAgainOutcome DEF Optional
  <2>3. CASE SubmitIfLive(s, kind, TRUE)
    <3> HIDE DEF kind
    <3> QED
      BY <2>1, <2>3, SubmitIfLiveOutcome
  <2> QED
    BY <1>3, <2>1, <2>2, <2>3 DEF Wish
<1> QED
  BY <1>1, <1>2, <1>3

\* Whatever the message, the answer is sound or a sound command.
LEMMA HandleStep ==
    ASSUME IInv, NEW s \in Slots, Handle(s)
    PROVE  IInv'
<1>1. CASE Unrecognised(s)
  <2>1. Deciding(s) /\ Leave(s)
    BY <1>1 DEF Unrecognised, In
  <2> QED
    BY <2>1, LeaveOutcome, SaidStep
<1>2. CASE Interrupt(s) \/ ShowList(s)
  BY <1>2, InterruptOutcome, ShowListOutcome, SaidStep
<1>3. CASE \/ SelectEnlist(s) \/ SelectCharacter(s) \/ SelectCoPlayer(s)
           \/ SelectAnswer(s) \/ SelectCancel(s)
  BY <1>3, SelectOutcome, SaidStep
<1>4. CASE SelectConfirm(s) \/ Replace(s)
  BY <1>4, SelectConfirmOutcome, ReplaceOutcome, SaidStep
<1>5. CASE WishOfEnlist(s) \/ Answer(s) \/ Wish(s) \/ CoPlayerWish(s) \/ CancelStep(s)
  BY <1>5, WishOfEnlistOutcome, AnswerOutcome, WishesOutcome, SaidStep, SubmittedStep
<1> QED
  BY <1>1, <1>2, <1>3, <1>4, <1>5 DEF Handle

-----------------------------------------------------------------------------
(***************************************************************************)
(* The platform, the publisher and the others                              *)
(***************************************************************************)

LEMMA SendStep ==
    ASSUME IInv, NEW kind \in {"text", "media", "press"}, NEW button \in Button, Send(kind, button),
           NamesGame(button)
    PROVE  IInv'
<1> DEFINE m == [id |-> sent + 1, kind |-> kind, button |-> button]
<1>1. /\ sent < MaxMessages /\ sent' = sent + 1 /\ pending' = pending \cup {m}
      /\ UNCHANGED <<games, regs, wished, queue, published, moves, user, turn, keyboard, lost, agreed, accepted, failures>>
  BY DEF Send, outside
<1>2. sent + 1 \in 1 .. MaxMessages /\ sent' \in 0 .. MaxMessages
  BY <1>1, PlayerDialogueAssumption DEF IInv, TypeOK
<1>3. m \in Message /\ Heard(m)
  BY <1>2 DEF Message, Heard
<1> HIDE DEF m
<1>4. TypeOK'
  BY <1>1, <1>2, <1>3 DEF IInv, TypeOK
<1>5. MessagesSound'
  BY <1>1, <1>3 DEF IInv, MessagesSound
<1> QED
  BY <1>1, <1>4, <1>5 DEF IInv, UserSound, ScreenSound, TurnsSound, CommandsSound, AcceptedIsPublished, Put

LEMMA PlayerStep ==
    ASSUME IInv, Write \/ SendMedia \/ Press
    PROVE  IInv'
<1>1. NoButton \in Button /\ NamesGame(NoButton)
  <2>1. <<>> \in [1 .. 0 -> Games] /\ 0 \in 0 .. 2
    OBVIOUS
  <2>2. <<>> \in SeqOf(Games, 2)
    BY <2>1 DEF SeqOf
  <2> QED
    BY <2>2 DEF NoButton, Button, Values, Optional, NamesGame
<1>2. CASE Write \/ SendMedia
  BY <1>1, <1>2, SendStep DEF Write, SendMedia
<1>3. CASE Press
  <2>1. PICK b \in MenuButtons \cup keyboard : Send("press", b)
    BY <1>3 DEF Press
  <2>2. CASE b \in keyboard
    <3>1. b \in Button /\ NamesGame(b)
      BY <2>2 DEF IInv, TypeOK, ScreenSound, Put
    <3> QED
      BY <2>1, <3>1, SendStep
  <2>3. CASE b \in MenuButtons
    <3>1. PICK v \in {"menu"} \cup Lists : b = [NoButton EXCEPT !.value = v]
      BY <2>3 DEF MenuButtons
    <3>2. v \in {"menu", "list:enlist", "list:confirm", "list:wishes", "list:cancel"} /\ v \in Values
      BY <3>1, PlayerDialogueAssumption DEF Values
    <3>3. b \in Button /\ b.value = v
      BY <1>1, <3>1, <3>2 DEF Button
    <3>4. NamesGame(b)
      BY <3>2, <3>3 DEF NamesGame
    <3> QED
      BY <2>1, <3>3, <3>4, SendStep
  <2> QED
    BY <2>1, <2>2, <2>3
<1> QED
  BY <1>2, <1>3

LEMMA AcknowledgeStep ==
    ASSUME IInv, Acknowledge
    PROVE  IInv'
<1>1. /\ pending' \subseteq pending
      /\ UNCHANGED <<games, regs, wished, queue, published, moves, user, turn, keyboard, lost, agreed, accepted, sent, failures>>
  BY DEF Acknowledge, outside
<1>2. TypeOK' /\ MessagesSound'
  BY <1>1 DEF IInv, TypeOK, MessagesSound
<1> QED
  BY <1>1, <1>2 DEF IInv, UserSound, ScreenSound, TurnsSound, CommandsSound, AcceptedIsPublished, Put

LEMMA DeliverStep ==
    ASSUME IInv, NEW s \in Slots, Deliver(s)
    PROVE  IInv'
<1>1. PICK m \in pending :
          /\ turn' = [turn EXCEPT ![s] = [FreeTurn(user) EXCEPT !.step = "decide", !.message = {m}]]
          /\ agreed' = agreed \cup SaysYes(user, m)
  BY DEF Deliver
<1> DEFINE t == [FreeTurn(user) EXCEPT !.step = "decide", !.message = {m}]
<1>2. user \in User /\ m \in Message /\ Heard(m) /\ user.buttons \subseteq Put
      /\ RowSound(user, Put, agreed)
  BY DEF IInv, TypeOK, MessagesSound, UserSound
<1>3. /\ t \in Turn /\ t.step = "decide" /\ t.user = user /\ t.message = {m} /\ t.command = {} /\ t.accepts = FALSE
  BY <1>2 DEF FreeTurn, Turn
<1>4. turn' = [turn EXCEPT ![s] = t]
  BY <1>1
<1> HIDE DEF t
<1>5. TurnSound(t, Put, agreed', published)
  <2>1. RowSound(user, Put, agreed')
    BY <1>1, <1>2, RowSoundGrows
  <2> QED
    BY <1>1, <1>2, <1>3, <2>1 DEF TurnSound
<1>8. agreed \subseteq agreed' /\ agreed' \subseteq Games \X Games
  <2>1. user.state = "CONFIRM_REPLACE" => user.context.event \in Games /\ user.context.replaced \in Games
    BY <1>2 DEF RowSound, HasItsContext, User, Context, Optional
  <2> QED
    BY <1>1, <2>1, AgreedType DEF SaysYes
<1>6. UNCHANGED <<games, regs, wished, user, pending, queue, keyboard, lost, published, accepted, sent, moves>>
      /\ failures' \in 0 .. MaxFailures
  BY DEF Deliver, outside, IInv, TypeOK
<1>7. IsOne(t.message)
  BY <1>3 DEF IsOne
<1> QED
  BY <1>3, <1>4, <1>5, <1>6, <1>7, <1>8, TurnOnly

\* An invocation that leaves its message alone.
LEMMA DropStep ==
    ASSUME IInv, NEW s \in Slots, Drop(s), failures' \in 0 .. MaxFailures
    PROVE  IInv'
<1> DEFINE t == FreeTurn(NewUser)
<1>1. t.step = "free" /\ t.message = {} /\ t.command = {}
  BY DEF FreeTurn
<1>2. t \in Turn /\ TurnSound(t, Put, agreed, published)
  BY FreeTurnSound
<1>3. /\ turn' = [turn EXCEPT ![s] = t]
      /\ UNCHANGED <<games, regs, wished, user, pending, queue, keyboard, lost, agreed, published, accepted, sent, moves>>
  BY DEF Drop, outside
<1> HIDE DEF t
<1> QED
  BY <1>1, <1>2, <1>3, AgreedType, TurnOnly

LEMMA GiveUpStep ==
    ASSUME IInv, NEW s \in Slots, Raise(s) \/ Fail(s)
    PROVE  IInv'
<1>1. Drop(s) /\ failures' \in 0 .. MaxFailures
  BY PlayerDialogueAssumption DEF Raise, Fail, IInv, TypeOK
<1> QED
  BY <1>1, DropStep

\* The command of a publishing invocation.
LEMMA ToPublish ==
    ASSUME IInv, NEW s \in Slots, Publishing(s)
    PROVE  /\ turn[s].command = {CommandOf(s)} /\ CommandOf(s) \in Command
           /\ CommandSound(CommandOf(s), Put, agreed)
           /\ \A m \in turn[s].message : CommandOf(s).message = m.id
<1>1. turn[s] \in Turn /\ IsOne(turn[s].command) /\ TurnSound(turn[s], Put, agreed, published)
  BY DEF IInv, TypeOK, TurnsSound, Publishing
<1>2. turn[s].command = {CommandOf(s)} /\ CommandOf(s) \in turn[s].command
  BY <1>1 DEF IsOne, CommandOf
<1> QED
  BY <1>1, <1>2 DEF Turn, TurnSound

LEMMA PublishStep ==
    ASSUME IInv, NEW s \in Slots, Publish(s)
    PROVE  IInv'
<1> DEFINE c == CommandOf(s)
           t == [turn[s] EXCEPT !.step = "save", !.command = {}]
<1>1. /\ c \in Command /\ CommandSound(c, Put, agreed) /\ \A m \in turn[s].message : c.message = m.id
      /\ turn[s] \in Turn /\ turn \in [Slots -> Turn] /\ TurnSound(turn[s], Put, agreed, published)
      /\ turn[s].step = "publish" /\ IsOne(turn[s].message)
  BY ToPublish DEF Publish, Publishing, IInv, TypeOK, TurnsSound
<1>2. /\ queue' = Append1(c) /\ published' = published \cup {c} /\ turn' = [turn EXCEPT ![s] = t]
      /\ UNCHANGED <<games, regs, wished, moves, user, pending, keyboard, lost, agreed, accepted, sent, failures>>
  BY <1>1 DEF Publish, Published, Turn
<1> HIDE DEF c
<1>3. t \in Turn /\ t.step = "save" /\ t.command = {} /\ t.user = turn[s].user /\ t.message = turn[s].message
  BY <1>1 DEF Turn
<1> HIDE DEF t
<1>4. TurnSound(t, Put, agreed, published')
  BY <1>1, <1>2, <1>3 DEF TurnSound
<1>5. turn' \in [Slots -> Turn] /\ turn'[s] = t /\ \A r \in Slots \ {s} : turn'[r] = turn[r]
  BY <1>1, <1>2, <1>3
<1>6. TurnsSound'
  <2>1. ASSUME NEW r \in Slots \ {s}
        PROVE  TurnSound(turn[r], Put, agreed, published')
    BY <1>2, TurnSoundGrows DEF IInv, TurnsSound
  <2>2. Put' = Put /\ agreed' = agreed
    BY <1>2 DEF Put
  <2> QED
    BY <1>4, <1>5, <2>1, <2>2 DEF TurnsSound
<1>7. queue' \in [Groups -> Seq(Command)]
  <2>1. queue \in [Groups -> Seq(Command)] /\ GroupOf(c) \in Groups
    BY <1>1 DEF IInv, TypeOK, GroupOf, Groups, Command
  <2>2. Append(queue[GroupOf(c)], c) \in Seq(Command)
    BY <1>1, <2>1, AppendProperties
  <2> QED
    BY <1>2, <2>1, <2>2 DEF Append1
<1>8. TypeOK'
  <2>1. /\ \A r \in Slots : IF turn'[r].step = "free" THEN turn'[r].message = {} ELSE IsOne(turn'[r].message)
        /\ \A r \in Slots : IF turn'[r].step = "publish" THEN IsOne(turn'[r].command) ELSE turn'[r].command = {}
    <3>1. \A r \in Slots :
            /\ IF turn[r].step = "free" THEN turn[r].message = {} ELSE IsOne(turn[r].message)
            /\ IF turn[r].step = "publish" THEN IsOne(turn[r].command) ELSE turn[r].command = {}
      BY DEF IInv, TypeOK
    <3>2. /\ IF t.step = "free" THEN t.message = {} ELSE IsOne(t.message)
          /\ IF t.step = "publish" THEN IsOne(t.command) ELSE t.command = {}
      BY <1>1, <1>3, <3>1
    <3> HIDE DEF t
    <3> QED
      BY <1>5, <3>1, <3>2, Zenon
  <2>2. published' \subseteq Command
    BY <1>1, <1>2 DEF IInv, TypeOK
  <2> QED
    BY <1>2, <1>5, <1>7, <2>1, <2>2 DEF IInv, TypeOK
<1>9. CommandsSound' /\ AcceptedIsPublished'
  BY <1>1, <1>2 DEF IInv, CommandsSound, AcceptedIsPublished, Put
<1> QED
  BY <1>2, <1>6, <1>8, <1>9 DEF IInv, UserSound, ScreenSound, MessagesSound, Put

LEMMA SaveStep ==
    ASSUME IInv, NEW s \in Slots, Save(s)
    PROVE  IInv'
<1> DEFINE m == MessageOf(s)
           u == [turn[s].user EXCEPT !.last = m.id]
<1>1. /\ turn[s] \in Turn /\ turn \in [Slots -> Turn] /\ TurnSound(turn[s], Put, agreed, published)
      /\ turn[s].step = "save" /\ turn[s].message = {m} /\ m \in Message /\ turn[s].user \in User
  BY Decided DEF Save, IInv, TypeOK, TurnsSound
<1>2. /\ user' = u /\ turn' = [turn EXCEPT ![s] = FreeTurn(NewUser)]
      /\ Put' = Put \cup turn[s].user.buttons /\ keyboard \subseteq keyboard' /\ pending' \subseteq pending
      /\ keyboard' \subseteq Put'
      /\ accepted' = accepted \/ (turn[s].accepts /\ accepted' = accepted \cup {m.id})
      /\ UNCHANGED <<games, regs, wished, queue, published, agreed, moves, sent>>
      /\ failures' \in 0 .. MaxFailures
  <2> HIDE DEF u, m
  <2>1. failures \in 0 .. MaxFailures /\ MaxFailures \in Nat
    BY PlayerDialogueAssumption DEF IInv, TypeOK
  <2>2. /\ user' = u /\ turn' = [turn EXCEPT ![s] = FreeTurn(NewUser)]
        /\ UNCHANGED <<games, regs, wished, queue, published, agreed, moves, sent>>
    BY DEF Save, outside, u, m
  <2>3. CASE /\ pending' = pending \ turn[s].message
             /\ keyboard' = keyboard \cup turn[s].user.buttons
             /\ accepted' = IF turn[s].accepts THEN accepted \cup {m.id} ELSE accepted
             /\ UNCHANGED <<lost, failures>>
    BY <2>1, <2>2, <2>3 DEF Put
  <2>4. CASE /\ failures < MaxFailures /\ failures' = failures + 1
             /\ lost' = lost \cup turn[s].user.buttons
             /\ UNCHANGED <<pending, keyboard, accepted>>
    <3>1. failures' \in 0 .. MaxFailures
      BY <2>1, <2>4
    <3> QED
      BY <2>2, <2>4, <3>1 DEF Put
  <2> QED
    BY <2>3, <2>4 DEF Save, m
<1>3. u \in User /\ u.state = turn[s].user.state /\ u.context = turn[s].user.context
      /\ u.buttons = turn[s].user.buttons
  BY <1>1 DEF User, Message
<1> HIDE DEF u
<1>4. UserSound'
  <2>1. RowSound(turn[s].user, Put \cup turn[s].user.buttons, agreed)
    BY <1>1 DEF TurnSound
  <2>2. RowSound(turn[s].user, Put', agreed')
    BY <1>2, <2>1, RowSoundGrows
  <2>3. RowSound(u, Put', agreed')
    BY <1>3, <2>2 DEF RowSound, HasItsContext, AskedFirst
  <2> QED
    BY <1>2, <1>3, <2>3 DEF UserSound
<1>5. ScreenSound'
  BY <1>1, <1>2 DEF IInv, ScreenSound, TurnSound, RowSound
<1>6. MessagesSound'
  BY <1>2 DEF IInv, MessagesSound, Heard
<1>7. turn' \in [Slots -> Turn] /\ turn'[s] = FreeTurn(NewUser) /\ \A r \in Slots \ {s} : turn'[r] = turn[r]
  BY <1>1, <1>2, FreeTurnSound
<1>8. TurnsSound'
  <2>1. ASSUME NEW r \in Slots \ {s}
        PROVE  TurnSound(turn[r], Put', agreed', published')
    BY <1>2, TurnSoundGrows DEF IInv, TurnsSound
  <2> QED
    BY <1>7, <2>1, FreeTurnSound DEF TurnsSound
<1>9. CommandsSound'
  <2>1. ASSUME NEW c \in published
        PROVE  CommandSound(c, Put', agreed')
    BY <1>2, CommandSoundGrows DEF IInv, CommandsSound
  <2> QED
    BY <1>2, <2>1 DEF CommandsSound
<1>10. AcceptedIsPublished'
  BY <1>1, <1>2 DEF IInv, AcceptedIsPublished, TurnSound
<1>11. TypeOK'
  <2>1. FreeTurn(NewUser).step = "free" /\ FreeTurn(NewUser).message = {} /\ FreeTurn(NewUser).command = {}
    BY DEF FreeTurn
  <2>2. /\ \A r \in Slots : IF turn'[r].step = "free" THEN turn'[r].message = {} ELSE IsOne(turn'[r].message)
        /\ \A r \in Slots : IF turn'[r].step = "publish" THEN IsOne(turn'[r].command) ELSE turn'[r].command = {}
    BY <1>7, <2>1 DEF IInv, TypeOK
  <2>3. keyboard' \subseteq Button /\ lost' \subseteq Button /\ accepted' \subseteq 1 .. MaxMessages
    BY <1>1, <1>2 DEF IInv, TypeOK, Put, User, Message
  <2> QED
    BY <1>2, <1>3, <1>7, <2>2, <2>3 DEF IInv, TypeOK
<1> QED
  BY <1>4, <1>5, <1>6, <1>8, <1>9, <1>10, <1>11 DEF IInv

LEMMA WorkStep ==
    ASSUME IInv, Work
    PROVE  IInv'
<1>1. UNCHANGED <<games, user, pending, turn, keyboard, lost, agreed, published, accepted, sent, moves, failures>>
  BY DEF Work
<1>2. PICK g \in Groups :
          /\ queue[g] # <<>> /\ queue' = [queue EXCEPT ![g] = Tail(@)]
          /\ \/ Allowed(Head(queue[g])) /\ Apply(Head(queue[g]))
             \/ ~Allowed(Head(queue[g])) /\ UNCHANGED <<regs, wished>>
  BY DEF Work
<1>3. queue[g] \in Seq(Command) /\ queue \in [Groups -> Seq(Command)]
  BY DEF IInv, TypeOK
<1>4. Tail(queue[g]) \in Seq(Command) /\ Head(queue[g]) \in Command
  BY <1>2, <1>3, HeadTailProperties
<1>5. queue' \in [Groups -> Seq(Command)]
  BY <1>2, <1>3, <1>4
<1>6. /\ regs' \in [Games -> {"none", "waiting", "confirmed", "cancelled"}] /\ wished' \subseteq Games
  <2>1. CASE UNCHANGED <<regs, wished>>
    BY <2>1 DEF IInv, TypeOK
  <2>2. CASE Apply(Head(queue[g]))
    BY <1>4, <2>2 DEF Apply, IInv, TypeOK, Command
  <2> QED
    BY <1>2, <2>1, <2>2
<1>7. TypeOK'
  BY <1>1, <1>5, <1>6 DEF IInv, TypeOK
<1> QED
  BY <1>1, <1>7 DEF IInv, UserSound, ScreenSound, MessagesSound, TurnsSound, CommandsSound, AcceptedIsPublished, Put

LEMMA MasterStep ==
    ASSUME IInv, NEW g \in Games, Master(g)
    PROVE  IInv'
<1>1. ASSUME NEW move, NEW row \in Game, Change(g, move, row)
      PROVE  IInv'
  <2>1. UNCHANGED <<regs, wished, queue, published, user, pending, turn, keyboard, lost, agreed, accepted, sent, failures>>
    BY <1>1 DEF Change
  <2>2. games' \in [Games -> Game] /\ moves' \in 0 .. MaxMoves
    BY <1>1, PlayerDialogueAssumption DEF Change, IInv, TypeOK
  <2>3. TypeOK'
    BY <2>1, <2>2 DEF IInv, TypeOK
  <2> QED
    BY <2>1, <2>3 DEF IInv, UserSound, ScreenSound, MessagesSound, TurnsSound, CommandsSound, AcceptedIsPublished, Put
<1>2. games[g] \in Game
  BY DEF IInv, TypeOK
<1>3. /\ [games[g] EXCEPT !.opened = TRUE] \in Game /\ [games[g] EXCEPT !.opened = FALSE] \in Game
      /\ [games[g] EXCEPT !.status = "confirmation_open"] \in Game /\ [games[g] EXCEPT !.status = "closed"] \in Game
      /\ [games[g] EXCEPT !.archived = TRUE] \in Game /\ [games[g] EXCEPT !.archived = FALSE] \in Game
      /\ [games[g] EXCEPT !.exists = FALSE] \in Game
  BY <1>2 DEF Game
<1> QED
  BY <1>1, <1>3 DEF Master

-----------------------------------------------------------------------------
(***************************************************************************)
(* The theorems                                                            *)
(***************************************************************************)

LEMMA InitIInv == Init => IInv
<1> SUFFICES ASSUME Init PROVE IInv
  OBVIOUS
<1>1. PICK start \in Starts :
          /\ games = start.games /\ regs = start.regs /\ wished = start.wished
          /\ user = start.user /\ keyboard = start.keyboard
  BY DEF Init
<1>2. /\ start \in Beginning /\ user.buttons \subseteq keyboard
      /\ \A b \in keyboard : NamesGame(b)
      /\ HasItsContext(user) /\ AskedFirst(user, keyboard, {})
  BY <1>1, StartsAssumption
<1>3. /\ lost = {} /\ agreed = {} /\ pending = {} /\ turn = [s \in Slots |-> FreeTurn(NewUser)]
      /\ queue = [g \in Groups |-> <<>>] /\ published = {} /\ accepted = {}
      /\ sent = 0 /\ moves = 0 /\ failures = 0
  BY DEF Init
<1>4. Put = keyboard
  BY <1>3 DEF Put
<1>5. FreeTurn(NewUser).step = "free" /\ FreeTurn(NewUser).message = {} /\ FreeTurn(NewUser).command = {}
  BY DEF FreeTurn
<1>6. TypeOK
  <2>1. /\ games \in [Games -> Game] /\ regs \in [Games -> {"none", "waiting", "confirmed", "cancelled"}]
        /\ wished \subseteq Games /\ user \in User /\ keyboard \subseteq Button
    BY <1>1, <1>2 DEF Beginning
  <2>2. /\ turn \in [Slots -> Turn]
        /\ \A s \in Slots : IF turn[s].step = "free" THEN turn[s].message = {} ELSE IsOne(turn[s].message)
        /\ \A s \in Slots : IF turn[s].step = "publish" THEN IsOne(turn[s].command) ELSE turn[s].command = {}
    BY <1>3, <1>5, FreeTurnSound
  <2>3. queue \in [Groups -> Seq(Command)]
    BY <1>3, EmptySeq
  <2>4. sent \in 0 .. MaxMessages /\ moves \in 0 .. MaxMoves /\ failures \in 0 .. MaxFailures
    BY <1>3, PlayerDialogueAssumption
  <2> QED
    BY <1>3, <2>1, <2>2, <2>3, <2>4 DEF TypeOK
<1>7. UserSound /\ ScreenSound
  BY <1>2, <1>3, <1>4 DEF UserSound, ScreenSound, RowSound
<1>8. MessagesSound /\ CommandsSound /\ AcceptedIsPublished
  BY <1>3 DEF MessagesSound, CommandsSound, AcceptedIsPublished
<1>9. TurnsSound
  BY <1>3, FreeTurnSound DEF TurnsSound
<1> QED
  BY <1>6, <1>7, <1>8, <1>9 DEF IInv

LEMMA NextIInv == IInv /\ [Next]_vars => IInv'
<1> SUFFICES ASSUME IInv, [Next]_vars PROVE IInv'
  OBVIOUS
<1>1. CASE UNCHANGED vars
  BY <1>1 DEF vars, IInv, TypeOK, UserSound, ScreenSound, MessagesSound, TurnsSound, CommandsSound,
              AcceptedIsPublished, Put
<1>2. CASE Write \/ SendMedia \/ Press
  BY <1>2, PlayerStep
<1>3. CASE Acknowledge
  BY <1>3, AcknowledgeStep
<1>4. ASSUME NEW s \in Slots, Deliver(s) \/ Handle(s) \/ Publish(s) \/ Raise(s) \/ Save(s) \/ Fail(s)
      PROVE  IInv'
  BY <1>4, DeliverStep, HandleStep, PublishStep, GiveUpStep, SaveStep
<1>5. CASE Work
  BY <1>5, WorkStep
<1>6. ASSUME NEW g \in Games, Master(g)
      PROVE  IInv'
  BY <1>6, MasterStep
<1> QED
  BY <1>1, <1>2, <1>3, <1>4, <1>5, <1>6 DEF Next

\* What every handler takes for granted of the row it has loaded
\* (conversation_core.py, handle) is true of every row, however invocations,
\* redeliveries, failures, masters and the worker interleave.
THEOREM Invariant == Spec => []IInv
BY InitIInv, NextIInv, PTL DEF Spec

\* A dialogue state is always saved, and always loaded, with the context its
\* handler reads (context["event_id"], context["replaced_event_id"]).
THEOREM ContextIsKept == Spec => []DialogueHasItsContext
<1>1. IInv => DialogueHasItsContext
  BY DEF IInv, UserSound, TurnsSound, TurnSound, RowSound, DialogueHasItsContext, Rows
<1> QED
  BY <1>1, Invariant, PTL

\* No game is given up of which the player was not asked (_select_event,
\* _confirm_replacement_step), however old the pressed buttons are.
THEOREM AskedBeforeReplaced == Spec => []ReplacementWasAsked
<1>1. IInv => ReplacementWasAsked
  BY DEF IInv, CommandsSound, CommandSound, ReplacementWasAsked, Put
<1> QED
  BY <1>1, Invariant, PTL

\* "Accepted" is never said of a command that was not published (handle
\* publishes before _save, and the answer comes after both).
THEOREM AcceptedMeansPublished == Spec => []AcceptedIsPublished
<1>1. IInv => AcceptedIsPublished
  BY DEF IInv
<1> QED
  BY <1>1, Invariant, PTL

\* A press of a button that is no longer on the keyboard of the dialogue
\* starts no signup, confirmation or wish (handle, FREE_TEXT_DIALOG_STATES).
THEOREM OldButtonsAreRefused == Spec => []OldButtonIsNotAWish
<1>1. IInv => OldButtonIsNotAWish
  BY DEF IInv, CommandsSound, CommandSound, OldButtonIsNotAWish
<1> QED
  BY <1>1, Invariant, PTL
================================================================================
