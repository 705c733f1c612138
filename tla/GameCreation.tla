----------------------------- MODULE GameCreation -----------------------------
(***************************************************************************)
(* How a game comes into being: the dialogue that plans it                 *)
(* (conversation_admin_creation.py, conversation_questions.py), the        *)
(* service that creates it (administration_services.py) and the completion *)
(* of the upload of its tables (upload_completion.py).                     *)
(*                                                                         *)
(* With tables mirrored on Google Drive the turn creates the game and the  *)
(* completion of the optional copy on Yandex Disk finds it there; without  *)
(* them the completion creates the game.  A turn or a completion that      *)
(* fails is delivered again, and each call of create_event makes a new     *)
(* game id.                                                                *)
(*                                                                         *)
(* One requester, one dialogue, and no further message while the creating  *)
(* one is not answered.  An answer that is refused changes nothing.        *)
(*                                                                         *)
(* Every message of the bot puts its keyboard into the requester's row,    *)
(* the notices of the same creation too, and a press of a button that is   *)
(* no longer there is refused: also the press that creates the game, when  *)
(* it is delivered again.                                                  *)
(***************************************************************************)
EXTENDS Naturals, FiniteSets, Sequences, SequencesExt

CONSTANTS
    Self,         \* the requester
    People,       \* others who may become the game's master
    None,
    Dates,        \* days of games
    Times,        \* whole hours
    MaxPlayers,   \* MAX_PLAYER_AMOUNT
    Starts,       \* rows of the requester, where an instance begins, with
                  \* the failures and the changes of roles it allows
    Backends,     \* subset of {"ydb", "dynamodb"}
    Mirrors,      \* subset of BOOLEAN: are tables mirrored on Google Drive
    Ids           \* bound: calls of create_event that stage files

ASSUME GameCreationAssumption ==
    /\ Self \notin People /\ None \notin People \cup {Self}
    /\ Dates \subseteq Nat \ {0} /\ Times \subseteq Nat \ {0}
    /\ MaxPlayers \in Nat \ {0, 1}
    /\ Backends \subseteq {"ydb", "dynamodb"} /\ Mirrors \subseteq BOOLEAN
    /\ Ids \subseteq Nat \ {0}

VARIABLES
    backend, mirrored,  \* the deployment
    now,
    role,        \* of the requester and the others
    user,        \* the requester's row of `users`
    offered,     \* is the button that creates the game in its last_bot_buttons
    message,     \* the creating message, until it is answered
    turn,        \* the invocation that handles it
    games,       \* rows of `events`
    jobs,        \* uploads and their completions
    told,        \* games whose master has been told
    answered,    \* history: games reported to the requester by the dialogue
    heard,       \* history: games reported to the requester by a completion
    ended,       \* history: what else has ended a creating message
    failed,      \* history: turns that have failed with no game in the row
    failures, moves  \* what may still fail and change

vars == <<backend, mirrored, now, role, user, offered, message, turn, games, jobs, told, answered,
          heard, ended, failed, failures, moves>>

\* What only failures and other people change.
apart == <<backend, mirrored, failed, moves>>

-----------------------------------------------------------------------------
\* dialog_context; 0 and None stand for a missing key.
Optional == {0} \cup Times

Context ==
    [date : {0} \cup Dates, close : Optional, options : SeqOf(1 .. MaxPlayers, 2),
     amount : 0 .. MaxPlayers, master : People \cup {Self, None}, later : BOOLEAN,
     target : People \cup {None}, open : Optional, confirm : Optional, deadline : Optional,
     created : Ids \cup {0}]

NoContext ==
    [date |-> 0, close |-> 0, options |-> <<>>, amount |-> 0, master |-> None, later |-> FALSE,
     target |-> None, open |-> 0, confirm |-> 0, deadline |-> 0, created |-> 0]

MasterStates ==
    {"CREATE_MASTER_CHOICE", "CREATE_MASTER_PICK", "CREATE_MASTER_PLATFORM",
     "CREATE_MASTER_PROFILE", "CREATE_MASTER_PROMOTE_CONFIRM"}

ConfirmationStates ==
    {"CREATE_CONFIRMATION_SCHEDULE_CHOICE", "CREATE_CONFIRMATION_SCHEDULE_TIME",
     "CREATE_CONFIRMATION_DEADLINE"}

States ==
    {"IDLE", "CREATE_NAME", "CREATE_DATE", "CREATE_CLOSE_TIME", "QUESTION_CREATE_CHOICE",
     "QUESTION_CREATE_TEXT", "QUESTION_CREATE_NAME", "QUESTION_CREATE_CAPACITY",
     "CREATE_PLAYER_AMOUNT", "CREATE_SCHEDULE_CHOICE", "CREATE_SCHEDULE_TIME"}
    \cup MasterStates \cup ConfirmationStates

User == [state : States, context : Context]

Roles == {"none", "moderator", "admin"}

\* The answer that creates the game: the deadline, or 0 for "no confirmation".
Message == [deadline : Optional]

\* `offered` is what it has read with the row, and writes back with it.
Turn == [step : {"none", "submit", "invoke", "store", "persist", "tell", "answer"},
         context : Context, id : Ids \cup {0}, offered : BOOLEAN]

NoTurn == [step |-> "none", context |-> NoContext, id |-> 0, offered |-> FALSE]

NoGame == [plan |-> NoContext, made |-> FALSE]

\* "due": the completion is to be delivered; "absent", "present": it has looked
\* for the game; "tell": it tells masters, then the requester; "done": over.
Job == [step : {"none", "uploading", "due", "absent", "present", "tell", "report", "done"},
        plan : Context, success : BOOLEAN, repeated : BOOLEAN]

NoJob == [step |-> "none", plan |-> NoContext, success |-> FALSE, repeated |-> FALSE]

Init ==
    /\ backend \in Backends /\ mirrored \in Mirrors
    /\ \E start \in Starts :
        /\ user = start.user /\ role = start.role
        /\ failures = start.failures /\ moves = start.moves
    /\ now = 0
    /\ message = {} /\ turn = NoTurn
    /\ games = [i \in Ids |-> NoGame] /\ jobs = [i \in Ids |-> NoJob]
    /\ told = {} /\ answered = {} /\ heard = {} /\ ended = {} /\ failed = 0
    /\ offered = (user.state \in ConfirmationStates)

Privileged(p) == role[p] # "none"

-----------------------------------------------------------------------------
(***************************************************************************)
(* Time, and the other administrators                                      *)
(***************************************************************************)
Tick ==
    /\ moves > 0 /\ now + 1 \in Times
    /\ now' = now + 1 /\ moves' = moves - 1
    /\ UNCHANGED <<backend, mirrored, failed, role, user, offered, message, turn, games, jobs, told, answered, heard, ended, failures>>

ChangeRole ==
    /\ moves > 0 /\ moves' = moves - 1
    /\ \E p \in People \cup {Self}, r \in {"none", "moderator"} : role' = [role EXCEPT ![p] = r]
    /\ UNCHANGED <<backend, mirrored, failed, now, user, offered, message, turn, games, jobs, told, answered, heard, ended, failures>>

\* A notice of something else puts its keyboard into the row (claim_delivery).
OtherNotice ==
    /\ moves > 0 /\ moves' = moves - 1
    /\ offered' = FALSE
    /\ UNCHANGED <<backend, mirrored, failed, now, role, user, message, turn, games, jobs, told, answered, heard, ended, failures>>

-----------------------------------------------------------------------------
(***************************************************************************)
(* The dialogue.  Each action is a message with an accepted answer.        *)
(***************************************************************************)
Current == user.context

Outside == <<apart, now, message, turn, games, jobs, told, answered, heard, failures>>

\* The requester answers in one of the states and the dialogue goes on.
Say(states, next, context) ==
    /\ message = {} /\ user.state \in states
    /\ user' = [state |-> next, context |-> context]
    /\ offered' = (next \in ConfirmationStates)
    /\ UNCHANGED <<Outside, role, ended>>

\* _clear and a refusal.
Refuse ==
    /\ user' = [state |-> "IDLE", context |-> NoContext] /\ offered' = FALSE
    /\ ended' = ended \cup {"refused"}
    /\ UNCHANGED <<Outside, role>>

\* CREATE_NAME, CREATE_DATE
Name == Say({"CREATE_NAME"}, "CREATE_DATE", NoContext)

Date ==
    \E d \in Dates : Say({"CREATE_DATE"}, "CREATE_CLOSE_TIME", [Current EXCEPT !.date = d])

\* Variant: the closing may be planned for the day of the game.
CloseAnyTime ==
    \E t \in Optional :
        /\ t = 0 \/ t > now
        /\ Say({"CREATE_CLOSE_TIME"}, "QUESTION_CREATE_CHOICE", [Current EXCEPT !.close = t])

\* CREATE_CLOSE_TIME: no closing, or one after the day of the game.
Close ==
    \E t \in Optional :
        /\ t = 0 \/ (t > Current.date /\ t > now)
        /\ Say({"CREATE_CLOSE_TIME"}, "QUESTION_CREATE_CHOICE", [Current EXCEPT !.close = t])

\* The question after the capacity is known.
AfterAmount(context) ==
    IF role[Self] = "admin"
    THEN [state |-> "CREATE_MASTER_CHOICE", context |-> context]
    ELSE [state |-> "CREATE_SCHEDULE_CHOICE",
          context |-> [context EXCEPT !.master = Self, !.later = FALSE]]

SayAfterAmount(states, context) ==
    Say(states, AfterAmount(context).state, AfterAmount(context).context)

Amount ==
    \E n \in 1 .. MaxPlayers :
        SayAfterAmount({"CREATE_PLAYER_AMOUNT"}, [Current EXCEPT !.amount = n])

Taken(options) == FoldLeft(+, 0, options)

\* _question_creation_step: a question with two answers, each with its places.
Question ==
    \/ Say({"QUESTION_CREATE_CHOICE"}, "CREATE_PLAYER_AMOUNT", Current)
    \/ Say({"QUESTION_CREATE_CHOICE"}, "QUESTION_CREATE_TEXT", Current)
    \/ Say({"QUESTION_CREATE_TEXT"}, "QUESTION_CREATE_NAME", [Current EXCEPT !.options = <<>>])
    \/ Say({"QUESTION_CREATE_NAME"}, "QUESTION_CREATE_CAPACITY", Current)

\* At least one place is left for the answer still to come.
Capacity ==
    \E n \in 1 .. MaxPlayers :
        LET options == Append(Current.options, n) IN
        IF Len(options) < 2
        THEN /\ n <= MaxPlayers - 1
             /\ Say({"QUESTION_CREATE_CAPACITY"}, "QUESTION_CREATE_NAME", [Current EXCEPT !.options = options])
        ELSE /\ n <= MaxPlayers - Taken(Current.options)
             /\ SayAfterAmount({"QUESTION_CREATE_CAPACITY"},
                               [Current EXCEPT !.options = options, !.amount = Taken(options)])

\* _creation_schedule_question
With(master) == [Current EXCEPT !.master = master, !.later = FALSE]

WithoutMaster == [Current EXCEPT !.master = None, !.later = TRUE]

\* Every message about the master needs the administrator's role.
ByAdmin == message = {} /\ user.state \in MasterStates /\ role[Self] = "admin"

RefusedMaster == message = {} /\ user.state \in MasterStates /\ role[Self] # "admin" /\ Refuse

\* Somebody without a role has first to be promoted.
Propose(states, p) ==
    IF Privileged(p)
    THEN Say(states, "CREATE_SCHEDULE_CHOICE", With(p))
    ELSE Say(states, "CREATE_MASTER_PROMOTE_CONFIRM", [Current EXCEPT !.target = p])

\* _creation_master_step
ChooseMaster ==
    /\ ByAdmin
    /\ \/ Say(MasterStates, "CREATE_SCHEDULE_CHOICE", With(Self))
       \/ Say(MasterStates, "CREATE_SCHEDULE_CHOICE", WithoutMaster)
       \/ Say(MasterStates, "CREATE_MASTER_PICK", Current)
       \/ Say({"CREATE_MASTER_PICK"}, "CREATE_MASTER_CHOICE", Current)
       \/ Say({"CREATE_MASTER_PICK"}, "CREATE_MASTER_PLATFORM", Current)
       \/ Say({"CREATE_MASTER_PLATFORM"}, "CREATE_MASTER_PROFILE", Current)
       \/ \E p \in People : Propose({"CREATE_MASTER_PICK", "CREATE_MASTER_PROFILE"}, p)

\* _creation_master_promotion_step
Promote ==
    /\ ByAdmin /\ user.state = "CREATE_MASTER_PROMOTE_CONFIRM"
    /\ role' = [role EXCEPT ![Current.target] = IF @ = "none" THEN "moderator" ELSE @]
    /\ user' = [state |-> "CREATE_SCHEDULE_CHOICE", context |-> With(Current.target)]
    /\ offered' = FALSE
    /\ UNCHANGED <<Outside, ended>>

\* _creation_schedule_step
Scheduling == message = {} /\ user.state \in {"CREATE_SCHEDULE_CHOICE", "CREATE_SCHEDULE_TIME"}

RefusedSchedule == Scheduling /\ ~Privileged(Self) /\ Refuse

Schedule ==
    /\ Scheduling /\ Privileged(Self)
    /\ \/ Say({"CREATE_SCHEDULE_CHOICE"}, "CREATE_SCHEDULE_TIME", Current)
       \/ Say({"CREATE_SCHEDULE_CHOICE"}, "CREATE_CONFIRMATION_SCHEDULE_CHOICE", [Current EXCEPT !.open = 0])
       \/ \E t \in Times :
            /\ t > now
            /\ Current.close # 0 => t < Current.close
            /\ Say({"CREATE_SCHEDULE_TIME"}, "CREATE_CONFIRMATION_SCHEDULE_CHOICE", [Current EXCEPT !.open = t])

\* "create:confirmation:yes", or a text that is no answer to the question.
AskConfirmation ==
    \/ offered /\ Say({"CREATE_CONFIRMATION_SCHEDULE_CHOICE"}, "CREATE_CONFIRMATION_SCHEDULE_TIME", Current)
    \/ Say(ConfirmationStates, user.state, Current)

\* Variant: confirmation may be planned for any time before the closing.
ConfirmationAnyTime ==
    /\ Current.created = 0
    /\ \/ AskConfirmation
       \/ \E t \in Times :
            /\ t > now
            /\ Current.close # 0 => t < Current.close
            /\ Say({"CREATE_CONFIRMATION_SCHEDULE_TIME"}, "CREATE_CONFIRMATION_DEADLINE",
                   [Current EXCEPT !.confirm = t])

\* _creation_confirmation_schedule_step, up to the deadline.
Confirmation ==
    /\ Current.created = 0
    /\ \/ AskConfirmation
       \/ \E t \in Times :
            /\ t > now
            /\ Current.open # 0 => t > Current.open
            /\ Current.close # 0 => t < Current.close
            /\ Say({"CREATE_CONFIRMATION_SCHEDULE_TIME"}, "CREATE_CONFIRMATION_DEADLINE",
                   [Current EXCEPT !.confirm = t])

\* "/menu" leaves the dialogue.
Leave == user.state # "IDLE" /\ Say(States, "IDLE", NoContext)

\* What the answers given so far have settled, when a question is asked.
PlanSound(plan) ==
    /\ plan.close # 0 => plan.close > plan.date
    /\ plan.options # <<>> => Len(plan.options) = 2 /\ plan.amount = Taken(plan.options)
    /\ plan.later => plan.master = None

RowSound(row) ==
    /\ row.context.later => row.context.master = None
    /\ row.state \in {"CREATE_DATE", "CREATE_CLOSE_TIME", "QUESTION_CREATE_CHOICE", "CREATE_PLAYER_AMOUNT"}
            => row.context.options = <<>>
    /\ row.state \in {"QUESTION_CREATE_CHOICE", "QUESTION_CREATE_TEXT", "QUESTION_CREATE_NAME",
                      "QUESTION_CREATE_CAPACITY", "CREATE_PLAYER_AMOUNT"}
            => (row.context.close # 0 => row.context.close > row.context.date)
    /\ row.state \in {"QUESTION_CREATE_NAME", "QUESTION_CREATE_CAPACITY"} => Len(row.context.options) < 2
    /\ row.state \in {"CREATE_SCHEDULE_CHOICE", "CREATE_SCHEDULE_TIME"} \cup MasterStates \cup ConfirmationStates
            => PlanSound(row.context)

\* An instance begins with a row that the dialogue can have left.
ASSUME StartsAssumption ==
    \A start \in Starts :
        /\ start.user \in User /\ RowSound(start.user) /\ start.user.context.created = 0
        /\ start.role \in [People \cup {Self} -> Roles]

-----------------------------------------------------------------------------
(***************************************************************************)
(* The turn that creates the game                                          *)
(***************************************************************************)
\* The creating answer: a press of "no confirmation", an acceptable deadline, or
\* any text after a refused press when the game is already in the row.
Creating(deadline) ==
    \/ deadline = 0 /\ offered /\ user.state \in ConfirmationStates
    \/ deadline # 0 /\ Current.created # 0
    \/ /\ deadline # 0 /\ user.state = "CREATE_CONFIRMATION_DEADLINE"
       /\ deadline > Current.confirm
       /\ Current.close # 0 => deadline < Current.close

Planned(deadline) ==
    IF deadline = 0 THEN [Current EXCEPT !.confirm = 0, !.deadline = 0]
    ELSE [Current EXCEPT !.deadline = deadline]

SendCreating ==
    /\ message = {}
    /\ \E d \in Optional : Creating(d) /\ message' = {[deadline |-> d]}
    /\ UNCHANGED <<apart, now, role, user, offered, turn, games, jobs, told, answered, heard, ended, failures>>

\* _creation_master
MasterReady == Current.later \/ (Current.master # None /\ Privileged(Current.master))

\* The press is refused if its button is no longer in the row.
Outdated(m) == m.deadline = 0 /\ ~offered

Starting(plan) == [step |-> "submit", context |-> plan, id |-> 0, offered |-> offered]

\* Variant: the game a failed turn has left behind is not looked for.
BeginAgain ==
    /\ message # {} /\ turn.step = "none"
    /\ \E m \in message :
        /\ MasterReady
        /\ turn' = Starting([Planned(m.deadline) EXCEPT !.created = 0])
        /\ UNCHANGED <<user, offered, message, ended>>
    /\ UNCHANGED <<apart, now, role, games, jobs, told, answered, heard, failures>>

\* A delivery of the creating message.  A press of an outdated button is answered
\* so, and the dialogue stays; a game created by an earlier delivery is finished;
\* a master without a role ends the dialogue.
Begin ==
    /\ message # {} /\ turn.step = "none"
    /\ \E m \in message :
        \/ /\ Outdated(m)
           /\ message' = {} /\ ended' = ended \cup {"outdated"}
           /\ UNCHANGED <<user, offered, turn>>
        \/ /\ ~Outdated(m) /\ Current.created # 0
           /\ turn' = [step |-> "tell", context |-> Current, id |-> Current.created, offered |-> offered]
           /\ UNCHANGED <<user, offered, message, ended>>
        \/ /\ ~Outdated(m) /\ Current.created = 0 /\ MasterReady
           /\ turn' = Starting(Planned(m.deadline))
           /\ UNCHANGED <<user, offered, message, ended>>
        \/ /\ ~Outdated(m) /\ Current.created = 0 /\ ~MasterReady
           /\ message' = {} /\ ended' = ended \cup {"refused"}
           /\ user' = [state |-> "IDLE", context |-> NoContext] /\ offered' = FALSE
           /\ UNCHANGED turn
    /\ UNCHANGED <<apart, now, role, games, jobs, told, answered, heard, failures>>

\* What create_event asks of a plan; it raises otherwise.
Valid(plan) ==
    /\ plan.amount \in 1 .. MaxPlayers
    /\ plan.confirm = 0 <=> plan.deadline = 0
    /\ plan.open # 0 /\ plan.close # 0 => plan.open < plan.close
    /\ plan.confirm # 0 =>
        /\ plan.deadline > plan.confirm
        /\ plan.open # 0 => plan.confirm > plan.open
        /\ plan.close # 0 => plan.deadline < plan.close

\* Without the mirror the requester is told that the tables are being made, once
\* they are staged and before the uploader is invoked (_upload_pending_callback).
Announce ==
    /\ turn.step = "submit" /\ ~mirrored /\ Valid(turn.context)
    /\ turn' = [turn EXCEPT !.step = "invoke"]
    /\ offered' = FALSE
    /\ UNCHANGED <<apart, now, role, user, message, games, jobs, told, answered, heard, ended, failures>>

\* A new id; the tables are staged and the uploader is invoked.  Without the
\* mirror the turn ends here, silently; with it, staging may be given up.
Submit ==
    /\ turn.step = (IF mirrored THEN "submit" ELSE "invoke") /\ Valid(turn.context)
    /\ \E i \in Ids, step \in {"uploading", "done"} :
        /\ jobs[i] = NoJob /\ \A h \in Ids : jobs[h] = NoJob => i <= h
        /\ step = "done" => mirrored
        /\ jobs' = [jobs EXCEPT ![i] = [NoJob EXCEPT !.step = step, !.plan = turn.context]]
        /\ turn' = IF mirrored THEN [turn EXCEPT !.step = "store", !.id = i] ELSE [turn EXCEPT !.step = "answer"]
    /\ UNCHANGED <<apart, now, role, user, offered, message, games, told, answered, heard, ended, failures>>

MadeBy(plan) == [plan |-> plan, made |-> TRUE]

\* Variant: the requester is answered at once.
AfterStoreAnswer(plan) == "answer"

\* A master who is somebody else is told first.
AfterStore(plan) == IF plan.later \/ plan.master = Self THEN "answer" ELSE "persist"

\* events.create.  A completion may have been faster: the AWS adapter then raises
\* the ValueError that create_event expects, the YDB adapter its own error.
Store ==
    /\ turn.step = "store"
    /\ \/ /\ ~games[turn.id].made
          /\ games' = [games EXCEPT ![turn.id] = MadeBy(turn.context)]
          /\ turn' = [turn EXCEPT !.step = AfterStore(turn.context)]
          /\ UNCHANGED failed
       \/ /\ games[turn.id].made /\ backend = "dynamodb"
          /\ turn' = [turn EXCEPT !.step = AfterStore(turn.context)]
          /\ UNCHANGED <<games, failed>>
       \/ /\ games[turn.id].made /\ backend = "ydb"
          /\ turn' = NoTurn
          /\ failed' = failed + 1
          /\ UNCHANGED games
    /\ UNCHANGED <<backend, mirrored, moves, now, role, user, offered, message, jobs, told, answered, heard, ended, failures>>

\* The game is in the requester's row before its master is told.  The whole row
\* is written, with the keyboard the turn has read.
Persist ==
    /\ turn.step = "persist"
    /\ user' = [user EXCEPT !.context = [turn.context EXCEPT !.created = turn.id]]
    /\ offered' = turn.offered
    /\ turn' = [turn EXCEPT !.step = "tell"]
    /\ UNCHANGED <<apart, now, role, message, games, jobs, told, answered, heard, ended, failures>>

\* _finish_game_creation
Tell ==
    /\ turn.step = "tell"
    /\ told' = told \cup {turn.id}
    /\ turn' = [turn EXCEPT !.step = "answer"]
    /\ UNCHANGED <<apart, now, role, user, offered, message, games, jobs, answered, heard, ended, failures>>

\* _save, and the answer to the platform.
Answer ==
    /\ turn.step = "answer"
    /\ user' = [state |-> "IDLE", context |-> NoContext] /\ offered' = FALSE
    /\ message' = {} /\ turn' = NoTurn
    /\ answered' = answered \cup ({turn.id} \ {0})
    /\ UNCHANGED <<apart, now, role, games, jobs, told, heard, ended, failures>>

\* The invocation ends; what it has stored stays, and the message comes again.
FailTurn ==
    /\ turn.step # "none" /\ failures > 0
    /\ failures' = failures - 1
    /\ failed' = IF Current.created = 0 THEN failed + 1 ELSE failed
    /\ turn' = NoTurn
    /\ UNCHANGED <<backend, mirrored, now, role, user, offered, message, games, jobs, told, answered, heard, ended, moves>>

-----------------------------------------------------------------------------
(***************************************************************************)
(* The uploader, and the completions it sends                              *)
(***************************************************************************)
Completing(i, step) ==
    /\ jobs[i].step = step
    /\ UNCHANGED <<apart, now, role, user, message, turn, answered>>

UploadEnds(i) ==
    /\ Completing(i, "uploading")
    /\ \E s \in BOOLEAN : jobs' = [jobs EXCEPT ![i].step = "due", ![i].success = s]
    /\ UNCHANGED <<games, told, heard, offered, ended, failures>>

\* UploadCompletionService.handle.  A failed upload matters only without the mirror.
Complete(i) ==
    /\ Completing(i, "due")
    /\ \/ /\ ~jobs[i].success /\ ~mirrored
          /\ jobs' = [jobs EXCEPT ![i].step = "done"]
          /\ ended' = ended \cup {"failed"} /\ offered' = FALSE
       \/ /\ jobs[i].success \/ mirrored
          /\ jobs' = [jobs EXCEPT ![i].step = IF games[i].made THEN "present" ELSE "absent"]
          /\ UNCHANGED <<ended, offered>>
    /\ UNCHANGED <<games, told, heard, failures>>

\* _event_created, where no game was found.  If the turn has stored it since,
\* events.create raises and the completion is delivered again.
CreateCompleted(i) ==
    /\ Completing(i, "absent")
    /\ \/ /\ ~games[i].made
          /\ games' = [games EXCEPT ![i] = MadeBy(jobs[i].plan)]
          /\ jobs' = [jobs EXCEPT ![i].step = IF mirrored THEN "done" ELSE "tell"]
       \/ /\ games[i].made
          /\ jobs' = [jobs EXCEPT ![i].step = "due"]
          /\ UNCHANGED games
    /\ UNCHANGED <<told, heard, offered, ended, failures>>

\* _event_created, where a game was found: links, and the requester's notice.
LinkCompleted(i) ==
    /\ Completing(i, "present")
    /\ jobs' = [jobs EXCEPT ![i].step = IF jobs[i].success THEN "report" ELSE "done"]
    /\ UNCHANGED <<games, told, heard, offered, ended, failures>>

\* _notify_leaders
TellCompleted(i) ==
    /\ Completing(i, "tell")
    /\ told' = told \cup {i}
    /\ jobs' = [jobs EXCEPT ![i].step = "report"]
    /\ UNCHANGED <<games, heard, offered, ended, failures>>

\* _send: the requester is told of the game, and gets the button that manages it.
ReportCompleted(i) ==
    /\ Completing(i, "report")
    /\ jobs' = [jobs EXCEPT ![i].step = "done"]
    /\ heard' = heard \cup {i} /\ offered' = FALSE
    /\ UNCHANGED <<games, told, ended, failures>>

\* The invocation ends and the completion is delivered again.
FailCompletion(i) ==
    /\ \E s \in {"absent", "present", "tell", "report"} : Completing(i, s)
    /\ failures > 0 /\ failures' = failures - 1
    /\ jobs' = [jobs EXCEPT ![i].step = "due", ![i].repeated = TRUE]
    /\ UNCHANGED <<games, told, heard, offered, ended>>

-----------------------------------------------------------------------------
Dialogue ==
    \/ Name \/ Date \/ Close \/ Amount \/ Question \/ Capacity
    \/ RefusedMaster \/ ChooseMaster \/ Promote
    \/ RefusedSchedule \/ Schedule \/ Confirmation \/ Leave

HandleMessage == Begin \/ Announce \/ Submit \/ Store \/ Persist \/ Tell \/ Answer

HandleJob(i) ==
    \/ UploadEnds(i) \/ Complete(i) \/ CreateCompleted(i) \/ LinkCompleted(i)
    \/ TellCompleted(i) \/ ReportCompleted(i)

Next ==
    \/ Tick \/ ChangeRole \/ OtherNotice \/ Dialogue \/ SendCreating \/ HandleMessage \/ FailTurn
    \/ \E i \in Ids : HandleJob(i) \/ FailCompletion(i)

\* The platform delivers a message and a completion until they are handled;
\* failures are bounded.  Nobody has to go on with the dialogue.
Spec ==
    /\ Init /\ [][Next]_vars
    /\ WF_vars(HandleMessage)
    /\ \A i \in Ids : WF_vars(HandleJob(i))

-----------------------------------------------------------------------------
(***************************************************************************)
(* Properties                                                              *)
(***************************************************************************)
TypeOK ==
    /\ backend \in Backends /\ mirrored \in BOOLEAN /\ now \in Nat
    /\ role \in [People \cup {Self} -> Roles]
    /\ user \in User /\ offered \in BOOLEAN /\ message \subseteq Message /\ turn \in Turn
    /\ games \in [Ids -> [plan : Context, made : BOOLEAN]] /\ jobs \in [Ids -> Job]
    /\ told \subseteq Ids /\ answered \subseteq Ids /\ heard \subseteq Ids
    /\ ended \subseteq {"refused", "failed", "outdated"}

Made == {i \in Ids : games[i].made}

\* A game's stages follow each other, however its plan was put together (the
\* checks of the dialogue, create_event), and its places are those of its answers.
PlanInOrder ==
    \A i \in Made :
        LET plan == games[i].plan IN
        /\ Valid(plan)
        /\ plan.close # 0 => plan.close > plan.date
        /\ plan.options # <<>> =>
            Len(plan.options) = 2 /\ plan.amount = Taken(plan.options)

\* One dialogue makes one game: a message delivered again after a failure makes
\* another only if the failed turn had not yet put the first in the row ("so a
\* retried update finishes it instead of creating another"), and a completion
\* that overtakes its turn makes none of its own.
OneGamePerDialogue == Cardinality(Made) <= 1 + failed

\* A completion that is faster than its turn is no failure of the turn (the test
\* "new event accepts a faster yandex enrichment completion").
FasterCompletionIsAccepted ==
    [][(/\ turn.step = "store" /\ games[turn.id].made
        /\ turn' # turn /\ failures' = failures) => turn'.step # "none"]_vars

\* The turn that creates a game, or the row it has left, still has to tell the
\* master; a turn that failed before that, and an outdated press, tell nobody.
StillToBeTold(i) ==
    \/ turn.id = i \/ Current.created = i
    \/ failed > 0 \/ "outdated" \in ended

\* The dialogue reports a game with a chosen master to the requester only after
\* the master has been told, also when the turn failed in between
\* (_finish_game_creation).  A completion that creates the game tells the master
\* before it reports, unless it was interrupted; one that finds the game may
\* report it first, but then the turn that made it has the telling before it.
MasterIsTold ==
    \A i \in Made :
        games[i].plan.master \in People =>
            /\ i \in answered => i \in told
            /\ (i \in heard /\ i \notin told) =>
                IF mirrored THEN StillToBeTold(i) ELSE jobs[i].repeated

\* A creating message ends in a game, or the requester hears that there is none,
\* although turns and completions fail in between.  The word may be that the
\* button is outdated: a press delivered again meets the keyboard that a notice
\* has put in its place.
CreationIsSettled == message # {} ~> (Made # {} \/ ended # {})

\* "So a retried update finishes it": the master of a game that a failed turn has
\* left in the row is told when the message is delivered again.
RetryFinishesGame == \A i \in Ids : (message # {} /\ Current.created = i) ~> i \in told

\* A creating message that the dialogue has accepted ends in a game, in a refusal
\* for its master's rights or in the notice that its upload has failed.
AcceptedCreates == message # {} ~> (Made # {} \/ ended \cap {"refused", "failed"} # {})
===============================================================================
