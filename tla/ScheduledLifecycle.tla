-------------------------- MODULE ScheduledLifecycle --------------------------
(***************************************************************************)
(* The planned stages of one game: masters plan the opening of             *)
(* confirmation and the closing in a dialogue with the gateway             *)
(* (conversation_admin_games.py, conversation_admin_dialog.py); the hourly *)
(* timer (functions/registration_notifier) publishes a command for every   *)
(* stage that is due; the worker applies it (ordered_mutations.py,         *)
(* game_closings.py).  A closing is three commands: close the registration *)
(* and add the game to the attendance statistics, in the group             *)
(* "statistics" of all games, and archive it and tell its masters.         *)
(*                                                                         *)
(* The gateway writes the plan without going through the queue, so it runs *)
(* between any two steps of the worker.  Commands are applied again after  *)
(* a failure, as in OrderedQueue.  Instants are whole hours.               *)
(***************************************************************************)
EXTENDS Naturals, Sequences, FiniteSets, SequencesExt

CONSTANTS
    Masters,      \* leaders of the game
    Editors,      \* dialogues that may be planning at the same time
    MasterKinds,  \* operations that masters and administrators publish
    MaxTime,      \* bound: hours
    MaxEdits,     \* bound: plans made or cancelled
    MaxCommands,  \* bound: commands of masters
    MaxFailed     \* bound: failed attempts, publications and statistics

ASSUME ScheduledLifecycleAssumption ==
    /\ MasterKinds \subseteq {"register", "confirm", "close", "archive", "unarchive"}
    /\ MaxTime \in Nat /\ MaxEdits \in Nat /\ MaxCommands \in Nat /\ MaxFailed \in Nat

Never == 0      \* NULL

Instants == 1 .. MaxTime

Optional == Instants \cup {Never}

VARIABLES
    clock,
    game,       \* the planned columns of the row of `events`
    counted,    \* the game is in the attendance workbooks
    invited,    \* history: the waiting players have been asked to confirm
    queue,      \* FIFO groups
    attempt,    \* how far the head of each group has been applied
    timer,      \* commands an invocation of the timer has still to publish
    edit,       \* what a dialogue has read and is about to write
    edits, commands, failed

lifecycleVars == <<clock, game, counted, invited, queue, attempt, timer, edit, edits, commands, failed>>

Groups == {"game", "statistics"}

ScheduledKinds == {"openPlanned", "closePlanned", "statistics", "finalize"}

Command == [kind : ScheduledKinds \cup MasterKinds, at : Optional, deadline : Optional]

\* closeOp is scheduled_close_operation_id; operation ids are made from the
\* planned instant, which stands for them here.
Game == [status : {"created", "confirmation_open", "closed"}, archived : BOOLEAN,
         openAt : Optional, deadline : Optional,
         closeAt : Optional, closeOp : Optional, told : SUBSET Masters, done : BOOLEAN]

Steps == {"idle", "open", "invite", "start", "publish", "count", "commit",
          "archive", "tell", "set", "reply"}

Edit == [kind : {"none", "close", "confirmation"}, at : Optional, deadline : Optional,
         checked : BOOLEAN]

NoEdit == [kind |-> "none", at |-> Never, deadline |-> Never, checked |-> FALSE]

LifecycleTypeOK ==
    /\ clock \in 0 .. MaxTime /\ game \in Game
    /\ counted \in BOOLEAN /\ invited \in BOOLEAN
    /\ queue \in [Groups -> Seq(Command)]
    /\ attempt \in [Groups -> Steps]
    /\ \A g \in Groups : attempt[g] # "idle" => queue[g] # <<>>
    /\ timer \in Seq(Command)
    /\ edit \in [Editors -> Edit]
    /\ edits \in 0 .. MaxEdits /\ commands \in 0 .. MaxCommands /\ failed \in 0 .. MaxFailed

\* Creation checks the order of the stages.
Planned(openAt, deadline, closeAt) ==
    /\ (openAt = Never) = (deadline = Never)
    /\ openAt # Never => openAt < deadline
    /\ openAt # Never /\ closeAt # Never => deadline < closeAt

LifecycleInit ==
    /\ clock = 0
    /\ game \in {g \in [status : {"created"}, archived : {FALSE}, openAt : Optional,
                        deadline : Optional, closeAt : Optional, closeOp : {Never},
                        told : {{}}, done : {FALSE}] : Planned(g.openAt, g.deadline, g.closeAt)}
    /\ counted = FALSE /\ invited = FALSE
    /\ queue = [g \in Groups |-> <<>>]
    /\ attempt = [g \in Groups |-> "idle"]
    /\ timer = <<>>
    /\ edit = [m \in Editors |-> NoEdit]
    /\ edits = 0 /\ commands = 0 /\ failed = 0

\* The gateway answers a message within the hour.
Tick ==
    /\ clock < MaxTime /\ \A m \in Editors : ~edit[m].checked
    /\ clock' = clock + 1
    /\ UNCHANGED <<game, counted, invited, queue, attempt, timer, edit, edits, commands, failed>>

Fails == failed < MaxFailed /\ failed' = failed + 1

-----------------------------------------------------------------------------
(***************************************************************************)
(* Planning, in the gateway                                                *)
(***************************************************************************)

CloseAllowed(at) ==
    /\ game.closeOp = Never
    /\ at # Never => at > clock /\ (game.deadline # Never => at > game.deadline)

OpenAllowed(at) ==
    /\ game.status = "created"
    /\ at # Never => at > clock /\ (game.closeAt # Never => at < game.closeAt)

DeadlineAllowed(at, deadline) ==
    /\ game.status = "created"
    /\ deadline > at /\ (game.closeAt # Never => deadline < game.closeAt)

Plan(m, plan) ==
    /\ edit' = [edit EXCEPT ![m] = plan]
    /\ UNCHANGED <<clock, game, counted, invited, queue, attempt, timer, commands, failed>>

\* A message with a new time, or the button that clears it.
BeginEdit(m) ==
    /\ edit[m] = NoEdit /\ edits < MaxEdits /\ ~game.archived
    /\ edits' = edits + 1
    /\ \E at \in Optional :
        \/ /\ CloseAllowed(at)
           /\ Plan(m, [kind |-> "close", at |-> at, deadline |-> Never, checked |-> TRUE])
        \/ /\ OpenAllowed(at)
           /\ Plan(m, [kind |-> "confirmation", at |-> at, deadline |-> Never, checked |-> at = Never])

\* The deadline comes in a second message; the game is read again.
EnterDeadline(m) ==
    /\ edit[m].kind = "confirmation" /\ ~edit[m].checked
    /\ UNCHANGED edits
    /\ \/ \E deadline \in Instants :
            /\ DeadlineAllowed(edit[m].at, deadline) /\ ~game.archived
            /\ Plan(m, [edit[m] EXCEPT !.deadline = deadline, !.checked = TRUE])
       \/ Plan(m, NoEdit)

\* Variant: the plan of a closing that has begun is replaced as well.
SetCloseAlways(at) == [game EXCEPT !.closeAt = at, !.closeOp = Never, !.told = {}, !.done = FALSE]

\* set_scheduled_close_at
SetClose(at) ==
    IF game.closeOp = Never /\ game.closeAt # at
    THEN [game EXCEPT !.closeAt = at, !.closeOp = Never, !.told = {}, !.done = FALSE]
    ELSE game

\* The write that follows the checks.
WriteEdit(m) ==
    /\ edit[m].checked
    /\ game' = IF edit[m].kind = "close" THEN SetClose(edit[m].at)
               ELSE [game EXCEPT !.openAt = edit[m].at, !.deadline = edit[m].deadline]
    /\ edit' = [edit EXCEPT ![m] = NoEdit]
    /\ UNCHANGED <<clock, counted, invited, queue, attempt, timer, edits, commands, failed>>

-----------------------------------------------------------------------------
(***************************************************************************)
(* Publishing                                                              *)
(***************************************************************************)
GroupOf(c) == IF c.kind = "statistics" THEN "statistics" ELSE "game"

\* Operation ids of planned commands are deterministic: while one is in the
\* queue, another copy of it is dropped.
Published(c) ==
    IF c \in ToSet(queue[GroupOf(c)]) THEN queue ELSE [queue EXCEPT ![GroupOf(c)] = Append(@, c)]

PublishByMaster ==
    /\ commands < MaxCommands
    /\ commands' = commands + 1
    /\ \E k \in MasterKinds, deadline \in Optional :
        /\ (k = "confirm") = (deadline # Never)
        /\ queue' = [queue EXCEPT !["game"] =
                        Append(@, [kind |-> k, at |-> Never, deadline |-> deadline])]
    /\ UNCHANGED <<clock, game, counted, invited, attempt, timer, edit, edits, failed>>

OpenDue ==
    /\ game.openAt # Never /\ game.openAt <= clock /\ game.deadline # Never
    /\ ~game.archived /\ game.status = "created"

\* Variant: a game that is archived needs no closing any more.
CloseDueUnarchived == game.closeAt # Never /\ game.closeAt <= clock /\ ~game.done /\ ~game.archived

CloseDue ==
    /\ game.closeAt # Never /\ game.closeAt <= clock /\ ~game.done
    /\ ~game.archived \/ game.closeOp # Never

\* listBefore
TimerRead ==
    /\ timer = <<>> /\ (OpenDue \/ CloseDue)
    /\ timer' = (IF OpenDue THEN <<[kind |-> "openPlanned", at |-> game.openAt,
                                    deadline |-> game.deadline]>> ELSE <<>>)
                \o (IF CloseDue THEN <<[kind |-> "closePlanned", at |-> game.closeAt,
                                        deadline |-> Never]>> ELSE <<>>)
    /\ UNCHANGED <<clock, game, counted, invited, queue, attempt, edit, edits, commands, failed>>

TimerPublish ==
    /\ timer # <<>>
    /\ \/ queue' = Published(Head(timer)) /\ timer' = Tail(timer) /\ UNCHANGED failed
       \/ Fails /\ timer' = <<>> /\ UNCHANGED queue
    /\ UNCHANGED <<clock, game, counted, invited, attempt, edit, edits, commands>>

-----------------------------------------------------------------------------
(***************************************************************************)
(* The worker                                                              *)
(***************************************************************************)
CommandAt(g) == Head(queue[g])

Continue(g, step) == attempt' = [attempt EXCEPT ![g] = step]

Reached(g, step, kinds) == attempt[g] = step /\ CommandAt(g).kind \in kinds

\* ScheduledGameClosingService._event: the plan has changed since.
Stale(c) == game.closeAt # c.at

\* The first read of an attempt.  A planned closing that finds another one
\* begun raises, and so it does every time it is applied again: the command
\* stays at the head of its group.
Begin(c) ==
    CASE c.kind = "openPlanned" ->
            IF ~game.archived /\ game.status = "created"
               /\ game.openAt = c.at /\ game.deadline = c.deadline THEN {"open"} ELSE {"reply"}
      [] c.kind = "closePlanned" ->
            IF Stale(c) \/ game.done \/ (game.closeOp = Never /\ game.archived) THEN {"reply"}
            ELSE IF game.closeOp = Never THEN {"start"}
            ELSE IF game.closeOp = c.at THEN {"publish"} ELSE {}
      [] c.kind = "statistics" ->
            IF Stale(c) \/ game.done THEN {"reply"}
            ELSE IF game.closeOp # c.at THEN {}
            ELSE IF game.archived THEN {"publish"} ELSE {"count"}
      [] c.kind = "finalize" ->
            IF Stale(c) \/ game.done THEN {"reply"}
            ELSE IF game.closeOp # c.at THEN {} ELSE {"archive"}
      [] c.kind = "unarchive" -> {"set"}
      [] OTHER -> IF game.archived THEN {"reply"} ELSE {"set"}

Load(g) ==
    /\ attempt[g] = "idle" /\ queue[g] # <<>>
    /\ \E step \in Begin(CommandAt(g)) : Continue(g, step)
    /\ UNCHANGED <<clock, game, counted, invited, queue, timer, edit, edits, commands, failed>>

\* open_scheduled_confirmation compares the plan once more.
Open(g) ==
    /\ Reached(g, "open", {"openPlanned"})
    /\ LET c == CommandAt(g)
           matches == ~game.archived /\ game.deadline = c.deadline /\ game.status = "created"
                      /\ game.openAt = c.at
       IN  IF matches
           THEN /\ game' = [game EXCEPT !.status = "confirmation_open", !.openAt = Never]
                /\ Continue(g, "invite")
           ELSE Continue(g, "reply") /\ UNCHANGED game
    /\ UNCHANGED <<clock, counted, invited, queue, timer, edit, edits, commands, failed>>

Invite(g) ==
    /\ attempt[g] = "invite"
    /\ invited' = TRUE
    /\ Continue(g, "reply")
    /\ UNCHANGED <<clock, game, counted, queue, timer, edit, edits, commands, failed>>

\* The status commands, ARCHIVE and UNARCHIVE of masters and administrators.
Set(g) ==
    /\ attempt[g] = "set"
    /\ LET c == CommandAt(g) IN
        /\ game' =
             CASE c.kind = "register" -> [game EXCEPT !.status = "created"]
               [] c.kind = "close" -> [game EXCEPT !.status = "closed"]
               [] c.kind = "archive" -> [game EXCEPT !.status = "closed", !.archived = TRUE]
               [] c.kind = "unarchive" -> [game EXCEPT !.archived = FALSE]
               [] c.kind = "confirm" -> [game EXCEPT !.status = "confirmation_open",
                                                     !.openAt = Never, !.deadline = c.deadline]
        /\ Continue(g, IF c.kind = "confirm" /\ game.status # "confirmation_open"
                       THEN "invite" ELSE "reply")
    /\ UNCHANGED <<clock, counted, invited, queue, timer, edit, edits, commands, failed>>

\* Variant: the UPDATE does not ask whether there is still a plan.
StartAlways(at) == ~game.archived /\ game.closeOp = Never /\ ~game.done

\* start_scheduled_close: the UPDATE asks for a plan, not for this plan.
StartMatches(at) ==
    ~game.archived /\ game.closeAt # Never /\ game.closeOp = Never /\ ~game.done

Start(g) ==
    /\ Reached(g, "start", {"closePlanned"})
    /\ LET at == CommandAt(g).at IN
        game' = IF StartMatches(at) THEN [game EXCEPT !.status = "closed", !.closeOp = at] ELSE game
    /\ Continue(g, "publish")
    /\ UNCHANGED <<clock, counted, invited, queue, timer, edit, edits, commands, failed>>

\* The next stage; an archived game is not added to the statistics.
PublishNext(g) ==
    /\ Reached(g, "publish", {"closePlanned", "statistics"})
    /\ LET c == CommandAt(g)
           next == IF c.kind = "statistics" \/ game.archived THEN "finalize" ELSE "statistics"
       IN  queue' = Published([c EXCEPT !.kind = next])
    /\ Continue(g, "reply")
    /\ UNCHANGED <<clock, game, counted, invited, timer, edit, edits, commands, failed>>

\* StatisticsService.add_game: refused for an archived game, and for players
\* or masters without a proper name (a failure here).
Count(g) ==
    /\ Reached(g, "count", {"statistics"})
    /\ \/ ~game.archived /\ Continue(g, "commit") /\ UNCHANGED failed
       \/ game.archived /\ Continue(g, "reply") /\ UNCHANGED failed
       \/ Fails /\ Continue(g, "reply")
    /\ UNCHANGED <<clock, game, counted, invited, queue, timer, edit, edits, commands>>

Commit(g) ==
    /\ Reached(g, "commit", {"statistics"})
    /\ counted' = TRUE
    /\ Continue(g, "publish")
    /\ UNCHANGED <<clock, game, invited, queue, timer, edit, edits, commands, failed>>

\* complete_scheduled_close_actions
Archive(g) ==
    /\ Reached(g, "archive", {"finalize"})
    /\ game.closeOp = CommandAt(g).at
    /\ game' = IF game.archived \/ game.done THEN game
               ELSE [game EXCEPT !.status = "closed", !.archived = TRUE]
    /\ Continue(g, "tell")
    /\ UNCHANGED <<clock, counted, invited, queue, timer, edit, edits, commands, failed>>

\* One message ("registration closed, game added to the statistics, game
\* archived") and its marker.
TellMaster(g) ==
    /\ Reached(g, "tell", {"finalize"})
    /\ \E m \in Masters \ game.told : game' = [game EXCEPT !.told = @ \cup {m}]
    /\ UNCHANGED <<clock, counted, invited, queue, attempt, timer, edit, edits, commands, failed>>

\* Variant: one message is enough.
SomebodyTold == game.told # {} \/ Masters = {}

EverybodyTold == Masters \subseteq game.told

Complete(g) ==
    /\ Reached(g, "tell", {"finalize"}) /\ EverybodyTold
    /\ game' = [game EXCEPT !.done = TRUE]
    /\ Continue(g, "reply")
    /\ UNCHANGED <<clock, counted, invited, queue, timer, edit, edits, commands, failed>>

Reply(g) ==
    /\ attempt[g] = "reply"
    /\ queue' = [queue EXCEPT ![g] = Tail(@)]
    /\ Continue(g, "idle")
    /\ UNCHANGED <<clock, game, counted, invited, timer, edit, edits, commands, failed>>

\* The attempt ends half-way and the command is applied again.
Fail(g) ==
    /\ attempt[g] # "idle" /\ Fails
    /\ Continue(g, "idle")
    /\ UNCHANGED <<clock, game, counted, invited, queue, timer, edit, edits, commands>>

-----------------------------------------------------------------------------
Work(g) ==
    \/ Load(g) \/ Open(g) \/ Invite(g) \/ Set(g) \/ Start(g) \/ PublishNext(g) \/ Count(g)
    \/ Commit(g) \/ Archive(g) \/ TellMaster(g) \/ Complete(g) \/ Reply(g)

LifecycleNext ==
    \/ Tick
    \/ \E m \in Editors : BeginEdit(m) \/ EnterDeadline(m) \/ WriteEdit(m)
    \/ PublishByMaster
    \/ TimerRead \/ TimerPublish
    \/ \E g \in Groups : Work(g) \/ Fail(g)

LifecycleSpec == LifecycleInit /\ [][LifecycleNext]_lifecycleVars

\* The timer fires every hour, the worker applies what is in the queue, and the
\* gateway finishes what it has begun.
Fairness ==
    /\ WF_lifecycleVars(Tick) /\ WF_lifecycleVars(TimerRead) /\ WF_lifecycleVars(TimerPublish)
    /\ \A g \in Groups : WF_lifecycleVars(Work(g))
    /\ \A m \in Editors : WF_lifecycleVars(WriteEdit(m))

FairSpec == LifecycleSpec /\ Fairness

-----------------------------------------------------------------------------
(***************************************************************************)
(* Properties                                                              *)
(***************************************************************************)

\* A closing that has begun cannot be moved or cancelled, and is completed only
\* for the plan it began with (admin-guide-ru.md:139 allows changes "until it
\* has begun").
BegunClosingIsFixed ==
    [][game.closeOp # Never =>
        /\ game'.closeAt = game.closeAt /\ game'.closeOp = game.closeOp
        /\ (game'.done => game.done \/ game.closeOp = game.closeAt)]_lifecycleVars

\* A plan that has been cancelled closes nothing, even when the closing command
\* had already been checked against it.
CancelledClosingClosesNothing ==
    [][game'.closeOp # game.closeOp => game.closeAt # Never]_lifecycleVars

\* The closing is over only for a closed, archived game whose masters have all
\* been told, whatever other commands ran between its stages.
CompletionIsComplete ==
    [][game'.done /\ ~game.done =>
        game.archived /\ game.status = "closed" /\ game.told = Masters]_lifecycleVars

\* The masters are told that the game is in the statistics only when it is.
AnnouncementIsTrue == [][game'.told # game.told /\ game'.told # {} => counted]_lifecycleVars

\* A planned opening is answered only after the waiting players were invited.
OpeningInvites ==
    [][Reached("game", "reply", {"openPlanned"}) /\ queue'["game"] # queue["game"]
       => (game.status = "confirmation_open" => invited)]_lifecycleVars

\* The closing comes after the confirmation it closes.
StagesInOrder ==
    game.deadline # Never /\ game.closeAt # Never => game.deadline < game.closeAt

\* A closing that has begun is completed in the end.  If its plan was moved
\* between the check and the write of its first stage, it never is.
BegunClosingCompletes == (game.closeOp # Never /\ game.closeOp = game.closeAt) ~> game.done

\* "at the appointed time the bot itself closes the registration, adds the game
\* to the statistics and archives it" (admin-guide-ru.md:18)
MovedClosingCompletes == (game.closeOp # Never) ~> game.done
===============================================================================
