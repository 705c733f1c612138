# Formal model of the LARP registration bot

TLA+ modules, TLC configurations and TLAPS proofs for the bot in `src/`: players
of live-action games sign up, confirm and cancel in Telegram or VK chats, and
masters run the lists of their games. The bot is a set of serverless functions
over YDB (or DynamoDB), two message queues and a file storage.

Paths below are relative to the repository root. Abbreviations of files under
`src/larp_bot/`: `OM` `application/ordered_mutations.py` (`OM:503` is its line 503), `W`
`application/worker.py`, `NS` `application/notification_services.py`, `RS`
`application/registration_services.py`, `GC` `application/game_closings.py`, `CC`, `CP`, `CPR`
`application/conversation_core.py`, `_players.py`, `_profiles.py`, `AC`, `AD`, `AG`, `AR`, `ARO`
`application/conversation_admin_creation.py`, `_dialog.py`, `_games.py`, `_rosters.py`, `_roles.py`,
`ADS` `application/administration_services.py`, `UC` `application/upload_completion.py`, `RR`, `ER`, `UR`
`adapters/ydb/registration_repository.py`, `event_repository.py`, `user_repository.py`, `DY`
`adapters/aws/dynamodb.py`, `ME` `adapters/memory.py`, `YMQ` `adapters/ymq/client.py`, `RQ`
`domain/registration_queues.py`, `M` `domain/models.py`; `GO` is `src/functions/disk_uploader/index.go`.

## 1. Inventory of the system

**Gateway and dialogues** (`functions/gateway/handler.py`, `application/conversation_*.py`).
Receives an update of a messenger, loads the user's row, runs one step of the
dialogue, writes the row back whole and answers. It writes some columns of games
itself (planned instants, roles, masters, links), creates games, and publishes every
change of a registration as an `OrderedRegistrationCommand`. State: the row of `users`
(dialogue state, context, current keyboard, last update). Hard: invocations for
one user overlap; the platform delivers an update until it is answered, also one that
failed half-way; every button ever sent can be pressed at any time.

**Player dialogues** (`CP`, `conversation_questions.py`): signup, confirmation with replacement of a
conflicting game, wishes, cancellation. **Profiles** (`CPR`): thirteen questions reached along
several routes. **Administration** (`AD`, `AG`, `AR`): every question about an existing game.
**Roles and masters** (`ARO`, `conversation_admin_access.py`): grants and revocations, which count for all
linked profiles of a person. **Creation** (`AC`, `ADS`): a plan, the tables, the game, the notice to its master.

**Command queue** (`YMQ`, `adapters/aws/sqs.py`). A FIFO queue of
commands in groups (`M:888-898`: a game's group, the player's own group for
`CONFIRM`, `statistics`, one group per synchronised profile) and, on Yandex Cloud, a
standard queue of "kicks" that wake the worker. Hard: a command is durable before
its kick is sent, kicks come back, counters are approximate.

**Worker** (`W`, `functions/ordered_worker`). Drains the FIFO queue
in batches within a deadline, applies each command, sends notices, deletes the
message, and keeps the rest of a group back after a failure. State: batch, failed
groups, `processed`, background tasks. Hard: killed instances, the deadline, a
drain that ends with work left.

**Ordered mutations** (`OM`, `NS`). One method, `apply`, with a branch for
each of some twenty operations: several database round trips each, guarded by what
was read earlier, made again from the start after a failure. State: rows of
`events` and `registrations`, and the per-game records of moved, promoted and removed
players. Hard: `CONFIRM` runs beside the groups of the games it touches.

**Queue rules** (`RQ`, `RR`). The place of a player is the
rank of the pair (signup time, key) among active rows; capacity splits main roster
and reserve. Cancelled rows stay; a sift moves everybody who has not confirmed
behind everybody who has.

**Planned stages** (`functions/registration_notifier`, `GC`, `confirmation_openings.py`, `AG`, `AD`).
Masters plan the opening of confirmation and the closing; an
hourly timer publishes the commands that are due; a closing has three stages
in two FIFO groups. Hard: plans change while a stage runs.

**Planned opening of registration** (`functions/registration_notifier`,
`registration_openings.py`). The notifier tells the
interested players, recording each. Hard: overlapping invocations, a
master who plans anew meanwhile.

**Disk uploader and upload completion** (`functions/disk_uploader`, `UC`). Workbooks are staged
with a generation and uploaded by another function under a lock per destination, with take-over of
stale locks; the completion stores the links, and creates the game if nobody has. Hard: two uploads of one
destination, a completion that overtakes the turn that ordered it.

**Storage on AWS** (`DY`, `ME`). Each call loads items, runs the method of the in-memory
repository on them, and commits the difference in one transaction conditioned on the revisions.
Hard: calls of all functions overlap, the index by chat lags behind, a cancelled
transaction starts over.

**Other parts**: broadcasts with markers of who has been told, statistics workbooks, chat management, the
migration tools, the Cloudflare forwarders, the runtime gate for maintenance,
transports and renderers. Each is listed in `PROJECT.json` with what is left out.

What makes the parts correct: nobody overtakes a confirmed
player; a player is confirmed in one of two conflicting games; an
operation is applied once however often it is attempted; whoever moved is told; a
published command is applied in the end and in the order of its group; a planned
stage happens once, for the plan in force; a dialogue acts on what its question showed, never meets a
missing answer, and says "accepted" only of what was published; rights are checked when they are used;
one dialogue makes one game; overlapping writes lose nothing.

## 2. Modules

| Module | Models | Role |
|---|---|---|
| `RegistrationRows` | the rows of one game and the statements that change them | operators shared by the next two |
| `Roster` | one game; every operation of its queue in one step | abstract specification, proved about |
| `OrderedMutations` | FIFO groups, attempts of several round trips, failures and retries, notices, conflicts of dates | detailed specification, implements `Roster` |
| `OrderedMutationsInvariants` | | the inductive invariants of the next |
| `OrderedMutations_proofs` | | theorems of `OrderedMutations` |
| `CommandGroups` | what the queue promises: commands of a group one at a time, in order | abstract specification |
| `OrderedQueue` | publication, kicks, leases, batches, deadline, continuation of a drain | detailed specification, implements `CommandGroups` |
| `Queues_proofs` | | theorems of `Roster` and of `OrderedQueue` |
| `ScheduledLifecycle` | planning, timer, planned opening of confirmation and closing | specification |
| `DiskUploader` | the upload jobs of one destination, the versions of its lock and of its generation marker | specification |
| `Background_proofs` | | theorems of `DiskUploader` and of `ScheduledLifecycle` |
| `PlayerDialogue` | one player's messages, overlapping invocations, the row, the commands published, beside masters and the worker | specification |
| `PlayerDialogue_proofs` | | theorems of `PlayerDialogue` |
| `ProfileDialogue` | the profile questions, the row, SYNC_PROFILE and UPDATE_PROFILE, experience and roles | specification |
| `ProfileDialogue_proofs` | | theorems of `ProfileDialogue` |
| `RoleManagement` | the turns of administrators and masters, roles, masters of games, notices | base of the next |
| `GameManagement` | every dialogue of an existing game, the orders it gives, the worker that checks and applies them | extends `RoleManagement` |
| `GameManagement_proofs` | | theorems of `GameManagement` |
| `GameCreation` | planning and creating a game, its uploads and their completions | specification |
| `GameCreation_proofs` | | theorems of `GameCreation` |
| `MemoryRepositories` | the methods of the in-memory repositories as functions of a row | operators shared by the next two |
| `AtomicEvents` | the games' rows, a method in one step | abstract specification |
| `DynamoStore` | loads, conditional transactions, locks of unique values, the lagging index, attempts | detailed specification, implements `AtomicEvents` |
| `DynamoStore_proofs` | | theorems of `DynamoStore` |
| `MC...` | instances for TLC | |

`OrderedMutations` takes from the queue what `CommandGroups` promises (the head of a
group is attempted until it succeeds, groups go on independently), and
`OrderedQueue` is checked and proved to implement `CommandGroups`. `ImplementsRoster` says that
`OrderedMutations` implements `Roster`, game by game: checked in `MCGame` and proved for the operations of a game's own group. The dialogues publish
into FIFO queues whose worker applies a command in one step with the guards of
`OrderedMutations`; what the application itself does half-way is that module's subject.

### Correspondence

*RegistrationRows, Roster.* `rows[p]` is the row of `registrations` of player `p`: status,
`answer_queue_at` (or `created_at`, without one) as `at`, `last_operation_id` as `op`; `NoRow` when there is none. Signup
times are numbers, of which only the order and "one microsecond later" matter
(`RR:272-286`); a player's key breaks ties, as in `queue_key` (`RQ:11`).
`Position`, `MainRoster` and `ReserveRoster` are the functions of `RQ`. Actions:
`Enlist`, `Confirm`, `Cancel`, `Touch` (wishes), `Remove`, `Sift`, `Swap`
(`PROMOTE_RESERVE_PARTICIPANT`), `SetAmount`, `DeleteEvent`. A YDB transaction is one step:
YDB's serializable isolation is assumed.

*OrderedMutations.* `queue[g]` holds the commands of a group and `work[g]` the
attempt at its head. `Load` makes the reads that `apply` makes before its first
write and the guard of each branch; `todo` lists the writes and deliveries that
remain, in the code's order, and each is a step, so another group's
command may run between any two. `Fail` forgets the attempt and keeps the
command. `games[e]` keeps the status, the capacity, the archive flag and the three
snapshot records `reserve promotion`, `sift` and `participant removal`. `moved`, `told`
and `applied` are history variables: nothing reads them but the properties. Each attempt also reads what the gateway
writes outside the group: the author's rights (`OM:98-122`, `308`, `317`, `353`), links between profiles, a complete profile
(`OM:669`), the opening of registration (`OM:646`). The module does not keep these: an attempt that comes to the checks may be denied
(`Deniable`, `Deny`), whatever an earlier attempt of the command was told.

*OrderedQueue.* `progress` is the publisher (message, then kick; `YMQ:18-45`),
`fifo` and `lease` the FIFO queue, `kicks` the standard queue, `worker` each
instance: receive, apply or skip, release, count, wake, acknowledge (`W:90-338`,
`YMQ:47-104`). Failures are separate actions: publication, application, deadline,
a killed instance, a receipt that could not be returned.

*ScheduledLifecycle.* `game` holds the planned columns, `queue` and `attempt` the
groups of the game and of the statistics, `timer` the commands an invocation
of the notifier has yet to publish, and `edit` what a dialogue has read. Dialogue
validation and write are separate steps, as in the code; planned instants
stand for the operation ids made from them.

*DiskUploader.* `lock` and `marks` are the versions of the two small objects Object Storage
keeps for a destination (`GO:386-588`); the
last version is the one a read sees, and a holder deletes its own or its predecessor's by
version id. `job[j]` is the invocation of job `j`: `phase` names the next request of `uploadOne`
(`GO:720-848`) and of `process` (`GO:925-992`), `previous` the version read earlier, `attempt`
and `delivery` count the retries inside an invocation and by the platform. Every request may
fail, every instance may be killed between two requests. Jobs are numbered by generation, the
nanosecond at which the gateway staged them (`yandex_disk/uploader.py`). `Age` lets six minutes pass; with
`Late = FALSE` an invocation has ended before its generation is six minutes old, as it has when the platform
delivers promptly, since it may run for five minutes.

*PlayerDialogue.* `user` is the row of `users`: state, context, buttons, last update. `turn[s]` is an
invocation: it has loaded a copy of the row (`Deliver`), `Handle` is `handle` of `CC` with the handler of the
state in `CP`, `Publish` is `enqueue` (`RS:930-1030`) with its refusals, `Raise` the exceptions nobody catches,
`Save` the write of the whole row, `Acknowledge` the answer to the platform. A button keeps what its message was
about (`about`), which the code does not store: the properties compare it with what the command says; `lost` keeps those of replies that could not be sent. The
worker's `Work` applies a command with the guards of `OM`; `Master` is every change of a game the dialogue
depends on. Texts are only acceptable or not; a game asks at most one question.

*ProfileDialogue.* Of the answers the module keeps the name, whether a pass is needed and whether its two names
have a patronym; of the context the keys that a later handler reads. `Store`, `Publish` and `Save` are the three
writes at the end of a flow (`CPR:593-636`). `Sync` is SYNC_PROFILE, `ReadProfile` and `WriteProfile` the two
halves of UPDATE_PROFILE, `ApplyEnlist` a signup that carries the name of its time. On YDB `save` leaves
the role columns alone (`UR:234`) and writes the experience as it was read.

*RoleManagement, GameManagement.* `rows[a]` is the dialogue part of an actor's row, `turn[a]` the turn that
handles its message: what it has read, and in `todo` the writes and notices that remain, each a step, after any of
which the turn may die. `granted` and `told` are `gamemaster_grant_operation_id` and `last_delivery_operation_id`,
with which a repeated message recognises its own work. `Press` and `Write` are the buttons and texts, `Serve` the
handlers, `Apply` the worker with `_require_event_leader` and its relatives (`OM:98-128`), `PlayerMoves` the
players. An actor waits for an answer before the next message, and what a turn reads it reads at once:
the overlap of one user's turns is `PlayerDialogue`'s subject. Links to posts are read back and must be the ones just written (`ReadBack`,
`AD:867-874`). Lists have one page, and a menu of leaders
that only shows ("ag:leader") is left out.

*GameCreation.* `user.context` holds the plan; each action of the dialogue is an accepted answer. `Begin`, `Submit`,
`Announce`, `Store`, `Persist`, `Tell` and `Answer` are the steps of the creating turn (`AC:431-582`, `ADS:109-216`), and `FailTurn` ends it
anywhere. `offered` says whether the button of the creating press is in the row's `last_bot_buttons`: every notice replaces them
(`AA:268`, `AA:305`, `UC:266`; `OtherNotice` for those of other things), and a press delivered again that does not find its button is
answered as outdated (`CC:158-171`). `jobs[i]` is the upload ordered for game `i` and its completion (`UC:168-296`), which may overtake the turn or fail.
`mirrored` tells whether tables are also made in Google Drive: with the mirror the turn creates the game,
without it the completion does. Both bootstraps in the repository configure the mirror (`bootstrap.py:72`,
`aws_bootstrap.py:116`). Instants are whole hours.

*MemoryRepositories, AtomicEvents, DynamoStore.* An item is a revision and a document; a document is a row of
`events`, `event_leaders`, `registrations` or `users` with the columns that methods compare. `Read` is one request of
`_rows_for_call`, `ReadIndex` the query of the chat index, which `Propagate` brings up to date, `Commit` the transaction with
the lock items of `_extra_actions`, `Retry` an attempt cancelled by a condition or by a conflict, `Fail` the last one, a
ValueError or a mutation of too many actions. `held` is the row a dialogue has read before it saves it. The methods are those of
`ME` and of `_DynamoMemoryEventRepository`, as functions from a row to a row. A game is created by the turn and
by the completion of its upload, under one random id (`UC:197`), and other calls name it once it is there. It is assumed that a deletion
does not overlap a call that creates the same game and that none begins after it (`InItsLife`): a completion that comes later
does make the game again (section 5).

## 3. Runs

Passing runs (times on two workers, all under two minutes):

| Run | Bounds | Shows |
|---|---|---|
| `roster` | 3 players, capacity 1-2, 6 signup times, all operations | waiting players never overtake confirmed ones; a confirmed player of the main roster stays there. These facts are proved for all sizes. |
| `game_fifo` | one game, 3 players, every operation of the game's group, 2 commands, 1 failed attempt | each command has the effect of one atomic operation of `Roster` or none, is not refused after it was applied, and tells everybody it moved, unless its author is denied on a retry |
| `confirmations` | 2 conflicting games, 2 players, confirm, enlist, sift, archive, delete, 3 commands, no failure; the two games are interchangeable | confirmed in at most one game of a date; a sift in the middle of a confirmation, or a game that goes away under it, neither lets a waiting player overtake nor demotes a confirmed one |
| `queue` | 3 commands, 2 groups, 2 instances, batches of 2, 1 failure, fair | `OrderedQueue` implements `CommandGroups`; waiting commands have a wake-up on the way; every durable command is applied |
| `closing` | 2 masters, 2 hours, 1 new plan, 1 command of a master, 1 failure, fair | a closing that has begun keeps its plan, a cancelled plan closes nothing, a completed closing is complete, and a closing that has begun for its plan completes |
| `uploader` | 3 jobs (one creating, two replacing), 2 attempts, 2 deliveries, 2 failures | one job at a time replaces the file, the marker never runs ahead of the file, a success that was reported is on the Disk |
| `player` | 2 conflicting games, 2 messages in 2 overlapping invocations, 1 change by a master, 1 failure, six points of departure, fair | a dialogue has the context its handler reads; another game is given up only after the question; "accepted" is true; an old button is no wish; messages are answered unless signup was withdrawn |
| `profile` | a new player and three complete profiles, 1 edit, 1 failure, 1 role change, 1 game added to the statistics, queues of 1, fair | no route of questions meets a missing answer or builds an invalid pass; a message undoes no change of role; the registration follows the profile |
| `management` | an administrator, a master, a person with two profiles, one game, two players; one message from every question and menu, two or three in the longer dialogues, 1 failure | a confirmation acts on what its message showed; a change of rights is announced, also by a repeated message, and a revocation reaches every profile; games are changed only by who may; an old order deletes nothing; messages are answered |
| `creation` | the requester and one other, 4 hours, both backends, with and without the mirror, up to 3 ids, up to 2 failures and 1 change of role, fair | a plan is in order whatever route made it; one dialogue makes one game; the dialogue reports a game only after its master was told, and when a completion reports it first the telling is still to come; the creating message ends in a game, a refusal or the word that its button is outdated |
| `dynamo` | 3 overlapping calls: any two methods of a repository beside one that takes or frees what they use; 2 games, 2 people, 2 attempts, transactions of 4 actions | no call overwrites what it has not read; two games never share a token or a chat; each call changes its game as the in-memory method in one step |

The bounds suffice for the behaviours in question: three players are the
smallest queue in which somebody is passed by one player and not by another, with a capacity
of 1 or 2 there is a promotion and a demotion; two commands and one failure give
"first attempt, other operation, retry"; two games give one conflict; two instances and a batch of two
give a group split between batch and queue; two overlapping invocations give "each saves what it has read"; in
`management` every question and menu is a point of departure, so that one message from each
reaches every handler, and the longer dialogues start where two messages matter; in `creation` one start walks the whole
dialogue and the others begin where failures matter; three calls are a reader, a writer in between and one that
frees what both want, with two attempts for "cancelled, then again". Bounds are constants and stand in the
guards (`MaxOps`, `MaxCrashes`, `MaxFailures`, `MaxFailed`, `MaxTime`, `MaxEdits`, `MaxCommands`, `MaxMessages`, `MaxMoves`,
`MaxQueue`, `MaxGrants`, `Attempts`, `MaxActions`; `failures` and `moves` of a start in `creation`).

Exceptions are part of the properties where the code does not promise more: `AnsweredOrWithdrawn` (a refused
publication is repeated for ever once signup was withdrawn), `RowFollowsProfile` (a signup that was waiting while the
profile was synchronised keeps the old name), `AnsweredUnlessUndone` and `RoleChangeIsTold` (two messages that change one
person's rights; the first also excepts two that set the links of one game, `LinksAtOdds`, which can fail each other by `AD:873`; the second also excepts a repeated message that is turned away, because its author lost the rights, was
sent a notice that outdated his keyboard, or its game was archived or deleted meanwhile: the `Vanishing` starts of
`MCManagement` reach that), and `BegunClosingCompletes` (a closing moved while it began, see below). `OneGamePerDialogue` allows one more
game for each turn that failed before the game was in the requester's row. `AppliedIsNeverRefused` and `MovesAreTold` except
attempts that are denied: a master who lost the rights after the first attempt of a sift gets a refusal for what
has been done, and the players it moved hear nothing. `MasterIsTold` lets a completion report a game before its master is told while the
turn, or the row it left, has the telling before it (`UC:266`), and says nothing of that order after a turn that failed with no game in the row or a
press refused as outdated, nor of a completion that was interrupted. `CreationIsSettled` counts that refusal as an end.

One run ends in a counterexample; `findings` in `PROJECT.json` quotes the lines. In `closing_moved` a plan is moved while
its closing begins: `start_scheduled_close` starts any plan, and the command of the new plan fails for ever at the head of the
game's group.

Further properties are stated in the modules and are not part of a run. TLC finds each of
them violated in the configuration given (in `MCGames`, two conflicting games, two players, two
or three commands unless said otherwise):

| Property | Configuration | What happens |
|---|---|---|
| `ReplacementConfirms` | `MCGames`, confirm and remove, fair | a replacing confirmation deletes the old registration although the new one is no longer there (`RR:364`) |
| `PromotionsAreTold` | `MCGames`, confirm and cancel | a `CONFIRM` that replaces a registration overwrites the record of a promotion in the same game before its notice is sent; `README.md:139` promises every promoted player a notice |
| `PromotionsAreTold` | `MCGame`, sift and confirm | a player confirming between a sift's reads and its write crosses into the main roster and is in no snapshot |
| `PromotionsAreTold` | `MCGame` | a larger capacity moves a player up and the attempt fails before the notice; its author has lost the rights when it is tried again (`OM:353`), so the command is refused and leaves the queue; `README.md:139` |
| `RetryNeverReapplies` | `MCGames`, one player, confirm, cancel, enlist, 1 failure | a retried operation is applied again after another one has overwritten `last_operation_id` (`README.md:217`) |
| `AppliedIsNeverRefused` | `MCGames`, confirm and close, 1 failure | the retry of an applied confirmation is refused when the game was closed in between |
| `ClosedAcceptsNothing` | `MCGames`, confirm and close | a confirmation is written after the game was closed (`OM:730`, `README.md:77`) |
| `CompletionFollowsNotifications` | `MCGames`, open_confirmation, 1 failure | the retry of an opening answers the master without telling the players (`OM:362`, `README.md:83`) |
| `OneConfirmedPerDate` | `MCGames`, with unarchive | a game from the archive brings back a second confirmed registration of the date (`ER:1016`) |
| `ConfirmedKeepsMainPlace` | `MCGames`, with cancel | a cancellation that commits between the checks and the write of a confirmation is undone by it; the player comes back to the old place and pushes a confirmed player into the reserve |
| `BacklogKeepsWakeup` | `MCQueue`, `StaleCounters = TRUE` | if the approximate counters may read zero, the last kick is acknowledged while a killed instance holds the only messages (`YMQ:52`) |
| `OpeningInvites` | `MCLifecycle`, 1 failure | the retry of a planned opening leaves out the invitations of its failed attempt (`OM:275`, `docs/admin-guide-ru.md:136`) |
| `AnnouncementIsTrue` | `MCLifecycle`, archive | the masters are told that an archived game was added to the statistics, which it was not (`GC:185`) |
| `StagesInOrder` | `MCLifecycle`, 3 hours, 2 plans | two masters' plans end in the wrong order (`AD:738`) |
| `OneReplacementAtATime` | `MCUploader`, `Late = TRUE` | an invocation delivered late holds a lock that is stale from the start; another job takes it over and both replace the file (`GO:413`) |
| `ButtonMeansItsGame` | `MCPlayer`, 4 messages, 1 invocation, no failure | "Yes, cancel" below the question about one game answers the question about another (`CP:893`) |
| `QuestionWasSeen` | `MCPlayer`, 3 messages, 1 invocation, 1 failure, an older "Yes, replace" on the screen | the reply with the question which game to give up is lost after the row was saved; a press of the older button answers it unseen (`CP:616`) |
| `Answered` | `MCPlayer` | a signup that is put off or closed between its questions makes `enqueue` raise, which no dialogue catches; the update comes again for ever (`RS:949`) |
| `ExperienceIsKept` | `MCProfile` | a message that was loaded before the worker granted the experience writes the old value back (`UR:234`) |
| `RowAlwaysFollowsProfile` | `MCProfile` | a signup published before the profile was synchronised, and applied after it, keeps the old name |
| `FasterCompletionIsAccepted` | `MCCreation`, YDB | `create_event` takes a ValueError for "the completion was faster" (`ADS:210`, tested by `tests/unit/test_google_showcase_refresh.py:97`); the YDB adapter raises its own error (`ER:256`), the turn fails, and its repetition makes a second game |
| `RetryFinishesGame` | `MCCreation`, mirror | the turn fails with its game in the row and the master not told; the completion reports the game and replaces the keyboard, so the press that comes again is refused as outdated (`CC:158`) and the master is never told, though "a retried update finishes it" (`AC:549`) |
| `AcceptedCreates` | `MCCreation`, no mirror | the turn tells the requester that tables are being made (`AA:305`) and fails before the upload is ordered; that notice has replaced the keyboard, so the press that comes again is refused: no game |
| `RoleOutlivesSave` | `MCDynamo` | `save` on AWS writes the row whole, roles included (`ME:95`): a dialogue undoes a role given or taken since it read the row |

`RetryNeverReapplies`, `SnapshotOutlivesCommand` and `QueueTimesDistinct` of `OrderedMutations`, `SignupIsAnswered`, `StaysComplete` and the type invariants hold on the instances of their components' runs;
these runs keep to the deeper properties.

On AWS every command is put into one FIFO group (`aws/sqs.py:11`): what these runs
show of two groups (`CONFIRM` beside the game, statistics beside the game) applies to
the Yandex deployment, which allows three worker instances
(`infra/terraform/variables.tf:106`).

### Fairness

`FairSpec` of `OrderedQueue`: weak fairness of a worker's own steps (a function invocation
runs on), of the trigger (the platform delivers visible kicks), of leases that run out
and of the publisher (platforms deliver an update again until it is answered). Failures are
finitely many (`MaxFailures`, `MaxFailed`) and not fair. There is no dead-letter queue: a command that
always fails keeps its group waiting, so progress needs failures to stop.
`FairSpec` of `ScheduledLifecycle`: weak fairness of the worker, of the clock, of the timer and of a dialogue's write.
Fairness in `OrderedMutations` is that of the queue: the head of a group is attempted again.
`FairSpec` of the dialogues: the gateway goes on with the turn it has begun and the platform delivers a message until
it is answered; `PlayerDialogue` has one condition for all invocations, and leaves the worker and the masters unfair, `ProfileDialogue`
and `GameManagement` add the worker on each queue. Users and masters need never write anything. `Spec` of `GameCreation`: the creating turn and each
upload with its completion go on; the dialogue need not. `DynamoStore` has only safety properties.

## 4. Proofs

`Queues_proofs` proves of `Roster`, for every set of players (integer keys), times,
capacities and starting rows that satisfy the constants' assumption:

- `RosterTypeCorrect`: `RosterSpec => []RosterTypeOK`;
- `PlacesDistinct`: `RosterSpec => []QueueTimesDistinct`;
- `NeverOvertaken`: `RosterSpec => ConfirmedNeverOvertaken`;
- `KeepsMainPlace`: `RosterSpec => ConfirmedKeepsMainPlace`.

`RosterTypeOK /\ QueueTimesDistinct` is inductive. Distinct places alone is not inductive
without the types (a signup time must be comparable with the others), and the
action properties need distinct places in the state before the step: only then
is "who stands before me" a strict order that a shift or a swap maps to the order of the new
times. `NeverOvertaken` compares, for each operation, the pair of a waiting and a confirmed
player before and after. `KeepsMainPlace` follows from it: the players before a confirmed
member of the main roster after a step were before it already, hence are not more than
before (`FS_Subset`), so its position does not grow.

`DynamoStore_proofs` proves, for any number of processes, games and people, any calls, any
number of attempts and any limit of a transaction:

- `Invariant`: `Spec => []IInv`;
- `UniqueValuesStay`: `Spec => []ValuesAreUnique`;
- `UpdatesAreKept`: `Spec => NoLostUpdate`;
- `MemoryImplemented`: `Spec => ImplementsMemory`, the refinement of `AtomicEvents`.

`IInv` is `TypeOK /\ Current /\ IdsSound /\ LocksMatch`: in `TypeOK`, items and what calls hold of them are
absent exactly if they have no revision; `LocksMatch` says that the lock of a value names the game that has it; `Current`
that an item a call has seen is, unless it was deleted in between, stored with at least the revision seen, and with the
contents seen if the revision is still the same; `IdsSound` that a game has no row
before it is created, has one from then until its deletion begins, and that no call creates it from then on. `ValuesAreUnique` is not inductive: whether
a new value is free is decided by the locks, so a step preserves it only because the locks are
those of the rows. `Current` is what a condition on a revision is worth: with it an accepted transaction
has worked on the rows of the moment it commits, which gives `NoLostUpdate` and, method by method, the step of
`AtomicEvents`. Revisions start again at 1 after a deletion, so `Current` has to remember deleted
items (`outdated`); for a game's row that cannot happen, because it is not created again after its deletion (`InItsLife`), and the refinement needs no exception.
For the two methods that ask for other holders of a chat the proof also needs the locks, since what they have read
of the index may be old: a chat that is taken is refused by its lock whatever the index said.

`OrderedMutations_proofs` proves, for any games, players, conflicts of times, commands and failed attempts:

- `Structured`: `Spec => []Structure`;
- `OneConfirmation`: `Spec => []OneConfirmedPerDate`, when `"unarchive" \notin Kinds`. With it the property is false:
  section 3.

`Structure` is the bookkeeping all else about commands rests on: each waits in the group `queue_group_id` names,
operation ids are distinct, and no row or record carries the id of an operation that is not at the head of its group.
`OneConfirmedPerDate` alone is not inductive: the write of a confirmation looks at no other row, only at
`replaced`, which the attempt has read round trips ago. The strengthening says that until then every conflicting
game that is confirmed is in `replaced` (`RivalsAreKnown`). It holds because a player's confirmations
are ordered in a group of their own and nothing else makes a row confirmed. `GivenUp` says that a row the operation has already
touched in another game is not confirmed: with it the repetition of an attempt, for which `last_operation_id` hides the row, leaves
nothing confirmed either.

The same module proves about the FIFO groups of the games, when `"confirm" \notin Kinds`:

- `AppliedStaysAccepted`: `Spec => []AppliedIsNeverRefused`;
- `QueuesStayDistinct`: `Spec => []QueueTimesDistinct`;
- `RosterIsImplemented`: `Spec => ImplementsRoster`, the refinement of `Roster`, when also `Times = Nat`;
- `EverybodyMovedIsTold`: `Spec => MovesAreTold`.

The hypothesis on `Kinds` leaves out the one command that works on a game from another group; with it the first and the last property are
false (section 3). The one on `Times` gives the queue times without a last one, as
timestamps are: a set of times that ends stops a sift in the model and not in the code. The inductive invariant is `Structure /\ OneAtATime`. What an attempt has
read lies round trips back when it writes, so `OneAtATime` says of the head of each group that it is still true: the
time of a signup is free, the shift of a sift fits, the player to swap with is the one who would be
chosen now (`Ready`). A command that has begun or taken effect would not be refused if its checks were made again
(`Admitted`, with `Rejected` for the checks); for a promotion, whose write makes its own condition false, that is because the
snapshot of the players to tell already names the swap (`Swapped`) and no command of the group intervenes. Commands
of other groups touch other games. A write is then the operation of `Roster` on
current data, and the repetition of an attempt finds its mark (`MarksAreApplied`) and changes nothing. For the notices `InTold` adds that whatever the operation at the head has moved is named by the snapshot or by the record of
a promotion, and that an attempt that is not denied has still to send
what these owe, or has sent it. Denied attempts are excepted in the first and the last property; nothing
else is. The places of
the starting registrations are distinct and they carry no operation id, as `OrderedMutationsAssumption` says.

`Queues_proofs` also proves of `OrderedQueue`, for any commands, groups, workers, batches and failures:

- `OrderInvariant`: `Spec => []OrderInv`;
- `BacklogWakesWorker`: `Spec => []BacklogKeepsWakeup`, when `~StaleCounters`;
- `GroupsImplemented`: `Spec => ImplementsGroups`, the refinement of `CommandGroups`.

`OrderInv` says that one worker holds the messages of a group and that its batch holds, of a group in which nothing has failed,
the front of that group without gaps; so a command that is tried is the first of its group. `WakeupLeft` adds a
kick, a worker that has not begun to acknowledge, or a publisher not yet done while there is a backlog. `~StaleCounters` is
that the two approximate counters together miss no message; the table of section 3 shows what happens without.

`Background_proofs` proves, for any number of jobs, attempts, deliveries and failures, when `~Late` (an
invocation has ended before its generation is six minutes old):

- `Invariant`: `Spec => []IInv`;
- `Serialized`: `Spec => []OneReplacementAtATime`;
- `MarkerFollowsDisk`: `Spec => []MarkerIsOnDisk`;
- `SuccessIsTrue`: `Spec => []SuccessMeansUploaded`.

With `~Late` a lock that is taken over belongs to nobody who still runs, so the last version of the lock names the only job at work
(`LockHeld`), and what that job has read of the marker stays true until it writes its own (`MarkerKnown`). A staged workbook is
removed only when the marker has reached it or its job was given up (`StagedUntilSettled`).

It also proves of `ScheduledLifecycle`, for any masters, parallel dialogues, hours, commands and failures:

- `LifecycleInvariant`: `LifecycleSpec => []LifecycleInv`;
- `BegunStaysFixed`: `LifecycleSpec => BegunClosingIsFixed`;
- `CancelledNeverCloses`: `LifecycleSpec => CancelledClosingClosesNothing`;
- `CompletedIsComplete`: `LifecycleSpec => CompletionIsComplete`.

The last stage of a closing takes several round trips: archive, tell the masters one after the other, complete. What the first
has done stays done because the game's own group alone takes the game in and out of the archive
(`SetSound`, `CommandsPlaced`), and the plan stays in force because nothing but the completion touches the plan of a closing that has
begun (`FinalizeSound`). Before it has begun the write of the first stage may find another plan than the
one checked: none of these theorems excludes it, and `closing_moved` shows it.

`PlayerDialogue_proofs` proves, for any games, lists, messages, overlapping invocations, changes by masters and failures:

- `Invariant`: `Spec => []IInv`;
- `ContextIsKept`: `Spec => []DialogueHasItsContext`;
- `AskedBeforeReplaced`: `Spec => []ReplacementWasAsked`;
- `AcceptedMeansPublished`: `Spec => []AcceptedIsPublished`;
- `OldButtonsAreRefused`: `Spec => []OldButtonIsNotAWish`.

A row overwritten by an overlapping invocation is an older row, so the invariant says of every row, stored or being decided
on, what its handler takes for granted, in terms of what has been put on the screen so far, which only grows.
`agreed` is a history variable: the pairs of games the player's row was asking about when a press of yes was taken in. The
invariant keeps it beside every row read since (`SaysYes`), so a command can only carry a pair that was agreed to.
A reply lost after the row was saved is why the question of `ReplacementWasAsked` is looked for among the lost replies too:
the player may never have seen it (`QuestionWasSeen` in section 3). `StartsAssumption` asks the same of the row an
instance begins with.

`ProfileDialogue_proofs` proves, for any names, edits, signups, changes by administrators, copies by the worker and failures:

- `Invariant`: `Spec => []IInv`;
- `ContextSuffices`: `Spec => []AnswersHaveTheirContext`;
- `PassStaysValid`: `Spec => []PassIsValid`;
- `RoleSurvives`: `Spec => []RoleIsKept`;
- `CompleteForGood`: `Spec => StaysComplete`.

One table of answers serves the dialogue about the whole profile and the seven about one field. `Collected` and `Edited` say for each
question, in the one and in the others, which keys the context holds when it is answered, and what of the pass the row
must hold for it. `PassIsValid` is not inductive alone: the pass of the whole dialogue is put together four questions
after its names were given, so that the context must say by then that they agree (`Agrees`); and changing
the citizenship to a foreigner's asks for a Latin name whose patronym is compared with what `"cyrillic"` kept of the row's.
`CompleteForGood` needs more than the turn's row: that it was complete when read if the row is now (only the gateway writes those
columns). `StartsAssumption`: an instance begins between two dialogues, with a valid pass.

`GameManagement_proofs` proves, for any profiles, finite persons, administrators, masters, games, messages, failures and moves of
players:

- `Invariant`: `Spec => []IInv`;
- `TokensHold`: `Spec => []TokenConfirmsItsTarget`;
- `RevocationIsComplete`: `Spec => []RevokedEverywhere`;
- `ChangesAreTold`: `Spec => []RoleChangeIsTold`;
- `ChangesAreMasters`: `Spec => OnlyMastersChangeGames`;
- `DeletedOnlyArchived`: `Spec => UnarchivedIsKept`.

A message is tried until it is answered, and each try decides anew what is left to do, from what is on record. `Records` says
that what a message has put on record is what its dialogue asked for. `TurnOK` says that the steps a turn
has left are the end of a plan that some dialogue makes, and what was true when that step was reached: a promotion adds the master only
after its grant was marked, a claim follows its notice, a revocation has still to clear each profile with an old role
(`Revoked`). A plan without a notice is only right for a message with nothing left to tell (`Settled`): its requests
were heard, or another message has changed the same person's rights. When the answer goes out, `Settled` becomes `AllTold`, which
is `RoleChangeIsTold`. `SameList` carries `TokenConfirmsItsTarget`: a token stands for one list and one message, and the id of
a message still to come is no token in use (`ListsOK`). Actors meet only on the record: every action is proved once for its own actor and
once for the others (`Beside...`). `StartsAssumption` asks of the rows and keyboards an instance begins with what
the dialogues leave behind: tokens of past messages, questions with the choice they are about.

`GameCreation_proofs` proves, for any people, days, hours and ids, any failures and changes of roles, with and
without the mirror and on both backends:

- `Invariant`: `Spec => []IInv`;
- `PlansAreInOrder`: `Spec => []PlanInOrder`;
- `OneGameIsMade`: `Spec => []OneGamePerDialogue`;
- `MastersAreTold`: `Spec => []MasterIsTold`.

`PlanSound` is what the answers have settled by the time the creating message can be sent; `RowSound` says which part of it holds
at each question, and `StartsAssumption` asks it of the row an instance begins with. From there the
plan goes unchanged to the turn, the job and the game, so it does not matter which of
them makes the game (`JobSound`). `OneGamePerDialogue` is not inductive: games are made by turns and by completions. `OrdersCounted`
counts the uploads ordered instead, one more than the turns that failed only once a turn has ordered its own and is
not lost (`Settled`), and every game has an upload. `TellingInv` follows a game with a chosen master from the turn that
stores it to the telling: until then the turn has it, or the row does, or a turn failed, or the press was refused; that is `MasterIsTold`. That `Taken` adds up two answers is proved
from the definition of the fold (`TakenOfTwo`); no induction is needed for two.

The assumptions are the named `ASSUME`s of the modules proved about, which TLC evaluates in their runs.

Only model-checked: liveness (the prover does not do fairness with `ENABLED`), the
queues and the notices of `OrderedMutations` while confirmations run beside a game's group.

## 5. Not modelled

- Games with an additional question in `OrderedMutations` and `Roster` (`answer_queue_at`, `UPDATE_ANSWER`): a queue
  per answer exists in the memory and DynamoDB adapters and not
  in the YDB adapter (`docs/registration-question-todo.md`). The dialogues about the question are modelled.
- `UPDATE_EVENT_DETAILS`, `UPDATE_QUESTION` and the notifications beyond their order in `GameManagement`.
- The rendering of spreadsheets, the messengers' interfaces, authentication, the gate for maintenance.
- The planned opening of registration and its notices, broadcasts, chat invitations, the uploader on AWS.
- In `GameCreation`: two presses of the creating button at once (each makes a game), a completion that comes after its game
  was deleted (it makes the game again, `UC:199`; `DynamoStore` assumes that away), notices and passes that a completion repeated after its
  `events.create` leaves out (`UC:212`), the last check of rights (the creating message makes none, `AC:358`).
- In `DynamoStore`: leaders written beside a deletion (items that are only read carry no condition), the deduplication of updates.
- In the dialogues: what is shown but not stored. A lost reply after the row was saved leaves the user without the
  question (`CC:86`); which waiting players a master was shown (`AR:858` compares their number); a question edited by
  two masters (`conversation_questions.py:118` writes it whole); a name typed to delete a game that has left the archive meanwhile
  orders its archiving (`AD:1083`).
- The deduplication window of the FIFO queue: the model never forgets an id (`YMQ:32`).
- A database call that outlives the deadline of its worker (`ydb/common.py:163` cancels
  the waiting, not the query).
- The order of rendering and staging of a workbook (`yandex_disk/uploader.py:110`), and what takes up a job that the
  platform has given up (`GO:958`).
- Times of day: instants are whole hours, as the timer's (`0 * * * ? *`).

## 6. Plan

Models, in this order: `RegistrationOpenings` (overlapping invocations of the notifier beside a
master's new plan: nobody is told twice, nobody is left out, an old plan opens nothing); `StatusBroadcasts` (markers and
at-least-once delivery); `ChatBinding`; the queues of answers in `RegistrationRows`.
