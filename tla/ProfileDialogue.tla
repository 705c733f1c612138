--------------------------- MODULE ProfileDialogue ---------------------------
(***************************************************************************)
(* One player's profile: the dialogue that collects and edits it           *)
(* (conversation_profiles.py), the row of `users` it is kept in            *)
(* (ydb/user_repository.py), the commands with which the worker derives    *)
(* the player's experience from the attendance statistics and copies the   *)
(* profile to the registrations (statistics.py, registration_services.py,  *)
(* ordered_mutations.py), and the roles that administrators write to the   *)
(* same row.                                                               *)
(*                                                                         *)
(* The gateway loads the row at the start of a message and writes it back  *)
(* as a whole at the end; when the profile is complete it also writes it   *)
(* before it publishes SYNC_PROFILE.  A message that fails is delivered    *)
(* again.  Names, phones and addresses are left out except for the full    *)
(* name and whether it has a patronym, which the pass must have in both    *)
(* alphabets or in neither.                                                *)
(***************************************************************************)
EXTENDS Naturals, Sequences, FiniteSets

CONSTANTS
    Names,        \* surname and name
    NoName,
    Telegram,     \* the platform of the player; the other one is VK
    Starts,       \* profiles with which an instance begins
    MaxQueue,     \* bound: commands waiting in a group
    MaxEdits,     \* bound: edits of the profile
    MaxGrants,    \* bound: games added to the statistics, changes of the role
    MaxFailures   \* bound: failed messages

ASSUME ProfileDialogueAssumption ==
    /\ NoName \notin Names /\ Telegram \in BOOLEAN
    /\ MaxQueue \in Nat /\ MaxEdits \in Nat /\ MaxGrants \in Nat /\ MaxFailures \in Nat

VARIABLES
    user,       \* the row of `users`
    attended,   \* names in the attendance statistics
    message,    \* the message being delivered, if any
    turn,       \* what the gateway does with it
    announced,  \* its SYNC_PROFILE has been published: the queue drops a second one
    syncs,      \* SYNC_PROFILE commands of the player's group: the names they carry
    game,       \* commands of the game's group: signups, copies of the profile
    row,        \* the player's registration: name and experience
    copying,    \* what the copy that is being made has read
    granted,    \* history: the experience last written by the worker
    role,       \* history: the role last written by an administrator
    overtaken,  \* history: a profile was synchronised while a signup waited
    edits, grants, failures

vars == <<user, attended, message, turn, announced, syncs, game, row, copying, granted, role, overtaken,
          edits, grants, failures>>

worker == <<syncs, announced, game, row, copying, attended, granted, overtaken>>

-----------------------------------------------------------------------------
Roles == {"none", "gamemaster"}

Optional == Names \cup {NoName}

\* pass_details: whether the Cyrillic and the Latin name have a patronym.
Details == [given : BOOLEAN, foreigner : BOOLEAN, cyrillic : BOOLEAN, latin : BOOLEAN]

NoDetails == [given |-> FALSE, foreigner |-> FALSE, cyrillic |-> FALSE, latin |-> FALSE]

Keys == {"cyrillic", "full_name", "needs_pass", "foreigner", "latin", "phone", "email",
         "contact", "crossplay"}

Fields == {"name", "nickname", "contact", "crossplay", "pass", "phone", "email", "citizenship", "latin-name"}

\* dialog_context: `keys` are the keys it has.
Context == [flow : {"none", "initial", "reset", "field"}, field : Fields \cup {"none"},
            keys : SUBSET Keys, name : Optional, cyrillic : BOOLEAN, latin : BOOLEAN,
            foreigner : BOOLEAN, pass : BOOLEAN]

NoContext == [flow |-> "none", field |-> "none", keys |-> {}, name |-> NoName,
              cyrillic |-> FALSE, latin |-> FALSE, foreigner |-> FALSE, pass |-> FALSE]

States == {"IDLE", "FULL_NAME", "NEEDS_PASS", "FOREIGNER", "LATIN", "PHONE", "EMAIL",
           "CONTACT", "CROSSPLAY", "NICKNAME"}

User == [name : Optional, crossplay : BOOLEAN, contact : BOOLEAN,
         pass : {"unknown", "needed", "not_needed"}, details : Details,
         experience : BOOLEAN, role : Roles, state : States, context : Context]

NewUser == [name |-> NoName, crossplay |-> FALSE, contact |-> FALSE, pass |-> "unknown",
            details |-> NoDetails, experience |-> FALSE, role |-> "none",
            state |-> "IDLE", context |-> NoContext]

\* profile_complete
Complete(u) ==
    /\ u.name # NoName /\ u.crossplay /\ u.pass # "unknown"
    /\ u.pass = "needed" => u.details.given
    /\ Telegram => u.contact

\* What a player sends: a button, or a text that answers the question asked.
Kinds == {"cancel", "profile", "reset", "wrong", "yes", "no", "skip", "fullname", "latin",
          "text"} \cup Fields

Message == [kind : Kinds, name : Optional, patronym : BOOLEAN]

Press(kind) == [kind |-> kind, name |-> NoName, patronym |-> FALSE]

NoMessage == Press("none")

Turn == [step : {"free", "decide", "store", "publish", "save"}, user : User, names : SUBSET Names]

FreeTurn == [step |-> "free", user |-> NewUser, names |-> {}]

\* A signup carries the name and the experience of the profile; a copy reads them.
Command == [kind : {"enlist", "update"}, name : Optional, experience : BOOLEAN]

NoCopy == [kind |-> "update", name |-> NoName, experience |-> FALSE]

TypeOK ==
    /\ user \in User
    /\ attended \subseteq Names
    /\ message \in Message \cup {NoMessage}
    /\ turn \in Turn /\ announced \in BOOLEAN
    /\ syncs \in Seq(SUBSET Names) /\ Len(syncs) <= MaxQueue
    /\ game \in Seq(Command)
    /\ row \in [name : Optional, experience : BOOLEAN]
    /\ copying \in Command
    /\ granted \in BOOLEAN /\ role \in Roles /\ overtaken \in BOOLEAN
    /\ edits \in 0 .. MaxEdits /\ grants \in 0 .. MaxGrants /\ failures \in 0 .. MaxFailures

Init ==
    /\ user \in Starts
    /\ attended \in SUBSET Names
    /\ message = NoMessage /\ turn = FreeTurn /\ announced = FALSE
    /\ syncs = <<>> /\ game = <<>> /\ row = [name |-> NoName, experience |-> FALSE]
    /\ copying = NoCopy
    /\ granted = user.experience /\ role = user.role /\ overtaken = FALSE
    /\ edits = 0 /\ grants = 0 /\ failures = 0

-----------------------------------------------------------------------------
(***************************************************************************)
(* The player                                                              *)
(***************************************************************************)

\* The buttons of the menu of the profile; the fields of a pass are offered
\* to those who have one.
Menu(u) ==
    IF ~Complete(u)
    THEN {"profile"}
    ELSE {"reset", "name", "nickname", "contact", "crossplay", "pass"}
         \cup (IF u.details.given THEN {"phone", "email", "citizenship"} ELSE {})
         \cup (IF u.details.given /\ u.details.foreigner THEN {"latin-name"} ELSE {})

FullNames(kind) == {[kind |-> kind, name |-> n, patronym |-> p] : n \in Names, p \in BOOLEAN}

LatinNames == {[kind |-> "latin", name |-> NoName, patronym |-> p] : p \in BOOLEAN}

AnswersTo(u) ==
    {Press("cancel"), Press("wrong")} \cup
    CASE u.state = "IDLE" -> {Press(k) : k \in Menu(u)}
      [] u.state = "FULL_NAME" -> FullNames("fullname")
      [] u.state = "LATIN" -> LatinNames
      [] u.state \in {"NEEDS_PASS", "FOREIGNER", "CROSSPLAY"} -> {Press("yes"), Press("no")}
      [] u.state \in {"PHONE", "EMAIL", "NICKNAME"} -> {Press("text")}
      [] u.state = "CONTACT" -> {Press("text"), Press("skip")}

Send ==
    /\ turn.step = "free" /\ Len(syncs) < MaxQueue
    /\ message' \in AnswersTo(user)
    /\ edits' = IF message'.kind \in Fields \cup {"profile", "reset"} THEN edits + 1 ELSE edits
    /\ edits' <= MaxEdits
    /\ turn' = [FreeTurn EXCEPT !.step = "decide", !.user = user]
    /\ UNCHANGED <<user, worker, role, grants, failures>>

-----------------------------------------------------------------------------
(***************************************************************************)
(* The gateway                                                             *)
(***************************************************************************)
Answered(kinds) == turn.step = "decide" /\ message.kind \in kinds

In(state) == turn.step = "decide" /\ turn.user.state = state /\ message.kind # "cancel"

Context0 == turn.user.context

Editing == Context0.flow = "field"

Decide(u, step, names) ==
    /\ turn' = [step |-> step, user |-> u, names |-> names]
    /\ UNCHANGED <<user, message, worker, role, edits, grants, failures>>

Reply(u) == Decide(u, "save", {})

\* The next question, or the same one again.
Ask(state, context) == Reply([turn.user EXCEPT !.state = state, !.context = context])

AskAgain == Reply(turn.user)

\* _complete_profile_edit and the end of _finish_profile.
Complete1(u, names) == Decide(u, "store", names \ {NoName})

Cancel ==
    /\ Answered({"cancel"})
    /\ Ask("IDLE", NoContext)

\* A text that the state does not accept.
Wrong == Answered({"wrong"}) /\ AskAgain

Begin ==
    /\ turn.user.state = "IDLE" /\ Answered({"profile", "reset"})
    /\ Ask("FULL_NAME", [NoContext EXCEPT !.flow = IF Complete(turn.user) THEN "reset" ELSE "initial"])

FirstQuestion ==
    [f \in Fields |->
        CASE f = "name" -> "FULL_NAME"
          [] f = "pass" -> "NEEDS_PASS"
          [] f = "citizenship" -> "FOREIGNER"
          [] f = "latin-name" -> "LATIN"
          [] f = "phone" -> "PHONE"
          [] f = "email" -> "EMAIL"
          [] f = "contact" -> "CONTACT"
          [] f = "crossplay" -> "CROSSPLAY"
          [] f = "nickname" -> "NICKNAME"]

\* Variant: the context starts empty.
FieldContextEmpty(u, f) == [NoContext EXCEPT !.flow = "field", !.field = f]

\* The context starts with the pass, or with the name that the profile has.
FieldContext(u, f) ==
    LET d == u.details IN
    [NoContext EXCEPT
        !.flow = "field", !.field = f,
        !.keys = IF d.given
                 THEN {"cyrillic", "foreigner", "phone", "email"} \cup (IF d.foreigner THEN {"latin"} ELSE {})
                 ELSE {"cyrillic"},
        !.cyrillic = d.cyrillic, !.latin = d.latin, !.foreigner = d.foreigner]

BeginField ==
    /\ turn.user.state = "IDLE" /\ Answered(Fields)
    /\ LET f == message.kind
           refused == \/ f \in {"phone", "email", "citizenship", "latin-name"} /\ ~turn.user.details.given
                      \/ f = "latin-name" /\ ~turn.user.details.foreigner
       IN  Ask(IF refused THEN "IDLE" ELSE FirstQuestion[f], FieldContext(turn.user, f))

With(keys) == [Context0 EXCEPT !.keys = @ \cup keys]

Named == [With({"cyrillic", "full_name"}) EXCEPT !.name = message.name, !.cyrillic = message.patronym]

\* Variant: a foreigner's names need not agree.
NamesAgreeAlways(cyrillic, latin) == TRUE

NamesAgree(cyrillic, latin) == cyrillic = latin

FullName ==
    LET u == turn.user
        named == [u EXCEPT !.name = message.name,
                           !.details.cyrillic = IF u.details.given THEN message.patronym ELSE FALSE]
    IN
    /\ In("FULL_NAME") /\ Answered({"fullname"})
    /\ \/ ~Editing /\ Ask("NEEDS_PASS", Named)
       \/ /\ Editing
          /\ \/ /\ u.details.foreigner /\ ~NamesAgree(message.patronym, u.details.cyrillic)
                /\ Ask("LATIN", Named)
             \/ /\ ~(u.details.foreigner /\ ~NamesAgree(message.patronym, u.details.cyrillic))
                /\ Complete1([named EXCEPT !.context = Named], {u.name, message.name})

\* The row keeps the earlier choice until the pass has been described.
PassAsked(u) == u

NeedsPass ==
    LET u == turn.user IN
    /\ In("NEEDS_PASS")
    /\ \/ /\ ~Editing /\ Answered({"yes"})
          /\ Ask("FOREIGNER", [With({"needs_pass"}) EXCEPT !.pass = TRUE])
       \/ /\ ~Editing /\ Answered({"no"})
          /\ Ask("CONTACT", [With({"needs_pass"}) EXCEPT !.pass = FALSE])
       \/ /\ Editing /\ Answered({"no"})
          /\ Complete1([u EXCEPT !.pass = "not_needed", !.details = NoDetails], {u.name})
       \/ /\ Editing /\ Answered({"yes"}) /\ u.pass = "needed" /\ u.details.given
          /\ Complete1(u, {u.name})
       \/ /\ Editing /\ Answered({"yes"}) /\ ~(u.pass = "needed" /\ u.details.given)
          /\ Reply([PassAsked(u) EXCEPT !.state = "FOREIGNER"])

\* "yes" is Russian citizenship.
Citizenship ==
    LET u == turn.user
        foreigner == message.kind = "no"
        context == [With({"foreigner"}) EXCEPT !.foreigner = foreigner]
        whole == ~Editing \/ Context0.field = "pass"
    IN
    /\ In("FOREIGNER") /\ Answered({"yes", "no"})
    /\ \/ whole /\ Ask(IF foreigner THEN "LATIN" ELSE "PHONE", context)
       \/ ~whole /\ foreigner /\ ~u.details.foreigner /\ Ask("LATIN", context)
       \/ /\ ~whole /\ ~(foreigner /\ ~u.details.foreigner)
          /\ Complete1([u EXCEPT !.details.foreigner = foreigner,
                                 !.details.latin = foreigner /\ @, !.context = context], {u.name})

LatinName ==
    LET u == turn.user
        context == [With({"latin"} \cup (IF Editing THEN {"foreigner"} ELSE {}))
                        EXCEPT !.latin = message.patronym, !.foreigner = Editing \/ @]
        renamed == Context0.field = "name"
    IN
    /\ In("LATIN") /\ Answered({"latin"})
    /\ \/ ~NamesAgree(Context0.cyrillic, message.patronym) /\ AskAgain
       \/ /\ NamesAgree(Context0.cyrillic, message.patronym)
          /\ \/ (~Editing \/ Context0.field = "pass") /\ Ask("PHONE", context)
             \/ /\ Editing /\ Context0.field # "pass"
                /\ Complete1([u EXCEPT !.name = IF renamed THEN Context0.name ELSE @,
                                       !.details = [given |-> TRUE, foreigner |-> TRUE,
                                                    cyrillic |-> Context0.cyrillic,
                                                    latin |-> message.patronym],
                                       !.context = context],
                             {u.name} \cup (IF renamed THEN {Context0.name} ELSE {}))

Phone ==
    /\ In("PHONE") /\ Answered({"text"})
    /\ \/ (~Editing \/ Context0.field = "pass") /\ Ask("EMAIL", With({"phone"}))
       \/ Editing /\ Context0.field # "pass" /\ Complete1(turn.user, {turn.user.name})

\* _pass_details_from_context
Described(context) ==
    [given |-> TRUE, foreigner |-> context.foreigner, cyrillic |-> context.cyrillic,
     latin |-> context.foreigner /\ context.latin]

Email ==
    /\ In("EMAIL") /\ Answered({"text"})
    /\ \/ ~Editing /\ Ask("CONTACT", With({"email"}))
       \/ /\ Editing /\ Context0.field = "pass"
          /\ Complete1([turn.user EXCEPT !.pass = "needed", !.details = Described(Context0),
                                         !.context = With({"email"})], {turn.user.name})
       \/ Editing /\ Context0.field # "pass" /\ Complete1(turn.user, {turn.user.name})

\* Only a VK player may skip the contact.
Contact ==
    /\ In("CONTACT") /\ Answered({"text", "skip"})
    /\ \/ Telegram /\ message.kind = "skip" /\ AskAgain
       \/ /\ ~(Telegram /\ message.kind = "skip")
          /\ \/ ~Editing /\ Ask("CROSSPLAY", With({"contact"}))
             \/ Editing /\ Complete1([turn.user EXCEPT !.contact = TRUE], {turn.user.name})

Nickname == In("NICKNAME") /\ Answered({"text"}) /\ Complete1(turn.user, {turn.user.name})

\* _finish_profile
Finished(u, context) ==
    [u EXCEPT !.name = context.name, !.crossplay = TRUE, !.contact = TRUE,
              !.pass = IF context.pass THEN "needed" ELSE "not_needed",
              !.details = IF context.pass THEN Described(context) ELSE NoDetails]

Crossplay ==
    LET u == turn.user IN
    /\ In("CROSSPLAY") /\ Answered({"yes", "no"})
    /\ \/ Editing /\ Complete1(u, {u.name})
       \/ /\ ~Editing
          /\ Complete1(Finished([u EXCEPT !.context = With({"crossplay"})], Context0),
                       {u.name, Context0.name})

-----------------------------------------------------------------------------
(***************************************************************************)
(* Writing and publishing                                                  *)
(***************************************************************************)

\* Variant: the columns of the role are written with the others.
SavedWhole(u) == u

\* YdbUserRepository.save: every column but those of the role.
Saved(u) == [u EXCEPT !.role = user.role]

\* Variant: the command is published before the row is written.
StoreLater ==
    /\ turn.step = "store"
    /\ turn' = [turn EXCEPT !.step = "publish"]
    /\ UNCHANGED <<user, message, worker, role, edits, grants, failures>>

\* users.save before enqueue_profile_sync; the dialogue is not yet over.
Store ==
    /\ turn.step = "store"
    /\ user' = Saved(turn.user)
    /\ turn' = [turn EXCEPT !.step = "publish"]
    /\ UNCHANGED <<message, worker, role, edits, grants, failures>>

Publish ==
    /\ turn.step = "publish"
    /\ syncs' = IF announced THEN syncs ELSE Append(syncs, turn.names)
    /\ announced' = TRUE
    /\ turn' = [turn EXCEPT !.step = "save", !.user.state = "IDLE", !.user.context = NoContext]
    /\ UNCHANGED <<user, message, game, row, copying, attended, granted, overtaken, role, edits, grants, failures>>

Save ==
    /\ turn.step = "save"
    /\ user' = Saved(turn.user)
    /\ message' = NoMessage /\ turn' = FreeTurn /\ announced' = FALSE
    /\ UNCHANGED <<syncs, game, row, copying, attended, granted, overtaken, role, edits, grants, failures>>

\* The message is delivered again, to an invocation that loads the row again.
\* Before Store nothing has changed, and the same message is decided again.
Fail ==
    /\ turn.step \in {"publish", "save"} /\ failures < MaxFailures
    /\ failures' = failures + 1
    /\ turn' = [FreeTurn EXCEPT !.step = "decide", !.user = user]
    /\ UNCHANGED <<user, message, worker, role, edits, grants>>

\* An administrator grants or takes a role.
SetRole ==
    /\ grants < MaxGrants /\ grants' = grants + 1
    /\ role' \in Roles \ {role}
    /\ user' = [user EXCEPT !.role = role']
    /\ UNCHANGED <<message, turn, worker, edits, failures>>

\* The player signs up in another dialogue, on the other platform.
Enlist ==
    /\ Complete(user) /\ row.name = NoName /\ game = <<>>
    /\ game' = <<[kind |-> "enlist", name |-> user.name, experience |-> user.experience]>>
    /\ UNCHANGED <<user, message, turn, announced, syncs, row, copying, attended, granted, overtaken, role,
                   edits, grants, failures>>

-----------------------------------------------------------------------------
(***************************************************************************)
(* The worker                                                              *)
(***************************************************************************)
UpdateCommand == [kind |-> "update", name |-> NoName, experience |-> FALSE]

\* enqueue_profile_updates: a command for the game if the player has a row.
WithUpdate(waiting) == IF row.name = NoName THEN waiting ELSE Append(waiting, UpdateCommand)

Grant(experienced) ==
    /\ user' = [user EXCEPT !.experience = experienced]
    /\ granted' = experienced
    /\ game' = WithUpdate(game)

\* sync_profile
Sync ==
    /\ syncs # <<>> /\ Len(game) < MaxQueue
    /\ Grant(Head(syncs) \cap attended # {})
    /\ syncs' = Tail(syncs)
    /\ overtaken' = (overtaken \/ \E i \in DOMAIN game : game[i].kind = "enlist")
    /\ UNCHANGED <<message, turn, announced, row, copying, attended, role, edits, grants, failures>>

\* Another game, in which the player was confirmed, is added to the statistics.
AddGame ==
    /\ grants < MaxGrants /\ grants' = grants + 1
    /\ Complete(user) /\ Len(game) < MaxQueue
    /\ attended' = attended \cup {user.name}
    /\ Grant(TRUE)
    /\ UNCHANGED <<message, turn, announced, syncs, row, copying, overtaken, role, edits, failures>>

\* ENLIST writes the name that the command carries.
ApplyEnlist ==
    /\ game # <<>> /\ Head(game).kind = "enlist"
    /\ row' = [name |-> Head(game).name, experience |-> Head(game).experience]
    /\ game' = Tail(game)
    /\ UNCHANGED <<user, message, turn, announced, syncs, copying, attended, granted, overtaken, role, edits, grants, failures>>

\* UPDATE_PROFILE reads the profile, and writes the row in a second step.
ReadProfile ==
    /\ game # <<>> /\ Head(game).kind = "update" /\ copying = NoCopy
    /\ Complete(user)
    /\ copying' = [NoCopy EXCEPT !.name = user.name, !.experience = user.experience]
    /\ UNCHANGED <<user, message, turn, announced, syncs, game, row, attended, granted, overtaken, role, edits, grants, failures>>

WriteProfile ==
    /\ copying # NoCopy
    /\ row' = [name |-> copying.name, experience |-> copying.experience]
    /\ copying' = NoCopy
    /\ game' = Tail(game)
    /\ UNCHANGED <<user, message, turn, announced, syncs, attended, granted, overtaken, role, edits, grants, failures>>

-----------------------------------------------------------------------------
Gateway ==
    \/ Cancel \/ Wrong \/ Begin \/ BeginField
    \/ FullName \/ NeedsPass \/ Citizenship \/ LatinName \/ Phone \/ Email \/ Contact \/ Nickname \/ Crossplay
    \/ Store \/ Publish \/ Save

Worker == Sync \/ ApplyEnlist \/ ReadProfile \/ WriteProfile

Next == Send \/ Gateway \/ Fail \/ SetRole \/ Enlist \/ AddGame \/ Worker

Spec == Init /\ [][Next]_vars

\* Messages are delivered until they are handled, and the queue until it is empty.
Fairness ==
    /\ WF_vars(Gateway)
    /\ WF_vars(Sync)
    /\ WF_vars(ApplyEnlist \/ ReadProfile \/ WriteProfile)

FairSpec == Spec /\ Fairness

-----------------------------------------------------------------------------
(***************************************************************************)
(* Properties                                                              *)
(***************************************************************************)

\* What the handler of a row's state reads without a default.
Reads(u) ==
    LET c == u.context
        latin == IF c.foreigner THEN {"latin"} ELSE {}
    IN
    CASE u.state = "CROSSPLAY" /\ c.flow # "field" ->
            {"full_name", "needs_pass", "contact"}
            \cup (IF c.pass THEN {"cyrillic", "foreigner", "phone", "email"} \cup latin ELSE {})
      [] u.state = "EMAIL" /\ c.field = "pass" -> {"cyrillic", "foreigner", "phone"} \cup latin
      [] u.state = "LATIN" -> {"cyrillic"} \cup (IF c.field = "name" THEN {"full_name"} ELSE {})
      [] OTHER -> {}

\* No answer meets a missing key of the context, or an assertion that the pass
\* is there (_profile_field_step, _finish_profile), whatever route through the
\* fields has led to the question, and also when the message is handled twice.
AnswersHaveTheirContext ==
    \A u \in {user, turn.user} :
        /\ Reads(u) \subseteq u.context.keys
        /\ u.state \in {"PHONE", "EMAIL", "FOREIGNER", "LATIN"} /\ u.context.flow = "field"
                /\ u.context.field # "pass" => u.details.given

\* No edit builds a pass that PassDetails refuses (domain/models.py:270): the
\* names of a foreigner have a patronym in both alphabets or in neither.
PassIsValid ==
    \A u \in {user, turn.user} :
        /\ u.details.given /\ u.details.foreigner => u.details.cyrillic = u.details.latin
        /\ u.pass = "not_needed" => ~u.details.given

\* A complete profile stays complete, however its fields are edited and
\* wherever an edit stops: UPDATE_PROFILE refuses an incomplete one.
StaysComplete == [][Complete(user) => Complete(user')]_vars

\* Messages do not undo what administrators write to the row.
RoleIsKept == user.role = role

\* The registration ends up with the name of the profile, unless the profile
\* was synchronised while the signup was still waiting: README.md:139, "queues
\* an ordered projection update for every unarchived game".
RowFollowsProfile ==
    row.name # NoName /\ row.name # user.name ~> row.name = user.name \/ overtaken

\* The same without the exception.
RowAlwaysFollowsProfile == row.name # NoName /\ row.name # user.name ~> row.name = user.name

\* Messages do not undo the experience that the worker has written
\* (README.md:139, "immediately grants experience").
ExperienceIsKept == user.experience = granted
=============================================================================
