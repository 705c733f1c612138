------------------------ MODULE ProfileDialogue_proofs ------------------------
(***************************************************************************)
(* Proofs about ProfileDialogue, for any names, messages, signups, changes *)
(* by administrators, overlapping copies by the worker and failures.       *)
(*                                                                         *)
(* One table of answers serves the dialogue about the whole profile and    *)
(* the seven about one field, which share questions; each question trusts  *)
(* what the context is to hold.  The invariant says for every question of  *)
(* either kind what has been collected before it, and what the row itself  *)
(* must hold for it (`Collected`, `Edited`), of the row that is saved and  *)
(* of the one a turn is deciding about.                                    *)
(***************************************************************************)
EXTENDS ProfileDialogue, SequenceTheorems, TLAPS

\* What the answers have put into the context agrees with the names' rule.
Agrees(c) == c.foreigner => "latin" \in c.keys /\ c.cyrillic = c.latin

\* The pass of a profile is one that PassDetails accepts.
GoodPass(u) ==
    /\ u.details.foreigner => u.details.given /\ u.details.cyrillic = u.details.latin
    /\ u.pass = "not_needed" => ~u.details.given

\* What the questions about the whole profile have collected before each.
Collected(u) ==
    LET c == u.context
        whole == c.pass /\ u.state \in {"CONTACT", "CROSSPLAY"}
    IN  /\ c.field = "none" /\ u.state # "NICKNAME"
        /\ u.state # "FULL_NAME" => {"cyrillic", "full_name"} \subseteq c.keys
        /\ u.state \notin {"FULL_NAME", "NEEDS_PASS"} => "needs_pass" \in c.keys
        /\ u.state \in {"FOREIGNER", "LATIN", "PHONE", "EMAIL"} => c.pass
        /\ u.state = "LATIN" => "foreigner" \in c.keys /\ c.foreigner
        /\ u.state \in {"PHONE", "EMAIL"} \/ whole => "foreigner" \in c.keys /\ Agrees(c)
        /\ u.state = "EMAIL" \/ whole => "phone" \in c.keys
        /\ whole => "email" \in c.keys
        /\ u.state = "CROSSPLAY" => "contact" \in c.keys

\* What the questions about one field have collected, and found in the row.
Edited(u) ==
    LET c == u.context
    IN  /\ "cyrillic" \in c.keys
        /\ u.state = "NEEDS_PASS" => c.field = "pass"
        /\ u.state = "FOREIGNER" => c.field \in {"pass", "citizenship"}
        /\ u.state \in {"PHONE", "EMAIL", "FOREIGNER", "LATIN"} /\ c.field # "pass" => u.details.given
        /\ u.state = "LATIN" /\ c.field = "name" => "full_name" \in c.keys
        /\ u.state \in {"PHONE", "EMAIL"} /\ c.field = "pass" => "foreigner" \in c.keys /\ Agrees(c)
        /\ u.state = "EMAIL" /\ c.field = "pass" => "phone" \in c.keys

Consistent(u) ==
    /\ GoodPass(u)
    /\ "full_name" \in u.context.keys => u.context.name \in Names
    /\ u.state # "IDLE" => IF u.context.flow = "field" THEN Edited(u) ELSE Collected(u)

\* A copy that is being made is of the command at the head of its queue.
CopyingHead == copying # NoCopy => game # <<>> /\ Head(game).kind = "update"

IInv ==
    /\ TypeOK
    /\ Consistent(user) /\ Consistent(turn.user)
    /\ message.kind = "fullname" => message.name \in Names
    /\ turn.step # "free" /\ Complete(user) => Complete(turn.user)
    /\ turn.step # "free" /\ ~announced => Len(syncs) < MaxQueue
    /\ CopyingHead

\* Where an instance begins: between two dialogues, with profiles that the
\* rules of the pass accept.
StartsAssumption ==
    \A u \in Starts : u \in User /\ u.state = "IDLE" /\ u.context = NoContext /\ GoodPass(u)

-----------------------------------------------------------------------------
\* A decision of the gateway: the row it is to write must be consistent, and
\* complete if the profile was.
LEMMA DecisionKeeps ==
    ASSUME IInv, turn.step = "decide", NEW u \in User, NEW step \in {"store", "save"},
           NEW names \in SUBSET Names, Consistent(u), Complete(turn.user) => Complete(u),
           Decide(u, step, names)
    PROVE  IInv'
<1>1. turn' \in Turn /\ turn'.user = u /\ turn'.step = step
  BY DEF Decide, Turn
<1>2. UNCHANGED <<user, attended, message, announced, syncs, game, row, copying, granted, role,
                  overtaken, edits, grants, failures>>
  BY DEF Decide, worker
<1>3. TypeOK'
  BY <1>1, <1>2 DEF IInv, TypeOK
<1>4. Consistent(user)' /\ Consistent(turn.user)'
  BY <1>1, <1>2 DEF IInv
<1>5. (turn.step # "free" /\ Complete(user) => Complete(turn.user))'
  BY <1>1, <1>2 DEF IInv
<1>6. CopyingHead'
  BY <1>2 DEF IInv, CopyingHead
<1> QED
  BY <1>1, <1>2, <1>3, <1>4, <1>5, <1>6 DEF IInv

\* The next question: what changes in the row is the state and the context.
LEMMA QuestionKeeps ==
    ASSUME IInv, turn.step = "decide", NEW state \in States, NEW context \in Context,
           "full_name" \in context.keys => context.name \in Names,
           \A u : /\ state # "IDLE"
                  /\ u.state = state /\ u.context = context /\ u.details = turn.user.details
                  => IF context.flow = "field" THEN Edited(u) ELSE Collected(u),
           Ask(state, context)
    PROVE  IInv'
<1> DEFINE v == turn.user
           u == [v EXCEPT !.state = state, !.context = context]
<1>1. v \in User /\ Consistent(v)
  BY DEF IInv, TypeOK, Turn
<1>2. /\ u \in User /\ u.state = state /\ u.context = context
      /\ u.name = v.name /\ u.crossplay = v.crossplay /\ u.contact = v.contact
      /\ u.pass = v.pass /\ u.details = v.details
  BY <1>1 DEF User
<1>3. Decide(u, "save", {})
  BY DEF Ask, Reply
<1> HIDE DEF u
<1>4. state # "IDLE" => IF context.flow = "field" THEN Edited(u) ELSE Collected(u)
  BY <1>2
<1>5. Consistent(u)
  BY <1>1, <1>2, <1>4 DEF Consistent, GoodPass
<1>6. Complete(v) => Complete(u)
  BY <1>2 DEF Complete
<1> QED
  BY <1>2, <1>3, <1>5, <1>6, DecisionKeeps

\* The row that is decided about has its type and is consistent.
LEMMA DecidedRow ==
    ASSUME IInv
    PROVE  /\ turn.user \in User /\ Context0 \in Context /\ turn.user.details \in Details
           /\ turn.user.state \in States /\ turn.user.name \in Optional
           /\ Consistent(turn.user)
           /\ message \in Message \cup {NoMessage} /\ message.patronym \in BOOLEAN
           /\ message.kind = "fullname" => message.name \in Names
<1>1. turn.user \in User
  BY DEF IInv, TypeOK, Turn
<1>2. message \in Message \cup {NoMessage}
  BY DEF IInv, TypeOK
<1>3. NoMessage.patronym \in BOOLEAN
  BY DEF NoMessage, Press
<1>4. \A m \in Message : m.patronym \in BOOLEAN
  BY DEF Message
<1>5. message.patronym \in BOOLEAN
  BY <1>2, <1>3, <1>4
<1> QED
  BY <1>1, <1>2, <1>5 DEF IInv, User, Context0

\* An answer adds keys to the context, and leaves the rest of it.
LEMMA WithKeys ==
    ASSUME IInv, NEW keys \in SUBSET Keys
    PROVE  /\ With(keys) \in Context
           /\ With(keys).keys = Context0.keys \cup keys
           /\ With(keys).flow = Context0.flow /\ With(keys).field = Context0.field
           /\ With(keys).name = Context0.name
           /\ With(keys).cyrillic = Context0.cyrillic /\ With(keys).latin = Context0.latin
           /\ With(keys).foreigner = Context0.foreigner /\ With(keys).pass = Context0.pass
  BY DecidedRow DEF With, Context

\* "/cancel" clears the context of any dialogue.
LEMMA CancelKeeps == ASSUME IInv, Cancel PROVE IInv'
<1>1. NoContext \in Context /\ NoContext.keys = {}
  BY DEF NoContext, Context, Optional
<1> QED
  BY <1>1, QuestionKeeps DEF Cancel, Answered, States

\* A bad answer gets its question again: the row has only a new keyboard.
LEMMA RepeatKeeps == ASSUME IInv, turn.step = "decide", AskAgain PROVE IInv'
<1>1. {} \in SUBSET Names
  OBVIOUS
<1> QED
  BY <1>1, DecidedRow, DecisionKeeps DEF AskAgain, Reply

\* An answer that its question does not take.
LEMMA WrongKeeps == ASSUME IInv, Wrong PROVE IInv'
  BY RepeatKeeps DEF Wrong, Answered

\* The dialogue about the whole profile starts with an empty context.
LEMMA BeginKeeps == ASSUME IInv, Begin PROVE IInv'
<1> DEFINE c == [NoContext EXCEPT !.flow = IF Complete(turn.user) THEN "reset" ELSE "initial"]
<1>1. c \in Context /\ c.keys = {} /\ c.flow # "field" /\ c.field = "none" /\ c.pass = FALSE
  BY DEF NoContext, Context, Optional
<1>2. turn.step = "decide" /\ Ask("FULL_NAME", c)
  BY DEF Begin, Answered
<1> HIDE DEF c
<1>3. \A u : u.state = "FULL_NAME" /\ u.context = c => Collected(u)
  BY <1>1 DEF Collected
<1> QED
  BY <1>1, <1>2, <1>3, QuestionKeeps DEF States

\* A dialogue about one field starts from what the row says of the pass.
LEMMA BeginFieldKeeps == ASSUME IInv, BeginField PROVE IInv'
<1> DEFINE f == message.kind
           d == turn.user.details
           c == FieldContext(turn.user, f)
<1>1. f \in Fields /\ turn.step = "decide"
  BY DEF BeginField, Answered
<1>2. d \in Details /\ Consistent(turn.user)
  BY DecidedRow
<1>3. /\ c \in Context /\ c.flow = "field" /\ c.field = f /\ "full_name" \notin c.keys
      /\ "cyrillic" \in c.keys
  BY <1>1, <1>2, ZenonT(30) DEF FieldContext, NoContext, Context, Details, Fields, Keys, Optional
<1>4. PICK state \in {"IDLE", FirstQuestion[f]} :
        /\ Ask(state, c)
        /\ state = "IDLE" \/ (f \in {"phone", "email", "citizenship", "latin-name"} => d.given)
  BY <1>1 DEF BeginField
<1>5. state \in States
  BY <1>1, <1>4 DEF FirstQuestion, Fields, States
<1>6. /\ FirstQuestion["pass"] = "NEEDS_PASS" /\ FirstQuestion["name"] = "FULL_NAME"
      /\ FirstQuestion[f] = "NEEDS_PASS" => f = "pass"
      /\ FirstQuestion[f] = "FOREIGNER" => f = "citizenship"
      /\ f \in {"contact", "crossplay", "nickname"}
           => FirstQuestion[f] \notin {"PHONE", "EMAIL", "FOREIGNER", "LATIN"}
  BY <1>1 DEF FirstQuestion, Fields
<1> HIDE DEF c
<1>7. CASE state = "IDLE"
  BY <1>1, <1>3, <1>4, <1>5, <1>7, QuestionKeeps
<1>8. CASE state # "IDLE"
  <2>1. state \in {"PHONE", "EMAIL", "FOREIGNER", "LATIN"} => d.given /\ f \notin {"pass", "name"}
    BY <1>1, <1>4, <1>6, <1>8 DEF Fields
  <2>2. \A u : u.state = state /\ u.context = c /\ u.details = d => Edited(u)
    BY <1>3, <1>4, <1>6, <1>8, <2>1 DEF Edited
  <2> QED
    BY <1>1, <1>3, <1>4, <1>5, <1>8, <2>2, QuestionKeeps
<1> QED
  BY <1>7, <1>8

\* A row that is complete is written before its names are published.
LEMMA CompletionKeeps ==
    ASSUME IInv, turn.step = "decide", NEW u \in User, NEW names \in SUBSET Optional,
           Consistent(u), Complete(turn.user) => Complete(u), Complete1(u, names)
    PROVE  IInv'
<1>1. names \ {NoName} \in SUBSET Names
  BY DEF Optional
<1> QED
  BY <1>1, DecisionKeeps DEF Complete1

\* What the state of the row and the context say of what has been collected.
LEMMA SoFar ==
    ASSUME IInv, turn.user.state # "IDLE"
    PROVE  /\ Editing => Edited(turn.user)
           /\ ~Editing => Collected(turn.user)
  BY DecidedRow DEF Consistent, Editing, Context0

\* The name is taken if its patronym fits the pass, which is why PassIsValid
\* needs what the row says of it.
LEMMA FullNameKeeps == ASSUME IInv, FullName PROVE IInv'
<1> DEFINE u == turn.user
           d == u.details
           c == Named
           v == [u EXCEPT !.name = message.name,
                          !.details.cyrillic = IF d.given THEN message.patronym ELSE FALSE]
           w == [v EXCEPT !.context = c]
<1>1. /\ turn.step = "decide" /\ u.state = "FULL_NAME" /\ message.kind = "fullname"
      /\ message.name \in Names /\ message.name # NoName /\ message.patronym \in BOOLEAN
      /\ u \in User /\ d \in Details /\ Consistent(u)
  BY DecidedRow, ProfileDialogueAssumption DEF FullName, In, Answered
<1>2. /\ c \in Context /\ c.keys = Context0.keys \cup {"cyrillic", "full_name"}
      /\ c.flow = Context0.flow /\ c.field = Context0.field /\ c.name = message.name
  <2> DEFINE b == With({"cyrillic", "full_name"})
  <2>1. /\ b \in Context /\ b.keys = Context0.keys \cup {"cyrillic", "full_name"}
        /\ b.flow = Context0.flow /\ b.field = Context0.field
    BY WithKeys DEF Keys
  <2> HIDE DEF b
  <2>2. c = [b EXCEPT !.name = message.name, !.cyrillic = message.patronym]
    BY DEF Named, b
  <2> QED
    BY <1>1, <2>1, <2>2 DEF Context, Optional
<1> HIDE DEF c
<1>3. CASE ~Editing /\ Ask("NEEDS_PASS", c)
  <2>1. c.field = "none" /\ c.flow # "field"
    BY <1>1, <1>2, <1>3, SoFar DEF Collected, Editing, Context0
  <2>2. \A x : x.state = "NEEDS_PASS" /\ x.context = c => Collected(x)
    BY <1>2, <2>1 DEF Collected
  <2> QED
    BY <1>1, <1>2, <1>3, <2>1, <2>2, QuestionKeeps DEF States
<1>4. CASE Editing /\ Ask("LATIN", c) /\ d.foreigner
  <2>1. d.given /\ c.flow = "field"
    BY <1>1, <1>2, <1>4 DEF Consistent, GoodPass, Editing
  <2>2. \A x : x.state = "LATIN" /\ x.context = c /\ x.details = d => Edited(x)
    BY <1>2, <2>1 DEF Edited
  <2> QED
    BY <1>1, <1>2, <1>4, <2>1, <2>2, QuestionKeeps DEF States
<1>5. CASE /\ Editing /\ ~(d.foreigner /\ ~NamesAgree(message.patronym, d.cyrillic))
           /\ Complete1(w, {u.name, message.name})
  <2>1. /\ w \in User /\ w.name = message.name /\ w.state = "FULL_NAME" /\ w.context = c
        /\ w.pass = u.pass /\ w.crossplay = u.crossplay /\ w.contact = u.contact
        /\ w.details.given = d.given /\ w.details.foreigner = d.foreigner
        /\ w.details.latin = d.latin
        /\ d.foreigner /\ d.given => w.details.cyrillic = d.cyrillic
    BY <1>1, <1>2, <1>5 DEF User, Details, NamesAgree, Optional
  <2> HIDE DEF w
  <2>2. GoodPass(w)
    BY <1>1, <2>1 DEF Consistent, GoodPass
  <2>3. Edited(w)
    BY <1>2, <2>1 DEF Edited
  <2>4. Consistent(w)
    BY <1>1, <1>2, <1>5, <2>1, <2>2, <2>3 DEF Consistent, Editing
  <2>5. Complete(u) => Complete(w)
    BY <1>1, <2>1 DEF Complete
  <2>6. {u.name, message.name} \in SUBSET Optional
    BY <1>1, DecidedRow DEF Optional
  <2> QED
    BY <1>1, <1>5, <2>1, <2>4, <2>5, <2>6, CompletionKeeps
<1> QED
  BY <1>3, <1>4, <1>5 DEF FullName, c

\* With "no" the pass is dropped with its details.
LEMMA NeedsPassKeeps == ASSUME IInv, NeedsPass PROVE IInv'
<1> DEFINE u == turn.user
           b == With({"needs_pass"})
<1>1. /\ turn.step = "decide" /\ u.state = "NEEDS_PASS"
      /\ u \in User /\ Consistent(u) /\ Context0 = u.context /\ Context0 \in Context
      /\ "full_name" \in Context0.keys => Context0.name \in Names
  BY DecidedRow DEF NeedsPass, In, Context0, Consistent
<1>2. /\ b \in Context /\ b.keys = Context0.keys \cup {"needs_pass"}
      /\ b.flow = Context0.flow /\ b.field = Context0.field /\ b.name = Context0.name
  BY WithKeys DEF Keys
<1> HIDE DEF b
<1>3. ASSUME ~Editing, NEW pass \in BOOLEAN, NEW state \in {"FOREIGNER", "CONTACT"},
             state = "FOREIGNER" <=> pass, Ask(state, [b EXCEPT !.pass = pass])
      PROVE  IInv'
  <2> DEFINE c == [b EXCEPT !.pass = pass]
  <2>1. /\ c \in Context /\ c.keys = Context0.keys \cup {"needs_pass"} /\ c.pass = pass
        /\ c.flow = Context0.flow /\ c.field = Context0.field /\ c.name = Context0.name
    BY <1>2 DEF Context
  <2>2. Ask(state, c)
    BY <1>3
  <2> HIDE DEF c
  <2>3. /\ c.field = "none" /\ c.flow # "field" /\ {"cyrillic", "full_name"} \subseteq c.keys
        /\ c.name \in Names
    BY <1>1, <1>3, <2>1, SoFar DEF Collected, Editing
  <2>4. \A x : x.state = state /\ x.context = c => Collected(x)
    BY <1>3, <2>1, <2>3 DEF Collected
  <2> QED
    BY <1>1, <1>3, <2>1, <2>2, <2>3, <2>4, QuestionKeeps DEF States
<1>4. CASE Editing /\ Complete1([u EXCEPT !.pass = "not_needed", !.details = NoDetails], {u.name})
  <2> DEFINE w == [u EXCEPT !.pass = "not_needed", !.details = NoDetails]
  <2>1. /\ w \in User /\ w.name = u.name /\ w.state = "NEEDS_PASS" /\ w.context = u.context
        /\ w.pass = "not_needed" /\ w.crossplay = u.crossplay /\ w.contact = u.contact
        /\ w.details = NoDetails
    BY <1>1 DEF User, Details, NoDetails
  <2> HIDE DEF w
  <2>2. Edited(w)
    BY <1>1, <1>4, <2>1, SoFar DEF Edited
  <2>3. Consistent(w)
    BY <1>1, <1>4, <2>1, <2>2 DEF Consistent, GoodPass, NoDetails, Editing
  <2>4. Complete(u) => Complete(w)
    BY <2>1 DEF Complete
  <2>5. {u.name} \in SUBSET Optional
    BY DecidedRow
  <2> QED
    BY <1>1, <1>4, <2>1, <2>3, <2>4, <2>5, CompletionKeeps DEF w
<1>5. CASE Complete1(u, {u.name})
  BY <1>1, <1>5, DecidedRow, CompletionKeeps
<1>6. CASE Editing /\ ~(u.pass = "needed" /\ u.details.given)
           /\ Reply([PassAsked(u) EXCEPT !.state = "FOREIGNER"])
  <2>1. Ask("FOREIGNER", Context0)
    <3>1. [u EXCEPT !.state = "FOREIGNER"] = [u EXCEPT !.state = "FOREIGNER", !.context = u.context]
      BY <1>1 DEF User
    <3> QED
      BY <1>6, <3>1 DEF Ask, PassAsked, Context0
  <2>2. "cyrillic" \in Context0.keys /\ Context0.field = "pass" /\ Context0.flow = "field"
    BY <1>1, <1>6, SoFar DEF Edited, Editing
  <2>3. \A x : x.state = "FOREIGNER" /\ x.context = Context0 => Edited(x)
    BY <2>2 DEF Edited
  <2> QED
    BY <1>1, <2>1, <2>2, <2>3, QuestionKeeps DEF States
<1> QED
  BY <1>3, <1>4, <1>5, <1>6 DEF NeedsPass, b

\* A foreigner is asked for the Latin name; anybody else loses it.
LEMMA CitizenshipKeeps == ASSUME IInv, Citizenship PROVE IInv'
<1> DEFINE u == turn.user
           d == u.details
           foreigner == message.kind = "no"
           b == With({"foreigner"})
           c == [b EXCEPT !.foreigner = foreigner]
           whole == ~Editing \/ Context0.field = "pass"
           w == [u EXCEPT !.details.foreigner = foreigner, !.details.latin = foreigner /\ @, !.context = c]
<1>1. /\ turn.step = "decide" /\ u.state = "FOREIGNER"
      /\ u \in User /\ Consistent(u) /\ Context0 = u.context /\ d \in Details
      /\ "full_name" \in Context0.keys => Context0.name \in Names
      /\ (Editing <=> Context0.flow = "field")
  BY DecidedRow DEF Citizenship, In, Context0, Consistent, Editing
<1>2. /\ c \in Context /\ c.keys = Context0.keys \cup {"foreigner"} /\ c.foreigner = foreigner
      /\ c.flow = Context0.flow /\ c.field = Context0.field /\ c.name = Context0.name
      /\ c.pass = Context0.pass
  <2>1. /\ b \in Context /\ b.keys = Context0.keys \cup {"foreigner"} /\ b.pass = Context0.pass
        /\ b.flow = Context0.flow /\ b.field = Context0.field /\ b.name = Context0.name
    BY WithKeys DEF Keys
  <2> HIDE DEF b
  <2> QED
    BY <2>1 DEF Context
<1>3. /\ Editing => Edited(u)
      /\ ~Editing => Collected(u)
  BY <1>1, SoFar
<1>4. \/ whole /\ Ask(IF foreigner THEN "LATIN" ELSE "PHONE", c)
      \/ ~whole /\ Ask("LATIN", c)
      \/ ~whole /\ (foreigner => d.foreigner) /\ Complete1(w, {u.name})
  BY DEF Citizenship
<1> HIDE DEF c
<1>5. ASSUME NEW state \in {"LATIN", "PHONE"}, Ask(state, c),
             whole => (state = "LATIN" <=> foreigner), ~whole => state = "LATIN"
      PROVE  IInv'
  <2>1. ASSUME Editing, NEW x, x.state = state, x.context = c, x.details = d
        PROVE  Edited(x)
    <3>1. "cyrillic" \in c.keys /\ (c.field # "pass" => d.given)
      BY <1>1, <1>2, <1>3, <2>1 DEF Edited
    <3>2. state = "LATIN" /\ c.field = "name" => "full_name" \in c.keys
      BY <1>1, <1>2, <1>3, <2>1 DEF Edited
    <3> QED
      BY <1>2, <1>5, <2>1, <3>1, <3>2 DEF Edited, Agrees
  <2>2. ASSUME ~Editing, NEW x, x.state = state, x.context = c
        PROVE  Collected(x)
    BY <1>1, <1>2, <1>3, <1>5, <2>2 DEF Collected, Agrees
  <2>3. "full_name" \in c.keys => c.name \in Names
    BY <1>1, <1>2
  <2> QED
    BY <1>1, <1>2, <1>5, <2>1, <2>2, <2>3, QuestionKeeps DEF States
<1>6. CASE ~whole /\ (foreigner => d.foreigner) /\ Complete1(w, {u.name})
  <2>1. /\ w \in User /\ w.name = u.name /\ w.state = "FOREIGNER" /\ w.context = c
        /\ w.pass = u.pass /\ w.crossplay = u.crossplay /\ w.contact = u.contact
        /\ w.details.given = d.given /\ w.details.foreigner = foreigner
        /\ w.details.cyrillic = d.cyrillic /\ w.details.latin = (foreigner /\ d.latin)
    BY <1>1, <1>2, ZenonT(40) DEF User, Details
  <2>2. Edited(u) /\ Context0.field # "pass" /\ Editing
    BY <1>3, <1>6
  <2> HIDE DEF w, foreigner
  <2>3. Edited(w)
    BY <1>1, <1>2, <2>1, <2>2 DEF Edited
  <2>4. foreigner => d.latin = w.details.latin
    BY <1>1, <2>1 DEF Details
  <2>5. GoodPass(w)
    BY <1>1, <1>6, <2>1, <2>4 DEF Consistent, GoodPass
  <2>6. Consistent(w)
    BY <1>1, <1>2, <2>1, <2>2, <2>3, <2>5 DEF Consistent
  <2>7. Complete(u) => Complete(w)
    BY <2>1 DEF Complete
  <2>8. {u.name} \in SUBSET Optional
    BY DecidedRow
  <2> QED
    BY <1>1, <1>6, <2>1, <2>6, <2>7, <2>8, CompletionKeeps
<1> QED
  BY <1>4, <1>5, <1>6

\* The Latin name has a patronym if the Cyrillic one has.
LEMMA LatinNameKeeps == ASSUME IInv, LatinName PROVE IInv'
<1> DEFINE u == turn.user
           d == u.details
           b == With({"latin"} \cup (IF Editing THEN {"foreigner"} ELSE {}))
           c == [b EXCEPT !.latin = message.patronym, !.foreigner = Editing \/ @]
           renamed == Context0.field = "name"
           w == [u EXCEPT !.name = IF renamed THEN Context0.name ELSE @,
                          !.details = [given |-> TRUE, foreigner |-> TRUE,
                                       cyrillic |-> Context0.cyrillic, latin |-> message.patronym],
                          !.context = c]
<1>1. /\ turn.step = "decide" /\ u.state = "LATIN"
      /\ u \in User /\ Consistent(u) /\ Context0 = u.context /\ Context0 \in Context
      /\ "full_name" \in Context0.keys => Context0.name \in Names
      /\ (Editing <=> Context0.flow = "field")
      /\ message.patronym \in BOOLEAN
  BY DecidedRow DEF LatinName, In, Context0, Consistent, Editing
<1>2. /\ c \in Context /\ Context0.keys \cup {"latin"} \subseteq c.keys
      /\ Editing => "foreigner" \in c.keys
      /\ c.keys \subseteq Context0.keys \cup {"latin", "foreigner"}
      /\ c.latin = message.patronym /\ c.foreigner = (Editing \/ Context0.foreigner)
      /\ c.flow = Context0.flow /\ c.field = Context0.field /\ c.name = Context0.name
      /\ c.pass = Context0.pass /\ c.cyrillic = Context0.cyrillic
  <2>1. {"latin"} \cup (IF Editing THEN {"foreigner"} ELSE {}) \in SUBSET Keys
    BY DEF Keys
  <2>2. /\ b \in Context /\ b.keys = Context0.keys \cup ({"latin"} \cup (IF Editing THEN {"foreigner"} ELSE {}))
        /\ b.pass = Context0.pass /\ b.cyrillic = Context0.cyrillic /\ b.foreigner = Context0.foreigner
        /\ b.flow = Context0.flow /\ b.field = Context0.field /\ b.name = Context0.name
    BY <2>1, WithKeys
  <2>3. Editing \in BOOLEAN
    BY DEF Editing
  <2> HIDE DEF b
  <2> QED
    BY <1>1, <2>2, <2>3 DEF Context
<1>3. /\ Editing => Edited(u)
      /\ ~Editing => Collected(u)
  BY <1>1, SoFar
<1>4. \/ AskAgain
      \/ /\ NamesAgree(Context0.cyrillic, message.patronym)
         /\ ~Editing \/ Context0.field = "pass"
         /\ Ask("PHONE", c)
      \/ /\ NamesAgree(Context0.cyrillic, message.patronym)
         /\ Editing /\ Context0.field # "pass"
         /\ Complete1(w, {u.name} \cup (IF renamed THEN {Context0.name} ELSE {}))
  BY DEF LatinName
<1> HIDE DEF c
<1>5. CASE AskAgain
  BY <1>1, <1>5, RepeatKeeps
<1>6. CASE /\ NamesAgree(Context0.cyrillic, message.patronym)
           /\ ~Editing \/ Context0.field = "pass"
           /\ Ask("PHONE", c)
  <2>1. Agrees(c)
    BY <1>2, <1>6 DEF Agrees, NamesAgree
  <2>2. ASSUME Editing, NEW x, x.state = "PHONE", x.context = c
        PROVE  Edited(x)
    BY <1>1, <1>2, <1>3, <1>6, <2>1, <2>2 DEF Edited
  <2>3. ASSUME ~Editing, NEW x, x.state = "PHONE", x.context = c
        PROVE  Collected(x)
    BY <1>1, <1>2, <1>3, <2>1, <2>3 DEF Collected
  <2>4. "full_name" \in c.keys => c.name \in Names
    BY <1>1, <1>2
  <2> QED
    BY <1>1, <1>2, <1>6, <2>2, <2>3, <2>4, QuestionKeeps DEF States
<1>7. CASE /\ NamesAgree(Context0.cyrillic, message.patronym)
           /\ Editing /\ Context0.field # "pass"
           /\ Complete1(w, {u.name} \cup (IF renamed THEN {Context0.name} ELSE {}))
  <2>1. d.given /\ (renamed => Context0.name \in Names)
    BY <1>1, <1>3, <1>7 DEF Edited
  <2>2. /\ w \in User /\ w.name = (IF renamed THEN Context0.name ELSE u.name)
        /\ w.state = "LATIN" /\ w.context = c
        /\ w.pass = u.pass /\ w.crossplay = u.crossplay /\ w.contact = u.contact
        /\ w.details = [given |-> TRUE, foreigner |-> TRUE,
                        cyrillic |-> Context0.cyrillic, latin |-> message.patronym]
    BY <1>1, <1>2, <2>1, ZenonT(40) DEF User, Details, Context, Optional
  <2> HIDE DEF w
  <2>3. Edited(w)
    BY <1>1, <1>2, <1>3, <1>7, <2>2 DEF Edited
  <2>4. GoodPass(w)
    BY <1>1, <1>7, <2>1, <2>2 DEF Consistent, GoodPass, NamesAgree
  <2>5. Consistent(w)
    BY <1>1, <1>2, <1>7, <2>2, <2>3, <2>4 DEF Consistent
  <2>6. Complete(u) => Complete(w)
    BY <2>1, <2>2, ProfileDialogueAssumption DEF Complete
  <2>7. {u.name} \cup (IF renamed THEN {Context0.name} ELSE {}) \in SUBSET Optional
    BY <2>1, DecidedRow DEF Optional
  <2> QED
    BY <1>1, <1>7, <2>2, <2>5, <2>6, <2>7, CompletionKeeps
<1> QED
  BY <1>4, <1>5, <1>6, <1>7

\* The questions about a phone, an address and a contact, whose answers are
\* not looked at again.
LEMMA TextKeeps ==
    ASSUME IInv, turn.step = "decide",
           \/ /\ turn.user.state = "PHONE" /\ (~Editing \/ Context0.field = "pass")
              /\ Ask("EMAIL", With({"phone"}))
           \/ /\ turn.user.state = "EMAIL" /\ ~Editing
              /\ Ask("CONTACT", With({"email"}))
           \/ /\ turn.user.state = "CONTACT" /\ ~Editing
              /\ Ask("CROSSPLAY", With({"contact"}))
    PROVE  IInv'
<1>1. PICK asked \in {<<"PHONE", "EMAIL", "phone">>, <<"EMAIL", "CONTACT", "email">>,
                     <<"CONTACT", "CROSSPLAY", "contact">>} :
        /\ turn.user.state = asked[1] /\ Ask(asked[2], With({asked[3]}))
        /\ ~Editing \/ (asked[1] = "PHONE" /\ Context0.field = "pass")
  OBVIOUS
<1> DEFINE c == With({asked[3]})
<1>2. {asked[3]} \in SUBSET Keys
  BY DEF Keys
<1>3. /\ c \in Context /\ c.keys = Context0.keys \cup {asked[3]}
      /\ c.flow = Context0.flow /\ c.field = Context0.field /\ c.name = Context0.name
      /\ c.pass = Context0.pass /\ c.cyrillic = Context0.cyrillic /\ c.latin = Context0.latin
      /\ c.foreigner = Context0.foreigner
  BY <1>2, WithKeys
<1>4. /\ Consistent(turn.user) /\ Context0 = turn.user.context
      /\ "full_name" \in Context0.keys => Context0.name \in Names
      /\ (Editing <=> Context0.flow = "field")
      /\ Editing => Edited(turn.user)
      /\ ~Editing => Collected(turn.user)
  BY <1>1, DecidedRow, SoFar DEF Context0, Editing, Consistent
<1>5. Ask(asked[2], c)
  BY <1>1
<1>6. "full_name" \in c.keys => c.name \in Names
  BY <1>3, <1>4
<1> HIDE DEF c
<1>7. ASSUME Editing, NEW x, x.state = asked[2], x.context = c
      PROVE  Edited(x)
  BY <1>1, <1>3, <1>4, <1>7 DEF Edited, Agrees
<1>8. ASSUME ~Editing, NEW x, x.state = asked[2], x.context = c
      PROVE  Collected(x)
  BY <1>1, <1>3, <1>4, <1>8 DEF Collected, Agrees
<1>9. asked[2] \in States \ {"IDLE"}
  BY <1>1 DEF States
<1> QED
  BY <1>3, <1>4, <1>5, <1>6, <1>7, <1>8, <1>9, QuestionKeeps

\* The phone is an answer of three dialogues.
LEMMA PhoneKeeps == ASSUME IInv, Phone PROVE IInv'
<1>1. turn.step = "decide" /\ turn.user.state = "PHONE"
  BY DEF Phone, In
<1>2. CASE (~Editing \/ Context0.field = "pass") /\ Ask("EMAIL", With({"phone"}))
  BY <1>1, <1>2, TextKeeps
<1>3. CASE Complete1(turn.user, {turn.user.name})
  BY <1>1, <1>3, DecidedRow, CompletionKeeps
<1> QED
  BY <1>2, <1>3 DEF Phone

\* The pass that is described by a context whose names agree is a good one.
LEMMA DescribedPass ==
    ASSUME NEW c \in Context
    PROVE  /\ Described(c) \in Details /\ Described(c).given
           /\ Described(c).foreigner = c.foreigner
           /\ Agrees(c) /\ c.foreigner => Described(c).cyrillic = Described(c).latin
<1>1. c.foreigner \in BOOLEAN /\ c.cyrillic \in BOOLEAN /\ c.latin \in BOOLEAN
  BY DEF Context
<1>2. (c.foreigner /\ c.latin) \in BOOLEAN
  OBVIOUS
<1>3. c.foreigner => (c.foreigner /\ c.latin) = c.latin
  BY <1>1
<1> QED
  BY <1>1, <1>2, <1>3 DEF Described, Details, Agrees

\* The last question about a pass: its details are put together here.
LEMMA EmailKeeps == ASSUME IInv, Email PROVE IInv'
<1> DEFINE u == turn.user
           c == With({"email"})
           w == [u EXCEPT !.pass = "needed", !.details = Described(Context0), !.context = c]
<1>1. turn.step = "decide" /\ u.state = "EMAIL"
  BY DEF Email, In
<1>2. CASE ~Editing /\ Ask("CONTACT", c)
  BY <1>1, <1>2, TextKeeps
<1>3. CASE Editing /\ Context0.field = "pass" /\ Complete1(w, {u.name})
  <2>1. /\ u \in User /\ Consistent(u) /\ Context0 = u.context /\ Context0 \in Context
        /\ "full_name" \in Context0.keys => Context0.name \in Names
        /\ Edited(u) /\ Context0.flow = "field"
    BY <1>1, <1>3, DecidedRow, SoFar DEF Context0, Editing, Consistent
  <2>2. /\ c \in Context /\ c.keys = Context0.keys \cup {"email"}
        /\ c.flow = Context0.flow /\ c.field = Context0.field /\ c.name = Context0.name
        /\ c.cyrillic = Context0.cyrillic /\ c.latin = Context0.latin
        /\ c.foreigner = Context0.foreigner
    BY WithKeys DEF Keys
  <2>3. /\ Described(Context0) \in Details /\ Described(Context0).given /\ Agrees(Context0)
        /\ Described(Context0).foreigner => Described(Context0).cyrillic = Described(Context0).latin
    BY <1>1, <1>3, <2>1, DescribedPass DEF Edited
  <2> HIDE DEF c
  <2>4. /\ w \in User /\ w.name = u.name /\ w.state = "EMAIL" /\ w.context = c
        /\ w.pass = "needed" /\ w.crossplay = u.crossplay /\ w.contact = u.contact
        /\ w.details = Described(Context0)
    BY <1>1, <2>1, <2>2, <2>3 DEF User
  <2> HIDE DEF w
  <2>5. Edited(w)
    BY <1>1, <1>3, <2>1, <2>2, <2>4 DEF Edited, Agrees
  <2>6. GoodPass(w)
    BY <2>3, <2>4 DEF GoodPass
  <2>7. Consistent(w)
    BY <2>1, <2>2, <2>4, <2>5, <2>6 DEF Consistent
  <2>8. Complete(u) => Complete(w)
    BY <2>3, <2>4 DEF Complete
  <2> QED
    BY <1>1, <1>3, <2>4, <2>7, <2>8, DecidedRow, CompletionKeeps
<1>4. CASE Complete1(u, {u.name})
  BY <1>1, <1>4, DecidedRow, CompletionKeeps
<1> QED
  BY <1>2, <1>3, <1>4 DEF Email

\* Whether the contact may be given, in the whole dialogue or alone.
LEMMA ContactKeeps == ASSUME IInv, Contact PROVE IInv'
<1> DEFINE u == turn.user
           w == [u EXCEPT !.contact = TRUE]
<1>1. turn.step = "decide" /\ u.state = "CONTACT"
  BY DEF Contact, In
<1>2. CASE AskAgain
  BY <1>1, <1>2, RepeatKeeps
<1>3. CASE ~Editing /\ Ask("CROSSPLAY", With({"contact"}))
  BY <1>1, <1>3, TextKeeps
<1>4. CASE Complete1(w, {u.name})
  <2>1. u \in User /\ Consistent(u) /\ {u.name} \in SUBSET Optional
    BY DecidedRow
  <2>2. /\ w \in User /\ w.name = u.name /\ w.state = u.state /\ w.context = u.context
        /\ w.pass = u.pass /\ w.crossplay = u.crossplay /\ w.contact = TRUE
        /\ w.details = u.details
    BY <2>1 DEF User
  <2> HIDE DEF w
  <2>3. GoodPass(w)
    BY <2>1, <2>2 DEF Consistent, GoodPass
  <2>4. (Edited(u) => Edited(w)) /\ (Collected(u) => Collected(w))
    BY <2>2 DEF Edited, Collected
  <2>5. Consistent(w)
    BY <2>1, <2>2, <2>3, <2>4 DEF Consistent
  <2>6. Complete(u) => Complete(w)
    BY <2>2 DEF Complete
  <2> QED
    BY <1>1, <1>4, <2>1, <2>2, <2>5, <2>6, CompletionKeeps
<1> QED
  BY <1>2, <1>3, <1>4 DEF Contact

\* A nickname is nothing that a question relies on.
LEMMA NicknameKeeps == ASSUME IInv, Nickname PROVE IInv'
<1>1. turn.step = "decide" /\ Complete1(turn.user, {turn.user.name})
  BY DEF Nickname, In
<1> QED
  BY <1>1, DecidedRow, CompletionKeeps

\* The last question about the whole profile: the row is put together here.
LEMMA CrossplayKeeps == ASSUME IInv, Crossplay PROVE IInv'
<1> DEFINE u == turn.user
           c == With({"crossplay"})
           w == Finished([u EXCEPT !.context = c], Context0)
<1>1. turn.step = "decide" /\ u.state = "CROSSPLAY" /\ u \in User /\ Consistent(u)
  BY DecidedRow DEF Crossplay, In
<1>2. CASE Complete1(u, {u.name})
  BY <1>1, <1>2, DecidedRow, CompletionKeeps
<1>3. CASE ~Editing /\ Complete1(w, {u.name, Context0.name})
  <2>1. /\ Context0 = u.context /\ Context0 \in Context /\ Collected(u)
        /\ Context0.flow # "field" /\ Context0.name \in Names
    BY <1>1, <1>3, DecidedRow, SoFar DEF Context0, Editing, Consistent, Collected
  <2>2. /\ c \in Context /\ c.keys = Context0.keys \cup {"crossplay"}
        /\ c.flow = Context0.flow /\ c.field = Context0.field /\ c.name = Context0.name
        /\ c.pass = Context0.pass /\ c.cyrillic = Context0.cyrillic /\ c.latin = Context0.latin
        /\ c.foreigner = Context0.foreigner
    BY WithKeys DEF Keys
  <2>3. /\ Described(Context0) \in Details /\ Described(Context0).given
        /\ Context0.pass /\ Described(Context0).foreigner
             => Described(Context0).cyrillic = Described(Context0).latin
    BY <1>1, <2>1, DescribedPass DEF Collected
  <2>3a. NoDetails \in Details /\ ~NoDetails.foreigner /\ ~NoDetails.given
    BY DEF Details, NoDetails
  <2> HIDE DEF c
  <2>4. [u EXCEPT !.context = c] \in User
    BY <1>1, <2>2 DEF User
  <2>5. /\ w \in User /\ w.name = Context0.name /\ w.state = "CROSSPLAY" /\ w.context = c
        /\ w.pass = (IF Context0.pass THEN "needed" ELSE "not_needed")
        /\ w.crossplay /\ w.contact
        /\ w.details = (IF Context0.pass THEN Described(Context0) ELSE NoDetails)
    <3> DEFINE v == [u EXCEPT !.context = c]
    <3>1. v \in User /\ v.context = c /\ v.state = "CROSSPLAY"
      BY <1>1, <2>4 DEF User
    <3> HIDE DEF v
    <3>2. /\ Finished(v, Context0) \in User /\ Finished(v, Context0).name = Context0.name
          /\ Finished(v, Context0).state = v.state /\ Finished(v, Context0).context = v.context
          /\ Finished(v, Context0).pass = (IF Context0.pass THEN "needed" ELSE "not_needed")
          /\ Finished(v, Context0).crossplay /\ Finished(v, Context0).contact
          /\ Finished(v, Context0).details = (IF Context0.pass THEN Described(Context0) ELSE NoDetails)
      BY <2>1, <2>3, <2>3a, <3>1 DEF Finished, User, Optional
    <3> QED
      BY <3>1, <3>2 DEF v
  <2> HIDE DEF w
  <2>6. Collected(w)
    BY <1>1, <2>1, <2>2, <2>5 DEF Collected, Agrees
  <2>7. GoodPass(w)
    BY <2>3, <2>3a, <2>5 DEF GoodPass
  <2>8. Consistent(w)
    BY <2>1, <2>2, <2>5, <2>6, <2>7 DEF Consistent
  <2>9. Complete(w)
    <3>1. w.name # NoName /\ w.crossplay /\ w.contact /\ w.pass \in {"needed", "not_needed"}
      BY <2>1, <2>5, ProfileDialogueAssumption
    <3>2. w.pass = "needed" => w.details.given
      BY <2>3, <2>5
    <3> QED
      BY <3>1, <3>2 DEF Complete
  <2>10. {u.name, Context0.name} \in SUBSET Optional
    BY <2>1, DecidedRow DEF Optional
  <2> QED
    BY <1>1, <1>3, <2>5, <2>8, <2>9, <2>10, CompletionKeeps
<1> QED
  BY <1>2, <1>3 DEF Crossplay

-----------------------------------------------------------------------------
\* A row with another role or another experience is as consistent.
LEMMA OtherColumns ==
    ASSUME NEW u \in User, NEW v \in User, Consistent(u), v.details = u.details, v.pass = u.pass,
           v.state = u.state, v.context = u.context
    PROVE  Consistent(v)
<1>1. GoodPass(v) <=> GoodPass(u)
  BY DEF GoodPass
<1>2. (Edited(u) => Edited(v)) /\ (Collected(u) => Collected(v))
  BY DEF Edited, Collected
<1> QED
  BY <1>1, <1>2 DEF Consistent

\* What is written is what the turn holds, with the role of the row.
LEMMA SavedRow ==
    ASSUME IInv
    PROVE  /\ Saved(turn.user) \in User /\ Consistent(Saved(turn.user))
           /\ Saved(turn.user).role = user.role
           /\ Complete(turn.user) => Complete(Saved(turn.user))
<1>1. turn.user \in User /\ user \in User /\ Consistent(turn.user)
  BY DecidedRow DEF IInv, TypeOK
<1> DEFINE v == Saved(turn.user)
<1>2. /\ v \in User /\ v.details = turn.user.details /\ v.pass = turn.user.pass
      /\ v.state = turn.user.state /\ v.context = turn.user.context /\ v.name = turn.user.name
      /\ v.crossplay = turn.user.crossplay /\ v.contact = turn.user.contact
      /\ v.role = user.role
  BY <1>1 DEF Saved, User
<1> HIDE DEF v
<1>3. Consistent(v)
  BY <1>1, <1>2, OtherColumns
<1>4. Complete(turn.user) => Complete(v)
  BY <1>2 DEF Complete
<1> QED
  BY <1>2, <1>3, <1>4 DEF v

\* A message finds a consistent row.
LEMMA SendKeeps == ASSUME IInv, Send PROVE IInv'
<1>1. /\ turn.step = "free" /\ Len(syncs) < MaxQueue /\ message' \in AnswersTo(user)
      /\ edits' \in 0 .. MaxEdits
      /\ turn' = [FreeTurn EXCEPT !.step = "decide", !.user = user]
      /\ UNCHANGED <<user, syncs, announced, game, row, copying, attended, granted, overtaken, role,
                     grants, failures>>
  BY ProfileDialogueAssumption DEF Send, worker, IInv, TypeOK
<1>2. user \in User /\ Consistent(user)
  BY DEF IInv, TypeOK
<1>3. turn' \in Turn /\ turn'.user = user
  BY <1>1, <1>2 DEF Turn, FreeTurn
<1>4. message' \in Message /\ (message'.kind = "fullname" => message'.name \in Names)
  <2>1. \A k \in Kinds \ {"fullname"} : Press(k) \in Message /\ Press(k).kind # "fullname"
    BY DEF Press, Message, Optional
  <2>2. FullNames("fullname") \subseteq Message /\ \A m \in FullNames("fullname") : m.name \in Names
    BY DEF FullNames, Message, Optional, Kinds
  <2>3. LatinNames \subseteq Message /\ \A m \in LatinNames : m.kind # "fullname"
    BY DEF LatinNames, Message, Optional, Kinds
  <2>4. Menu(user) \subseteq Kinds \ {"fullname"}
    BY DEF Menu, Kinds, Fields
  <2>5. {"cancel", "wrong", "yes", "no", "text", "skip"} \subseteq Kinds \ {"fullname"}
    BY DEF Kinds
  <2>6. user.state \in States
    BY <1>2 DEF User
  <2>7. \/ message' \in {Press(k) : k \in Kinds \ {"fullname"}}
        \/ message' \in FullNames("fullname") \/ message' \in LatinNames
    <3> DEFINE rest == CASE user.state = "IDLE" -> {Press(k) : k \in Menu(user)}
                         [] user.state = "FULL_NAME" -> FullNames("fullname")
                         [] user.state = "LATIN" -> LatinNames
                         [] user.state \in {"NEEDS_PASS", "FOREIGNER", "CROSSPLAY"}
                              -> {Press("yes"), Press("no")}
                         [] user.state \in {"PHONE", "EMAIL", "NICKNAME"} -> {Press("text")}
                         [] user.state = "CONTACT" -> {Press("text"), Press("skip")}
    <3>1. message' \in {Press("cancel"), Press("wrong")} \/ message' \in rest
      BY <1>1 DEF AnswersTo
    <3>2. CASE message' \in {Press("cancel"), Press("wrong")}
      BY <3>2, <2>5
    <3>3. CASE message' \in rest
      BY <3>3, <2>4, <2>5, <2>6 DEF States
    <3> QED
      BY <3>1, <3>2, <3>3
  <2> QED
    BY <2>1, <2>2, <2>3, <2>7
<1>5. TypeOK'
  BY <1>1, <1>3, <1>4 DEF IInv, TypeOK
<1> QED
  BY <1>1, <1>2, <1>3, <1>4, <1>5 DEF IInv, CopyingHead

\* The first write of a turn that also publishes.
LEMMA StoreKeeps == ASSUME IInv, Store PROVE IInv'
<1>1. /\ turn.step = "store" /\ user' = Saved(turn.user)
      /\ turn' = [turn EXCEPT !.step = "publish"]
      /\ UNCHANGED <<message, syncs, announced, game, row, copying, attended, granted, overtaken, role,
                     edits, grants, failures>>
  BY DEF Store, worker
<1>2. turn \in Turn
  BY DEF IInv, TypeOK
<1>3. turn' \in Turn /\ turn'.user = turn.user
  BY <1>1, <1>2 DEF Turn
<1>4. TypeOK'
  BY <1>1, <1>3, SavedRow DEF IInv, TypeOK
<1>5. Complete(Saved(turn.user)) => Complete(turn.user)
  <2>1. turn.user \in User
    BY DecidedRow
  <2> QED
    BY <2>1 DEF Complete, Saved, User
<1> QED
  BY <1>1, <1>3, <1>4, <1>5, SavedRow DEF IInv, CopyingHead

\* SYNC_PROFILE is published between the two writes.
LEMMA PublishKeeps == ASSUME IInv, Publish PROVE IInv'
<1>1. /\ turn.step = "publish" /\ announced' = TRUE
      /\ syncs' = IF announced THEN syncs ELSE Append(syncs, turn.names)
      /\ turn' = [turn EXCEPT !.step = "save", !.user.state = "IDLE", !.user.context = NoContext]
      /\ UNCHANGED <<user, message, game, row, copying, attended, granted, overtaken, role, edits,
                     grants, failures>>
  BY DEF Publish
<1>2. turn \in Turn /\ turn.names \in SUBSET Names /\ turn.user \in User /\ Consistent(turn.user)
  BY DEF IInv, TypeOK, Turn
<1>3. NoContext \in Context /\ NoContext.keys = {}
  BY DEF NoContext, Context, Optional
<1>4. /\ turn' \in Turn /\ turn'.step = "save" /\ turn'.user \in User
      /\ turn'.user.state = "IDLE" /\ turn'.user.context = NoContext
      /\ turn'.user.name = turn.user.name /\ turn'.user.crossplay = turn.user.crossplay
      /\ turn'.user.pass = turn.user.pass /\ turn'.user.details = turn.user.details
      /\ turn'.user.contact = turn.user.contact
  <2>1. [turn.user EXCEPT !.state = "IDLE", !.context = NoContext] \in User
    BY <1>2, <1>3 DEF User, States
  <2> QED
    BY <1>1, <1>2, <2>1 DEF Turn, User
<1>5. syncs' \in Seq(SUBSET Names) /\ Len(syncs') <= MaxQueue
  <2>1. syncs \in Seq(SUBSET Names) /\ Len(syncs) <= MaxQueue /\ MaxQueue \in Nat
    BY ProfileDialogueAssumption DEF IInv, TypeOK
  <2>2. ~announced => Len(syncs) < MaxQueue
    BY <1>1 DEF IInv
  <2> QED
    BY <1>1, <1>2, <2>1, <2>2
<1>6. TypeOK'
  BY <1>1, <1>4, <1>5 DEF IInv, TypeOK
<1>7. Consistent(turn'.user)
  BY <1>2, <1>3, <1>4 DEF Consistent, GoodPass
<1>8. Complete(turn.user) => Complete(turn'.user)
  BY <1>4 DEF Complete
<1> QED
  BY <1>1, <1>4, <1>6, <1>7, <1>8 DEF IInv, CopyingHead

\* The save that ends a turn.
LEMMA SaveKeeps == ASSUME IInv, Save PROVE IInv'
<1>1. /\ user' = Saved(turn.user) /\ message' = NoMessage /\ turn' = FreeTurn /\ announced' = FALSE
      /\ UNCHANGED <<syncs, game, row, copying, attended, granted, overtaken, role, edits, grants, failures>>
  BY DEF Save
<1>2. FreeTurn \in Turn /\ FreeTurn.step = "free" /\ FreeTurn.user = NewUser
  BY DEF FreeTurn, Turn, NewUser, User, Optional, NoDetails, Details, Roles, States, NoContext, Context
<1>3. Consistent(NewUser)
  BY DEF Consistent, NewUser, GoodPass, NoDetails, NoContext
<1>4. NoMessage.kind = "none"
  BY DEF NoMessage, Press
<1>5. TypeOK'
  BY <1>1, <1>2, SavedRow DEF IInv, TypeOK
<1> QED
  BY <1>1, <1>2, <1>3, <1>4, <1>5, SavedRow DEF IInv, CopyingHead

\* A turn that fails is repeated with the row as it is then.
LEMMA FailKeeps == ASSUME IInv, Fail PROVE IInv'
<1>1. /\ turn.step # "free" /\ failures < MaxFailures /\ failures' = failures + 1
      /\ turn' = [FreeTurn EXCEPT !.step = "decide", !.user = user]
      /\ UNCHANGED <<user, message, syncs, announced, game, row, copying, attended, granted, overtaken,
                     role, edits, grants>>
  BY DEF Fail, worker
<1>2. user \in User
  BY DEF IInv, TypeOK
<1>3. turn' \in Turn /\ turn'.user = user
  BY <1>1, <1>2 DEF Turn, FreeTurn
<1>4. failures' \in 0 .. MaxFailures
  BY <1>1, ProfileDialogueAssumption DEF IInv, TypeOK
<1>5. TypeOK'
  BY <1>1, <1>3, <1>4 DEF IInv, TypeOK
<1> QED
  BY <1>1, <1>3, <1>5 DEF IInv, CopyingHead

-----------------------------------------------------------------------------
\* The worker and the administrators write two columns of the row only.
DialogueKept ==
    /\ user' \in User /\ user'.details = user.details /\ user'.pass = user.pass
    /\ user'.state = user.state /\ user'.context = user.context /\ user'.name = user.name
    /\ user'.crossplay = user.crossplay /\ user'.contact = user.contact

\* Writing one of those columns keeps the invariant.
LEMMA ColumnKeeps ==
    ASSUME IInv, DialogueKept, UNCHANGED <<turn, message, announced>>,
           Len(syncs') <= Len(syncs), Len(syncs') \in Nat, TypeOK', CopyingHead'
    PROVE  IInv'
<1>1. user \in User /\ Consistent(user)
  BY DEF IInv, TypeOK
<1>2. Consistent(user')
  BY <1>1, OtherColumns DEF DialogueKept
<1>3. Complete(user') => Complete(user)
  BY DEF Complete, DialogueKept
<1>4. turn.step # "free" /\ ~announced => Len(syncs') < MaxQueue
  <2>1. Len(syncs) \in Nat /\ MaxQueue \in Nat
    BY ProfileDialogueAssumption DEF IInv, TypeOK
  <2> QED
    BY <2>1 DEF IInv
<1> QED
  BY <1>2, <1>3, <1>4 DEF IInv

\* Nothing that the dialogue has read or written changes.
LEMMA ApartKeeps ==
    ASSUME IInv, UNCHANGED <<user, turn, message, announced, syncs>>, TypeOK', CopyingHead'
    PROVE  IInv'
  BY DEF IInv

\* Experience is one of them.
LEMMA ExperienceColumn ==
    ASSUME IInv, NEW experienced \in BOOLEAN, user' = [user EXCEPT !.experience = experienced]
    PROVE  DialogueKept /\ user'.role = user.role
  BY DEF IInv, TypeOK, User, DialogueKept

\* The role is the other.
LEMMA RoleColumn ==
    ASSUME IInv, role' \in Roles, user' = [user EXCEPT !.role = role']
    PROVE  DialogueKept /\ user'.role = role'
  BY DEF IInv, TypeOK, User, DialogueKept

\* A command is appended behind the one that is being copied.
LEMMA CommandsAppend ==
    ASSUME IInv, game' = WithUpdate(game), UNCHANGED copying
    PROVE  game' \in Seq(Command) /\ CopyingHead'
<1>1. UpdateCommand \in Command
  BY DEF UpdateCommand, Command, Optional
<1>2. game \in Seq(Command) /\ CopyingHead
  BY DEF IInv, TypeOK
<1>3. CASE game' = game
  BY <1>2, <1>3 DEF CopyingHead
<1>4. CASE game' = Append(game, UpdateCommand)
  <2>1. game' \in Seq(Command) /\ game' # <<>>
    BY <1>1, <1>2, <1>4
  <2>2. game # <<>> => Head(game') = Head(game)
    BY <1>1, <1>2, <1>4
  <2> QED
    BY <1>2, <2>1, <2>2 DEF CopyingHead
<1> QED
  BY <1>3, <1>4 DEF WithUpdate

\* An administrator writes the role, at any time.
LEMMA SetRoleKeeps == ASSUME IInv, SetRole PROVE IInv'
<1>1. /\ grants < MaxGrants /\ grants' = grants + 1 /\ role' \in Roles
      /\ user' = [user EXCEPT !.role = role']
      /\ UNCHANGED <<message, turn, syncs, announced, game, row, copying, attended, granted, overtaken,
                     edits, failures>>
  BY DEF SetRole, worker
<1>2. grants' \in 0 .. MaxGrants
  BY <1>1, ProfileDialogueAssumption DEF IInv, TypeOK
<1>3. DialogueKept
  BY <1>1, RoleColumn
<1>4. TypeOK'
  BY <1>1, <1>2, <1>3 DEF IInv, TypeOK, DialogueKept
<1>5. Len(syncs') \in Nat /\ Len(syncs') <= Len(syncs)
  BY <1>1 DEF IInv, TypeOK
<1>6. CopyingHead'
  BY <1>1 DEF IInv, CopyingHead
<1> QED
  BY <1>1, <1>3, <1>4, <1>5, <1>6, ColumnKeeps

\* The player signs up in another dialogue, when nothing else waits.
LEMMA EnlistKeeps == ASSUME IInv, Enlist PROVE IInv'
<1>1. /\ game' = <<[kind |-> "enlist", name |-> user.name, experience |-> user.experience]>>
      /\ game = <<>>
      /\ UNCHANGED <<user, message, turn, announced, syncs, row, copying, attended, granted, overtaken,
                     role, edits, grants, failures>>
  BY DEF Enlist
<1>2. [kind |-> "enlist", name |-> user.name, experience |-> user.experience] \in Command
  BY DEF IInv, TypeOK, User, Command
<1>3. game' \in Seq(Command)
  BY <1>1, <1>2
<1>4. CopyingHead'
  BY <1>1 DEF IInv, CopyingHead
<1> QED
  BY <1>1, <1>3, <1>4, ApartKeeps DEF IInv, TypeOK

\* SYNC_PROFILE grants experience, and orders a copy of the profile.
LEMMA SyncKeeps == ASSUME IInv, Sync PROVE IInv'
<1> DEFINE experienced == Head(syncs) \cap attended # {}
<1>1. /\ syncs # <<>> /\ syncs' = Tail(syncs)
      /\ user' = [user EXCEPT !.experience = experienced] /\ granted' = experienced
      /\ game' = WithUpdate(game)
      /\ overtaken' = (overtaken \/ \E i \in DOMAIN game : game[i].kind = "enlist")
      /\ UNCHANGED <<message, turn, announced, row, copying, attended, role, edits, grants, failures>>
  BY DEF Sync, Grant
<1>2. experienced \in BOOLEAN /\ overtaken' \in BOOLEAN
  BY <1>1
<1> HIDE DEF experienced
<1>3. /\ syncs \in Seq(SUBSET Names) /\ Len(syncs) \in Nat /\ Len(syncs) <= MaxQueue
      /\ MaxQueue \in Nat
  BY ProfileDialogueAssumption DEF IInv, TypeOK
<1>4. syncs' \in Seq(SUBSET Names) /\ Len(syncs') \in Nat /\ Len(syncs') <= Len(syncs)
  BY <1>1, <1>3
<1>5. DialogueKept /\ game' \in Seq(Command) /\ CopyingHead'
  BY <1>1, <1>2, ExperienceColumn, CommandsAppend
<1>6. TypeOK'
  BY <1>1, <1>2, <1>3, <1>4, <1>5 DEF IInv, TypeOK, DialogueKept
<1> QED
  BY <1>1, <1>4, <1>5, <1>6, ColumnKeeps

\* A game in which the player was confirmed is added to the statistics.
LEMMA AddGameKeeps == ASSUME IInv, AddGame PROVE IInv'
<1>1. /\ grants < MaxGrants /\ grants' = grants + 1 /\ Complete(user)
      /\ attended' = attended \cup {user.name}
      /\ user' = [user EXCEPT !.experience = TRUE] /\ granted' = TRUE
      /\ game' = WithUpdate(game)
      /\ UNCHANGED <<message, turn, announced, syncs, row, copying, overtaken, role, edits, failures>>
  BY DEF AddGame, Grant
<1>2. DialogueKept /\ game' \in Seq(Command) /\ CopyingHead'
  BY <1>1, ExperienceColumn, CommandsAppend
<1>3. user.name \in Names
  BY <1>1 DEF Complete, IInv, TypeOK, User, Optional
<1>4. grants' \in 0 .. MaxGrants
  BY <1>1, ProfileDialogueAssumption DEF IInv, TypeOK
<1>5. TypeOK'
  BY <1>1, <1>2, <1>3, <1>4 DEF IInv, TypeOK, DialogueKept
<1>6. Len(syncs') \in Nat /\ Len(syncs') <= Len(syncs)
  BY <1>1 DEF IInv, TypeOK
<1> QED
  BY <1>1, <1>2, <1>5, <1>6, ColumnKeeps

\* The worker signs the player up.
LEMMA ApplyEnlistKeeps == ASSUME IInv, ApplyEnlist PROVE IInv'
<1>1. /\ game # <<>> /\ game' = Tail(game) /\ Head(game).kind = "enlist"
      /\ row' = [name |-> Head(game).name, experience |-> Head(game).experience]
      /\ UNCHANGED <<user, message, turn, announced, syncs, copying, attended, granted, overtaken, role,
                     edits, grants, failures>>
  BY DEF ApplyEnlist
<1>2. game \in Seq(Command)
  BY DEF IInv, TypeOK
<1>3. Head(game) \in Command /\ game' \in Seq(Command)
  BY <1>1, <1>2
<1>4. row' \in [name : Optional, experience : BOOLEAN]
  BY <1>1, <1>3 DEF Command
<1>5. CopyingHead'
  BY <1>1 DEF IInv, CopyingHead
<1> QED
  BY <1>1, <1>3, <1>4, <1>5, ApartKeeps DEF IInv, TypeOK

\* UPDATE_PROFILE reads the profile.
LEMMA ReadProfileKeeps == ASSUME IInv, ReadProfile PROVE IInv'
<1>1. /\ copying' = [NoCopy EXCEPT !.name = user.name, !.experience = user.experience]
      /\ game # <<>> /\ Head(game).kind = "update"
      /\ UNCHANGED <<user, message, turn, announced, syncs, game, row, attended, granted, overtaken, role,
                     edits, grants, failures>>
  BY DEF ReadProfile
<1>2. copying' \in Command
  BY <1>1 DEF IInv, TypeOK, User, Command, NoCopy
<1>3. CopyingHead'
  BY <1>1 DEF CopyingHead
<1> QED
  BY <1>1, <1>2, <1>3, ApartKeeps DEF IInv, TypeOK

\* UPDATE_PROFILE writes what it has read to the registration.
LEMMA WriteProfileKeeps == ASSUME IInv, WriteProfile PROVE IInv'
<1>1. /\ row' = [name |-> copying.name, experience |-> copying.experience]
      /\ copying # NoCopy /\ copying' = NoCopy /\ game' = Tail(game)
      /\ UNCHANGED <<user, message, turn, announced, syncs, attended, granted, overtaken, role, edits,
                     grants, failures>>
  BY DEF WriteProfile
<1>2. row' \in [name : Optional, experience : BOOLEAN] /\ NoCopy \in Command
  BY <1>1 DEF IInv, TypeOK, Command, NoCopy, Optional
<1>3. game \in Seq(Command) /\ game # <<>>
  BY <1>1 DEF IInv, TypeOK, CopyingHead
<1>4. game' \in Seq(Command)
  BY <1>1, <1>3
<1>5. CopyingHead'
  BY <1>1 DEF CopyingHead
<1> QED
  BY <1>1, <1>2, <1>4, <1>5, ApartKeeps DEF IInv, TypeOK

-----------------------------------------------------------------------------
\* Between two dialogues nothing has been collected.
LEMMA InitIInv == ASSUME StartsAssumption, Init PROVE IInv
<1>1. user \in User /\ user.state = "IDLE" /\ user.context = NoContext /\ GoodPass(user)
  BY DEF StartsAssumption, Init
<1>2. /\ attended \subseteq Names /\ message = NoMessage /\ turn = FreeTurn /\ announced = FALSE
      /\ syncs = <<>> /\ game = <<>> /\ row = [name |-> NoName, experience |-> FALSE]
      /\ copying = NoCopy /\ granted = user.experience /\ role = user.role /\ overtaken = FALSE
      /\ edits = 0 /\ grants = 0 /\ failures = 0
  BY DEF Init
<1>3. FreeTurn \in Turn /\ FreeTurn.step = "free" /\ FreeTurn.user = NewUser
  BY DEF FreeTurn, Turn, NewUser, User, Optional, NoDetails, Details, Roles, States, NoContext, Context
<1>4. NoCopy \in Command /\ row \in [name : Optional, experience : BOOLEAN]
  BY <1>2 DEF NoCopy, Command, Optional
<1>5. TypeOK
  <2>1. user.experience \in BOOLEAN /\ user.role \in Roles
    BY <1>1 DEF User
  <2>2. syncs \in Seq(SUBSET Names) /\ game \in Seq(Command) /\ Len(syncs) = 0
    BY <1>2
  <2>3. message \in Message \cup {NoMessage} /\ turn \in Turn /\ copying \in Command
    BY <1>2, <1>3, <1>4
  <2>4. /\ edits \in 0 .. MaxEdits /\ grants \in 0 .. MaxGrants /\ failures \in 0 .. MaxFailures
        /\ 0 <= MaxQueue
    BY <1>2, ProfileDialogueAssumption
  <2>5. attended \subseteq Names /\ announced \in BOOLEAN /\ granted \in BOOLEAN /\ role \in Roles
        /\ overtaken \in BOOLEAN
    BY <1>2, <2>1
  <2> QED
    BY <1>1, <1>4, <2>2, <2>3, <2>4, <2>5 DEF TypeOK
<1>6. Consistent(NewUser)
  BY DEF Consistent, NewUser, GoodPass, NoDetails, NoContext
<1>7. Consistent(user)
  BY <1>1 DEF Consistent, NoContext
<1>8. message.kind = "none"
  BY <1>2 DEF NoMessage, Press
<1> QED
  BY <1>2, <1>3, <1>5, <1>6, <1>7, <1>8 DEF IInv, CopyingHead

\* Every step keeps the invariant.
LEMMA NextIInv == ASSUME IInv, [Next]_vars PROVE IInv'
<1>1. CASE Send
  BY <1>1, SendKeeps
<1>2. CASE Cancel \/ Wrong \/ Begin \/ BeginField
  BY <1>2, CancelKeeps, WrongKeeps, BeginKeeps, BeginFieldKeeps
<1>3. CASE FullName \/ NeedsPass \/ Citizenship \/ LatinName \/ Phone \/ Email \/ Contact
           \/ Nickname \/ Crossplay
  BY <1>3, FullNameKeeps, NeedsPassKeeps, CitizenshipKeeps, LatinNameKeeps, PhoneKeeps, EmailKeeps,
     ContactKeeps, NicknameKeeps, CrossplayKeeps
<1>4. CASE Store \/ Publish \/ Save
  BY <1>4, StoreKeeps, PublishKeeps, SaveKeeps
<1>5. CASE Fail \/ SetRole \/ Enlist \/ AddGame
  BY <1>5, FailKeeps, SetRoleKeeps, EnlistKeeps, AddGameKeeps
<1>6. CASE Worker
  BY <1>6, SyncKeeps, ApplyEnlistKeeps, ReadProfileKeeps, WriteProfileKeeps DEF Worker
<1>7. CASE UNCHANGED vars
  BY <1>7 DEF vars, IInv, TypeOK, CopyingHead
<1> QED
  BY <1>1, <1>2, <1>3, <1>4, <1>5, <1>6, <1>7 DEF Next, Gateway

(***************************************************************************)
(* The theorems                                                            *)
(***************************************************************************)
\* The invariant holds throughout, whatever the order of answers, buttons
\* from elsewhere, repeated deliveries and writes of the worker.
THEOREM Invariant == ASSUME StartsAssumption PROVE Spec => []IInv
<1>1. Init => IInv
  BY InitIInv
<1>2. IInv /\ [Next]_vars => IInv'
  BY NextIInv
<1> QED
  BY <1>1, <1>2, PTL DEF Spec

\* The row, the turn, the queue and the copy being made have their types.
THEOREM TypeCorrect == ASSUME StartsAssumption PROVE Spec => []TypeOK
<1>1. IInv => TypeOK
  BY DEF IInv
<1> QED
  BY <1>1, Invariant, PTL

\* No answer meets a missing key of the context, or an assertion that the pass
\* is there, whatever route through the fields has led to its question
\* (_profile_field_step, _finish_profile).
THEOREM ContextSuffices == ASSUME StartsAssumption PROVE Spec => []AnswersHaveTheirContext
<1>1. ASSUME NEW u, Consistent(u)
      PROVE  /\ Reads(u) \subseteq u.context.keys
             /\ u.state \in {"PHONE", "EMAIL", "FOREIGNER", "LATIN"} /\ u.context.flow = "field"
                  /\ u.context.field # "pass" => u.details.given
  <2>1. CASE u.state = "IDLE"
    BY <2>1 DEF Reads
  <2>2. CASE u.state # "IDLE" /\ u.context.flow = "field"
    BY <1>1, <2>2 DEF Consistent, Edited, Agrees, Reads
  <2>3. CASE u.state # "IDLE" /\ u.context.flow # "field"
    BY <1>1, <2>3 DEF Consistent, Collected, Agrees, Reads
  <2> QED
    BY <2>1, <2>2, <2>3
<1>2. IInv => AnswersHaveTheirContext
  BY <1>1 DEF IInv, AnswersHaveTheirContext
<1> QED
  BY <1>2, Invariant, PTL

\* No dialogue builds a pass that PassDetails refuses, although the alphabets
\* and the citizenship are edited apart (PassDetails.names_match_citizenship).
THEOREM PassStaysValid == ASSUME StartsAssumption PROVE Spec => []PassIsValid
<1>1. IInv => PassIsValid
  BY DEF IInv, Consistent, GoodPass, PassIsValid
<1> QED
  BY <1>1, Invariant, PTL

\* Deciding what to write writes nothing.
LEMMA DecidingLeaves ==
    ASSUME \/ Cancel \/ Wrong \/ Begin \/ BeginField \/ FullName \/ NeedsPass \/ Citizenship
           \/ LatinName \/ Phone \/ Email \/ Contact \/ Nickname \/ Crossplay
    PROVE  UNCHANGED <<user, role>>
<1>1. \A u, step, names : Decide(u, step, names) => UNCHANGED <<user, role>>
  BY DEF Decide
<1>2. /\ \A state, context : Ask(state, context) => UNCHANGED <<user, role>>
      /\ AskAgain => UNCHANGED <<user, role>>
      /\ \A u : Reply(u) => UNCHANGED <<user, role>>
  BY <1>1 DEF Ask, AskAgain, Reply
<1>3. \A u, names : Complete1(u, names) => UNCHANGED <<user, role>>
  BY <1>1 DEF Complete1
<1>4. CASE Cancel \/ Wrong \/ Begin \/ BeginField
  BY <1>2, <1>4 DEF Cancel, Wrong, Begin, BeginField
<1>5. CASE FullName
  BY <1>2, <1>3, <1>5 DEF FullName
<1>6. CASE NeedsPass
  BY <1>2, <1>3, <1>6 DEF NeedsPass
<1>7. CASE Citizenship
  BY <1>2, <1>3, <1>7 DEF Citizenship
<1>8. CASE LatinName
  BY <1>2, <1>3, <1>8 DEF LatinName
<1>9. CASE Phone \/ Email \/ Contact \/ Nickname \/ Crossplay
  BY <1>2, <1>3, <1>9 DEF Phone, Email, Contact, Nickname, Crossplay
<1> QED
  BY <1>4, <1>5, <1>6, <1>7, <1>8, <1>9

\* How the row of the player changes: it is written by the gateway, or one
\* of its columns is by the worker or an administrator.
LEMMA RowSteps ==
    ASSUME IInv, [Next]_vars
    PROVE  \/ turn.step # "free" /\ user' = Saved(turn.user) /\ UNCHANGED role
           \/ DialogueKept /\ (user'.role = role' \/ (user'.role = user.role /\ UNCHANGED role))
           \/ UNCHANGED <<user, role>>
<1>1. CASE Store \/ Save
  BY <1>1 DEF Store, Save
<1>2. CASE SetRole
  <2>1. role' \in Roles /\ user' = [user EXCEPT !.role = role']
    BY <1>2 DEF SetRole
  <2> QED
    BY <2>1, RoleColumn
<1>3. CASE Sync \/ AddGame
  <2>1. PICK experienced \in BOOLEAN : user' = [user EXCEPT !.experience = experienced]
    BY <1>3 DEF Sync, AddGame, Grant
  <2>2. UNCHANGED role
    BY <1>3 DEF Sync, AddGame
  <2> QED
    BY <2>1, <2>2, ExperienceColumn
<1>4. CASE Send \/ Publish \/ Fail \/ Enlist \/ ApplyEnlist \/ ReadProfile \/ WriteProfile
           \/ UNCHANGED vars
  BY <1>4 DEF Send, Publish, Fail, Enlist, ApplyEnlist, ReadProfile, WriteProfile, vars
<1>5. CASE \/ Cancel \/ Wrong \/ Begin \/ BeginField \/ FullName \/ NeedsPass \/ Citizenship
           \/ LatinName \/ Phone \/ Email \/ Contact \/ Nickname \/ Crossplay
  BY <1>5, DecidingLeaves
<1> QED
  BY <1>1, <1>2, <1>3, <1>4, <1>5 DEF Next, Gateway, Worker

\* The save that ends a turn does not undo a role that an administrator has
\* written since the turn read the row (UserRepository.save and its columns).
THEOREM RoleSurvives == ASSUME StartsAssumption PROVE Spec => []RoleIsKept
<1>1. Init => RoleIsKept
  BY DEF Init, RoleIsKept
<1>2. ASSUME IInv, RoleIsKept, [Next]_vars PROVE RoleIsKept'
  BY <1>2, RowSteps, SavedRow DEF RoleIsKept
<1> QED
  BY <1>1, <1>2, Invariant, PTL DEF Spec

\* A complete profile stays complete, wherever an edit of a field stops; the
\* worker refuses to copy an incomplete one (UPDATE_PROFILE).
THEOREM CompleteForGood == ASSUME StartsAssumption PROVE Spec => StaysComplete
<1>1. ASSUME IInv, [Next]_vars, Complete(user) PROVE Complete(user')
  <2>1. CASE turn.step # "free" /\ user' = Saved(turn.user)
    BY <1>1, <2>1, SavedRow DEF IInv
  <2>2. CASE DialogueKept
    BY <1>1, <2>2 DEF DialogueKept, Complete
  <2> QED
    BY <1>1, <2>1, <2>2, RowSteps
<1> QED
  BY <1>1, Invariant, PTL DEF Spec, StaysComplete
=============================================================================
